--------------------------- MODULE MedorPeerShards ---------------------------
(***************************************************************************)
(* The shards of PeerManager (src/src/net/peer_manager.cpp) while they are *)
(* doubled: threads add and remove peers, each finding its shard from the  *)
(* number of shards before it locks that shard; a thread that has added    *)
(* one may redistribute them all.                                          *)
(*                                                                         *)
(* push_back may also move the vector under a reader's feet; that is not   *)
(* modelled, each shard is found where it was.                             *)
(***************************************************************************)
EXTENDS Naturals, Sequences, FiniteSets

CONSTANTS
    Peer, Thread,
    HashOf,      \* std::hash of an id
    FirstCount,  \* cfg_.peerMapShards
    PerShard,    \* the 8 of maybeGrowShards
    MaxShards    \* 1024

VARIABLES
    shards,      \* from shard numbers to the ids they hold
    shardCount,
    growing,     \* growthInProgress_, by whom
    thread       \* what each thread does, to whom, in which shard

vars == <<shards, shardCount, growing, thread>>

Idle == [at |-> "idle"]
Nobody == "nobody"

Init ==
    /\ shards = [i \in 0..(FirstCount - 1) |-> {}] /\ shardCount = FirstCount
    /\ growing = Nobody
    /\ thread = [t \in Thread |-> Idle]

Shards == DOMAIN shards
shardIndex(p, count) == HashOf[p] % count
Goes(t, next) == thread' = [thread EXCEPT ![t] = next]

\* addPeer and removePeer find the shard; isBanned and the others do alike.
shardFor(t, p) ==
    /\ thread[t] = Idle
    /\ \E what \in {"add", "remove"} :
           Goes(t, [at |-> what, peer |-> p, shard |-> shardIndex(p, shardCount)])
    /\ UNCHANGED <<shards, shardCount, growing>>

addPeer(t) ==
    /\ thread[t].at = "add"
    /\ LET p == thread[t].peer
           i == thread[t].shard
       IN  IF p \in shards[i] THEN Goes(t, Idle) /\ UNCHANGED shards
           ELSE /\ shards' = [shards EXCEPT ![i] = @ \cup {p}]
                /\ Goes(t, [at |-> "grow"])
    /\ UNCHANGED <<shardCount, growing>>

removePeer(t) ==
    /\ thread[t].at = "remove"
    /\ shards' = [shards EXCEPT ![thread[t].shard] = @ \ {thread[t].peer}]
    /\ Goes(t, Idle)
    /\ UNCHANGED <<shardCount, growing>>

\* maybeGrowShards: one thread at a time counts the peers.
Total == LET held == {<<i, p>> \in Shards \X Peer : p \in shards[i]} IN Cardinality(held)

BeginGrowth(t) ==
    /\ thread[t].at = "grow"
    /\ IF growing = Nobody /\ Total > shardCount * PerShard /\ 2 * shardCount <= MaxShards
       THEN growing' = t /\ Goes(t, [at |-> "redistribute"])
       ELSE growing' = growing /\ Goes(t, Idle)
    /\ UNCHANGED <<shards, shardCount>>

\* With all shards locked: every peer goes to its new shard.
Redistribute(t) ==
    /\ thread[t].at = "redistribute"
    /\ LET next == 2 * shardCount
       IN  /\ shards' = [i \in 0..(next - 1) |->
                             {p \in UNION {shards[j] : j \in Shards} : shardIndex(p, next) = i}]
           /\ shardCount' = next
    /\ growing' = Nobody /\ Goes(t, Idle)

Next ==
    \E t \in Thread :
        \/ \E p \in Peer : shardFor(t, p)
        \/ addPeer(t) \/ removePeer(t) \/ BeginGrowth(t) \/ Redistribute(t)

Spec == Init /\ [][Next]_vars

-----------------------------------------------------------------------------
(* Properties *)

\* peer_manager.cpp:145: "SHARD GROWTH - race-condition free".  Every peer
\* is in the shard in which it will be looked for, and only there.
EachInItsShard ==
    \A i \in Shards : \A p \in shards[i] : shardIndex(p, shardCount) = i
=============================================================================

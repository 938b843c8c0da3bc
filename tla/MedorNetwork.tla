---------------------------- MODULE MedorNetwork ----------------------------
(***************************************************************************)
(* Network (src/src/network.cpp): start and stop, the listener, what the   *)
(* inbound workers do with a connection, and the files read at start and   *)
(* written at stop.                                                        *)
(*                                                                         *)
(* A peer enters the table only in connectToPeer, which asks for the       *)
(* number of peers while it holds the lock of a shard that the question    *)
(* takes again: std::shared_mutex throws in a function that is noexcept    *)
(* and the process ends.  So the table is empty as long as the process     *)
(* lives, and what needs an entry (bans, rate limits, deliveries, pings)   *)
(* does nothing.  A connection brings one frame.                           *)
(***************************************************************************)
EXTENDS Naturals, FiniteSets

CONSTANTS
    Conn,
    Message, KindOf,    \* "block", "transaction", "batch", "ping" or "pong"
    PrefixOf,           \* the first 32 bytes of the payload
    Address,
    InboundQueueDepth, InboundWorkers,
    SeenLimit           \* 500000

VARIABLES
    network,        \* "down", "starting", "running", "draining", "stopping" or "ended"
    conn,           \* for each connection where it is, and what it brings
    seenMsgIds,
    activePeers,    \* the metric
    peerStore,      \* the addresses in the peer file
    pendingStore,   \* those in the file of pending sends
    fresh,          \* history: connections passed on since the prefixes were last forgotten
    delivered       \* history: how often these brought a prefix to a callback

networkVars == <<network, conn, seenMsgIds, activePeers, peerStore, pendingStore, fresh, delivered>>

Prefix == {PrefixOf[m] : m \in Message}
NoFrame == "no frame"

\* The files may be there from before.
Init ==
    /\ network = "down"
    /\ conn = [k \in Conn |-> [at |-> "new", brings |-> NoFrame]]
    /\ seenMsgIds = {} /\ activePeers = 0
    /\ peerStore \in SUBSET Address /\ pendingStore \in SUBSET Address
    /\ fresh = {} /\ delivered = [p \in Prefix |-> 0]

At(place) == {k \in Conn : conn[k].at = place}
Move(k, place) == conn' = [conn EXCEPT ![k].at = place]

-----------------------------------------------------------------------------
(* start, stop *)

\* The listeners may not get their port.
Start ==
    /\ network = "down"
    /\ network' \in {"down", "starting"}
    /\ UNCHANGED <<conn, seenMsgIds, activePeers, peerStore, pendingStore, fresh, delivered>>

\* recoverPendingQueue and loadPeers call connectToPeer for each address.
LoadStores ==
    /\ network = "starting"
    /\ network' = IF peerStore \cup pendingStore = {} THEN "running" ELSE "ended"
    /\ UNCHANGED <<conn, seenMsgIds, activePeers, peerStore, pendingStore, fresh, delivered>>

ConnectToPeer ==
    /\ network = "running" /\ network' = "ended"
    /\ UNCHANGED <<conn, seenMsgIds, activePeers, peerStore, pendingStore, fresh, delivered>>

Stop ==
    /\ network = "running" /\ network' = "draining"
    /\ UNCHANGED <<conn, seenMsgIds, activePeers, peerStore, pendingStore, fresh, delivered>>

Drained ==
    /\ network = "draining" /\ At("queued") \cup At("read") \cup At("dispatch") = {}
    /\ network' = "stopping"
    /\ UNCHANGED <<conn, seenMsgIds, activePeers, peerStore, pendingStore, fresh, delivered>>

\* persistPendingQueue, savePeers: no peer, and nothing sent, to write.
SaveStores ==
    /\ network = "stopping" /\ network' = "down"
    /\ peerStore' = {} /\ pendingStore' = {}
    /\ UNCHANGED <<conn, seenMsgIds, activePeers, fresh, delivered>>

-----------------------------------------------------------------------------
(* runListener *)

\* Nobody is banned and the table is not full: it is empty.  A connection
\* accepted while stop drains still gets in.
Accept(k, m) ==
    /\ network \in {"starting", "running", "draining", "stopping"} /\ k \in At("new")
    /\ IF Cardinality(At("queued")) >= InboundQueueDepth
       THEN Move(k, "closed") /\ UNCHANGED activePeers
       ELSE /\ conn' = [conn EXCEPT ![k] = [at |-> "queued", brings |-> m]]
            /\ activePeers' = activePeers + 1
    /\ UNCHANGED <<network, seenMsgIds, peerStore, pendingStore, fresh, delivered>>

-----------------------------------------------------------------------------
(* handleInbound, dispatchFrame *)

InboundStep(k) == network # "ended" /\ UNCHANGED <<network, activePeers, peerStore, pendingStore>>

\* The connection is lost, or what it brings is no frame: nobody to ban.
RecvFails(k) ==
    /\ InboundStep(k) /\ k \in At("queued")
    /\ Move(k, "closed")
    /\ UNCHANGED <<seenMsgIds, fresh, delivered>>

Recv(k) ==
    /\ InboundStep(k) /\ k \in At("queued")
    /\ Cardinality(At("read") \cup At("dispatch")) < InboundWorkers
    /\ Move(k, "read")
    /\ UNCHANGED <<seenMsgIds, fresh, delivered>>

\* Variant: the prefix is looked up and not kept.
SeenBefore(p) == seenMsgIds

SeenWith(p) == seenMsgIds \cup {p}

Remember(k, p) ==
    IF Cardinality(SeenWith(p)) > SeenLimit
    THEN seenMsgIds' = {} /\ fresh' = {} /\ delivered' = [q \in Prefix |-> 0]
    ELSE seenMsgIds' = SeenWith(p) /\ fresh' = fresh \cup {k} /\ UNCHANGED delivered

CheckSeen(k) ==
    /\ InboundStep(k) /\ k \in At("read")
    /\ LET p == PrefixOf[conn[k].brings]
       IN  \/ p \in seenMsgIds /\ Move(k, "closed") /\ UNCHANGED <<seenMsgIds, fresh, delivered>>
           \/ p \notin seenMsgIds /\ Move(k, "dispatch") /\ Remember(k, p)

\* A batch is decoded as one transaction and its count taken for a length:
\* what follows is not a number.
Decodes(m) == KindOf[m] \in {"block", "transaction"}

\* The callbacks are called one at a time.  A ping is answered to nobody.
Dispatch(k) ==
    /\ InboundStep(k) /\ k \in At("dispatch")
    /\ Move(k, "closed")
    /\ LET m == conn[k].brings
       IN  delivered' = IF Decodes(m) /\ k \in fresh
                        THEN [delivered EXCEPT ![PrefixOf[m]] = @ + 1] ELSE delivered
    /\ UNCHANGED <<seenMsgIds, fresh>>

Next ==
    \/ Start \/ LoadStores \/ ConnectToPeer \/ Stop \/ Drained \/ SaveStores
    \/ \E k \in Conn, m \in Message : Accept(k, m)
    \/ \E k \in Conn : RecvFails(k) \/ Recv(k) \/ CheckSeen(k) \/ Dispatch(k)

Spec == Init /\ [][Next]_networkVars

-----------------------------------------------------------------------------
(* Properties *)

\* A prefix that is remembered, of messages that decode, reaches a callback
\* exactly once, or is on its way there, however many connections bring it
\* at the same time and whatever start and stop do.
ReachesCallbackOnce ==
    \A p \in Prefix :
        LET onTheirWay == {k \in At("dispatch") \cap fresh : PrefixOf[conn[k].brings] = p}
        IN  (\A m \in Message : PrefixOf[m] = p => Decodes(m)) =>
                delivered[p] + Cardinality(onTheirWay) = IF p \in seenMsgIds THEN 1 ELSE 0
=============================================================================

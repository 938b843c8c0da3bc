-------------------------- MODULE MedorPeerManager --------------------------
(***************************************************************************)
(* PeerManager (src/src/net/peer_manager.cpp): scores, bans, rate limits,  *)
(* decode errors, the ids of messages seen, and the peer file.  Every call *)
(* that locks is one step; a thread that has several to make holds them in *)
(* todo, and other threads come in between.                                *)
(*                                                                         *)
(* A score is in tenths of a point.  Byte quotas, metrics and callbacks    *)
(* are left out; the shards are in MedorPeerShards.                        *)
(***************************************************************************)
EXTENDS Integers, FiniteSetsExt, SequencesExt

CONSTANTS
    Peer, Worker,          \* ids; threads that handle frames
    MaxScore,              \* 100 points
    UnbanScore,            \* 10 points
    BanSecs, MaxBans,      \* cfg_.banDurationSecs, maxBanCount
    MaxDecodeErrors,       \* cfg_.maxDecodeErrorsBeforeBan
    Burst, Rate,           \* cfg_.tokenBucketBurstMsg, maxMsgPerSecPerPeer
    PeerTimeout, MaxPeers, \* cfg_.peerTimeoutSecs, maxPeers
    Incremental,           \* cfg_.incrementalSave
    HalfSeen,              \* SEEN_MAX / 2
    MaxClock, MaxStarts    \* bounds

VARIABLES
    peers,                 \* from ids to what is known of them
    dirtyIds,
    peerFile,              \* what the peer file holds
    seenActive, seenStale,
    todo,                  \* the calls each thread still has to make
    accepted,              \* history: ids markSeen accepted since they were last cleared
    clock, starts

pmVars == <<peers, dirtyIds, peerFile, seenActive, seenStale, todo, accepted, clock, starts>>

Timer == "timer"
Thread == Worker \cup {Timer}
Known == DOMAIN peers
None == [p \in {} |-> 0]

Init ==
    /\ peers = None /\ dirtyIds = {} /\ peerFile = None
    /\ seenActive = {} /\ seenStale = {} /\ accepted = <<>>
    /\ todo = [t \in Thread |-> <<>>] /\ clock = 1 /\ starts = 0

-----------------------------------------------------------------------------
(* What the calls do to one peer *)

Clamped(score) == Max({0, Min({score, MaxScore})})

Ban(peer) ==
    [peer EXCEPT !.banned = TRUE, !.until = clock + BanSecs, !.bans = Min({@ + 1, MaxBans})]

\* applyScore
Scored(peer, delta) ==
    LET scored == [peer EXCEPT !.score = Clamped(@ + delta)]
    IN  IF scored.score = 0 /\ ~peer.banned THEN Ban(scored) ELSE scored

\* recordDecodeError
DecodeFailed(peer) ==
    LET counted == [peer EXCEPT !.errors = Min({@ + 1, MaxDecodeErrors})]
    IN  IF counted.errors >= MaxDecodeErrors /\ ~peer.banned THEN Ban(counted) ELSE counted

Handshaken(peer) ==
    [peer EXCEPT !.handshake = TRUE, !.seen = clock, !.score = Min({@ + 50, MaxScore})]

Refilled(peer) ==
    [peer EXCEPT !.tokens = Min({@ + (clock - peer.refill) * Rate, Burst}), !.refill = clock]

\* Variant: the score of a ban that has expired stays what it was.
UnbannedKeepingScore(peer) ==
    IF peer.banned /\ clock >= peer.until THEN [peer EXCEPT !.banned = FALSE] ELSE peer

\* unbanExpiredPeers; the decode errors stay counted.
Unbanned(peer) ==
    IF peer.banned /\ clock >= peer.until
    THEN [peer EXCEPT !.banned = FALSE, !.score = UnbanScore] ELSE peer

NewPeer ==
    [score |-> MaxScore, banned |-> FALSE, until |-> 0, bans |-> 0, errors |-> 0,
     handshake |-> FALSE, seen |-> 0, tokens |-> Burst, refill |-> clock]

Changed(p, peer) == [peers EXCEPT ![p] = peer]
Added(p, peer) == [q \in Known \cup {p} |-> IF q = p THEN peer ELSE peers[q]]

-----------------------------------------------------------------------------
(* Calls.  A call is a record, its field "do" the function called. *)

Score(p, tenths) == [do |-> "score", peer |-> p, by |-> tenths]
BanPeer(p) == [do |-> "ban", peer |-> p]
RecordDecodeError(p) == [do |-> "decodeError", peer |-> p]
HandshakeDone(p) == [do |-> "handshake", peer |-> p]
RemovePeer(p) == [do |-> "remove", peer |-> p]

Call(t) == Head(todo[t])
Return(t) == todo' = [todo EXCEPT ![t] = Tail(@)]
ReturnAnd(t, calls) == todo' = [todo EXCEPT ![t] = calls \o Tail(@)]

\* Calls that change one peer, if it is there.
ChangePeer(t) ==
    /\ todo[t] # <<>> /\ Call(t).do \in {"score", "ban", "decodeError", "handshake"}
    /\ LET p == Call(t).peer
           do == Call(t).do
       IN  /\ peers' = IF p \notin Known THEN peers
                       ELSE IF do = "score" THEN Changed(p, Scored(peers[p], Call(t).by))
                       ELSE IF do = "ban" THEN Changed(p, Ban(peers[p]))
                       ELSE IF do = "decodeError" THEN Changed(p, DecodeFailed(peers[p]))
                       ELSE Changed(p, Handshaken(peers[p]))
           /\ dirtyIds' = IF do = "handshake" /\ p \in Known THEN dirtyIds \cup {p} ELSE dirtyIds
    /\ Return(t)
    /\ UNCHANGED <<peerFile, seenActive, seenStale, accepted, clock, starts>>

RemoveStale(t) ==
    /\ todo[t] # <<>> /\ Call(t).do = "remove"
    /\ peers' = [q \in Known \ {Call(t).peer} |-> peers[q]]
    /\ Return(t)
    /\ UNCHANGED <<dirtyIds, peerFile, seenActive, seenStale, accepted, clock, starts>>

\* addPeer, by whoever connects; the number of peers is read before.
AddPeer(p) ==
    /\ starts > 0 /\ p \notin Known /\ Cardinality(Known) < MaxPeers
    /\ peers' = Added(p, NewPeer) /\ dirtyIds' = dirtyIds \cup {p}
    /\ UNCHANGED <<peerFile, seenActive, seenStale, todo, accepted, clock, starts>>

\* doHandshake's outcomes: a timeout or an empty id, a wrong network, a
\* wrong version, success; a broken connection changes nothing.
DoHandshake(t, p) ==
    /\ starts > 0 /\ todo[t] = <<>> /\ p \in Known
    /\ \E outcome \in {Score(p, -100), BanPeer(p), Score(p, -200), HandshakeDone(p)} :
           todo' = [todo EXCEPT ![t] = <<outcome>>]
    /\ UNCHANGED <<peers, dirtyIds, peerFile, seenActive, seenStale, accepted, clock, starts>>

-----------------------------------------------------------------------------
(* markSeen *)

Seen(id) == id \in seenActive \cup seenStale

\* Variant: a full bucket is dropped when it is rotated.
MarkDropping(id) ==
    LET active == seenActive \cup {id}
        full == Cardinality(active) >= HalfSeen
    IN  /\ seenActive' = IF full THEN {} ELSE active
        /\ seenStale' = IF full THEN {} ELSE seenStale
        /\ accepted' = Append(accepted, id)

\* A full active bucket becomes the stale one.
Mark(id) ==
    LET active == seenActive \cup {id}
        full == Cardinality(active) >= HalfSeen
    IN  /\ seenActive' = IF full THEN {} ELSE active
        /\ seenStale' = IF full THEN active ELSE seenStale
        /\ accepted' = Append(accepted, id)

-----------------------------------------------------------------------------
(* The timer: cleaning up and saving *)

CleanUp ==
    /\ starts > 0 /\ todo[Timer] = <<>>
    /\ todo' = [todo EXCEPT ![Timer] =
           << [do |-> "stale"], [do |-> "low"], [do |-> "unban"], [do |-> "forget"] >>]
    /\ UNCHANGED <<peers, dirtyIds, peerFile, seenActive, seenStale, accepted, clock, starts>>

\* The peers are chosen under shared locks and removed or banned after.
EvictStalePeers ==
    /\ todo[Timer] # <<>> /\ Call(Timer).do = "stale"
    /\ LET stale == {p \in Known : /\ ~peers[p].banned /\ peers[p].seen > 0
                                   /\ peers[p].seen < clock - PeerTimeout}
       IN  ReturnAnd(Timer, SetToSeq({RemovePeer(p) : p \in stale}))
    /\ UNCHANGED <<peers, dirtyIds, peerFile, seenActive, seenStale, accepted, clock, starts>>

EvictLowScorePeers ==
    /\ todo[Timer] # <<>> /\ Call(Timer).do = "low"
    /\ LET low == {p \in Known : peers[p].score = 0 /\ ~peers[p].banned}
       IN  ReturnAnd(Timer, SetToSeq({BanPeer(p) : p \in low}))
    /\ UNCHANGED <<peers, dirtyIds, peerFile, seenActive, seenStale, accepted, clock, starts>>

UnbanExpiredPeers ==
    /\ todo[Timer] # <<>> /\ Call(Timer).do = "unban"
    /\ peers' = [p \in Known |-> Unbanned(peers[p])]
    /\ dirtyIds' = dirtyIds \cup {p \in Known : peers[p].banned /\ clock >= peers[p].until}
    /\ Return(Timer)
    /\ UNCHANGED <<peerFile, seenActive, seenStale, accepted, clock, starts>>

\* cleanupSeenMessages
ForgetSeen ==
    /\ todo[Timer] # <<>> /\ Call(Timer).do = "forget"
    /\ seenActive' = {} /\ seenStale' = {} /\ accepted' = <<>>
    /\ Return(Timer)
    /\ UNCHANGED <<peers, dirtyIds, peerFile, clock, starts>>

\* savePeers takes the dirty ids, then reads those peers, then replaces the
\* file, unless it cannot be opened.
SavePeers ==
    /\ starts > 0 /\ todo[Timer] = <<>>
    /\ todo' = [todo EXCEPT ![Timer] =
           << [do |-> "read", ids |-> IF Incremental THEN dirtyIds ELSE Peer] >>]
    /\ dirtyIds' = IF Incremental THEN {} ELSE dirtyIds
    /\ UNCHANGED <<peers, peerFile, seenActive, seenStale, accepted, clock, starts>>

ReadPeers ==
    /\ todo[Timer] # <<>> /\ Call(Timer).do = "read"
    /\ ReturnAnd(Timer, << [do |-> "write", peers |-> [p \in Known \cap Call(Timer).ids |-> peers[p]]] >>)
    /\ UNCHANGED <<peers, dirtyIds, peerFile, seenActive, seenStale, accepted, clock, starts>>

WriteFile ==
    /\ todo[Timer] # <<>> /\ Call(Timer).do = "write"
    /\ peerFile' \in {peerFile, Call(Timer).peers}
    /\ Return(Timer)
    /\ UNCHANGED <<peers, dirtyIds, seenActive, seenStale, accepted, clock, starts>>

\* loadPeers: bans that have expired take their peer with them.
Loaded ==
    [p \in {q \in DOMAIN peerFile : ~(peerFile[q].banned /\ peerFile[q].until <= clock)} |->
        [peerFile[p] EXCEPT !.handshake = FALSE, !.tokens = Burst, !.refill = clock]]

Start ==
    /\ starts < MaxStarts /\ (starts > 0 => todo[Timer] = <<>>)
    /\ starts' = starts + 1
    /\ peers' = Loaded /\ dirtyIds' = DOMAIN Loaded
    /\ seenActive' = {} /\ seenStale' = {} /\ accepted' = <<>>
    /\ todo' = [t \in Thread |-> <<>>]
    /\ UNCHANGED <<peerFile, clock>>

Tick ==
    /\ clock < MaxClock /\ clock' = clock + 1
    /\ UNCHANGED <<peers, dirtyIds, peerFile, seenActive, seenStale, todo, accepted, starts>>

ManagerStep ==
    \/ Start \/ Tick \/ CleanUp \/ SavePeers
    \/ EvictStalePeers \/ EvictLowScorePeers \/ UnbanExpiredPeers \/ ForgetSeen
    \/ ReadPeers \/ WriteFile
    \/ \E p \in Peer : AddPeer(p)
    \/ \E t \in Thread : ChangePeer(t) \/ RemoveStale(t)

-----------------------------------------------------------------------------
(* Properties *)

\* A peer whose score has reached zero is banned: whoever lowers it, unbans
\* it, saves or loads it, none stays at zero and at large.
NoneAtZero == \A p \in Known : peers[p].score = 0 => peers[p].banned

\* No message is taken for new again before SEEN_MAX / 2 others have been,
\* unless all were forgotten in between.
NoReplay ==
    \A i, j \in DOMAIN accepted : i < j /\ accepted[i] = accepted[j] => j - i > HalfSeen
=============================================================================

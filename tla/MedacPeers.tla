----------------------------- MODULE MedacPeers -----------------------------
(***************************************************************************)
(* The connections of one MEDAC node (src/medac_node.cjs): the peer table, *)
(* dialling and reconnecting to the seed peers, inbound connections up to  *)
(* the capacity, the handshake and heartbeat timers, start and stop as     *)
(* src/medac_main.cjs calls them.                                          *)
(*                                                                         *)
(* A socket is a slot that is used again once its close event has run.     *)
(* The remote end may go silent without closing (a half-open connection).  *)
(* Left out: what the frames say (MedacSync) and the length of the delays, *)
(* which only decide when a timer fires.                                   *)
(***************************************************************************)
EXTENDS FiniteSets, Naturals

CONSTANTS
    Url,               \* seedPeers, each listed once
    Outbound, Inbound, \* the sockets the node dials, and those it accepts
    MaxPeers,          \* this.maxPeers
    None               \* no entry; no peerUrl

ASSUME PeersAssumption ==
    /\ Outbound \cap Inbound = {} /\ Url \cap (Outbound \cup Inbound) = {}
    /\ None \notin Url \cup Outbound \cup Inbound
    /\ MaxPeers \in Nat \ {0}

Socket == Outbound \cup Inbound
Id == Url \cup Inbound         \* peer.id: the URL, or a name of its own

VARIABLES
    phase,             \* of the node: started and stopping, and in between
    socket,            \* each socket, its URL and what the node keeps of its peer
    peers,             \* this.peers, from ids to sockets
    timers,            \* keys of this.reconnectTimers
    silent,            \* the remote end of the socket answers no more
    gaveUp             \* history: seeds connectTo did not dial, being at capacity

vars == <<phase, socket, peers, timers, silent, gaveUp>>

Free == [state |-> "free", url |-> None, attached |-> FALSE, ready |-> FALSE, alive |-> TRUE]

IdOf(s) == IF s \in Inbound THEN s ELSE socket[s].url
Listed == {id \in Id : peers[id] # None}
Full == Cardinality(Listed) >= MaxPeers
Stopping == phase \in {"stopping", "stopped"}
IsOpen(s) == socket[s].state = "open"

Init ==
    /\ phase = "new"
    /\ socket = [s \in Socket |-> Free]
    /\ peers = [id \in Id |-> None]
    /\ timers = {}
    /\ silent = {}
    /\ gaveUp = {}

-----------------------------------------------------------------------------
(* Start, dialling, attaching *)

Connecting(u) == [Free EXCEPT !.state = "connecting", !.url = u]

\* start: the server listens, and every seed is dialled.
Start ==
    /\ phase = "new"
    /\ phase' = "started"
    /\ \E dial \in [Url -> Outbound] :
           /\ \A u, v \in Url : u # v => dial[u] # dial[v]
           /\ socket' = [s \in Socket |->
                 IF \E u \in Url : dial[u] = s
                 THEN Connecting(CHOOSE u \in Url : dial[u] = s) ELSE socket[s]]
    /\ UNCHANGED <<peers, timers, silent, gaveUp>>

\* The chain does not open or the port is taken.
StartFails ==
    /\ phase = "new"
    /\ phase' = "failed"
    /\ UNCHANGED <<socket, peers, timers, silent, gaveUp>>

\* connectTo: at capacity it returns, and so it does for a seed that is listed.
ConnectTo(u) ==
    \/ /\ Stopping \/ Full
       /\ gaveUp' = IF Stopping THEN gaveUp ELSE gaveUp \cup {u}
       /\ UNCHANGED socket
    \/ /\ ~Stopping /\ ~Full /\ peers[u] # None
       /\ UNCHANGED <<socket, gaveUp>>
    \/ /\ ~Stopping /\ ~Full /\ peers[u] = None
       /\ \E s \in Outbound :
              /\ socket[s] = Free
              /\ socket' = [socket EXCEPT ![s] = Connecting(u)]
       /\ UNCHANGED gaveUp

TimerFires(u) ==
    /\ u \in timers
    /\ timers' = timers \ {u}
    /\ ConnectTo(u)
    /\ UNCHANGED <<phase, peers, silent>>

\* Variant: the capacity is looked at when dialling, not when attaching.
AttachBeyondCapacity(s, id) ==
    IF Stopping
    THEN /\ socket' = [socket EXCEPT ![s].state = "closing"]
         /\ UNCHANGED peers
    ELSE /\ socket' = [socket EXCEPT ![s].state = "open", ![s].attached = TRUE]
         /\ peers' = [peers EXCEPT ![id] = s]

\* Variant: a socket that opens after stop is attached.
AttachLate(s, id) ==
    IF Full
    THEN /\ socket' = [socket EXCEPT ![s].state = "closing"]
         /\ UNCHANGED peers
    ELSE /\ socket' = [socket EXCEPT ![s].state = "open", ![s].attached = TRUE]
         /\ peers' = [peers EXCEPT ![id] = s]

\* _attachPeer of socket s, open now, under this id; a node that is stopping or
\* full closes it instead.
AttachPeer(s, id) ==
    IF Stopping \/ Full
    THEN /\ socket' = [socket EXCEPT ![s].state = "closing"]
         /\ UNCHANGED peers
    ELSE /\ socket' = [socket EXCEPT ![s].state = "open", ![s].attached = TRUE]
         /\ peers' = [peers EXCEPT ![id] = s]

\* The dialled socket opens.
SocketOpens(s) ==
    /\ socket[s].state = "connecting"
    /\ AttachPeer(s, socket[s].url)
    /\ UNCHANGED <<phase, timers, silent, gaveUp>>

\* The server hands over a connection; from stop on it accepts none.
Accept(s) ==
    /\ phase = "started" /\ s \in Inbound /\ socket[s] = Free
    /\ AttachPeer(s, s)
    /\ UNCHANGED <<phase, timers, silent, gaveUp>>

-----------------------------------------------------------------------------
(* The life of a connection *)

\* The remote end's version arrives.
Version(s) ==
    /\ IsOpen(s) /\ s \notin silent
    /\ socket' = [socket EXCEPT ![s].ready = TRUE]
    /\ UNCHANGED <<phase, peers, timers, silent, gaveUp>>

Pong(s) ==
    /\ IsOpen(s) /\ s \notin silent
    /\ socket' = [socket EXCEPT ![s].alive = TRUE]
    /\ UNCHANGED <<phase, peers, timers, silent, gaveUp>>

GoesSilent(s) ==
    /\ IsOpen(s)
    /\ silent' = silent \cup {s}
    /\ UNCHANGED <<phase, socket, peers, timers, gaveUp>>

\* The remote end closes, or a frame of its is refused.
Closes(s) ==
    /\ IsOpen(s) /\ s \notin silent
    /\ socket' = [socket EXCEPT ![s].state = "closing"]
    /\ UNCHANGED <<phase, peers, timers, silent, gaveUp>>

HandshakeTimeout(s) ==
    /\ IsOpen(s) /\ ~socket[s].ready
    /\ socket' = [socket EXCEPT ![s].state = "closing"]
    /\ UNCHANGED <<phase, peers, timers, silent, gaveUp>>

\* Variant: the peers are pinged and alive is not cleared.
PingOnly ==
    /\ phase = "started"
    /\ socket' = [s \in Socket |->
          IF IsOpen(s) /\ peers[IdOf(s)] = s /\ ~socket[s].alive
          THEN [socket[s] EXCEPT !.state = "closing"] ELSE socket[s]]
    /\ UNCHANGED <<phase, peers, timers, silent, gaveUp>>

\* _heartbeatPeers: the peers that have not answered the last ping are cut off,
\* the others are pinged.
Heartbeat ==
    /\ phase = "started"
    /\ socket' = [s \in Socket |->
          IF IsOpen(s) /\ peers[IdOf(s)] = s
          THEN IF socket[s].alive THEN [socket[s] EXCEPT !.alive = FALSE]
               ELSE [socket[s] EXCEPT !.state = "closing"]
          ELSE socket[s]]
    /\ UNCHANGED <<phase, peers, timers, silent, gaveUp>>

\* Variant: connectTo has no close listener, only _removePeer schedules.
SchedulesIfAttached(s) ==
    s \in Outbound /\ ~Stopping /\ socket[s].attached

\* Whether the close of socket s schedules a reconnection: connectTo's listener
\* runs first and does so if the seed is not listed, _removePeer if the peer was
\* attached; _scheduleReconnect does nothing once the node is stopping.
Schedules(s) ==
    /\ s \in Outbound /\ ~Stopping
    /\ socket[s].attached \/ peers[socket[s].url] = None

\* The close event of socket s, also of a dial that fails.  _removePeer deletes
\* the entry of an attached peer; a seed has one timer at most.
CloseEvent(s) ==
    /\ socket[s].state \in {"closing", "connecting"}
    /\ socket' = [socket EXCEPT ![s] = Free]
    /\ peers' = IF socket[s].attached THEN [peers EXCEPT ![IdOf(s)] = None] ELSE peers
    /\ timers' = IF Schedules(s) THEN timers \cup {socket[s].url} ELSE timers
    /\ silent' = silent \ {s}
    /\ UNCHANGED <<phase, gaveUp>>

-----------------------------------------------------------------------------
(* Stop *)

\* stop up to its first await: timers are cleared, listed peers terminated and
\* the table emptied.
Stop ==
    /\ phase = "started"
    /\ phase' = "stopping"
    /\ timers' = {}
    /\ socket' = [s \in Socket |->
          IF IsOpen(s) /\ peers[IdOf(s)] = s
          THEN [socket[s] EXCEPT !.state = "closing"] ELSE socket[s]]
    /\ peers' = [id \in Id |-> None]
    /\ UNCHANGED <<silent, gaveUp>>

\* The server closes once its last client has gone; then the chain is closed.
StopReturns ==
    /\ phase = "stopping"
    /\ \A s \in Inbound : socket[s] = Free
    /\ phase' = "stopped"
    /\ UNCHANGED <<socket, peers, timers, silent, gaveUp>>

Next ==
    \/ Start \/ StartFails \/ Stop \/ StopReturns \/ Heartbeat
    \/ \E u \in Url : TimerFires(u)
    \/ \E s \in Inbound : Accept(s)
    \/ \E s \in Outbound : SocketOpens(s)
    \/ \E s \in Socket : \/ Version(s) \/ Pong(s) \/ GoesSilent(s) \/ Closes(s)
                         \/ HandshakeTimeout(s) \/ CloseEvent(s)

Spec == Init /\ [][Next]_vars

\* Timers fire, and a socket that is closing or connecting closes or opens in
\* the end (ws gives up waiting for a close frame after 30 seconds, the system
\* for a connection).  Nothing is expected of the remote ends.
Fairness ==
    /\ WF_vars(Heartbeat) /\ WF_vars(StopReturns)
    /\ \A u \in Url : WF_vars(TimerFires(u))
    /\ \A s \in Socket : WF_vars(HandshakeTimeout(s)) /\ WF_vars(CloseEvent(s))

FairSpec == Spec /\ Fairness

-----------------------------------------------------------------------------
(* Properties *)

TypeOK ==
    /\ phase \in {"new", "started", "stopping", "stopped", "failed"}
    /\ socket \in [Socket -> [state : {"free", "connecting", "open", "closing"},
                              url : Url \cup {None}, attached : BOOLEAN,
                              ready : BOOLEAN, alive : BOOLEAN]]
    /\ peers \in [Id -> Socket \cup {None}]
    /\ timers \subseteq Url /\ silent \subseteq Socket /\ gaveUp \subseteq Url

\* While the node runs the table lists exactly the attached sockets, each under
\* its own id, never more than maxPeers: a late close event removes no entry but
\* its own.
TableExact ==
    /\ phase = "started" =>
           /\ \A s \in Socket : socket[s].attached => peers[IdOf(s)] = s
           /\ \A id \in Listed : socket[peers[id]].attached /\ IdOf(peers[id]) = id
    /\ Cardinality(Listed) <= MaxPeers

\* A seed has at most one socket or timer.
OneDialPerSeed ==
    \A u \in Url :
        Cardinality({s \in Outbound : socket[s].url = u})
            + (IF u \in timers THEN 1 ELSE 0) <= 1

\* While the node runs a seed has a socket or a timer, unless its timer fired
\* at capacity.
NoSeedForgotten ==
    phase = "started" =>
        \A u \in Url : \/ u \in timers \/ u \in gaveUp
                       \/ \E s \in Outbound : socket[s].url = u

\* Whatever closes, fails or is refused, no seed is forgotten, and none is
\* dialled twice: of the two close listeners of a dialled socket exactly one
\* leads to a reconnection.
SeedsCovered == OneDialPerSeed /\ NoSeedForgotten

\* stop comes to its end, with no socket, timer or entry left over: sockets
\* that open late are closed and no close schedules a reconnection.
AllQuiet ==
    /\ phase = "stopped"
    /\ \A s \in Socket : socket[s] = Free
    /\ timers = {} /\ Listed = {}
StopCompletes == (phase = "stopping") ~> []AllQuiet

\* A peer whose remote end has gone silent is removed from the table.
DeadPeersLeave ==
    \A s \in Socket : (socket[s].attached /\ s \in silent) ~> ~socket[s].attached
=============================================================================

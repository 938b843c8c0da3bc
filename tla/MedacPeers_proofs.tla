--------------------------- MODULE MedacPeers_proofs ---------------------------
(***************************************************************************)
(* What holds of the connections of a MEDAC node, for every set of seeds   *)
(* and sockets and every capacity: the table is exact, and every seed is   *)
(* covered by one socket or one timer.                                     *)
(***************************************************************************)
EXTENDS MedacPeers, FiniteSetTheorems, TLAPS

-----------------------------------------------------------------------------
(* The inductive invariant *)

Record == [state : {"free", "connecting", "open", "closing"}, url : Url \cup {None},
           attached : BOOLEAN, ready : BOOLEAN, alive : BOOLEAN]

\* A socket in use knows its seed, if it was dialled; one that is not attached
\* yet, or any more, is in no one's way.
SocketsOK ==
    \A s \in Socket :
        /\ socket[s].state = "free" => socket[s].url = None
        /\ s \in Inbound => socket[s].url = None /\ socket[s].state # "connecting"
        /\ s \in Outbound /\ socket[s].state # "free" => socket[s].url \in Url
        /\ socket[s].attached => socket[s].state \in {"open", "closing"}

\* A seed has one socket or one timer, and not both.
DialsOK ==
    /\ \A s, t \in Outbound : socket[s].url = socket[t].url /\ socket[s].url # None => s = t
    /\ \A u \in timers, s \in Outbound : socket[s].url # u

PhaseOK ==
    /\ phase # "started" => timers = {}
    /\ phase \in {"new", "failed"} => \A s \in Socket : socket[s].state = "free"
    /\ phase = "new" => \A id \in Id : peers[id] = None

\* Entries and attached sockets belong together.
TableOK ==
    phase = "started" =>
        /\ \A s \in Socket : socket[s].attached => peers[IdOf(s)] = s
        /\ \A id \in Id : peers[id] # None =>
               socket[peers[id]].attached /\ IdOf(peers[id]) = id

CapacityOK == IsFiniteSet(Listed) /\ Cardinality(Listed) <= MaxPeers

PeersInv == TypeOK /\ SocketsOK /\ DialsOK /\ PhaseOK /\ TableOK /\ NoSeedForgotten /\ CapacityOK

-----------------------------------------------------------------------------
(* Sockets *)

\* A socket not in use, and one that dials a seed.
LEMMA NewSockets ==
    /\ Free \in Record /\ Free.state = "free" /\ Free.url = None /\ Free.attached = FALSE
    /\ \A u \in Url : /\ Connecting(u) \in Record /\ Connecting(u).state = "connecting"
                      /\ Connecting(u).url = u /\ Connecting(u).attached = FALSE
BY DEF Free, Connecting, Record

\* The types, apart.
LEMMA Types ==
    ASSUME PeersInv
    PROVE  /\ socket \in [Socket -> Record] /\ peers \in [Id -> Socket \cup {None}]
           /\ timers \subseteq Url /\ silent \subseteq Socket /\ gaveUp \subseteq Url
           /\ None \notin Socket /\ None \notin Url
           /\ \A s \in Outbound : s \in Socket /\ s \notin Inbound
           /\ \A s \in Inbound : s \in Socket /\ s \in Id
           /\ \A u \in Url : u \in Id /\ u \notin Socket
BY PeersAssumption DEF PeersInv, TypeOK, Record, Socket, Id

\* The id of an attached socket, and whose it is.
LEMMA Ids ==
    ASSUME PeersInv
    PROVE  /\ \A s \in Socket : socket[s].state \in {"open", "closing"} => IdOf(s) \in Id
           /\ \A s, t \in Socket : /\ IdOf(s) = IdOf(t)
                                   /\ socket[s].state # "free" /\ socket[t].state # "free"
                                   => s = t
<1>1. \A s \in Socket : s \in Inbound \/ s \in Outbound
    BY DEF Socket
<1> QED
    BY <1>1, Types DEF PeersInv, SocketsOK, DialsOK, IdOf

\* The entries grow by one at most.
LEMMA ListedGrows ==
    ASSUME PeersInv, ~Full, NEW id, Listed' \subseteq Listed \cup {id}
    PROVE  CapacityOK'
<1>1. IsFiniteSet(Listed) /\ Cardinality(Listed) \in Nat /\ Cardinality(Listed) < MaxPeers
    BY FS_CardinalityType, PeersAssumption DEF PeersInv, CapacityOK, Full
<1>2. /\ IsFiniteSet(Listed \cup {id})
      /\ Cardinality(Listed \cup {id}) <= Cardinality(Listed) + 1
      /\ Cardinality(Listed \cup {id}) \in Nat
  <2>1. /\ IsFiniteSet(Listed \cup {id})
        /\ Cardinality(Listed \cup {id}) =
               IF id \in Listed THEN Cardinality(Listed) ELSE Cardinality(Listed) + 1
      BY <1>1, FS_AddElement
  <2> QED BY <1>1, <2>1
<1>3. IsFiniteSet(Listed') /\ Cardinality(Listed') <= Cardinality(Listed \cup {id})
      /\ Cardinality(Listed') \in Nat
    BY <1>2, FS_Subset, FS_CardinalityType
<1> QED
    BY <1>1, <1>2, <1>3, PeersAssumption DEF CapacityOK

\* The entries do not grow.
LEMMA ListedShrinks ==
    ASSUME PeersInv, Listed' \subseteq Listed
    PROVE  CapacityOK'
<1>1. IsFiniteSet(Listed) /\ Cardinality(Listed) \in Nat /\ Cardinality(Listed) <= MaxPeers
    BY FS_CardinalityType DEF PeersInv, CapacityOK
<1>2. IsFiniteSet(Listed') /\ Cardinality(Listed') <= Cardinality(Listed)
      /\ Cardinality(Listed') \in Nat
    BY <1>1, FS_Subset, FS_CardinalityType
<1> QED
    BY <1>1, <1>2, PeersAssumption DEF CapacityOK

\* A step after which every socket keeps its seed and its peer: it may be closed.
LEMMA SocketsKept ==
    ASSUME PeersInv, socket' \in [Socket -> Record],
           \A s \in Socket :
               /\ socket'[s].url = socket[s].url /\ socket'[s].attached = socket[s].attached
               /\ \/ socket'[s].state = socket[s].state
                  \/ socket[s].state = "open" /\ socket'[s].state = "closing",
           silent' \subseteq Socket, UNCHANGED <<phase, peers, timers, gaveUp>>
    PROVE  PeersInv'
<1>1. TypeOK'
    BY DEF PeersInv, TypeOK, Record
<1>2. SocketsOK' /\ DialsOK' /\ PhaseOK' /\ NoSeedForgotten'
    BY Types DEF PeersInv, SocketsOK, DialsOK, PhaseOK, NoSeedForgotten
<1>3. TableOK'
    BY Types DEF PeersInv, TableOK, IdOf
<1>4. CapacityOK'
    BY ListedShrinks DEF Listed
<1> QED BY <1>1, <1>2, <1>3, <1>4 DEF PeersInv

-----------------------------------------------------------------------------
(* Steps *)

\* start: every seed is dialled, from a socket of its own.
LEMMA StartStep ==
    ASSUME PeersInv, Start
    PROVE  PeersInv'
<1>1. /\ phase = "new" /\ phase' = "started" /\ UNCHANGED <<peers, timers, silent, gaveUp>>
      /\ \A s \in Socket : socket[s].state = "free" /\ socket[s].url = None /\ ~socket[s].attached
      /\ timers = {} /\ \A id \in Id : peers[id] = None
    BY Types DEF Start, PeersInv, PhaseOK, SocketsOK
<1>2. PICK dial \in [Url -> Outbound] :
          /\ \A u, v \in Url : u # v => dial[u] # dial[v]
          /\ socket' = [s \in Socket |->
                IF \E u \in Url : dial[u] = s
                THEN Connecting(CHOOSE u \in Url : dial[u] = s) ELSE socket[s]]
    BY DEF Start
<1>3. \A s \in Socket :
          \/ /\ socket'[s] = socket[s]
             /\ \A u \in Url : dial[u] # s
          \/ s \in Outbound /\ \E u \in Url : dial[u] = s /\ socket'[s] = Connecting(u)
    BY <1>2
<1>4. \A s \in Socket :
          /\ socket'[s] \in Record /\ ~socket'[s].attached
          /\ \/ socket'[s].state = "free" /\ socket'[s].url = None
                /\ \A u \in Url : dial[u] # s
             \/ /\ socket'[s].state = "connecting" /\ s \in Outbound
                /\ socket'[s].url \in Url /\ dial[socket'[s].url] = s
    BY <1>1, <1>3, Types, NewSockets
<1>5. socket' = [s \in Socket |-> socket'[s]]
    BY <1>2
<1>6. TypeOK'
  <2>1. socket' \in [Socket -> Record]
      BY <1>4, <1>5
  <2> QED BY <1>1, <2>1 DEF PeersInv, TypeOK, Record
<1>7. SocketsOK'
    BY <1>1, <1>4, Types DEF SocketsOK
<1>8. DialsOK'
    BY <1>1, <1>4, Types DEF DialsOK
<1>9. NoSeedForgotten'
  <2> SUFFICES ASSUME NEW u \in Url PROVE \E s \in Outbound : socket'[s].url = u
      BY DEF NoSeedForgotten
  <2>1. dial[u] \in Outbound /\ dial[u] \in Socket
      BY Types
  <2>2. socket'[dial[u]].url = u
      BY <1>2, <1>4, <2>1
  <2> QED BY <2>1, <2>2
<1>10. TableOK' /\ PhaseOK'
    BY <1>1, <1>4 DEF TableOK, PhaseOK
<1>11. CapacityOK'
    BY <1>1, ListedShrinks DEF Listed
<1> QED BY <1>6, <1>7, <1>8, <1>9, <1>10, <1>11 DEF PeersInv

\* start fails: nothing was dialled.
LEMMA StartFailsStep ==
    ASSUME PeersInv, StartFails
    PROVE  PeersInv'
<1>1. phase = "new" /\ phase' = "failed" /\ UNCHANGED <<socket, peers, timers, silent, gaveUp>>
    BY DEF StartFails
<1>2. CapacityOK'
    BY <1>1, ListedShrinks DEF Listed
<1> QED
    BY <1>1, <1>2 DEF PeersInv, TypeOK, SocketsOK, DialsOK, PhaseOK, TableOK, NoSeedForgotten

\* A timer fires: its seed is dialled, or given up at capacity.  It cannot be
\* listed: its socket would still be there.
LEMMA TimerFiresStep ==
    ASSUME PeersInv, NEW u \in Url, TimerFires(u)
    PROVE  PeersInv'
<1>1. /\ u \in timers /\ timers' = timers \ {u} /\ UNCHANGED <<phase, peers, silent>>
      /\ phase = "started" /\ ~Stopping
    BY DEF TimerFires, PeersInv, PhaseOK, Stopping
<1>2. \A s \in Outbound : socket[s].url # u
    BY <1>1 DEF PeersInv, DialsOK
<1>3. peers[u] = None
  <2> SUFFICES ASSUME peers[u] # None PROVE FALSE
      OBVIOUS
  <2>1. /\ peers[u] \in Socket /\ socket[peers[u]].attached /\ IdOf(peers[u]) = u
        /\ u \notin Socket
      BY <1>1, Types DEF PeersInv, TableOK
  <2>2. peers[u] \in Outbound /\ socket[peers[u]].url = u
      BY <2>1 DEF IdOf, Socket
  <2> QED BY <1>2, <2>2
<1>4. CapacityOK'
    BY <1>1, ListedShrinks DEF Listed
<1>5. CASE Full /\ gaveUp' = gaveUp \cup {u} /\ UNCHANGED socket
  <2>1. TypeOK' /\ SocketsOK' /\ DialsOK' /\ PhaseOK'
      BY <1>1, <1>5 DEF PeersInv, TypeOK, SocketsOK, DialsOK, PhaseOK
  <2>2. TableOK' /\ NoSeedForgotten'
      BY <1>1, <1>5 DEF PeersInv, TableOK, IdOf, NoSeedForgotten
  <2> QED BY <1>4, <2>1, <2>2 DEF PeersInv
<1>6. ASSUME NEW s \in Outbound, socket[s] = Free,
             socket' = [socket EXCEPT ![s] = Connecting(u)], UNCHANGED gaveUp
      PROVE  PeersInv'
  <2>1. s \in Socket /\ socket[s].state = "free" /\ socket[s].url = None /\ ~socket[s].attached
      BY <1>6, Types, NewSockets
  <2>2. /\ socket' \in [Socket -> Record] /\ socket'[s].state = "connecting"
        /\ socket'[s].url = u /\ ~socket'[s].attached
        /\ \A t \in Socket \ {s} : socket'[t] = socket[t]
      BY <1>6, <2>1, Types, NewSockets
  <2>3. TypeOK'
      BY <1>1, <1>6, <2>2 DEF PeersInv, TypeOK, Record
  <2>4. SocketsOK'
      BY <2>2, Types DEF PeersInv, SocketsOK
  <2>5. DialsOK'
      BY <1>1, <1>2, <2>2, Types DEF PeersInv, DialsOK
  <2>6. PhaseOK'
      BY <1>1 DEF PeersInv, PhaseOK
  <2>7. TableOK'
      BY <1>1, <2>1, <2>2, Types DEF PeersInv, TableOK, IdOf
  <2>8. NoSeedForgotten'
    <3> SUFFICES ASSUME NEW v \in Url, v \notin timers', v \notin gaveUp'
                 PROVE  \E t \in Outbound : socket'[t].url = v
        BY DEF NoSeedForgotten
    <3>1. CASE v = u
        BY <2>2, <3>1
    <3>2. CASE v # u
      <4>1. PICK t \in Outbound : socket[t].url = v
          BY <1>1, <1>6, <3>2 DEF PeersInv, NoSeedForgotten
      <4>2. t # s /\ t \in Socket
          BY <2>1, <4>1, Types
      <4> QED BY <2>2, <4>1, <4>2
    <3> QED BY <3>1, <3>2
  <2> QED BY <1>4, <2>3, <2>4, <2>5, <2>6, <2>7, <2>8 DEF PeersInv
<1> QED
    BY <1>1, <1>3, <1>5, <1>6 DEF TimerFires, ConnectTo

\* A socket that has opened is attached or closed at once.
LEMMA AttachStep ==
    ASSUME PeersInv, NEW s \in Socket, NEW id, AttachPeer(s, id),
           ~socket[s].attached, id = IF s \in Inbound THEN s ELSE socket[s].url,
           \/ s \in Inbound /\ socket[s].state = "free" /\ phase = "started"
           \/ s \in Outbound /\ socket[s].state = "connecting",
           UNCHANGED <<phase, timers, silent, gaveUp>>
    PROVE  PeersInv'
<1>1. /\ phase \notin {"new", "failed"}
      /\ id \in Id /\ (s \in Outbound => socket[s].url \in Url)
      /\ (s \in Inbound => socket[s].url = None)
    BY Types DEF PeersInv, PhaseOK, SocketsOK
<1>2. ~Stopping => phase = "started"
    BY <1>1 DEF Stopping, PeersInv, TypeOK
<1>3. ASSUME socket' \in [Socket -> Record],
             socket'[s].state \in {"open", "closing"}, socket'[s].url = socket[s].url,
             \A t \in Socket \ {s} : socket'[t] = socket[t]
      PROVE  SocketsOK' /\ DialsOK' /\ PhaseOK' /\ NoSeedForgotten'
  <2>1. \A t \in Socket : socket'[t].url = socket[t].url
      BY <1>3
  <2>2. SocketsOK'
      BY <1>1, <1>3, Types DEF PeersInv, SocketsOK
  <2>3. DialsOK' /\ NoSeedForgotten'
      BY <2>1, Types DEF PeersInv, DialsOK, NoSeedForgotten
  <2>4. PhaseOK'
      BY <1>1 DEF PeersInv, PhaseOK
  <2> QED BY <2>2, <2>3, <2>4
<1>4. CASE socket' = [socket EXCEPT ![s].state = "closing"] /\ UNCHANGED peers
  <2>1. /\ socket' \in [Socket -> Record] /\ socket'[s].state = "closing"
        /\ socket'[s].url = socket[s].url /\ socket'[s].attached = socket[s].attached
        /\ \A t \in Socket \ {s} : socket'[t] = socket[t]
      BY <1>4, Types DEF Record
  <2>2. TypeOK'
      BY <1>4, <2>1 DEF PeersInv, TypeOK, Record
  <2>3. TableOK'
      BY <1>4, <2>1, Types DEF PeersInv, TableOK, IdOf
  <2>4. CapacityOK'
      BY <1>4, ListedShrinks DEF Listed
  <2> QED BY <1>3, <2>1, <2>2, <2>3, <2>4 DEF PeersInv
<1>5. CASE /\ ~Stopping /\ ~Full
           /\ socket' = [socket EXCEPT ![s].state = "open", ![s].attached = TRUE]
           /\ peers' = [peers EXCEPT ![id] = s]
  <2>1. /\ socket' \in [Socket -> Record] /\ socket'[s].state = "open"
        /\ socket'[s].url = socket[s].url /\ socket'[s].attached
        /\ \A t \in Socket \ {s} : socket'[t] = socket[t]
      BY <1>5, Types DEF Record
  <2>2. /\ peers' \in [Id -> Socket \cup {None}] /\ peers'[id] = s
        /\ \A i \in Id \ {id} : peers'[i] = peers[i]
      BY <1>1, <1>5, Types
  <2>3. TypeOK'
      BY <2>1, <2>2 DEF PeersInv, TypeOK, Record
  <2>4. TableOK'
    <3>1. /\ IdOf(s)' = id
          /\ \A t \in Socket : IdOf(t)' = IdOf(t)
        BY <2>1 DEF IdOf
    <3>2. \A t \in Socket \ {s} : socket[t].attached => IdOf(t) # id
      <4> SUFFICES ASSUME NEW t \in Socket \ {s}, socket[t].attached, IdOf(t) = id PROVE FALSE
          OBVIOUS
      <4>1. socket[t].state \in {"open", "closing"}
          BY DEF PeersInv, SocketsOK
      <4>2. CASE s \in Inbound
          BY <4>1, <4>2, Types DEF PeersInv, SocketsOK, IdOf, Socket
      <4>3. CASE s \in Outbound
          BY <4>1, <4>3, Ids, Types DEF IdOf
      <4> QED BY <4>2, <4>3 DEF Socket
    <3>3. \A t \in Socket : socket'[t].attached => peers'[IdOf(t)] = t
      <4> SUFFICES ASSUME NEW t \in Socket \ {s}, socket[t].attached
                   PROVE  peers'[IdOf(t)] = t
          BY <2>1, <2>2, <3>1
      <4>1. IdOf(t) \in Id
          BY Ids DEF PeersInv, SocketsOK
      <4> QED BY <1>2, <1>5, <2>2, <3>2, <4>1 DEF PeersInv, TableOK
    <3>4. \A i \in Id : peers'[i] # None => socket'[peers'[i]].attached /\ IdOf(peers'[i]) = i
      <4> SUFFICES ASSUME NEW i \in Id \ {id}, peers[i] # None
                   PROVE  socket'[peers[i]].attached /\ IdOf(peers[i]) = i
          BY <2>1, <2>2, <3>1
      <4>1. peers[i] \in Socket /\ socket[peers[i]].attached /\ IdOf(peers[i]) = i
          BY <1>2, <1>5, Types DEF PeersInv, TableOK
      <4> QED BY <2>1, <4>1
    <3> QED BY <2>1, <3>1, <3>3, <3>4, <2>2, Types DEF TableOK
  <2>5. CapacityOK'
    <3>1. Listed' \subseteq Listed \cup {id}
        BY <2>2 DEF Listed
    <3> QED BY <1>5, <3>1, ListedGrows
  <2> QED BY <1>3, <2>1, <2>3, <2>4, <2>5 DEF PeersInv
<1> QED BY <1>4, <1>5 DEF AttachPeer

\* A dialled socket opens, and is listed under its seed unless the node is full.
LEMMA SocketOpensStep ==
    ASSUME PeersInv, NEW s \in Outbound, SocketOpens(s)
    PROVE  PeersInv'
<1>1. s \in Socket /\ s \notin Inbound /\ socket[s].state = "connecting" /\ ~socket[s].attached
    BY Types DEF SocketOpens, PeersInv, SocketsOK
<1> QED BY <1>1, AttachStep DEF SocketOpens

\* The server hands over a connection, which is listed under an id of its own.
LEMMA AcceptStep ==
    ASSUME PeersInv, NEW s \in Inbound, Accept(s)
    PROVE  PeersInv'
<1>1. s \in Socket /\ socket[s].state = "free" /\ ~socket[s].attached
    BY Types, NewSockets DEF Accept
<1> QED BY <1>1, AttachStep DEF Accept

\* A socket closes.  Its entry goes if it was attached; its seed gets a timer,
\* unless the node is stopping: of the two close listeners one schedules it.
LEMMA CloseEventStep ==
    ASSUME PeersInv, NEW s \in Socket, CloseEvent(s)
    PROVE  PeersInv'
<1>1. /\ socket[s].state \in {"closing", "connecting"}
      /\ socket' = [socket EXCEPT ![s] = Free]
      /\ peers' = IF socket[s].attached THEN [peers EXCEPT ![IdOf(s)] = None] ELSE peers
      /\ timers' = IF Schedules(s) THEN timers \cup {socket[s].url} ELSE timers
      /\ silent' = silent \ {s} /\ UNCHANGED <<phase, gaveUp>>
    BY DEF CloseEvent
<1>2. /\ socket' \in [Socket -> Record] /\ socket'[s].state = "free"
      /\ socket'[s].url = None /\ ~socket'[s].attached
      /\ \A t \in Socket \ {s} : socket'[t] = socket[t]
    BY <1>1, Types, NewSockets
<1>3. /\ phase \notin {"new", "failed"}
      /\ ~Stopping => phase = "started"
    BY <1>1 DEF Stopping, PeersInv, PhaseOK, TypeOK
<1>4. socket[s].attached => IdOf(s) \in Id
    BY Ids DEF PeersInv, SocketsOK
<1>5. Schedules(s) => /\ s \in Outbound /\ phase = "started" /\ socket[s].url \in Url
    BY <1>1, <1>3 DEF Schedules, PeersInv, SocketsOK
<1>6. /\ peers' \in [Id -> Socket \cup {None}]
      /\ \A i \in Id : peers'[i] = IF socket[s].attached /\ i = IdOf(s) THEN None ELSE peers[i]
    BY <1>1, <1>4, Types
<1>7. TypeOK'
  <2>1. timers' \subseteq Url /\ silent' \subseteq Socket
      BY <1>1, <1>5, Types
  <2> QED BY <1>1, <1>2, <1>6, <2>1 DEF PeersInv, TypeOK, Record
<1>8. SocketsOK'
    BY <1>2, Types DEF PeersInv, SocketsOK
<1>9. DialsOK'
  <2>1. \A t, v \in Outbound :
            socket'[t].url = socket'[v].url /\ socket'[t].url # None => t = v
      BY <1>2, Types DEF PeersInv, DialsOK
  <2>2. ASSUME NEW u \in timers', NEW t \in Outbound, socket'[t].url = u PROVE FALSE
    <3>1. t # s /\ socket[t].url = u /\ u \in Url
        BY <1>1, <1>2, <1>5, <2>2, Types
    <3>2. u \notin timers
        BY <3>1 DEF PeersInv, DialsOK
    <3>3. s \in Outbound /\ u = socket[s].url
        BY <1>1, <1>5, <3>2
    <3> QED BY <3>1, <3>3, Types DEF PeersInv, DialsOK
  <2> QED BY <2>1, <2>2 DEF DialsOK
<1>10. PhaseOK'
    BY <1>1, <1>3, <1>5 DEF PeersInv, PhaseOK
<1>11. TableOK'
  <2> SUFFICES ASSUME phase = "started" PROVE TableOK'
      BY <1>1 DEF TableOK
  <2>1. \A t \in Socket : socket[t].url = None => socket'[t].url = None
      BY <1>2
  <2>2. ASSUME NEW t \in Socket, socket'[t].attached PROVE peers'[IdOf(t)'] = t
    <3>1. t # s /\ socket[t].attached /\ IdOf(t)' = IdOf(t)
        BY <1>2, <2>2 DEF IdOf
    <3>2. IdOf(t) \in Id /\ peers[IdOf(t)] = t
        BY <3>1, Ids DEF PeersInv, SocketsOK, TableOK
    <3>3. socket[s].attached => IdOf(s) # IdOf(t)
        BY <3>1, Ids DEF PeersInv, SocketsOK
    <3> QED BY <1>6, <3>1, <3>2, <3>3
  <2>3. ASSUME NEW i \in Id, peers'[i] # None
        PROVE  socket'[peers'[i]].attached /\ IdOf(peers[i])' = i
    <3>1. /\ peers'[i] = peers[i] /\ peers[i] # None /\ peers[i] \in Socket
          /\ socket[peers[i]].attached /\ IdOf(peers[i]) = i
        BY <1>6, <2>3, Types DEF PeersInv, TableOK
    <3>2. peers[i] # s
        BY <1>6, <2>3, <3>1
    <3> QED BY <1>2, <3>1, <3>2 DEF IdOf
  <2> QED BY <2>2, <2>3 DEF TableOK
<1>12. NoSeedForgotten'
  <2> SUFFICES ASSUME phase = "started", NEW u \in Url, u \notin timers', u \notin gaveUp'
               PROVE  \E t \in Outbound : socket'[t].url = u
      BY <1>1 DEF NoSeedForgotten
  <2>1. PICK t \in Outbound : socket[t].url = u
      BY <1>1 DEF PeersInv, NoSeedForgotten
  <2>2. CASE t # s
      BY <1>2, <2>1, <2>2, Types
  <2>3. CASE t = s
    <3>1. ~socket[s].attached /\ peers[u] # None
        BY <1>1, <2>1, <2>3 DEF Schedules, Stopping
    <3>2. /\ peers[u] \in Socket /\ socket[peers[u]].attached /\ IdOf(peers[u]) = u
          /\ u \notin Socket
        BY <3>1, Types DEF PeersInv, TableOK
    <3>3. peers[u] \in Outbound /\ socket[peers[u]].url = u /\ peers[u] # s
        BY <3>1, <3>2 DEF IdOf, Socket
    <3> QED BY <1>2, <3>2, <3>3
  <2> QED BY <2>2, <2>3
<1>13. CapacityOK'
  <2>1. Listed' \subseteq Listed
      BY <1>6 DEF Listed
  <2> QED BY <2>1, ListedShrinks
<1> QED BY <1>7, <1>8, <1>9, <1>10, <1>11, <1>12, <1>13 DEF PeersInv

\* What arrives from or happens to the remote end changes no seed and no peer.
LEMMA LifeStep ==
    ASSUME PeersInv, NEW s \in Socket,
           Version(s) \/ Pong(s) \/ GoesSilent(s) \/ Closes(s) \/ HandshakeTimeout(s)
    PROVE  PeersInv'
<1>0. ASSUME NEW yes \in BOOLEAN,
             \/ socket' = [socket EXCEPT ![s].ready = yes]
             \/ socket' = [socket EXCEPT ![s].alive = yes]
      PROVE  /\ socket' \in [Socket -> Record]
             /\ \A t \in Socket : /\ socket'[t].url = socket[t].url
                                  /\ socket'[t].attached = socket[t].attached
                                  /\ socket'[t].state = socket[t].state
    BY <1>0, Types DEF Record
<1>1. CASE Version(s)
    BY <1>0, <1>1, SocketsKept, Types DEF Version
<1>2. CASE Pong(s)
    BY <1>0, <1>2, SocketsKept, Types DEF Pong
<1>3. CASE GoesSilent(s)
    BY <1>3, SocketsKept, Types DEF GoesSilent
<1>4. CASE Closes(s)
    BY <1>4, SocketsKept, Types DEF Closes, IsOpen, Record
<1>5. CASE HandshakeTimeout(s)
    BY <1>5, SocketsKept, Types DEF HandshakeTimeout, IsOpen, Record
<1> QED BY <1>1, <1>2, <1>3, <1>4, <1>5

\* The heartbeat pings the listed and cuts off those that did not answer.
LEMMA HeartbeatStep ==
    ASSUME PeersInv, Heartbeat
    PROVE  PeersInv'
<1>1. /\ socket' = [s \in Socket |->
            IF IsOpen(s) /\ peers[IdOf(s)] = s
            THEN IF socket[s].alive THEN [socket[s] EXCEPT !.alive = FALSE]
                 ELSE [socket[s] EXCEPT !.state = "closing"]
            ELSE socket[s]]
      /\ UNCHANGED <<phase, peers, timers, silent, gaveUp>>
    BY DEF Heartbeat
<1>2. ASSUME NEW r \in Record
      PROVE  /\ [r EXCEPT !.alive = FALSE] \in Record
             /\ [r EXCEPT !.alive = FALSE].url = r.url
             /\ [r EXCEPT !.alive = FALSE].attached = r.attached
             /\ [r EXCEPT !.alive = FALSE].state = r.state
             /\ [r EXCEPT !.state = "closing"] \in Record
             /\ [r EXCEPT !.state = "closing"].url = r.url
             /\ [r EXCEPT !.state = "closing"].attached = r.attached
             /\ [r EXCEPT !.state = "closing"].state = "closing"
    BY DEF Record
<1>3. socket' \in [Socket -> Record]
    BY <1>1, <1>2, Types
<1>4. \A s \in Socket :
          /\ socket'[s].url = socket[s].url /\ socket'[s].attached = socket[s].attached
          /\ \/ socket'[s].state = socket[s].state
             \/ socket[s].state = "open" /\ socket'[s].state = "closing"
    BY <1>1, <1>2, Types DEF IsOpen
<1> QED BY <1>1, <1>3, <1>4, Types, SocketsKept

\* stop empties the table and clears the timers.
LEMMA StopStep ==
    ASSUME PeersInv, Stop
    PROVE  PeersInv'
<1>1. /\ phase' = "stopping" /\ timers' = {} /\ peers' = [id \in Id |-> None]
      /\ socket' = [s \in Socket |->
            IF IsOpen(s) /\ peers[IdOf(s)] = s
            THEN [socket[s] EXCEPT !.state = "closing"] ELSE socket[s]]
      /\ UNCHANGED <<silent, gaveUp>>
    BY DEF Stop
<1>2. ASSUME NEW r \in Record
      PROVE  /\ [r EXCEPT !.state = "closing"] \in Record
             /\ [r EXCEPT !.state = "closing"].url = r.url
             /\ [r EXCEPT !.state = "closing"].attached = r.attached
             /\ [r EXCEPT !.state = "closing"].state = "closing"
    BY DEF Record
<1>3. socket' \in [Socket -> Record]
    BY <1>1, <1>2, Types
<1>4. \A s \in Socket :
          /\ socket'[s].url = socket[s].url /\ socket'[s].attached = socket[s].attached
          /\ \/ socket'[s].state = socket[s].state
             \/ socket[s].state = "open" /\ socket'[s].state = "closing"
    BY <1>1, <1>2, Types DEF IsOpen
<1>5. TypeOK'
    BY <1>1, <1>3 DEF PeersInv, TypeOK, Record
<1>6. SocketsOK'
    BY <1>4 DEF PeersInv, SocketsOK
<1>7. DialsOK' /\ PhaseOK' /\ TableOK' /\ NoSeedForgotten'
    BY <1>1, <1>4, Types DEF PeersInv, DialsOK, PhaseOK, TableOK, NoSeedForgotten
<1>8. CapacityOK'
    BY <1>1, ListedShrinks DEF Listed
<1> QED BY <1>5, <1>6, <1>7, <1>8 DEF PeersInv

\* stop returns: sockets, timers and table stay as they are.
LEMMA StopReturnsStep ==
    ASSUME PeersInv, StopReturns
    PROVE  PeersInv'
<1>1. /\ phase = "stopping" /\ phase' = "stopped"
      /\ UNCHANGED <<socket, peers, timers, silent, gaveUp>>
    BY DEF StopReturns
<1>2. CapacityOK'
    BY <1>1, ListedShrinks DEF Listed
<1> QED
    BY <1>1, <1>2 DEF PeersInv, TypeOK, SocketsOK, DialsOK, PhaseOK, TableOK, NoSeedForgotten

-----------------------------------------------------------------------------
(* Theorems *)

\* Before start there are no sockets, timers or entries.
LEMMA PeersInit == Init => PeersInv
<1> SUFFICES ASSUME Init PROVE PeersInv
    OBVIOUS
<1>1. /\ socket = [s \in Socket |-> Free] /\ phase = "new" /\ peers = [id \in Id |-> None]
      /\ timers = {} /\ silent = {} /\ gaveUp = {}
    BY DEF Init
<1>2. TypeOK
    BY <1>1, NewSockets DEF TypeOK, Record
<1>3. \A s \in Socket : socket[s].state = "free" /\ socket[s].url = None /\ ~socket[s].attached
    BY <1>1, NewSockets
<1>4. \A s \in Outbound : s \in Socket
    BY DEF Socket
<1>5. SocketsOK /\ DialsOK /\ PhaseOK
    BY <1>1, <1>3, <1>4, PeersAssumption DEF SocketsOK, DialsOK, PhaseOK
<1>6. TableOK /\ NoSeedForgotten
    BY <1>1 DEF TableOK, NoSeedForgotten
<1>7. Listed = {}
    BY <1>1 DEF Listed
<1>8. CapacityOK
    BY <1>7, FS_EmptySet, PeersAssumption DEF CapacityOK
<1> QED BY <1>2, <1>5, <1>6, <1>8 DEF PeersInv

\* Every step of the node keeps the invariant.
LEMMA PeersNext ==
    ASSUME PeersInv, [Next]_vars
    PROVE  PeersInv'
<1>1. CASE UNCHANGED vars
  <2>1. UNCHANGED <<phase, socket, peers, timers, silent, gaveUp>>
      BY <1>1 DEF vars
  <2> QED BY <2>1, SocketsKept, Types
<1> QED
    BY <1>1, StartStep, StartFailsStep, StopStep, StopReturnsStep, HeartbeatStep,
       TimerFiresStep, AcceptStep, SocketOpensStep, LifeStep, CloseEventStep DEF Next

\* The invariant of the table, the sockets and the timers.
THEOREM PeersInvariant == Spec => []PeersInv
<1> QED
    BY PeersInit, PeersNext, PTL DEF Spec

\* The variables keep their types.
THEOREM PeersTypes == Spec => []TypeOK
<1>1. PeersInv => TypeOK
    BY DEF PeersInv
<1> QED BY PeersInvariant, <1>1, PTL

\* The table lists exactly the attached sockets, each under its own id, and never
\* more than maxPeers: a late close event of _removePeer deletes its own entry only.
THEOREM TableStaysExact == Spec => []TableExact
<1>1. PeersInv => TableExact
  <2> SUFFICES ASSUME PeersInv PROVE TableExact
      OBVIOUS
  <2> QED BY DEF PeersInv, TableOK, CapacityOK, TableExact, Listed
<1> QED BY PeersInvariant, <1>1, PTL

\* No seed is forgotten and none is dialled twice: of the close listeners of
\* connectTo and _removePeer exactly one schedules the reconnection.
THEOREM SeedsStayCovered == Spec => []SeedsCovered
<1>1. PeersInv => SeedsCovered
  <2> SUFFICES ASSUME PeersInv PROVE SeedsCovered
      OBVIOUS
  <2>1. ASSUME NEW u \in Url
        PROVE  Cardinality({s \in Outbound : socket[s].url = u})
                   + (IF u \in timers THEN 1 ELSE 0) <= 1
    <3> DEFINE dialled == {s \in Outbound : socket[s].url = u}
    <3>1. CASE u \in timers
      <4>1. dialled = {}
          BY <3>1 DEF PeersInv, DialsOK
      <4> QED BY <3>1, <4>1, FS_EmptySet
    <3>2. CASE u \notin timers /\ dialled = {}
        BY <3>2, FS_EmptySet
    <3>3. CASE u \notin timers /\ dialled # {}
      <4>1. PICK s : s \in dialled
          BY <3>3
      <4>2. dialled = {s}
          BY <4>1, Types DEF PeersInv, DialsOK
      <4>3. Cardinality(dialled) = 1
          BY <4>2, FS_Singleton
      <4> QED BY <3>3, <4>3
    <3> QED BY <3>1, <3>2, <3>3
  <2> QED BY <2>1 DEF PeersInv, SeedsCovered, OneDialPerSeed
<1> QED BY PeersInvariant, <1>1, PTL
=============================================================================

------------------------ MODULE MedorConnectionPool ------------------------
(***************************************************************************)
(* ConnectionPool (src/src/connection_pool.cpp): sockets to one peer, kept *)
(* in its bucket between uses, opened by the caller (acquire) or by the    *)
(* pool's workers for a callback (acquireAsync), which pass a request on   *)
(* from queue to queue: async, DNS, the reactor's pending connects, TLS.   *)
(*                                                                         *)
(* A client is one caller, with one request at a time.  What the network   *)
(* answers is left open.                                                   *)
(***************************************************************************)
EXTENDS Naturals, Sequences, FiniteSets

CONSTANTS
    Client,
    Fd, NoFd,
    MaxConnsPerPeer, GlobalMaxFds,
    Tls,            \* whether tlsFn_ is set
    MaxRequests     \* bound

VARIABLES
    client,         \* where each one's request is, and its socket
    slots,          \* the bucket's, the oldest first
    strayed,        \* the slots of buckets that are no longer in the map
    openFds,        \* the counter
    open,           \* the sockets the process really has open
    waiting,        \* history: clients owed a callback
    poolRunning,
    requests        \* bound

connVars == <<client, slots, strayed, openFds, open, waiting, poolRunning, requests>>

Away == [at |-> "away", fd |-> NoFd]

Init ==
    /\ client = [c \in Client |-> Away]
    /\ slots = <<>> /\ strayed = {} /\ openFds = 0 /\ open = {}
    /\ waiting = {} /\ poolRunning = TRUE /\ requests = 0

At(c, place) == client[c].at = place
Move(c, place, fd) == client' = [client EXCEPT ![c] = [at |-> place, fd |-> fd]]

LessOne(n) == IF n > 0 THEN n - 1 ELSE 0

\* closeFd
Close(fd) == open' = open \ {fd} /\ openFds' = LessOne(openFds)

-----------------------------------------------------------------------------
(* acquire, acquireAsync *)

Begin(c) == poolRunning /\ At(c, "away") /\ requests < MaxRequests /\ requests' = requests + 1

Acquire(c) ==
    /\ Begin(c) /\ Move(c, "scan", NoFd)
    /\ UNCHANGED <<slots, strayed, openFds, open, waiting, poolRunning>>

AcquireAsync(c) ==
    /\ Begin(c) /\ Move(c, "async", NoFd) /\ waiting' = waiting \cup {c}
    /\ UNCHANGED <<slots, strayed, openFds, open, poolRunning>>

Scanning(c) == At(c, "scan") \/ (At(c, "async") /\ poolRunning)

\* Variant: a slot handed out stays in the bucket.
AllSlots == slots

OtherSlots == Tail(slots)

\* The oldest slot that is alive; those that are not are closed on the way.
ScanFinds(c) ==
    /\ Scanning(c) /\ slots # <<>>
    /\ slots' = OtherSlots
    /\ Move(c, "has", Head(slots)) /\ waiting' = waiting \ {c}
    /\ UNCHANGED <<strayed, openFds, open, poolRunning, requests>>

ScanCloses(c) ==
    /\ Scanning(c) /\ slots # <<>>
    /\ slots' = Tail(slots) /\ Close(Head(slots))
    /\ UNCHANGED <<client, strayed, waiting, poolRunning, requests>>

ScanFails(c) ==
    /\ Scanning(c) /\ slots = <<>>
    /\ Move(c, IF At(c, "scan") THEN "budget" ELSE "dns", NoFd)
    /\ UNCHANGED <<slots, strayed, openFds, open, waiting, poolRunning, requests>>

\* The budget is looked at by a caller, or by a DNS worker, before it opens.
Budget(c) ==
    /\ At(c, "budget") \/ (At(c, "dns") /\ poolRunning)
    /\ IF openFds >= GlobalMaxFds
       THEN Move(c, "away", NoFd) /\ waiting' = waiting \ {c}
       ELSE /\ Move(c, IF At(c, "budget") THEN "open" ELSE "resolve", NoFd)
            /\ UNCHANGED waiting
    /\ UNCHANGED <<slots, strayed, openFds, open, poolRunning, requests>>

\* openBlocking, and applyTlsDirect, which closes without counting.
OpenBlocking(c) ==
    /\ At(c, "open")
    /\ \/ \E fd \in Fd \ open :
              open' = open \cup {fd} /\ openFds' = openFds + 1 /\ Move(c, "has", fd)
       \/ Tls /\ openFds' = openFds + 1 /\ Move(c, "away", NoFd) /\ UNCHANGED open
       \/ Move(c, "away", NoFd) /\ UNCHANGED <<openFds, open>>
    /\ UNCHANGED <<slots, strayed, waiting, poolRunning, requests>>

-----------------------------------------------------------------------------
(* The workers and the reactor *)

NoSuchHost(c) ==
    /\ At(c, "resolve") /\ Move(c, "away", NoFd) /\ waiting' = waiting \ {c}
    /\ UNCHANGED <<slots, strayed, openFds, open, poolRunning, requests>>

StartConnect(c) ==
    /\ At(c, "resolve")
    /\ \E fd \in Fd \ open :
           open' = open \cup {fd} /\ openFds' = openFds + 1 /\ Move(c, "pending", fd)
    /\ UNCHANGED <<slots, strayed, waiting, poolRunning, requests>>

\* Every connect fails at once: fd is -1 then, and the branch that would
\* call back is for the other case.
ConnectFails(c) ==
    /\ At(c, "resolve") /\ Move(c, "away", NoFd)
    /\ UNCHANGED <<slots, strayed, openFds, open, waiting, poolRunning, requests>>

\* The deadline has passed, or the event is an error.
ReactorGivesUp(c) ==
    /\ poolRunning /\ At(c, "pending")
    /\ Close(client[c].fd) /\ Move(c, "away", NoFd) /\ waiting' = waiting \ {c}
    /\ UNCHANGED <<slots, strayed, poolRunning, requests>>

ReactorConnects(c) ==
    /\ poolRunning /\ At(c, "pending")
    /\ IF Tls THEN Move(c, "tls", client[c].fd) /\ UNCHANGED waiting
       ELSE Move(c, "has", client[c].fd) /\ waiting' = waiting \ {c}
    /\ UNCHANGED <<slots, strayed, openFds, open, poolRunning, requests>>

\* A handshake that fails closes without counting.
TlsHandshake(c) ==
    /\ poolRunning /\ At(c, "tls")
    /\ \/ Move(c, "has", client[c].fd) /\ UNCHANGED open
       \/ Move(c, "away", NoFd) /\ open' = open \ {client[c].fd}
    /\ waiting' = waiting \ {c}
    /\ UNCHANGED <<slots, strayed, openFds, poolRunning, requests>>

-----------------------------------------------------------------------------
(* release, evictPeer, clear, the janitor, the destructor *)

ReleaseBroken(c) ==
    /\ At(c, "has") /\ Close(client[c].fd) /\ Move(c, "away", NoFd)
    /\ UNCHANGED <<slots, strayed, waiting, poolRunning, requests>>

\* The bucket is found first, and used when its mutex is free.
GetBucket(c) ==
    /\ At(c, "has") /\ Move(c, "release", client[c].fd)
    /\ UNCHANGED <<slots, strayed, openFds, open, waiting, poolRunning, requests>>

Release(c) ==
    /\ At(c, "release")
    /\ IF Len(slots) >= MaxConnsPerPeer THEN Close(client[c].fd) /\ UNCHANGED slots
       ELSE slots' = Append(slots, client[c].fd) /\ UNCHANGED <<openFds, open>>
    /\ Move(c, "away", NoFd)
    /\ UNCHANGED <<strayed, waiting, poolRunning, requests>>

\* clear() took the bucket out of the map meanwhile: nobody finds the slot.
ReleaseToStray(c) ==
    /\ At(c, "stray") /\ strayed' = strayed \cup {client[c].fd}
    /\ Move(c, "away", NoFd)
    /\ UNCHANGED <<slots, openFds, open, waiting, poolRunning, requests>>

Emptied ==
    /\ slots' = <<>> /\ open' = open \ {slots[i] : i \in DOMAIN slots}
    /\ openFds' = IF openFds > Len(slots) THEN openFds - Len(slots) ELSE 0

EvictPeer ==
    /\ slots # <<>> /\ Emptied
    /\ UNCHANGED <<client, strayed, waiting, poolRunning, requests>>

Stray == client' = [c \in Client |->
                        IF At(c, "release") THEN [client[c] EXCEPT !.at = "stray"] ELSE client[c]]

Clear ==
    /\ Emptied /\ Stray
    /\ UNCHANGED <<strayed, waiting, poolRunning, requests>>

\* runJanitorWorker: a slot that is idle or dead.
Janitor ==
    /\ poolRunning
    /\ \E i \in DOMAIN slots :
           /\ slots' = SubSeq(slots, 1, i - 1) \o SubSeq(slots, i + 1, Len(slots))
           /\ Close(slots[i])
    /\ UNCHANGED <<client, strayed, waiting, poolRunning, requests>>

\* The workers leave what is queued; the destructor clears.
Destroy ==
    /\ poolRunning /\ poolRunning' = FALSE
    /\ Emptied /\ Stray
    /\ UNCHANGED <<strayed, waiting, requests>>

ClientStep(c) ==
    \/ Acquire(c) \/ AcquireAsync(c)
    \/ ScanFinds(c) \/ ScanCloses(c) \/ ScanFails(c) \/ Budget(c) \/ OpenBlocking(c)
    \/ NoSuchHost(c) \/ StartConnect(c) \/ ConnectFails(c)
    \/ ReactorGivesUp(c) \/ ReactorConnects(c) \/ TlsHandshake(c)
    \/ ReleaseBroken(c) \/ GetBucket(c) \/ Release(c) \/ ReleaseToStray(c)

Next ==
    \/ \E c \in Client : ClientStep(c)
    \/ EvictPeer \/ Clear \/ Janitor \/ Destroy

Spec == Init /\ [][Next]_connVars

-----------------------------------------------------------------------------
(* Properties *)

\* A socket has one holder, a client, a request under way or a slot, and is
\* open as long as it has one: none is handed out twice or closed in use.
OneHolder ==
    /\ \A c, d \in Client : c # d /\ client[c].fd # NoFd => client[c].fd # client[d].fd
    /\ \A i, j \in DOMAIN slots : i # j => slots[i] # slots[j]
    /\ \A c \in Client : client[c].fd \notin {slots[i] : i \in DOMAIN slots} \cup strayed
    /\ {slots[i] : i \in DOMAIN slots} \cup {client[c].fd : c \in Client} \subseteq open \cup {NoFd}

\* "cb is always invoked": a client owed a callback still has its request
\* in a queue, with a worker or in the reactor.
AlwaysInvoked == \A c \in waiting : client[c].at \in {"async", "dns", "resolve", "pending", "tls"}
=============================================================================

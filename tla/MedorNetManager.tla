--------------------------- MODULE MedorNetManager ---------------------------
(***************************************************************************)
(* NetworkManager (src/src/net/net_manager.cpp): the registry of peers,    *)
(* connections counted per host, bans, retries with back-off, eviction and *)
(* the handling of messages.  Each step is one section under peerMu.       *)
(*                                                                         *)
(* Left out: what only feeds a score or a metric (pings, latencies, byte   *)
(* counts), so that eviction may choose any peers; and what cannot happen: *)
(* sendToPeer does not fail, and a message above MAX_MESSAGE_BYTES is      *)
(* refused by the rate limit, which is lower, before its size is looked at.*)
(* A peer's host and trust are those of its name (an id is added again     *)
(* with the same host).                                                    *)
(***************************************************************************)
EXTENDS Integers, FiniteSets

CONSTANTS
    Peer, Trusted,           \* names, and those added as trusted
    HostOf,                  \* function from names to hosts
    Bootstrap,               \* the names connectBootstrap adds
    PerIp, MaxPeers,         \* MAX_PEERS_PER_IP, MAX_PEERS
    MaxRetries, MaxDelay,    \* MAX_RETRY_ATTEMPTS, MAX_RETRY_DELAY_MS
    BanSecs, MaxBan,         \* BAN_DURATION_SECS, MAX_BAN_SECS
    MsgLimit, MaxViolations, \* MAX_MESSAGES_PER_SEC, and the 10 of checkRateLimit
    MaxClock                 \* bound

Host == {HostOf[p] : p \in Peer}

\* The threads: retryThread, a caller of connectBootstrap, one of receiveRaw.
Retry == "retry"  Caller == "caller"  Receiver == "receiver"
Thread == {Retry, Caller, Receiver}
Idle == [at |-> "idle"]

VARIABLES
    running,    \* started; "dead" once the process has been terminated
    peers,      \* from names to states
    ipCount,    \* ipConnectionCount
    thread,     \* what each thread is about to do
    toRetry,    \* retryDisconnected's list
    now         \* nowSecs

netVars == <<running, peers, ipCount, thread, toRetry, now>>

NewPeer ==
    [connected |-> FALSE, banned |-> FALSE, bans |-> 0, until |-> 0,
     retries |-> 0, delay |-> 1, retryAt |-> 0,
     violations |-> 0, messages |-> 0]

Init ==
    /\ running = "no" /\ peers = [p \in {} |-> NewPeer]
    /\ ipCount = [h \in Host |-> 0]
    /\ thread = [t \in Thread |-> Idle] /\ toRetry = {} /\ now = 0

Known == DOMAIN peers
Alive == running # "dead"
Least(a, b) == IF a <= b THEN a ELSE b

-----------------------------------------------------------------------------
(* Changes of one peer *)

With(p) == [q \in Known \cup {p} |-> IF q = p THEN NewPeer ELSE peers[q]]

\* checkRateLimit's count of messages, which starts anew with every second.
OverLimit(p) == peers[p].messages >= MsgLimit * (IF p \in Trusted THEN 2 ELSE 1)

\* A count of bans that no longer changes the duration stays as it is.
Banned(p) ==
    IF p \in Trusted THEN peers
    ELSE [peers EXCEPT ![p] =
            [@ EXCEPT !.bans = Least(@ + 1, MaxBan),
                      !.banned = TRUE, !.connected = FALSE,
                      !.until = now + Least(BanSecs * (peers[p].bans + 1), MaxBan)]]

\* scheduleReconnect
Rescheduled(peer) ==
    IF peer.retries >= MaxRetries THEN [peer EXCEPT !.retries = 0, !.delay = 1]
    ELSE [peer EXCEPT !.retryAt = now + peer.delay,
                      !.delay = Least(2 * @, MaxDelay), !.retries = @ + 1]

-----------------------------------------------------------------------------
(* connectToPeer *)

MayConnect(p) ==
    /\ p \in Known /\ ~peers[p].banned /\ ~peers[p].connected
    /\ ipCount[HostOf[p]] < PerIp

\* Thread t looks the peer up; the greeting is sent after.
BeginConnect(t, p) ==
    thread' = [thread EXCEPT ![t] = IF MayConnect(p) THEN [at |-> "hello", peer |-> p] ELSE Idle]

\* The greeting has been sent: nothing is looked at again but the name.
FinishConnect(t) ==
    /\ Alive /\ thread[t].at = "hello"
    /\ thread' = [thread EXCEPT ![t] = Idle]
    /\ LET p == thread[t].peer
       IN  IF p \in Known
           THEN /\ peers' = [peers EXCEPT ![p] =
                       [@ EXCEPT !.connected = TRUE, !.retries = 0, !.delay = 1]]
                /\ ipCount' = [ipCount EXCEPT ![HostOf[p]] = @ + 1]
           ELSE UNCHANGED <<peers, ipCount>>
    /\ UNCHANGED <<running, toRetry, now>>

\* One address of connectBootstrap.
ConnectBootstrap(p) ==
    /\ Alive /\ thread[Caller] = Idle
    /\ peers' = IF p \in Known THEN peers ELSE With(p)
    /\ thread' = [thread EXCEPT ![Caller] = [at |-> "connect", peer |-> p]]
    /\ UNCHANGED <<running, ipCount, toRetry, now>>

CallerConnects ==
    /\ Alive /\ thread[Caller].at = "connect"
    /\ BeginConnect(Caller, thread[Caller].peer)
    /\ UNCHANGED <<running, peers, ipCount, toRetry, now>>

\* retryDisconnected: a peer that was never scheduled is retried as well.
RetryDisconnected ==
    /\ running = "yes" /\ thread[Retry] = Idle /\ toRetry = {}
    /\ toRetry' = {p \in Known : /\ ~peers[p].connected /\ ~peers[p].banned
                                 /\ peers[p].retries < MaxRetries /\ peers[p].retryAt <= now}
    /\ UNCHANGED <<running, peers, ipCount, thread, now>>

RetryConnects(p) ==
    /\ Alive /\ thread[Retry] = Idle /\ p \in toRetry
    /\ toRetry' = toRetry \ {p}
    /\ BeginConnect(Retry, p)
    /\ UNCHANGED <<running, peers, ipCount, now>>

-----------------------------------------------------------------------------
(* Registry, bans, eviction *)

AddPeer(p) ==
    /\ Alive /\ p \notin Known
    /\ p \in Trusted \/ (ipCount[HostOf[p]] < PerIp /\ Cardinality(Known) < MaxPeers)
    /\ peers' = With(p)
    /\ UNCHANGED <<running, ipCount, thread, toRetry, now>>

\* Variant: the count goes down for a peer that is not connected, too.
RemoveAndCount(p) ==
    /\ Alive /\ p \in Known
    /\ ipCount' = [ipCount EXCEPT ![HostOf[p]] = @ - 1]
    /\ peers' = [q \in Known \ {p} |-> peers[q]]
    /\ UNCHANGED <<running, thread, toRetry, now>>

RemovePeer(p) ==
    /\ Alive /\ p \in Known
    /\ ipCount' = [ipCount EXCEPT ![HostOf[p]] = IF peers[p].connected THEN @ - 1 ELSE @]
    /\ peers' = [q \in Known \ {p} |-> peers[q]]
    /\ UNCHANGED <<running, thread, toRetry, now>>

BanPeer(p) ==
    /\ Alive /\ p \in Known
    /\ peers' = Banned(p)
    /\ UNCHANGED <<running, ipCount, thread, toRetry, now>>

\* evictPeers: the lowest scores among the connected and not trusted.
EvictPeers ==
    /\ running = "yes" /\ Cardinality(Known) > MaxPeers
    /\ LET ranked == {p \in Known \ Trusted : peers[p].connected}
           toEvict == Least(Cardinality(Known) - MaxPeers, Cardinality(ranked))
       IN  \E evicted \in SUBSET ranked :
               /\ Cardinality(evicted) = toEvict
               /\ peers' = [p \in Known |-> [peers[p] EXCEPT !.connected = @ /\ p \notin evicted]]
    /\ UNCHANGED <<running, ipCount, thread, toRetry, now>>

UnbanExpired ==
    /\ running = "yes"
    /\ peers' = [p \in Known |->
                    IF peers[p].banned /\ peers[p].until <= now
                    THEN [peers[p] EXCEPT !.banned = FALSE, !.until = 0] ELSE peers[p]]
    /\ UNCHANGED <<running, ipCount, thread, toRetry, now>>

-----------------------------------------------------------------------------
(* processMessage: what a message may make the manager do *)

Message == {"wrong chain", "bad hello", "not json", "disconnect", "other"}

\* The first section.  checkRateLimit calls banPeer, which takes peerMu
\* again in the thread that holds it: the second lock throws, and in a
\* noexcept function that ends the process.
Receive(p, message) ==
    /\ Alive /\ thread[Receiver] = Idle /\ p \in Known
    /\ LET violations == Least(peers[p].violations + 1, MaxViolations)
       IN  IF OverLimit(p)
           THEN /\ peers' = [peers EXCEPT ![p] = [@ EXCEPT !.violations = violations]]
                /\ running' = IF violations = MaxViolations /\ p \notin Trusted
                              THEN "dead" ELSE running
                /\ UNCHANGED thread
           ELSE /\ peers' = [peers EXCEPT ![p] = [@ EXCEPT !.messages = @ + 1]]
                /\ thread' = [thread EXCEPT ![Receiver] = [at |-> message, peer |-> p]]
                /\ UNCHANGED running
    /\ UNCHANGED <<ipCount, toRetry, now>>

\* performHandshake: a hello that lacks a field or names another chain,
\* protocol or network is refused; one of another chain is banned as well.
PerformHandshake(p, hello) ==
    [ok    |-> hello \notin {"wrong chain", "bad hello"},
     peers |-> IF hello = "wrong chain" /\ p \in Known THEN Banned(p) ELSE peers]

\* The second: a hello that is refused disconnects.
Dispatch ==
    /\ Alive /\ thread[Receiver].at \in Message
    /\ LET p == thread[Receiver].peer
           message == thread[Receiver].at
           shake == PerformHandshake(p, message)
       IN  /\ peers' = IF message = "not json" /\ p \in Known
                       THEN [peers EXCEPT ![p].violations = Least(@ + 1, MaxViolations)]
                       ELSE shake.peers
           /\ thread' = [thread EXCEPT ![Receiver] =
                            IF message = "disconnect" \/ ~shake.ok
                            THEN [at |-> "leave", peer |-> p] ELSE Idle]
    /\ UNCHANGED <<running, ipCount, toRetry, now>>

\* disconnectPeer; scheduleReconnect takes the lock again.
DisconnectPeer ==
    /\ Alive /\ thread[Receiver].at = "leave"
    /\ LET p == thread[Receiver].peer
           connected == p \in Known /\ peers[p].connected
       IN  /\ peers' = IF connected THEN [peers EXCEPT ![p].connected = FALSE] ELSE peers
           /\ thread' = [thread EXCEPT ![Receiver] =
                            IF connected /\ p \in Trusted
                            THEN [at |-> "schedule", peer |-> p] ELSE Idle]
    /\ UNCHANGED <<running, ipCount, toRetry, now>>

ScheduleReconnect ==
    /\ Alive /\ thread[Receiver].at = "schedule"
    /\ LET p == thread[Receiver].peer
       IN  peers' = IF p \in Known THEN [peers EXCEPT ![p] = Rescheduled(@)] ELSE peers
    /\ thread' = [thread EXCEPT ![Receiver] = Idle]
    /\ UNCHANGED <<running, ipCount, toRetry, now>>

-----------------------------------------------------------------------------

Start ==
    /\ running = "no" /\ running' = "yes"
    /\ UNCHANGED <<peers, ipCount, thread, toRetry, now>>

\* stop joins retryThread, which works off its list first.
Stop ==
    /\ running = "yes" /\ thread[Retry] = Idle /\ toRetry = {}
    /\ running' = "no"
    /\ UNCHANGED <<peers, ipCount, thread, toRetry, now>>

Tick ==
    /\ Alive /\ now < MaxClock /\ now' = now + 1
    /\ peers' = [p \in Known |-> [peers[p] EXCEPT !.messages = 0]]
    /\ UNCHANGED <<running, ipCount, thread, toRetry>>

Next ==
    \/ Start \/ Stop \/ Tick
    \/ \E t \in Thread : FinishConnect(t)
    \/ \E p \in Bootstrap : ConnectBootstrap(p)
    \/ CallerConnects \/ RetryDisconnected \/ EvictPeers \/ UnbanExpired
    \/ \E p \in Peer : RetryConnects(p) \/ AddPeer(p) \/ RemovePeer(p) \/ BanPeer(p)
    \/ \E p \in Peer, message \in Message : Receive(p, message)
    \/ Dispatch \/ DisconnectPeer \/ ScheduleReconnect

Spec == Init /\ [][Next]_netVars

-----------------------------------------------------------------------------
(* Properties *)

\* The count of a host never falls below the connections it has, whatever
\* bans, disconnections, evictions and removals cross the connecting
\* threads; and those exceed the limit by at most the other thread's one.
PerIpLimit ==
    \A h \in Host :
        /\ Cardinality({p \in Known : HostOf[p] = h /\ peers[p].connected}) <= ipCount[h]
        /\ ipCount[h] <= PerIp + 1
=============================================================================

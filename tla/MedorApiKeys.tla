----------------------------- MODULE MedorApiKeys -----------------------------
(***************************************************************************)
(* src/src/api_key_manager.cpp: keys of clients in a synced database.      *)
(* Each read and each read-modify-write holds the mutex, but a rotation is *)
(* a lookup, a creation and a revocation that take it one after the other, *)
(* so threads interleave between them; a write may fail, and the process   *)
(* may die.  A key is drawn at random: no two are alike.                   *)
(***************************************************************************)
EXTENDS Integers, Sequences

CONSTANTS Client, Key, Thread, NoKey,
          Ttl,                 \* the times to live callers ask for, with NoExpiry
          DefaultTtl,          \* cfg_.defaultTtlSeconds
          MaxClock,            \* bound on the clock, in seconds
          MaxFaults            \* bound on failing calls and crashes

NoExpiry == 0

VARIABLES clock,
          record,              \* the records on disk
          call,                \* thread -> what is left of the call it is in
          writes,              \* writeCount_
          faults,
          asked                \* the clients that had a key of theirs revoked

apiVars == <<clock, record, call, writes, faults, asked>>

NoRecord == [client |-> "none", expires |-> NoExpiry, revoked |-> FALSE]
Call(todo, old, new, client, expires) ==
  [todo |-> todo, key |-> old, new |-> new, client |-> client, expires |-> expires]
Free == Call(<<>>, NoKey, NoKey, "none", NoExpiry)

Init ==
  /\ clock = 1
  /\ record = [k \in Key |-> NoRecord]
  /\ call = [t \in Thread |-> Free]
  /\ writes = 0
  /\ faults = 0
  /\ asked = {}

Tick == clock < MaxClock /\ clock' = clock + 1
        /\ UNCHANGED <<record, call, writes, faults, asked>>

Fault == faults < MaxFaults /\ faults' = faults + 1

(* The clock is read and the key generated before the mutex is taken.      *)
Fresh == {k \in Key : record[k] = NoRecord /\ \A t \in Thread : call[t].new /= k}
ExpiryOf(ttl) ==
  LET effective == IF ttl = NoExpiry THEN DefaultTtl ELSE ttl
  IN IF effective > 0 THEN clock + effective ELSE NoExpiry
Prepared(todo, old, client, ttl, new) == Call(todo, old, new, client, ExpiryOf(ttl))

CreateKey(t, client, ttl) ==
  /\ call[t] = Free
  /\ \E k \in Fresh :
       call' = [call EXCEPT ![t] = Prepared(<<"write">>, NoKey, client, ttl, k)]
  /\ UNCHANGED <<clock, record, writes, faults, asked>>

Revoke(t, k) ==
  /\ call[t] = Free
  /\ record[k] /= NoRecord
  /\ call' = [call EXCEPT ![t] = Call(<<"revoke">>, k, NoKey, "none", NoExpiry)]
  /\ asked' = asked \union {record[k].client}
  /\ UNCHANGED <<clock, record, writes, faults>>

(* Plausible bug: the old key is revoked before the new one is written.    *)
RevokeFirst == <<"revoke", "write">>

(* rotateResult: whatever record there is, also of a key revoked or        *)
(* expired, gives its client a new key, which never expires of itself.     *)
RotateSteps == <<"write", "revoke">>

RotateKey(t, k) ==
  /\ call[t] = Free
  /\ record[k] /= NoRecord
  /\ \E n \in Fresh :
       call' = [call EXCEPT ![t] = Prepared(RotateSteps, k, record[k].client, NoExpiry, n)]
  /\ UNCHANGED <<clock, record, writes, faults, asked>>

At(t, step) == call[t].todo /= <<>> /\ Head(call[t].todo) = step
Done(t) ==
  IF Len(call[t].todo) = 1 THEN Free
  ELSE Call(Tail(call[t].todo), call[t].key, call[t].new, call[t].client, call[t].expires)

(* writeRecord of a new key; a failure ends the call, the rotation too.    *)
WriteNew(t) ==
  /\ At(t, "write")
  /\ \/ /\ record' = [record EXCEPT ![call[t].new] =
             [client |-> call[t].client, expires |-> call[t].expires, revoked |-> FALSE]]
        /\ call' = [call EXCEPT ![t] = Done(t)]
        /\ writes' = writes + 1
        /\ UNCHANGED faults
     \/ /\ Fault
        /\ call' = [call EXCEPT ![t] = Free]
        /\ UNCHANGED <<record, writes>>
  /\ UNCHANGED <<clock, asked>>

(* The record is read, marked and written under one lock; a key already    *)
(* revoked, a failing read and a failing write leave it as it was.  A      *)
(* rotation logs that and reports success.                                 *)
WriteRevoked(t) ==
  /\ At(t, "revoke")
  /\ LET k == call[t].key IN
     \/ /\ ~record[k].revoked
        /\ record' = [record EXCEPT ![k].revoked = TRUE]
        /\ writes' = writes + 1
        /\ UNCHANGED faults
     \/ /\ record[k].revoked
        /\ UNCHANGED <<record, writes, faults>>
     \/ Fault /\ UNCHANGED <<record, writes>>
  /\ call' = [call EXCEPT ![t] = Done(t)]
  /\ UNCHANGED <<clock, asked>>

(* The process dies: the records stay.                                     *)
Crash ==
  /\ Fault
  /\ call' = [t \in Thread |-> Free]
  /\ writes' = 0
  /\ UNCHANGED <<clock, record, asked>>

Next ==
  \/ Tick
  \/ \E t \in Thread, c \in Client, ttl \in Ttl : CreateKey(t, c, ttl)
  \/ \E t \in Thread, k \in Key : Revoke(t, k) \/ RotateKey(t, k)
  \/ \E t \in Thread : WriteNew(t) \/ WriteRevoked(t)
  \/ Crash

Spec == Init /\ [][Next]_apiVars

-----------------------------------------------------------------------------
(* validate, of a call that reads the clock now.                           *)
Validates(k) ==
  /\ record[k] /= NoRecord
  /\ ~record[k].revoked
  /\ record[k].expires = NoExpiry \/ clock <= record[k].expires

(* A client that was given a key without an expiry, and never had one      *)
(* revoked, holds one that validates at every moment: through rotations of *)
(* several threads at once, writes that fail in the middle of them and     *)
(* restarts (src/src/api_key_manager.cpp:621-667).                         *)
NeverLockedOut ==
  \A c \in Client \ asked :
    (\E k \in Key : record[k].client = c /\ record[k].expires = NoExpiry)
      => \E k \in Key : record[k].client = c /\ Validates(k)
=============================================================================

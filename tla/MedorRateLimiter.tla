-------------------------- MODULE MedorRateLimiter --------------------------
(***************************************************************************)
(* src/src/rate_limiter.cpp: token buckets in shards, each with its mutex. *)
(* allow reads the clock before it takes the lock of the shard, so two     *)
(* calls may apply their readings in the opposite order.  The janitor      *)
(* reads the clock once and then locks one shard after the other.  A       *)
(* bucket that is not there is a fresh one.                                *)
(***************************************************************************)
EXTENDS Integers, FiniteSets

CONSTANTS Key, Thread,
          Shards, ShardOf,      \* numbered shards, key to shard
          RequestsPerSecond, BurstSize, Second, IdleTimeout,
          MaxStall,             \* how long a call waits for its shard
          MaxClock,             \* bound on the clock
          MaxEvictions          \* bound on calls of evict and clear

VARIABLES clock,
          bucket,               \* key -> [credit, seen]; seen = 0: no bucket
          call,                 \* thread -> the call of allow it is in
          janitor,              \* cutoff and the shards still to be swept
          clearing,             \* the shards clear has still to empty
          evictions,            \* calls of evict and clear so far
          granted,              \* key -> calls allowed so far
          reading,              \* key -> the last reading applied to it
          slack                 \* key -> time applied twice, bursts given back

limiterVars ==
  <<clock, bucket, call, janitor, clearing, evictions, granted, reading, slack>>

(* The constructor raises a burst below the rate to the rate.              *)
NsPerToken == Second \div RequestsPerSecond
MaxCredit ==
  (IF BurstSize < RequestsPerSecond THEN RequestsPerSecond ELSE BurstSize) * NsPerToken

NoBucket == [credit |-> 0, seen |-> 0]
NoCall == [key |-> "none", now |-> 0]
Smallest(S) == CHOOSE s \in S : \A r \in S : s <= r

Init ==
  /\ clock = 1
  /\ bucket = [k \in Key |-> NoBucket]
  /\ call = [t \in Thread |-> NoCall]
  /\ janitor = [cutoff |-> 0, left |-> {}]
  /\ clearing = {}
  /\ evictions = 0
  /\ granted = [k \in Key |-> 0]
  /\ reading = [k \in Key |-> 0]
  /\ slack = [k \in Key |-> 0]

(* Time passes; no call waits longer than MaxStall for its lock.           *)
Tick ==
  /\ clock < MaxClock
  /\ \A t \in Thread : call[t] /= NoCall => clock - call[t].now < MaxStall
  /\ clock' = clock + 1
  /\ UNCHANGED <<bucket, call, janitor, clearing, evictions, granted, reading, slack>>

ReadClock(t, k) ==
  /\ call[t] = NoCall
  /\ call' = [call EXCEPT ![t] = [key |-> k, now |-> clock]]
  /\ UNCHANGED <<clock, bucket, janitor, clearing, evictions, granted, reading, slack>>

(* A fresh bucket is full; an old one earns what has passed since it was   *)
(* last seen, and nothing when the reading is older than that.             *)
Credited(b, now) ==
  LET earned == b.credit + (now - b.seen) IN
  IF b.seen = 0 THEN [credit |-> MaxCredit, seen |-> now]
  ELSE [credit |-> IF now <= b.seen THEN b.credit
                   ELSE IF earned > MaxCredit THEN MaxCredit ELSE earned,
        seen |-> now]

Allow(t) ==
  /\ call[t] /= NoCall
  /\ LET k == call[t].key
         now == call[t].now
         refilled == Credited(bucket[k], now) IN
     /\ IF refilled.credit < NsPerToken
        THEN bucket' = [bucket EXCEPT ![k] = refilled] /\ UNCHANGED granted
        ELSE /\ bucket' = [bucket EXCEPT ![k] = [refilled EXCEPT !.credit = @ - NsPerToken]]
             /\ granted' = [granted EXCEPT ![k] = @ + 1]
     /\ slack' = [slack EXCEPT ![k] =
          @ + (IF now < reading[k] THEN reading[k] - now ELSE 0)]
     /\ reading' = [reading EXCEPT ![k] = now]
  /\ call' = [call EXCEPT ![t] = NoCall]
  /\ UNCHANGED <<clock, janitor, clearing, evictions>>

(* Buckets taken away by a caller come back full.                          *)
TakenAway(K) ==
  /\ bucket' = [k \in Key |-> IF k \in K THEN NoBucket ELSE bucket[k]]
  /\ slack' = [k \in Key |->
       slack[k] + (IF k \in K /\ bucket[k] /= NoBucket THEN MaxCredit ELSE 0)]
  /\ UNCHANGED <<clock, call, janitor, granted, reading>>

Evict(k) ==
  /\ evictions < MaxEvictions
  /\ bucket[k] /= NoBucket
  /\ evictions' = evictions + 1
  /\ TakenAway({k})
  /\ UNCHANGED clearing

Clear ==
  /\ clearing = {}
  /\ evictions < MaxEvictions
  /\ evictions' = evictions + 1
  /\ clearing' = Shards
  /\ UNCHANGED <<clock, bucket, call, janitor, granted, reading, slack>>

ClearShard ==
  /\ clearing /= {}
  /\ clearing' = clearing \ {Smallest(clearing)}
  /\ TakenAway({k \in Key : ShardOf[k] = Smallest(clearing)})
  /\ UNCHANGED evictions

(* The janitor wakes and reads the clock, then sweeps shard by shard.      *)
JanitorWakes ==
  /\ janitor.left = {}
  /\ clock > IdleTimeout
  /\ janitor' = [cutoff |-> clock - IdleTimeout, left |-> Shards]
  /\ UNCHANGED <<clock, bucket, call, clearing, evictions, granted, reading, slack>>

(* Plausible bug: the janitor compares with the wrong end of the timeout   *)
(* and takes away buckets that are still in use.                           *)
SweptYoung(b) == IF b.seen - IdleTimeout < janitor.cutoff THEN NoBucket ELSE b

Swept(b) == IF b.seen < janitor.cutoff THEN NoBucket ELSE b

SweepShard ==
  /\ janitor.left /= {}
  /\ LET s == Smallest(janitor.left) IN
     /\ bucket' = [k \in Key |-> IF ShardOf[k] = s THEN Swept(bucket[k]) ELSE bucket[k]]
     /\ janitor' = [janitor EXCEPT !.left = @ \ {s}]
  /\ UNCHANGED <<clock, call, clearing, evictions, granted, reading, slack>>

Next ==
  \/ Tick
  \/ \E t \in Thread, k \in Key : ReadClock(t, k)
  \/ \E t \in Thread : Allow(t)
  \/ \E k \in Key : Evict(k)
  \/ Clear \/ ClearShard
  \/ JanitorWakes \/ SweepShard

-----------------------------------------------------------------------------
(* The sustained rate holds for a key over the whole life of the limiter,  *)
(* through races for the lock and sweeps of the janitor: what was allowed  *)
(* is at most a burst and what the elapsed time pays for, plus the time    *)
(* that readings out of order have credited twice and a burst for every    *)
(* bucket a caller took away (src/src/rate_limiter.cpp:88-121).            *)
RateHolds ==
  \A k \in Key : granted[k] * NsPerToken <= MaxCredit + (clock - 1) + slack[k]
=============================================================================

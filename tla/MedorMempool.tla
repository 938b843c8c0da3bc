---------------------------- MODULE MedorMempool ----------------------------
(***************************************************************************)
(* Mempool (src/src/mempool/mempool.cpp): transactions added, orphaned,    *)
(* promoted, removed and evicted by several threads.  mu_ is held for a    *)
(* step; a stripe lock is held by addTransaction until it returns, the     *)
(* calls it makes for orphans included.                                    *)
(*                                                                         *)
(* A transaction has one size; which are too old or pay too little is left *)
(* open.  A valid transaction spends outputs of the chain's UTXO set.      *)
(* trimToCapacity finds nothing to do: there are never more entries than   *)
(* the limits allow.                                                       *)
(***************************************************************************)
EXTENDS Integers, FiniteSets, Sequences

CONSTANTS
    Tx, Thread,
    InputsOf,       \* the outpoints a transaction spends, as <<tx, index>>
    RecipientOf, NonceOf,
    StripeOf,       \* stripeFor
    MaxTx, MaxBytes,\* cfg_.maxTxCount, maxTotalBytes, of transactions of size 1
    MaxOrphans,     \* cfg_.orphanMaxCount
    MaxCalls        \* bound

VARIABLES
    entries, orphans, spentOutpoints, totalBytes,
    stack,          \* for each thread its calls, the innermost first
    stripes,        \* those held
    calls           \* bound

mempoolVars == <<entries, orphans, spentOutpoints, totalBytes, stack, stripes, calls>>

Init ==
    /\ entries = {} /\ orphans = {} /\ spentOutpoints = {} /\ totalBytes = 0
    /\ stack = [t \in Thread |-> <<>>] /\ stripes = {} /\ calls = 0

InputsOfAll(txs) == UNION {InputsOf[tx] : tx \in txs}

Top(t) == Head(stack[t])
At(t, step) == stack[t] # <<>> /\ Top(t).at = step
Goto(t, step) == stack' = [stack EXCEPT ![t] = <<[Top(t) EXCEPT !.at = step]>> \o Tail(@)]
Adding(tx) == [at |-> "lock", tx |-> tx]
Removing(tx) == [at |-> "erase", tx |-> tx]

-----------------------------------------------------------------------------
(* addTransaction *)

DoubleSpend(tx) == InputsOf[tx] \cap spentOutpoints # {}

NonceInOrder(tx) ==
    \A other \in entries : RecipientOf[other] = RecipientOf[tx] => NonceOf[other] < NonceOf[tx]

Full == Cardinality(entries) >= MaxTx \/ totalBytes + 1 > MaxBytes

Insert(tx) ==
    /\ entries' = entries \cup {tx}
    /\ spentOutpoints' = spentOutpoints \cup InputsOf[tx]
    /\ totalBytes' = totalBytes + 1

Return(t) ==
    /\ stack' = [stack EXCEPT ![t] = Tail(@)]
    /\ stripes' = stripes \ {StripeOf[Top(t).tx]}

\* A transaction that is not valid is refused before.
AddTransaction(t, tx) ==
    /\ stack[t] = <<>> /\ calls < MaxCalls /\ calls' = calls + 1
    /\ stack' = [stack EXCEPT ![t] = <<Adding(tx)>>]
    /\ UNCHANGED <<entries, orphans, spentOutpoints, totalBytes, stripes>>

\* A thread that holds this stripe already waits for ever.
LockStripe(t) ==
    /\ At(t, "lock") /\ StripeOf[Top(t).tx] \notin stripes
    /\ stripes' = stripes \cup {StripeOf[Top(t).tx]}
    /\ Goto(t, "check")
    /\ UNCHANGED <<entries, orphans, spentOutpoints, totalBytes, calls>>

Refuse(t) ==
    /\ At(t, "check")
    /\ Top(t).tx \in entries \/ DoubleSpend(Top(t).tx)
    /\ Return(t)
    /\ UNCHANGED <<entries, orphans, spentOutpoints, totalBytes, calls>>

\* addOrphanLocked: the oldest orphan, here any, makes room.
Orphan(t) ==
    /\ At(t, "check")
    /\ LET tx == Top(t).tx
       IN  /\ tx \notin entries /\ ~DoubleSpend(tx) /\ ~NonceInOrder(tx)
           /\ IF Cardinality(orphans) >= MaxOrphans
              THEN \E old \in orphans : orphans' = (orphans \ {old}) \cup {tx}
              ELSE orphans' = orphans \cup {tx}
    /\ Return(t)
    /\ UNCHANGED <<entries, spentOutpoints, totalBytes, calls>>

Accept(t) ==
    /\ At(t, "check")
    /\ LET tx == Top(t).tx
       IN  /\ tx \notin entries /\ ~DoubleSpend(tx) /\ NonceInOrder(tx)
           /\ IF Full THEN Goto(t, "recheck") /\ UNCHANGED <<entries, spentOutpoints, totalBytes>>
              ELSE Insert(tx) /\ Goto(t, "promote")
    /\ UNCHANGED <<orphans, stripes, calls>>

\* Variant: after the trimming only the room is looked at again.
RecheckRoomOnly(tx) == tx \notin entries /\ ~Full

\* mu_ was given up for the trimming: all but the nonce is checked again.
StillFits(tx) == tx \notin entries /\ ~DoubleSpend(tx) /\ ~Full

Recheck(t) ==
    /\ At(t, "recheck")
    /\ IF StillFits(Top(t).tx)
       THEN Insert(Top(t).tx) /\ Goto(t, "promote") /\ UNCHANGED stripes
       ELSE Return(t) /\ UNCHANGED <<entries, spentOutpoints, totalBytes>>
    /\ UNCHANGED <<orphans, calls>>

\* promoteOrphans: those that spend an output of the transaction are added
\* by the same thread, each within this call.
PromoteOrphans(t) ==
    /\ At(t, "promote")
    /\ LET tx == Top(t).tx
           depending == {o \in orphans : \E out \in InputsOf[o] : out[1] = tx}
       IN  /\ orphans' = orphans \ depending
           /\ \E order \in [1..Cardinality(depending) -> depending] :
                  /\ {order[i] : i \in DOMAIN order} = depending
                  /\ stack' = [stack EXCEPT ![t] =
                        [i \in DOMAIN order |-> Adding(order[i])]
                            \o <<[at |-> "return", tx |-> tx]>> \o Tail(@)]
    /\ UNCHANGED <<entries, spentOutpoints, totalBytes, stripes, calls>>

ReturnFromAdd(t) ==
    /\ At(t, "return") /\ Return(t)
    /\ UNCHANGED <<entries, orphans, spentOutpoints, totalBytes, calls>>

\* reorgRestore, for one transaction.
ReorgRestore(t, tx) == tx \notin entries /\ AddTransaction(t, tx)

-----------------------------------------------------------------------------
(* removeTransaction, and who calls it *)

\* removeConfirmed; evictStale and evictLowFee, which choose the hashes
\* under a shared lock first.
RemoveAll(t, txs) ==
    /\ stack[t] = <<>> /\ calls < MaxCalls /\ calls' = calls + 1
    /\ \E order \in [1..Cardinality(txs) -> txs] :
           /\ {order[i] : i \in DOMAIN order} = txs
           /\ stack' = [stack EXCEPT ![t] = [i \in DOMAIN order |-> Removing(order[i])]]
    /\ UNCHANGED <<entries, orphans, spentOutpoints, totalBytes, stripes>>

EraseEntry(t) ==
    /\ At(t, "erase")
    /\ LET tx == Top(t).tx
       IN  IF tx \in entries
           THEN /\ entries' = entries \ {tx}
                /\ spentOutpoints' = spentOutpoints \ InputsOf[tx]
                /\ Goto(t, "subtract")
           ELSE /\ stack' = [stack EXCEPT ![t] = Tail(@)]
                /\ UNCHANGED <<entries, spentOutpoints>>
    /\ UNCHANGED <<orphans, totalBytes, stripes, calls>>

SubtractBytes(t) ==
    /\ At(t, "subtract")
    /\ totalBytes' = totalBytes - 1
    /\ stack' = [stack EXCEPT ![t] = Tail(@)]
    /\ UNCHANGED <<entries, orphans, spentOutpoints, stripes, calls>>

EvictStaleOrphans ==
    /\ \E old \in orphans : orphans' = orphans \ {old}
    /\ UNCHANGED <<entries, spentOutpoints, totalBytes, stack, stripes, calls>>

Next ==
    \/ \E t \in Thread, tx \in Tx : AddTransaction(t, tx) \/ ReorgRestore(t, tx)
    \/ \E t \in Thread, txs \in SUBSET entries : txs # {} /\ RemoveAll(t, txs)
    \/ \E t \in Thread :
        \/ LockStripe(t) \/ Refuse(t) \/ Orphan(t) \/ Accept(t) \/ Recheck(t)
        \/ PromoteOrphans(t) \/ ReturnFromAdd(t)
        \/ EraseEntry(t) \/ SubtractBytes(t)
    \/ EvictStaleOrphans

Spec == Init /\ [][Next]_mempoolVars

-----------------------------------------------------------------------------
(* Properties *)

\* No two entries spend the same output, the outputs held to be spent are
\* theirs, and the limits hold: also where mu_ was given up half way.
SpentOnce ==
    /\ spentOutpoints = InputsOfAll(entries)
    /\ \A a, b \in entries : a # b => InputsOf[a] \cap InputsOf[b] = {}
    /\ Cardinality(entries) <= MaxTx
    /\ Cardinality(entries) <= totalBytes /\ totalBytes <= MaxBytes
=============================================================================

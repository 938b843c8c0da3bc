----------------------------- MODULE MedorAccounts -----------------------------
(***************************************************************************)
(* src/src/db/accountdb.cpp: balances, nonces, state roots and gas totals  *)
(* in one synced RocksDB.  Each get and each put holds the database lock,  *)
(* but a read-modify-write takes it twice, so that threads interleave in   *)
(* between.  A write may fail, and the process may die at any moment; a    *)
(* batch is on disk as a whole or not at all.                              *)
(***************************************************************************)
EXTENDS Integers, Sequences, FiniteSets

CONSTANTS Address, Thread,
          Height,              \* heights of the blocks to commit, from 1
          Balances,            \* height -> the balances the block sets
          Senders,             \* height -> the senders of its transactions, in order
          Rootless,            \* the heights whose commit is given an empty state root
          Amount,              \* what setBalance, addBalance and deductBalance are given
          MaxBalance,          \* the largest uint64_t
          GasPayer,            \* bound: the accounts gas is added up for
          MaxCount,            \* the largest nonce and gas total
          MaxFaults            \* bound on failing writes and crashes

VARIABLES balance, nonce, root, gas,    \* the records on disk
          call,                         \* thread -> what it read and is to write
          faults,
          setBy,                        \* history: address -> the height that set its
                                        \* balance last, or how else it was set
          since,                        \* history: height -> the addresses set again since
                                        \* its batch was written, if it was
          noted                         \* history: the heights given to setStateRoot

accountVars == <<balance, nonce, root, gas, call, faults, setBy, since, noted>>
history == <<setBy, since, noted>>

Nobody == 0
APut == -1

Free == [op |-> "none", at |-> 0, read |-> <<>>]

Init ==
  /\ balance = [a \in Address |-> 0]
  /\ nonce = [a \in Address |-> 0]
  /\ root = {}
  /\ gas = [a \in Address |-> 0]
  /\ call = [t \in Thread |-> Free]
  /\ faults = 0
  /\ setBy = [a \in Address |-> Nobody]
  /\ since = <<>>
  /\ noted = {}

Start(t, c) == call[t] = Free /\ call' = [call EXCEPT ![t] = c]
Records == <<balance, nonce, root, gas>>

(* setBalance and setStateRoot put what they are given.  The others read,  *)
(* check for overflow, and put what they computed.                         *)
SetBalance(t, a, amount) ==
  /\ Start(t, [op |-> "balance", at |-> a, read |-> <<amount>>])
  /\ UNCHANGED <<Records, faults, history>>

AddBalance(t, a, amount) ==
  /\ amount <= MaxBalance - balance[a]
  /\ Start(t, [op |-> "balance", at |-> a, read |-> <<balance[a] + amount>>])
  /\ UNCHANGED <<Records, faults, history>>

DeductBalance(t, a, amount) ==
  /\ amount <= balance[a]
  /\ Start(t, [op |-> "balance", at |-> a, read |-> <<balance[a] - amount>>])
  /\ UNCHANGED <<Records, faults, history>>

SetStateRoot(t, h) ==
  /\ Start(t, [op |-> "root", at |-> h, read |-> <<>>])
  /\ UNCHANGED <<Records, faults, history>>

ReadNonce(t, a) ==
  /\ nonce[a] < MaxCount
  /\ Start(t, [op |-> "nonce", at |-> a, read |-> <<nonce[a]>>])
  /\ UNCHANGED <<Records, faults, history>>

ReadGas(t, a) ==
  /\ a \in GasPayer /\ gas[a] < MaxCount
  /\ Start(t, [op |-> "gas", at |-> a, read |-> <<gas[a]>>])
  /\ UNCHANGED <<Records, faults, history>>

(* One put, or a failure that writes nothing and is returned.              *)
Fails(t) ==
  /\ faults < MaxFaults
  /\ faults' = faults + 1
  /\ call' = [call EXCEPT ![t] = Free]
  /\ UNCHANGED <<Records, history>>

PutNonce(t) ==
  /\ call[t].op = "nonce"
  /\ \/ /\ nonce' = [nonce EXCEPT ![call[t].at] = call[t].read[1] + 1]
        /\ call' = [call EXCEPT ![t] = Free]
        /\ UNCHANGED <<balance, root, gas, faults, history>>
     \/ Fails(t)

PutGas(t) ==
  /\ call[t].op = "gas"
  /\ \/ /\ gas' = [gas EXCEPT ![call[t].at] = call[t].read[1] + 1]
        /\ call' = [call EXCEPT ![t] = Free]
        /\ UNCHANGED <<balance, nonce, root, faults, history>>
     \/ Fails(t)

(* The balances of some addresses are set: every block that set one too    *)
(* has it in its history.                                                  *)
SetAgain(addresses) == [h \in DOMAIN since |-> since[h] \union addresses]

PutBalance(t) ==
  /\ call[t].op = "balance"
  /\ \/ /\ balance' = [balance EXCEPT ![call[t].at] = call[t].read[1]]
        /\ setBy' = [setBy EXCEPT ![call[t].at] = APut]
        /\ since' = SetAgain({call[t].at})
        /\ call' = [call EXCEPT ![t] = Free]
        /\ UNCHANGED <<nonce, root, gas, faults, noted>>
     \/ Fails(t)

PutRoot(t) ==
  /\ call[t].op = "root"
  /\ \/ /\ root' = root \union {call[t].at}
        /\ noted' = noted \union {call[t].at}
        /\ call' = [call EXCEPT ![t] = Free]
        /\ UNCHANGED <<balance, nonce, gas, faults, setBy, since>>
     \/ Fails(t)

-----------------------------------------------------------------------------
(* commitBlockState: the nonces are read one by one, without a lock that   *)
(* would hold until the batch is written.  Commits of any heights overlap, *)
(* in any order.  A nonce that is at its largest fails the call.           *)
BeginCommit(t, h) ==
  /\ Start(t, [op |-> "commit", at |-> h, read |-> <<>>])
  /\ UNCHANGED <<Records, faults, history>>

Sender(t, i) == Senders[call[t].at][i]

ReadSender(t) ==
  /\ call[t].op = "commit"
  /\ Len(call[t].read) < Len(Senders[call[t].at])
  /\ LET current == nonce[Sender(t, Len(call[t].read) + 1)]
     IN \/ current < MaxCount /\ call' = [call EXCEPT ![t].read = Append(@, current)]
        \/ current = MaxCount /\ call' = [call EXCEPT ![t] = Free]
  /\ UNCHANGED <<Records, faults, history>>

AllRead(t) == call[t].op = "commit" /\ Len(call[t].read) = Len(Senders[call[t].at])

(* In a batch the last put of a key counts, so that two transactions of    *)
(* one sender raise its nonce by one.                                      *)
Staged(t, a) ==
  LET I == {i \in 1..Len(call[t].read) : Sender(t, i) = a}
  IN IF I = {} THEN nonce[a]
     ELSE call[t].read[CHOOSE i \in I : \A j \in I : j <= i] + 1

Changed(h, a) == IF a \in DOMAIN Balances[h] THEN Balances[h][a] ELSE balance[a]

WriteBatch(t) ==
  /\ AllRead(t)
  /\ LET h == call[t].at
         mine == DOMAIN Balances[h]
     IN /\ balance' = [a \in Address |-> Changed(h, a)]
        /\ root' = IF h \in Rootless THEN root ELSE root \union {h}
        /\ setBy' = [a \in Address |-> IF a \in mine THEN h ELSE setBy[a]]
        /\ since' = [g \in DOMAIN since \union {h} |->
                        IF g = h THEN {} ELSE SetAgain(mine)[g]]
  /\ nonce' = [a \in Address |-> Staged(t, a)]
  /\ call' = [call EXCEPT ![t] = Free]
  /\ UNCHANGED <<gas, faults, noted>>

(* Plausible bug: the root is put first and the changes after it.          *)
RootFirst(t) ==
  /\ AllRead(t)
  /\ IF call[t].at \in root
     THEN WriteBatch(t)
     ELSE /\ root' = root \union {call[t].at}
          /\ UNCHANGED <<balance, nonce, gas, call, faults, history>>

Commit(t) == WriteBatch(t) \/ (AllRead(t) /\ Fails(t))

Crash ==
  /\ faults < MaxFaults
  /\ faults' = faults + 1
  /\ call' = [t \in Thread |-> Free]
  /\ UNCHANGED <<Records, history>>

Next ==
  \/ \E t \in Thread, a \in Address : ReadNonce(t, a) \/ ReadGas(t, a)
  \/ \E t \in Thread, a \in Address, amount \in Amount :
       SetBalance(t, a, amount) \/ AddBalance(t, a, amount) \/ DeductBalance(t, a, amount)
  \/ \E t \in Thread, h \in Height : SetStateRoot(t, h) \/ BeginCommit(t, h)
  \/ \E t \in Thread :
       \/ PutNonce(t) \/ PutGas(t) \/ PutBalance(t) \/ PutRoot(t)
       \/ ReadSender(t) \/ Commit(t)
  \/ Crash

Spec == Init /\ [][Next]_accountVars

-----------------------------------------------------------------------------
(* "If any step fails the entire batch is discarded -- no partial state"   *)
(* (src/src/db/accountdb.cpp:548-591): after failing writes and crashes    *)
(* too, and whatever else puts balances and roots meanwhile,               *)
(*   - what a block set and nobody set again shows the block's balance;    *)
(*   - a balance nobody set is that of the start, and a block set none     *)
(*     unless it set all of its own;                                       *)
(*   - the roots on disk are those of the blocks whose batch was written   *)
(*     and that have one, and those put by hand.                           *)
BlocksWhole ==
  /\ \A h \in DOMAIN since : \A a \in DOMAIN Balances[h] \ since[h] : setBy[a] = h
  /\ \A a \in Address :
       /\ setBy[a] = Nobody => balance[a] = 0
       /\ setBy[a] \in Height => /\ setBy[a] \in DOMAIN since
                                 /\ balance[a] = Balances[setBy[a]][a]
  /\ root = (DOMAIN since \ Rootless) \union noted
=============================================================================

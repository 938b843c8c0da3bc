------------------------------ MODULE MedorEvm ------------------------------
(***************************************************************************)
(* The contract store of the C++ node, src/src/evm/storage.cpp, and the    *)
(* EVM host over it, src/src/evm/host.cpp, which evmone calls back.  Every *)
(* put is synced, so it is on disk or not there at all; it may fail, a     *)
(* read may fail, and the process may die between two calls.  Addresses,   *)
(* code and gas amounts are abstracted; a slot without a record holds      *)
(* NoRecord, which is not a record of zero.                                *)
(***************************************************************************)
EXTENDS Integers, FiniteSetsExt

CONSTANTS Address, Slot, Word, NoRecord,
          Contract,      \* the addresses with code and storage
          Funded,        \* the balances at the first start
          MaxFaults,     \* bound on failing puts, failing reads and crashes
          MaxLogs        \* bound on the log entries of one transaction

VARIABLES schema,        \* what the version key holds: "absent", "ours"
          balance,       \* balance records on disk
          code,          \* the addresses with a code record
          slot,          \* contract storage records on disk
          host,          \* the transaction state of MedorEVMHost
          faults,        \* faults so far
          burned         \* has money been given up by a step below?

evmVars == <<schema, balance, code, slot, host, faults, burned>>

NoTransaction == [up |-> FALSE, error |-> FALSE, warm |-> {}, logs |-> 0,
                  step |-> "idle", from |-> NoRecord, to |-> NoRecord,
                  sum |-> 0]

Init ==
  /\ schema = "absent"
  /\ balance = Funded
  /\ code = {}
  /\ slot = [a \in Contract, k \in Slot |-> NoRecord]
  /\ host = NoTransaction
  /\ faults = 0
  /\ burned = FALSE

MayFail == faults < MaxFaults
Fault == MayFail /\ faults' = faults + 1

Idle == host.up /\ host.step = "idle"

-----------------------------------------------------------------------------
(* Construction writes the version on the first open; a failed write is    *)
(* logged and the store is used all the same.                              *)
InitSchemaVersion ==
  /\ ~host.up
  /\ host' = [NoTransaction EXCEPT !.up = TRUE]
  /\ \/ schema' = "ours" /\ UNCHANGED faults
     \/ schema = "absent" /\ Fault /\ UNCHANGED schema
  /\ UNCHANGED <<balance, code, slot, burned>>

(* beginTransaction clears the flags and the access lists; what the last   *)
(* transaction wrote stays, also when the EVM reverted it.                 *)
BeginTransaction ==
  /\ Idle
  /\ host' = [NoTransaction EXCEPT !.up = TRUE]
  /\ UNCHANGED <<schema, balance, code, slot, faults, burned>>

(* access_account and the reads that warm an account.                      *)
AccessAccount(a) ==
  /\ Idle
  /\ a \notin host.warm
  /\ host' = [host EXCEPT !.warm = @ \union {a}]
  /\ UNCHANGED <<schema, balance, code, slot, faults, burned>>

(* get_storage and access_storage: an unreadable record reads as zero, and *)
(* the error flag is not raised, for the store has already refused a value *)
(* that does not decode.                                                   *)
GetStorage(a, k) ==
  /\ Idle
  /\ <<a, k>> \notin host.warm
  /\ host' = [host EXCEPT !.warm = @ \union {<<a, k>>}]
  /\ UNCHANGED <<schema, balance, code, slot, faults, burned>>

(* set_storage writes through to the disk, a zero as a record of zero.     *)
SetStorage(a, k, v) ==
  /\ Idle
  /\ \/ /\ slot' = [slot EXCEPT ![<<a, k>>] = v]
        /\ host' = [host EXCEPT !.warm = @ \union {<<a, k>>}]
        /\ UNCHANGED faults
     \/ /\ Fault
        /\ host' = [host EXCEPT !.warm = @ \union {<<a, k>>}, !.error = TRUE]
        /\ UNCHANGED slot
  /\ UNCHANGED <<schema, balance, code, burned>>

EmitLog ==
  /\ Idle
  /\ host.logs < MaxLogs
  /\ host' = [host EXCEPT !.logs = @ + 1]
  /\ UNCHANGED <<schema, balance, code, slot, faults, burned>>

PutContractCode(a) ==
  /\ Idle
  /\ code' = code \union {a}
  /\ UNCHANGED <<schema, balance, slot, host, faults, burned>>

DeleteContractStorage(a, k) ==
  /\ Idle
  /\ slot[a, k] /= NoRecord
  /\ slot' = [slot EXCEPT ![<<a, k>>] = NoRecord]
  /\ UNCHANGED <<schema, balance, code, host, faults, burned>>

(* All records of a batch or none.                                         *)
PutContractStorageBatch(a, v) ==
  /\ Idle
  /\ slot' = [x \in Contract \X Slot |-> IF x[1] = a THEN v ELSE slot[x]]
  /\ UNCHANGED <<schema, balance, code, host, faults, burned>>

-----------------------------------------------------------------------------
(* selfdestruct, under the host's mutex: both balances are read, then two  *)
(* records are put one after the other.  A balance that cannot be read     *)
(* counts as zero, the beneficiary's too.                                  *)
Selfdestruct(a, b) ==
  /\ Idle
  /\ balance[a] > 0
  /\ \/ /\ host' = [host EXCEPT !.step = "credit", !.from = a, !.to = b,
                                !.sum = balance[a] + balance[b]]
        /\ UNCHANGED faults
     \/ /\ Fault                                 \* the beneficiary unread
        /\ host' = [host EXCEPT !.step = "credit", !.from = a, !.to = b,
                                !.sum = balance[a]]
  /\ UNCHANGED <<schema, balance, code, slot, burned>>

Fails ==
  /\ Fault
  /\ host' = [host EXCEPT !.step = "idle", !.error = TRUE]
  /\ UNCHANGED <<balance, burned>>

PutBeneficiary ==
  /\ host.step = "credit"
  /\ \/ /\ balance' = [balance EXCEPT ![host.to] = host.sum]
        /\ host' = [host EXCEPT !.step = "clear"]
        /\ burned' = (\/ burned
                      \/ /\ host.from /= host.to
                         /\ host.sum < balance[host.from] + balance[host.to])
        /\ UNCHANGED faults
     \/ Fails
  /\ UNCHANGED <<schema, code, slot>>

PutZero ==
  /\ host.step = "clear"
  /\ \/ /\ balance' = [balance EXCEPT ![host.from] = 0]
        /\ host' = [host EXCEPT !.step = "idle"]
        /\ burned' = (burned \/ host.from = host.to)
        /\ UNCHANGED faults
     \/ Fails
  /\ UNCHANGED <<schema, code, slot>>

(* Plausible bug: the contract is cleared before the beneficiary is paid.  *)
ClearsFirst ==
  \/ /\ host.step = "credit"
     /\ \/ /\ balance' = [balance EXCEPT ![host.from] = 0]
           /\ host' = [host EXCEPT !.step = "clear"]
           /\ UNCHANGED <<faults, burned>>
        \/ Fails
     /\ UNCHANGED <<schema, code, slot>>
  \/ /\ host.step = "clear"
     /\ \/ /\ balance' = [balance EXCEPT ![host.to] = host.sum]
           /\ host' = [host EXCEPT !.step = "idle"]
           /\ UNCHANGED <<faults, burned>>
        \/ Fails
     /\ UNCHANGED <<schema, code, slot>>

Transfer == PutBeneficiary \/ PutZero

(* The process dies; the disk stays.                                       *)
Crash ==
  /\ host.up
  /\ Fault
  /\ host' = NoTransaction
  /\ UNCHANGED <<schema, balance, code, slot, burned>>

Next ==
  \/ InitSchemaVersion
  \/ BeginTransaction
  \/ \E a \in Address : AccessAccount(a)
  \/ \E a \in Contract : PutContractCode(a)
  \/ \E a \in Contract, k \in Slot : GetStorage(a, k) \/ DeleteContractStorage(a, k)
  \/ \E a \in Contract, k \in Slot, v \in Word : SetStorage(a, k, v)
  \/ \E a \in Contract, v \in Word : PutContractStorageBatch(a, v)
  \/ EmitLog
  \/ \E a, b \in Address : Selfdestruct(a, b)
  \/ Transfer
  \/ Crash

-----------------------------------------------------------------------------
Total(b) == MapThenSumSet(LAMBDA a : b[a], Address)

(* However a selfdestruct is cut short, by a failing put or a crash,       *)
(* between its two puts or before them, no money disappears: only a        *)
(* contract that names itself, or a beneficiary whose record could not be  *)
(* read, loses any (src/src/evm/host.cpp:352-390).  Money may be doubled.  *)
NeverLost == ~burned => Total(balance) >= Total(Funded)
=============================================================================

--------------------------- MODULE MedorStateUnits ---------------------------
(***************************************************************************)
(* Four more units of the C++ node that theorems are about: its chain, its *)
(* pool of transactions, what the pool stores, and the databases.  As in   *)
(* MedorUnits, unit names the one that runs, and the variables of the      *)
(* others stay Absent.                                                     *)
(***************************************************************************)
EXTENDS MedorUnits

-----------------------------------------------------------------------------
(* The chain *)

CONSTANTS ChainAddress, Miner, Owner, Treasury, NoSignature, NoHash, SupplyKey, FeeKey,
          Schedule, MaxSupply, InitialBaseFee, TargetGas, Maturity, MaxAmount, MaxTransactions,
          Garbled, MaxTime, MaxWrites
VARIABLES pc, chain, utxo, supply, baseFee, block, blockDB, accounts, blockWrites, committed,
          skipped, hidden

Chain == INSTANCE MedorChain WITH
    Address <- ChainAddress, None <- Absent, writes <- blockWrites

ASSUME ChainConfigured == Chain!ChainAssumption

chainVars == <<pc, chain, utxo, supply, baseFee, block, blockDB, accounts, blockWrites,
               committed, skipped, hidden>>
NoChainVars ==
    /\ pc = Absent /\ chain = Absent /\ utxo = Absent /\ supply = Absent /\ baseFee = Absent
    /\ block = Absent /\ blockDB = Absent /\ accounts = Absent /\ blockWrites = Absent
    /\ committed = Absent /\ skipped = Absent /\ hidden = Absent

-----------------------------------------------------------------------------
(* The pool of transactions *)

CONSTANTS Tx, InputsOf, RecipientOf, NonceOf, StripeOf, MaxTx, MaxBytes, MaxOrphans, MaxPoolCalls
VARIABLES entries, orphans, spentOutpoints, totalBytes, stack, stripes, poolCalls

Mempool == INSTANCE MedorMempool WITH
    Thread <- NodeThread, MaxCalls <- MaxPoolCalls, calls <- poolCalls

ASSUME MempoolAssumption == MaxTx \in Nat /\ MaxBytes \in Nat

poolVars == <<entries, orphans, spentOutpoints, totalBytes, stack, stripes, poolCalls>>
NoPoolVars ==
    /\ entries = Absent /\ orphans = Absent /\ spentOutpoints = Absent /\ totalBytes = Absent
    /\ stack = Absent /\ stripes = Absent /\ poolCalls = Absent

-----------------------------------------------------------------------------
(* What is stored of the pool *)

CONSTANTS PersistKey, MaxPersistQueue, PersistBatch, MaxJobs
VARIABLES persistQueue, batch, db, persistStopped, persistWorker, lastJob, dropped, jobs

Persist == INSTANCE MedorMempoolPersist WITH Key <- PersistKey

ASSUME PersistAssumption == MaxPersistQueue \in Nat /\ PersistBatch \in Nat

jobVars == <<persistQueue, batch, db, persistStopped, persistWorker, lastJob, dropped, jobs>>
NoJobVars ==
    /\ persistQueue = Absent /\ batch = Absent /\ db = Absent /\ persistStopped = Absent
    /\ persistWorker = Absent /\ lastJob = Absent /\ dropped = Absent /\ jobs = Absent

-----------------------------------------------------------------------------
(* The databases *)

CONSTANTS DatabaseKey, DatabaseValue, HealthKey, Ok, BanKey, MetricsKey, MaxDatabaseWrites
VARIABLES store, isOpen, synced, log, possible, databaseWrites

Database == INSTANCE MedorDatabase WITH
    Key <- DatabaseKey, Value <- DatabaseValue, NotFound <- Absent,
    MaxWrites <- MaxDatabaseWrites, writes <- databaseWrites

logVars == <<store, isOpen, synced, log, possible, databaseWrites>>
NoLogVars ==
    /\ store = Absent /\ isOpen = Absent /\ synced = Absent /\ log = Absent /\ possible = Absent
    /\ databaseWrites = Absent

-----------------------------------------------------------------------------
(* The units beside each other *)

otherVars == <<call, fileVars, recordVars, keyVars, socketVars, cacheVars, bucketVars,
               searchVars, tableVars, inboundVars, taskVars, contractVars, scoreVars>>
NoOtherVars ==
    /\ call = Absent
    /\ NoFileVars /\ NoRecordVars /\ NoKeyVars /\ NoSocketVars /\ NoCacheVars /\ NoBucketVars
    /\ NoSearchVars /\ NoTableVars /\ NoInboundVars /\ NoTaskVars /\ NoContractVars /\ NoScoreVars

stateVars == <<clock, faults, chainVars, poolVars, jobVars, logVars>>

ChainInit ==
    /\ unit = "chain" /\ Chain!Init
    /\ faults = Absent /\ NoPoolVars /\ NoJobVars /\ NoLogVars

MempoolInit ==
    /\ unit = "mempool" /\ Mempool!Init
    /\ clock = Absent /\ faults = Absent /\ NoChainVars /\ NoJobVars /\ NoLogVars

PersistInit ==
    /\ unit = "persist" /\ Persist!Init
    /\ clock = Absent /\ faults = Absent /\ NoChainVars /\ NoPoolVars /\ NoLogVars

DatabaseInit ==
    /\ unit = "database" /\ Database!Init
    /\ clock = Absent /\ NoChainVars /\ NoPoolVars /\ NoJobVars

ChainNext ==
    /\ unit = "chain" /\ Chain!Next
    /\ UNCHANGED <<unit, faults, poolVars, jobVars, logVars>>

MempoolNext ==
    /\ unit = "mempool" /\ Mempool!Next
    /\ UNCHANGED <<unit, clock, faults, chainVars, jobVars, logVars>>

PersistNext ==
    /\ unit = "persist" /\ Persist!Next
    /\ UNCHANGED <<unit, clock, faults, chainVars, poolVars, logVars>>

DatabaseNext ==
    /\ unit = "database" /\ Database!Next
    /\ UNCHANGED <<unit, clock, chainVars, poolVars, jobVars>>

StateInit == NoOtherVars /\ (ChainInit \/ MempoolInit \/ PersistInit \/ DatabaseInit)
StateNext == UNCHANGED otherVars /\ (ChainNext \/ MempoolNext \/ PersistNext \/ DatabaseNext)
StateSpec == StateInit /\ [][StateNext]_<<unit, otherVars, stateVars>>

-----------------------------------------------------------------------------
(* Properties *)

\* The unspent outputs are worth no more than was issued, and what sums of
\* outputs that wrapped have lost: rolling back a block that failed half way
\* takes its outputs away again and restores what it spent.
OutputsBacked == unit = "chain" => Chain!OutputsBacked

\* A block addBlock reported as added is stored, and in the chain of every
\* later process in which it reads back, after crashes inside addBlock too.
CommittedSurvive == unit = "chain" => Chain!CommittedSurvive

\* No two entries spend one output, the outputs held to be spent are theirs,
\* and the limits hold, also where mu_ is given up half way.
SpentOnce == unit = "mempool" => Mempool!SpentOnce

\* A hash with no job waiting is stored as its last job left it, failed
\* batches and batches put back over later jobs included.
LastJobWins == unit = "persist" => Persist!LastJobWins

\* What a database acknowledged with a sync is read again after closing,
\* crashes and failing writes, and every batch is there whole or not at all.
AcknowledgedKept == unit = "database" => Database!AcknowledgedKept

\* Paying into an account never leaves it poorer: the network fee is taken
\* from what the output brings, even when that is less than the flat fee.
\* (Accounts that have room for it: see MedorChain.)
CreditsNeverLower == [][unit = "chain" => Chain!NoneLowered]_<<unit, otherVars, stateVars>>
=============================================================================

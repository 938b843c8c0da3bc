---------------------------- MODULE MedorDatabase ----------------------------
(***************************************************************************)
(* The four classes of the C++ node that keep a key-value database:        *)
(* AccountDB and RocksDBWrapper (under the API keys and the EVM), PeerStore*)
(* and BlockDB, in src/src/db and src/src/net/peer_store.cpp.  The first   *)
(* three are RocksDB, whose writes they sync except for the metrics of     *)
(* PeerStore; BlockDB is LevelDB, whose writes it leaves unsynced.         *)
(*                                                                         *)
(* The databases themselves are external: a write is in the log as a whole *)
(* or not at all, a sync makes the log durable up to its end, a process    *)
(* that dies leaves the log to the operating system, and a power failure   *)
(* leaves a prefix of what was not synced.  A write that fails may be in   *)
(* the log.                                                                *)
(***************************************************************************)
EXTENDS Integers, SequencesExt

CONSTANTS
    Key, Value,          \* what is stored
    NotFound,            \* the value of a key that is not stored
    HealthKey,           \* where AccountDB and RocksDBWrapper put Ok
    Ok,
    BanKey, MetricsKey,  \* PeerStore's "ban:..." and "__net_metrics__"
    MaxWrites, MaxFaults \* bounds

VARIABLES
    store,               \* the class this is an object of
    isOpen,              \* db_ # nullptr
    synced,              \* what is on disk
    log,                 \* the writes after that, oldest first
    possible,            \* history: the contents that callers must expect
    writes, faults       \* bounds: so far

databaseVars == <<store, isOpen, synced, log, possible, writes, faults>>

Empty == [k \in Key |-> NotFound]

Init ==
    /\ store \in {"AccountDB", "RocksDBWrapper", "PeerStore", "BlockDB"}
    /\ isOpen = FALSE
    /\ synced = Empty /\ log = <<>> /\ possible = {Empty}
    /\ writes = 0 /\ faults = 0

-----------------------------------------------------------------------------
(* The database *)

\* A batch is a function from the keys it sets or deletes to their values.
Apply(contents, batches) ==
    FoldLeft(LAMBDA c, batch : [k \in Key |-> IF k \in DOMAIN batch THEN batch[k] ELSE c[k]],
             contents, batches)

Contents == Apply(synced, log)

\* Whether a caller that is told of success may rely on it: metrics are "not
\* critical", and BlockDB writes with LevelDB's default options.
Relied(batch) == store # "BlockDB" /\ MetricsKey \notin DOMAIN batch

\* A batch is written, and with it synced is all that was written before.
Commit(batch, sync) ==
    LET result == Apply(Contents, <<batch>>)
    IN  /\ IF sync THEN synced' = result /\ log' = <<>>
                   ELSE log' = Append(log, batch) /\ UNCHANGED synced
        /\ possible' = (IF Relied(batch) THEN {} ELSE possible) \cup {result}
        /\ UNCHANGED faults

\* It fails, and is in the log or not.
CommitFails(batch) ==
    /\ faults < MaxFaults /\ faults' = faults + 1
    /\ possible' = possible \cup {Apply(Contents, <<batch>>)}
    /\ log' \in {log, Append(log, batch)}
    /\ UNCHANGED synced

\* A call of the class, on an open database.
Call(class, batch, sync) ==
    /\ store = class /\ isOpen
    /\ writes < MaxWrites /\ writes' = writes + 1
    /\ Commit(batch, sync) \/ CommitFails(batch)
    /\ UNCHANGED <<store, isOpen>>

Put(k, v) == [key \in {k} |-> v]
Deletes(keys) == [k \in keys |-> NotFound]
Record == Key \ {HealthKey}
Puts(keys) == [keys -> Value]

Opens == ~isOpen /\ isOpen' = TRUE

-----------------------------------------------------------------------------
(* AccountDB: all keys of a batch are checked before it is written *)

\* Opening ends with a write that must succeed.
AccountOpen ==
    /\ store = "AccountDB" /\ ~isOpen
    /\ \/ Commit(Put(HealthKey, Ok), TRUE) /\ isOpen' = TRUE
       \/ CommitFails(Put(HealthKey, Ok)) /\ UNCHANGED isOpen
    /\ UNCHANGED <<store, writes>>

AccountClose ==
    /\ store = "AccountDB" /\ isOpen /\ isOpen' = FALSE
    /\ UNCHANGED <<store, synced, log, possible, writes, faults>>

\* setContractCode, setStorageSlot, setStateRoot, setMeta: a put each.
AccountPut == \E k \in Record, v \in Value : Call("AccountDB", Put(k, v), TRUE)

AccountDel == \E k \in Record : Call("AccountDB", Deletes({k}), TRUE)

\* Variant: the batch is written with the default options.
WithoutSync ==
    \E keys \in SUBSET Record : keys # {} /\ \E batch \in Puts(keys) : Call("AccountDB", batch, FALSE)

AccountWriteBatch ==
    \E keys \in SUBSET Record : keys # {} /\ \E batch \in Puts(keys) : Call("AccountDB", batch, TRUE)

AccountDeleteBatch ==
    \E keys \in SUBSET Record : keys # {} /\ Call("AccountDB", Deletes(keys), TRUE)

-----------------------------------------------------------------------------
(* RocksDBWrapper: all callers ask for a sync *)

WrapperOpen == store = "RocksDBWrapper" /\ Opens /\ UNCHANGED <<store, synced, log, possible, writes, faults>>

\* FlushWAL(sync), which may fail.
Flushed ==
    \/ synced' = Contents /\ log' = <<>> /\ possible' = {Contents} /\ UNCHANGED faults
    \/ /\ faults < MaxFaults /\ faults' = faults + 1
       /\ UNCHANGED <<synced, log, possible>>

WrapperClose ==
    /\ store = "RocksDBWrapper" /\ isOpen /\ isOpen' = FALSE
    /\ Flushed
    /\ UNCHANGED <<store, writes>>

\* The probe is written, and then read back.
IsHealthy == Call("RocksDBWrapper", Put(HealthKey, Ok), TRUE)

WrapperPut == \E k \in Record, v \in Value : Call("RocksDBWrapper", Put(k, v), TRUE)

WrapperDel == \E k \in Record : Call("RocksDBWrapper", Deletes({k}), TRUE)

BatchPut ==
    \E keys \in SUBSET Record : keys # {} /\ \E batch \in Puts(keys) : Call("RocksDBWrapper", batch, TRUE)

BatchDelete ==
    \E keys \in SUBSET Record : keys # {} /\ Call("RocksDBWrapper", Deletes(keys), TRUE)

-----------------------------------------------------------------------------
(* PeerStore: peers and bans are synced, metrics are not *)

PeerKey == Record \ {BanKey, MetricsKey}

PeerStoreOpen == store = "PeerStore" /\ Opens /\ UNCHANGED <<store, synced, log, possible, writes, faults>>

PeerStoreClose ==
    /\ store = "PeerStore" /\ isOpen /\ isOpen' = FALSE
    /\ Flushed
    /\ UNCHANGED <<store, writes>>

SavePeer == \E k \in PeerKey, v \in Value : Call("PeerStore", Put(k, v), TRUE)

DeletePeer == \E k \in PeerKey : Call("PeerStore", Deletes({k}), TRUE)

SaveBan == \E v \in Value : Call("PeerStore", Put(BanKey, v), TRUE)

ClearBan == Call("PeerStore", Deletes({BanKey}), TRUE)

SaveMetrics == \E v \in Value : Call("PeerStore", Put(MetricsKey, v), FALSE)

-----------------------------------------------------------------------------
(* BlockDB: blocks are never deleted *)

BlockOpen == store = "BlockDB" /\ Opens /\ UNCHANGED <<store, synced, log, possible, writes, faults>>

BlockClose ==
    /\ store = "BlockDB" /\ isOpen /\ isOpen' = FALSE
    /\ UNCHANGED <<store, synced, log, possible, writes, faults>>

WriteBlock == \E k \in Record, v \in Value : Call("BlockDB", Put(k, v), FALSE)

WriteBatch ==
    \E keys \in SUBSET Record : keys # {} /\ \E batch \in Puts(keys) : Call("BlockDB", batch, FALSE)

-----------------------------------------------------------------------------
(* Crashes *)

ProcessDies ==
    /\ isOpen /\ isOpen' = FALSE
    /\ UNCHANGED <<store, synced, log, possible, writes, faults>>

PowerFails ==
    /\ faults < MaxFaults /\ faults' = faults + 1
    /\ isOpen' = FALSE
    /\ \E n \in 0..Len(log) : synced' = Apply(synced, SubSeq(log, 1, n))
    /\ log' = <<>>
    /\ UNCHANGED <<store, possible, writes>>

Next ==
    \/ AccountOpen \/ AccountClose
    \/ AccountPut \/ AccountDel \/ AccountWriteBatch \/ AccountDeleteBatch
    \/ WrapperOpen \/ WrapperClose \/ IsHealthy
    \/ WrapperPut \/ WrapperDel \/ BatchPut \/ BatchDelete
    \/ PeerStoreOpen \/ PeerStoreClose
    \/ SavePeer \/ DeletePeer \/ SaveBan \/ ClearBan \/ SaveMetrics
    \/ BlockOpen \/ BlockClose \/ WriteBlock \/ WriteBatch
    \/ ProcessDies \/ PowerFails

Spec == Init /\ [][Next]_databaseVars

-----------------------------------------------------------------------------
(* Properties *)

\* A database holds what the last acknowledged write left that callers may
\* rely on, or what some of the later writes made of it, each whole: through
\* closing, crashes and failing writes of all four classes.
AcknowledgedKept == Contents \in possible
=============================================================================

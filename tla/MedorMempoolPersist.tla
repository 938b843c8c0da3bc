------------------------ MODULE MedorMempoolPersist ------------------------
(***************************************************************************)
(* The persist queue of Mempool (src/src/mempool/mempool.cpp): jobs pushed *)
(* by the callers, the oldest dropped when there are too many, written by  *)
(* one worker in batches that are atomic and may fail.                     *)
(***************************************************************************)
EXTENDS Naturals, Sequences, FiniteSets, SequencesExt

CONSTANTS
    Key,                \* the hashes of transactions
    MaxPersistQueue,    \* cfg_.maxPersistQueueSize
    PersistBatch,       \* cfg_.persistBatchSize
    MaxJobs             \* bound

VARIABLES
    persistQueue, batch,
    db,                 \* the hashes stored
    persistStopped,
    persistWorker,      \* "wait", "write" or "gone"
    lastJob,            \* history: the last job of each hash
    dropped,            \* history: hashes whose last job was dropped
    jobs                \* bound

persistVars == <<persistQueue, batch, db, persistStopped, persistWorker, lastJob, dropped, jobs>>

Init ==
    /\ persistQueue = <<>> /\ batch = <<>> /\ db = {} /\ persistStopped = FALSE
    /\ persistWorker = "wait"
    /\ lastJob = [k \in Key |-> "delete"] /\ dropped = {} /\ jobs = 0

Job == [op : {"put", "delete"}, key : Key]
JobsOf(k, s) == {i \in DOMAIN s : s[i].key = k}

\* enqueuePersist, enqueueUnpersist
Enqueue(job) ==
    /\ jobs < MaxJobs /\ jobs' = jobs + 1
    /\ LET longer == Append(persistQueue, job)
           over == Len(longer) > MaxPersistQueue
           kept == IF over THEN Tail(longer) ELSE longer
           gone == Head(longer).key
       IN  /\ persistQueue' = kept
           /\ dropped' = IF over /\ JobsOf(gone, kept) = {} THEN dropped \cup {gone}
                         ELSE dropped \ {job.key}
    /\ lastJob' = [lastJob EXCEPT ![job.key] = job.op]
    /\ UNCHANGED <<batch, db, persistStopped, persistWorker>>

\* runPersistWorker
TakeBatch ==
    /\ persistWorker = "wait" /\ persistQueue # <<>>
    /\ LET n == IF Len(persistQueue) < PersistBatch THEN Len(persistQueue) ELSE PersistBatch
       IN  /\ batch' = SubSeq(persistQueue, 1, n)
           /\ persistQueue' = SubSeq(persistQueue, n + 1, Len(persistQueue))
    /\ persistWorker' = "write"
    /\ UNCHANGED <<db, persistStopped, lastJob, dropped, jobs>>

Applied(stored, job) == IF job.op = "put" THEN stored \cup {job.key} ELSE stored \ {job.key}
AllApplied(stored, s) == FoldLeft(Applied, stored, s)

WriteBatch ==
    /\ persistWorker = "write"
    /\ db' = AllApplied(db, batch)
    /\ batch' = <<>> /\ persistWorker' = "wait"
    /\ UNCHANGED <<persistQueue, persistStopped, lastJob, dropped, jobs>>

\* Variant: the jobs come back last first.
BackReversed == Reverse(batch) \o persistQueue

Back == batch \o persistQueue

\* A failed batch goes back to the front, also beyond the limit.
WriteFails ==
    /\ persistWorker = "write"
    /\ persistQueue' = Back /\ batch' = <<>> /\ persistWorker' = "wait"
    /\ UNCHANGED <<db, persistStopped, lastJob, dropped, jobs>>

\* ~Mempool
StopPersist ==
    /\ ~persistStopped /\ persistStopped' = TRUE
    /\ UNCHANGED <<persistQueue, batch, db, persistWorker, lastJob, dropped, jobs>>

WorkerLeaves ==
    /\ persistWorker = "wait" /\ persistStopped /\ persistQueue = <<>>
    /\ persistWorker' = "gone"
    /\ UNCHANGED <<persistQueue, batch, db, persistStopped, lastJob, dropped, jobs>>

Next ==
    \/ ~persistStopped /\ \E job \in Job : Enqueue(job)
    \/ TakeBatch \/ WriteBatch \/ WriteFails \/ StopPersist \/ WorkerLeaves

-----------------------------------------------------------------------------
(* Properties *)

\* A hash none of whose jobs is waiting is stored as its last job left it,
\* failed batches and batches put back over later jobs included, unless
\* that job was dropped because the queue was too long.
LastJobWins ==
    \A k \in Key :
        JobsOf(k, batch \o persistQueue) = {} /\ k \notin dropped =>
            (k \in db) = (lastJob[k] = "put")
=============================================================================

----------------------------- MODULE MedorPools -----------------------------
(***************************************************************************)
(* The queue-and-workers pools of the C++ node: ThreadPool, the WorkerPool *)
(* of network.cpp, the BroadcastPool of NetworkManager, the WorkerPool of  *)
(* PeerManager (here "background") and the workers of AsyncLogger.  They   *)
(* differ in what they refuse, in whether the stop flag is set under the   *)
(* mutex, and in how the owner leaves.                                     *)
(*                                                                         *)
(* A wait on a condition variable tests its predicate and then blocks,     *)
(* with the mutex held: steps that take the mutex cannot come in between,  *)
(* the others can.  A notification that comes in between wakes nobody.     *)
(* The mutex is held by nobody else across two steps.                      *)
(***************************************************************************)
EXTENDS Naturals, Sequences, FiniteSets

CONSTANTS
    Pool,          \* the pools modelled, a subset of the five
    Worker, Task,
    QueueLimit,    \* maxDepth_, maxQueue_, cfg_.maxQueueDepth
    NoTask,
    MaxResizes     \* bound

VARIABLES
    pool,          \* which one
    worker, task,  \* where each worker is, and its task
    queue,
    stopping,
    owner,         \* where the thread that drains, resizes or destroys it is
    submitted, finished,
    owed,          \* history: what was submitted when drain or stop began
    resizes        \* bound

poolVars == <<pool, worker, task, queue, stopping, owner, submitted, finished, owed, resizes>>

Init ==
    /\ pool \in Pool
    /\ worker = [w \in Worker |-> "test"] /\ task = [w \in Worker |-> NoTask]
    /\ queue = <<>> /\ stopping = FALSE /\ owner = "away"
    /\ submitted = {} /\ finished = {} /\ owed = {} /\ resizes = 0

MutexFree == owner # "blocking" /\ \A w \in Worker : worker[w] # "blocking"
Asleep == {w \in Worker : worker[w] = "asleep"}

-----------------------------------------------------------------------------
(* submit, enqueue, post, log *)

RefusedByThreadPool == stopping \/ Len(queue) >= QueueLimit
RefusedByWorkerPool == stopping \/ Len(queue) >= QueueLimit
RefusedByBroadcastPool == FALSE
RefusedByBackground == stopping
RefusedByLogger == stopping \/ Len(queue) >= QueueLimit

Refused ==
    \/ pool = "thread" /\ RefusedByThreadPool
    \/ pool = "worker" /\ RefusedByWorkerPool
    \/ pool = "broadcast" /\ RefusedByBroadcastPool
    \/ pool = "background" /\ RefusedByBackground
    \/ pool = "logger" /\ RefusedByLogger

Submit(t) ==
    /\ t \notin submitted /\ MutexFree /\ ~Refused
    /\ queue' = Append(queue, t) /\ submitted' = submitted \cup {t}
    /\ IF Asleep = {} THEN UNCHANGED worker
       ELSE \E w \in Asleep : worker' = [worker EXCEPT ![w] = "test"]
    /\ UNCHANGED <<pool, task, stopping, owner, finished, owed, resizes>>

-----------------------------------------------------------------------------
(* A worker's loop *)

Take(w) ==
    /\ worker[w] = "test" /\ MutexFree /\ queue # <<>>
    /\ task' = [task EXCEPT ![w] = Head(queue)] /\ queue' = Tail(queue)
    /\ worker' = [worker EXCEPT ![w] = "run"]
    /\ UNCHANGED <<pool, stopping, owner, submitted, finished, owed, resizes>>

Leave(w) ==
    /\ worker[w] = "test" /\ MutexFree /\ queue = <<>> /\ stopping
    /\ worker' = [worker EXCEPT ![w] = "gone"]
    /\ UNCHANGED <<pool, task, queue, stopping, owner, submitted, finished, owed, resizes>>

FindsNothing(w) ==
    /\ worker[w] = "test" /\ MutexFree /\ queue = <<>> /\ ~stopping
    /\ worker' = [worker EXCEPT ![w] = "blocking"]
    /\ UNCHANGED <<pool, task, queue, stopping, owner, submitted, finished, owed, resizes>>

Block(w) ==
    /\ worker[w] = "blocking"
    /\ worker' = [worker EXCEPT ![w] = "asleep"]
    /\ UNCHANGED <<pool, task, queue, stopping, owner, submitted, finished, owed, resizes>>

\* What a task throws is caught.  Only network.cpp's pool has drainCv_.
Finish(w) ==
    /\ worker[w] = "run"
    /\ finished' = finished \cup {task[w]}
    /\ task' = [task EXCEPT ![w] = NoTask]
    /\ worker' = [worker EXCEPT ![w] = IF pool = "worker" THEN "count" ELSE "test"]
    /\ UNCHANGED <<pool, queue, stopping, owner, submitted, owed, resizes>>

\* activeCount_ goes down and drainCv_ is notified without the mutex.
CountDown(w) ==
    /\ worker[w] = "count"
    /\ worker' = [worker EXCEPT ![w] = "notify"]
    /\ UNCHANGED <<pool, task, queue, stopping, owner, submitted, finished, owed, resizes>>

NotifyDrain(w) ==
    /\ worker[w] = "notify"
    /\ worker' = [worker EXCEPT ![w] = "test"]
    /\ owner' = IF owner = "asleep" THEN "drain" ELSE owner
    /\ UNCHANGED <<pool, task, queue, stopping, submitted, finished, owed, resizes>>

-----------------------------------------------------------------------------
(* The owner: drain, shutdown, resize, stop, the destructors *)

activeCount == Cardinality({w \in Worker : worker[w] \in {"run", "count"}})

\* All that ThreadPool's drain asks for: tasks under way are not waited for.
QueueEmpty == queue = <<>>

\* network.cpp's pool waits for both.
Drained == queue = <<>> /\ activeCount = 0

Drain ==
    /\ \/ pool = "worker" /\ owner = "away"
       \/ pool = "thread" /\ owner \in {"away", "drained"}
    /\ owner' = "drain" /\ owed' = submitted
    /\ UNCHANGED <<pool, worker, task, queue, stopping, submitted, finished, resizes>>

DrainTest ==
    /\ pool = "worker" /\ owner = "drain" /\ MutexFree
    /\ owner' = IF Drained THEN "drained" ELSE "blocking"
    /\ UNCHANGED <<pool, worker, task, queue, stopping, submitted, finished, owed, resizes>>

DrainBlock ==
    /\ owner = "blocking" /\ owner' = "asleep"
    /\ UNCHANGED <<pool, worker, task, queue, stopping, submitted, finished, owed, resizes>>

\* ThreadPool's drain looks every few milliseconds and never sleeps on drainCv_.
DrainPoll ==
    /\ pool = "thread" /\ owner = "drain" /\ MutexFree /\ QueueEmpty
    /\ owner' = "drained"
    /\ UNCHANGED <<pool, worker, task, queue, stopping, submitted, finished, owed, resizes>>

\* Only network.cpp drains its pool first, always.
SetFlag ==
    /\ owner = "drained" \/ (pool # "worker" /\ owner = "away")
    /\ stopping' = TRUE /\ owner' = "notify"
    /\ owed' = submitted
    /\ UNCHANGED <<pool, worker, task, queue, submitted, finished, resizes>>

\* Variant: ThreadPool and AsyncLogger set the flag without the mutex.
RequestStopUnlocked == SetFlag

\* BroadcastPool and the background pool set the flag without the mutex.
RequestStop ==
    /\ pool \in {"broadcast", "background"} \/ MutexFree
    /\ SetFlag

NotifyAll ==
    /\ owner = "notify" /\ owner' = "join"
    /\ worker' = [w \in Worker |-> IF w \in Asleep THEN "test" ELSE worker[w]]
    /\ UNCHANGED <<pool, task, queue, stopping, submitted, finished, owed, resizes>>

Join ==
    /\ owner = "join" /\ \A w \in Worker : worker[w] = "gone"
    /\ owner' = "gone"
    /\ UNCHANGED <<pool, worker, task, queue, stopping, submitted, finished, owed, resizes>>

\* resize: the same, and then new workers.
Resize ==
    /\ pool = "worker" /\ owner = "join" /\ \A w \in Worker : worker[w] = "gone"
    /\ resizes < MaxResizes /\ resizes' = resizes + 1
    /\ owner' = "away" /\ stopping' = FALSE
    /\ worker' = [w \in Worker |-> "test"]
    /\ UNCHANGED <<pool, task, queue, submitted, finished, owed>>

\* AsyncLogger waits for its workers until shutdownTimeoutMs.
JoinTimesOut ==
    /\ pool = "logger" /\ owner = "join" /\ \E w \in Worker : worker[w] # "gone"
    /\ owner' = "timed out"
    /\ UNCHANGED <<pool, worker, task, queue, stopping, submitted, finished, owed, resizes>>

WorkerStep(w) ==
    Take(w) \/ Leave(w) \/ FindsNothing(w) \/ Block(w) \/ Finish(w) \/ CountDown(w) \/ NotifyDrain(w)

Next ==
    \/ \E t \in Task : Submit(t)
    \/ \E w \in Worker : WorkerStep(w)
    \/ Drain \/ DrainTest \/ DrainBlock \/ DrainPoll \/ RequestStop \/ NotifyAll
    \/ Join \/ Resize \/ JoinTimesOut

Spec == Init /\ [][Next]_poolVars

-----------------------------------------------------------------------------
(* Properties *)

BeingRun == {task[w] : w \in {v \in Worker : worker[v] = "run"}}

\* Stop leaves nothing behind, and network.cpp's drain neither: what was
\* submitted before they began has been run when they return, whoever was
\* running it.  ThreadPool's drain leaves what the workers are at.
NothingLeftBehind ==
    /\ owner = "gone" => owed \subseteq finished
    /\ owner = "drained" =>
           owed \subseteq IF pool = "thread" THEN finished \cup BeingRun ELSE finished

\* The pools that set their flag under the mutex wake everybody: once stop
\* has notified, no worker sleeps or is about to.
NoneLeftAsleep ==
    pool \in {"thread", "logger"} /\ owner = "join"
        => \A w \in Worker : worker[w] \notin {"blocking", "asleep"}

StopsClean == NothingLeftBehind /\ NoneLeftAsleep
=============================================================================

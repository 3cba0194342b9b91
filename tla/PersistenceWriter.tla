--------------------------- MODULE PersistenceWriter ---------------------------
(***************************************************************************)
(* The write-behind persistence of src/src/middleware.py                   *)
(* (_AsyncPersistenceWriter): a bounded queue of save and delete tasks, one *)
(* worker thread that executes them against the store, and a recovery path *)
(* on which REQUEST threads execute the last failed task again.            *)
(*                                                                         *)
(* A store call and the recording of its outcome are separate steps: the   *)
(* call runs outside the state lock, the recording inside it, so worker and *)
(* recovering threads interleave between the two.                          *)
(***************************************************************************)
EXTENDS Naturals, Sequences

CONSTANTS
    Threads,        \* request threads
    Worker,         \* the thread "pii-persist-writer"
    Scopes,         \* session scopes
    QueueMax,       \* maxsize of the queue
    Categories,     \* error categories the store may fail with
    MaxRequests,    \* bound on the writes requested for one scope
    MaxFailures,    \* bound on failing store calls
    MaxDeaths,      \* bound on deaths of the worker thread
    MaxRestarts     \* bound on restarts of the process

Executors == Threads \cup {Worker}

AllCategories == {"transient", "backend", "unknown", "auth", "schema", "misconfigured"}

ASSUME WriterAssumption ==
    /\ Worker \notin Threads
    /\ QueueMax \in Nat \ {0}
    /\ Categories \subseteq AllCategories
    /\ MaxRequests \in Nat /\ MaxFailures \in Nat
    /\ MaxDeaths \in Nat /\ MaxRestarts \in Nat

VARIABLES
    queue,          \* _queue: tasks accepted and not taken yet
    workerAlive,    \* _thread.is_alive()
    doing,          \* doing[x]: the task in the hands of executor x
    health,         \* the fields guarded by _state_lock
    store,          \* store[s]: the row of s and the request that wrote it
    failures,       \* failing store calls so far
    deaths,         \* worker deaths so far
    restarts,       \* process restarts so far
    requested,      \* history: writes accepted for s so far
    faults          \* history: what went wrong with a write of s

writerVars == <<queue, workerAlive, doing, health, store, failures, deaths, restarts,
                requested, faults>>

--------------------------------------------------------------------------------
\* A _PersistTask.  The snapshot is the number of the request that took it; a
\* delete writes the absence of a row.
Ops == {"save", "delete"}
Task(op, s, n) == [op |-> op, scope |-> s, seq |-> n]
Tasks == [op : Ops, scope : Scopes, seq : Nat]
NoTask == [op |-> "none"]

Idle == [stage |-> "idle"]
Executing(task) == [stage |-> "executing", task |-> task]
Executed(task, result) == [stage |-> "executed", task |-> task, result |-> result]

\* (Mutant: a delete leaves the row.)
RowKept(task) == [row |-> TRUE, seq |-> task.seq]

Rows == [row : BOOLEAN, seq : Nat]
RowAfter(task) == [row |-> task.op = "save", seq |-> task.seq]

NoCategory == "none"

\* _should_retry_category
Retryable(c) == c \in {NoCategory, "transient", "backend", "unknown"}

\* _state_for_error_category
StateFor(c) ==
    CASE c = "misconfigured"       -> "misconfigured"
      [] c \in {"auth", "schema"}  -> "unavailable"
      [] OTHER                     -> "degraded"

\* A call that ended in a transport error may have reached the backend; the other
\* failures are the backend's (or the cipher's) refusal to write.
MayHaveApplied(c) == c \in {"transient", "unknown"}

InitHealth == [state |-> "healthy", error |-> FALSE, category |-> NoCategory,
               op |-> "none", failed |-> NoTask, cooldown |-> "none"]

\* The property `healthy`.
Healthy == ~health.error /\ workerAlive

--------------------------------------------------------------------------------
\* A writer fresh from __init__.
NewWriter ==
    /\ queue = <<>>
    /\ workerAlive = TRUE
    /\ doing = [x \in Executors |-> Idle]
    /\ health = InitHealth
    /\ failures = 0
    /\ deaths = 0
    /\ restarts = 0
    /\ faults = [s \in Scopes |-> {}]

WriterInit ==
    /\ NewWriter
    /\ store = [s \in Scopes |-> [row |-> FALSE, seq |-> 0]]
    /\ requested = [s \in Scopes |-> 0]

\* (Mutants: one task too many; the last task first.)
AcceptsOneMore == Len(queue) <= QueueMax
PutFirst(task) == <<task>> \o queue

\* enqueue_save / enqueue_delete: put_nowait() succeeds.
Accepts == Len(queue) < QueueMax
Put(task) == Append(queue, task)

Enqueue(op, s) ==
    /\ Accepts
    /\ requested[s] < MaxRequests
    /\ requested' = [requested EXCEPT ![s] = @ + 1]
    /\ queue' = Put(Task(op, s, requested[s] + 1))
    /\ UNCHANGED <<workerAlive, doing, health, store, failures, deaths, restarts, faults>>

\* _run: the next task leaves the queue.
WorkerTake ==
    /\ workerAlive
    /\ doing[Worker] = Idle
    /\ queue # <<>>
    /\ doing' = [doing EXCEPT ![Worker] = Executing(Head(queue))]
    /\ queue' = Tail(queue)
    /\ UNCHANGED <<workerAlive, health, store, failures, deaths, restarts, requested, faults>>

\* _execute_task returns: the row is written.
StoreSucceeds(x) ==
    LET task == doing[x].task IN
    /\ doing[x].stage = "executing"
    /\ store' = [store EXCEPT ![task.scope] = RowAfter(task)]
    /\ doing' = [doing EXCEPT ![x] = Executed(task, "ok")]
    /\ UNCHANGED <<queue, workerAlive, health, failures, deaths, restarts, requested, faults>>

\* _execute_task raises an error of category c.
StoreFails(x, c) ==
    LET task == doing[x].task IN
    /\ doing[x].stage = "executing"
    /\ failures < MaxFailures
    /\ failures' = failures + 1
    /\ \/ UNCHANGED store
       \/ MayHaveApplied(c) /\ store' = [store EXCEPT ![task.scope] = RowAfter(task)]
    /\ doing' = [doing EXCEPT ![x] = Executed(task, c)]
    /\ faults' = [faults EXCEPT ![task.scope] = @ \cup {"failed"}]
    /\ UNCHANGED <<queue, workerAlive, health, deaths, restarts, requested>>

\* (Mutants: the failed task is kept; a running retry keeps its state.)
ClearedButTask == [health EXCEPT !.state = "healthy", !.error = FALSE, !.cooldown = "none"]
FailedWhileRecovering(task, c) ==
    [state |-> IF health.state = "recovering" THEN "recovering" ELSE StateFor(c),
     error |-> TRUE, category |-> c, op |-> task.op, failed |-> task,
     cooldown |-> IF Retryable(c) THEN "elapsed" ELSE "none"]

ClearedHealth == [health EXCEPT !.state = "healthy", !.error = FALSE,
                                !.failed = NoTask, !.cooldown = "none"]
FailedHealth(task, c) ==
    [state |-> StateFor(c), error |-> TRUE, category |-> c, op |-> task.op, failed |-> task,
     cooldown |-> IF Retryable(c) THEN "running" ELSE "none"]

\* _record_success: health is restored whatever task had failed before.
RecordSuccess(x) ==
    /\ doing[x].stage = "executed"
    /\ doing[x].result = "ok"
    /\ health' = ClearedHealth
    /\ doing' = [doing EXCEPT ![x] = Idle]
    /\ UNCHANGED <<queue, workerAlive, store, failures, deaths, restarts, requested, faults>>

\* _record_failure: this task is the one to retry from now on.
RecordFailure(x) ==
    LET task == doing[x].task
        c == doing[x].result
    IN  /\ doing[x].stage = "executed"
        /\ c # "ok"
        /\ health' = FailedHealth(task, c)
        /\ doing' = [doing EXCEPT ![x] = Idle]
        /\ UNCHANGED <<queue, workerAlive, store, failures, deaths, restarts, requested, faults>>

\* time.time() reaches _next_recovery_at_epoch.
CooldownElapses ==
    /\ health.cooldown = "running"
    /\ health' = [health EXCEPT !.cooldown = "elapsed"]
    /\ UNCHANGED <<queue, workerAlive, doing, store, failures, deaths, restarts, requested, faults>>

\* The worker thread ends: an exception left the loop outside the store call.
WorkerDies ==
    /\ workerAlive
    /\ doing[Worker].stage # "executing"
    /\ deaths < MaxDeaths
    /\ deaths' = deaths + 1
    /\ workerAlive' = FALSE
    /\ doing' = [doing EXCEPT ![Worker] = Idle]
    /\ UNCHANGED <<queue, health, store, failures, restarts, requested, faults>>

\* (Mutants: the worker is left dead; the new worker starts on an empty queue.)
WorkerStaysDead == ~workerAlive /\ UNCHANGED writerVars
WorkerStartsAfresh ==
    /\ ~workerAlive
    /\ workerAlive' = TRUE
    /\ queue' = <<>>
    /\ UNCHANGED <<doing, health, store, failures, deaths, restarts, requested, faults>>

\* ensure_worker_running, called by every gated request and by /health.
EnsureWorkerRunning ==
    /\ ~workerAlive
    /\ workerAlive' = TRUE
    /\ UNCHANGED <<queue, doing, health, store, failures, deaths, restarts, requested, faults>>

\* (Mutants: the clock is compared the wrong way round; the retry takes up a
\* queued task.)
MayRecoverEarly ==
    /\ health.error
    /\ health.cooldown # "elapsed"
    /\ health.failed # NoTask
    /\ Retryable(health.category)
QueuedTask == IF queue # <<>> THEN Head(queue) ELSE health.failed

\* The conditions under which maybe_recover starts a retry; it returns at once
\* under any other.  The gate calls it when the writer is not healthy.
MayRecover ==
    /\ health.error
    /\ health.cooldown # "running"
    /\ health.failed # NoTask
    /\ Retryable(health.category)

\* The task it executes: the last one that failed.
RetryTask == health.failed

\* The locked first half of maybe_recover.  The cooldown is not set again, so a
\* second thread may start the same retry.
StartRecovery(t) ==
    /\ doing[t] = Idle
    /\ MayRecover
    /\ health' = [health EXCEPT !.state = "recovering"]
    /\ doing' = [doing EXCEPT ![t] = Executing(RetryTask)]
    /\ UNCHANGED <<queue, workerAlive, store, failures, deaths, restarts, requested, faults>>

\* The worker is about to write the row of s.
AtWorker(s) == doing[Worker].stage = "executing" /\ doing[Worker].task.scope = s

\* The writes of s that were accepted and have not reached the store yet.
Pending(s) ==
    {queue[i] : i \in {j \in DOMAIN queue : queue[j].scope = s}}
        \cup (IF AtWorker(s) THEN {doing[Worker].task} ELSE {})

\* The process stops and a new one starts: only the store survives.
Restart ==
    /\ restarts < MaxRestarts
    /\ restarts' = restarts + 1
    /\ queue' = <<>>
    /\ workerAlive' = TRUE
    /\ doing' = [x \in Executors |-> Idle]
    /\ health' = InitHealth
    /\ faults' = [s \in Scopes |-> faults[s] \cup (IF Pending(s) = {} THEN {} ELSE {"lost"})]
    /\ UNCHANGED <<store, failures, deaths, requested>>

--------------------------------------------------------------------------------
Perform(x) ==
    \/ StoreSucceeds(x)
    \/ \E c \in Categories : StoreFails(x, c)
    \/ RecordSuccess(x)
    \/ RecordFailure(x)

Next ==
    \/ \E op \in Ops, s \in Scopes : Enqueue(op, s)
    \/ WorkerTake
    \/ \E x \in Executors : Perform(x)
    \/ CooldownElapses
    \/ WorkerDies
    \/ EnsureWorkerRunning
    \/ \E t \in Threads : StartRecovery(t)
    \/ Restart

Spec == WriterInit /\ [][Next]_writerVars

\* The worker loop runs, store calls return (they have a timeout), time passes,
\* and requests or health probes keep arriving: a recovery and the restart of a
\* dead worker happen on their threads only.
Fairness ==
    /\ WF_writerVars(WorkerTake)
    /\ \A x \in Executors : WF_writerVars(Perform(x))
    /\ WF_writerVars(CooldownElapses)
    /\ WF_writerVars(EnsureWorkerRunning)
    /\ WF_writerVars(\E t \in Threads : StartRecovery(t))

FairSpec == Spec /\ Fairness

--------------------------------------------------------------------------------
Jobs ==
    {Idle} \cup [stage : {"executing"}, task : Tasks]
           \cup [stage : {"executed"}, task : Tasks, result : AllCategories \cup {"ok"}]

Healths ==
    [state : {"healthy", "degraded", "unavailable", "misconfigured", "recovering"},
     error : BOOLEAN, category : AllCategories \cup {NoCategory}, op : Ops \cup {"none"},
     failed : Tasks \cup {NoTask}, cooldown : {"none", "running", "elapsed"}]

\* Every variable has its type.
TypeOK ==
    /\ queue \in Seq(Tasks)
    /\ Len(queue) <= QueueMax
    /\ workerAlive \in BOOLEAN
    /\ doing \in [Executors -> Jobs]
    /\ health \in Healths
    /\ store \in [Scopes -> Rows]
    /\ failures \in Nat /\ deaths \in Nat /\ restarts \in Nat
    /\ requested \in [Scopes -> Nat]
    /\ faults \in [Scopes -> SUBSET {"failed", "lost"}]

\* The fields of the state lock tell one story, whichever threads wrote them: an
\* error is reported exactly while a failed task is kept for retry, the reported
\* operation is that task's, a retry is scheduled exactly for the categories that
\* are retried, and the state is the one of the category unless a retry runs.
\* The gate reads these fields one by one to decide whether to block a request.
HealthConsistent ==
    /\ health.error <=> health.state # "healthy"
    /\ health.error <=> health.failed # NoTask
    /\ health.error => health.op = health.failed.op
    /\ health.cooldown # "none" <=> health.error /\ Retryable(health.category)
    /\ health.error => health.state \in {StateFor(health.category), "recovering"}
    /\ health.state = "recovering" => health.cooldown = "elapsed"

\* The state "recovering" blocks every request, so it must not outlive the
\* retry: while it is reported, some request thread still holds one.
RecoveryHeld ==
    health.state = "recovering" => \E t \in Threads : doing[t] # Idle

\* Write-behind order: while no write of a scope has failed, the accepted writes
\* that are still on their way reach the store in the order of acceptance, after
\* what the store holds, whatever other scopes, recoveries, worker deaths and
\* restarts do.
InOrder ==
    \A s \in Scopes : "failed" \notin faults[s] =>
        /\ \A task \in Pending(s) : store[s].seq < task.seq /\ task.seq <= requested[s]
        /\ \A i, j \in DOMAIN queue :
              i < j /\ queue[i].scope = s /\ queue[j].scope = s => queue[i].seq < queue[j].seq
        /\ \A i \in DOMAIN queue :
              AtWorker(s) /\ queue[i].scope = s => doing[Worker].task.seq < queue[i].seq

\* No accepted write is lost: while none of a scope has failed and no restart has
\* caught one under way, the writes on their way are all those accepted since the
\* one the store holds.
NoGap ==
    \A s \in Scopes : faults[s] = {} =>
        {task.seq : task \in Pending(s)} = store[s].seq + 1 .. requested[s]

\* A recovery executes only what failed: the threads of the request path never
\* write the row of a scope whose writes all succeeded.
RecoverOnlyFailed ==
    \A t \in Threads : doing[t] # Idle => "failed" \in faults[doing[t].task.scope]

\* Every accepted write is eventually taken from the queue and handed to the store.
QueueDrains == \A s \in Scopes : Pending(s) # {} ~> Pending(s) = {}

\* A failure of a retried category does not last: another thread's call clears it
\* or the retry does, unless a failure of another kind takes its place.
RetryHeals ==
    health.error /\ Retryable(health.category)
        ~> ~health.error \/ ~Retryable(health.category)

--------------------------------------------------------------------------------
\* What the documents say, and the code does not do.

Quiet == queue = <<>> /\ \A x \in Executors : doing[x] = Idle

\* README, Failure Policy: persistence write failures are retried.  Once nothing is
\* under way and the writer reports healthy, the last write of every scope is stored.
FailedWritesRetried ==
    Quiet /\ Healthy => \A s \in Scopes : store[s].seq = requested[s]

\* CODEBASE_MAP, Data and State Boundaries: /session/end deletes persisted state.
\* Once a delete has reached the store, no older save writes the row again.
DeletedStaysDeleted ==
    [][\A s \in Scopes : store[s].seq # 0 /\ ~store[s].row /\ store'[s].row
          => store'[s].seq > store[s].seq]_writerVars
================================================================================

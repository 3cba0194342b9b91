------------------------ MODULE PersistenceWriterProofs ------------------------
(***************************************************************************)
(* What holds of PersistenceWriter for every number of threads, scopes,     *)
(* queue slots, failures, deaths and restarts.                              *)
(***************************************************************************)
EXTENDS PersistenceWriter, TLAPS

--------------------------------------------------------------------------------
(* Facts about tasks and jobs.                                                *)

\* A task is a record with an operation, a scope and a number.
LEMMA TaskFacts ==
    ASSUME NEW task \in Tasks
    PROVE  task.op \in Ops /\ task.scope \in Scopes /\ task.seq \in Nat /\ task # NoTask
BY DEF Tasks, Ops, NoTask

\* What an executor has in its hands, told by the stage of its job.
LEMMA JobFacts ==
    ASSUME NEW job \in Jobs
    PROVE  /\ job.stage \in {"idle", "executing", "executed"}
           /\ job.stage = "idle" <=> job = Idle
           /\ job # Idle => job.task \in Tasks
           /\ job.stage = "executed" => job.result \in AllCategories \cup {"ok"}
BY DEF Jobs, Idle

\* The jobs the actions hand out.
LEMMA NewJobs ==
    ASSUME NEW task \in Tasks
    PROVE  /\ Idle \in Jobs
           /\ Executing(task) \in Jobs
           /\ \A r \in AllCategories \cup {"ok"} : Executed(task, r) \in Jobs
BY DEF Jobs, Idle, Executing, Executed

\* A failure of any category gives a status of the right type.
LEMMA FailedHealthType ==
    ASSUME NEW task \in Tasks, NEW c \in AllCategories
    PROVE  FailedHealth(task, c) \in Healths
<1>1. StateFor(c) \in {"degraded", "unavailable", "misconfigured"}
    BY DEF StateFor
<1> QED BY <1>1, TaskFacts DEF FailedHealth, Healths

--------------------------------------------------------------------------------
(* Type correctness.                                                          *)

\* A writer that starts has its types, and so has one that starts again.
LEMMA InitType == WriterInit => TypeOK
<1> SUFFICES ASSUME WriterInit PROVE TypeOK
    OBVIOUS
<1>1. InitHealth \in Healths
    BY DEF InitHealth, Healths
<1>2. Idle \in Jobs
    BY DEF Jobs
<1> QED BY <1>1, <1>2, WriterAssumption DEF WriterInit, NewWriter, TypeOK, Rows

\* Every step of the writer keeps the types.
LEMMA TypeStep ==
    ASSUME TypeOK, [Next]_writerVars
    PROVE  TypeOK'
<1> USE DEF TypeOK
<1>1. ASSUME NEW op \in Ops, NEW s \in Scopes, Enqueue(op, s)
      PROVE  TypeOK'
    <2>1. Task(op, s, requested[s] + 1) \in Tasks
        BY DEF Task, Tasks
    <2>2. queue' \in Seq(Tasks) /\ Len(queue') = Len(queue) + 1
        BY <1>1, <2>1 DEF Enqueue, Put
    <2>3. Len(queue') <= QueueMax
        BY <1>1, <2>2, WriterAssumption DEF Enqueue, Accepts
    <2> QED BY <1>1, <2>2, <2>3 DEF Enqueue
<1>2. CASE WorkerTake
    <2>1. queue # <<>>
        BY <1>2 DEF WorkerTake
    <2>2. Head(queue) \in Tasks /\ Tail(queue) \in Seq(Tasks) /\ Len(Tail(queue)) = Len(queue) - 1
        BY <2>1
    <2>3. doing' \in [Executors -> Jobs]
        BY <1>2, <2>2, NewJobs DEF WorkerTake
    <2>4. queue' \in Seq(Tasks) /\ Len(queue') <= QueueMax
        BY <1>2, <2>2, WriterAssumption DEF WorkerTake
    <2> QED BY <1>2, <2>3, <2>4 DEF WorkerTake
<1>3. ASSUME NEW x \in Executors, StoreSucceeds(x)
      PROVE  TypeOK'
    <2>1. doing[x].task \in Tasks
        BY <1>3, JobFacts DEF StoreSucceeds, Idle
    <2>2. RowAfter(doing[x].task) \in Rows
        BY <2>1, TaskFacts DEF RowAfter, Rows
    <2>3. doing' \in [Executors -> Jobs]
        BY <1>3, <2>1, NewJobs DEF StoreSucceeds
    <2>4. store' \in [Scopes -> Rows]
        BY <1>3, <2>2 DEF StoreSucceeds
    <2> QED BY <1>3, <2>3, <2>4 DEF StoreSucceeds
<1>4. ASSUME NEW x \in Executors, NEW c \in Categories, StoreFails(x, c)
      PROVE  TypeOK'
    <2>1. doing[x].task \in Tasks
        BY <1>4, JobFacts DEF StoreFails, Idle
    <2>2. RowAfter(doing[x].task) \in Rows
        BY <2>1, TaskFacts DEF RowAfter, Rows
    <2>3. doing' \in [Executors -> Jobs]
        BY <1>4, <2>1, NewJobs, WriterAssumption DEF StoreFails
    <2>4. store' \in [Scopes -> Rows]
        BY <1>4, <2>2 DEF StoreFails
    <2>5. faults' \in [Scopes -> SUBSET {"failed", "lost"}]
        BY <1>4 DEF StoreFails
    <2> QED BY <1>4, <2>3, <2>4, <2>5 DEF StoreFails
<1>5. ASSUME NEW x \in Executors, RecordSuccess(x)
      PROVE  TypeOK'
    <2>1. health' \in Healths
        BY <1>5 DEF RecordSuccess, ClearedHealth, Healths
    <2>2. doing' \in [Executors -> Jobs]
        BY <1>5, NewJobs DEF RecordSuccess, Jobs
    <2> QED BY <1>5, <2>1, <2>2 DEF RecordSuccess
<1>6. ASSUME NEW x \in Executors, RecordFailure(x)
      PROVE  TypeOK'
    <2>1. doing[x].task \in Tasks /\ doing[x].result \in AllCategories
        BY <1>6, JobFacts DEF RecordFailure, Idle
    <2>2. health' \in Healths
        BY <1>6, <2>1, FailedHealthType DEF RecordFailure
    <2>3. doing' \in [Executors -> Jobs]
        BY <1>6 DEF RecordFailure, Jobs
    <2> QED BY <1>6, <2>2, <2>3 DEF RecordFailure
<1>7. CASE CooldownElapses
    <2>1. health' \in Healths
        BY <1>7 DEF CooldownElapses, Healths
    <2> QED BY <1>7, <2>1 DEF CooldownElapses
<1>8. CASE WorkerDies
    <2>1. doing' \in [Executors -> Jobs]
        BY <1>8 DEF WorkerDies, Jobs
    <2>2. workerAlive' = FALSE /\ deaths' \in Nat
        BY <1>8 DEF WorkerDies
    <2>3. UNCHANGED <<queue, health, store, failures, restarts, requested, faults>>
        BY <1>8 DEF WorkerDies
    <2> QED BY <2>1, <2>2, <2>3
<1>9. CASE EnsureWorkerRunning
    BY <1>9 DEF EnsureWorkerRunning
<1>10. ASSUME NEW t \in Threads, StartRecovery(t)
       PROVE  TypeOK'
    <2>1. health.failed \in Tasks
        BY <1>10 DEF StartRecovery, MayRecover, Healths
    <2>2. health' \in Healths
        BY <1>10 DEF StartRecovery, Healths
    <2>3. doing' \in [Executors -> Jobs]
        BY <1>10, <2>1, NewJobs DEF StartRecovery, RetryTask, Executors
    <2> QED BY <1>10, <2>2, <2>3 DEF StartRecovery
<1>11. CASE Restart
    <2>1. InitHealth \in Healths /\ Idle \in Jobs
        BY DEF InitHealth, Healths, Jobs
    <2>2. faults' \in [Scopes -> SUBSET {"failed", "lost"}]
        BY <1>11 DEF Restart
    <2>3. queue' \in Seq(Tasks) /\ Len(queue') <= QueueMax
        BY <1>11, WriterAssumption DEF Restart
    <2> QED BY <1>11, <2>1, <2>2, <2>3 DEF Restart
<1>12. CASE UNCHANGED writerVars
    BY <1>12 DEF writerVars
<1> QED
    BY <1>1, <1>2, <1>3, <1>4, <1>5, <1>6, <1>7, <1>8, <1>9, <1>10, <1>11, <1>12
    DEF Next, Perform

--------------------------------------------------------------------------------
(* The fields of the state lock.                                              *)

\* The actions that write the health fields are these five.
HealthStep ==
    \/ UNCHANGED health
    \/ health' = ClearedHealth
    \/ \E task \in Tasks, c \in AllCategories : health' = FailedHealth(task, c)
    \/ /\ health.cooldown = "running"
       /\ health' = [health EXCEPT !.cooldown = "elapsed"]
    \/ /\ MayRecover
       /\ health' = [health EXCEPT !.state = "recovering"]
    \/ health' = InitHealth

\* Every step is one of them.
LEMMA EveryHealthStep ==
    ASSUME TypeOK, [Next]_writerVars
    PROVE  HealthStep
<1>1. ASSUME NEW x \in Executors, RecordFailure(x)
      PROVE  HealthStep
    <2>1. doing[x] \in Jobs
        BY DEF TypeOK
    <2>2. doing[x].task \in Tasks /\ doing[x].result \in AllCategories
        BY <1>1, <2>1, JobFacts DEF RecordFailure, Idle
    <2> QED BY <1>1, <2>2 DEF RecordFailure, HealthStep
<1>2. ASSUME NEW x \in Executors, RecordSuccess(x)
      PROVE  HealthStep
    BY <1>2 DEF RecordSuccess, HealthStep
<1>3. CASE CooldownElapses
    BY <1>3 DEF CooldownElapses, HealthStep
<1>4. ASSUME NEW t \in Threads, StartRecovery(t)
      PROVE  HealthStep
    BY <1>4 DEF StartRecovery, HealthStep
<1>5. CASE Restart
    BY <1>5 DEF Restart, HealthStep
<1>6. CASE \/ \E op \in Ops, s \in Scopes : Enqueue(op, s)
           \/ WorkerTake \/ WorkerDies \/ EnsureWorkerRunning
           \/ \E x \in Executors : StoreSucceeds(x)
           \/ \E x \in Executors, c \in Categories : StoreFails(x, c)
           \/ UNCHANGED writerVars
    <2>1. UNCHANGED health
        BY <1>6 DEF Enqueue, WorkerTake, WorkerDies, EnsureWorkerRunning, StoreSucceeds,
                    StoreFails, writerVars
    <2> QED BY <2>1 DEF HealthStep
<1> QED BY <1>1, <1>2, <1>3, <1>4, <1>5, <1>6 DEF Next, Perform

\* Each of them keeps the fields consistent.
LEMMA HealthKept ==
    ASSUME TypeOK, HealthConsistent, HealthStep
    PROVE  HealthConsistent'
<1>1. health \in Healths
    BY DEF TypeOK
<1>2. CASE UNCHANGED health
    BY <1>2 DEF HealthConsistent
<1>3. CASE health' = ClearedHealth
    BY <1>1, <1>3 DEF ClearedHealth, HealthConsistent, Healths
<1>4. ASSUME NEW task \in Tasks, NEW c \in AllCategories, health' = FailedHealth(task, c)
      PROVE  HealthConsistent'
    <2>1. StateFor(c) \in {"degraded", "unavailable", "misconfigured"}
        BY DEF StateFor
    <2>2. /\ health'.error = TRUE /\ health'.failed = task /\ health'.op = task.op
          /\ health'.category = c /\ health'.state = StateFor(c)
          /\ health'.cooldown = IF Retryable(c) THEN "running" ELSE "none"
        BY <1>4 DEF FailedHealth
    <2>3. task # NoTask
        BY TaskFacts
    <2> QED BY <2>1, <2>2, <2>3 DEF HealthConsistent
<1>5. CASE /\ health.cooldown = "running"
           /\ health' = [health EXCEPT !.cooldown = "elapsed"]
    BY <1>1, <1>5 DEF HealthConsistent, Healths
<1>6. CASE /\ MayRecover
           /\ health' = [health EXCEPT !.state = "recovering"]
    BY <1>1, <1>6 DEF HealthConsistent, Healths, MayRecover
<1>7. CASE health' = InitHealth
    BY <1>7 DEF InitHealth, HealthConsistent, NoTask
<1> QED BY <1>2, <1>3, <1>4, <1>5, <1>6, <1>7 DEF HealthStep

\* A request thread that gives up its retry leaves another state behind.
LEMMA RecoveryKept ==
    ASSUME TypeOK, RecoveryHeld, [Next]_writerVars
    PROVE  RecoveryHeld'
<1> SUFFICES ASSUME health'.state = "recovering"
             PROVE  \E t \in Threads : doing'[t] # Idle
    BY DEF RecoveryHeld
<1>1. health \in Healths /\ doing \in [Executors -> Jobs]
    BY DEF TypeOK
<1>2. ASSUME NEW x \in Executors, RecordSuccess(x)
      PROVE  FALSE
    BY <1>1, <1>2 DEF RecordSuccess, ClearedHealth, Healths
<1>3. ASSUME NEW x \in Executors, RecordFailure(x)
      PROVE  FALSE
    <2>1. health'.state = StateFor(doing[x].result)
        BY <1>3 DEF RecordFailure, FailedHealth
    <2> QED BY <2>1 DEF StateFor
<1>4. CASE Restart
    BY <1>4 DEF Restart, InitHealth
<1>5. ASSUME NEW t \in Threads, StartRecovery(t)
      PROVE  doing'[t] # Idle
    BY <1>1, <1>5 DEF StartRecovery, Executing, Idle, Executors
<1>6. ASSUME health.state = "recovering", \A t \in Threads : doing[t] # Idle => doing'[t] # Idle
      PROVE  \E t \in Threads : doing'[t] # Idle
    BY <1>6 DEF RecoveryHeld
<1>7. CASE CooldownElapses \/ EnsureWorkerRunning \/ UNCHANGED writerVars
           \/ \E op \in Ops, s \in Scopes : Enqueue(op, s)
    BY <1>1, <1>6, <1>7 DEF CooldownElapses, EnsureWorkerRunning, Enqueue, writerVars, Healths
<1>8. CASE WorkerTake \/ WorkerDies
    BY <1>1, <1>6, <1>8, WriterAssumption DEF WorkerTake, WorkerDies, Executors
<1>9. ASSUME NEW x \in Executors, StoreSucceeds(x) \/ \E c \in Categories : StoreFails(x, c)
      PROVE  \E t \in Threads : doing'[t] # Idle
    <2>1. UNCHANGED health
        BY <1>9 DEF StoreSucceeds, StoreFails
    <2>2. PICK r \in AllCategories \cup {"ok"} :
              doing' = [doing EXCEPT ![x] = Executed(doing[x].task, r)]
        BY <1>9, WriterAssumption DEF StoreSucceeds, StoreFails
    <2>3. \A t \in Threads : doing[t] # Idle => doing'[t] # Idle
        BY <1>1, <2>2 DEF Executed, Idle, Executors
    <2> QED BY <1>6, <2>1, <2>3
<1> QED BY <1>2, <1>3, <1>4, <1>5, <1>7, <1>8, <1>9 DEF Next, Perform

--------------------------------------------------------------------------------
(* What a retry executes.                                                     *)

\* The task kept for retry has failed, and so has every task whose failure is
\* about to be recorded.
FailedKnown ==
    /\ health.failed # NoTask => "failed" \in faults[health.failed.scope]
    /\ \A x \in Executors : doing[x].stage = "executed" /\ doing[x].result # "ok"
          => "failed" \in faults[doing[x].task.scope]
    /\ RecoverOnlyFailed

\* A failure is remembered for good, and a retry takes up no other task.
LEMMA FailedKept ==
    ASSUME TypeOK, FailedKnown, [Next]_writerVars
    PROVE  FailedKnown'
<1>1. health \in Healths /\ doing \in [Executors -> Jobs] /\ faults \in [Scopes -> SUBSET {"failed", "lost"}]
    BY DEF TypeOK
<1>2. \A x \in Executors : doing[x] # Idle => doing[x].task \in Tasks /\ doing[x].task.scope \in Scopes
    BY <1>1, JobFacts, TaskFacts
<1>3. health.failed # NoTask => health.failed.scope \in Scopes
    BY <1>1, TaskFacts DEF Healths
<1>4. Idle.stage # "executed" /\ Threads \subseteq Executors
    BY DEF Idle, Executors
<1>5. ASSUME UNCHANGED <<doing, faults>>, health'.failed = health.failed
      PROVE  FailedKnown'
    BY <1>5 DEF FailedKnown, RecoverOnlyFailed
<1>6. CASE \/ CooldownElapses \/ EnsureWorkerRunning \/ UNCHANGED writerVars
           \/ \E op \in Ops, s \in Scopes : Enqueue(op, s)
    BY <1>1, <1>5, <1>6 DEF CooldownElapses, EnsureWorkerRunning, Enqueue, writerVars, Healths
<1>7. CASE WorkerTake \/ WorkerDies
    <2>1. UNCHANGED <<health, faults>>
        BY <1>7 DEF WorkerTake, WorkerDies
    <2>2. \A t \in Threads : doing'[t] = doing[t]
        BY <1>1, <1>7, WriterAssumption DEF WorkerTake, WorkerDies, Executors
    <2>3. doing'[Worker].stage # "executed"
        BY <1>1, <1>7 DEF WorkerTake, WorkerDies, Executing, Idle, Executors
    <2> QED BY <2>1, <2>2, <2>3 DEF FailedKnown, RecoverOnlyFailed, Executors
<1>8. ASSUME NEW x \in Executors, StoreSucceeds(x)
      PROVE  FailedKnown'
    <2>1. UNCHANGED <<health, faults>> /\ doing[x] # Idle
        BY <1>8 DEF StoreSucceeds, Idle
    <2>2. doing'[x] = Executed(doing[x].task, "ok") /\ \A y \in Executors : y # x => doing'[y] = doing[y]
        BY <1>1, <1>8 DEF StoreSucceeds
    <2>3. doing'[x].result = "ok" /\ doing'[x].task = doing[x].task
        BY <2>2 DEF Executed
    <2> QED BY <1>4, <2>1, <2>2, <2>3 DEF FailedKnown, RecoverOnlyFailed
<1>9. ASSUME NEW x \in Executors, NEW c \in Categories, StoreFails(x, c)
      PROVE  FailedKnown'
    <2>1. UNCHANGED health /\ doing[x] # Idle
        BY <1>9 DEF StoreFails, Idle
    <2>2. doing'[x] = Executed(doing[x].task, c) /\ \A y \in Executors : y # x => doing'[y] = doing[y]
        BY <1>1, <1>9 DEF StoreFails
    <2>3. doing'[x].task = doing[x].task
        BY <2>2 DEF Executed
    <2>4. "failed" \in faults'[doing[x].task.scope]
        BY <1>1, <1>2, <1>9, <2>1 DEF StoreFails
    <2>5. \A s \in Scopes : "failed" \in faults[s] => "failed" \in faults'[s]
        BY <1>1, <1>9 DEF StoreFails
    <2> QED BY <1>2, <1>3, <1>4, <2>1, <2>2, <2>3, <2>4, <2>5 DEF FailedKnown, RecoverOnlyFailed, Idle
<1>10. ASSUME NEW x \in Executors, RecordSuccess(x)
       PROVE  FailedKnown'
    <2>1. health'.failed = NoTask /\ UNCHANGED faults
        BY <1>1, <1>10 DEF RecordSuccess, ClearedHealth, Healths
    <2>2. doing'[x] = Idle /\ \A y \in Executors : y # x => doing'[y] = doing[y]
        BY <1>1, <1>10 DEF RecordSuccess
    <2> QED BY <1>4, <2>1, <2>2 DEF FailedKnown, RecoverOnlyFailed
<1>11. ASSUME NEW x \in Executors, RecordFailure(x)
       PROVE  FailedKnown'
    <2>1. health'.failed = doing[x].task /\ UNCHANGED faults
        BY <1>11 DEF RecordFailure, FailedHealth
    <2>2. doing'[x] = Idle /\ \A y \in Executors : y # x => doing'[y] = doing[y]
        BY <1>1, <1>11 DEF RecordFailure
    <2>3. "failed" \in faults[doing[x].task.scope]
        BY <1>11 DEF RecordFailure, FailedKnown
    <2> QED BY <1>4, <2>1, <2>2, <2>3 DEF FailedKnown, RecoverOnlyFailed
<1>12. ASSUME NEW t \in Threads, StartRecovery(t)
       PROVE  FailedKnown'
    <2>1. health'.failed = health.failed /\ health.failed # NoTask /\ UNCHANGED faults
        BY <1>1, <1>12 DEF StartRecovery, MayRecover, Healths
    <2>2. doing'[t] = Executing(health.failed) /\ \A y \in Executors : y # t => doing'[y] = doing[y]
        BY <1>1, <1>4, <1>12 DEF StartRecovery, RetryTask
    <2>3. doing'[t].stage = "executing" /\ doing'[t].task = health.failed
        BY <2>2 DEF Executing
    <2> QED BY <1>4, <2>1, <2>2, <2>3 DEF FailedKnown, RecoverOnlyFailed
<1>13. CASE Restart
    <2>1. health'.failed = NoTask /\ \A x \in Executors : doing'[x] = Idle
        BY <1>13 DEF Restart, InitHealth
    <2> QED BY <1>4, <2>1 DEF FailedKnown, RecoverOnlyFailed
<1> QED BY <1>6, <1>7, <1>8, <1>9, <1>10, <1>11, <1>12, <1>13 DEF Next, Perform

--------------------------------------------------------------------------------
(* The order of the writes.                                                   *)

\* The writes of s under way follow what the store holds, in order of acceptance.
Ordered(s) ==
    /\ store[s].seq <= requested[s]
    /\ \A i \in DOMAIN queue : queue[i].scope = s =>
          store[s].seq < queue[i].seq /\ queue[i].seq <= requested[s]
    /\ \A i, j \in DOMAIN queue :
          i < j /\ queue[i].scope = s /\ queue[j].scope = s => queue[i].seq < queue[j].seq
    /\ AtWorker(s) =>
          /\ store[s].seq < doing[Worker].task.seq /\ doing[Worker].task.seq <= requested[s]
          /\ \A i \in DOMAIN queue : queue[i].scope = s => doing[Worker].task.seq < queue[i].seq

\* Write n of s is queued or in the hands of the worker.
UnderWay(s, n) ==
    \/ \E i \in DOMAIN queue : queue[i].scope = s /\ queue[i].seq = n
    \/ AtWorker(s) /\ doing[Worker].task.seq = n

\* Every write accepted since the one the store holds is under way.
Gapless(s) == \A n \in Nat : store[s].seq < n /\ n <= requested[s] => UnderWay(s, n)

OrderInv ==
    /\ \A s \in Scopes : "failed" \notin faults[s] => Ordered(s)
    /\ \A s \in Scopes : faults[s] = {} => Gapless(s)

\* A step that leaves the queue, the worker and the rows and requests of s alone
\* leaves their order alone.
LEMMA OrderUntouched ==
    ASSUME NEW s \in Scopes, queue' = queue, AtWorker(s)' = AtWorker(s),
           AtWorker(s) => doing'[Worker].task = doing[Worker].task,
           store'[s] = store[s], requested'[s] = requested[s]
    PROVE  /\ Ordered(s) => Ordered(s)'
           /\ Gapless(s) => Gapless(s)'
BY DEF Ordered, Gapless, UnderWay

\* An accepted write goes behind all others of its scope.
LEMMA OrderEnqueue ==
    ASSUME TypeOK, NEW op \in Ops, NEW s \in Scopes, Enqueue(op, s), NEW r \in Scopes
    PROVE  /\ Ordered(r) => Ordered(r)'
           /\ Ordered(r) /\ Gapless(r) => Gapless(r)'
<1> DEFINE task == Task(op, s, requested[s] + 1)
           l == Len(queue)
<1>1. queue \in Seq(Tasks) /\ requested \in [Scopes -> Nat] /\ store \in [Scopes -> Rows]
    BY DEF TypeOK
<1>2. task \in Tasks /\ task.scope = s /\ task.seq = requested[s] + 1
    BY <1>1 DEF Task, Tasks
<1>3. /\ DOMAIN queue = 1 .. l /\ l \in Nat
      /\ DOMAIN queue' = 1 .. l + 1
      /\ \A i \in 1 .. l : queue'[i] = queue[i] /\ queue[i] \in Tasks
      /\ queue'[l + 1] = task
    BY <1>1, <1>2 DEF Enqueue, Put
<1>4. /\ UNCHANGED <<store, doing>>
      /\ requested' = [requested EXCEPT ![s] = requested[s] + 1]
    BY DEF Enqueue
<1>5. AtWorker(r)' = AtWorker(r)
    BY <1>4 DEF AtWorker
<1>6. /\ requested[r] \in Nat /\ store[r].seq \in Nat /\ requested'[r] \in Nat
      /\ requested'[r] = IF r = s THEN requested[r] + 1 ELSE requested[r]
    BY <1>1, <1>4 DEF Rows
<1>7. \A i \in 1 .. l : queue[i].seq \in Nat
    BY <1>3, TaskFacts
<1> HIDE DEF task, l
<1>8. ASSUME Ordered(r) PROVE Ordered(r)'
    <2>1. store'[r].seq <= requested'[r]
        BY <1>4, <1>6, <1>8 DEF Ordered
    <2>2. \A i \in DOMAIN queue' : queue'[i].scope = r =>
              store'[r].seq < queue'[i].seq /\ queue'[i].seq <= requested'[r]
        <3> SUFFICES ASSUME NEW i \in 1 .. l + 1, queue'[i].scope = r
                     PROVE  store'[r].seq < queue'[i].seq /\ queue'[i].seq <= requested'[r]
            BY <1>3
        <3>1. CASE i \in 1 .. l
            <4>1. queue'[i] = queue[i] /\ queue[i].scope = r /\ i \in DOMAIN queue
                BY <1>3, <3>1
            <4>2. store[r].seq < queue[i].seq /\ queue[i].seq <= requested[r]
                BY <1>8, <4>1 DEF Ordered
            <4> QED BY <1>4, <1>6, <1>7, <3>1, <4>1, <4>2
        <3>2. CASE i = l + 1
            <4>1. queue'[i] = task /\ r = s
                BY <1>2, <1>3, <3>2
            <4>2. queue'[i].seq = requested[r] + 1
                BY <1>2, <4>1
            <4>3. store'[r].seq = store[r].seq /\ store[r].seq <= requested[r]
                BY <1>4, <1>8 DEF Ordered
            <4> QED BY <1>6, <4>1, <4>2, <4>3
        <3> QED BY <1>3, <3>1, <3>2
    <2>3. \A i, j \in DOMAIN queue' : i < j /\ queue'[i].scope = r /\ queue'[j].scope = r
              => queue'[i].seq < queue'[j].seq
        <3> SUFFICES ASSUME NEW i \in 1 .. l + 1, NEW j \in 1 .. l + 1, i < j,
                            queue'[i].scope = r, queue'[j].scope = r
                     PROVE  queue'[i].seq < queue'[j].seq
            BY <1>3
        <3>1. i \in 1 .. l
            BY <1>3
        <3>2. CASE j \in 1 .. l
            BY <1>3, <1>8, <3>1, <3>2 DEF Ordered
        <3>3. CASE j = l + 1
            BY <1>2, <1>3, <1>6, <1>7, <1>8, <3>1, <3>3 DEF Ordered
        <3> QED BY <1>3, <3>2, <3>3
    <2>4. ASSUME AtWorker(r)'
          PROVE  /\ store'[r].seq < doing'[Worker].task.seq
                 /\ doing'[Worker].task.seq <= requested'[r]
                 /\ \A i \in DOMAIN queue' : queue'[i].scope = r => doing'[Worker].task.seq < queue'[i].seq
        <3>1. doing[Worker].task.seq \in Nat
            BY <1>4, <1>5, <2>4, JobFacts, TaskFacts DEF AtWorker, TypeOK, Executors, Idle
        <3>2. store[r].seq < doing[Worker].task.seq /\ doing[Worker].task.seq <= requested[r]
            BY <1>5, <1>8, <2>4 DEF Ordered
        <3>3. \A i \in 1 .. l : queue[i].scope = r => doing[Worker].task.seq < queue[i].seq
            BY <1>3, <1>5, <1>8, <2>4 DEF Ordered
        <3>4. ASSUME NEW i \in 1 .. l + 1, queue'[i].scope = r
              PROVE  doing[Worker].task.seq < queue'[i].seq
            <4>1. CASE i \in 1 .. l
                BY <1>3, <3>3, <3>4, <4>1
            <4>2. CASE i = l + 1
                BY <1>2, <1>3, <1>6, <3>1, <3>2, <3>4, <4>2
            <4> QED BY <1>3, <4>1, <4>2
        <3> QED BY <1>3, <1>4, <1>6, <3>1, <3>2, <3>4
    <2> QED BY <2>1, <2>2, <2>3, <2>4 DEF Ordered
<1>9. ASSUME Gapless(r) PROVE Gapless(r)'
    <2> SUFFICES ASSUME NEW n \in Nat, store'[r].seq < n, n <= requested'[r]
                 PROVE  UnderWay(r, n)'
        BY DEF Gapless
    <2>1. CASE n <= requested[r]
        <3>1. UnderWay(r, n)
            BY <1>4, <1>9, <2>1 DEF Gapless
        <3>2. \A i \in DOMAIN queue : i \in DOMAIN queue' /\ queue'[i] = queue[i]
            BY <1>3
        <3> QED BY <1>4, <1>5, <3>1, <3>2 DEF UnderWay
    <2>2. CASE ~(n <= requested[r])
        <3>1. r = s /\ n = requested[s] + 1
            BY <1>6, <2>2
        <3>2. l + 1 \in DOMAIN queue'
            BY <1>3
        <3> QED BY <1>2, <1>3, <3>1, <3>2 DEF UnderWay
    <2> QED BY <2>1, <2>2
<1> QED BY <1>8, <1>9

\* The worker takes the oldest write of the queue.
LEMMA OrderTake ==
    ASSUME TypeOK, WorkerTake, NEW r \in Scopes
    PROVE  /\ Ordered(r) => Ordered(r)'
           /\ Gapless(r) => Gapless(r)'
<1> DEFINE l == Len(queue)
<1>1. queue \in Seq(Tasks) /\ queue # <<>>
    BY DEF TypeOK, WorkerTake
<1>2. /\ l \in Nat /\ l >= 1
      /\ DOMAIN queue = 1 .. l /\ DOMAIN queue' = 1 .. l - 1
      /\ \A i \in 1 .. l - 1 : queue'[i] = queue[i + 1]
      /\ queue[1] \in Tasks
    BY <1>1 DEF WorkerTake
<1>3. doing'[Worker].stage = "executing" /\ doing'[Worker].task = queue[1]
    BY <1>1 DEF TypeOK, WorkerTake, Executing, Executors
<1>4. UNCHANGED <<store, requested>> /\ ~AtWorker(r)
    BY DEF WorkerTake, AtWorker, Idle
<1> HIDE DEF l
<1>5. AtWorker(r)' <=> queue[1].scope = r
    BY <1>3 DEF AtWorker
<1>6. ASSUME Ordered(r) PROVE Ordered(r)'
    <2>1. \A i \in 1 .. l - 1 : i + 1 \in DOMAIN queue /\ 1 < i + 1
        BY <1>2
    <2>2. \A i \in DOMAIN queue' : queue'[i].scope = r =>
              store'[r].seq < queue'[i].seq /\ queue'[i].seq <= requested'[r]
        BY <1>2, <1>4, <1>6, <2>1 DEF Ordered
    <2>3. \A i, j \in DOMAIN queue' : i < j /\ queue'[i].scope = r /\ queue'[j].scope = r
              => queue'[i].seq < queue'[j].seq
        <3> SUFFICES ASSUME NEW i \in 1 .. l - 1, NEW j \in 1 .. l - 1, i < j,
                            queue'[i].scope = r, queue'[j].scope = r
                     PROVE  queue'[i].seq < queue'[j].seq
            BY <1>2
        <3>1. i + 1 \in DOMAIN queue /\ j + 1 \in DOMAIN queue /\ i + 1 < j + 1
            BY <1>2
        <3> QED BY <1>2, <1>6, <3>1 DEF Ordered
    <2>4. ASSUME AtWorker(r)'
          PROVE  /\ store'[r].seq < doing'[Worker].task.seq
                 /\ doing'[Worker].task.seq <= requested'[r]
                 /\ \A i \in DOMAIN queue' : queue'[i].scope = r => doing'[Worker].task.seq < queue'[i].seq
        <3>1. 1 \in DOMAIN queue /\ queue[1].scope = r
            BY <1>2, <1>5, <2>4
        <3> QED BY <1>2, <1>3, <1>4, <1>6, <2>1, <3>1 DEF Ordered
    <2> QED BY <1>4, <1>6, <2>2, <2>3, <2>4 DEF Ordered
<1>7. ASSUME Gapless(r) PROVE Gapless(r)'
    <2> SUFFICES ASSUME NEW n \in Nat, store'[r].seq < n, n <= requested'[r]
                 PROVE  UnderWay(r, n)'
        BY DEF Gapless
    <2>1. UnderWay(r, n)
        BY <1>4, <1>7 DEF Gapless
    <2>2. PICK i \in DOMAIN queue : queue[i].scope = r /\ queue[i].seq = n
        BY <1>4, <2>1 DEF UnderWay
    <2>3. CASE i = 1
        BY <1>3, <1>5, <2>2, <2>3 DEF UnderWay
    <2>4. CASE i # 1
        <3>1. i - 1 \in 1 .. l - 1 /\ (i - 1) + 1 = i
            BY <1>2, <2>4
        <3>2. queue'[i - 1] = queue[i]
            BY <1>2, <3>1
        <3> QED BY <1>2, <2>2, <3>1, <3>2 DEF UnderWay
    <2> QED BY <2>3, <2>4
<1> QED BY <1>6, <1>7

\* The worker's write is the oldest under way: the row moves on to it.
LEMMA OrderStore ==
    ASSUME TypeOK, StoreSucceeds(Worker), NEW r \in Scopes
    PROVE  /\ Ordered(r) => Ordered(r)'
           /\ Ordered(r) /\ Gapless(r) => Gapless(r)'
<1> DEFINE task == doing[Worker].task
<1>1. task \in Tasks /\ task.scope \in Scopes /\ task.seq \in Nat
    BY JobFacts, TaskFacts DEF StoreSucceeds, TypeOK, Executors, Idle
<1>2. queue' = queue /\ requested' = requested
    BY DEF StoreSucceeds
<1>3. store' = [store EXCEPT ![task.scope] = RowAfter(task)]
    BY DEF StoreSucceeds
<1>4. doing'[Worker].stage = "executed"
    BY DEF StoreSucceeds, TypeOK, Executors, Executed
<1>5. ~AtWorker(r)' /\ (AtWorker(r) <=> r = task.scope)
    BY <1>4 DEF AtWorker, StoreSucceeds
<1>6. CASE r # task.scope
    <2>1. store'[r] = store[r]
        BY <1>3, <1>6 DEF TypeOK
    <2>2. ~AtWorker(r) /\ ~AtWorker(r)'
        BY <1>5, <1>6
    <2> QED BY <1>2, <2>1, <2>2 DEF Ordered, Gapless, UnderWay
<1>7. CASE r = task.scope
    <2>1. store'[r].seq = task.seq
        BY <1>1, <1>3, <1>7 DEF TypeOK, RowAfter
    <2>2. AtWorker(r)
        BY <1>5, <1>7
    <2>3. store[r].seq \in Nat /\ requested[r] \in Nat
        BY DEF TypeOK, Rows
    <2>4. \A i \in DOMAIN queue : queue[i].seq \in Nat
        BY TaskFacts DEF TypeOK
    <2>5. ASSUME Ordered(r) PROVE Ordered(r)'
        BY <1>2, <1>5, <2>1, <2>2, <2>5 DEF Ordered
    <2>6. ASSUME Ordered(r), Gapless(r) PROVE Gapless(r)'
        <3> SUFFICES ASSUME NEW n \in Nat, store'[r].seq < n, n <= requested'[r]
                     PROVE  UnderWay(r, n)'
            BY DEF Gapless
        <3>1. store[r].seq < task.seq
            BY <2>2, <2>6 DEF Ordered
        <3>2. store[r].seq < n /\ n <= requested[r] /\ n # task.seq
            BY <1>1, <1>2, <2>1, <2>3, <3>1
        <3>3. UnderWay(r, n)
            BY <2>6, <3>2 DEF Gapless
        <3> QED BY <1>2, <3>2, <3>3 DEF UnderWay
    <2> QED BY <2>5, <2>6
<1> QED BY <1>6, <1>7

\* A step of another executor, or of no write at all, leaves the order of a scope
\* alone unless it makes the scope a faulty one.
LEMMA OrderElsewhere ==
    ASSUME TypeOK, FailedKnown, NEW r \in Scopes, "failed" \notin faults'[r],
           \/ \E x \in Executors : RecordSuccess(x) \/ RecordFailure(x)
           \/ \E t \in Threads : StoreSucceeds(t) \/ StartRecovery(t)
           \/ \E x \in Executors, c \in Categories : StoreFails(x, c)
           \/ CooldownElapses \/ WorkerDies \/ EnsureWorkerRunning
           \/ UNCHANGED writerVars
    PROVE  /\ faults'[r] = faults[r]
           /\ Ordered(r) => Ordered(r)'
           /\ Gapless(r) => Gapless(r)'
<1>1. doing \in [Executors -> Jobs] /\ store \in [Scopes -> Rows] /\ Worker \in Executors
    BY DEF TypeOK, Executors
<1>2. \A x \in Executors : doing[x] # Idle => doing[x].task.scope \in Scopes
    BY <1>1, JobFacts, TaskFacts
<1>3. \A t \in Threads : t \in Executors /\ t # Worker
    BY WriterAssumption DEF Executors
<1>4. ASSUME UNCHANGED <<queue, requested, faults>>, store'[r] = store[r],
             doing'[Worker] = doing[Worker] \/ (~AtWorker(r) /\ ~AtWorker(r)')
      PROVE  /\ faults'[r] = faults[r]
             /\ Ordered(r) => Ordered(r)'
             /\ Gapless(r) => Gapless(r)'
    <2>1. AtWorker(r)' = AtWorker(r) /\ (AtWorker(r) => doing'[Worker].task = doing[Worker].task)
        BY <1>4 DEF AtWorker
    <2> QED BY <1>4, <2>1, OrderUntouched
<1>5. ASSUME NEW x \in Executors, RecordSuccess(x) \/ RecordFailure(x)
      PROVE  doing'[Worker] = doing[Worker] \/ (~AtWorker(r) /\ ~AtWorker(r)')
    BY <1>1, <1>5 DEF RecordSuccess, RecordFailure, AtWorker, Idle
<1>6. CASE \E x \in Executors : RecordSuccess(x) \/ RecordFailure(x)
    <2>1. UNCHANGED <<queue, requested, faults, store>>
        BY <1>6 DEF RecordSuccess, RecordFailure
    <2> QED BY <1>4, <1>5, <1>6, <2>1
<1>7. ASSUME NEW t \in Threads, StoreSucceeds(t)
      PROVE  store'[r] = store[r] /\ doing'[Worker] = doing[Worker] /\ UNCHANGED <<queue, requested, faults>>
    <2>1. UNCHANGED <<queue, requested, faults>> /\ doing[t] # Idle
        BY <1>7 DEF StoreSucceeds, Idle
    <2>2. doing[t].task.scope # r
        BY <2>1 DEF FailedKnown, RecoverOnlyFailed
    <2> QED BY <1>1, <1>3, <1>7, <2>1, <2>2 DEF StoreSucceeds
<1>8. ASSUME NEW t \in Threads, StartRecovery(t)
      PROVE  store'[r] = store[r] /\ doing'[Worker] = doing[Worker] /\ UNCHANGED <<queue, requested, faults>>
    BY <1>1, <1>3, <1>8 DEF StartRecovery
<1>9. ASSUME NEW x \in Executors, NEW c \in Categories, StoreFails(x, c)
      PROVE  /\ faults'[r] = faults[r]
             /\ Ordered(r) => Ordered(r)'
             /\ Gapless(r) => Gapless(r)'
    <2> DEFINE s == doing[x].task.scope
    <2>1. s \in Scopes /\ doing[x].stage = "executing"
        BY <1>2, <1>9 DEF StoreFails, Idle
    <2>2. faults' = [faults EXCEPT ![s] = faults[s] \cup {"failed"}]
        BY <1>9 DEF StoreFails
    <2>3. r # s /\ faults'[r] = faults[r]
        BY <2>1, <2>2 DEF TypeOK
    <2>4. store'[r] = store[r]
        BY <1>1, <1>9, <2>3 DEF StoreFails
    <2>5. UNCHANGED <<queue, requested>> /\ doing' = [doing EXCEPT ![x] = Executed(doing[x].task, c)]
        BY <1>9 DEF StoreFails
    <2>6. AtWorker(r)' = AtWorker(r) /\ (AtWorker(r) => doing'[Worker].task = doing[Worker].task)
        <3>1. CASE x = Worker
            <4>1. ~AtWorker(r)
                BY <2>3, <3>1 DEF AtWorker
            <4>2. doing'[Worker].stage = "executed"
                BY <1>1, <2>5, <3>1 DEF Executed
            <4> QED BY <4>1, <4>2 DEF AtWorker
        <3>2. CASE x # Worker
            <4>1. doing'[Worker] = doing[Worker]
                BY <1>1, <2>5, <3>2
            <4> QED BY <4>1 DEF AtWorker
        <3> QED BY <3>1, <3>2
    <2> QED BY <2>3, <2>4, <2>5, <2>6, OrderUntouched
<1>10. CASE WorkerDies
    <2>1. UNCHANGED <<queue, requested, faults, store>>
        BY <1>10 DEF WorkerDies
    <2>2. ~AtWorker(r) /\ ~AtWorker(r)'
        BY <1>1, <1>10 DEF WorkerDies, AtWorker, Idle
    <2> QED BY <1>4, <2>1, <2>2
<1>11. CASE CooldownElapses \/ EnsureWorkerRunning \/ UNCHANGED writerVars
    <2>1. UNCHANGED <<queue, requested, faults, store, doing>>
        BY <1>11 DEF CooldownElapses, EnsureWorkerRunning, writerVars
    <2> QED BY <1>4, <2>1
<1> QED BY <1>4, <1>6, <1>7, <1>8, <1>9, <1>10, <1>11

\* A restart drops what is under way, and says of which scopes.
LEMMA OrderRestart ==
    ASSUME TypeOK, Restart, NEW r \in Scopes
    PROVE  /\ "failed" \in faults[r] => "failed" \in faults'[r]
           /\ Ordered(r) => Ordered(r)'
           /\ faults'[r] = {} => faults[r] = {} /\ (Gapless(r) => Gapless(r)')
<1>1. queue' = <<>> /\ UNCHANGED <<store, requested>>
    BY DEF Restart
<1>2. ~AtWorker(r)'
    BY DEF Restart, AtWorker, Idle, Executors
<1>3. faults'[r] = faults[r] \cup (IF Pending(r) = {} THEN {} ELSE {"lost"})
    BY DEF Restart
<1>4. Ordered(r) => Ordered(r)'
    BY <1>1, <1>2 DEF Ordered
<1>5. ASSUME faults'[r] = {} PROVE \A n : ~UnderWay(r, n)
    <2>1. Pending(r) = {}
        BY <1>3, <1>5
    <2> QED BY <2>1 DEF Pending, UnderWay
<1>6. ASSUME faults'[r] = {}, Gapless(r) PROVE Gapless(r)'
    <2>1. \A n \in Nat : ~(store[r].seq < n /\ n <= requested[r])
        BY <1>5, <1>6 DEF Gapless
    <2> QED BY <1>1, <2>1 DEF Gapless
<1> QED BY <1>3, <1>4, <1>6

\* Every step of the writer keeps the order.
LEMMA OrderStep ==
    ASSUME TypeOK, FailedKnown, OrderInv, [Next]_writerVars
    PROVE  OrderInv'
<1> SUFFICES ASSUME NEW r \in Scopes
             PROVE  /\ "failed" \notin faults'[r] => Ordered(r)'
                    /\ faults'[r] = {} => Gapless(r)'
    BY DEF OrderInv
<1>1. /\ "failed" \notin faults[r] => Ordered(r)
      /\ faults[r] = {} => Ordered(r) /\ Gapless(r)
    BY DEF OrderInv
<1>2. ASSUME NEW op \in Ops, NEW s \in Scopes, Enqueue(op, s)
      PROVE  /\ "failed" \notin faults'[r] => Ordered(r)'
             /\ faults'[r] = {} => Gapless(r)'
    <2>1. faults' = faults
        BY <1>2 DEF Enqueue
    <2> QED BY <1>1, <1>2, <2>1, OrderEnqueue
<1>3. CASE WorkerTake
    <2>1. faults' = faults
        BY <1>3 DEF WorkerTake
    <2> QED BY <1>1, <1>3, <2>1, OrderTake
<1>4. CASE StoreSucceeds(Worker)
    <2>1. faults' = faults
        BY <1>4 DEF StoreSucceeds
    <2> QED BY <1>1, <1>4, <2>1, OrderStore
<1>5. CASE Restart
    BY <1>1, <1>5, OrderRestart
<1>6. CASE \/ \E x \in Executors : RecordSuccess(x) \/ RecordFailure(x)
           \/ \E t \in Threads : StoreSucceeds(t) \/ StartRecovery(t)
           \/ \E x \in Executors, c \in Categories : StoreFails(x, c)
           \/ CooldownElapses \/ WorkerDies \/ EnsureWorkerRunning
           \/ UNCHANGED writerVars
    <2>1. "failed" \notin faults'[r] => /\ faults'[r] = faults[r]
                                        /\ Ordered(r) => Ordered(r)'
                                        /\ Gapless(r) => Gapless(r)'
        BY <1>6, OrderElsewhere
    <2> QED BY <1>1, <2>1
<1> QED
    BY <1>2, <1>3, <1>4, <1>5, <1>6 DEF Next, Perform, Executors

--------------------------------------------------------------------------------
(* The invariant and what follows from it.                                    *)

WriterInv == TypeOK /\ HealthConsistent /\ RecoveryHeld /\ FailedKnown /\ OrderInv

\* A writer fresh from __init__ satisfies the invariant.
LEMMA InitInv == WriterInit => WriterInv
<1> SUFFICES ASSUME WriterInit PROVE WriterInv
    OBVIOUS
<1>1. TypeOK
    BY InitType
<1>2. health = InitHealth /\ queue = <<>> /\ \A x \in Executors : doing[x] = Idle
    BY DEF WriterInit, NewWriter
<1>3. HealthConsistent /\ RecoveryHeld
    BY <1>2 DEF InitHealth, HealthConsistent, RecoveryHeld, NoTask
<1>4. FailedKnown
    BY <1>2 DEF InitHealth, FailedKnown, RecoverOnlyFailed, Idle, Executors
<1>5. \A s \in Scopes : store[s].seq = 0 /\ requested[s] = 0 /\ ~AtWorker(s)
    BY <1>2 DEF WriterInit, AtWorker, Idle, Executors
<1>6. OrderInv
    BY <1>2, <1>5 DEF OrderInv, Ordered, Gapless
<1> QED BY <1>1, <1>3, <1>4, <1>6 DEF WriterInv

\* Every reachable state satisfies the invariant.
THEOREM WriterInvariant == Spec => []WriterInv
<1>1. WriterInv /\ [Next]_writerVars => WriterInv'
    <2> SUFFICES ASSUME WriterInv, [Next]_writerVars PROVE WriterInv'
        OBVIOUS
    <2> USE DEF WriterInv
    <2>1. TypeOK'
        BY TypeStep
    <2>2. HealthConsistent'
        BY EveryHealthStep, HealthKept
    <2>3. RecoveryHeld'
        BY RecoveryKept
    <2>4. FailedKnown'
        BY FailedKept
    <2>5. OrderInv'
        BY OrderStep
    <2> QED BY <2>1, <2>2, <2>3, <2>4, <2>5
<1> QED BY InitInv, <1>1, PTL DEF Spec

\* Type correctness; the queue never exceeds its size.
THEOREM WriterTypes == Spec => []TypeOK
<1>1. WriterInv => TypeOK
    BY DEF WriterInv
<1> QED BY <1>1, WriterInvariant, PTL

\* The health fields always tell one story.
THEOREM HealthFieldsAgree == Spec => []HealthConsistent
<1>1. WriterInv => HealthConsistent
    BY DEF WriterInv
<1> QED BY <1>1, WriterInvariant, PTL

\* The state "recovering" never outlives the retry it stands for.
THEOREM RecoveringHasRetry == Spec => []RecoveryHeld
<1>1. WriterInv => RecoveryHeld
    BY DEF WriterInv
<1> QED BY <1>1, WriterInvariant, PTL

\* A request thread writes rows of scopes only that had a failing write.
THEOREM RetriesFailedOnly == Spec => []RecoverOnlyFailed
<1>1. WriterInv => RecoverOnlyFailed
    BY DEF WriterInv, FailedKnown
<1> QED BY <1>1, WriterInvariant, PTL

\* Writes that do not fail reach the store in the order of acceptance.
THEOREM WritesInOrder == Spec => []InOrder
<1>1. WriterInv => InOrder
    <2> SUFFICES ASSUME WriterInv, NEW s \in Scopes, "failed" \notin faults[s]
                 PROVE  /\ \A task \in Pending(s) : store[s].seq < task.seq /\ task.seq <= requested[s]
                        /\ \A i, j \in DOMAIN queue :
                              i < j /\ queue[i].scope = s /\ queue[j].scope = s
                                 => queue[i].seq < queue[j].seq
                        /\ \A i \in DOMAIN queue :
                              AtWorker(s) /\ queue[i].scope = s => doing[Worker].task.seq < queue[i].seq
        BY DEF InOrder
    <2>1. Ordered(s)
        BY DEF WriterInv, OrderInv
    <2> QED BY <2>1 DEF Ordered, Pending
<1> QED BY <1>1, WriterInvariant, PTL

\* Writes that do not fail, and that no restart drops, are not lost.
THEOREM WritesComplete == Spec => []NoGap
<1>1. WriterInv => NoGap
    <2> SUFFICES ASSUME WriterInv, NEW s \in Scopes, faults[s] = {}
                 PROVE  {task.seq : task \in Pending(s)} = store[s].seq + 1 .. requested[s]
        BY DEF NoGap
    <2>1. Ordered(s) /\ Gapless(s)
        BY DEF WriterInv, OrderInv
    <2>2. store[s].seq \in Nat /\ requested[s] \in Nat
        BY DEF WriterInv, TypeOK, Rows
    <2>3. \A task \in Pending(s) : task \in Tasks
        BY JobFacts DEF WriterInv, TypeOK, Pending, AtWorker, Executors, Idle
    <2>4. ASSUME NEW task \in Pending(s)
          PROVE  task.seq \in store[s].seq + 1 .. requested[s]
        <3>1. task.seq \in Nat
            BY <2>3, TaskFacts
        <3>2. store[s].seq < task.seq /\ task.seq <= requested[s]
            BY <2>1 DEF Ordered, Pending
        <3> QED BY <2>2, <3>1, <3>2
    <2>5. ASSUME NEW n \in store[s].seq + 1 .. requested[s]
          PROVE  \E task \in Pending(s) : task.seq = n
        <3>1. n \in Nat /\ store[s].seq < n /\ n <= requested[s]
            BY <2>2
        <3>2. UnderWay(s, n)
            BY <2>1, <3>1 DEF Gapless
        <3> QED BY <3>2 DEF UnderWay, Pending
    <2> QED BY <2>4, <2>5
<1> QED BY <1>1, WriterInvariant, PTL

================================================================================

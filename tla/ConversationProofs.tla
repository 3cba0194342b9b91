--------------------------- MODULE ConversationProofs ---------------------------
(***************************************************************************)
(* What a conversation may rely on, for every number of threads, scopes,    *)
(* requests, queue slots, failures, deaths and restarts: its tokens keep     *)
(* their values, its rows bring them back, and it is forgotten when it ends. *)
(*                                                                         *)
(* The code promises this under the conditions of the run `middleware` only, *)
(* which Undisturbed names; README.md says why each of them is needed.       *)
(***************************************************************************)
EXTENDS PIIMiddlewareProofs

\* The client of a scope waits for its answers, callers are fail-closed, no entry
\* outlives the TTL, and the cache has room for every scope.
Undisturbed ==
    /\ OnePerScope
    /\ ClosedModes \subseteq {TRUE}
    /\ MaxExpiries = 0
    /\ IsFiniteSet(Scopes)
    /\ Cardinality(Scopes) <= MaxActiveScopes

\* What PIIMiddlewareProofs shows of every reachable state.
Base == ShapeInv /\ OwnershipInv /\ WrittenInv /\ ValuesInv

\* It holds without any of the conditions.
THEOREM BaseInvariant == MiddlewareSpec => []Base
BY ShapeInvariant, OwnershipInvariant, WrittenInvariant, ValuesInvariant, PTL DEF Base

--------------------------------------------------------------------------------
(* Nothing expires, so nothing is pruned.                                     *)

Calm == \A i \in DOMAIN cache : ~cache[i].expired

\* No entry is stale then.
LEMMA NothingStale ==
    ASSUME IsCache(cache), Calm
    PROVE  /\ Stale = <<>> /\ StaleVaults = {} /\ StaleScopes = {}
           /\ IsCache(Fresh) /\ \A i \in DOMAIN Fresh : \E k \in DOMAIN cache : Fresh[i] = cache[k]
           /\ \A s, v : Holds(Fresh, s, v) <=> Holds(cache, s, v)
<1> DEFINE L == {i \in DOMAIN cache : cache[i].expired}
<1>1. L = {} /\ L \in SUBSET DOMAIN cache
    BY DEF Calm
<1>2. Stale = Picked(cache, L)
    BY DEF Stale
<1> HIDE DEF L
<1>3. \A i \in DOMAIN Stale : \E k \in L : Stale[i] = cache[k]
    BY <1>1, <1>2, PickedFacts
<1>4. DOMAIN Stale = {}
    BY <1>1, <1>3
<1>5. Stale \in Seq(Entries)
    BY PruneFacts DEF IsCache
<1>6. Stale = <<>>
    BY <1>4, <1>5
<1>7. StaleVaults = {} /\ StaleScopes = {}
    BY <1>4 DEF StaleVaults, StaleScopes
<1>8. \A i \in DOMAIN Fresh : \E k \in DOMAIN cache : Fresh[i] = cache[k]
    <2> DEFINE K == {i \in DOMAIN cache : ~cache[i].expired}
    <2>1. K \in SUBSET DOMAIN cache
        OBVIOUS
    <2>2. Fresh = Picked(cache, K)
        BY DEF Fresh
    <2> HIDE DEF K
    <2> QED BY <2>1, <2>2, PickedFacts
<1> QED BY <1>6, <1>7, <1>8, PruneFacts

\* So pruning changes no vault, and tells the writer nothing.
LEMMA NothingPruned ==
    ASSUME Base, Calm
    PROVE  /\ \A v \in VaultIds : PrunedHeap[v] = heap[v]
           /\ PruneDeletes => /\ UNCHANGED writerVars
                              /\ \A s \in Scopes : snapshots'[s] = snapshots[s]
<1>1. IsCache(cache) /\ TypeOK
    BY DEF Base, ShapeInv, CacheInv, WrittenInv
<1>2. Stale = <<>> /\ StaleVaults = {}
    BY <1>1, NothingStale
<1>3. \A v \in VaultIds : PrunedHeap[v] = heap[v]
    BY <1>2 DEF PrunedHeap
<1>4. ASSUME PruneDeletes
      PROVE  /\ UNCHANGED writerVars
             /\ \A s \in Scopes : snapshots'[s] = snapshots[s]
    <2>1. PICK n \in Nat :
              /\ n <= Len(Stale) /\ Len(queue) + n <= QueueMax
              /\ queue' \in Seq(Tasks) /\ Len(queue') = Len(queue) + n
              /\ \A i \in 1 .. Len(queue) : queue'[i] = queue[i]
              /\ \A i \in 1 .. n :
                    /\ queue'[Len(queue) + i].scope = Stale[i].scope
                    /\ queue'[Len(queue) + i].seq = requested[Stale[i].scope] + 1
                    /\ Stale[i].scope \in Scopes
              /\ requested' \in [Scopes -> Nat] /\ DOMAIN snapshots' = Scopes
              /\ \A s \in Scopes :
                    \/ /\ \E i \in 1 .. n : Stale[i].scope = s
                       /\ requested'[s] = requested[s] + 1
                       /\ snapshots'[s] = Append(snapshots[s], NoContent)
                    \/ /\ \A i \in 1 .. n : Stale[i].scope # s
                       /\ requested'[s] = requested[s] /\ snapshots'[s] = snapshots[s]
              /\ UNCHANGED <<workerAlive, doing, health, store, failures, deaths, restarts,
                             faults>>
        BY <1>1, <1>4, PruneWrites
    <2>2. n = 0
        BY <1>2, <2>1
    <2>3. queue' = queue
        <3>1. queue \in Seq(Tasks) /\ queue' \in Seq(Tasks) /\ Len(queue') = Len(queue)
            BY <1>1, <2>1, <2>2 DEF TypeOK
        <3> QED BY <2>1, <3>1, SeqEqual
    <2>4. \A s \in Scopes : requested'[s] = requested[s] /\ snapshots'[s] = snapshots[s]
        BY <2>1, <2>2
    <2>5. requested' = requested
        BY <1>1, <2>1, <2>4 DEF TypeOK
    <2> QED BY <2>1, <2>3, <2>4, <2>5 DEF writerVars
<1> QED BY <1>3, <1>4

\* An entry put last or taken over from the cache is not expired.
LEMMA CalmEntries ==
    ASSUME Calm, NEW c, IsCache(c), \A i \in DOMAIN c : \E k \in DOMAIN cache : c[i] = cache[k],
           NEW s, NEW v
    PROVE  /\ \A i \in DOMAIN c : ~c[i].expired
           /\ \A i \in DOMAIN Append(Without(c, s), Entry(s, v)) :
                 ~Append(Without(c, s), Entry(s, v))[i].expired
<1> DEFINE d == Without(c, s)
           e == Entry(s, v)
<1>1. \A i \in DOMAIN c : ~c[i].expired
    BY DEF Calm
<1>2. IsCache(d) /\ \A i \in DOMAIN d : \E k \in DOMAIN c : d[i] = c[k]
    BY WithoutFacts
<1>3. ~e.expired
    BY DEF Entry
<1> HIDE DEF d, e
<1>4. ASSUME NEW i \in DOMAIN Append(d, e)
      PROVE  ~Append(d, e)[i].expired
    <2>1. d \in Seq(Entries) /\ DOMAIN Append(d, e) = 1 .. Len(d) + 1 /\ Len(d) \in Nat
        BY <1>2 DEF IsCache
    <2>2. CASE i \in 1 .. Len(d)
        <3>1. Append(d, e)[i] = d[i] /\ i \in DOMAIN d
            BY <2>1, <2>2
        <3> QED BY <1>1, <1>2, <3>1
    <2>3. CASE i = Len(d) + 1
        <3>1. Append(d, e)[i] = e
            BY <2>1, <2>3
        <3> QED BY <1>3, <3>1
    <2> QED BY <2>1, <2>2, <2>3
<1> QED BY <1>1, <1>4 DEF d, e

\* No step expires an entry, and so each moves the writer by a step of its own.
LEMMA CalmStep ==
    ASSUME Undisturbed, Base, Calm, expiries = 0, [MiddlewareNext]_vars
    PROVE  Calm' /\ expiries' = 0 /\ [Next]_writerVars
<1>1. IsCache(cache) /\ ShapeInv
    BY DEF Base, ShapeInv, CacheInv
<1>2. [Next]_writerVars
    BY <1>1, WriterMoves, NothingPruned
<1>3. ASSUME NEW i \in DOMAIN cache, Expire(i)
      PROVE  FALSE
    BY <1>3 DEF Expire, Undisturbed
<1>4. ~HealthPrune
    BY <1>1, NothingStale DEF HealthPrune
<1>5. ASSUME NEW t \in Threads, Arrive(t)
      PROVE  cache' = cache /\ expiries' = expiries
    BY <1>5 DEF Arrive, Start, Saturated, cacheVars
<1>6. ASSUME NEW t \in Threads, Serve(t)
      PROVE  Calm' /\ expiries' = expiries
    <2> DEFINE s == req[t].scope
               Moved(c, v) == Append(Without(c, s), Entry(s, v))
    <2>1. /\ \A i \in DOMAIN Fresh : ~Fresh[i].expired
          /\ \A v : \A i \in DOMAIN Moved(Fresh, v) : ~Moved(Fresh, v)[i].expired
        BY <1>1, NothingStale, CalmEntries
    <2>2. /\ \A v : \A i \in DOMAIN Moved(cache, v) : ~Moved(cache, v)[i].expired
          /\ \A i \in DOMAIN Without(cache, s) : ~Without(cache, s)[i].expired
        <3>1. \A i \in DOMAIN Without(cache, s) : \E k \in DOMAIN cache : Without(cache, s)[i] = cache[k]
            BY <1>1, WithoutFacts
        <3> QED BY <1>1, <3>1, CalmEntries DEF Calm
    <2>3. CASE CheckResident(t)
        BY <2>1, <2>3 DEF CheckResident, boundVars, Calm
    <2>4. CASE Lookup(t)
        <3>1. (cache' = Fresh \/ cache' = Moved(Fresh, VaultOf(s))) /\ expiries' = expiries
            BY <2>4 DEF Lookup, boundVars
        <3> HIDE DEF Moved
        <3> QED BY <2>1, <3>1 DEF Calm
    <2>5. CASE Insert(t)
        <3>1. /\ expiries' = expiries
              /\ \E v : cache' = IF OverCapacity(Moved(cache, v)) THEN Tail(Moved(cache, v)) ELSE Moved(cache, v)
            BY <2>5 DEF Insert, boundVars
        <3>2. PICK v : cache' = IF OverCapacity(Moved(cache, v)) THEN Tail(Moved(cache, v)) ELSE Moved(cache, v)
            BY <3>1
        <3> DEFINE d == Moved(cache, v)
        <3> DEFINE E == Entries \cup {Entry(s, v)}
        <3>3. Without(cache, s) \in Seq(Entries)
            BY <1>1, WithoutFacts DEF IsCache
        <3>4. d \in Seq(E) /\ d # <<>>
            <4>1. Without(cache, s) \in Seq(E) /\ Entry(s, v) \in E
                BY <3>3
            <4> HIDE DEF E
            <4> QED BY <4>1
        <3>5. \A i \in DOMAIN d : ~d[i].expired
            BY <2>2
        <3> HIDE DEF d, E
        <3>6. \A i \in DOMAIN Tail(d) : i + 1 \in DOMAIN d /\ Tail(d)[i] = d[i + 1]
            BY <3>4
        <3>7. \A i \in DOMAIN Tail(d) : ~Tail(d)[i].expired
            BY <3>5, <3>6
        <3>8. cache' = Tail(d) \/ cache' = d
            BY <3>2 DEF d
        <3> QED BY <3>1, <3>5, <3>7, <3>8 DEF Calm
    <2>6. CASE PopSession(t)
        BY <2>2, <2>6 DEF PopSession, boundVars, Calm
    <2>7. CASE \/ GateEnsure(t) \/ GateCheck(t) \/ GateRecovered(t) \/ GateRecheck(t)
               \/ GateDecide(t) \/ Load(t) \/ LoadFails(t)
        BY <2>7 DEF GateEnsure, GateCheck, GateRecovered, GateRecheck, GateDecide, Load, LoadFails,
                    Calm, boundVars, cacheVars
    <2>8. CASE QueueDelete(t) \/ DestroyVault(t) \/ Redact(t) \/ EngineFails(t)
        BY <2>8 DEF QueueDelete, DestroyVault, Redact, EngineFails, Calm, boundVars
    <2>9. CASE TakeSnapshot(t) \/ PersistSnapshot(t) \/ Rehydrate(t)
        BY <2>9 DEF TakeSnapshot, PersistSnapshot, Rehydrate, Calm, boundVars, cacheVars
    <2> QED BY <1>6, <2>3, <2>4, <2>5, <2>6, <2>7, <2>8, <2>9 DEF Serve
<1>7. CASE RestartProcess
    BY <1>2, <1>7 DEF RestartProcess, boundVars, Calm
<1>8. CASE HealthProbe \/ Background \/ UNCHANGED vars
    BY <1>2, <1>4, <1>8 DEF HealthProbe, Background, Calm, vars, middlewareVars, boundVars, cacheVars
<1> QED BY <1>2, <1>3, <1>5, <1>6, <1>7, <1>8 DEF MiddlewareNext, Calm

--------------------------------------------------------------------------------
(* The writes of a scope.                                                     *)

WritesInv == Calm /\ expiries = 0 /\ FailedKnown /\ OrderInv

\* Nothing pruned, what the writer promises on its own holds under the middleware.
THEOREM WritesInvariant ==
    ASSUME Undisturbed
    PROVE  MiddlewareSpec => []WritesInv
<1>1. Init => WritesInv
    <2> SUFFICES ASSUME Init PROVE WritesInv
        OBVIOUS
    <2>1. /\ queue = <<>> /\ health = InitHealth /\ doing = [x \in Executors |-> Idle]
          /\ requested = [s \in Scopes |-> IF Saved(s) THEN 1 ELSE 0]
          /\ store = [s \in Scopes |-> [row |-> Saved(s), seq |-> requested[s]]]
        BY DEF Init, NewWriter
    <2>2. Calm /\ expiries = 0
        BY DEF Init, Calm
    <2>3. FailedKnown
        BY <2>1 DEF FailedKnown, RecoverOnlyFailed, InitHealth, Idle, Executors
    <2>4. \A s \in Scopes : requested[s] \in Nat /\ store[s].seq = requested[s] /\ ~AtWorker(s)
        BY <2>1, WriterAssumption DEF AtWorker, Idle, Executors
    <2>5. OrderInv
        BY <2>1, <2>4 DEF OrderInv, Ordered, Gapless
    <2> QED BY <2>2, <2>3, <2>5 DEF WritesInv
<1>2. Base /\ WritesInv /\ [MiddlewareNext]_vars => WritesInv'
    BY CalmStep, FailedKept, OrderStep DEF Base, WrittenInv, WritesInv
<1> QED BY <1>1, <1>2, BaseInvariant, PTL DEF MiddlewareSpec

\* A write of s under way is queued or in the hands of the worker.
LEMMA PendingFacts ==
    ASSUME NEW s, NEW task
    PROVE  task \in Pending(s) <=>
              \/ \E i \in DOMAIN queue : queue[i] = task /\ task.scope = s
              \/ AtWorker(s) /\ task = doing[Worker].task
BY DEF Pending

\* What a step does to the writes of a scope that has no fault: one of them may reach
\* the store, or a new one is accepted.
WritesMove(s) ==
    /\ \/ requested'[s] = requested[s] /\ \A task : task \in Pending(s)' => task \in Pending(s)
       \/ \E op \in Ops :
             /\ Enqueue(op, s)
             /\ \A task : task \in Pending(s)' =>
                   task \in Pending(s) \/ task = Task(op, s, requested[s] + 1)
    /\ \/ store'[s] = store[s]
       \/ /\ requested'[s] = requested[s]
          /\ \E task \in Pending(s) : store'[s] = RowAfter(task)

\* Every step is one of these, and no fault is ever forgotten.
LEMMA WritesStep ==
    ASSUME TypeOK, FailedKnown, [Next]_writerVars, NEW s \in Scopes, faults'[s] = {}
    PROVE  faults[s] = {} /\ WritesMove(s)
<1>1. /\ queue \in Seq(Tasks) /\ doing \in [Executors -> Jobs] /\ store \in [Scopes -> Rows]
      /\ requested \in [Scopes -> Nat] /\ faults \in [Scopes -> SUBSET {"failed", "lost"}]
      /\ Worker \in Executors /\ \A t \in Threads : t \in Executors /\ t # Worker
    BY WriterAssumption DEF TypeOK, Executors
<1>2. \A x \in Executors : doing[x].stage # "idle" => doing[x].task.scope \in Scopes
    BY <1>1, JobFacts, TaskFacts
<1>3. ASSUME requested'[s] = requested[s], store'[s] = store[s],
             \A i \in DOMAIN queue' : \E j \in DOMAIN queue : queue'[i] = queue[j],
             \/ doing'[Worker] = doing[Worker]
             \/ doing'[Worker].stage # "executing"
             \/ \E j \in DOMAIN queue : doing'[Worker] = Executing(queue[j])
      PROVE  WritesMove(s)
    <2>1. ASSUME NEW task, task \in Pending(s)'
          PROVE  task \in Pending(s)
        <3>1. \/ \E i \in DOMAIN queue' : queue'[i] = task /\ task.scope = s
              \/ AtWorker(s)' /\ task = doing'[Worker].task
            BY <2>1 DEF Pending
        <3>2. CASE \E i \in DOMAIN queue' : queue'[i] = task /\ task.scope = s
            BY <1>3, <3>2, PendingFacts
        <3>3. CASE AtWorker(s)' /\ task = doing'[Worker].task
            <4>1. doing'[Worker].stage = "executing" /\ task.scope = s
                BY <3>3 DEF AtWorker
            <4>2. CASE doing'[Worker] = doing[Worker]
                BY <3>3, <4>1, <4>2, PendingFacts DEF AtWorker
            <4>3. ASSUME NEW j \in DOMAIN queue, doing'[Worker] = Executing(queue[j])
                  PROVE  task \in Pending(s)
                <5>1. task = queue[j]
                    BY <3>3, <4>3 DEF Executing
                <5> QED BY <4>1, <5>1, PendingFacts
            <4> QED BY <1>3, <4>1, <4>2, <4>3
        <3> QED BY <3>1, <3>2, <3>3
    <2> QED BY <1>3, <2>1 DEF WritesMove
<1>4. ASSUME NEW op \in Ops, NEW r \in Scopes, Enqueue(op, r)
      PROVE  faults[s] = {} /\ WritesMove(s)
    <2> DEFINE new == Task(op, r, requested[r] + 1)
    <2>1. /\ queue' = Append(queue, new) /\ doing' = doing /\ store' = store /\ faults' = faults
          /\ requested' = [requested EXCEPT ![r] = @ + 1]
        BY <1>4 DEF Enqueue, Put
    <2>2. new.scope = r
        BY DEF Task
    <2> HIDE DEF new
    <2>3. \A i \in DOMAIN queue' : (i \in DOMAIN queue /\ queue'[i] = queue[i]) \/ queue'[i] = new
        <3>1. new \in Tasks \cup {new} /\ queue \in Seq(Tasks \cup {new})
            BY <1>1
        <3>2. /\ DOMAIN queue' = 1 .. Len(queue) + 1 /\ Len(queue) \in Nat
              /\ DOMAIN queue = 1 .. Len(queue)
              /\ \A i \in 1 .. Len(queue) : queue'[i] = queue[i]
              /\ queue'[Len(queue) + 1] = new
            BY <2>1, <3>1
        <3>3. \A i \in DOMAIN queue' : i \in 1 .. Len(queue) \/ i = Len(queue) + 1
            BY <3>2
        <3> QED BY <3>2, <3>3
    <2>4. ASSUME NEW task, task \in Pending(s)'
          PROVE  task \in Pending(s) \/ (task = new /\ r = s)
        <3>1. \/ \E i \in DOMAIN queue' : queue'[i] = task /\ task.scope = s
              \/ AtWorker(s)' /\ task = doing'[Worker].task
            BY <2>4 DEF Pending
        <3>2. CASE \E i \in DOMAIN queue' : queue'[i] = task /\ task.scope = s
            BY <2>2, <2>3, <3>2, PendingFacts
        <3>3. CASE AtWorker(s)' /\ task = doing'[Worker].task
            BY <2>1, <3>3, PendingFacts DEF AtWorker
        <3> QED BY <3>1, <3>2, <3>3
    <2>5. CASE r = s
        <3>1. \A task : task \in Pending(s)' =>
                  task \in Pending(s) \/ task = Task(op, s, requested[s] + 1)
            BY <2>4, <2>5 DEF new
        <3> QED BY <1>4, <2>1, <2>5, <3>1 DEF WritesMove
    <2>6. CASE r # s
        <3>1. requested'[s] = requested[s]
            BY <1>1, <2>1, <2>6
        <3> QED BY <2>1, <2>4, <2>6, <3>1 DEF WritesMove
    <2> QED BY <2>5, <2>6
<1>5. CASE WorkerTake
    <2>1. /\ queue' = Tail(queue) /\ queue # <<>>
          /\ doing' = [doing EXCEPT ![Worker] = Executing(Head(queue))]
          /\ requested' = requested /\ store' = store /\ faults' = faults
        BY <1>5 DEF WorkerTake
    <2>2. /\ \A i \in DOMAIN queue' : i + 1 \in DOMAIN queue /\ queue'[i] = queue[i + 1]
          /\ 1 \in DOMAIN queue /\ Head(queue) = queue[1]
        BY <1>1, <2>1
    <2>3. doing'[Worker] = Executing(queue[1])
        BY <1>1, <2>1, <2>2
    <2> QED BY <1>3, <2>1, <2>2, <2>3
<1>6. ASSUME NEW x \in Executors, StoreSucceeds(x)
      PROVE  faults[s] = {} /\ WritesMove(s)
    <2> DEFINE task == doing[x].task
    <2>1. /\ doing[x].stage = "executing"
          /\ store' = [store EXCEPT ![task.scope] = RowAfter(task)]
          /\ doing' = [doing EXCEPT ![x] = Executed(task, "ok")]
          /\ queue' = queue /\ requested' = requested /\ faults' = faults
        BY <1>6 DEF StoreSucceeds
    <2>2. doing'[x].stage = "executed" /\ \A y \in Executors \ {x} : doing'[y] = doing[y]
        BY <1>1, <2>1 DEF Executed
    <2>3. \A q : q \in Pending(s)' => q \in Pending(s)
        <3>1. doing'[Worker] = doing[Worker] \/ doing'[Worker].stage # "executing"
            BY <1>1, <2>2
        <3>2. AtWorker(s)' => AtWorker(s) /\ doing'[Worker].task = doing[Worker].task
            BY <3>1 DEF AtWorker
        <3> QED BY <2>1, <3>2 DEF Pending
    <2>4. CASE task.scope # s
        <3>1. store'[s] = store[s]
            BY <1>1, <2>1, <2>4
        <3> QED BY <2>1, <2>3, <3>1 DEF WritesMove
    <2>5. CASE task.scope = s
        <3>1. store'[s] = RowAfter(task)
            BY <1>1, <2>1, <2>5
        <3>2. x = Worker
            <4>1. ASSUME x \in Threads
                  PROVE  FALSE
                <5>1. "failed" \in faults[task.scope]
                    <6>1. doing[x] # Idle
                        BY <2>1 DEF Idle
                    <6> QED BY <4>1, <6>1 DEF FailedKnown, RecoverOnlyFailed
                <5> QED BY <2>1, <2>5, <5>1
            <4> QED BY <4>1 DEF Executors
        <3>3. task \in Pending(s)
            BY <2>1, <2>5, <3>2, PendingFacts DEF AtWorker
        <3> QED BY <2>1, <2>3, <3>1, <3>3 DEF WritesMove
    <2> QED BY <2>4, <2>5
<1>7. ASSUME NEW x \in Executors, NEW c, StoreFails(x, c)
      PROVE  faults[s] = {} /\ WritesMove(s)
    <2> DEFINE task == doing[x].task
    <2>1. /\ doing[x].stage = "executing"
          /\ store' = store \/ store' = [store EXCEPT ![task.scope] = RowAfter(task)]
          /\ doing' = [doing EXCEPT ![x] = Executed(task, c)]
          /\ faults' = [faults EXCEPT ![task.scope] = @ \cup {"failed"}]
          /\ queue' = queue /\ requested' = requested
        BY <1>7 DEF StoreFails
    <2>2. task.scope # s
        BY <1>1, <2>1
    <2>3. store'[s] = store[s] /\ faults'[s] = faults[s]
        BY <1>1, <2>1, <2>2
    <2>4. doing'[Worker] = doing[Worker] \/ doing'[Worker].stage # "executing"
        BY <1>1, <2>1 DEF Executed
    <2> QED BY <1>3, <2>1, <2>3, <2>4
<1>8. ASSUME NEW x \in Executors, RecordSuccess(x) \/ RecordFailure(x)
      PROVE  faults[s] = {} /\ WritesMove(s)
    <2>1. /\ doing' = [doing EXCEPT ![x] = Idle]
          /\ queue' = queue /\ requested' = requested /\ store' = store /\ faults' = faults
        BY <1>8 DEF RecordSuccess, RecordFailure
    <2>2. doing'[Worker] = doing[Worker] \/ doing'[Worker].stage # "executing"
        BY <1>1, <2>1 DEF Idle
    <2> QED BY <1>3, <2>1, <2>2
<1>9. ASSUME NEW t \in Threads, StartRecovery(t)
      PROVE  faults[s] = {} /\ WritesMove(s)
    <2>1. /\ doing' = [doing EXCEPT ![t] = Executing(RetryTask)]
          /\ queue' = queue /\ requested' = requested /\ store' = store /\ faults' = faults
        BY <1>9 DEF StartRecovery
    <2>2. doing'[Worker] = doing[Worker]
        BY <1>1, <2>1
    <2> QED BY <1>3, <2>1, <2>2
<1>10. CASE CooldownElapses \/ WorkerDies \/ EnsureWorkerRunning \/ UNCHANGED writerVars
    <2>1. /\ doing' = doing \/ doing' = [doing EXCEPT ![Worker] = Idle]
          /\ queue' = queue /\ requested' = requested /\ store' = store /\ faults' = faults
        BY <1>10 DEF CooldownElapses, WorkerDies, EnsureWorkerRunning, writerVars
    <2>2. doing'[Worker] = doing[Worker] \/ doing'[Worker].stage # "executing"
        BY <1>1, <2>1 DEF Idle
    <2> QED BY <1>3, <2>1, <2>2
<1>11. CASE Restart
    <2>1. /\ doing' = [x \in Executors |-> Idle] /\ queue' = <<>>
          /\ requested' = requested /\ store' = store
          /\ faults' = [r \in Scopes |-> faults[r] \cup (IF Pending(r) = {} THEN {} ELSE {"lost"})]
        BY <1>11 DEF Restart
    <2>2. doing'[Worker].stage # "executing" /\ DOMAIN queue' = {} /\ faults[s] = {}
        BY <1>1, <2>1 DEF Idle
    <2> QED BY <1>3, <2>1, <2>2
<1> QED BY <1>4, <1>5, <1>6, <1>7, <1>8, <1>9, <1>10, <1>11 DEF Next, Perform

\* Nothing under way, the row of a scope without a fault holds its last write.
LEMMA Drained ==
    ASSUME TypeOK, OrderInv, NEW s \in Scopes, faults[s] = {}, Pending(s) = {}
    PROVE  store[s].seq = requested[s]
<1>1. store[s].seq \in Nat /\ requested[s] \in Nat
    BY DEF TypeOK, Rows
<1>2. store[s].seq <= requested[s] /\ Gapless(s)
    BY DEF OrderInv, Ordered
<1>3. ~UnderWay(s, requested[s])
    <2>1. ASSUME NEW i \in DOMAIN queue, queue[i].scope = s
          PROVE  FALSE
        BY <2>1, PendingFacts
    <2>2. ~AtWorker(s)
        BY PendingFacts
    <2> QED BY <2>1, <2>2 DEF UnderWay
<1> QED BY <1>1, <1>2, <1>3 DEF Gapless

\* The numbers of the writes of a scope that are under way.
LEMMA PendingNumbers ==
    ASSUME TypeOK, OrderInv, NEW s \in Scopes, faults[s] = {}, NEW task \in Pending(s)
    PROVE  task \in Tasks /\ task.scope = s /\ task.seq \in 1 .. requested[s]
<1>1. queue \in Seq(Tasks) /\ doing[Worker] \in Jobs /\ store[s].seq \in Nat /\ requested[s] \in Nat
    BY WriterAssumption DEF TypeOK, Rows, Executors
<1>2. Ordered(s)
    BY DEF OrderInv
<1>3. ASSUME NEW i \in DOMAIN queue, queue[i] = task, task.scope = s
      PROVE  task \in Tasks /\ task.seq \in 1 .. requested[s]
    <2>1. task \in Tasks /\ store[s].seq < task.seq /\ task.seq <= requested[s]
        BY <1>1, <1>2, <1>3 DEF Ordered
    <2> QED BY <1>1, <2>1, TaskFacts
<1>4. ASSUME AtWorker(s), task = doing[Worker].task
      PROVE  task \in Tasks /\ task.scope = s /\ task.seq \in 1 .. requested[s]
    <2>1. task \in Tasks /\ task.scope = s /\ store[s].seq < task.seq /\ task.seq <= requested[s]
        <3>1. doing[Worker].stage = "executing" /\ doing[Worker].task.scope = s
            BY <1>4 DEF AtWorker
        <3>2. doing[Worker] # Idle
            BY <3>1 DEF Idle
        <3> QED BY <1>1, <1>2, <1>4, <3>1, <3>2, JobFacts DEF Ordered
    <2> QED BY <1>1, <2>1, TaskFacts
<1> QED BY <1>3, <1>4, PendingFacts

--------------------------------------------------------------------------------
(* The requests of a scope.                                                   *)

\* Without a store there are no rows; a token was last answered for one value.
Given(P) ==
    /\ \A p \in P : p = <<p[1], p[2]>>
    /\ \A p, q \in P : p[1] = q[1] => p = q
Settings ==
    /\ DOMAIN session = Scopes
    /\ \A s \in Scopes : Given(issued[s])
    /\ ~HasStore => \A s \in Scopes : ~store[s].row

Absent(s) == \A v : ~Holds(cache, s, v)
Serves(t, s) == req[t] # NoRequest /\ req[t].scope = s

BeforeInsert == {"resident", "gate", "check", "recover", "recheck", "status", "lookup", "load"}

\* A request works on the vault the cache has for its scope; it loads, and ends a
\* session, while the cache has none; and an end destroys a vault it took out.
RequestInv(t) ==
    /\ req[t].closed = TRUE
    /\ req[t].vault # NoVault => Holds(cache, req[t].scope, req[t].vault)
    /\ req[t].pc \in {"load", "insert", "delete", "destroy"} => Absent(req[t].scope)
    /\ req[t].pc \in {"delete", "destroy"} =>
          /\ req[t].kind = "end" /\ req[t].victim.scope = req[t].scope
          /\ req[t].victim.vault \in popped
    /\ req[t].pc \in BeforeInsert => req[t].content = NoContent
    /\ req[t].pc \in {"load", "snapshot", "enqueue"} => HasStore
    /\ req[t].kind = "rehydrate" => \E p \in issued[req[t].scope] : p[1] = req[t].arg
    /\ req[t].pc \in {"snapshot", "enqueue"} => session[req[t].scope] # "over"
    /\ req[t].pc = "destroy" => issued[req[t].scope] = {}

ClientInv ==
    /\ \A t, u \in Threads : req[t] # NoRequest /\ Serves(u, req[t].scope) => t = u
    /\ \A t \in Threads : req[t] # NoRequest => RequestInv(t)

--------------------------------------------------------------------------------
(* What a scope was given, and where it is kept.                              *)

\* A vault or a row with this content gives every token of P its value, or a correction
\* of C that took it over.
Resolves(content, P, C) ==
    \A p \in P : /\ p[1] \in DOMAIN content
                 /\ content[p[1]] = p[2] \/ <<p[1], content[p[1]]>> \in C

\* A vault that held c holds d: more tokens, and the corrections of C.
Extends(d, c, C) ==
    \A i \in DOMAIN c : i \in DOMAIN d /\ (d[i] = c[i] \/ <<i, d[i]>> \in C)

Latest(s) == IF requested[s] = 0 THEN NoContent ELSE snapshots[s][requested[s]]

\* The request of t has, at its stage, what the scope was given and what it is to give.
Fits(t) ==
    LET pair == <<req[t].token, req[t].arg>> IN
    /\ req[t].pc \in {"snapshot", "enqueue"} => Resolves(heap[req[t].vault], {pair}, {})
    /\ req[t].pc = "enqueue" => Resolves(req[t].content, {pair}, {})
    /\ req[t].pc \in {"enqueue", "insert"} =>
          Resolves(req[t].content, issued[req[t].scope], corrections[req[t].scope])

\* The last write of an intact scope and its vault, if it has one, give every token
\* its value or the correction of it.  Without a vault it has no tokens, or its last write is in the store,
\* or its session is about to end.
Talk(s) == Intact(s) =>
    /\ HasStore => Resolves(Latest(s), issued[s], corrections[s])
    /\ \A v : Holds(cache, s, v) => Resolves(heap[v], issued[s], corrections[s])
    /\ Absent(s) => \/ issued[s] = {}
                    \/ HasStore /\ Pending(s) = {}
                    \/ \E t \in Threads : Serves(t, s) /\ req[t].pc = "delete"
    /\ \A t \in Threads : Serves(t, s) => Fits(t)

\* What a delete is counted with is nothing, and so is what it leaves.
RowsMatch(s) ==
    /\ ~store[s].row => store[s].seq = 0 \/ snapshots[s][store[s].seq] = NoContent
    /\ \A task \in Pending(s) : task.op = "delete" => snapshots[s][task.seq] = NoContent

\* The last write of a scope whose session is over is a delete.
Over(s) == session[s] = "over" \/ \E t \in Threads : Serves(t, s) /\ req[t].pc = "destroy"
LastIsDelete(s) ==
    /\ store[s].seq = requested[s] => ~store[s].row
    /\ \A task \in Pending(s) : task.seq = requested[s] => task.op = "delete"

Forgets(s) == faults[s] = {} => RowsMatch(s) /\ (HasStore /\ Over(s) => LastIsDelete(s))

TalkInv == Settings /\ ClientInv /\ \A s \in Scopes : Talk(s) /\ Forgets(s)

--------------------------------------------------------------------------------
(* Steps that leave a scope what it has.                                      *)

\* Nothing the scope s has is changed, but for values its vault gains or corrects.
Still(s) ==
    /\ issued'[s] = issued[s] /\ corrections[s] \subseteq corrections'[s]
    /\ session'[s] = session[s] \/ (session[s] = "over" /\ session'[s] = "open")
    /\ requested'[s] = requested[s] /\ snapshots'[s] = snapshots[s]
    /\ \A v : Holds(cache', s, v) <=> Holds(cache, s, v)
    /\ \A v : Holds(cache, s, v) => Extends(heap'[v], heap[v], corrections'[s])

\* Its vault does not change at all.
Untouched(s) == \A v : Holds(cache, s, v) => heap'[v] = heap[v]

\* And no request of s leaves its end, loses what it has, or comes to a stage without
\* what it needs.
Keeps(s) ==
    /\ Still(s)
    /\ \A t \in Threads :
          \/ req'[t] = req[t] /\ (Serves(t, s) => Untouched(s))
          \/ /\ Serves(t, s) => req[t].pc # "delete"
             /\ Serves(t, s)' => req'[t].pc # "destroy" /\ (Intact(s)' => Fits(t)')

\* A vault that gains values or corrects them still resolves what it did.
LEMMA ExtendsResolves ==
    ASSUME NEW c, NEW d, NEW C, NEW D, C \subseteq D, Extends(d, c, D), NEW P, Resolves(c, P, C)
    PROVE  Resolves(d, P, D)
BY DEF Extends, Resolves

\* So it does with more corrections.
LEMMA MoreCorrections ==
    ASSUME NEW c, NEW C, NEW D, C \subseteq D, NEW P, Resolves(c, P, C)
    PROVE  Resolves(c, P, D)
BY DEF Resolves

\* What resolves the tokens a scope was given, and the value one of them is answered for,
\* resolves them after the answer.
LEMMA AnsweredResolves ==
    ASSUME NEW c, NEW P, NEW C, NEW a, NEW b, Resolves(c, P, C), Resolves(c, {<<a, b>>}, {})
    PROVE  Resolves(c, Issued(P, <<a, b>>), Kept(C, <<a, b>>))
<1> DEFINE pair == <<a, b>>
<1>1. pair[1] = a /\ pair[2] = b
    OBVIOUS
<1>2. a \in DOMAIN c /\ c[a] = b
    BY <1>1 DEF Resolves
<1>3. ASSUME NEW p \in P, p[1] # a
      PROVE  p[1] \in DOMAIN c /\ (c[p[1]] = p[2] \/ <<p[1], c[p[1]]>> \in Kept(C, pair))
    <2>1. p[1] \in DOMAIN c /\ (c[p[1]] = p[2] \/ <<p[1], c[p[1]]>> \in C)
        BY DEF Resolves
    <2>2. <<p[1], c[p[1]]>>[1] = p[1]
        OBVIOUS
    <2> HIDE DEF pair
    <2> QED BY <1>1, <1>3, <2>1, <2>2 DEF Kept, OtherTokens
<1> HIDE DEF pair
<1>4. \A p \in Issued(P, pair) : (p \in P /\ p[1] # a) \/ p = pair
    BY <1>1 DEF Issued, OtherTokens
<1>5. Resolves(c, Issued(P, pair), Kept(C, pair))
    BY <1>1, <1>2, <1>3, <1>4 DEF Resolves
<1> QED BY <1>5 DEF pair

\* And a token answered for another value than before was taken over by it.
LEMMA AnsweredStable ==
    ASSUME NEW c, NEW P, NEW C, NEW a, NEW b, Resolves(c, P, C), Resolves(c, {<<a, b>>}, {}),
           Given(P), NEW p \in P, NEW q \in Issued(P, <<a, b>>), p[1] = q[1], p # q
    PROVE  q \in Kept(C, <<a, b>>)
<1> DEFINE pair == <<a, b>>
<1>1. pair[1] = a /\ pair[2] = b
    OBVIOUS
<1>2. a \in DOMAIN c /\ c[a] = b
    BY <1>1 DEF Resolves
<1>3. q = pair
    <2> HIDE DEF pair
    <2>1. q \in P \/ q = pair
        BY DEF Issued, OtherTokens, pair
    <2> QED BY <2>1 DEF Given
<1>4. p[1] = a /\ p = <<a, p[2]>>
    BY <1>1, <1>3 DEF Given
<1>5. c[a] # p[2]
    BY <1>2, <1>3, <1>4
<1>6. pair \in C
    BY <1>2, <1>4, <1>5 DEF Resolves
<1> QED BY <1>3, <1>6 DEF Kept

\* What a scope was given stays a function of the tokens.
LEMMA IssuedGiven ==
    ASSUME NEW P, Given(P), NEW a, NEW b
    PROVE  Given(Issued(P, <<a, b>>))
<1> DEFINE pair == <<a, b>>
<1>1. pair[1] = a /\ pair[2] = b /\ pair = <<pair[1], pair[2]>>
    OBVIOUS
<1> HIDE DEF pair
<1>2. \A p \in Issued(P, pair) : (p \in P /\ p[1] # a) \/ p = pair
    BY <1>1 DEF Issued, OtherTokens
<1>3. Given(Issued(P, pair))
    BY <1>1, <1>2 DEF Given
<1> QED BY <1>3 DEF pair

\* The row a write leaves.
LEMMA RowAfterFacts ==
    ASSUME NEW task
    PROVE  /\ RowAfter(task).seq = task.seq
           /\ RowAfter(task).row => task.op = "save"
           /\ task.op = "save" => RowAfter(task).row
<1>1. RowAfter(task).seq = task.seq
    BY DEF RowAfter
<1>2. RowAfter(task).row = (task.op = "save")
    BY Zenon DEF RowAfter
<1> QED BY <1>1, <1>2, Zenon

\* A step that keeps what s has keeps what is said of it.
LEMMA KeepsTalk ==
    ASSUME Base, WritesInv, ClientInv, NEW s \in Scopes, Talk(s), Forgets(s),
           [Next]_writerVars, config' = config, Keeps(s)
    PROVE  Talk(s)' /\ Forgets(s)'
<1>1. /\ issued'[s] = issued[s] /\ requested'[s] = requested[s] /\ snapshots'[s] = snapshots[s]
      /\ session'[s] = session[s] \/ (session[s] = "over" /\ session'[s] = "open")
      /\ \A v : Holds(cache', s, v) <=> Holds(cache, s, v)
      /\ \A v : Holds(cache, s, v) => Extends(heap'[v], heap[v], corrections'[s])
      /\ corrections[s] \subseteq corrections'[s]
      /\ HasStore' <=> HasStore
    BY DEF Keeps, Still, HasStore
<1>2. /\ TypeOK /\ FailedKnown /\ OrderInv
    BY DEF Base, WrittenInv, WritesInv
<1>3. ASSUME faults'[s] = {}
      PROVE  /\ faults[s] = {}
             /\ \A task : task \in Pending(s)' => task \in Pending(s)
             /\ store'[s] = store[s] \/ \E task \in Pending(s) : store'[s] = RowAfter(task)
    <2>1. faults[s] = {} /\ WritesMove(s)
        BY <1>2, <1>3, WritesStep
    <2>2. ASSUME NEW op, Enqueue(op, s)
          PROVE  FALSE
        BY <1>1, <1>2, <2>2 DEF Enqueue, TypeOK
    <2> QED BY <2>1, <2>2 DEF WritesMove
<1>4. ASSUME Intact(s)'
      PROVE  Talk(s)'
    <2>1. Intact(s) /\ faults'[s] = {}
        BY <1>1, <1>3, <1>4 DEF Intact
    <2>2. /\ HasStore => Resolves(Latest(s), issued[s], corrections[s])
          /\ \A v : Holds(cache, s, v) => Resolves(heap[v], issued[s], corrections[s])
          /\ Absent(s) => \/ issued[s] = {}
                          \/ HasStore /\ Pending(s) = {}
                          \/ \E t \in Threads : Serves(t, s) /\ req[t].pc = "delete"
          /\ \A t \in Threads : Serves(t, s) => Fits(t)
        BY <2>1 DEF Talk
    <2>3. HasStore => Resolves(Latest(s)', issued[s], corrections'[s])
        <3>1. Latest(s)' = Latest(s)
            BY <1>1 DEF Latest
        <3> QED BY <1>1, <2>2, <3>1, MoreCorrections
    <2>4. \A v : Holds(cache', s, v) => Resolves(heap'[v], issued[s], corrections'[s])
        BY <1>1, <2>2, ExtendsResolves
    <2>5. Absent(s)' => \/ issued'[s] = {}
                        \/ HasStore' /\ Pending(s)' = {}
                        \/ \E t \in Threads : Serves(t, s)' /\ req'[t].pc = "delete"
        <3> SUFFICES ASSUME Absent(s)', issued[s] # {}, ~(HasStore' /\ Pending(s)' = {})
                     PROVE  \E t \in Threads : Serves(t, s)' /\ req'[t].pc = "delete"
            BY <1>1
        <3>1. Absent(s)
            BY <1>1 DEF Absent
        <3>2. ~(HasStore /\ Pending(s) = {})
            BY <1>1, <1>3, <2>1
        <3>3. PICK t \in Threads : Serves(t, s) /\ req[t].pc = "delete"
            BY <2>2, <3>1, <3>2
        <3>4. req'[t] = req[t]
            BY <3>3 DEF Keeps
        <3> QED BY <3>3, <3>4 DEF Serves
    <2>6. ASSUME NEW t \in Threads, Serves(t, s)'
          PROVE  Fits(t)'
        <3>1. CASE req'[t] = req[t] /\ (Serves(t, s) => Untouched(s))
            <4>1. Serves(t, s) /\ Fits(t) /\ RequestInv(t) /\ req[t].scope = s
                BY <2>2, <2>6, <3>1 DEF Serves, ClientInv
            <4>2. req[t].pc \in {"snapshot", "enqueue"} => heap'[req[t].vault] = heap[req[t].vault]
                <5>1. req[t].pc \in {"snapshot", "enqueue"} => req[t].vault # NoVault
                    BY <4>1 DEF Base, ShapeInv, StagesInv, StageOK, Serves, VaultIds, NoVault
                <5> QED BY <3>1, <4>1, <5>1 DEF RequestInv, Untouched
            <4> DEFINE pair == <<req[t].token, req[t].arg>>
            <4>3. /\ req[t].pc \in {"snapshot", "enqueue"} =>
                        Resolves(heap'[req[t].vault], {pair}, {})
                  /\ req[t].pc = "enqueue" => Resolves(req[t].content, {pair}, {})
                BY <4>1, <4>2 DEF Fits
            <4>4. req[t].pc \in {"enqueue", "insert"} =>
                      Resolves(req[t].content, issued[s], corrections'[s])
                <5>1. req[t].pc \in {"enqueue", "insert"} =>
                          Resolves(req[t].content, issued[s], corrections[s])
                    BY <4>1 DEF Fits
                <5> QED BY <1>1, <5>1, MoreCorrections
            <4> HIDE DEF pair
            <4> QED BY <1>1, <3>1, <4>1, <4>3, <4>4 DEF Fits, pair
        <3>2. CASE ~(req'[t] = req[t] /\ (Serves(t, s) => Untouched(s)))
            BY <1>4, <2>6, <3>2 DEF Keeps
        <3> QED BY <3>1, <3>2
    <2> QED BY <1>1, <2>2, <2>3, <2>4, <2>5, <2>6 DEF Talk
<1>5. ASSUME faults'[s] = {}
      PROVE  RowsMatch(s)' /\ (HasStore' /\ Over(s)' => LastIsDelete(s)')
    <2>1. /\ faults[s] = {} /\ RowsMatch(s) /\ (HasStore /\ Over(s) => LastIsDelete(s))
          /\ \A task : task \in Pending(s)' => task \in Pending(s)
          /\ store'[s] = store[s] \/ \E task \in Pending(s) : store'[s] = RowAfter(task)
        BY <1>3, <1>5 DEF Forgets
    <2>2. \A task \in Pending(s) : task.op \in Ops
        BY <1>2, <2>1, PendingNumbers, TaskFacts
    <2>3. RowsMatch(s)'
        <3>1. ~store'[s].row => store'[s].seq = 0 \/ snapshots[s][store'[s].seq] = NoContent
            <4>1. ASSUME NEW task \in Pending(s), store'[s] = RowAfter(task), ~store'[s].row
                  PROVE  snapshots[s][store'[s].seq] = NoContent
                <5>1. (task.op = "save" => store'[s].row) /\ store'[s].seq = task.seq
                    BY <4>1, RowAfterFacts
                <5>2. task.op = "delete"
                    BY <2>2, <4>1, <5>1 DEF Ops
                <5> QED BY <2>1, <5>1, <5>2 DEF RowsMatch
            <4> QED BY <2>1, <4>1 DEF RowsMatch
        <3>2. \A task \in Pending(s)' : task.op = "delete" => snapshots[s][task.seq] = NoContent
            BY <2>1 DEF RowsMatch
        <3> QED BY <1>1, <3>1, <3>2 DEF RowsMatch
    <2>4. Over(s)' => Over(s)
        <3>1. ASSUME NEW t \in Threads, Serves(t, s)', req'[t].pc = "destroy"
              PROVE  Over(s)
            <4>1. req'[t] = req[t]
                BY <3>1 DEF Keeps
            <4> QED BY <3>1, <4>1 DEF Over, Serves
        <3> QED BY <1>1, <3>1 DEF Over
    <2>5. ASSUME LastIsDelete(s)
          PROVE  LastIsDelete(s)'
        <3>1. store'[s].seq = requested[s] => ~store'[s].row
            <4>1. ASSUME NEW task \in Pending(s), store'[s] = RowAfter(task), store'[s].seq = requested[s]
                  PROVE  ~store'[s].row
                <5>1. (store'[s].row => task.op = "save") /\ store'[s].seq = task.seq
                    BY <4>1, RowAfterFacts
                <5>2. task.op = "delete"
                    BY <2>5, <4>1, <5>1 DEF LastIsDelete
                <5> QED BY <5>1, <5>2
            <4> QED BY <2>1, <2>5, <4>1 DEF LastIsDelete
        <3>2. \A task \in Pending(s)' : task.seq = requested[s] => task.op = "delete"
            BY <2>1, <2>5 DEF LastIsDelete
        <3> QED BY <1>1, <3>1, <3>2 DEF LastIsDelete
    <2> QED BY <1>1, <2>1, <2>3, <2>4, <2>5
<1> QED BY <1>4, <1>5 DEF Talk, Forgets

--------------------------------------------------------------------------------
(* What the steps of a request need to know.                                  *)

Together == Base /\ WritesInv /\ TalkInv

\* What is known of the request a thread serves.
LEMMA Served ==
    ASSUME Together, NEW t \in Threads, req[t].pc \in Stages
    PROVE  /\ req[t] # NoRequest /\ req[t].scope \in Scopes /\ StageOK(req[t]) /\ RequestInv(t)
           /\ ReqShape /\ IsCache(cache) /\ Len(cache) <= MaxActiveScopes
           /\ \A u \in Threads : Serves(u, req[t].scope) => u = t
           /\ Serves(t, req[t].scope)
           /\ Talk(req[t].scope) /\ Forgets(req[t].scope)
<1>1. ShapeInv /\ ClientInv /\ \A s \in Scopes : Talk(s) /\ Forgets(s)
    BY DEF Together, Base, TalkInv
<1>2. req[t] # NoRequest /\ req[t].scope \in Scopes /\ StageOK(req[t])
    BY <1>1, Serving
<1> QED BY <1>1, <1>2 DEF ShapeInv, CacheInv, ClientInv, Serves

\* The fields of a request that goes on.
LEMMA GoesOnFields ==
    ASSUME ReqShape, NEW t \in Threads, req[t] # NoRequest,
           NEW pc, NEW f, Continue(t, pc, f), DOMAIN f \cap Identity = {}
    PROVE  /\ \A u \in Threads \ {t} : req'[u] = req[u]
           /\ req'[t] # NoRequest /\ req'[t].pc = pc
           /\ req'[t].kind = req[t].kind /\ req'[t].scope = req[t].scope
           /\ req'[t].arg = req[t].arg /\ req'[t].closed = req[t].closed
           /\ req'[t].vault = IF "vault" \in DOMAIN f THEN f["vault"] ELSE req[t].vault
           /\ req'[t].victim = IF "victim" \in DOMAIN f THEN f["victim"] ELSE req[t].victim
           /\ req'[t].content = IF "content" \in DOMAIN f THEN f["content"] ELSE req[t].content
           /\ req'[t].token = IF "token" \in DOMAIN f THEN f["token"] ELSE req[t].token
<1>1. /\ \A u \in Threads \ {t} : req'[u] = req[u]
      /\ DOMAIN req'[t] = Identity \cup Findings
      /\ req'[t].pc = pc
      /\ req'[t].kind = req[t].kind /\ req'[t].scope = req[t].scope
      /\ req'[t].arg = req[t].arg /\ req'[t].closed = req[t].closed
      /\ \A x \in Findings : req'[t][x] = IF x \in DOMAIN f THEN f[x] ELSE req[t][x]
    BY ContinueFacts
<1>2. "vault" \in Findings /\ "victim" \in Findings /\ "content" \in Findings /\ "token" \in Findings
    BY DEF Findings
<1>3. req'[t] # NoRequest
    BY <1>1, <1>2 DEF NoRequest
<1> QED BY <1>1, <1>2, <1>3

\* Those of a request whose stage alone changes.
LEMMA GotoFields ==
    ASSUME ReqShape, NEW t \in Threads, req[t] # NoRequest, NEW pc, Goto(t, pc)
    PROVE  /\ \A u \in Threads \ {t} : req'[u] = req[u]
           /\ req'[t] # NoRequest /\ req'[t].pc = pc
           /\ req'[t].kind = req[t].kind /\ req'[t].scope = req[t].scope
           /\ req'[t].arg = req[t].arg /\ req'[t].closed = req[t].closed
           /\ req'[t].vault = req[t].vault /\ req'[t].victim = req[t].victim
           /\ req'[t].content = req[t].content /\ req'[t].token = req[t].token
<1>1. DOMAIN [none |-> 0] \cap Identity = {} /\ DOMAIN [none |-> 0] \cap Findings = {}
    BY DEF Identity, Findings
<1> QED BY <1>1, GoesOnFields DEF Goto, Findings

\* A request that is answered leaves its thread without one.
LEMMA EndsFields ==
    ASSUME ReqShape, NEW t \in Threads, \/ \E o, c : Answer(t, o, c)
                                        \/ Fail(t)
    PROVE  req'[t] = NoRequest /\ \A u \in Threads \ {t} : req'[u] = req[u]
BY DEF Answer, Fail, ReqShape

\* A vault the cache holds is not collected.
LEMMA HeapOfHeld ==
    ASSUME NEW h, NEW gone, HeapBecomes(h, gone), IsCache(cache'), NEW s, NEW v,
           Holds(cache', s, v)
    PROVE  heap'[v] = h[v]
<1>1. v \in VaultIds
    BY HoldsOne
<1>2. v # NoVault
    BY <1>1 DEF VaultIds, NoVault
<1>3. v \in Held(cache', req')
    BY <1>2, HeldFacts DEF Holds
<1> QED BY <1>1, <1>3 DEF HeapBecomes

\* A value registered is found under its token, and what was there stays or is corrected.
LEMMA RegisteredResolves ==
    ASSUME NEW s, NEW c \in Ledgers(s), NEW v, NEW latest, NEW C
    PROVE  /\ C \subseteq Corrected(C, c, v, latest)
           /\ Extends(Registered(c, v, latest), c, Corrected(C, c, v, latest))
           /\ Resolves(Registered(c, v, latest), {<<TokenOf(c, v, latest), v>>}, {})
<1> DEFINE d == Registered(c, v, latest)
           i == TokenOf(c, v, latest)
           D == Corrected(C, c, v, latest)
           E == ValuesOf(s) \cup {v}
<1>1. c \in Seq(E) /\ v \in E
    BY DEF Ledgers
<1>2. \/ d = c /\ i \in DOMAIN c /\ c[i] = v
      \/ d = [c EXCEPT ![Len(c)] = v] /\ i = Len(c) /\ Len(c) \in DOMAIN c /\ <<Len(c), v>> \in D
      \/ d = Append(c, v) /\ i = Len(c) + 1
    <2> HIDE DEF E
    <2>1. TakesOver(c, v, latest) => <<Len(c), v>> \in D
        BY DEF Corrected
    <2> HIDE DEF D
    <2> QED BY <1>1, <2>1, RegisteredCases
<1>3. C \subseteq D
    BY DEF Corrected
<1> HIDE DEF d, i, D, E
<1>4. Extends(d, c, D) /\ i \in DOMAIN d /\ d[i] = v
    <2>1. CASE d = c /\ i \in DOMAIN c /\ c[i] = v
        BY <2>1 DEF Extends
    <2>2. CASE d = [c EXCEPT ![Len(c)] = v] /\ i = Len(c) /\ Len(c) \in DOMAIN c /\ <<Len(c), v>> \in D
        <3>1. /\ DOMAIN d = DOMAIN c /\ d[Len(c)] = v
              /\ \A k \in DOMAIN c : k # Len(c) => d[k] = c[k]
            BY <2>2
        <3> QED BY <2>2, <3>1 DEF Extends
    <2>3. CASE d = Append(c, v) /\ i = Len(c) + 1
        <3>1. /\ DOMAIN d = 1 .. Len(c) + 1 /\ DOMAIN c = 1 .. Len(c) /\ Len(c) \in Nat
              /\ \A k \in 1 .. Len(c) : d[k] = c[k]
              /\ d[Len(c) + 1] = v
            BY <1>1, <2>3
        <3>2. /\ \A k \in DOMAIN c : k \in DOMAIN d /\ d[k] = c[k]
              /\ Len(c) + 1 \in DOMAIN d
            BY <3>1
        <3> QED BY <2>3, <3>1, <3>2 DEF Extends
    <2> QED BY <1>2, <2>1, <2>2, <2>3
<1>5. Resolves(d, {<<i, v>>}, {})
    <2> DEFINE pair == <<i, v>>
    <2>1. pair[1] = i /\ pair[2] = v
        OBVIOUS
    <2> HIDE DEF pair
    <2>2. Resolves(d, {pair}, {})
        BY <1>4, <2>1 DEF Resolves
    <2> QED BY <2>2 DEF pair
<1> QED BY <1>3, <1>4, <1>5 DEF d, i, D

--------------------------------------------------------------------------------
(* The steps that leave a scope what it has.                                  *)

\* The cache unchanged, a scope keeps what it has if its vault gains values at most.
LEMMA HeapStill ==
    ASSUME Base, IsCache(cache'), cache' = cache, NEW h, NEW gone, HeapBecomes(h, gone),
           NEW s, \A v : Holds(cache, s, v) => Extends(h[v], heap[v], corrections'[s]),
           issued'[s] = issued[s], corrections[s] \subseteq corrections'[s],
           session'[s] = session[s] \/ (session[s] = "over" /\ session'[s] = "open"),
           requested'[s] = requested[s], snapshots'[s] = snapshots[s]
    PROVE  /\ Still(s)
           /\ (\A v : Holds(cache, s, v) => h[v] = heap[v]) => Untouched(s)
<1>1. \A v : Holds(cache', s, v) <=> Holds(cache, s, v)
    BY DEF Holds
<1>2. \A v : Holds(cache, s, v) => heap'[v] = h[v]
    BY <1>1, HeapOfHeld
<1> QED BY <1>1, <1>2 DEF Still, Untouched

\* The steps before a vault is found, and the snapshot.
LEMMA QuietStill ==
    ASSUME Together, Base', NEW t \in Threads, NEW s \in Scopes,
           \/ CheckResident(t) \/ Lookup(t)
           \/ GateEnsure(t) \/ GateCheck(t) \/ GateRecovered(t) \/ GateRecheck(t)
           \/ GateDecide(t) \/ Load(t) \/ LoadFails(t) \/ TakeSnapshot(t)
    PROVE  Still(s) /\ Untouched(s)
<1>1. \A c, C : Extends(c, c, C)
    BY DEF Extends
<1>2. CASE CheckResident(t) \/ Lookup(t)
    <2>1. /\ PruneDeletes /\ HeapBecomes(PrunedHeap, StaleVaults)
          /\ cache' = Fresh \/ (Resident(req[t].scope) /\ cache' =
                Append(Without(Fresh, req[t].scope), Entry(req[t].scope, VaultOf(req[t].scope))))
          /\ issued' = issued /\ corrections' = corrections /\ session' = session
        BY <1>2 DEF CheckResident, Lookup
    <2>2. /\ IsCache(cache) /\ IsCache(cache') /\ IsCache(Fresh)
          /\ \A v : Holds(Fresh, s, v) <=> Holds(cache, s, v)
        BY NothingStale DEF Together, Base, ShapeInv, CacheInv, WritesInv
    <2>3. \A v : Holds(cache', s, v) <=> Holds(cache, s, v)
        <3>1. CASE cache' = Fresh
            BY <2>2, <3>1 DEF Holds
        <3>2. CASE /\ Resident(req[t].scope)
                   /\ cache' = Append(Without(Fresh, req[t].scope),
                                      Entry(req[t].scope, VaultOf(req[t].scope)))
            <4>1. Holds(Fresh, req[t].scope, VaultOf(req[t].scope))
                <5>1. Holds(cache, req[t].scope, VaultOf(req[t].scope))
                    BY <2>2, <3>2, ResidentFacts
                <5> QED BY <5>1, <2>2, NothingStale DEF Together, WritesInv
            <4> DEFINE c == Append(Without(Fresh, req[t].scope),
                                   Entry(req[t].scope, VaultOf(req[t].scope)))
            <4>2. \A r, u : Holds(c, r, u) <=> Holds(Fresh, r, u)
                BY <2>2, <4>1, MoveLastFacts
            <4> HIDE DEF c
            <4>3. cache' = c
                BY <3>2 DEF c
            <4> QED BY <2>2, <4>2, <4>3
        <3> QED BY <2>1, <3>1, <3>2
    <2>4. /\ UNCHANGED writerVars /\ snapshots'[s] = snapshots[s]
          /\ \A v \in VaultIds : PrunedHeap[v] = heap[v]
        BY <2>1, NothingPruned DEF Together, WritesInv
    <2>5. ASSUME NEW v, Holds(cache, s, v)
          PROVE  heap'[v] = heap[v]
        <3>1. v \in VaultIds
            BY <2>2, <2>5, HoldsOne
        <3>2. heap'[v] = PrunedHeap[v]
            BY <2>1, <2>2, <2>3, <2>5, HeapOfHeld
        <3> QED BY <2>4, <3>1, <3>2
    <2> QED BY <1>1, <2>1, <2>3, <2>4, <2>5 DEF Still, Untouched, writerVars
<1>3. CASE \/ GateEnsure(t) \/ GateCheck(t) \/ GateRecovered(t) \/ GateRecheck(t)
           \/ GateDecide(t) \/ Load(t) \/ LoadFails(t) \/ TakeSnapshot(t)
    <2>1. /\ cache' = cache /\ heap' = heap /\ issued' = issued /\ corrections' = corrections /\ session' = session
          /\ requested' = requested /\ snapshots' = snapshots
        BY <1>3 DEF GateEnsure, GateCheck, GateRecovered, GateRecheck, GateDecide, Load,
                    LoadFails, TakeSnapshot, cacheVars, writerVars, EnsureWorkerRunning,
                    StartRecovery
    <2> QED BY <1>1, <2>1 DEF Still, Untouched, Holds
<1> QED BY <1>2, <1>3

\* The steps that work on a vault with the cache unchanged, for every scope but the one
\* a write, an end or a token is for.
LEMMA VaultStill ==
    ASSUME Together, Base', NEW t \in Threads, NEW s \in Scopes,
           \/ EngineFails(t) \/ Rehydrate(t)
           \/ Redact(t) /\ (HasStore \/ s # req[t].scope)
           \/ PersistSnapshot(t) /\ (~Accepts \/ s # req[t].scope)
           \/ QueueDelete(t) /\ s # req[t].scope
           \/ DestroyVault(t) /\ s # req[t].scope
    PROVE  Still(s) /\ (s # req[t].scope => Untouched(s))
<1> DEFINE r == req[t].scope
           h == [heap EXCEPT ![req[t].vault] = Registered(@, req[t].arg, req[t].latest)]
           D == Corrected(corrections[r], heap[req[t].vault], req[t].arg, req[t].latest)
<1>1. /\ Base /\ IsCache(cache') /\ IsCache(cache) /\ ReqShape
      /\ DOMAIN issued = Scopes /\ DOMAIN corrections = Scopes /\ DOMAIN session = Scopes /\ DOMAIN snapshots = Scopes
      /\ DOMAIN requested = Scopes /\ heap \in [VaultIds -> Contents]
      /\ \A v : Holds(cache, s, v) => v \in VaultIds
    BY HoldsOne DEF Together, Base, ShapeInv, CacheInv, TalkInv, Settings, ValuesInv, HeapValues,
                    StoredValues, AnsweredValues, WrittenInv, TypeOK
<1>2. req[t].pc \in Stages /\ cache' = cache
    <2>1. req[t].pc \in {"engine", "delete", "destroy", "enqueue"} /\ cache' = cache
        BY DEF EngineFails, Rehydrate, Redact, PersistSnapshot, QueueDelete, DestroyVault
    <2> QED BY <2>1 DEF Stages
<1>3. req[t] # NoRequest /\ r \in Scopes /\ StageOK(req[t]) /\ RequestInv(t)
    BY <1>2, Served
<1>4. \A c, C : Extends(c, c, C)
    BY DEF Extends
<1>5. /\ s # r => \A v : Holds(cache, s, v) => h[v] = heap[v]
      /\ \A v : Holds(cache, s, v) => Extends(h[v], heap[v], D)
      /\ corrections[r] \subseteq D
    <2>1. ASSUME NEW v, Holds(cache, s, v)
          PROVE  /\ s # r => h[v] = heap[v]
                 /\ Extends(h[v], heap[v], D)
        <3>1. v \in VaultIds /\ heap[v] \in Ledgers(s)
            BY <1>1, <2>1 DEF Base, ValuesInv, HeapValues, Owner
        <3>2. CASE v # req[t].vault
            BY <1>1, <1>4, <3>1, <3>2
        <3>3. CASE v = req[t].vault
            <4>1. v # NoVault
                BY <3>1 DEF VaultIds, NoVault
            <4>2. Holds(cache, r, v)
                BY <1>3, <3>3, <4>1 DEF RequestInv
            <4>3. s = r
                BY <1>1, <2>1, <4>2, HoldsOne
            <4>4. Extends(Registered(heap[v], req[t].arg, req[t].latest), heap[v], D)
                BY <3>1, <3>3, RegisteredResolves
            <4> QED BY <1>1, <3>1, <3>3, <4>3, <4>4
        <3> QED BY <3>2, <3>3
    <2>2. corrections[r] \subseteq D
        BY DEF Corrected
    <2> QED BY <2>1, <2>2
<1>6. CASE EngineFails(t) \/ Rehydrate(t)
    <2>1. /\ issued' = issued /\ session' = session /\ requested' = requested
          /\ snapshots' = snapshots
          /\ \/ HeapBecomes(heap, {}) /\ corrections' = corrections
             \/ HeapBecomes(h, {}) /\ corrections' = [corrections EXCEPT ![r] = D]
        BY <1>6 DEF EngineFails, Rehydrate, writerVars
    <2> HIDE DEF h, D
    <2>2. CASE HeapBecomes(heap, {}) /\ corrections' = corrections
        BY <1>1, <1>2, <1>4, <2>1, <2>2, HeapStill
    <2>3. CASE HeapBecomes(h, {}) /\ corrections' = [corrections EXCEPT ![r] = D]
        <3>1. corrections'[s] = IF s = r THEN D ELSE corrections[s]
            BY <1>1, <1>3, <2>3
        <3>2. /\ corrections[s] \subseteq corrections'[s]
              /\ \A v : Holds(cache, s, v) => Extends(h[v], heap[v], corrections'[s])
            BY <1>4, <1>5, <3>1
        <3> QED BY <1>1, <1>2, <1>5, <2>1, <2>3, <3>2, HeapStill
    <2> QED BY <2>1, <2>2, <2>3
<1>7. CASE Redact(t) /\ (HasStore \/ s # r)
    <2>1. /\ issued' = issued \/ (s # r /\ \E p : issued' = [issued EXCEPT ![r] = Issued(@, p)])
          /\ \/ corrections' = [corrections EXCEPT ![r] = D]
             \/ s # r /\ \E C : corrections' = [corrections EXCEPT ![r] = C]
          /\ session' = [session EXCEPT ![r] = IF @ = "over" THEN "open" ELSE @]
          /\ requested' = requested /\ snapshots' = snapshots
          /\ HeapBecomes(h, {})
        BY <1>7 DEF Redact, writerVars
    <2> HIDE DEF h, D
    <2>2. issued'[s] = issued[s]
        BY <1>1, <2>1
    <2>3. session'[s] = session[s] \/ (session[s] = "over" /\ session'[s] = "open")
        BY <1>1, <2>1
    <2>4. IF s = r THEN corrections'[s] = D ELSE corrections'[s] = corrections[s]
        BY <1>1, <1>3, <2>1
    <2>5. /\ corrections[s] \subseteq corrections'[s]
          /\ \A v : Holds(cache, s, v) => Extends(h[v], heap[v], corrections'[s])
        BY <1>4, <1>5, <2>4
    <2> QED BY <1>1, <1>2, <1>5, <2>1, <2>2, <2>3, <2>5, HeapStill
<1>8. CASE PersistSnapshot(t) /\ (~Accepts \/ s # r)
    <2>1. /\ session' = session /\ HeapBecomes(heap, {})
          /\ issued' = issued \/ (s # r /\ \E p : issued' = [issued EXCEPT ![r] = Issued(@, p)])
          /\ \/ corrections' = corrections
             \/ s # r /\ \E C : corrections' = [corrections EXCEPT ![r] = C]
          /\ \/ UNCHANGED writerVars /\ snapshots' = snapshots
             \/ s # r /\ EnqueueTask("save", r, req[t].content)
        <3>1. ~Accepts => s # r \/ ~(Accepts \/ ~req[t].closed)
            BY <1>3 DEF RequestInv
        <3> QED BY <1>8, <3>1 DEF PersistSnapshot
    <2>2. issued'[s] = issued[s] /\ corrections'[s] = corrections[s]
        BY <1>1, <2>1
    <2>3. requested'[s] = requested[s] /\ snapshots'[s] = snapshots[s]
        BY <1>1, <2>1 DEF EnqueueTask, Enqueue, writerVars
    <2> QED BY <1>1, <1>2, <1>4, <2>1, <2>2, <2>3, HeapStill
<1>9. CASE QueueDelete(t) /\ s # r
    <2>1. /\ HeapBecomes(heap, {})
          /\ UNCHANGED <<issued, corrections>> \/ Forget({r}) \/ Forget({})
          /\ session' = session \/ session' = [session EXCEPT ![r] = "broken"]
          /\ \/ UNCHANGED writerVars /\ snapshots' = snapshots
             \/ EnqueueTask("delete", req[t].victim.scope, NoContent)
        BY <1>9 DEF QueueDelete
    <2>2. req[t].victim.scope = r
        BY <1>3, <1>9 DEF QueueDelete, RequestInv
    <2>3. requested'[s] = requested[s] /\ snapshots'[s] = snapshots[s]
        BY <1>1, <1>9, <2>1, <2>2 DEF EnqueueTask, Enqueue, writerVars
    <2>4. issued'[s] = issued[s] /\ corrections'[s] = corrections[s] /\ session'[s] = session[s]
        BY <1>1, <1>9, <2>1 DEF Forget
    <2> QED BY <1>1, <1>2, <1>4, <2>1, <2>3, <2>4, HeapStill
<1>10. CASE DestroyVault(t) /\ s # r
    <2> DEFINE w == req[t].victim.vault
    <2>1. /\ HeapBecomes([heap EXCEPT ![w] = NoContent], {})
          /\ UNCHANGED <<issued, corrections, snapshots, requested>>
          /\ session' = session \/ session' = [session EXCEPT ![r] = "over"]
        BY <1>10 DEF DestroyVault, writerVars
    <2>2. w \in popped
        BY <1>3, <1>10 DEF DestroyVault, RequestInv
    <2>3. \A v : Holds(cache, s, v) => v # w
        BY <2>2 DEF Together, Base, OwnershipInv
    <2>4. \A v : Holds(cache, s, v) => [heap EXCEPT ![w] = NoContent][v] = heap[v]
        BY <1>1, <2>3
    <2>5. session'[s] = session[s]
        BY <1>1, <1>10, <2>1
    <2> QED BY <1>1, <1>2, <1>4, <2>1, <2>4, <2>5, HeapStill
<1> QED BY <1>6, <1>7, <1>8, <1>9, <1>10

\* With room for every scope, nothing is evicted.
LEMMA NothingEvicted ==
    ASSUME Undisturbed, IsCache(cache), NEW s \in Scopes, NEW v
    PROVE  ~OverCapacity(Filled(s, v))
<1> DEFINE d == Without(cache, s)
           n == Len(d)
           at == [i \in 1 .. n |-> d[i].scope]
<1>1. /\ IsCache(d) /\ \A r, u : Holds(d, r, u) => r # s
    BY WithoutFacts
<1>2. d \in Seq(Entries) /\ n \in Nat /\ DOMAIN d = 1 .. n
    BY <1>1 DEF IsCache
<1>3. \A i \in 1 .. n : d[i].scope \in Scopes \ {s}
    <2> SUFFICES ASSUME NEW i \in 1 .. n PROVE d[i].scope \in Scopes \ {s}
        OBVIOUS
    <2>1. Holds(d, d[i].scope, d[i].vault)
        BY <1>2 DEF Holds
    <2> QED BY <1>1, <2>1, HoldsOne
<1>4. \A i, j \in 1 .. n : d[i].scope = d[j].scope => i = j
    BY <1>1, <1>2 DEF IsCache, Distinct
<1>5. /\ IsFiniteSet(Scopes \ {s}) /\ Cardinality(Scopes \ {s}) = Cardinality(Scopes) - 1
      /\ Cardinality(Scopes) \in Nat /\ Cardinality(Scopes) <= MaxActiveScopes
      /\ MaxActiveScopes \in Nat
    BY FS_RemoveElement, FS_CardinalityType, MiddlewareAssumption DEF Undisturbed
<1>6. Len(Filled(s, v)) = n + 1
    <2> DEFINE E == Entries \cup {Entry(s, v)}
    <2>1. d \in Seq(E) /\ Entry(s, v) \in E
        BY <1>2
    <2> HIDE DEF E, d
    <2>2. Len(Append(d, Entry(s, v))) = Len(d) + 1
        BY <2>1
    <2> QED BY <2>2 DEF Filled, d
<1>7. n <= Cardinality(Scopes \ {s})
    <2>1. IsFiniteSet(1 .. n) /\ Cardinality(1 .. n) = n
        <3> HIDE DEF n
        <3>1. Cardinality(1 .. n) = IF 1 > n THEN 0 ELSE n - 1 + 1
            BY <1>2, FS_Interval
        <3>2. IsFiniteSet(1 .. n)
            BY <1>2, FS_Interval
        <3> QED BY <1>2, <3>1, <3>2
    <2>2. at \in [1 .. n -> Scopes \ {s}]
        BY <1>3
    <2>3. \A i, j \in 1 .. n : at[i] = at[j] => i = j
        BY <1>4
    <2> HIDE DEF at, n, d
    <2>4. at \in Injection(1 .. n, Scopes \ {s})
        BY <2>2, <2>3 DEF Injection, IsInjective
    <2> QED BY <1>5, <2>1, <2>4, FS_Injection
<1> HIDE DEF n
<1>8. Len(Filled(s, v)) <= MaxActiveScopes
    BY <1>2, <1>5, <1>6, <1>7
<1> QED BY <1>2, <1>5, <1>6, <1>8 DEF OverCapacity

\* An installation then adds a vault of its own to a cache that has none for the scope.
LEMMA InsertFacts ==
    ASSUME Undisturbed, Together, NEW t \in Threads, Insert(t)
    PROVE  \E v \in VaultIds : \E gone :
              /\ \A r, u : Holds(cache', r, u) <=>
                              Holds(cache, r, u) \/ (r = req[t].scope /\ u = v)
              /\ \A r : ~Holds(cache, r, v)
              /\ Continue(t, "engine", [vault |-> v, victim |-> NoVictim])
              /\ HeapBecomes([heap EXCEPT ![v] = req[t].content], gone)
              /\ UNCHANGED <<writerVars, boundVars, snapshots, issued, corrections, session>>
<1> DEFINE s == req[t].scope
           found == FoundMeanwhile(t)
           replaced == IF req[t].kind = "rehydrate" THEN {e.vault : e \in EntriesOf(s)} ELSE {}
<1>1. PICK v \in IF found THEN {VaultOf(s)} ELSE NewVault :
          LET filled == Append(Without(cache, s), Entry(s, v))
              full == OverCapacity(filled)
              victim == IF full THEN Victim(Head(filled)) ELSE NoVictim
          IN  /\ cache' = IF full THEN Tail(filled) ELSE filled
              /\ Continue(t, IF full THEN "delete" ELSE "engine", [vault |-> v, victim |-> victim])
              /\ HeapBecomes(IF found THEN heap ELSE [heap EXCEPT ![v] = req[t].content],
                             replaced \cup {victim.vault})
    BY DEF Insert
<1>2. /\ req[t].pc = "insert" /\ UNCHANGED <<writerVars, boundVars, snapshots, issued, corrections, session>>
    BY DEF Insert
<1>3. s \in Scopes /\ RequestInv(t) /\ IsCache(cache) /\ Len(cache) <= MaxActiveScopes
    BY <1>2, Served DEF Stages
<1>4. Absent(s)
    BY <1>2, <1>3 DEF RequestInv
<1>5. ~found
    BY <1>3, <1>4, ResidentFacts DEF FoundMeanwhile, Absent
<1>6. ~OverCapacity(Filled(s, v))
    BY <1>3, NothingEvicted
<1>7. v \in NewVault
    BY <1>1, <1>5
<1>8. /\ cache' = Filled(s, v)
      /\ Continue(t, "engine", [vault |-> v, victim |-> NoVictim])
      /\ HeapBecomes([heap EXCEPT ![v] = req[t].content], replaced \cup {NoVictim.vault})
    BY <1>1, <1>5, <1>6 DEF Filled
<1>9. /\ Installed(s, v) = Filled(s, v) /\ Evicted(s, v) = NoVictim
    BY <1>6 DEF Installed, Evicted
<1>10. /\ v \in VaultIds /\ v \notin Held(cache, req)
       /\ \A r, u : Holds(Installed(s, v), r, u) <=>
             \/ Holds(cache, r, u) /\ r # s /\ u # Evicted(s, v).vault
             \/ r = s /\ u = v
    BY <1>3, <1>7, InstallFacts
<1>11. \A r, u : Holds(cache, r, u) => r # s /\ u # NoVictim.vault
    <2> SUFFICES ASSUME NEW r, NEW u, Holds(cache, r, u)
                 PROVE  r # s /\ u # NoVictim.vault
        OBVIOUS
    <2>1. u \in VaultIds
        BY <1>3, HoldsOne
    <2>2. r # s
        BY <1>4 DEF Absent
    <2> QED BY <2>1, <2>2 DEF VaultIds, NoVictim, NoVault
<1>12. \A r : ~Holds(cache, r, v)
    BY <1>3, <1>10, CacheHolds
<1>13. \A r, u : Holds(cache', r, u) <=> Holds(cache, r, u) \/ (r = s /\ u = v)
    BY <1>8, <1>9, <1>10, <1>11
<1> QED BY <1>2, <1>8, <1>10, <1>12, <1>13

\* The steps that put a vault into the cache, or take one out, concern their scope only.
LEMMA CacheStill ==
    ASSUME Undisturbed, Together, Base', NEW t \in Threads, NEW s \in Scopes,
           \/ Insert(t) /\ s # req[t].scope
           \/ PopSession(t) /\ (s # req[t].scope \/ ~Resident(s))
    PROVE  Still(s) /\ Untouched(s)
<1>1. IsCache(cache') /\ IsCache(cache) /\ \A c, C : Extends(c, c, C)
    BY DEF Together, Base, ShapeInv, CacheInv, Extends
<1>2. ASSUME NEW h, NEW gone, HeapBecomes(h, gone),
             \A v : Holds(cache', s, v) <=> Holds(cache, s, v),
             \A v : Holds(cache, s, v) => h[v] = heap[v],
             issued' = issued, corrections' = corrections, session' = session, requested' = requested, snapshots' = snapshots
      PROVE  Still(s) /\ Untouched(s)
    <2>1. \A v : Holds(cache, s, v) => heap'[v] = heap[v]
        BY <1>1, <1>2, HeapOfHeld
    <2> QED BY <1>1, <1>2, <2>1 DEF Still, Untouched
<1>3. CASE Insert(t) /\ s # req[t].scope
    <2>1. PICK v \in VaultIds : \E gone :
              /\ \A r, u : Holds(cache', r, u) <=>
                              Holds(cache, r, u) \/ (r = req[t].scope /\ u = v)
              /\ \A r : ~Holds(cache, r, v)
              /\ Continue(t, "engine", [vault |-> v, victim |-> NoVictim])
              /\ HeapBecomes([heap EXCEPT ![v] = req[t].content], gone)
              /\ UNCHANGED <<writerVars, boundVars, snapshots, issued, corrections, session>>
        BY <1>3, InsertFacts
    <2> DEFINE h == [heap EXCEPT ![v] = req[t].content]
    <2>2. \A u : Holds(cache, s, u) => h[u] = heap[u]
        <3>1. \A u : Holds(cache, s, u) => u # v /\ u \in VaultIds
            BY <1>1, <2>1, HoldsOne
        <3>2. DOMAIN heap = VaultIds
            BY DEF Together, Base, ValuesInv, HeapValues
        <3> QED BY <3>1, <3>2
    <2>3. \E gone : HeapBecomes(h, gone)
        BY <2>1
    <2>4. \A u : Holds(cache', s, u) <=> Holds(cache, s, u)
        BY <1>3, <2>1
    <2>5. issued' = issued /\ corrections' = corrections /\ session' = session /\ requested' = requested /\ snapshots' = snapshots
        BY <2>1 DEF writerVars
    <2> HIDE DEF h
    <2> QED BY <1>2, <2>2, <2>3, <2>4, <2>5
<1>4. CASE PopSession(t) /\ (s # req[t].scope \/ ~Resident(s))
    <2>1. /\ cache' = Without(cache, req[t].scope) /\ \E gone : HeapBecomes(heap, gone)
          /\ issued' = issued /\ corrections' = corrections /\ session' = session /\ requested' = requested
          /\ snapshots' = snapshots
        BY <1>4 DEF PopSession, writerVars
    <2>2. \A v : Holds(cache', s, v) <=> Holds(cache, s, v)
        <3>1. \A v : Holds(cache', s, v) <=> Holds(cache, s, v) /\ s # req[t].scope
            BY <1>1, <2>1, WithoutFacts
        <3>2. ~Resident(s) => \A v : ~Holds(cache, s, v)
            BY <1>1, ResidentFacts
        <3> QED BY <1>4, <3>1, <3>2
    <2> QED BY <1>2, <2>1, <2>2
<1> QED BY <1>3, <1>4

\* So no request changes what another scope has.
LEMMA OtherStill ==
    ASSUME Undisturbed, Together, Base', NEW t \in Threads, Serve(t),
           NEW s \in Scopes, s # req[t].scope
    PROVE  Keeps(s)
<1>1. Still(s) /\ Untouched(s)
    BY QuietStill, VaultStill, CacheStill DEF Serve
<1>2. ASSUME NEW u \in Threads, req'[u] # req[u]
      PROVE  ~Serves(u, s) /\ ~Serves(u, s)'
    <2>1. GoesOn(t) \/ Ends(t)
        BY ServeStep DEF Together, Base, ShapeInv
    <2>2. \A w \in Threads \ {t} : req'[w] = req[w]
        BY <2>1 DEF GoesOn, Ends, Together, Base, ShapeInv, ReqShape
    <2>3. u = t /\ (req'[t] = NoRequest \/ req'[t].scope = req[t].scope)
        BY <1>2, <2>1, <2>2 DEF GoesOn, Ends, Together, Base, ShapeInv, ReqShape
    <2> QED BY <2>3 DEF Serves
<1> QED BY <1>1, <1>2 DEF Keeps

--------------------------------------------------------------------------------
(* The steps of a request, for the scope it is for.                           *)

\* With nothing under way, the row of a scope is the last thing written.
LEMMA RowIsLatest ==
    ASSUME Base, WritesInv, NEW s \in Scopes, faults[s] = {}, Pending(s) = {}, RowsMatch(s)
    PROVE  Row(s) = Latest(s)
<1>1. /\ store[s].seq = requested[s] /\ requested[s] \in Nat
      /\ store[s].row => store[s].seq \in 1 .. requested[s]
    BY Drained DEF Base, WrittenInv, WritesInv, SeqsInv, TypeOK
<1>2. CASE store[s].row
    BY <1>1, <1>2 DEF Row, Latest
<1>3. CASE ~store[s].row
    BY <1>1, <1>3 DEF Row, Latest, RowsMatch
<1> QED BY <1>2, <1>3

\* A step keeps the scope of its request, if it leaves what the scope has and brings
\* the request to no stage it is not ready for.
LEMMA OwnKept ==
    ASSUME Together, NEW t \in Threads, req[t].pc \in Stages, req[t].pc # "delete",
           NEW s \in Scopes, s = req[t].scope, Still(s),
           \A u \in Threads \ {t} : req'[u] = req[u],
           \/ req'[t] = NoRequest
           \/ req'[t].pc # "destroy" /\ (Intact(s)' => Fits(t)')
    PROVE  Keeps(s)
<1>1. ASSUME req'[t] = NoRequest
      PROVE  ~Serves(t, s)'
    BY <1>1 DEF Serves
<1>0. \A u \in Threads : Serves(u, s) => u = t
    BY Served
<1>2. \A u \in Threads :
          \/ req'[u] = req[u] /\ (Serves(u, s) => Untouched(s))
          \/ /\ Serves(u, s) => req[u].pc # "delete"
             /\ Serves(u, s)' => req'[u].pc # "destroy" /\ (Intact(s)' => Fits(u)')
    BY <1>0, <1>1
<1> QED BY <1>2 DEF Keeps

\* A stage at which nothing is asked of the request.
LEMMA FitsElsewhere ==
    ASSUME NEW t, req'[t].pc \notin {"insert", "snapshot", "enqueue"}
    PROVE  Fits(t)'
BY DEF Fits

\* The gate.
LEMMA GateKeeps ==
    ASSUME Together, Base', NEW t \in Threads, NEW s \in Scopes, s = req[t].scope,
           \/ CheckResident(t) \/ GateEnsure(t) \/ GateCheck(t) \/ GateRecovered(t)
           \/ GateRecheck(t) \/ GateDecide(t)
    PROVE  /\ Keeps(s)
           /\ \/ req'[t] = NoRequest
              \/ /\ req'[t] # NoRequest /\ req'[t].pc \in BeforeInsert \ {"load"}
                 /\ req'[t].kind = req[t].kind /\ req'[t].scope = s /\ req'[t].arg = req[t].arg
                 /\ req'[t].closed = req[t].closed /\ req'[t].vault = req[t].vault
                 /\ req'[t].content = req[t].content
<1>1. req[t].pc \in Early /\ req[t].pc # "insert" /\ req[t].pc \in Stages /\ req[t].pc # "delete"
    BY DEF CheckResident, GateEnsure, GateCheck, GateRecovered, GateRecheck, GateDecide, Stages,
           Early
<1>2. ReqShape /\ req[t] # NoRequest
    BY <1>1, Served
<1>3. \/ Fail(t)
      \/ \E pc \in BeforeInsert \ {"load"} : Goto(t, pc)
      \/ \E pc \in BeforeInsert \ {"load"} : \E b : Continue(t, pc, [resident |-> b])
    <2>1. CASE CheckResident(t)
        BY <2>1 DEF CheckResident, BeforeInsert
    <2>2. CASE GateEnsure(t)
        BY <2>2 DEF GateEnsure, BeforeInsert
    <2>3. CASE GateCheck(t) \/ GateRecovered(t)
        BY <2>3 DEF GateCheck, GateRecovered, BeforeInsert
    <2>4. CASE GateRecheck(t)
        BY <2>4 DEF GateRecheck, BeforeInsert
    <2>5. CASE GateDecide(t)
        BY <2>5 DEF GateDecide, BeforeInsert
    <2> QED BY <2>1, <2>2, <2>3, <2>4, <2>5
<1> DEFINE Others == \A u \in Threads \ {t} : req'[u] = req[u]
           Moved == /\ req'[t] # NoRequest /\ req'[t].pc \in BeforeInsert \ {"load"}
                    /\ req'[t].kind = req[t].kind /\ req'[t].scope = s /\ req'[t].arg = req[t].arg
                    /\ req'[t].closed = req[t].closed /\ req'[t].vault = req[t].vault
                    /\ req'[t].content = req[t].content
<1>4. Others /\ (req'[t] = NoRequest \/ Moved)
    <2>1. CASE Fail(t)
        BY <1>2, <2>1, EndsFields
    <2>2. ASSUME NEW pc \in BeforeInsert \ {"load"}, Goto(t, pc)
          PROVE  Others /\ Moved
        BY <1>2, <2>2, GotoFields
    <2>3. ASSUME NEW pc \in BeforeInsert \ {"load"}, NEW b, Continue(t, pc, [resident |-> b])
          PROVE  Others /\ Moved
        <3>1. DOMAIN [resident |-> b] = {"resident"}
            OBVIOUS
        <3>2. DOMAIN [resident |-> b] \cap Identity = {}
            BY DEF Identity
        <3> QED BY <1>2, <2>3, <3>1, <3>2, GoesOnFields
    <2> QED BY <1>3, <2>1, <2>2, <2>3
<1>5. Still(s)
    BY QuietStill
<1>6. req'[t].pc \in BeforeInsert => req'[t].pc # "destroy" /\ Fits(t)'
    BY FitsElsewhere DEF BeforeInsert
<1> QED BY <1>1, <1>4, <1>5, <1>6, OwnKept

\* What a request still has to have after a step of its own.
Fit(t) == req'[t] # NoRequest => RequestInv(t)'

\* After the gate it has nothing yet.
LEMMA GateFit ==
    ASSUME Undisturbed, Together, Base', NEW t \in Threads, NEW s \in Scopes, s = req[t].scope,
           \/ CheckResident(t) \/ GateEnsure(t) \/ GateCheck(t) \/ GateRecovered(t)
           \/ GateRecheck(t) \/ GateDecide(t)
    PROVE  Keeps(s) /\ Fit(t)
<1>1. req[t].pc \in BeforeInsert \cap Stages /\ req[t].pc # "load"
    BY DEF CheckResident, GateEnsure, GateCheck, GateRecovered, GateRecheck, GateDecide, Stages,
           BeforeInsert
<1>2. RequestInv(t) /\ StageOK(req[t])
    BY <1>1, Served
<1>3. req[t].vault = NoVault /\ req[t].content = NoContent
    BY <1>1, <1>2 DEF RequestInv, StageOK, BeforeInsert, Early
<1>4. /\ Keeps(s)
      /\ \/ req'[t] = NoRequest
         \/ /\ req'[t] # NoRequest /\ req'[t].pc \in BeforeInsert \ {"load"}
            /\ req'[t].kind = req[t].kind /\ req'[t].scope = s /\ req'[t].arg = req[t].arg
            /\ req'[t].closed = req[t].closed /\ req'[t].vault = req[t].vault
            /\ req'[t].content = req[t].content
    BY GateKeeps
<1>5. issued'[s] = issued[s]
    BY <1>4 DEF Keeps, Still
<1>6. req'[t] # NoRequest => RequestInv(t)'
    BY <1>2, <1>3, <1>4, <1>5 DEF RequestInv, BeforeInsert
<1> QED BY <1>4, <1>6 DEF Fit

\* The lookup finds the vault of the scope, or there is none.
LEMMA LookupFit ==
    ASSUME Undisturbed, Together, Base', NEW t \in Threads, NEW s \in Scopes, s = req[t].scope,
           Lookup(t)
    PROVE  Keeps(s) /\ Fit(t)
<1>1. req[t].pc = "lookup" /\ req[t].pc \in Stages /\ config' = config /\ issued' = issued
    BY DEF Lookup, Stages, boundVars
<1>2. /\ RequestInv(t) /\ StageOK(req[t]) /\ ReqShape /\ req[t] # NoRequest /\ IsCache(cache)
      /\ Talk(s) /\ \A u \in Threads : Serves(u, s) => u = t
    BY <1>1, Served
<1>3. req[t].vault = NoVault /\ req[t].content = NoContent /\ req[t].closed = TRUE
    BY <1>1, <1>2 DEF RequestInv, StageOK, BeforeInsert, Early
<1>4. StaleScopes = {} /\ UNCHANGED writerVars
    BY <1>2, NothingStale, NothingPruned DEF Together, WritesInv, Lookup
<1>5. Still(s)
    BY QuietStill
<1>6. (HasStore' <=> HasStore) /\ \A v : Holds(cache', s, v) <=> Holds(cache, s, v)
    BY <1>1, <1>5 DEF HasStore, Still
<1>7. ~Resident(s) => Absent(s) /\ Absent(s)'
    BY <1>2, <1>6, ResidentFacts DEF Absent
<1>8. req[t].kind = "rehydrate" => \E p \in issued'[s] : p[1] = req[t].arg
    BY <1>1, <1>2 DEF RequestInv
<1>9. \/ Resident(s) /\ Continue(t, "engine", [vault |-> VaultOf(s)])
      \/ ~Resident(s) /\ HasStore /\ Goto(t, "load")
      \/ ~Resident(s) /\ ~HasStore /\ Goto(t, "insert")
      \/ Fail(t)
    BY <1>4 DEF Lookup
<1>10. CASE Resident(s) /\ Continue(t, "engine", [vault |-> VaultOf(s)])
    <2> DEFINE f == [vault |-> VaultOf(s)]
    <2>1. DOMAIN f = {"vault"} /\ DOMAIN f \cap Identity = {} /\ f["vault"] = VaultOf(s)
        BY DEF Identity
    <2> HIDE DEF f
    <2>2. /\ \A u \in Threads \ {t} : req'[u] = req[u]
          /\ req'[t].pc = "engine" /\ req'[t].kind = req[t].kind /\ req'[t].scope = s
          /\ req'[t].arg = req[t].arg /\ req'[t].closed = req[t].closed
          /\ req'[t].vault = VaultOf(s)
        <3>1. Continue(t, "engine", f)
            BY <1>10 DEF f
        <3> QED BY <1>2, <2>1, <3>1, GoesOnFields
    <2>3. Holds(cache', s, VaultOf(s))
        BY <1>2, <1>6, <1>10, ResidentFacts
    <2>4. RequestInv(t)'
        BY <1>3, <1>8, <2>2, <2>3 DEF RequestInv, BeforeInsert
    <2>5. Keeps(s)
        BY <1>1, <1>5, <2>2, OwnKept, FitsElsewhere
    <2> QED BY <2>4, <2>5 DEF Fit
<1>11. CASE ~Resident(s) /\ HasStore /\ Goto(t, "load")
    <2>1. /\ \A u \in Threads \ {t} : req'[u] = req[u]
          /\ req'[t].pc = "load" /\ req'[t].kind = req[t].kind /\ req'[t].scope = s
          /\ req'[t].arg = req[t].arg /\ req'[t].closed = req[t].closed
          /\ req'[t].vault = NoVault /\ req'[t].content = NoContent
        BY <1>2, <1>3, <1>11, GotoFields
    <2>2. RequestInv(t)'
        BY <1>3, <1>6, <1>7, <1>8, <1>11, <2>1 DEF RequestInv, BeforeInsert
    <2>3. Keeps(s)
        BY <1>1, <1>5, <2>1, OwnKept, FitsElsewhere
    <2> QED BY <2>2, <2>3 DEF Fit
<1>12. CASE ~Resident(s) /\ ~HasStore /\ Goto(t, "insert")
    <2>1. /\ \A u \in Threads \ {t} : req'[u] = req[u]
          /\ req'[t].pc = "insert" /\ req'[t].kind = req[t].kind /\ req'[t].scope = s
          /\ req'[t].arg = req[t].arg /\ req'[t].closed = req[t].closed
          /\ req'[t].vault = NoVault /\ req'[t].content = NoContent
        BY <1>2, <1>3, <1>12, GotoFields
    <2>2. RequestInv(t)'
        BY <1>3, <1>7, <1>8, <1>12, <2>1 DEF RequestInv, BeforeInsert
    <2>3. Intact(s)' => Fits(t)'
        <3>1. ASSUME Intact(s)'
              PROVE  issued'[s] = {}
            <4>1. Intact(s)
                BY <1>4, <1>5, <3>1 DEF Intact, writerVars, Still
            <4> QED BY <1>1, <1>2, <1>7, <1>12, <4>1 DEF Talk
        <3> QED BY <2>1, <3>1 DEF Fits, Resolves
    <2>4. Keeps(s)
        BY <1>1, <1>5, <2>1, <2>3, OwnKept
    <2> QED BY <2>2, <2>4 DEF Fit
<1>13. CASE Fail(t)
    <2>1. req'[t] = NoRequest /\ \A u \in Threads \ {t} : req'[u] = req[u]
        BY <1>2, <1>13, EndsFields
    <2> QED BY <1>1, <1>5, <2>1, OwnKept DEF Fit
<1> QED BY <1>9, <1>10, <1>11, <1>12, <1>13

\* What a request loads is all the scope was given.
LEMMA LoadFit ==
    ASSUME Undisturbed, Together, Base', NEW t \in Threads, NEW s \in Scopes, s = req[t].scope,
           Load(t) \/ LoadFails(t)
    PROVE  Keeps(s) /\ Fit(t)
<1>1. /\ req[t].pc = "load" /\ req[t].pc \in Stages /\ UNCHANGED <<cacheVars, config, issued, corrections>>
      /\ UNCHANGED writerVars
    BY DEF Load, LoadFails, Stages
<1>2. /\ RequestInv(t) /\ StageOK(req[t]) /\ ReqShape /\ req[t] # NoRequest
      /\ Talk(s) /\ Forgets(s) /\ \A u \in Threads : Serves(u, s) => u = t
    BY <1>1, Served
<1>3. /\ req[t].vault = NoVault /\ req[t].content = NoContent /\ req[t].closed = TRUE
      /\ Absent(s)
    BY <1>1, <1>2 DEF RequestInv, StageOK, BeforeInsert, Early
<1>4. Still(s) /\ Absent(s)'
    BY <1>3, QuietStill DEF Still, Absent
<1>5. \/ \E c : Continue(t, "insert", [content |-> c]) /\ c = Row(s)
      \/ Goto(t, "insert") /\ Row(s) = NoContent
      \/ Fail(t)
    BY <1>3 DEF Load, LoadFails, Row
<1>6. CASE Fail(t)
    <2>1. req'[t] = NoRequest /\ \A u \in Threads \ {t} : req'[u] = req[u]
        BY <1>2, <1>6, EndsFields
    <2> QED BY <1>1, <1>4, <2>1, OwnKept DEF Fit
<1>7. CASE \/ \E c : Continue(t, "insert", [content |-> c]) /\ c = Row(s)
           \/ Goto(t, "insert") /\ Row(s) = NoContent
    <2>1. /\ \A u \in Threads \ {t} : req'[u] = req[u]
          /\ req'[t].pc = "insert" /\ req'[t].kind = req[t].kind /\ req'[t].scope = s
          /\ req'[t].arg = req[t].arg /\ req'[t].closed = req[t].closed
          /\ req'[t].vault = NoVault /\ req'[t].content = Row(s)
        <3>1. ASSUME NEW c, Continue(t, "insert", [content |-> c]), c = Row(s)
              PROVE  <2>1
            <4>1. /\ DOMAIN [content |-> c] = {"content"} /\ [content |-> c]["content"] = c
                  /\ DOMAIN [content |-> c] \cap Identity = {}
                BY DEF Identity
            <4> QED BY <1>2, <1>3, <3>1, <4>1, GoesOnFields
        <3>2. CASE Goto(t, "insert") /\ Row(s) = NoContent
            BY <1>2, <1>3, <3>2, GotoFields
        <3> QED BY <1>7, <3>1, <3>2
    <2>2. RequestInv(t)'
        <3>1. req[t].kind = "rehydrate" => \E p \in issued'[s] : p[1] = req[t].arg
            BY <1>1, <1>2 DEF RequestInv
        <3> QED BY <1>3, <1>4, <2>1, <3>1 DEF RequestInv, BeforeInsert
    <2>3. Intact(s)' => Fits(t)'
        <3> SUFFICES ASSUME Intact(s)' PROVE Fits(t)'
            OBVIOUS
        <3>1. Intact(s) /\ faults[s] = {}
            BY <1>1, <1>4 DEF Intact, writerVars, Still
        <3>2. \/ issued[s] = {}
              \/ HasStore /\ Pending(s) = {}
            BY <1>1, <1>2, <1>3, <3>1 DEF Talk
        <3>3. Resolves(Row(s), issued[s], corrections[s])
            <4>1. CASE issued[s] = {}
                BY <4>1 DEF Resolves
            <4>2. CASE HasStore /\ Pending(s) = {}
                <5>1. Row(s) = Latest(s)
                    BY <1>2, <3>1, <4>2, RowIsLatest DEF Together, Forgets
                <5> QED BY <1>2, <3>1, <4>2, <5>1 DEF Talk
            <4> QED BY <3>2, <4>1, <4>2
        <3> QED BY <1>1, <2>1, <3>3 DEF Fits
    <2>4. Keeps(s)
        BY <1>1, <1>4, <2>1, <2>3, OwnKept
    <2> QED BY <2>2, <2>4 DEF Fit
<1> QED BY <1>5, <1>6, <1>7

\* A redaction goes on with the token of its value in the vault.
LEMMA RedactFit ==
    ASSUME Undisturbed, Together, Base', NEW t \in Threads, NEW s \in Scopes, s = req[t].scope,
           Redact(t), HasStore
    PROVE  Keeps(s) /\ Fit(t)
<1> DEFINE v == req[t].vault
           token == TokenOf(heap[v], req[t].arg, req[t].latest)
           h == [heap EXCEPT ![v] = Registered(@, req[t].arg, req[t].latest)]
           f == [token |-> token]
           D == Corrected(corrections[s], heap[v], req[t].arg, req[t].latest)
<1>1. /\ req[t].pc = "engine" /\ req[t].pc \in Stages /\ req[t].kind = "redact"
      /\ config' = config /\ cache' = cache /\ issued' = issued
      /\ Continue(t, "snapshot", f) /\ HeapBecomes(h, {})
      /\ session' = [session EXCEPT ![s] = IF @ = "over" THEN "open" ELSE @]
    BY DEF Redact, Stages, boundVars
<1>2. /\ RequestInv(t) /\ StageOK(req[t]) /\ ReqShape /\ req[t] # NoRequest /\ Talk(s)
    BY <1>1, Served
<1>3. v \in VaultIds /\ v # NoVault /\ Holds(cache, s, v) /\ req[t].closed = TRUE
    BY <1>1, <1>2 DEF RequestInv, StageOK, VaultIds, NoVault
<1>4. Holds(cache', s, v) /\ IsCache(cache')
    BY <1>1, <1>3 DEF Holds, Base, ShapeInv, CacheInv
<1>5. heap'[v] = Registered(heap[v], req[t].arg, req[t].latest)
    <2>1. heap'[v] = h[v]
        <3> HIDE DEF h
        <3> QED BY <1>1, <1>4, HeapOfHeld
    <2>2. DOMAIN heap = VaultIds
        BY DEF Together, Base, ValuesInv, HeapValues
    <2> QED BY <1>3, <2>1, <2>2
<1>6. Resolves(heap'[v], {<<token, req[t].arg>>}, {})
    <2>1. heap[v] \in Ledgers(s)
        BY <1>3 DEF Together, Base, ValuesInv, HeapValues, Owner
    <2> QED BY <1>5, <2>1, RegisteredResolves
<1>7. /\ DOMAIN f = {"token"} /\ DOMAIN f \cap Identity = {} /\ f["token"] = token
    BY DEF Identity
<1> HIDE DEF h, f, token, D
<1>8. /\ \A u \in Threads \ {t} : req'[u] = req[u]
      /\ req'[t].pc = "snapshot" /\ req'[t].kind = req[t].kind /\ req'[t].scope = s
      /\ req'[t].arg = req[t].arg /\ req'[t].closed = req[t].closed
      /\ req'[t].vault = v /\ req'[t].token = token
    BY <1>1, <1>2, <1>7, GoesOnFields
<1>9. session'[s] # "over"
    <2>1. s \in DOMAIN session
        BY DEF Together, TalkInv, Settings
    <2> QED BY <1>1, <2>1
<1>10. RequestInv(t)'
    BY <1>1, <1>3, <1>4, <1>8, <1>9 DEF RequestInv, BeforeInsert, HasStore
<1>11. Fits(t)'
    BY <1>6, <1>8 DEF Fits
<1>12. Still(s)
    BY VaultStill
<1>13. Keeps(s)
    BY <1>1, <1>8, <1>11, <1>12, OwnKept
<1> QED BY <1>10, <1>13 DEF Fit

\* The snapshot is what the vault holds.
LEMMA SnapshotFit ==
    ASSUME Undisturbed, Together, Base', NEW t \in Threads, NEW s \in Scopes, s = req[t].scope,
           TakeSnapshot(t)
    PROVE  Keeps(s) /\ Fit(t)
<1> DEFINE v == req[t].vault
           pair == <<req[t].token, req[t].arg>>
           f == [content |-> heap[v]]
<1>1. /\ req[t].pc = "snapshot" /\ req[t].pc \in Stages
      /\ UNCHANGED <<cacheVars, config, issued, corrections, session>> /\ UNCHANGED writerVars
      /\ Continue(t, "enqueue", f)
    BY DEF TakeSnapshot, Snapshot, Stages, boundVars
<1>2. /\ RequestInv(t) /\ StageOK(req[t]) /\ ReqShape /\ req[t] # NoRequest /\ Talk(s)
      /\ Serves(t, s)
    BY <1>1, Served
<1>3. /\ v \in VaultIds /\ v # NoVault /\ Holds(cache, s, v) /\ req[t].closed = TRUE
      /\ req[t].kind = "redact" /\ HasStore /\ session[s] # "over"
    BY <1>1, <1>2 DEF RequestInv, StageOK, VaultIds, NoVault
<1>4. Holds(cache', s, v)
    BY <1>1, <1>3 DEF Holds, cacheVars
<1>5. /\ DOMAIN f = {"content"} /\ DOMAIN f \cap Identity = {} /\ f["content"] = heap[v]
    BY DEF Identity
<1> HIDE DEF f
<1>6. /\ \A u \in Threads \ {t} : req'[u] = req[u]
      /\ req'[t].pc = "enqueue" /\ req'[t].kind = req[t].kind /\ req'[t].scope = s
      /\ req'[t].arg = req[t].arg /\ req'[t].closed = req[t].closed
      /\ req'[t].vault = v /\ req'[t].token = req[t].token /\ req'[t].content = heap[v]
    BY <1>1, <1>2, <1>5, GoesOnFields
<1>7. RequestInv(t)'
    BY <1>1, <1>3, <1>4, <1>6 DEF RequestInv, BeforeInsert, HasStore
<1>8. Intact(s)' => Fits(t)'
    <2> SUFFICES ASSUME Intact(s)' PROVE Fits(t)'
        OBVIOUS
    <2>1. Intact(s)
        BY <1>1 DEF Intact, writerVars
    <2>2. Resolves(heap[v], issued[s], corrections[s]) /\ Resolves(heap[v], {pair}, {})
        BY <1>1, <1>2, <1>3, <2>1 DEF Talk, Fits
    <2>3. heap' = heap /\ issued' = issued /\ corrections' = corrections
        BY <1>1 DEF cacheVars
    <2> QED BY <1>6, <2>2, <2>3 DEF Fits
<1>9. Still(s)
    BY QuietStill
<1>10. Keeps(s)
    BY <1>1, <1>6, <1>8, <1>9, OwnKept
<1> QED BY <1>7, <1>10 DEF Fit

\* An answer that issues nothing leaves everything as it is.
LEMMA AnswerFit ==
    ASSUME Undisturbed, Together, Base', NEW t \in Threads, NEW s \in Scopes, s = req[t].scope,
           \/ EngineFails(t) \/ Rehydrate(t)
           \/ PersistSnapshot(t) /\ ~Accepts
           \/ PopSession(t) /\ ~Resident(s)
    PROVE  Keeps(s) /\ Fit(t)
<1>1. req[t].pc \in {"engine", "enqueue", "pop"} /\ req[t].pc \in Stages
    BY DEF EngineFails, Rehydrate, PersistSnapshot, PopSession, Stages
<1>2. RequestInv(t) /\ ReqShape
    BY <1>1, Served
<1>3. Still(s)
    BY VaultStill, CacheStill
<1>4. Fail(t) \/ \E o, c : Answer(t, o, c)
    BY <1>2 DEF EngineFails, Rehydrate, PersistSnapshot, PopSession, RequestInv
<1>5. req'[t] = NoRequest /\ \A u \in Threads \ {t} : req'[u] = req[u]
    BY <1>2, <1>4, EndsFields
<1>6. Keeps(s)
    BY <1>1, <1>3, <1>5, OwnKept
<1> QED BY <1>5, <1>6 DEF Fit

\* The request of t stays the only one of its scope.
LEMMA NobodyElse ==
    ASSUME Together, NEW t \in Threads, req[t].pc \in Stages, NEW s, s = req[t].scope,
           \A u \in Threads \ {t} : req'[u] = req[u]
    PROVE  \A u \in Threads : Serves(u, s)' => u = t
<1>1. \A u \in Threads : Serves(u, s) => u = t
    BY Served
<1> QED BY <1>1 DEF Serves

\* Nothing written and no session ended, what is said of the writes of a scope stays.
LEMMA ForgetsKept ==
    ASSUME NEW s, Forgets(s), UNCHANGED writerVars, snapshots'[s] = snapshots[s],
           config' = config, HasStore /\ Over(s)' => Over(s)
    PROVE  Forgets(s)'
<1>1. /\ faults' = faults /\ store' = store /\ requested' = requested
      /\ queue' = queue /\ doing' = doing
    BY DEF writerVars
<1>2. Pending(s)' = Pending(s)
    BY <1>1 DEF Pending, AtWorker
<1>3. (RowsMatch(s)' <=> RowsMatch(s)) /\ (LastIsDelete(s)' <=> LastIsDelete(s))
    BY <1>1, <1>2 DEF RowsMatch, LastIsDelete
<1> QED BY <1>1, <1>3 DEF Forgets, HasStore

\* A scope gets the vault its request loaded or, with nothing to load, an empty one.
LEMMA InsertFit ==
    ASSUME Undisturbed, Together, Base', NEW t \in Threads, NEW s \in Scopes, s = req[t].scope,
           Insert(t)
    PROVE  Talk(s)' /\ Forgets(s)' /\ Fit(t)
<1>1. PICK v \in VaultIds : \E gone :
          /\ \A r, u : Holds(cache', r, u) <=> Holds(cache, r, u) \/ (r = req[t].scope /\ u = v)
          /\ \A r : ~Holds(cache, r, v)
          /\ Continue(t, "engine", [vault |-> v, victim |-> NoVictim])
          /\ HeapBecomes([heap EXCEPT ![v] = req[t].content], gone)
          /\ UNCHANGED <<writerVars, boundVars, snapshots, issued, corrections, session>>
    BY InsertFacts
<1> DEFINE h == [heap EXCEPT ![v] = req[t].content]
           f == [vault |-> v, victim |-> NoVictim]
<1>2. req[t].pc = "insert" /\ req[t].pc \in Stages
    BY DEF Insert, Stages
<1>3. /\ RequestInv(t) /\ ReqShape /\ req[t] # NoRequest /\ Talk(s) /\ Forgets(s)
      /\ Serves(t, s)
    BY <1>2, Served
<1>4. Absent(s) /\ req[t].closed = TRUE
    BY <1>2, <1>3 DEF RequestInv
<1>5. \A u : Holds(cache', s, u) <=> u = v
    BY <1>1, <1>4 DEF Absent
<1>6. heap'[v] = req[t].content
    <2>1. \E gone : HeapBecomes(h, gone)
        BY <1>1
    <2>2. DOMAIN heap = VaultIds /\ IsCache(cache')
        BY DEF Together, Base, ValuesInv, HeapValues, ShapeInv, CacheInv
    <2>3. heap'[v] = h[v]
        <3> HIDE DEF h
        <3> QED BY <1>5, <2>1, <2>2, HeapOfHeld
    <2> QED BY <2>2, <2>3
<1>7. /\ DOMAIN f = {"vault", "victim"} /\ DOMAIN f \cap Identity = {} /\ f["vault"] = v
    BY DEF Identity
<1> HIDE DEF f
<1>8. /\ \A u \in Threads \ {t} : req'[u] = req[u]
      /\ req'[t].pc = "engine" /\ req'[t].kind = req[t].kind /\ req'[t].scope = s
      /\ req'[t].arg = req[t].arg /\ req'[t].closed = req[t].closed /\ req'[t].vault = v
    <2>1. Continue(t, "engine", f)
        BY <1>1 DEF f
    <2> QED BY <1>3, <1>7, <2>1, GoesOnFields
<1>9. \A u \in Threads : Serves(u, s)' => u = t
    BY <1>2, <1>8, NobodyElse
<1>10. RequestInv(t)'
    <2>1. req[t].kind = "rehydrate" => \E p \in issued'[s] : p[1] = req[t].arg
        BY <1>1, <1>3 DEF RequestInv
    <2> QED BY <1>4, <1>5, <1>8, <2>1 DEF RequestInv, BeforeInsert
<1>11. Talk(s)'
    <2> SUFFICES ASSUME Intact(s)' PROVE Talk(s)'
        BY DEF Talk
    <2>1. Intact(s)
        BY <1>1 DEF Intact, writerVars
    <2>2. /\ HasStore => Resolves(Latest(s), issued[s], corrections[s])
          /\ Resolves(req[t].content, issued[s], corrections[s])
        BY <1>2, <1>3, <2>1 DEF Talk, Fits
    <2>3. /\ issued' = issued /\ corrections' = corrections /\ (HasStore' <=> HasStore) /\ Latest(s)' = Latest(s)
        BY <1>1 DEF Latest, writerVars, HasStore, boundVars
    <2>4. \A u : Holds(cache', s, u) => Resolves(heap'[u], issued[s], corrections[s])
        BY <1>5, <1>6, <2>2
    <2>5. ~Absent(s)'
        BY <1>5 DEF Absent
    <2>6. \A u \in Threads : Serves(u, s)' => Fits(u)'
        BY <1>8, <1>9, FitsElsewhere
    <2> QED BY <2>2, <2>3, <2>4, <2>5, <2>6 DEF Talk
<1>12. Forgets(s)'
    <2>1. Over(s)' => Over(s)
        BY <1>1, <1>8, <1>9 DEF Over
    <2> QED BY <1>1, <1>3, <2>1, ForgetsKept DEF boundVars
<1> QED BY <1>10, <1>11, <1>12 DEF Fit

\* The end of a session takes the vault out of the cache.
LEMMA PopFit ==
    ASSUME Undisturbed, Together, Base', NEW t \in Threads, NEW s \in Scopes, s = req[t].scope,
           PopSession(t), Resident(s)
    PROVE  Talk(s)' /\ Forgets(s)' /\ Fit(t)
<1> DEFINE w == VaultOf(s)
           e == Victim([scope |-> s, vault |-> w])
           f == [victim |-> e]
<1>1. /\ req[t].pc = "pop" /\ req[t].pc \in Stages
      /\ cache' = Without(cache, s) /\ Continue(t, "delete", f) /\ HeapBecomes(heap, {w})
      /\ UNCHANGED <<writerVars, boundVars, snapshots, issued, corrections, session>>
    BY DEF PopSession, Stages
<1>2. /\ RequestInv(t) /\ StageOK(req[t]) /\ ReqShape /\ req[t] # NoRequest /\ Talk(s)
      /\ Forgets(s) /\ IsCache(cache)
    BY <1>1, Served
<1>3. /\ req[t].kind = "end" /\ req[t].vault = NoVault /\ req[t].closed = TRUE
      /\ w \in VaultIds
    BY <1>1, <1>2, ResidentFacts DEF StageOK, RequestInv
<1>4. Absent(s)'
    BY <1>1, <1>2, WithoutFacts DEF Absent
<1>5. e.scope = s /\ e.vault = w
    BY DEF Victim
<1>6. /\ DOMAIN f = {"victim"} /\ DOMAIN f \cap Identity = {} /\ f["victim"] = e
    BY DEF Identity
<1> HIDE DEF f, e
<1>7. /\ \A u \in Threads \ {t} : req'[u] = req[u]
      /\ req'[t] # NoRequest
      /\ req'[t].pc = "delete" /\ req'[t].kind = "end" /\ req'[t].scope = s
      /\ req'[t].closed = TRUE /\ req'[t].vault = NoVault /\ req'[t].victim = e
    BY <1>1, <1>2, <1>3, <1>6, GoesOnFields
<1>8. \A u \in Threads : Serves(u, s)' => u = t
    BY <1>1, <1>7, NobodyElse
<1>9. w \in popped'
    <2>1. w \in Uses(req'[t])
        BY <1>3, <1>5, <1>7 DEF Uses, VaultIds, NoVault
    <2>2. w \in Held(cache', req')
        BY <2>1, HeldFacts
    <2> QED BY <1>1, <2>2, HeapFacts
<1>10. RequestInv(t)'
    BY <1>4, <1>5, <1>7, <1>9 DEF RequestInv, BeforeInsert
<1>11. Talk(s)'
    <2> SUFFICES ASSUME Intact(s)' PROVE Talk(s)'
        BY DEF Talk
    <2>1. Intact(s)
        BY <1>1 DEF Intact, writerVars
    <2>2. HasStore => Resolves(Latest(s), issued[s], corrections[s])
        BY <2>1, <1>2 DEF Talk
    <2>3. /\ issued' = issued /\ corrections' = corrections /\ (HasStore' <=> HasStore) /\ Latest(s)' = Latest(s)
        BY <1>1 DEF Latest, writerVars, HasStore, boundVars
    <2>4. Serves(t, s)'
        BY <1>7 DEF Serves
    <2>5. \A u \in Threads : Serves(u, s)' => Fits(u)'
        BY <1>7, <1>8, FitsElsewhere
    <2> QED BY <1>4, <1>7, <2>2, <2>3, <2>4, <2>5 DEF Talk, Absent
<1>12. Forgets(s)'
    <2>1. Over(s)' => Over(s)
        BY <1>1, <1>7, <1>8 DEF Over
    <2> QED BY <1>1, <1>2, <2>1, ForgetsKept DEF boundVars
<1> QED BY <1>10, <1>11, <1>12 DEF Fit

\* A write that is accepted is the last of its scope, and carries what it was given.
LEMMA WriteFacts ==
    ASSUME Base, WritesInv, NEW s \in Scopes, NEW op \in Ops, NEW c, EnqueueTask(op, s, c)
    PROVE  /\ requested'[s] = requested[s] + 1 /\ requested[s] \in Nat
           /\ Latest(s)' = c /\ snapshots'[s][requested[s] + 1] = c
           /\ \A n \in 1 .. requested[s] : snapshots'[s][n] = snapshots[s][n]
           /\ store' = store /\ faults' = faults
           /\ \A task : task \in Pending(s)' =>
                 task \in Pending(s) \/ (task.op = op /\ task.seq = requested[s] + 1)
<1> DEFINE new == Task(op, s, requested[s] + 1)
<1>1. /\ requested' = [requested EXCEPT ![s] = @ + 1] /\ queue' = Append(queue, new)
      /\ store' = store /\ faults' = faults /\ doing' = doing
      /\ snapshots' = [snapshots EXCEPT ![s] = Append(@, c)]
    BY DEF EnqueueTask, Enqueue, Put
<1>2. /\ requested \in [Scopes -> Nat] /\ queue \in Seq(Tasks)
      /\ DOMAIN snapshots = Scopes
      /\ snapshots[s] \in Seq(Ledgers(s)) /\ Len(snapshots[s]) = requested[s]
    BY DEF Base, WrittenInv, TypeOK, ValuesInv, StoredValues
<1>3. requested'[s] = requested[s] + 1 /\ requested[s] \in Nat
    BY <1>1, <1>2
<1>4. /\ snapshots'[s][requested[s] + 1] = c
      /\ \A n \in 1 .. requested[s] : snapshots'[s][n] = snapshots[s][n]
    <2> DEFINE E == Ledgers(s) \cup {c}
    <2>1. snapshots[s] \in Seq(E) /\ c \in E
        BY <1>2
    <2> HIDE DEF E
    <2>2. snapshots'[s] = Append(snapshots[s], c)
        BY <1>1, <1>2
    <2> QED BY <1>2, <2>1, <2>2
<1>5. Latest(s)' = c
    <2>1. requested'[s] # 0
        BY <1>3
    <2> QED BY <1>3, <1>4, <2>1 DEF Latest
<1>6. new.op = op /\ new.seq = requested[s] + 1
    BY DEF Task
<1> HIDE DEF new
<1>7. ASSUME NEW task, task \in Pending(s)'
      PROVE  task \in Pending(s) \/ task = new
    <2>1. \A i \in DOMAIN queue' : (i \in DOMAIN queue /\ queue'[i] = queue[i]) \/ queue'[i] = new
        <3>1. new \in Tasks \cup {new} /\ queue \in Seq(Tasks \cup {new})
            BY <1>2
        <3>2. /\ DOMAIN queue' = 1 .. Len(queue) + 1 /\ Len(queue) \in Nat
              /\ DOMAIN queue = 1 .. Len(queue)
              /\ \A i \in 1 .. Len(queue) : queue'[i] = queue[i]
              /\ queue'[Len(queue) + 1] = new
            BY <1>1, <3>1
        <3>3. \A i \in DOMAIN queue' : i \in 1 .. Len(queue) \/ i = Len(queue) + 1
            BY <3>2
        <3> QED BY <3>2, <3>3
    <2>2. \/ \E i \in DOMAIN queue' : queue'[i] = task /\ task.scope = s
          \/ AtWorker(s)' /\ task = doing'[Worker].task
        BY <1>7 DEF Pending
    <2> QED BY <1>1, <2>1, <2>2, PendingFacts DEF AtWorker
<1> QED BY <1>1, <1>3, <1>4, <1>5, <1>6, <1>7

\* A delete that is accepted is the last write of its scope, and a save is one of a
\* session that goes on.
LEMMA WriteForgets ==
    ASSUME Base, WritesInv, NEW s \in Scopes, NEW op \in Ops, NEW c, EnqueueTask(op, s, c),
           Forgets(s), op = "delete" => c = NoContent, Over(s)' => op = "delete"
    PROVE  Forgets(s)'
<1> SUFFICES ASSUME faults'[s] = {}
             PROVE  RowsMatch(s)' /\ (Over(s)' => LastIsDelete(s)')
    BY DEF Forgets
<1>1. /\ requested'[s] = requested[s] + 1 /\ requested[s] \in Nat
      /\ snapshots'[s][requested[s] + 1] = c
      /\ \A n \in 1 .. requested[s] : snapshots'[s][n] = snapshots[s][n]
      /\ store' = store /\ faults' = faults
      /\ \A task : task \in Pending(s)' =>
            task \in Pending(s) \/ (task.op = op /\ task.seq = requested[s] + 1)
    BY WriteFacts
<1>2. RowsMatch(s) /\ \A task \in Pending(s) : task.seq \in 1 .. requested[s]
    BY <1>1, PendingNumbers DEF Forgets, Base, WrittenInv, WritesInv
<1>3. store[s].seq \in Nat /\ store[s].seq <= requested[s]
    <2>1. Ordered(s)
        BY <1>1 DEF WritesInv, OrderInv
    <2>2. store[s].seq \in Nat
        BY DEF Base, WrittenInv, TypeOK, Rows
    <2> QED BY <2>1, <2>2 DEF Ordered
<1>4. RowsMatch(s)'
    <2>1. ~store[s].row => store[s].seq = 0 \/ snapshots'[s][store[s].seq] = NoContent
        BY <1>1, <1>2, <1>3 DEF RowsMatch
    <2>2. \A task \in Pending(s)' : task.op = "delete" => snapshots'[s][task.seq] = NoContent
        BY <1>1, <1>2 DEF RowsMatch
    <2> QED BY <1>1, <2>1, <2>2 DEF RowsMatch
<1>5. ASSUME op = "delete"
      PROVE  LastIsDelete(s)'
    <2>1. store[s].seq # requested[s] + 1
        BY <1>1, <1>3
    <2>2. \A task \in Pending(s)' : task.seq = requested[s] + 1 => task.op = "delete"
        BY <1>1, <1>2, <1>5
    <2> QED BY <1>1, <2>1, <2>2 DEF LastIsDelete
<1> QED BY <1>4, <1>5

\* The end of a session leaves the scope nothing, or is refused.
LEMMA EndFit ==
    ASSUME Undisturbed, Together, Base', NEW t \in Threads, NEW s \in Scopes, s = req[t].scope,
           QueueDelete(t)
    PROVE  Talk(s)' /\ Forgets(s)' /\ Fit(t)
<1>1. /\ req[t].pc = "delete" /\ req[t].pc \in Stages /\ UNCHANGED <<cache, config>>
      /\ HeapBecomes(heap, {})
    BY DEF QueueDelete, Stages, boundVars
<1>2. /\ RequestInv(t) /\ StageOK(req[t]) /\ ReqShape /\ req[t] # NoRequest /\ Forgets(s)
    BY <1>1, Served
<1>3. /\ req[t].kind = "end" /\ req[t].victim.scope = s /\ req[t].victim.vault \in popped
      /\ req[t].victim.vault \in VaultIds /\ req[t].vault = NoVault /\ req[t].closed = TRUE
      /\ Absent(s)
    BY <1>1, <1>2 DEF RequestInv, StageOK
<1>4. Absent(s)'
    BY <1>1, <1>3 DEF Absent, Holds
<1>5. /\ DOMAIN issued = Scopes /\ DOMAIN session = Scopes
    BY DEF Together, Base, ValuesInv, AnsweredValues, TalkInv, Settings
<1>6. \/ /\ HasStore /\ EnqueueTask("delete", s, NoContent)
         /\ Goto(t, "destroy") /\ Forget({s}) /\ session' = session
      \/ /\ ~HasStore /\ UNCHANGED <<writerVars, snapshots>>
         /\ Goto(t, "destroy") /\ Forget({s}) /\ session' = session
      \/ /\ UNCHANGED <<writerVars, snapshots, issued, corrections>>
         /\ Answer(t, "raised", NoContent) /\ session' = [session EXCEPT ![s] = "broken"]
    BY <1>3 DEF QueueDelete
<1>7. CASE Goto(t, "destroy") /\ Forget({s}) /\ session' = session
    <2>1. /\ \A u \in Threads \ {t} : req'[u] = req[u]
          /\ req'[t] # NoRequest
          /\ req'[t].pc = "destroy" /\ req'[t].kind = "end" /\ req'[t].scope = s
          /\ req'[t].closed = TRUE /\ req'[t].vault = NoVault /\ req'[t].victim = req[t].victim
        BY <1>2, <1>3, <1>7, GotoFields
    <2>2. issued'[s] = {}
        BY <1>7 DEF Forget
    <2>3. req[t].victim.vault \in popped'
        <3>1. req[t].victim.vault \in Uses(req'[t])
            BY <1>3, <2>1 DEF Uses, VaultIds, NoVault
        <3>2. req[t].victim.vault \in Held(cache', req')
            BY <3>1, HeldFacts
        <3> QED BY <1>1, <1>3, <3>2, HeapFacts
    <2>4. RequestInv(t)'
        BY <1>3, <1>4, <2>1, <2>2, <2>3 DEF RequestInv, BeforeInsert
    <2>5. \A u \in Threads : Serves(u, s)' => u = t
        BY <1>1, <2>1, NobodyElse
    <2>6. \A u \in Threads : Serves(u, s)' => Fits(u)'
        BY <2>1, <2>5, FitsElsewhere
    <2>7. Talk(s)'
        BY <1>4, <2>2, <2>6 DEF Talk, Resolves, Absent
    <2>8. Forgets(s)'
        <3>1. CASE HasStore /\ EnqueueTask("delete", s, NoContent)
            BY <1>2, <3>1, WriteForgets DEF Together, Ops
        <3>2. CASE ~HasStore /\ UNCHANGED <<writerVars, snapshots>>
            BY <1>1, <1>2, <3>2, ForgetsKept DEF HasStore
        <3>3. ~Answer(t, "raised", NoContent)
            BY <1>2, <2>1, EndsFields
        <3> QED BY <1>6, <3>1, <3>2, <3>3
    <2> QED BY <2>4, <2>7, <2>8 DEF Fit
<1>8. CASE /\ UNCHANGED <<writerVars, snapshots, issued, corrections>>
           /\ Answer(t, "raised", NoContent) /\ session' = [session EXCEPT ![s] = "broken"]
    <2>1. req'[t] = NoRequest /\ \A u \in Threads \ {t} : req'[u] = req[u]
        BY <1>2, <1>8, EndsFields
    <2>2. session'[s] = "broken"
        BY <1>5, <1>8
    <2>3. Talk(s)'
        BY <2>2 DEF Talk, Intact
    <2>4. ~Over(s)'
        <3>1. \A u \in Threads : ~Serves(u, s)'
            BY <1>1, <2>1, NobodyElse DEF Serves
        <3> QED BY <2>2, <3>1 DEF Over
    <2>5. Forgets(s)'
        BY <1>1, <1>2, <1>8, <2>4, ForgetsKept
    <2> QED BY <2>1, <2>3, <2>5 DEF Fit
<1> QED BY <1>6, <1>7, <1>8

\* Then it is over.
LEMMA DestroyFit ==
    ASSUME Undisturbed, Together, Base', NEW t \in Threads, NEW s \in Scopes, s = req[t].scope,
           DestroyVault(t)
    PROVE  Talk(s)' /\ Forgets(s)' /\ Fit(t)
<1>1. /\ req[t].pc = "destroy" /\ req[t].pc \in Stages
      /\ UNCHANGED <<writerVars, boundVars, snapshots, issued, corrections>>
    BY DEF DestroyVault, Stages
<1>2. /\ RequestInv(t) /\ ReqShape /\ Forgets(s) /\ Serves(t, s)
    BY <1>1, Served
<1>3. req[t].kind = "end" /\ issued[s] = {}
    BY <1>1, <1>2 DEF RequestInv
<1>4. Answer(t, "destroyed", NoContent)
    BY <1>3 DEF DestroyVault
<1>5. req'[t] = NoRequest /\ \A u \in Threads \ {t} : req'[u] = req[u]
    BY <1>2, <1>4, EndsFields
<1>6. \A u \in Threads : ~Serves(u, s)'
    BY <1>1, <1>5, NobodyElse DEF Serves
<1>7. Talk(s)'
    BY <1>1, <1>3, <1>6 DEF Talk, Resolves
<1>8. Over(s)
    BY <1>1, <1>2 DEF Over
<1>9. Forgets(s)'
    BY <1>1, <1>2, <1>8, ForgetsKept DEF boundVars
<1> QED BY <1>5, <1>7, <1>9 DEF Fit

\* A token of s that is answered for another value than before was taken over by it.
Stable(s) ==
    Intact(s) => \A p \in issued[s], q \in issued'[s] :
                    p[1] = q[1] /\ p # q => q \in corrections'[s]

\* A token that is answered is the vault's, and without a store nothing more is asked.
LEMMA TokenFit ==
    ASSUME Undisturbed, Together, Base', NEW t \in Threads, NEW s \in Scopes, s = req[t].scope,
           Redact(t), ~HasStore
    PROVE  Talk(s)' /\ Forgets(s)' /\ Fit(t) /\ Stable(s)
<1> DEFINE v == req[t].vault
           pair == <<TokenOf(heap[v], req[t].arg, req[t].latest), req[t].arg>>
           h == [heap EXCEPT ![v] = Registered(@, req[t].arg, req[t].latest)]
           D == Corrected(corrections[s], heap[v], req[t].arg, req[t].latest)
<1>1. /\ req[t].pc = "engine" /\ req[t].pc \in Stages /\ UNCHANGED <<writerVars, snapshots>>
      /\ config' = config /\ cache' = cache /\ HeapBecomes(h, {})
      /\ Answer(t, "token", pair)
      /\ issued' = [issued EXCEPT ![s] = Issued(@, pair)]
      /\ corrections' = [corrections EXCEPT ![s] = Kept(D, pair)]
      /\ session' = [session EXCEPT ![s] = IF @ = "over" THEN "open" ELSE @]
    BY DEF Redact, Stages, boundVars
<1>2. /\ RequestInv(t) /\ StageOK(req[t]) /\ ReqShape /\ Talk(s) /\ Forgets(s)
      /\ IsCache(cache)
    BY <1>1, Served
<1>3. v \in VaultIds /\ v # NoVault /\ Holds(cache, s, v)
    BY <1>1, <1>2 DEF RequestInv, StageOK, VaultIds, NoVault
<1>4. \A u : Holds(cache', s, u) <=> u = v
    <2>1. \A u : Holds(cache, s, u) <=> u = v
        BY <1>2, <1>3, HoldsOne
    <2> QED BY <1>1, <2>1 DEF Holds
<1>5. heap'[v] = Registered(heap[v], req[t].arg, req[t].latest)
    <2>1. heap'[v] = h[v]
        <3> HIDE DEF h
        <3>1. IsCache(cache')
            BY DEF Base, ShapeInv, CacheInv
        <3> QED BY <1>1, <1>4, <3>1, HeapOfHeld
    <2>2. DOMAIN heap = VaultIds
        BY DEF Together, Base, ValuesInv, HeapValues
    <2> QED BY <1>3, <2>1, <2>2
<1>6. /\ corrections[s] \subseteq D /\ Extends(heap'[v], heap[v], D)
      /\ Resolves(heap'[v], {pair}, {})
    <2>1. heap[v] \in Ledgers(s)
        BY <1>3 DEF Together, Base, ValuesInv, HeapValues, Owner
    <2> QED BY <1>5, <2>1, RegisteredResolves
<1> HIDE DEF h, pair, D
<1>7. req'[t] = NoRequest /\ \A u \in Threads \ {t} : req'[u] = req[u]
    BY <1>1, <1>2, EndsFields
<1>8. \A u \in Threads : ~Serves(u, s)'
    BY <1>1, <1>7, NobodyElse DEF Serves
<1>9. issued'[s] = Issued(issued[s], pair) /\ corrections'[s] = Kept(D, pair)
    <2>1. s \in DOMAIN issued /\ s \in DOMAIN corrections
        BY DEF Together, Base, ValuesInv, AnsweredValues
    <2> QED BY <1>1, <2>1
<1>10. Intact(s) => Resolves(heap'[v], issued[s], D)
    <2>1. Intact(s) => Resolves(heap[v], issued[s], corrections[s])
        BY <1>2, <1>3 DEF Talk
    <2> QED BY <1>6, <2>1, ExtendsResolves
<1>12. Talk(s)'
    <2> SUFFICES ASSUME Intact(s)' PROVE Talk(s)'
        BY DEF Talk
    <2>1. Intact(s)
        <3>1. s \in DOMAIN session
            BY DEF Together, TalkInv, Settings
        <3>2. session[s] = "broken" => session'[s] = "broken"
            BY <1>1, <3>1
        <3> QED BY <1>1, <3>2 DEF Intact, writerVars
    <2>2. Resolves(heap'[v], issued'[s], corrections'[s])
        BY <1>6, <1>9, <1>10, <2>1, AnsweredResolves DEF pair
    <2> QED BY <1>1, <1>4, <1>8, <2>2 DEF Talk, Absent, HasStore
<1>13. Stable(s)
    <2>1. Given(issued[s])
        BY DEF Together, TalkInv, Settings
    <2> QED BY <1>6, <1>9, <1>10, <2>1, AnsweredStable DEF Stable, pair
<1>11. Forgets(s)'
    BY <1>1, <1>2, ForgetsKept
<1> QED BY <1>7, <1>11, <1>12, <1>13 DEF Fit

\* With a store its snapshot is written first.
LEMMA SaveFit ==
    ASSUME Undisturbed, Together, Base', NEW t \in Threads, NEW s \in Scopes, s = req[t].scope,
           PersistSnapshot(t), Accepts
    PROVE  Talk(s)' /\ Forgets(s)' /\ Fit(t) /\ Stable(s)
<1> DEFINE v == req[t].vault
           pair == <<req[t].token, req[t].arg>>
<1>1. /\ req[t].pc = "enqueue" /\ req[t].pc \in Stages
      /\ EnqueueTask("save", s, req[t].content)
      /\ Answer(t, "token", pair)
      /\ issued' = [issued EXCEPT ![s] = Issued(@, pair)]
      /\ corrections' = [corrections EXCEPT ![s] = Kept(@, pair)]
      /\ UNCHANGED <<boundVars, cache, session>> /\ HeapBecomes(heap, {})
    BY DEF PersistSnapshot, Stages
<1>2. /\ RequestInv(t) /\ StageOK(req[t]) /\ ReqShape /\ Talk(s) /\ Forgets(s)
      /\ IsCache(cache) /\ Serves(t, s)
    BY <1>1, Served
<1>3. /\ v \in VaultIds /\ v # NoVault /\ Holds(cache, s, v) /\ session[s] # "over"
    BY <1>1, <1>2 DEF RequestInv, StageOK, VaultIds, NoVault
<1>4. \A u : Holds(cache', s, u) <=> u = v
    <2>1. \A u : Holds(cache, s, u) <=> u = v
        BY <1>2, <1>3, HoldsOne
    <2> QED BY <1>1, <2>1 DEF Holds
<1>5. heap'[v] = heap[v]
    <2>1. IsCache(cache')
        BY DEF Base, ShapeInv, CacheInv
    <2> QED BY <1>1, <1>4, <2>1, HeapOfHeld
<1>6. req'[t] = NoRequest /\ \A u \in Threads \ {t} : req'[u] = req[u]
    BY <1>1, <1>2, EndsFields
<1>7. \A u \in Threads : ~Serves(u, s)'
    BY <1>1, <1>6, NobodyElse DEF Serves
<1>8. issued'[s] = Issued(issued[s], pair) /\ corrections'[s] = Kept(corrections[s], pair)
    <2>1. s \in DOMAIN issued /\ s \in DOMAIN corrections
        BY DEF Together, Base, ValuesInv, AnsweredValues
    <2> QED BY <1>1, <2>1
<1>9. Latest(s)' = req[t].content /\ faults' = faults
    BY <1>1, WriteFacts DEF Together, Ops
<1>10. Intact(s) => /\ Resolves(heap[v], issued[s], corrections[s])
                    /\ Resolves(heap[v], {pair}, {})
                    /\ Resolves(req[t].content, issued[s], corrections[s])
                    /\ Resolves(req[t].content, {pair}, {})
    BY <1>1, <1>2, <1>3 DEF Talk, Fits
<1>12. Talk(s)'
    <2> SUFFICES ASSUME Intact(s)' PROVE Talk(s)'
        BY DEF Talk
    <2>1. Intact(s)
        BY <1>1, <1>9 DEF Intact
    <2>2. /\ Resolves(req[t].content, issued'[s], corrections'[s])
          /\ Resolves(heap'[v], issued'[s], corrections'[s])
        BY <1>5, <1>8, <1>10, <2>1, AnsweredResolves
    <2> QED BY <1>4, <1>7, <1>9, <2>2 DEF Talk, Absent
<1>13. Stable(s)
    <2>1. Given(issued[s])
        BY DEF Together, TalkInv, Settings
    <2> QED BY <1>8, <1>10, <2>1, AnsweredStable DEF Stable
<1>11. Forgets(s)'
    <2>1. ~Over(s)'
        BY <1>1, <1>3, <1>7 DEF Over
    <2> QED BY <1>1, <1>2, <2>1, WriteForgets DEF Together, Ops
<1> QED BY <1>6, <1>11, <1>12, <1>13 DEF Fit

--------------------------------------------------------------------------------
(* Every step.                                                                *)

\* A request keeps what it has while its scope does.
LEMMA OtherRequests ==
    ASSUME Together, VaultStep, NEW u \in Threads, req[u] # NoRequest, req'[u] = req[u],
           config' = config, NEW s, s = req[u].scope, Still(s)
    PROVE  RequestInv(u)'
<1>1. /\ RequestInv(u) /\ StageOK(req[u]) /\ DOMAIN req = Threads /\ req[u].pc # "idle"
    BY StageFacts DEF Together, TalkInv, ClientInv, Base, ShapeInv, StagesInv, ReqShape
<1>2. /\ issued'[s] = issued[s]
      /\ session'[s] = session[s] \/ (session[s] = "over" /\ session'[s] = "open")
      /\ \A v : Holds(cache', s, v) <=> Holds(cache, s, v)
    BY DEF Still
<1>3. Absent(s)' <=> Absent(s)
    BY <1>2 DEF Absent
<1>4. ASSUME req[u].pc \in {"delete", "destroy"}
      PROVE  req[u].victim.vault \in popped'
    <2>1. req[u].victim.vault \in popped /\ req[u].victim.vault \in VaultIds
        BY <1>1, <1>4 DEF RequestInv, StageOK
    <2>2. req[u].victim.vault \in Held(cache', req')
        <3>1. req[u].victim.vault \in Uses(req'[u])
            BY <1>1, <2>1 DEF Uses, VaultIds, NoVault
        <3> QED BY <3>1, HeldFacts
    <2>3. \E gone : popped' = (popped \cup gone) \cap Held(cache', req')
        BY DEF VaultStep, VaultsMove
    <2> QED BY <2>1, <2>2, <2>3
<1> QED BY <1>1, <1>2, <1>3, <1>4 DEF RequestInv, HasStore

\* A step of the request of t keeps all of it.
LEMMA ServeTalk ==
    ASSUME Undisturbed, Together, Base', [Next]_writerVars, VaultStep, NEW t \in Threads, Serve(t)
    PROVE  ClientInv' /\ \A s \in Scopes : Talk(s)' /\ Forgets(s)'
<1> DEFINE r == req[t].scope
<1>1. /\ req[t].pc \in Stages /\ config' = config
    BY DEF Serve, CheckResident, GateEnsure, GateCheck, GateRecovered, GateRecheck, GateDecide,
           Lookup, Load, LoadFails, Insert, PopSession, QueueDelete, DestroyVault, Redact,
           EngineFails, TakeSnapshot, PersistSnapshot, Rehydrate, Stages, boundVars
<1>2. /\ req[t] # NoRequest /\ r \in Scopes /\ ReqShape /\ Talk(r) /\ Forgets(r)
      /\ \A u \in Threads : Serves(u, r) => u = t
    BY <1>1, Served
<1>3. ClientInv /\ Base /\ WritesInv /\ \A s \in Scopes : Talk(s) /\ Forgets(s)
    BY DEF Together, TalkInv
<1>4. \A s \in Scopes : Keeps(s) => Talk(s)' /\ Forgets(s)'
    BY <1>1, <1>3, KeepsTalk
<1>5. \A s \in Scopes : s # r => Keeps(s)
    BY OtherStill
<1>6. (Keeps(r) \/ \A s \in Scopes : s = r => Talk(s)' /\ Forgets(s)') /\ Fit(t)
    <2>1. CASE \/ CheckResident(t) \/ GateEnsure(t) \/ GateCheck(t) \/ GateRecovered(t)
               \/ GateRecheck(t) \/ GateDecide(t)
        BY <1>2, <2>1, GateFit
    <2>2. CASE Lookup(t)
        BY <1>2, <2>2, LookupFit
    <2>3. CASE Load(t) \/ LoadFails(t)
        BY <1>2, <2>3, LoadFit
    <2>4. CASE Insert(t)
        BY <1>2, <2>4, InsertFit
    <2>5. CASE PopSession(t)
        BY <1>2, <2>5, PopFit, AnswerFit
    <2>6. CASE QueueDelete(t)
        BY <1>2, <2>6, EndFit
    <2>7. CASE DestroyVault(t)
        BY <1>2, <2>7, DestroyFit
    <2>8. CASE Redact(t)
        BY <1>2, <2>8, RedactFit, TokenFit
    <2>9. CASE EngineFails(t) \/ Rehydrate(t)
        BY <1>2, <2>9, AnswerFit
    <2>10. CASE TakeSnapshot(t)
        BY <1>2, <2>10, SnapshotFit
    <2>11. CASE PersistSnapshot(t)
        BY <1>2, <2>11, SaveFit, AnswerFit
    <2> QED BY <2>1, <2>2, <2>3, <2>4, <2>5, <2>6, <2>7, <2>8, <2>9, <2>10, <2>11 DEF Serve
<1>7. \A s \in Scopes : Talk(s)' /\ Forgets(s)'
    BY <1>2, <1>4, <1>5, <1>6
<1>8. /\ \A u \in Threads \ {t} : req'[u] = req[u]
      /\ req'[t] = NoRequest \/ req'[t].scope = r
    <2>1. GoesOn(t) \/ Ends(t)
        BY <1>2, ServeStep
    <2> QED BY <1>2, <2>1 DEF GoesOn, Ends, ReqShape
<1>9. ASSUME NEW u \in Threads, req'[u] # NoRequest
      PROVE  RequestInv(u)'
    <2>1. CASE u = t
        BY <1>6, <1>9, <2>1 DEF Fit
    <2>2. CASE u # t
        <3>1. req'[u] = req[u]
            BY <1>8, <2>2
        <3>2. req[u].scope \in Scopes /\ req[u].scope # r
            BY <1>2, <1>9, <2>2, <3>1 DEF Serves, ReqShape
        <3>3. Still(req[u].scope)
            BY <1>5, <3>2 DEF Keeps
        <3> DEFINE s == req[u].scope
        <3>4. s = req[u].scope /\ Still(s)
            BY <3>3
        <3> HIDE DEF s
        <3> QED BY <1>1, <1>9, <3>1, <3>4, OtherRequests
    <2> QED BY <2>1, <2>2
<1>10. ASSUME NEW u \in Threads, NEW w \in Threads, req'[u] # NoRequest,
              Serves(w, req[u].scope)'
       PROVE  u = w
    <2>1. req[u] # NoRequest /\ req[w] # NoRequest /\ req[u].scope = req'[u].scope
          /\ req[w].scope = req'[w].scope
        BY <1>2, <1>8, <1>10 DEF Serves
    <2> QED BY <1>3, <1>10, <2>1 DEF ClientInv, Serves
<1> QED BY <1>7, <1>9, <1>10 DEF ClientInv, Serves

\* So does one that takes up no request, or a new one.
LEMMA OtherTalk ==
    ASSUME Undisturbed, Together, Base', [Next]_writerVars, VaultStep,
           UNCHANGED <<cacheVars, config, snapshots, issued, corrections, session, requested>>,
           \/ req' = req
           \/ \E t \in Threads, kind \in Kinds, s \in Scopes :
                 \E closed \in ClosedModes, arg \in Arguments(kind, s), latest \in Modes(kind) :
                    Start(t, kind, s, arg, latest, closed)
    PROVE  ClientInv' /\ \A s \in Scopes : Talk(s)' /\ Forgets(s)'
<1>1. \A s \in Scopes : Still(s) /\ Untouched(s)
    <2>1. \A c, C : Extends(c, c, C)
        BY DEF Extends
    <2> QED BY <2>1 DEF Still, Untouched, cacheVars, Holds
<1>2. ClientInv /\ Base /\ WritesInv /\ ReqShape /\ \A s \in Scopes : Talk(s) /\ Forgets(s)
    BY DEF Together, TalkInv, Base, ShapeInv
<1>3. \A u \in Threads : req[u] # NoRequest /\ req'[u] = req[u] => RequestInv(u)'
    <2> SUFFICES ASSUME NEW u \in Threads, req[u] # NoRequest, req'[u] = req[u]
                 PROVE  RequestInv(u)'
        OBVIOUS
    <2> DEFINE s == req[u].scope
    <2>1. s \in Scopes /\ s = req[u].scope
        BY <1>2 DEF ReqShape
    <2> HIDE DEF s
    <2> QED BY <1>1, <2>1, OtherRequests
<1>4. CASE req' = req
    <2>1. \A s \in Scopes : Keeps(s)
        BY <1>1, <1>4 DEF Keeps
    <2>2. ClientInv'
        BY <1>2, <1>3, <1>4 DEF ClientInv, Serves
    <2> QED BY <1>2, <2>1, <2>2, KeepsTalk
<1>5. ASSUME NEW t \in Threads, NEW kind \in Kinds, NEW r \in Scopes,
             NEW closed \in ClosedModes, NEW arg \in Arguments(kind, r),
             NEW latest \in Modes(kind), Start(t, kind, r, arg, latest, closed)
      PROVE  ClientInv' /\ \A s \in Scopes : Talk(s)' /\ Forgets(s)'
    <2> DEFINE new == [pc |-> IF kind = "end" THEN "pop" ELSE "resident",
                       kind |-> kind, scope |-> r, arg |-> arg, latest |-> latest,
                     closed |-> closed,
                       resident |-> FALSE, vault |-> NoVault, token |-> 0,
                       content |-> NoContent, victim |-> NoVictim]
    <2>1. /\ req[t] = NoRequest /\ req' = [req EXCEPT ![t] = new]
          /\ \A u \in Threads : req[u].pc # "idle" => req[u].scope # r
        BY <1>5 DEF Start, Undisturbed
    <2>2. /\ new.pc \in {"pop", "resident"} /\ new.kind = kind /\ new.scope = r /\ new.arg = arg
          /\ new.closed = closed /\ new.vault = NoVault /\ new.content = NoContent
        OBVIOUS
    <2> HIDE DEF new
    <2>3. req'[t] = new /\ \A u \in Threads \ {t} : req'[u] = req[u]
        BY <1>2, <2>1 DEF ReqShape
    <2>4. \A s \in Scopes : Keeps(s)
        <3>1. ~\E s \in Scopes : Serves(t, s)
            BY <2>1 DEF Serves
        <3>2. req'[t].pc # "destroy" /\ Fits(t)'
            BY <2>2, <2>3, FitsElsewhere
        <3> QED BY <1>1, <2>3, <3>1, <3>2 DEF Keeps
    <2>5. RequestInv(t)'
        <3>1. closed = TRUE
            BY DEF Undisturbed
        <3>2. kind = "rehydrate" => \E p \in issued'[r] : p[1] = arg
            BY DEF Arguments
        <3> QED BY <2>2, <2>3, <3>1, <3>2 DEF RequestInv
    <2>6. ClientInv'
        <3>1. ASSUME NEW u \in Threads, req'[u] # NoRequest
              PROVE  RequestInv(u)'
            BY <1>3, <2>3, <2>5, <3>1
        <3>2. ASSUME NEW u \in Threads, NEW w \in Threads, req'[u] # NoRequest,
                     req'[w] # NoRequest, req'[w].scope = req'[u].scope
              PROVE  u = w
            <4>1. \A x \in Threads : req[x] # NoRequest => req[x].scope # r
                BY <1>2, <2>1, StageFacts
            <4> QED BY <1>2, <2>2, <2>3, <3>2, <4>1 DEF ClientInv, Serves
        <3> QED BY <3>1, <3>2 DEF ClientInv, Serves
    <2> QED BY <1>2, <2>4, <2>6, KeepsTalk
<1> QED BY <1>4, <1>5

\* A new process has no requests, and the rows of the scopes that lost no write.
LEMMA RestartTalk ==
    ASSUME Together, Base', [Next]_writerVars, RestartProcess
    PROVE  ClientInv' /\ \A s \in Scopes : Talk(s)' /\ Forgets(s)'
<1>1. /\ cache' = <<>> /\ req' = [t \in Threads |-> NoRequest]
      /\ Forget(IF HasStore THEN {} ELSE Scopes)
      /\ queue' = <<>> /\ doing' = [x \in Executors |-> Idle]
      /\ store' = store /\ requested' = requested
      /\ UNCHANGED <<config, snapshots, session>>
    BY DEF RestartProcess, Restart, boundVars
<1>2. \A t \in Threads : req'[t] = NoRequest
    BY <1>1
<1>3. ClientInv'
    BY <1>2 DEF ClientInv
<1>4. ASSUME NEW s \in Scopes, faults'[s] = {}
      PROVE  faults[s] = {}
    BY <1>4, WritesStep DEF Together, Base, WrittenInv, WritesInv
<1>5. \A s : Pending(s)' = {}
    BY <1>1, WriterAssumption DEF Pending, AtWorker, Idle, Executors
<1>6. ASSUME NEW s \in Scopes
      PROVE  Talk(s)'
    <2> SUFFICES ASSUME Intact(s)' PROVE Talk(s)'
        BY DEF Talk
    <2>1. Intact(s)
        BY <1>1, <1>4 DEF Intact
    <2>2. HasStore => Resolves(Latest(s), issued[s], corrections[s])
        BY <2>1 DEF Together, TalkInv, Talk
    <2>3. /\ IF HasStore THEN issued'[s] = issued[s] /\ corrections'[s] = corrections[s]
                          ELSE issued'[s] = {}
          /\ (HasStore' <=> HasStore) /\ Latest(s)' = Latest(s)
        BY <1>1 DEF HasStore, Latest, Forget
    <2>4. \A v : ~Holds(cache', s, v)
        BY <1>1 DEF Holds
    <2> QED BY <1>2, <1>5, <2>2, <2>3, <2>4 DEF Talk, Serves
<1>7. ASSUME NEW s \in Scopes
      PROVE  Forgets(s)'
    <2> SUFFICES ASSUME faults'[s] = {}
                 PROVE  RowsMatch(s)' /\ (HasStore' /\ Over(s)' => LastIsDelete(s)')
        BY DEF Forgets
    <2>1. RowsMatch(s) /\ (HasStore /\ Over(s) => LastIsDelete(s))
        BY <1>4 DEF Together, TalkInv, Forgets
    <2>2. Over(s)' => Over(s)
        BY <1>1, <1>2 DEF Over, Serves
    <2> QED BY <1>1, <1>5, <2>1, <2>2 DEF RowsMatch, LastIsDelete, HasStore
<1> QED BY <1>3, <1>6, <1>7

\* An answer gives a scope a token and its value; nothing else does.
Answers(t, s) ==
    /\ s = req[t].scope /\ Serve(t)
    /\ \/ Redact(t) /\ ~HasStore
       \/ PersistSnapshot(t) /\ Accepts
    /\ \E a, b : issued'[s] = Issued(issued[s], <<a, b>>)
LEMMA GivenStep ==
    ASSUME Together, [MiddlewareNext]_vars, NEW s \in Scopes
    PROVE  issued'[s] \subseteq issued[s] \/ \E t \in Threads : Answers(t, s)
<1>1. DOMAIN issued = Scopes
    BY DEF Together, Base, ValuesInv, AnsweredValues
<1>2. ASSUME NEW t \in Threads, Serve(t), NEW a, NEW b,
             issued' = [issued EXCEPT ![req[t].scope] = Issued(@, <<a, b>>)],
             \/ Redact(t) /\ ~HasStore
             \/ PersistSnapshot(t) /\ Accepts
      PROVE  issued'[s] \subseteq issued[s] \/ Answers(t, s)
    <2> DEFINE pair == <<a, b>>
    <2> HIDE DEF pair
    <2>1. issued' = [issued EXCEPT ![req[t].scope] = Issued(@, pair)]
        BY <1>2 DEF pair
    <2>2. CASE s = req[t].scope
        <3>1. issued'[s] = Issued(issued[s], pair)
            BY <1>1, <2>1, <2>2
        <3> QED BY <1>2, <2>2, <3>1 DEF Answers, pair
    <2>3. CASE s # req[t].scope
        BY <1>1, <2>1, <2>3
    <2> QED BY <2>2, <2>3
<1>3. ASSUME NEW t \in Threads, Arrive(t)
      PROVE  issued' = issued
    BY <1>3 DEF Arrive, Start, Saturated
<1>4. ASSUME NEW t \in Threads, Serve(t)
      PROVE  issued'[s] \subseteq issued[s] \/ Answers(t, s)
    <2>1. CASE Redact(t)
        <3> DEFINE given == TokenOf(heap[req[t].vault], req[t].arg, req[t].latest)
                   value == req[t].arg
        <3>1. \/ issued' = issued
              \/ ~HasStore /\ issued' = [issued EXCEPT ![req[t].scope] = Issued(@, <<given, value>>)]
            BY <2>1 DEF Redact
        <3> HIDE DEF given, value
        <3> QED BY <1>2, <1>4, <2>1, <3>1
    <2>2. CASE PersistSnapshot(t)
        <3> DEFINE given == req[t].token
                   value == req[t].arg
        <3>1. req[t].pc \in Stages
            BY <2>2 DEF PersistSnapshot, Stages
        <3>2. req[t].closed = TRUE
            BY <3>1, Served DEF RequestInv
        <3>3. \/ issued' = issued
              \/ Accepts /\ issued' = [issued EXCEPT ![req[t].scope] = Issued(@, <<given, value>>)]
            BY <2>2, <3>2 DEF PersistSnapshot
        <3> HIDE DEF given, value
        <3> QED BY <1>2, <1>4, <2>2, <3>3
    <2>3. CASE QueueDelete(t)
        <3>1. issued' = issued \/ \E S : Forget(S)
            BY <2>3 DEF QueueDelete
        <3> QED BY <3>1 DEF Forget
    <2>4. CASE \/ CheckResident(t) \/ GateEnsure(t) \/ GateCheck(t) \/ GateRecovered(t)
               \/ GateRecheck(t) \/ GateDecide(t) \/ Lookup(t) \/ Load(t) \/ LoadFails(t)
               \/ Insert(t) \/ PopSession(t) \/ DestroyVault(t) \/ EngineFails(t)
               \/ TakeSnapshot(t) \/ Rehydrate(t)
        <3>1. issued' = issued
            BY <2>4 DEF CheckResident, GateEnsure, GateCheck, GateRecovered, GateRecheck,
                        GateDecide, Lookup, Load, LoadFails, Insert, PopSession, DestroyVault,
                        EngineFails, TakeSnapshot, Rehydrate
        <3> QED BY <3>1
    <2> QED BY <1>4, <2>1, <2>2, <2>3, <2>4 DEF Serve
<1>5. CASE RestartProcess
    BY <1>5 DEF RestartProcess, Forget
<1>6. CASE \/ \E i \in DOMAIN cache : Expire(i)
           \/ HealthProbe \/ Background \/ UNCHANGED vars
    <2>1. issued' = issued
        BY <1>6 DEF Expire, HealthProbe, HealthPrune, Background, middlewareVars, vars
    <2> QED BY <2>1
<1> QED BY <1>3, <1>4, <1>5, <1>6 DEF MiddlewareNext

\* Without a store nothing is written, and nobody ends an unknown session.
LEMMA SettingsStep ==
    ASSUME Together, [MiddlewareNext]_vars
    PROVE  Settings' /\ config' = config
<1>1. ShapeInv /\ Settings
    BY DEF Together, Base, TalkInv
<1>2. /\ config' = config
      /\ session' = session \/ \E s, x : session' = [session EXCEPT ![s] = x]
      /\ store' = store \/ HasStore
    <2>1. ASSUME NEW t \in Threads, Arrive(t)
          PROVE  <1>2
        BY <2>1 DEF Arrive, Start, Saturated, writerVars
    <2>2. ASSUME NEW t \in Threads, Serve(t)
          PROVE  <1>2
        <3>1. CASE CheckResident(t) \/ Lookup(t)
            BY <3>1 DEF CheckResident, Lookup, PruneDeletes, boundVars
        <3>2. CASE GateEnsure(t) \/ GateCheck(t)
            BY <3>2 DEF GateEnsure, GateCheck, EnsureWorkerRunning, StartRecovery, writerVars,
                        boundVars
        <3>3. CASE \/ GateRecovered(t) \/ GateRecheck(t) \/ GateDecide(t) \/ Load(t)
                   \/ LoadFails(t)
            BY <3>3 DEF GateRecovered, GateRecheck, GateDecide, Load, LoadFails, writerVars,
                        boundVars
        <3>4. CASE Insert(t) \/ PopSession(t)
            BY <3>4 DEF Insert, PopSession, writerVars, boundVars
        <3>5. CASE QueueDelete(t)
            BY <3>5 DEF QueueDelete, EnqueueTask, Enqueue, writerVars, boundVars
        <3>6. CASE DestroyVault(t) \/ Redact(t)
            BY <3>6 DEF DestroyVault, Redact, writerVars, boundVars
        <3>7. CASE EngineFails(t) \/ TakeSnapshot(t) \/ Rehydrate(t)
            BY <3>7 DEF EngineFails, TakeSnapshot, Rehydrate, writerVars, boundVars
        <3>8. CASE PersistSnapshot(t)
            BY <3>8 DEF PersistSnapshot, EnqueueTask, Enqueue, writerVars, boundVars
        <3> QED BY <2>2, <3>1, <3>2, <3>3, <3>4, <3>5, <3>6, <3>7, <3>8 DEF Serve
    <2>3. ASSUME NEW i \in DOMAIN cache, Expire(i)
          PROVE  <1>2
        BY <2>3 DEF Expire, writerVars
    <2>4. CASE HealthProbe
        BY <2>4 DEF HealthProbe, HealthPrune, PruneDeletes, EnsureWorkerRunning, middlewareVars,
                    boundVars
    <2>5. CASE Background \/ UNCHANGED vars
        BY <2>5 DEF Background, middlewareVars, boundVars, vars, writerVars
    <2>6. CASE RestartProcess
        BY <2>6 DEF RestartProcess, Restart, boundVars
    <2> QED BY <2>1, <2>2, <2>3, <2>4, <2>5, <2>6 DEF MiddlewareNext
<1>3. ASSUME NEW s \in Scopes
      PROVE  Given(issued'[s])
    <2>1. Given(issued[s])
        BY <1>1 DEF Settings
    <2>2. CASE issued'[s] \subseteq issued[s]
        BY <2>1, <2>2 DEF Given
    <2>3. CASE \E t \in Threads : Answers(t, s)
        <3>1. PICK a, b : issued'[s] = Issued(issued[s], <<a, b>>)
            BY <2>3 DEF Answers
        <3> QED BY <2>1, <3>1, IssuedGiven
    <2> QED BY <2>2, <2>3, GivenStep
<1> QED BY <1>1, <1>2, <1>3 DEF Settings, HasStore

\* At the start every scope has the row an earlier process saved, if any.
LEMMA TalkStart ==
    ASSUME Init
    PROVE  TalkInv
<1>1. /\ queue = <<>> /\ doing = [x \in Executors |-> Idle] /\ cache = <<>>
      /\ requested = [s \in Scopes |-> IF Saved(s) THEN 1 ELSE 0]
      /\ store = [s \in Scopes |-> [row |-> Saved(s), seq |-> requested[s]]]
      /\ snapshots = [s \in Scopes |-> IF Saved(s) THEN <<<<FirstValue(s)>>>> ELSE <<>>]
      /\ issued = [s \in Scopes |-> IF Saved(s) THEN {<<1, FirstValue(s)>>} ELSE {}]
      /\ corrections = [s \in Scopes |-> {}]
      /\ req = [t \in Threads |-> NoRequest] /\ session = [s \in Scopes |-> "open"]
    BY DEF Init, NewWriter
<1>2. \A t \in Threads : req[t] = NoRequest
    BY <1>1
<1>3. \A s : Pending(s) = {}
    BY <1>1, WriterAssumption DEF Pending, AtWorker, Idle, Executors
<1>4. ASSUME NEW s \in Scopes
      PROVE  /\ store[s].row = Saved(s)
             /\ store[s].seq = IF Saved(s) THEN 1 ELSE 0
             /\ requested[s] = IF Saved(s) THEN 1 ELSE 0
             /\ issued[s] = IF Saved(s) THEN {<<1, FirstValue(s)>>} ELSE {}
             /\ session[s] = "open"
             /\ Saved(s) => Latest(s) = <<FirstValue(s)>>
    <2>1. requested[s] = IF Saved(s) THEN 1 ELSE 0
        BY <1>1
    <2>2. store[s] = [row |-> Saved(s), seq |-> requested[s]]
        BY <1>1
    <2>3. Saved(s) => snapshots[s] = <<<<FirstValue(s)>>>>
        BY <1>1
    <2>4. Saved(s) => Latest(s) = <<FirstValue(s)>>
        BY <2>1, <2>3 DEF Latest
    <2>5. store[s].row = Saved(s)
        <3> DEFINE row == Saved(s)
        <3>1. store[s] = [row |-> row, seq |-> requested[s]]
            BY <2>2
        <3> HIDE DEF row
        <3>2. store[s].row = row
            BY <3>1
        <3> QED BY <3>2 DEF row
    <2> QED BY <1>1, <2>1, <2>2, <2>4, <2>5
<1>5. Settings
    <2>1. ASSUME ~HasStore, NEW s \in Scopes
          PROVE  ~store[s].row
        <3>1. ~Saved(s)
            BY <2>1 DEF Saved
        <3> QED BY <1>4, <3>1, Zenon
    <2>2. ASSUME NEW s \in Scopes
          PROVE  Given(issued[s])
        <3> DEFINE v == FirstValue(s)
        <3>1. \A p \in issued[s] : p = <<1, v>>
            BY <1>4
        <3> HIDE DEF v
        <3> QED BY <3>1 DEF Given
    <2> QED BY <1>1, <2>1, <2>2 DEF Settings
<1>6. ASSUME NEW s \in Scopes
      PROVE  Talk(s) /\ Forgets(s)
    <2>1. Resolves(<<FirstValue(s)>>, {<<1, FirstValue(s)>>}, corrections[s])
        <3>1. 1 \in DOMAIN <<FirstValue(s)>> /\ <<FirstValue(s)>>[1] = FirstValue(s)
            OBVIOUS
        <3> QED BY <3>1 DEF Resolves
    <2>2. \A v : ~Holds(cache, s, v)
        BY <1>1 DEF Holds
    <2>3. Talk(s)
        <3>1. CASE Saved(s)
            <4>1. HasStore /\ issued[s] = {<<1, FirstValue(s)>>} /\ Latest(s) = <<FirstValue(s)>>
                BY <1>4, <3>1 DEF Saved
            <4> QED BY <1>2, <1>3, <2>1, <2>2, <4>1 DEF Talk, Serves
        <3>2. CASE ~Saved(s)
            BY <1>2, <1>4, <2>2, <3>2 DEF Talk, Serves, Resolves
        <3> QED BY <3>1, <3>2
    <2>4. ~store[s].row => store[s].seq = 0
        <3>1. ~store[s].row => ~Saved(s)
            BY <1>4, Zenon
        <3> QED BY <1>4, <3>1
    <2>5. ~Over(s)
        BY <1>2, <1>4 DEF Over, Serves
    <2> QED BY <1>3, <2>3, <2>4, <2>5 DEF Forgets, RowsMatch
<1> QED BY <1>2, <1>5, <1>6 DEF TalkInv, ClientInv

\* And so it is through every step.
LEMMA TalkStep ==
    ASSUME Undisturbed, Base, WritesInv, TalkInv, Base', [MiddlewareNext]_vars
    PROVE  TalkInv'
<1>1. Together
    BY DEF Together
<1>2. [Next]_writerVars /\ VaultStep
    BY CalmStep, EveryVaultStep DEF Base, WritesInv, StepOK
<1>3. Settings'
    BY <1>1, SettingsStep
<1>4. ClientInv' /\ \A s \in Scopes : Talk(s)' /\ Forgets(s)'
    <2>1. ASSUME NEW t \in Threads, Serve(t)
          PROVE  <1>4
        BY <1>1, <1>2, <2>1, ServeTalk
    <2>2. ASSUME NEW t \in Threads, Arrive(t)
          PROVE  <1>4
        <3>1. ASSUME NEW kind \in Kinds, NEW s \in Scopes, NEW closed \in ClosedModes,
                     NEW arg \in Arguments(kind, s), NEW latest \in Modes(kind),
                     Start(t, kind, s, arg, latest, closed)
              PROVE  <1>4
            <4>1. UNCHANGED <<cacheVars, config, snapshots, issued, corrections, session, requested>>
                BY <3>1 DEF Start, writerVars
            <4> QED BY <1>1, <1>2, <3>1, <4>1, OtherTalk
        <3>2. ASSUME NEW kind, NEW s, Saturated(kind, s)
              PROVE  <1>4
            <4>1. /\ UNCHANGED <<cacheVars, config, snapshots, issued, corrections, session, requested>>
                  /\ req' = req
                BY <3>2 DEF Saturated, writerVars
            <4> QED BY <1>1, <1>2, <4>1, OtherTalk
        <3> QED BY <2>2, <3>1, <3>2 DEF Arrive
    <2>3. CASE RestartProcess
        BY <1>1, <1>2, <2>3, RestartTalk
    <2>4. CASE HealthProbe \/ Background \/ UNCHANGED vars
        <3>1. ~HealthPrune
            BY NothingStale DEF HealthPrune, Base, ShapeInv, CacheInv, WritesInv
        <3>2. /\ UNCHANGED <<cacheVars, config, snapshots, issued, corrections, session>> /\ req' = req
              /\ requested' = requested
            <4>1. CASE HealthProbe
                BY <3>1, <4>1 DEF HealthProbe, EnsureWorkerRunning, middlewareVars, boundVars
            <4>2. CASE Background
                BY <4>2 DEF Background, WorkerTake, Perform, StoreSucceeds, StoreFails,
                            RecordSuccess, RecordFailure, CooldownElapses, WorkerDies,
                            middlewareVars, boundVars
            <4>3. CASE UNCHANGED vars
                BY <4>3 DEF vars, writerVars, middlewareVars, boundVars
            <4> QED BY <2>4, <4>1, <4>2, <4>3
        <3> QED BY <1>1, <1>2, <3>2, OtherTalk
    <2>5. ASSUME NEW i \in DOMAIN cache, Expire(i)
          PROVE  FALSE
        BY <2>5 DEF Expire, Undisturbed, WritesInv
    <2> QED BY <2>1, <2>2, <2>3, <2>4, <2>5 DEF MiddlewareNext
<1> QED BY <1>3, <1>4 DEF TalkInv

--------------------------------------------------------------------------------
(* What a conversation may rely on.                                           *)

\* The inductive invariant: TalkInv with what it rests on.
THEOREM ConversationInvariant ==
    ASSUME Undisturbed
    PROVE  MiddlewareSpec => [](Base /\ WritesInv /\ TalkInv)
<1>1. Init => TalkInv
    BY TalkStart
<1>2. Base /\ WritesInv /\ TalkInv /\ Base' /\ [MiddlewareNext]_vars => TalkInv'
    BY TalkStep
<1> QED BY <1>1, <1>2, BaseInvariant, WritesInvariant, PTL DEF MiddlewareSpec

\* A token given out in a scope that lost no write is given out for another value only when
\* that value took it over from the one before (register with prefer_latest), over reloads,
\* retries, worker deaths and restarts: _get_or_create_vault brings back the numbers with
\* their values, and _persist_snapshot has queued both before they are answered.
THEOREM TokensAreStable ==
    ASSUME Undisturbed
    PROVE  MiddlewareSpec => TokenStable
<1> DEFINE A == \A s \in Scopes : Intact(s) =>
          \A p \in issued[s], q \in issued'[s] :
             p[1] = q[1] /\ p # q => q \in corrections'[s]
<1>1. Base /\ WritesInv /\ TalkInv /\ (Base /\ WritesInv /\ TalkInv)' /\ [MiddlewareNext]_vars
      => A
    <2> SUFFICES ASSUME Base, WritesInv, TalkInv, Base', [MiddlewareNext]_vars, NEW s \in Scopes
                 PROVE  Stable(s)
        BY DEF Stable
    <2>1. Together
        BY DEF Together
    <2>2. CASE issued'[s] \subseteq issued[s]
        <3>1. Given(issued[s])
            BY DEF TalkInv, Settings
        <3> QED BY <2>2, <3>1 DEF Given, Stable
    <2>3. ASSUME NEW t \in Threads, Answers(t, s)
          PROVE  Stable(s)
        BY <2>1, <2>3, TokenFit, SaveFit DEF Answers
    <2> QED BY <2>1, <2>2, <2>3, GivenStep
<1> QED BY <1>1, ConversationInvariant, PTL DEF MiddlewareSpec, TokenStable

\* Once the writes of such a scope are done, its row alone resolves every token it was
\* given, to the value it was last answered for or a correction that took it over, so that a process that has only the store can go on with the conversation
\* (_persist_snapshot, _get_or_create_vault).
THEOREM RowsRehydrate ==
    ASSUME Undisturbed
    PROVE  MiddlewareSpec => []AnyInstanceRehydrates
<1>1. Base /\ WritesInv /\ TalkInv => AnyInstanceRehydrates
    <2> SUFFICES ASSUME Base, WritesInv, TalkInv, NEW s \in Scopes,
                        HasStore, Settled(s), Intact(s)
                 PROVE  Resolves(Row(s), issued[s], corrections[s])
        BY DEF AnyInstanceRehydrates, Resolves
    <2>1. Talk(s) /\ Forgets(s) /\ faults[s] = {} /\ Pending(s) = {}
        BY DEF TalkInv, Intact, Settled
    <2>2. Row(s) = Latest(s)
        BY <2>1, RowIsLatest DEF Forgets
    <2> QED BY <2>1, <2>2 DEF Talk
<1> QED BY <1>1, ConversationInvariant, PTL

\* Once the writes of a scope whose session is over have drained, the store has no row
\* of it, whatever saves were queued or under way when it ended (end_session).
THEOREM EndsForget ==
    ASSUME Undisturbed
    PROVE  MiddlewareSpec => []EndForgets
<1>1. Base /\ WritesInv /\ TalkInv => EndForgets
    <2> SUFFICES ASSUME Base, WritesInv, TalkInv, NEW s \in Scopes,
                        session[s] = "over", Settled(s), faults[s] = {}
                 PROVE  ~store[s].row
        BY DEF EndForgets
    <2>1. Settings /\ Forgets(s) /\ Pending(s) = {} /\ Over(s)
        BY DEF TalkInv, Settled, Over
    <2>2. CASE HasStore
        <3>1. LastIsDelete(s)
            BY <2>1, <2>2 DEF Forgets
        <3>2. store[s].seq = requested[s]
            BY <2>1, Drained DEF Base, WrittenInv, WritesInv
        <3> QED BY <3>1, <3>2 DEF LastIsDelete
    <2>3. CASE ~HasStore
        BY <2>1, <2>3 DEF Settings
    <2> QED BY <2>2, <2>3
<1> QED BY <1>1, ConversationInvariant, PTL

\* A rehydration of an undisturbed process that is answered answers what the scope was
\* last given with the token, or the correction that has taken the token over since: never
\* nothing, and never a value of another token (rehydrate).
THEOREM IssuedRehydrate ==
    ASSUME Undisturbed
    PROVE  MiddlewareSpec => RehydratesIssued
<1> DEFINE A == \A t \in Threads :
          req[t].pc = "engine" /\ req[t].kind = "rehydrate" /\ Intact(req[t].scope)
                /\ req'[t] = NoRequest /\ restarts' = restarts /\ reply'.outcome # "raised"
             => reply'.content \in issued[req[t].scope] \cup corrections[req[t].scope]
<1>1. Base /\ WritesInv /\ TalkInv /\ [MiddlewareNext]_vars => A
    <2> SUFFICES ASSUME Base, WritesInv, TalkInv, [MiddlewareNext]_vars,
                        NEW t \in Threads, req[t].pc = "engine", req[t].kind = "rehydrate",
                        Intact(req[t].scope), req'[t] = NoRequest, restarts' = restarts,
                        reply'.outcome # "raised"
                 PROVE  reply'.content \in issued[req[t].scope] \cup corrections[req[t].scope]
        OBVIOUS
    <2> DEFINE s == req[t].scope
    <2>1. Together /\ req[t].pc \in Stages
        BY DEF Together, Stages
    <2>2. /\ req[t] # NoRequest /\ s \in Scopes /\ StageOK(req[t]) /\ RequestInv(t) /\ ReqShape
          /\ Talk(s)
        BY <2>1, Served
    <2>3. Serve(t)
        <3>1. ASSUME NEW u \in Threads, u # t, Arrive(u) \/ Serve(u)
              PROVE  FALSE
            <4>1. Begins(u) \/ GoesOn(u) \/ Ends(u) \/ req' = req
                BY <2>2, <3>1, ArriveStep, ServeStep
            <4>2. req'[t] = req[t]
                BY <2>2, <3>1, <4>1 DEF Begins, GoesOn, Ends, ReqShape
            <4> QED BY <2>2, <4>2
        <3>2. ~Arrive(t)
            <4>1. Arrive(t) => Begins(t) \/ req' = req
                BY <2>2, ArriveStep
            <4> QED BY <2>2, <4>1 DEF Begins
        <3>3. ~RestartProcess
            BY DEF RestartProcess, Restart, Base, WrittenInv, TypeOK
        <3>4. req' # req
            BY <2>2
        <3>5. CASE \/ \E i \in DOMAIN cache : Expire(i)
                   \/ HealthProbe \/ Background \/ UNCHANGED vars
            BY <3>4, <3>5 DEF Expire, HealthProbe, HealthPrune, Background, middlewareVars, vars
        <3> QED BY <3>1, <3>2, <3>3, <3>5 DEF MiddlewareNext
    <2>4. ~EngineFails(t)
        BY <2>2 DEF EngineFails, Fail, Answer, RequestInv
    <2>5. Rehydrate(t)
        BY <2>3, <2>4 DEF Serve, CheckResident, GateEnsure, GateCheck, GateRecovered, GateRecheck,
              GateDecide, Lookup, Load, LoadFails, Insert, PopSession, QueueDelete, DestroyVault,
              Redact, TakeSnapshot, PersistSnapshot
    <2>6. PICK p \in issued[s] : p[1] = req[t].arg
        BY <2>2 DEF RequestInv
    <2>7. Resolves(heap[req[t].vault], issued[s], corrections[s])
        <3>1. Holds(cache, s, req[t].vault)
            BY <2>2 DEF RequestInv, StageOK, VaultIds, NoVault
        <3> QED BY <2>2, <3>1 DEF Talk
    <2> DEFINE v == heap[req[t].vault][p[1]]
    <2>8. p[1] \in DOMAIN heap[req[t].vault] /\ (v = p[2] \/ <<p[1], v>> \in corrections[s])
        BY <2>6, <2>7 DEF Resolves
    <2>9. reply'.content = <<p[1], v>>
        BY <2>5, <2>6, <2>8 DEF Rehydrate, Answer
    <2>10. p = <<p[1], p[2]>>
        BY <2>2, <2>6 DEF TalkInv, Settings, Given
    <2> HIDE DEF v
    <2> QED BY <2>6, <2>8, <2>9, <2>10
<1> QED BY <1>1, ConversationInvariant, PTL DEF MiddlewareSpec, RehydratesIssued
================================================================================

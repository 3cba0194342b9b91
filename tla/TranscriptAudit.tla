---------------------------- MODULE TranscriptAudit ----------------------------
(***************************************************************************)
(* TranscriptAuditService (transcript_audit.py) over a ThreadPoolExecutor:  *)
(* callers take a slot, submit a replay, count it, leave a callback and     *)
(* wait; workers run the replays; whoever ends a future runs its callback,  *)
(* which is the only thing that gives the slot back.  The pool's futures    *)
(* and queue are modelled from how the service uses them.                   *)
(***************************************************************************)
EXTENDS AllowlistCache

CONSTANTS
    Callers,            \* request threads
    Workers,            \* threads the pool may start: the largest max_concurrency
    FutureIds           \* bound on the futures somebody still refers to

NoFuture == 0

ASSUME UsersAssumption == Callers \cup Workers = Users /\ Callers \cap Workers = {}
ASSUME CallersAssumption == IsFiniteSet(Callers)
ASSUME FutureIdsAssumption == NoFuture \notin FutureIds /\ IsFiniteSet(FutureIds)

VARIABLES
    maxConcurrency,     \* _max_concurrency
    slots,              \* the value of _slots
    active,             \* _active
    pool,               \* the executor: "open", "draining", "joining", "closed"; and the
                        \* future shutdown() has just cancelled
    pending,            \* its queue of futures
    fut,                \* fut[f]: a future
    worker,             \* worker[w]: what the worker is at
    caller              \* caller[c]: where the caller is in audit()

auditVars == <<maxConcurrency, slots, active, pool, pending, fut, worker, caller>>

\* callback: "none" until add_done_callback, then "left"; "due" once the future is
\* done; "counted" between its two steps; "done".
FreeFuture == [state |-> "free", callback |-> "none"]
IdleWorker == [step |-> "idle", fut |-> NoFuture]
OpenPool == [step |-> "open", fut |-> NoFuture]
IdleCaller == [step |-> "idle", fut |-> NoFuture]

AuditInit(concurrency) ==
    /\ maxConcurrency = concurrency
    /\ slots = concurrency
    /\ active = 0
    /\ pool = OpenPool
    /\ pending = <<>>
    /\ fut = [f \in FutureIds |-> FreeFuture]
    /\ worker = [w \in Workers |-> IdleWorker]
    /\ caller = [c \in Callers |-> IdleCaller]

\* A new process.
AuditRestart ==
    /\ slots' = maxConcurrency
    /\ active' = 0
    /\ pool' = OpenPool
    /\ pending' = <<>>
    /\ fut' = [f \in FutureIds |-> FreeFuture]
    /\ worker' = [w \in Workers |-> IdleWorker]
    /\ caller' = [c \in Callers |-> IdleCaller]
    /\ UNCHANGED maxConcurrency

Done(f) == fut[f].state \in {"finished", "cancelled"}
Unused == {f \in FutureIds : fut[f].state = "free"}
CallerOf(f) == {c \in Callers : caller[c].fut = f}

\* A future whose callback has run and that no caller waits for is garbage.
Kept(fs, callers) ==
    [f \in FutureIds |->
        IF /\ fs[f].callback = "done"
           /\ \A c \in Callers : callers[c].fut # f
        THEN FreeFuture ELSE fs[f]]

At(c, step) == caller[c].step = step
Go(c, step) == caller' = [caller EXCEPT ![c].step = step]
Return(c) == caller' = [caller EXCEPT ![c] = IdleCaller]

--------------------------------------------------------------------------------
(* audit()                                                                     *)

Acquire(c) ==
    /\ At(c, "acquire") /\ slots > 0
    /\ slots' = slots - 1
    /\ Go(c, "submit")
    /\ UNCHANGED <<maxConcurrency, active, pool, pending, fut, worker>>

\* Nothing came free in time, or the time cannot be waited for: an OverflowError.
SaturatedAudit(c) ==
    /\ At(c, "acquire") /\ slots = 0
    /\ Return(c)
    /\ UNCHANGED <<maxConcurrency, slots, active, pool, pending, fut, worker>>

\* submit() and shutdown() exclude each other.
Submit(c) ==
    /\ At(c, "submit") /\ pool.step = "open"
    /\ Unused # {}
    /\ LET f == CHOOSE g \in Unused : TRUE
       IN  /\ fut' = [fut EXCEPT ![f].state = "pending"]
           /\ pending' = Append(pending, f)
           /\ caller' = [caller EXCEPT ![c].step = "count", ![c].fut = f]
    /\ UNCHANGED <<maxConcurrency, slots, active, pool, worker>>

\* RuntimeError: the pool is shut down, and no future will give the slot back.
\* (Mutant: through _release_slot, which also takes back a count.)
RefusedAndUncounted(c) ==
    /\ At(c, "submit") /\ pool.step \in {"joining", "closed"}
    /\ slots' = slots + 1
    /\ active' = IF active = 0 THEN 0 ELSE active - 1
    /\ Return(c)
    /\ UNCHANGED <<maxConcurrency, pool, pending, fut, worker>>
SubmitRefused(c) ==
    /\ At(c, "submit") /\ pool.step \in {"joining", "closed"}
    /\ slots' = slots + 1
    /\ Return(c)
    /\ UNCHANGED <<maxConcurrency, active, pool, pending, fut, worker>>

Count(c) ==
    /\ At(c, "count")
    /\ active' = active + 1
    /\ Go(c, "register")
    /\ UNCHANGED <<maxConcurrency, slots, pool, pending, fut, worker>>

\* add_done_callback: if the future is done already the caller runs the callback.
\* (Mutant: it is left only where it is not.)
CallbackUnlessDone(f) == IF Done(f) THEN "none" ELSE "left"
Callback(f) == IF Done(f) THEN "due" ELSE "left"

AddCallback(c) ==
    LET f == caller[c].fut
    IN  /\ At(c, "register")
        /\ fut' = [fut EXCEPT ![f].callback = Callback(f)]
        /\ Go(c, IF Callback(f) = "due" THEN "callback" ELSE "wait")
        /\ UNCHANGED <<maxConcurrency, slots, active, pool, pending, worker>>

\* The answer: the outcome of the future, whatever it is (a cancelled one raises
\* CancelledError), or the 504 of a caller whose callback has run.
Result(c) ==
    LET f == caller[c].fut
    IN  /\ At(c, "wait") /\ Done(f)
        /\ Return(c)
        /\ fut' = Kept(fut, caller')
        /\ UNCHANGED <<maxConcurrency, slots, active, pool, pending, worker>>

Timeout(c) ==
    /\ At(c, "wait") /\ ~Done(caller[c].fut)
    /\ Go(c, "cancel")
    /\ UNCHANGED <<maxConcurrency, slots, active, pool, pending, fut, worker>>

\* A deadline that result() cannot wait for: OverflowError, which audit() does not
\* catch.  The caller leaves, the future stays and nobody cancels it.
WaitRefused(c) ==
    /\ At(c, "wait") /\ ~Done(caller[c].fut)
    /\ Return(c)
    /\ fut' = Kept(fut, caller')
    /\ UNCHANGED <<maxConcurrency, slots, active, pool, pending, worker>>

\* The callback of a future that has just ended is due if it was left there.
Ended(f, state) ==
    [f EXCEPT !.state = state, !.callback = IF @ = "left" THEN "due" ELSE @]

\* cancel() ends a pending future; a running one goes on and keeps its slot.
\* (Mutant: the slot is given back whatever the future does.)
CancelAndRelease(f) == IF f.state = "pending" THEN Ended(f, "cancelled")
                       ELSE Ended(f, f.state)
Cancelled(f) == IF f.state = "pending" THEN Ended(f, "cancelled") ELSE f

\* The 504 leaves after a callback this thread runs.  A pool skips the cancelled
\* futures of its queue: they leave it here.
Cancel(c) ==
    LET f == caller[c].fut
        cancels == fut[f].state = "pending"
    IN  /\ At(c, "cancel")
        /\ caller' = [caller EXCEPT ![c] = IF cancels THEN [@ EXCEPT !.step = "callback"]
                                          ELSE IdleCaller]
        /\ fut' = Kept([fut EXCEPT ![f] = Cancelled(@)], caller')
        /\ IF cancels
           THEN \E i \in DOMAIN pending :
                    /\ pending[i] = f
                    /\ pending' = SubSeq(pending, 1, i - 1) \o SubSeq(pending, i + 1, Len(pending))
           ELSE pending' = pending
        /\ UNCHANGED <<maxConcurrency, slots, active, pool, worker>>

--------------------------------------------------------------------------------
(* _release_slot(), in the thread that ended the future: the count under the   *)
(* state lock, then the slot.                                                  *)

ReleaseCount(f) ==
    /\ fut[f].callback = "due"
    /\ active' = IF active = 0 THEN 0 ELSE active - 1
    /\ fut' = [fut EXCEPT ![f].callback = "counted"]
    /\ UNCHANGED <<maxConcurrency, slots, pool, pending, worker, caller>>

\* The thread goes on: the worker to its next future, the pool to the next one of
\* the queue, the caller to its answer.
ReleaseSlot(f) ==
    /\ fut[f].callback = "counted"
    /\ slots' = slots + 1
    /\ worker' = [w \in Workers |-> IF worker[w] = [step |-> "callback", fut |-> f]
                                   THEN IdleWorker ELSE worker[w]]
    /\ pool' = [pool EXCEPT !.fut = IF @ = f THEN NoFuture ELSE @]
    /\ caller' = [c \in Callers |-> IF caller[c].fut = f /\ At(c, "callback")
                                   THEN [caller[c] EXCEPT !.step = "wait"] ELSE caller[c]]
    /\ fut' = Kept([fut EXCEPT ![f].callback = "done"], caller')
    /\ UNCHANGED <<maxConcurrency, active, pending>>

--------------------------------------------------------------------------------
(* The workers and the shutdown of the pool.                                   *)

\* The first future of the queue.
Take(w) ==
    LET f == Head(pending)
    IN  /\ worker[w].step = "idle" /\ w <= maxConcurrency
        /\ pending # <<>>
        /\ pending' = Tail(pending)
        /\ fut' = [fut EXCEPT ![f].state = "running"]
        /\ worker' = [worker EXCEPT ![w] = [step |-> "list", fut |-> f]]
        /\ UNCHANGED <<maxConcurrency, slots, active, pool, caller>>

\* The terms of the cache are in; then the replay.
Replay(w) ==
    /\ worker[w].step = "list"
    /\ worker' = [worker EXCEPT ![w].step = "replay"]
    /\ UNCHANGED <<maxConcurrency, slots, active, pool, pending, fut, caller>>

\* The future gets its result, or the exception of the replay; then its callback, if
\* one was left by now, runs here.  (Mutant: an exception ends nothing.)
FinishReplayed(w) ==
    LET f == worker[w].fut
    IN  /\ worker[w].step = "replay"
        /\ fut' = [fut EXCEPT ![f] = Ended(@, "finished")]
        /\ worker' = [worker EXCEPT ![w] =
              IF fut[f].callback = "left" THEN [@ EXCEPT !.step = "callback"] ELSE IdleWorker]
        /\ UNCHANGED <<maxConcurrency, slots, active, pool, pending, caller>>
Finish(w) ==
    LET f == worker[w].fut
    IN  /\ worker[w].step \in {"list", "replay"}
        /\ fut' = [fut EXCEPT ![f] = Ended(@, "finished")]
        /\ worker' = [worker EXCEPT ![w] =
              IF fut[f].callback = "left" THEN [@ EXCEPT !.step = "callback"] ELSE IdleWorker]
        /\ UNCHANGED <<maxConcurrency, slots, active, pool, pending, caller>>

\* close(): the pool takes no more work, pending futures are cancelled one by one,
\* each with its callback, and the workers are joined.
Close ==
    /\ pool.step = "open"
    /\ pool' = [pool EXCEPT !.step = IF pending = <<>> THEN "joining" ELSE "draining"]
    /\ UNCHANGED <<maxConcurrency, slots, active, pending, fut, worker, caller>>

Drain ==
    LET f == Head(pending)
    IN  /\ pool.step = "draining" /\ pool.fut = NoFuture
        /\ pending # <<>>
        /\ pending' = Tail(pending)
        /\ fut' = [fut EXCEPT ![f] = Cancelled(@)]
        /\ pool' = [pool EXCEPT !.fut = IF fut[f].callback = "left" THEN f ELSE NoFuture]
        /\ UNCHANGED <<maxConcurrency, slots, active, worker, caller>>

Drained ==
    /\ pool = [step |-> "draining", fut |-> NoFuture]
    /\ pending = <<>>
    /\ pool' = [step |-> "joining", fut |-> NoFuture]
    /\ UNCHANGED <<maxConcurrency, slots, active, pending, fut, worker, caller>>

Joined ==
    /\ pool.step = "joining"
    /\ \A w \in Workers : worker[w].step = "idle"
    /\ pool' = [step |-> "closed", fut |-> NoFuture]
    /\ UNCHANGED <<maxConcurrency, slots, active, pending, fut, worker, caller>>
================================================================================

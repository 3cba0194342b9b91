---------------------------- MODULE RedactorService ----------------------------
(***************************************************************************)
(* The HTTP service (server.py): start-up, the routes that share the        *)
(* allowlist cache and the audit pool, and shutdown.  Request threads and   *)
(* audit workers are the users of the cache: /allowlist/refresh and         *)
(* /audit/transcript.   /redact's call of the cache is the same get as a    *)
(* worker's and the rest of it is PIIMiddleware's; /rehydrate, /session/end *)
(* and /health touch neither.                                               *)
(***************************************************************************)
EXTENDS TranscriptAudit, RedactorConfig

CONSTANTS
    Refreshers,     \* bound: the callers that refresh
    Refreshes,      \* requests to /allowlist/refresh: [terms, payload, selectors]
    Payloads,       \* payloads and selectors for SelectsCovered
    Selectors,
    Keys            \* what callers send as their API key

VARIABLES
    deployment,     \* the deployment the process belongs to
    phase           \* "starting", "serving", "refused"

ASSUME RefreshersAssumption == Refreshers \subseteq Callers

ASSUME SelectorsAssumption ==
    /\ \A payload \in Payloads : JsonDocument(payload)
    /\ \A s \in {x \in Selectors : x.parses} : s.tokens \in Seq(Token)

vars == <<deployment, phase, cacheVars, auditVars>>

SettingsOf == [d \in Deployments |-> GetSettings(Envs[d])]
settings == SettingsOf[deployment]
env == Envs[deployment]

ServiceInit ==
    /\ deployment \in Deployments
    /\ phase = "starting"
    /\ CacheInit
    /\ AuditInit(settings.auditConcurrency)

\* The import of server.py, up to the lifespan.
Start ==
    /\ phase = "starting"
    /\ phase' = IF Fit(settings, env) THEN "serving" ELSE "refused"
    /\ UNCHANGED <<deployment, cacheVars, auditVars>>

\* A request begins its work once its key has been accepted and its body found
\* valid; 401, 422 and the 503 of a server without a key end it here.  A server that
\* shuts down takes no more requests; those it has may still be at work.
Accepts(c, key) ==
    /\ phase = "serving" /\ pool.step = "open"
    /\ At(c, "idle")
    /\ Authorize(settings, key) = 200

AuditRequest(c, key) ==
    /\ Accepts(c, key)
    /\ Go(c, "acquire")
    /\ UNCHANGED <<deployment, phase, cacheVars, maxConcurrency, slots, active, pool, pending, fut, worker>>

\* An audit call, or the shutdown of the pool.
Audit(A) == A /\ UNCHANGED <<deployment, phase, cacheVars>>

\* A step of a call of the cache.
Cached(A) == A /\ UNCHANGED <<deployment, phase, auditVars>>

--------------------------------------------------------------------------------
(* /allowlist/refresh                                                          *)

\* The terms of the request and those its selectors name.
RequestedTerms ==
    [r \in Refreshes |->
        r.terms \cup UNION {Extract(r.payload, s) : s \in {x \in r.selectors : r.payload # <<>>}}]

\* _normalize_text_phrase leaves a normal phrase alone.
ASSUME NormalAssumption ==
    \A terms \in StoredLists \cup {RequestedTerms[r] : r \in Refreshes} :
        \A t \in terms : Normal(Normal(t)) = Normal(t)

\* A selector that is refused is a 422 before the cache is called, too many terms one
\* after it; neither leaves a trace.
RefreshRequest(c, key, r) ==
    /\ Accepts(c, key)
    /\ settings.cacheEnabled /\ SourcesGiven(r)
    /\ \A s \in r.selectors : ~Refused(s)
    /\ RefreshStart(c, RequestedTerms[r])
    /\ Go(c, "refresh")
    /\ UNCHANGED <<deployment, phase, maxConcurrency, slots, active, pool, pending, fut, worker>>

\* The terms are in, or an OSError that nobody catches.
RefreshReturns(c) ==
    /\ At(c, "refresh")
    /\ use[c].call # "none" /\ ~Calling(c)
    /\ TakeAnswer(c)
    /\ Return(c)
    /\ UNCHANGED <<deployment, phase, file, memory, raced, maxConcurrency, slots, active, pool,
                   pending, fut, worker>>

--------------------------------------------------------------------------------
(* The worker's part of an audit: _run_replay.                                 *)

WorkerAsksCache(w) ==
    /\ worker[w].step = "list" /\ settings.cacheEnabled
    /\ GetStart(w)
    /\ UNCHANGED <<deployment, phase, auditVars>>

\* The list is there: the replay begins.
WorkerHasList(w) ==
    /\ IF settings.cacheEnabled THEN use[w].step = "answered" ELSE use[w].call = "none"
    /\ Replay(w)
    /\ TakeAnswer(w)
    /\ UNCHANGED <<deployment, phase, file, memory, raced>>

\* get() raised a ValueError: too many terms.
WorkerHasError(w) ==
    /\ use[w].step = "refused"
    /\ Finish(w)
    /\ TakeAnswer(w)
    /\ UNCHANGED <<deployment, phase, file, memory, raced>>

\* replay_transcript: the redacted turns, or a ValueError for a transcript beyond
\* the limits or with a blank turn, or whatever the engine raises.
WorkerReplays(w) ==
    /\ worker[w].step = "replay"
    /\ Finish(w)
    /\ UNCHANGED <<deployment, phase, cacheVars>>

--------------------------------------------------------------------------------
\* The process ends, orderly or not, and another starts: the file stays.
Restart ==
    /\ phase = "serving"
    /\ phase' = "starting"
    /\ CacheRestart
    /\ AuditRestart
    /\ UNCHANGED deployment

\* audit_timeout_seconds passes, or is more than a thread can wait for.
DeadlinePasses(c) == settings.auditTimeout < Forever /\ Audit(Timeout(c))
DeadlineRefused(c) == settings.auditTimeout >= Forever /\ Audit(WaitRefused(c))

CacheStep(t) ==
    \/ Cached(GetRead(t)) \/ Cached(GetInstall(t))
    \/ Cached(RefreshCompare(t)) \/ Cached(RefreshReplace(t)) \/ Cached(RefreshInstall(t))

CallerStep(c) ==
    \/ Audit(Acquire(c)) \/ Audit(SaturatedAudit(c)) \/ Audit(Submit(c))
    \/ Audit(SubmitRefused(c)) \/ Audit(Count(c)) \/ Audit(AddCallback(c))
    \/ Audit(Result(c)) \/ DeadlineRefused(c) \/ Audit(Cancel(c))
    \/ RefreshReturns(c)

WorkerStep(w) ==
    \/ Audit(Take(w)) \/ WorkerAsksCache(w) \/ WorkerHasList(w) \/ WorkerHasError(w)
    \/ WorkerReplays(w)

CallbackStep(f) == Audit(ReleaseCount(f)) \/ Audit(ReleaseSlot(f))
PoolStep == Audit(Drain) \/ Audit(Drained) \/ Audit(Joined)

Next ==
    \/ Start
    \/ \E c \in Callers, key \in Keys : AuditRequest(c, key)
    \/ \E c \in Refreshers, key \in Keys, r \in Refreshes : RefreshRequest(c, key, r)
    \/ \E c \in Callers : CallerStep(c)
    \/ \E c \in Callers : DeadlinePasses(c)
    \/ \E t \in Users : CacheStep(t)
    \/ \E t \in Users : Cached(RefreshFails(t))
    \/ \E w \in Workers : WorkerStep(w)
    \/ \E f \in FutureIds : CallbackStep(f)
    \/ Audit(Close) /\ phase = "serving"
    \/ PoolStep
    \/ Restart

Spec == ServiceInit /\ [][Next]_vars

\* Threads run.  A deadline that passes, a disk that fails, a request that comes
\* and a shutdown are nobody's duty.
Fairness ==
    /\ \A c \in Callers : WF_vars(CallerStep(c))
    /\ \A t \in Users : WF_vars(CacheStep(t))
    /\ \A w \in Workers : WF_vars(WorkerStep(w))
    /\ \A f \in FutureIds : WF_vars(CallbackStep(f))
    /\ WF_vars(PoolStep)
FairSpec == Spec /\ Fairness

--------------------------------------------------------------------------------
ServiceTypeOK ==
    /\ phase \in {"starting", "serving", "refused"}
    /\ slots \in 0 .. maxConcurrency /\ active \in 0 .. maxConcurrency
    /\ \A f \in FutureIds : fut[f].state \in {"free", "pending", "running", "finished", "cancelled"}
    /\ memory # Missing => ~TooMany(memory.terms)

\* Going through the nodes token by token selects the paths the tokens cover, no
\* more and no fewer, however wildcards and descents are combined: a refresh caches
\* the terms its selectors name.  (It depends on no state: one look, at the start.)
SelectsCovered ==
    phase = "starting" =>
        \A payload \in Payloads : \A s \in {x \in Selectors : x.parses} : SelectsExactly(payload, s)

\* A slot taken is a caller's until its submit, then the future's until its
\* callback has run, once: none is lost or given back twice, whoever ends the
\* future and whenever the caller gives up; and no replay runs or waits without one,
\* so timed-out audits count against the limit.
HeldByCallers == {c \in Callers : At(c, "submit")}
HeldByFutures == {f \in FutureIds : fut[f].state # "free" /\ fut[f].callback # "done"}
SlotsConserved ==
    /\ slots + Cardinality(HeldByCallers) + Cardinality(HeldByFutures) = maxConcurrency
    /\ \A f \in FutureIds : fut[f].state \in {"pending", "running"} => f \in HeldByFutures
    /\ \A w \in Workers : worker[w].step \in {"list", "replay"} => fut[worker[w].fut].state = "running"

\* /health's audit_active is the number of futures counted and not yet released: the
\* max(0, ...) of _release_slot never hides a missing count.
ActiveExact ==
    active = Cardinality({f \in HeldByFutures :
        fut[f].callback # "counted" /\ ~\E c \in CallerOf(f) : At(c, "count")})

\* A slot comes back, also that of an audit whose caller has long left.
SlotsReturn == \A f \in FutureIds : f \in HeldByFutures ~> f \notin HeldByFutures

\* A caller that was let in gets an answer, whatever becomes of its future: a result,
\* an error of the replay, a cancellation by a shutdown, a deadline, or a wait that
\* is refused.
CallersAnswered == \A c \in Callers : ~At(c, "idle") ~> At(c, "idle")

\* A shutdown ends.
CloseEnds == pool.step # "open" ~> pool.step \in {"open", "closed"}
================================================================================

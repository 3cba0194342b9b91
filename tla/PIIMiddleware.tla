----------------------------- MODULE PIIMiddleware -----------------------------
(***************************************************************************)
(* The orchestrator of src/src/middleware.py (PIIMiddleware) over the       *)
(* write-behind writer of PersistenceWriter: request threads that redact,   *)
(* rehydrate and end sessions through a bounded, expiring, LRU-ordered       *)
(* cache of vaults.                                                          *)
(*                                                                         *)
(* A request is a sequence of steps, cut where the code takes or leaves the *)
(* cache lock, calls the store, or hands a snapshot to the queue.  A vault   *)
(* is what TokenLedger says it is: position i holds the value of token i     *)
(* (one entity kind).  Cache, queue and rows know a scope by its key; a value *)
(* carries the context, of those with that key, it was disclosed in.         *)
(***************************************************************************)
EXTENDS PersistenceWriter, FiniteSets

CONSTANTS
    Contexts,           \* the ScopeContexts of the callers; Scopes holds their keys
    Configs,            \* [store: a vault store is configured,
                        \*  block: persistence_block_on_error]
    MaxActiveScopes,    \* max_active_scopes
    Permits,            \* Permits[endpoint]: its max_concurrency
    ClosedModes,        \* values of fail_closed that callers use
    LatestModes,        \* whether the engine registers values with prefer_latest
    Kinds,              \* the endpoints that are called
    OnePerScope,        \* the client of a scope waits for each answer
    SavedScopes,        \* scopes with a row an earlier process saved
    ValuesPerContext,   \* bound on the values disclosed in a context
    MaxVaults,          \* bound on the vault objects alive at once
    MaxStarts,          \* bound on the requests
    MaxErrors,          \* bound on failing loads and engine errors
    MaxExpiries         \* bound on the entries that outlive the TTL

Endpoints == {"redact", "rehydrate"}

\* ScopeContext.key(): the fields joined by colons, which a field may hold itself, so
\* that contexts may share a key.
Key(c) == c.client \o ":" \o c.assistant \o ":" \o c.visitor \o ":" \o c.session
              \o ":" \o c.thread
ContextsOf(s) == {c \in Contexts : Key(c) = s}

ASSUME MiddlewareAssumption ==
    /\ \A c \in Contexts : Key(c) \in Scopes
    /\ Configs \subseteq [store : BOOLEAN, block : BOOLEAN]
    /\ OnePerScope \in BOOLEAN
    /\ MaxActiveScopes \in Nat \ {0}
    /\ Permits \in [Endpoints -> Nat \ {0}]
    /\ ClosedModes \subseteq BOOLEAN /\ LatestModes \subseteq BOOLEAN
    /\ Kinds \subseteq Endpoints \cup {"end"}
    /\ SavedScopes \subseteq Scopes /\ \A s \in SavedScopes : ContextsOf(s) # {}
    /\ MaxVaults \in Nat /\ ValuesPerContext \in Nat \ {0} /\ MaxStarts \in Nat
    /\ MaxErrors \in Nat /\ MaxExpiries \in Nat

VARIABLES
    config,         \* how the process was configured
    cache,          \* _vaults: entries, least recently used first
    heap,           \* heap[v]: the values held by vault object v
    popped,         \* history: vault objects that were taken out of the cache or
                    \* replaced there by the one a rehydration loaded
    req,            \* req[t]: the request thread t serves
    permits,        \* permits[endpoint]: free permits of its semaphore
    starts,         \* requests so far
    errors,         \* failing loads and engine errors so far
    expiries,       \* entries that outlived the TTL so far
    snapshots,      \* snapshots[s][n]: the snapshot the n-th write of s carries
    issued,         \* history: issued[s]: the tokens answered in scope s, each with the
                    \* value it was last answered for, as pairs <<token, value>>
    corrections,    \* history: corrections[s]: the pairs that took a token of s over from
                    \* another value and that no later answer has replaced
    session,        \* history: "open"; "over" once ended, until a value is registered
                    \* again; "broken" once an end was refused after the vault was popped
    reply           \* history: the last answer

cacheVars == <<cache, heap, popped>>
boundVars == <<config, starts, errors, expiries>>
middlewareVars ==
    <<cacheVars, boundVars, req, permits, snapshots, issued, corrections, session, reply>>
vars == <<writerVars, middlewareVars>>

--------------------------------------------------------------------------------
VaultIds == 1 .. MaxVaults
NoVault == 0
Value(c, k) == <<c, k>>
NoContent == <<>>

\* PIIVault.register: a value the vault knows keeps its token; with prefer_latest a new
\* one takes over the latest token; otherwise it gets the next number.
Known(content, v) == \E i \in DOMAIN content : content[i] = v
TakesOver(content, v, latest) == latest /\ content # NoContent /\ ~Known(content, v)

\* (Mutant: numbers start one too low.)
TokenOneLow(content, v, latest) ==
    IF Known(content, v) THEN CHOOSE i \in DOMAIN content : content[i] = v
                         ELSE Len(content)
TokenOf(content, v, latest) ==
    CASE Known(content, v)              -> CHOOSE i \in DOMAIN content : content[i] = v
      [] TakesOver(content, v, latest)  -> Len(content)
      [] OTHER                          -> Len(content) + 1
\* (Mutant: the token taken over keeps its value.)
RegisteredKept(content, v, latest) ==
    IF Known(content, v) \/ TakesOver(content, v, latest) THEN content ELSE Append(content, v)
Registered(content, v, latest) ==
    CASE Known(content, v)              -> content
      [] TakesOver(content, v, latest)  -> [content EXCEPT ![Len(content)] = v]
      [] OTHER                          -> Append(content, v)

\* The corrections C of a scope once its vault of that content has registered v.
Corrected(C, content, v, latest) ==
    IF TakesOver(content, v, latest) THEN C \cup {<<Len(content), v>>} ELSE C

\* The pairs P once the token of pair has been answered for the value of pair.
OtherTokens(P, pair) == {q \in P : q[1] # pair[1]}
Issued(P, pair) == OtherTokens(P, pair) \cup {pair}
Kept(C, pair) == OtherTokens(C, pair) \cup (C \cap {pair})

NoRequest == [pc |-> "idle"]

HasStore == config.store
BlockOnError == config.block

Entry(s, v) == [scope |-> s, vault |-> v, expired |-> FALSE]
\* (Mutant: the scope is no part of the key.)
AnyEntry(s) == {cache[i] : i \in DOMAIN cache}
EntriesOf(s) == {e \in {cache[i] : i \in DOMAIN cache} : e.scope = s}
Resident(s) == EntriesOf(s) # {}
VaultOf(s) == (CHOOSE e \in EntriesOf(s) : TRUE).vault

\* The entries of c at the positions K, in the order of c.
Picked(c, K) ==
    LET at == CHOOSE p \in [1 .. Cardinality(K) -> K] :
                  \A i, j \in DOMAIN p : i < j => p[i] < p[j]
    IN  [i \in 1 .. Cardinality(K) |-> c[at[i]]]
Without(c, s) == Picked(c, {i \in DOMAIN c : c[i].scope # s})

\* _prune_expired_locked: the entries that stay, and the ones that go.
Fresh == Picked(cache, {i \in DOMAIN cache : ~cache[i].expired})
Stale == Picked(cache, {i \in DOMAIN cache : cache[i].expired})
StaleScopes == {Stale[i].scope : i \in DOMAIN Stale}
StaleVaults == {Stale[i].vault : i \in DOMAIN Stale}

\* The vault objects something still refers to; the others are collected.
Held(c, r) ==
    LET busy == {t \in Threads : r[t].pc # "idle"}
    IN  ({c[i].vault : i \in DOMAIN c} \cup {r[t].vault : t \in busy}
           \cup {r[t].victim.vault : t \in busy}) \ {NoVault}
HeapBecomes(h, gone) ==
    \E held \in {Held(cache', req')} :
        /\ heap' = [v \in VaultIds |-> IF v \in held THEN h[v] ELSE NoContent]
        /\ popped' = (popped \cup gone) \cap held
Unused == VaultIds \ Held(cache, req)
NewVault == {v \in Unused : \A u \in Unused : v <= u}

NoVictim == [scope |-> "none", vault |-> NoVault]
Victim(e) == [scope |-> e.scope, vault |-> e.vault]

\* (Mutant: one entry too many.)
OverByTwo(c) == Len(c) > MaxActiveScopes + 1

\* The loop of _evict_over_capacity_locked, which takes one entry at most: the
\* cache was within its capacity before the last insertion.
OverCapacity(c) == Len(c) > MaxActiveScopes

\* The content of the row of s.
Row(s) == IF store[s].row THEN snapshots[s][store[s].seq] ELSE NoContent

Saved(s) == HasStore /\ s \in SavedScopes
FirstValue(s) == Value(CHOOSE c \in ContextsOf(s) : TRUE, 1)

\* A middleware fresh from __init__, over rows an earlier process saved.
Init ==
    /\ NewWriter
    /\ config \in Configs
    /\ requested = [s \in Scopes |-> IF Saved(s) THEN 1 ELSE 0]
    /\ store = [s \in Scopes |-> [row |-> Saved(s), seq |-> requested[s]]]
    /\ snapshots = [s \in Scopes |-> IF Saved(s) THEN <<<<FirstValue(s)>>>> ELSE <<>>]
    /\ issued = [s \in Scopes |-> IF Saved(s) THEN {<<1, FirstValue(s)>>} ELSE {}]
    /\ corrections = [s \in Scopes |-> {}]
    /\ cache = <<>>
    /\ heap = [v \in VaultIds |-> NoContent]
    /\ popped = {}
    /\ req = [t \in Threads |-> NoRequest]
    /\ permits = Permits
    /\ starts = 0 /\ errors = 0 /\ expiries = 0
    /\ session = [s \in Scopes |-> "open"]
    /\ reply = [kind |-> "none", outcome |-> "none"]

--------------------------------------------------------------------------------
\* Changes several steps share.

\* (Mutant: the permit is released on the error path and in the finally clause.)
ReleaseTwice(kind) == [e \in Endpoints |-> IF e = kind THEN permits[e] + 2 ELSE permits[e]]
Release(kind) == [e \in Endpoints |-> IF e = kind THEN permits[e] + 1 ELSE permits[e]]

\* The request of t is answered; its permit, if it holds one, is released.
Answer(t, outcome, content) ==
    /\ req' = [req EXCEPT ![t] = NoRequest]
    /\ permits' = Release(req[t].kind)
    /\ reply' = [kind |-> req[t].kind, scope |-> req[t].scope,
                 outcome |-> outcome, content |-> content]

\* An exception inside the handler: raised, or swallowed into passthrough text.
Fail(t) == Answer(t, IF req[t].closed THEN "raised" ELSE "passthrough", NoContent)

\* The request of t goes on with the fields of f changed.
Continue(t, pc, f) ==
    /\ req' = [req EXCEPT ![t] = [x \in DOMAIN @ |->
                  IF x = "pc" THEN pc ELSE IF x \in DOMAIN f THEN f[x] ELSE @[x]]]
    /\ UNCHANGED <<permits, reply>>
Goto(t, pc) == Continue(t, pc, [none |-> 0])

\* The conversations of the scopes S are over: nothing is expected of their tokens.
Forget(S) ==
    /\ issued' = [s \in Scopes |-> IF s \in S THEN {} ELSE issued[s]]
    /\ corrections' = [s \in Scopes |-> IF s \in S THEN {} ELSE corrections[s]]

\* A task is queued with the content its snapshot carries.
EnqueueTask(op, s, content) ==
    /\ Enqueue(op, s)
    /\ snapshots' = [snapshots EXCEPT ![s] = Append(@, content)]

\* _cleanup_scope_entries under the lock, for the entries that outlived the TTL:
\* deletes are queued as far as the queue has room, the rest is not reported.
PruneDeletes ==
    LET room == QueueMax - Len(queue)
        n == IF ~HasStore THEN 0 ELSE IF Len(Stale) < room THEN Len(Stale) ELSE room
        told == {Stale[i].scope : i \in 1 .. n}
    IN  /\ queue' = queue \o [i \in 1 .. n |->
                        Task("delete", Stale[i].scope, requested[Stale[i].scope] + 1)]
        /\ requested' = [s \in Scopes |-> requested[s] + (IF s \in told THEN 1 ELSE 0)]
        /\ snapshots' = [s \in Scopes |->
                            IF s \in told THEN Append(snapshots[s], NoContent) ELSE snapshots[s]]
        /\ UNCHANGED <<workerAlive, doing, health, store, failures, deaths, restarts,
                       faults>>
PrunedHeap == [v \in VaultIds |-> IF v \in StaleVaults THEN NoContent ELSE heap[v]]

--------------------------------------------------------------------------------
\* The steps of a request.

\* _acquire_endpoint succeeds (a session end takes no permit).
Start(t, kind, s, arg, latest, closed) ==
    /\ req[t] = NoRequest
    /\ starts < MaxStarts
    /\ OnePerScope => \A u \in Threads : req[u].pc # "idle" => req[u].scope # s
    /\ kind \in Endpoints => permits[kind] > 0
    /\ starts' = starts + 1
    /\ permits' = [e \in Endpoints |-> IF e = kind THEN permits[e] - 1 ELSE permits[e]]
    /\ req' = [req EXCEPT ![t] =
                 [pc |-> IF kind = "end" THEN "pop" ELSE "resident",
                  kind |-> kind, scope |-> s, arg |-> arg, latest |-> latest,
                  closed |-> closed,
                  resident |-> FALSE, vault |-> NoVault, token |-> 0,
                  content |-> NoContent, victim |-> NoVictim]]
    /\ UNCHANGED <<writerVars, cacheVars, config, errors, expiries, snapshots,
                   issued, corrections, session, reply>>

\* The acquire timeout passes without a permit: an error in every mode.
Saturated(kind, s) ==
    /\ starts < MaxStarts
    /\ permits[kind] = 0
    /\ starts' = starts + 1
    /\ reply' = [kind |-> kind, scope |-> s,
                 outcome |-> "saturated", content |-> NoContent]
    /\ UNCHANGED <<writerVars, cacheVars, config, req, permits, errors, expiries,
                   snapshots, issued, corrections, session>>

\* _has_vault_in_memory, whose answer the gate keeps.
CheckResident(t) ==
    /\ req[t].pc = "resident"
    /\ PruneDeletes
    /\ cache' = Fresh
    /\ Continue(t, IF HasStore THEN "gate" ELSE "lookup",
                [resident |-> Resident(req[t].scope) /\ req[t].scope \notin StaleScopes])
    /\ UNCHANGED <<boundVars, issued, corrections, session>>
    /\ HeapBecomes(PrunedHeap, StaleVaults)

\* _ensure_persistence_available, step by step: the worker is restarted,
GateEnsure(t) ==
    /\ req[t].pc = "gate"
    /\ IF workerAlive THEN UNCHANGED writerVars ELSE EnsureWorkerRunning
    /\ Goto(t, IF BlockOnError THEN "check" ELSE "lookup")
    /\ UNCHANGED <<cacheVars, boundVars, snapshots, issued, corrections, session>>

\* an unhealthy writer is given the chance to recover on this thread,
GateCheck(t) ==
    /\ req[t].pc = "check"
    /\ IF Healthy \/ ~MayRecover
       THEN Goto(t, "recheck") /\ UNCHANGED writerVars
       ELSE Goto(t, "recover") /\ StartRecovery(t)
    /\ UNCHANGED <<cacheVars, boundVars, snapshots, issued, corrections, session>>

\* (maybe_recover returns,)
GateRecovered(t) ==
    /\ req[t].pc = "recover"
    /\ doing[t] = Idle
    /\ Goto(t, "recheck")
    /\ UNCHANGED <<writerVars, cacheVars, boundVars, snapshots, issued, corrections, session>>

\* its health is read again,
GateRecheck(t) ==
    /\ req[t].pc = "recheck"
    /\ Goto(t, IF Healthy THEN "lookup" ELSE "status")
    /\ UNCHANGED <<writerVars, cacheVars, boundVars, snapshots, issued, corrections, session>>

\* and the status, read last, decides (_is_nonblocking_persistence_state).
NonBlocking ==
    /\ workerAlive
    /\ health.state = "degraded"
    /\ health.op = "save"
    /\ health.category \in {"transient", "backend", "unknown"}

GateDecide(t) ==
    /\ req[t].pc = "status"
    /\ IF req[t].resident /\ NonBlocking THEN Goto(t, "lookup") ELSE Fail(t)
    /\ UNCHANGED <<writerVars, cacheVars, boundVars, snapshots, issued, corrections, session>>

\* The first locked part of _get_or_create_vault and _get_vault.
Lookup(t) ==
    LET s == req[t].scope
        hit == Resident(s) /\ s \notin StaleScopes
    IN  /\ req[t].pc = "lookup"
        /\ PruneDeletes
        /\ cache' = IF hit THEN Append(Without(Fresh, s), Entry(s, VaultOf(s))) ELSE Fresh
        /\ \/ hit /\ Continue(t, "engine", [vault |-> VaultOf(s)])
           \/ ~hit /\ HasStore /\ Goto(t, "load")
           \/ ~hit /\ ~HasStore /\ req[t].kind = "redact" /\ Goto(t, "insert")
           \/ ~hit /\ ~HasStore /\ req[t].kind = "rehydrate" /\ Fail(t)
        /\ UNCHANGED <<boundVars, issued, corrections, session>>
        /\ HeapBecomes(PrunedHeap, StaleVaults)

\* store.load(), outside every lock.
Load(t) ==
    LET s == req[t].scope IN
    /\ req[t].pc = "load"
    /\ UNCHANGED errors
    /\ \/ store[s].row /\ Continue(t, "insert", [content |-> Row(s)])
       \/ ~store[s].row /\ req[t].kind = "redact" /\ Goto(t, "insert")
       \/ ~store[s].row /\ req[t].kind = "rehydrate" /\ Fail(t)
    /\ UNCHANGED <<writerVars, cacheVars, config, starts, expiries, snapshots, issued,
                   corrections, session>>

\* store.load() raises.  A fail-open redaction goes on without the row.
LoadFails(t) ==
    /\ req[t].pc = "load"
    /\ errors < MaxErrors
    /\ errors' = errors + 1
    /\ IF req[t].kind = "redact" /\ ~req[t].closed THEN Goto(t, "insert") ELSE Fail(t)
    /\ UNCHANGED <<writerVars, cacheVars, config, starts, expiries, snapshots, issued,
                   corrections, session>>

\* (Mutant: a redaction does not look again.)
NotFoundMeanwhile(t) == FALSE
FoundMeanwhile(t) == req[t].kind = "redact" /\ Resident(req[t].scope)

\* The second locked part.  A redaction looks again and takes what it finds; a
\* rehydration puts the vault it loaded in place of whatever is there.
Insert(t) ==
    LET s == req[t].scope
        found == FoundMeanwhile(t)
        replaced == IF req[t].kind = "rehydrate" THEN {e.vault : e \in EntriesOf(s)} ELSE {}
    IN  /\ req[t].pc = "insert"
        /\ \E v \in IF found THEN {VaultOf(s)} ELSE NewVault :
              LET filled == Append(Without(cache, s), Entry(s, v))
                  full == OverCapacity(filled)
                  victim == IF full THEN Victim(Head(filled)) ELSE NoVictim
              IN  /\ cache' = IF full THEN Tail(filled) ELSE filled
                  /\ Continue(t, IF full THEN "delete" ELSE "engine",
                              [vault |-> v, victim |-> victim])
                  /\ HeapBecomes(IF found THEN heap ELSE [heap EXCEPT ![v] = req[t].content],
                                 replaced \cup {victim.vault})
        /\ UNCHANGED <<writerVars, boundVars, snapshots, issued, corrections, session>>

\* end_session pops the entry, expired or not.
PopSession(t) ==
    LET s == req[t].scope IN
    /\ req[t].pc = "pop"
    /\ cache' = Without(cache, s)
    /\ IF Resident(s)
       THEN Continue(t, "delete", [victim |-> Victim([scope |-> s, vault |-> VaultOf(s)])])
       ELSE Answer(t, "not_found", NoContent)
    /\ UNCHANGED <<writerVars, boundVars, snapshots, issued, corrections, session>>
    /\ HeapBecomes(heap, IF Resident(s) THEN {VaultOf(s)} ELSE {})

\* The delete of the vault that left the cache (end_session and, for an evicted
\* entry, _cleanup_scope_entries).  Only a fail-closed session end minds a full queue.
QueueDelete(t) ==
    LET s == req[t].scope
        ends == req[t].kind = "end"
    IN  /\ req[t].pc = "delete"
        /\ \/ /\ HasStore /\ Accepts
              /\ EnqueueTask("delete", req[t].victim.scope, NoContent)
              /\ Goto(t, "destroy")
              /\ Forget(IF ends THEN {s} ELSE {})
              /\ UNCHANGED session
           \/ /\ ~HasStore \/ (~Accepts /\ ~(ends /\ req[t].closed))
              /\ Goto(t, "destroy")
              /\ Forget(IF ends THEN {s} ELSE {})
              /\ UNCHANGED session
              /\ UNCHANGED <<writerVars, snapshots>>
           \/ /\ HasStore /\ ~Accepts /\ ends /\ req[t].closed
              /\ Answer(t, "raised", NoContent)
              /\ session' = [session EXCEPT ![s] = "broken"]
              /\ UNCHANGED <<writerVars, snapshots, issued, corrections>>
        /\ UNCHANGED <<cache, boundVars>>
        /\ HeapBecomes(heap, {})

\* vault.destroy()
DestroyVault(t) ==
    LET s == req[t].scope IN
    /\ req[t].pc = "destroy"
    /\ \/ /\ req[t].kind = "end"
          /\ Answer(t, "destroyed", NoContent)
          /\ session' = [session EXCEPT ![s] = "over"]
       \/ /\ req[t].kind # "end"
          /\ Continue(t, "engine", [victim |-> NoVictim])
          /\ UNCHANGED session
    /\ UNCHANGED <<writerVars, cache, boundVars, snapshots, issued, corrections>>
    /\ HeapBecomes([heap EXCEPT ![req[t].victim.vault] = NoContent], {})

\* engine.redact registers the disclosed value.  (new_user advances the vault's
\* profile before; no token depends on it.)
Redact(t) ==
    LET v == req[t].vault
        s == req[t].scope
        pair == <<TokenOf(heap[v], req[t].arg, req[t].latest), req[t].arg>>
        corrected == Corrected(corrections[s], heap[v], req[t].arg, req[t].latest)
    IN  /\ req[t].pc = "engine"
        /\ req[t].kind = "redact"
        /\ IF HasStore
           THEN /\ Continue(t, "snapshot", [token |-> pair[1]])
                /\ corrections' = [corrections EXCEPT ![s] = corrected]
                /\ UNCHANGED issued
           ELSE /\ Answer(t, "token", pair)
                /\ corrections' = [corrections EXCEPT ![s] = Kept(corrected, pair)]
                /\ issued' = [issued EXCEPT ![s] = Issued(@, pair)]
        /\ session' = [session EXCEPT ![s] = IF @ = "over" THEN "open" ELSE @]
        /\ UNCHANGED <<writerVars, boundVars, cache, snapshots>>
        /\ HeapBecomes([heap EXCEPT ![v] = Registered(@, req[t].arg, req[t].latest)], {})

\* engine.redact or engine.rehydrate raises; a redaction may have registered first.
EngineFails(t) ==
    LET v == req[t].vault
        s == req[t].scope
    IN  /\ req[t].pc = "engine"
        /\ errors < MaxErrors
        /\ errors' = errors + 1
        /\ Fail(t)
        /\ UNCHANGED <<writerVars, config, starts, expiries, cache, snapshots, issued, session>>
        /\ \/ HeapBecomes(heap, {}) /\ UNCHANGED corrections
           \/ /\ req[t].kind = "redact"
              /\ corrections' = [corrections EXCEPT
                                    ![s] = Corrected(@, heap[v], req[t].arg, req[t].latest)]
              /\ HeapBecomes([heap EXCEPT ![v] = Registered(@, req[t].arg, req[t].latest)], {})

\* (Mutant: the last token is left out.)
SnapshotButLast(v) ==
    IF heap[v] = NoContent THEN NoContent ELSE SubSeq(heap[v], 1, Len(heap[v]) - 1)
Snapshot(v) == heap[v]

\* _persist_snapshot takes the snapshot, under no lock,
TakeSnapshot(t) ==
    /\ req[t].pc = "snapshot"
    /\ Continue(t, "enqueue", [content |-> Snapshot(req[t].vault)])
    /\ UNCHANGED <<writerVars, cacheVars, boundVars, snapshots, issued, corrections, session>>

\* and queues it; with the queue full a fail-open redaction is answered all the same.
PersistSnapshot(t) ==
    LET s == req[t].scope
        pair == <<req[t].token, req[t].arg>>
        answered == Accepts \/ ~req[t].closed
    IN  /\ req[t].pc = "enqueue"
        /\ IF Accepts THEN EnqueueTask("save", s, req[t].content)
                      ELSE UNCHANGED writerVars /\ UNCHANGED snapshots
        /\ IF answered
           THEN /\ Answer(t, "token", pair)
                /\ issued' = [issued EXCEPT ![s] = Issued(@, pair)]
                /\ corrections' = [corrections EXCEPT ![s] = Kept(@, pair)]
           ELSE Fail(t) /\ UNCHANGED <<issued, corrections>>
        /\ UNCHANGED <<boundVars, cache, session>>
        /\ HeapBecomes(heap, {})

\* engine.rehydrate replaces the token by what the vault holds for it, if anything.
Rehydrate(t) ==
    LET content == heap[req[t].vault]
        i == req[t].arg
    IN  /\ req[t].pc = "engine"
        /\ req[t].kind = "rehydrate"
        /\ IF i \in DOMAIN content THEN Answer(t, "clean", <<i, content[i]>>)
                                   ELSE Answer(t, "unresolved", NoContent)
        /\ UNCHANGED <<writerVars, boundVars, cache, snapshots, issued, corrections, session>>
        /\ HeapBecomes(heap, {})

--------------------------------------------------------------------------------
\* What happens beside the requests.

\* An entry outlives the TTL.  A request is shorter than the TTL (60 seconds at
\* least), so this is no entry a request is using.
Expire(i) ==
    /\ expiries < MaxExpiries
    /\ ~cache[i].expired
    /\ \A t \in Threads : req[t].pc # "idle" => req[t].vault # cache[i].vault
    /\ expiries' = expiries + 1
    /\ cache' = [cache EXCEPT ![i].expired = TRUE]
    /\ UNCHANGED <<writerVars, config, heap, popped, req, permits, starts, errors,
                   snapshots, issued, corrections, session, reply>>

\* /health: detector_status restarts a dead worker, active_sessions prunes.
HealthPrune ==
    /\ Stale # <<>>
    /\ PruneDeletes
    /\ cache' = Fresh
    /\ UNCHANGED <<boundVars, req, permits, issued, corrections, session, reply>>
    /\ HeapBecomes(PrunedHeap, StaleVaults)

HealthProbe == HealthPrune \/ (HasStore /\ EnsureWorkerRunning /\ UNCHANGED middlewareVars)

\* The writer's own steps.
Background ==
    /\ HasStore
    /\ \/ WorkerTake
       \/ \E x \in Executors : Perform(x)
       \/ CooldownElapses
       \/ WorkerDies
    /\ UNCHANGED middlewareVars

\* The process is replaced by a new one: its clients get no answer, and without
\* a store the sessions are gone with it.
RestartProcess ==
    /\ Restart
    /\ cache' = <<>>
    /\ heap' = [v \in VaultIds |-> NoContent]
    /\ popped' = {}
    /\ req' = [t \in Threads |-> NoRequest]
    /\ permits' = Permits
    /\ Forget(IF HasStore THEN {} ELSE Scopes)
    /\ UNCHANGED <<boundVars, snapshots, session, reply>>

\* What callers ask: to redact a value, to rehydrate a token the scope was given.
\* Whether a value corrects the one before (prefer_latest) is the engine's to find out.
ValuesOf(s) == {Value(c, k) : c \in ContextsOf(s), k \in 1 .. ValuesPerContext}
Arguments(kind, s) ==
    CASE kind = "redact"    -> ValuesOf(s)
      [] kind = "rehydrate" -> {pair[1] : pair \in issued[s]}
      [] OTHER              -> {0}

Modes(kind) == IF kind = "redact" THEN LatestModes ELSE {FALSE}

Arrive(t) ==
    \E kind \in Kinds, s \in Scopes :
        \/ \E closed \in ClosedModes, arg \in Arguments(kind, s), latest \in Modes(kind) :
              Start(t, kind, s, arg, latest, closed)
        \/ kind \in Endpoints /\ Saturated(kind, s)

Serve(t) ==
    \/ CheckResident(t)
    \/ GateEnsure(t) \/ GateCheck(t) \/ GateRecovered(t) \/ GateRecheck(t) \/ GateDecide(t)
    \/ Lookup(t) \/ Load(t) \/ LoadFails(t) \/ Insert(t)
    \/ PopSession(t) \/ QueueDelete(t) \/ DestroyVault(t)
    \/ Redact(t) \/ EngineFails(t) \/ TakeSnapshot(t) \/ PersistSnapshot(t)
    \/ Rehydrate(t)

MiddlewareNext ==
    \/ \E t \in Threads : Arrive(t) \/ Serve(t)
    \/ \E i \in DOMAIN cache : Expire(i)
    \/ HealthProbe
    \/ Background
    \/ RestartProcess

MiddlewareSpec == Init /\ [][MiddlewareNext]_vars

--------------------------------------------------------------------------------
Contents == Seq(UNION {ValuesOf(s) : s \in Scopes})

Stages == {"resident", "gate", "check", "recover", "recheck", "status", "lookup", "load",
           "insert", "engine", "snapshot", "enqueue", "pop", "delete", "destroy"}

\* Every variable has its type; the cache never outgrows max_active_scopes.
MiddlewareTypeOK ==
    /\ TypeOK
    /\ config \in Configs
    /\ Len(cache) <= MaxActiveScopes
    /\ \A i \in DOMAIN cache :
          cache[i] \in [scope : Scopes, vault : VaultIds, expired : BOOLEAN]
    /\ heap \in [VaultIds -> Contents]
    /\ popped \subseteq VaultIds
    /\ \A t \in Threads : req[t] = NoRequest \/
          /\ req[t].pc \in Stages
          /\ req[t].kind \in Kinds /\ req[t].scope \in Scopes
          /\ req[t].vault \in VaultIds \cup {NoVault}
          /\ req[t].content \in Contents
    /\ \A s \in Scopes : Len(snapshots[s]) = requested[s]

\* Every exit of a handler gives its permit back exactly once, the error paths
\* and the fail-open returns included; otherwise the endpoint saturates for good.
PermitsConserved ==
    \A e \in Endpoints :
        permits[e] + Cardinality({t \in Threads : req[t].pc # "idle" /\ req[t].kind = e})
            = Permits[e]

\* The vault a request got out of the cache, until something pops it or a rehydration
\* replaces it, is the one every other request of the scope gets: two redactions that
\* miss at once and both load end up with one vault, and a vault out of the cache is
\* never put back.
OneVaultPerScope ==
    /\ \A i, j \in DOMAIN cache : i # j => cache[i].scope # cache[j].scope
                                        /\ cache[i].vault # cache[j].vault
    /\ \A i \in DOMAIN cache : cache[i].vault \notin popped
    /\ \A t \in Threads : req[t].pc # "idle" /\ req[t].vault \notin popped \cup {NoVault}
          => Resident(req[t].scope) /\ VaultOf(req[t].scope) = req[t].vault

\* Values stay behind the key of the context they were disclosed in: whatever vaults
\* are loaded, evicted, destroyed and reused, nothing a scope holds, has stored or is
\* answered was disclosed under another key.  (Contexts whose fields join to one key
\* do share vault and row.)
OwnValues(s, content) == \A i \in DOMAIN content : Key(content[i][1]) = s
ScopesIsolated ==
    /\ \A i \in DOMAIN cache : OwnValues(cache[i].scope, heap[cache[i].vault])
    /\ \A t \in Threads : req[t].pc # "idle" /\ req[t].vault # NoVault
          => OwnValues(req[t].scope, heap[req[t].vault])
    /\ \A s \in Scopes : OwnValues(s, Row(s))
    /\ \A s \in Scopes : \A pair \in issued[s] : Key(pair[2][1]) = s
    /\ reply.outcome = "clean" => Key(reply.content[2][1]) = reply.scope

\* No write of s failed or was lost, and no end of the session was refused.
Intact(s) == faults[s] = {} /\ session[s] # "broken"

\* A token handed out in a session is handed out for another value only when that value
\* took the token over from the one before (prefer_latest), through reloads, recoveries
\* and restarts, while the scope is intact.
TokenStable ==
    [][\A s \in Scopes : Intact(s) =>
          \A p \in issued[s], q \in issued'[s] :
             p[1] = q[1] /\ p # q => q \in corrections'[s]]_vars

\* Rehydration brings back the value the token was last answered for, or a correction
\* that has taken it over since, its redaction not answered: no issued token stays
\* unresolved, and none resolves to a value of another token.
RehydratesIssued ==
    [][\A t \in Threads :
          req[t].pc = "engine" /\ req[t].kind = "rehydrate" /\ Intact(req[t].scope)
                /\ req'[t] = NoRequest /\ restarts' = restarts /\ reply'.outcome # "raised"
             => reply'.content \in issued[req[t].scope] \cup corrections[req[t].scope]]_vars

\* Nothing is under way for s.
Settled(s) ==
    /\ Pending(s) = {}
    /\ \A t \in Threads : req[t].pc # "idle" => req[t].scope # s /\ req[t].victim.scope # s

\* Any instance can rehydrate: once the writes have drained, the row of a scope
\* resolves every token the scope was given, to the value it was last answered for or
\* to a correction that took it over since.
AnyInstanceRehydrates ==
    \A s \in Scopes : HasStore /\ Settled(s) /\ Intact(s) =>
        \A p \in issued[s] :
            /\ p[1] \in DOMAIN Row(s)
            /\ Row(s)[p[1]] = p[2] \/ <<p[1], Row(s)[p[1]]>> \in corrections[s]

\* An ended session leaves nothing behind: once the writes have drained, its row
\* is gone, whatever saves were queued or under way when it ended.
EndForgets ==
    \A s \in Scopes : session[s] = "over" /\ Settled(s) /\ faults[s] = {} => ~store[s].row

--------------------------------------------------------------------------------
\* What the documents say, and the code does not do.

\* README, Failure Policy: after a transient save failure the scopes in memory can
\* continue.  The gate never fails a request of such a scope.
ResidentServedWhileDegraded ==
    [][\A t \in Threads :
          req[t].pc = "status" /\ req[t].resident /\ workerAlive
                /\ health.category = "transient" /\ health.op = "save"
             => req'[t].pc \in {"status", "lookup"}]_vars
================================================================================

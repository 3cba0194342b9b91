# Verification of the PII redactor

TLA+ models of the redaction middleware in `src/`, the TLC runs that check them on
small instances and the TLAPS proofs that hold for every instance. Every model is
written from the Python code; `PROJECT.json` ("map") says which lines each definition
stands for. Paths below are relative to the repository; `src/src/` is its Python package.

## 1. Inventory

| Part | State | Operations | What makes it correct |
|---|---|---|---|
| Session vault (`pii_vault.py`) | profile, token -> value, tokens per key, counter per key, normalized value -> token; one RLock | `register` (refuse, reuse, overwrite the latest, allocate), `advance_profile`, `destroy`, `snapshot`, `from_snapshot` | the four dictionaries describe one set of tokens; a token answered resolves to the value it was answered for |
| Persistence writer (`middleware.py`, `_AsyncPersistenceWriter`) | bounded queue, worker thread, health fields under a state lock, last failed task | `enqueue_save/delete`, `_run`, `_record_success/failure`, `maybe_recover`, `ensure_worker_running`, `status_snapshot` | accepted writes reach the store, in order; failures are retried and reported |
| Orchestrator (`middleware.py`, `PIIMiddleware`) | LRU-ordered map of vaults with a TTL, endpoint semaphores | `process_inbound`, `process_outbound`, `end_session`, persistence gate, prune, evict | one vault per scope, tokens stable over loads and restarts, scopes of different keys isolated, permits returned, ended sessions forgotten |
| Vault stores (`persistence.py`) | one row per scope (memory or Supabase), encrypted | `load`, `save`, `delete` | the row is the last write |
| Redaction engine (`pii_engine.py`, `business_reply_context.py`) | none of its own (compiled patterns) | `redact`, `rehydrate`, `repair_placeholders`, span collection, prompted-name rules | spans do not overlap; addresses and known values leave no message in clear; rehydrating a redacted text gives back what each span was taken for |
| HTTP service (`server.py`, `schemas.py`) | the components above | start-up, `/redact`, `/rehydrate`, `/session/end`, `/audit/transcript`, `/allowlist/refresh`, `/health`, shutdown | it serves only with what it requires; every request it accepts is answered |
| Transcript audit (`transcript_audit.py`, `transcript_replay.py`) | semaphore, thread pool, counters | `audit`, `close`, `status` | a slot is held exactly while a replay can run |
| Allowlist cache (`allowlist_cache.py`) | memory map and JSON files | `get`, `refresh` | after a refresh that ran alone, file and memory hold the same list; a selector names the terms its tokens cover |
| Configuration (`config.py`) | none at run time | `get_settings` | whatever deadline comes out of it, slots return and callers are answered |
| Logging, scripts | none at run time | formatting, offline conversion | - |

Interactions. A request thread takes an endpoint permit, asks the writer for its health
(and may execute a failed write itself), looks its vault up under the cache lock, loads it
from the store outside the lock if it is missing, installs it under the lock again, runs
the engine on the vault, takes a snapshot of it and queues the snapshot. The worker thread
writes queued snapshots to the store. Sessions end, vaults expire or are evicted on request
threads and on `/health`; each queues a delete and clears the vault object, which another
request may still hold.
Audits run on a thread pool of their own, into a vault of their own; their workers, `/redact` and
`/allowlist/refresh` share the allowlist cache.

The hard behaviours are therefore interleavings of request threads with each other and with
the worker between those steps, write-behind (what is answered is not stored yet), the
retry of an old write on another thread, bounded queues and caches, and a process that
stops between an answer and its write. `PROJECT.json` ("hazards") lists each at its line.

## 2. Modules

| Module | Models | Actions |
|---|---|---|
| `TokenLedger` | what a vault promises: a list of values per kind, token `<k_i>` is position i | `Reuse`, `Issue`, `Correct`, `Refuse`, `Forget` |
| `PIIVault` | `pii_vault.py`; implements `TokenLedger` (`LedgerSpec`) | one action per outcome of `register`, `AdvanceProfile`, `Destroy` |
| `VaultSnapshot` | `snapshot` read by read, `from_snapshot`, the stores' rows; EXTENDS `PIIVault` | `SnapBegin`, `ReadValues`, `ReadKey`, `EndIteration`, `SnapFails`, `Save`, `RotateKey`, `Expire`, `DeleteRow`, and the vault's own during and between snapshots |
| `PIIVaultProofs` | the theorems about `PIIVault` | |
| `PersistenceWriterProofs` | the theorems about `PersistenceWriter` | |
| `PersistenceWriter` | `_AsyncPersistenceWriter` and the store's rows | `Enqueue`, `WorkerTake`, `StoreSucceeds/Fails`, `RecordSuccess/Failure`, `CooldownElapses`, `WorkerDies`, `EnsureWorkerRunning`, `StartRecovery`, `Restart` |
| `PIIMiddleware` | the orchestrator; EXTENDS and composes the writer | one action per step of a request, `Expire`, `HealthProbe`, `RestartProcess` |
| `RedactionEngine` | `pii_engine.py`, `business_reply_context.py` | `Redact`, `Rehydrate`, `Answer` |
| `AllowlistTerms` | selectors and normal terms of `allowlist_cache.py` | operators only |
| `AllowlistCache` | `get` and `refresh`; EXTENDS `AllowlistTerms` | one action per read or write of file or memory |
| `TranscriptAudit` | `transcript_audit.py` and its thread pool; EXTENDS `AllowlistCache`, whose users its threads are | one action per step of `audit`, of a worker, of a callback and of `shutdown` |
| `RedactorConfig` | `get_settings`, `build_vault_store`, what lets a request in | operators only |
| `RedactorService` | `server.py`; composes the two modules above | `Start`, `AuditRequest`, `RefreshRequest`, `RefreshReturns`, the worker's steps, `Restart` |
| `RedactorServiceProofs` | the theorems about the cache, the audit slots and the selectors in `RedactorService` | |
| `RedactionEngineProofs` | the theorems about `RedactionEngine` | |
| `FiniteOrders` | lemmas about finite sets of numbers, their increasing lists, going through them step by step, and lists in an order | |
| `VaultSnapshotProofs` | the theorems about rows; EXTENDS `PIIVaultProofs` | |
| `PIIMiddlewareProofs` | the theorems about permits, vaults and values in `PIIMiddleware`; EXTENDS `PersistenceWriterProofs` | |
| `ConversationProofs` | the theorems about what a client may rely on; EXTENDS `PIIMiddlewareProofs` | |
| `MC...` | constants for TLC | |

`PIIVault`. A token `<fn_2>` is the pair `<<"fn", 2>>`. A value keeps the parts that
`_normalize` tells apart (Latin letters, digits, the rest, its spelling), so that values
which differ and normalize alike exist in the model. `reply` is the answer of the last
call. The counter of an absent key reads 0 in the code (`dict.get(key, 0)`), so `Init` gives it 0.

`PersistenceWriter`. A task carries the number of the request that created it; the row of a
scope remembers the number of the write it holds, which is how the properties speak of order.
The store call runs outside `_state_lock` and the recording inside it: two actions for
each executor, the worker or a recovering request thread. Time is the flag `cooldown`
("running" until `_next_recovery_at_epoch`). A store call that fails with a transport error
may have written the row. `faults` is a history variable: which scopes had a failing write or
lost one at a restart.

`PIIMiddleware`. `req[t].pc` is the place of a request in its handler: `resident`, `gate`
.. `status` (the persistence gate, read field by field as the code does), `lookup`, `load`,
`insert` (`_get_or_create_vault` and `_get_vault`), `engine`, `snapshot`, `enqueue`
(`_persist_snapshot`), `pop`, `delete`, `destroy` (`end_session`, and the cleanup of an
evicted entry). A vault object is an identity in `heap`, since a request may hold one that the
cache has replaced or that another thread destroys; its content is a ledger of one entity kind. `register` is
modelled with all its outcomes: a known value keeps its token, a new one gets the next number, or takes the latest token over
(`TakesOver`) where the engine registers it with `prefer_latest`. When the engine does that is `RedactionEngine`'s;
here a redaction may or may not.
Cache, queue and rows know a scope by its key, the fields of a `ScopeContext` joined by ":" (`Key`), and a value carries the
context it was disclosed in. `issued` (the tokens answered, each with the value it was last answered for), `corrections` (the
values that took a token over since), `session` and `popped` are history variables.

`VaultSnapshot`. A row is a record of the stored dictionaries. `snap` is the row in the making: `step` is
the dictionary being read, `todo` the keys a comprehension has not seen, `size` the dictionary's
size when the comprehension began, for CPython raises `RuntimeError` when it has changed. A registration
is one step among these reads, since it writes its dictionaries in the opposite order. Encryption is a
key that fits or not.

`RedactionEngine`. A text is a sequence of units, a blank apart: words with the signs in them, signs beside a word,
and things in angle brackets. A message comes with
what the expressions of the code find in it (addresses, business answers, greetings, traits such as a
capital letter) and with the names the detectors could infer; `Redact` takes any subset of those,
because GLiNER may or may not be there and the heuristics are word lists. Everything after that is
translated: which question a reply answers, suppression, repeats of known values, corrections,
the order and overlap of spans, splitting of names, registration, placeholder repair and rehydration.
The vault is the ledger of `TokenLedger`, all keys in one sequence. `last` and `reply` remember the last call and what it had found.

How a word is written (`Written`) is a sequence of characters or of letters that nothing divides; comparisons are of these, in lower case.
A known value is looked for as the code's patterns are built: a name as it is, without its blanks, and apart where a capital
follows a small letter (`Variants`); an address as it is; a number of ten digits or more as 3, 3 and 4 with a 1 before
it or not and the separators the pattern allows (`ReadsAsNumber`), a shorter one as it is. `Matches` goes through a text as `finditer`
does. So "555-1234-567", taken in answer to a question for a number, is not found when it is repeated, nor is "OBrien" after "O'Brien". Matches are of
whole units: where a known name stands beside a sign or a digit inside a unit (the Lee in "O'Lee"), the code replaces it
and the model does not. A couple is joined by "and" or "&" and leaves as "and"; the parts of other names are the words of
`NAME_WORD_PATTERN` (`NameWords`), so digits and signs inside a name span are dropped.

What is given with a message is constrained by `RequestsAssumption` as the code constrains it: spans lie in the text and
are not empty, and only a full name may be read where a bracket stands. The expressions for addresses, numbers and single
names (`pii_engine.py:18` to `53`) have no brackets, and the value of a span is what they matched; GLiNER (`pii_engine.py:2904`)
labels a stretch of the text, whatever is in it. Presidio's addresses (`pii_engine.py:2727`) are
taken to be in no brackets either: its recognizers are a library's, modelled by what they are for.
`RepliesAssumption` says that a reply is a text, `SelectorsAssumption` (`RedactorService`) that a payload is a tree.

`Order` and `Kept` sort and filter. They are written out, and not by the library's `SortSeq` and `SelectSeq`, since those are
recursive inside and no prover can open them: the k-th of an order is the one with k - 1 before it.

`AllowlistCache`, `TranscriptAudit`, `RedactorService`. `use[t]` is the call of the cache thread t is in. `raced` is a
history variable: calls have overlapped a refresh since a refresh last ran alone. `caller[c]` is the place of a
request thread in `audit()` (`WaitRefused` is the `OverflowError` of a deadline without end), `fut[f]` a future with the fate of its callback, `worker[w]` a pool thread,
`pool` the progress of `shutdown(wait=True, cancel_futures=True)`. The pool is the standard library's and modelled from how
the service uses it (external in the map). `/redact`, `/rehydrate`, `/session/end` and `/health` change the
orchestrator's state only, which is `PIIMiddleware`'s.

`RedactorConfig`. A variable of the environment is unset or a text that parses as a whole number, a decimal, infinity, "nan" or nothing.
Times are in hundredths of a second; `Forever` stands for infinity and anything else beyond what a thread can be asked to
wait (`threading.TIMEOUT_MAX`); `max(low, nan)` is `low`. An infinite `audit_acquire_timeout_seconds` ends
an audit without a slot in an error of its own instead of a 503: the same step, `SaturatedAudit`.

Definitions commented "(Mutant: ...)" are wrong on purpose. No specification uses them;
each stands beside the definition it breaks and is used to confirm that a property fails
when the code has that bug (`PROJECT.json`, "mutants").

### Abstractions

- The orchestrator's redaction registers one value; what the engine does with a text is `RedactionEngine`'s.
- `advance_profile` is part of `PIIVault` only: no token depends on the profile.
- In `PIIMiddleware` `vault.snapshot()` is one step and the store one atomic row per scope. `VaultSnapshot` has
  the steps, the row's expiry and its key (a key that does not fit gives no row, where `persistence.py:148` raises an error); `TornRowSafe` says why the simpler form is safe for the numbers.
- An entry in use never expires: the TTL is at least 60 seconds and refreshed at lookup.
- The recovery delay is a clock that is running or has elapsed.
- Metrics and the counters `/health` shows, but for the audit's `active`, change no state of these models.
- One client and assistant in the cache: the lists of others have files and entries of their own.
- Cached JSON that is no object, on which `get` raises `AttributeError`, is left out; no program writes it.

## 3. Runs

| Run | Instance | Distinct states | Shows |
|---|---|---|---|
| `vault` | 3 keys (a name, the phone, the e-mail), 2 tokens per key, 2 profiles, 2 key versions, both stores, 1 registration or destroy during a snapshot | 177 528 | types, dense numbers, exact index, replies resolve, only the latest token is rewritten, the ledger is implemented; a row restores its vault in three formats, a torn one numbers on safely |
| `writer` | 2 scopes, 2 request threads, queue of 2, 2 writes per scope, 2 failures (one retried category, one not), 1 worker death, 1 restart | 467 782 | types, health fields consistent, a recovery state has its thread, order and completeness of writes that do not fail |
| `writer_liveness` | 1 scope, 2 threads, 3 writes, 2 failures, 1 death | 33 939 | the queue drains, a retried failure ends |
| `middleware` | 1 scope with a saved row, 1 client, 4 requests, values that correct or not, every configuration, 1 failure, 1 engine or load error, 1 death, 1 restart | 3 599 180 | tokens change their value by corrections only, every instance rehydrates, rehydration restores, ended sessions are gone |
| `middleware_contention` | 2 threads, 3 contexts over 2 keys, 3 requests, cache of 1, queue of 1, 1 expiry, 1 error, three kinds of request, with and without a store | 1 515 552 | permits, one vault per scope, keys isolated, capacity |
| `service` | 8 deployments, 3 of which serve, one of them with a deadline without end; 2 request threads (1 that refreshes), 2 workers, 1 or 2 slots, 3 refreshes, a cache of 2 terms, a payload and 8 selectors | 95 046 | selectors exact, cache copies agree, slots conserved and returned, callers answered, shutdown ends |
| `engine` | 16 kinds of message, 6 questions, allowlist and pending fields, 4 replies, 3 values in the vault | 70 061 | addresses and known values hidden, no name learned where none may be, the round trip, exact rehydration |

Bounds. Two tokens per key let the latest token be rewritten with an older one beside it; the proofs
(section 4) cover any number. One change during a snapshot tears it between
any two reads; with two (`MaxDuring`, 1 110 972 states, too long for the mutants) all properties hold as well. Two scopes and two failures are what it takes for one
scope's outcome to disturb the other's; two tasks in the queue are enough for an order to be
wrong. Four requests of a client are redact, end, redact, rehydrate with a restart or a failure
anywhere between them. A cache of one entry evicts on every second scope and a queue of one task is
full at every second write, so a victim is destroyed under a request in flight. Client "a:b" with assistant "c" and client "a" with
assistant "b:c" join to one key, a third context has a key of its own. That run leaves corrections to `middleware`,
and its callers are fail-open, which has the longer paths: after a failed load a fail-closed request ends where a fail-open one goes on.
`MaxRequests`, `MaxVaults` are large enough never to bind in the middleware runs. Symmetry is used in
runs without temporal properties only, over request threads and scopes, which the models never
tell apart. Runs with `CHECK_DEADLOCK FALSE` stop when the bounded requests are used up.

Two callers and two workers are what it takes for a future to be cancelled by its caller, by the shutdown or by nobody while another
runs, with one slot and with two; more terms than the two allowed come in by a request and from the file of an earlier
deployment. The deployments that refuse lack one requirement each. The engine's messages are chosen so that
the sources of spans meet: a known name written apart before an address, a business answer with a
known and a new name, a surname corrected before a sign and before a number, couples with both joints, a name of five words, an echoed
token, a sign and a digit inside a name, a number in another grouping and one in no grouping the patterns have.
`MCRedactionEngine` writes letters in pieces that nothing divides: how long a name is matters to the order of repeats only.

Fairness (`service`, `FairSpec`). Weak fairness of every thread's next step: request threads, pool workers,
callbacks and the thread that shuts the pool down; a refused wait is the caller's own step. Timeouts, disk failures, new requests, the
shutdown itself and restarts are not fair. A replay ends: its input is bounded by the limits of
`replay_transcript` and it does no I/O. `SlotsReturn` therefore holds of an audit whose caller has left, too, and `CallersAnswered`
of a caller whose deadline never passes.

Fairness (`writer_liveness`, `FairSpec`). Weak fairness of the worker loop and of the executors:
the loop runs while the thread lives, and a store call ends, by its request timeout if need
be. Weak fairness of the clock. Weak fairness of `EnsureWorkerRunning`
says that requests or health probes keep arriving, and that of `StartRecovery` that requests do, for the code restarts a dead
worker on the threads of both and retries a failed write on those of requests only: without traffic neither liveness property holds of
the code. The model bounds failures, so "eventually" is after the last of them.

What limits the `middleware` run. The client of a scope waits for its answers, callers are
fail-closed, and neither eviction nor expiry occurs, because without each of these the code does not keep
its tokens stable: two concurrent redactions can queue their snapshots in the wrong
order (`AnyInstanceRehydrates` fails), a fail-open redaction whose load fails goes on with an empty
vault, and an evicted scope's row is deleted on purpose. A scope is exempt
from `TokenStable`, `RehydratesIssued` and `AnyInstanceRehydrates` (`Intact`) once one of its writes failed, a restart lost
one, or an end of its session was refused: `end_session` takes the vault out of the cache before it
learns that the queue is full.

What a token stands for. A correction (`prefer_latest`) rewrites the latest token of a key for everybody who has it, in one
sequential conversation and without any failure. `TokenStable` therefore says that a token is handed out for another value only
when that value took it over; `RehydratesIssued` and `AnyInstanceRehydrates` that it stands for the value it was last answered for, or
for a correction whose redaction was never answered (its vault or its save may still have gone through).
`corrections` keeps exactly those. `EndForgets` says nothing of a scope that is used again after its end.

What isolation means. `ScopesIsolated` is stated up to equal keys. The docstring of `ScopeContext` (`types.py:6`) speaks of "strict
chat-session isolation", but `key()` (lines 14 to 18) joins its fields with ":" and `schemas.py:22` to `26` admits ":" in every
field: contexts whose fields join to one string share cache entry, row and cipher key, and the values in them. Between different keys nothing
leaks, which is what the run and the proof show. No run claims the rest, for one
assignment of names to two contexts shows it.

### Disagreements with the documents

| Run | What the code does |
|---|---|
| `vault_namespace` | `advance_profile()` moves no namespace: `register` counts per key (`pii_vault.py:63`). The docstring says both (lines 17 and 20); README line 28 calls it flow tracking, line 142 a namespace. |
| `writer_retried` | One slot remembers the failed task (`middleware.py:412,440`): any success, or another failure, forgets it. The writer is healthy and the row is not written. |
| `writer_deleted` | A recovery executes an old save after a newer delete of the same scope (`middleware.py:327`): the row of an ended session is back. |
| `middleware_overwrite` | `_get_vault` puts the vault it loaded over one installed meanwhile (`middleware.py:1001`); the next redaction gives a token out again for another value. |
| `middleware_degraded` | A retry sets the state to `recovering` (`middleware.py:313`), which blocks resident scopes that `degraded` lets through. |

More that no run claims: `prefer_latest` rewrites the latest token although the docstring says
that distinct values do not overwrite prior tokens (`OnlyLatestRewritten` states what holds), and names
without a Latin letter or digit normalize to one value and share a token (`ReplyResolves` is stated up
to normalization; the vault run has two such names). A span that begins before an e-mail address and runs into
it, such as a known name written apart, keeps the address from being replaced as a whole: "agent dan@x.com" leaves as
"<fn_1>@x.com" (`ContactsCovered` states what holds). `repair_placeholders` turns `<fn1>`, `<first1>` and `<first>` into
tokens but leaves `<FN_1>` and `<first_name_1>`: the greedy alias keeps its underscore and is not found. A
`get` that read the file before a refresh and installs after it leaves the old list in memory until the next
refresh or restart (`CopiesAgree` exempts calls that overlapped). "Ann & Bob Lee" comes back as "Ann and Bob Lee"
(`pii_engine.py:3615`), and a name span loses the digits and signs in it (3640); `RoundTrip` compares with what each span was taken for. An
audit deadline of `inf` passes the clamp of `config.py:181`, and the wait then raises `OverflowError` (an error 500, the replay
going on): slots come back and callers are answered all the same.

## 4. Proofs

`PIIVaultProofs` proves, for every set of keys and values, every bound, and `KeysAssumption` and
`BoundsAssumption` only:

| Theorem | Property |
|---|---|
| `TypeCorrect` | `TypeOK` |
| `NumbersDense` | `TokensDense` |
| `IndexInverse` | `IndexExact` |
| `RepliesResolve` | `ReplyResolves` |
| `RewritesOnlyLatest` | `OnlyLatestRewritten` |
| `ImplementsLedger` | `LedgerSpec` |

The inductive invariant is `VaultInv == TypeOK /\ TokensDense /\ IndexExact`. Neither half is inductive
alone. That a fresh number is fresh (`NextIdxFact`) needs the dictionaries to agree; that an overwrite frees the
right index entry, and no other token's, needs the index to be exact. `AllocateKeeps` and
`OverwriteKeeps` are the two steps that change tokens. `RepliesResolve` and `RewritesOnlyLatest` follow from the
invariant and one step. `ImplementsLedger` maps token `<k_i>` to position i: `KnownFact` says that the
ledger knows a value exactly where the index points, `AllocateIssues` and `OverwriteCorrects` that the two
changing steps are `Issue` and `Correct`, and `LedgerStep` collects the cases.

The normalization `Norm` is never expanded in these proofs: they hold for any function of key and value.

`PersistenceWriterProofs` proves, for any threads, scopes, queue size and bounds on failures, deaths and restarts,
from `WriterAssumption` only:

| Theorem | Property |
|---|---|
| `WriterTypes` | `TypeOK` |
| `HealthFieldsAgree` | `HealthConsistent` |
| `RecoveringHasRetry` | `RecoveryHeld` |
| `RetriesFailedOnly` | `RecoverOnlyFailed` |
| `WritesInOrder` | `InOrder` |
| `WritesComplete` | `NoGap` |

The inductive invariant `WriterInv` adds two parts to the properties. `FailedKnown` says that the task kept for retry, and
every task whose failure is about to be recorded, belongs to a scope known to have failed; without it nothing
keeps a retry from a scope without failures, and `RecoverOnlyFailed` is not inductive. `OrderInv` restates
`InOrder` and `NoGap` by the positions of the queue and adds that the row is never ahead of the requests, which a
restart with an empty queue needs. `HealthStep` lists the six ways the health fields change, so that
`HealthKept` has one case per way. In `OrderStep` only four actions touch the order of a scope (`OrderEnqueue`, `OrderTake`,
`OrderStore`, `OrderRestart`); `OrderElsewhere` covers all others, and is where `FailedKnown` enters: a retry
writes rows of failed scopes only.

`RedactorServiceProofs` proves, for any callers, workers, futures, environments, payloads and
selectors, from the assumptions of the modules: users are callers and workers, the callers and the futures are finitely
many, a payload is a tree and a selector that parses a list of tokens (`SelectorsAssumption`), a number of the environment is an integer, and normalizing a requested or a stored list of terms twice changes nothing more
(`NormalAssumption`, which TLC evaluates for the terms of the run):

| Theorem | Property |
|---|---|
| `ServiceCopiesAgree` | `CopiesAgree` |
| `ServiceTypeCorrect` | `ServiceTypeOK` |
| `ServiceSlotsConserved` | `SlotsConserved` |
| `ServiceActiveExact` | `ActiveExact` |
| `SelectionIsExact` | `SelectsCovered` |

`CacheInv` strengthens `CopiesAgree`, which says nothing while calls are at work, by what they hold: a refresh that is
still alone has nobody beside it (`AloneIsAlone`), no refresh is beside another call unless calls have overlapped
(`NoneBesideRefresh`), and whoever is about to install holds the list of the file (`InstallsTheFile`). One lemma per
step of a call. `SettingsFacts` is the clamping of the limits.
`AuditInv` adds to the two counts the shape they rest on: a queue of distinct pending futures, a running future per
running worker, a future of its own per caller that holds one, no callback before it is registered, and none due before its
future is done (`CallbacksInv`). That last part is why a slot is given back once: a registered callback is left or due
exactly once, whoever ends the future. `KeptFacts` is why forgetting a future loses no slot. `CancelPendingKeeps` is
the longest step, for the place it takes out of the queue.

`ServiceTypeOK` holds more than types: the list in memory is never longer than allowed, whatever an earlier deployment left in the
file. `ListsInv` adds that the lists on their way there fit, too, and that a stored list is settled: the length is checked
of one list and its normal form installed, which is as long only because normalizing once more changes nothing.

`SelectsCovered` compares two readings of a selector. The code walks from the root and keeps, token by token, the nodes reached;
the reference cuts the path of a node into pieces, one per token. `NodesCovered` is the step: the nodes reached by k tokens
are those whose paths can be cut by the first k. A token that goes one level down adds a cut of one step (`TokenLeads`, `CutGrows`), and `**` one
of any length, the empty one included; a payload that is a tree has the node where every cut is (`SelectorsAssumption`).

`VaultSnapshotProofs` proves, from the assumptions of `PIIVault` and `SnapshotAssumption`:

| Theorem | Property |
|---|---|
| `TornRowsSafe` | `TornRowSafe` |
| `CleanRowsRestore` | `CleanRowRestores` |

`SnapInv` adds to `VaultInv` what each dictionary read so far has in common with the vault. `TornInv` is for
a snapshot among registrations: the lists cover the values read before them and the counters the lists, because the reads go
values, tokens, counters and `register` writes in the opposite order. `CleanInv` is for one that nothing disturbed: what
was read is the vault. `TornFact` concludes that the vault made of a torn row numbers on above every
token it holds. A row without lists is rebuilt from its flat map, which goes up to the highest counter: `LegacyComplete` says
that it misses no token, for which the keys must be finitely many (`SnapshotAssumption`) and a finite set of numbers have a
greatest member (`FiniteOrders`). `ByNumberFact` says that the numbers alone give the lists back in their order.

`RedactionEngineProofs` proves, for any messages, questions, replies, spelling (`Written`, `NameWords`, `Camel`, `Similar`), word lists, aliases and
size of the vault, from `RequestsAssumption` and `RepliesAssumption` only:

| Theorem | Property |
|---|---|
| `EngineTypeCorrect` | `EngineTypeOK` |
| `ContactsLeave` | `ContactsCovered` |
| `KnownValuesStayHidden` | `KnownValuesHidden` |
| `NamesAreLearned` | `NamesLearned` |
| `ReadsBack` | `RoundTrip` |
| `RehydrationIsExact` | `RehydrationExact` |

The state is small and the invariants are easy: the vault is a list of entries (`EngineTyped`), the last redaction one of a request with
the vault it had (`LastRedacted`), the last rehydration one with the vault that is there (`LastReply`). What has to be shown
is what the operators compute, over lists of any length.

- How: a fold, a sort and a flattened list are each shown to go step by step (`TakenSteps`, `ReplacedSteps`, `RegisterSteps`, `CleanSteps`, `FlatSteps`,
  `PlacedList` of `FiniteOrders`). What holds at the start and is kept by a step holds at the end (`StepByStep`, a least counterexample).
- What is chosen (`ChosenFacts`): going through the spans in their order, one is taken unless it overlaps one taken before (`TakenFacts`). So a span
  that was left out has one before it in the order that overlaps it: one that begins earlier, or at the same place and is as
  long if both have keys of their own. `ContactsCovered` and `KnownValuesHidden` follow, for an address and a repeat are listed whatever else
  is (`SpansMembers`), and every match of a value's pattern is among the repeats (`RepeatsMembers`).
- What is learned: a replacement teaches keys of its span only (`PlaceholderFacts`, `ReplacedFacts`), and a span of a name is
  chosen only if it was listed, which suppression and business answers prevent.
- Rehydration (`CleanIsAtOnce`): after the first k tokens in the order of the code, the text is the one in which exactly those are
  replaced (`FormedStep`). Two facts carry it: tokens of different entries differ (`TokensDiffer`), and a value is made of words, so it
  holds no token (`ValueFacts`). The order of length does not matter for it: in this code a token is never part of another.
- The round trip: `Reading` is how a redacted text reads with a vault, unit by unit. `ReadingBack` says that giving the text back
  reads so. `Stands` says what one registration does: the token answered stands for the value up to spelling, and only with
  `latest` has another entry of the same key changed. `Registers` carries this over the parts of a name, whose keys differ
  (`KeysForDiffer`), and `Renders` over a span, whose parts are all of its name (`PartsAreAll`). `ReadsOn` is the step of
  the redaction: what was put out before still reads as it did, for a span that takes over a token has no earlier span with its key.

That last condition is `~CorrectsItself`, and it is needed: in a message that says a surname and then corrects it, both
places hold one token, which afterwards stands for the corrected name. `RoundTrip` also leaves out messages with brackets, whose echoed tokens
read as their values when they come back and as themselves when they go out. Letters are compared, not spelling, because a value that is known
already is given back as it was first spelled.

The proofs found one fault of the model, none of the code: in `RepairOne` two arms of the `CASE` held for the same alias, and TLA+ leaves open
which one is taken. The code looks for an alias of a full name first (`pii_engine.py:1099`); now so does the model.

`PIIMiddlewareProofs` proves, for any threads, scopes, limits, kinds of request, fail modes, failures, expiries, deaths
and restarts, from the assumptions of `PersistenceWriter` and `PIIMiddleware` only (a bound such as `ValuesPerContext` is any number from 1):

| Theorem | Property |
|---|---|
| `PermitsAreConserved` | `PermitsConserved` |
| `ScopesHaveOneVault` | `OneVaultPerScope` |
| `NothingLeaksBetweenScopes` | `ScopesIsolated` |
| `MiddlewareTypeCorrect` | `MiddlewareTypeOK` |

`ServeStep` and `ArriveStep` reduce the twenty-odd actions to what they do to a request: it begins, goes on, or ends.
`PermitInv` needs no more than that. The others come in four layers, each proved with the ones before it:

- `ShapeInv`: what a request carries at each stage (`StagesInv`), that scopes and vaults are distinct in the cache (`CacheInv`),
  that the popped vaults are those somebody still holds (`HeapInv`). `VaultsMove` states what any step may do to the cache, and
  `EveryVaultStep` that every step is one of these. What pruning leaves is a list of the entries at some positions, in their
  order; that there is exactly one is `ListingFacts` of `FiniteOrders`.
- `OwnershipInv`: a vault in the cache is not popped, a request whose vault is not popped finds it in the cache, and a vault has
  owners of one scope only: whoever holds it, and the cache. `ScopesHaveOneVault` is its consequence. A new vault is one that
  nobody holds.
- `WrittenInv`: the writer's types hold under the middleware, and numbers of writes never exceed the requests. Pruning
  queues several deletes in one step, which is no step of `PersistenceWriter`; `PruneWrites` counts them.
- `ValuesInv`: everything in a vault, a loaded row, a snapshot or an answer of a scope was disclosed in a context
  whose key the scope is. `NothingLeaksBetweenScopes` follows. It needs ownership, for a registration changes a vault object and not a scope's.

`ConversationProofs` proves what a client of a scope may rely on, for any threads, scopes, requests, queue size, failures, deaths and
restarts:

| Theorem | Property |
|---|---|
| `TokensAreStable` | `TokenStable` |
| `RowsRehydrate` | `AnyInstanceRehydrates` |
| `EndsForget` | `EndForgets` |
| `IssuedRehydrate` | `RehydratesIssued` |

These four have the hypothesis `Undisturbed`, a condition on constants only, which the constants of the run `middleware` meet: the client
of a scope waits for its answers (`OnePerScope`), callers are fail-closed, no entry outlives the TTL (`MaxExpiries = 0`), and
the cache has room for every scope. None of it is for the prover's sake: without any one of them the code does not
keep its tokens (section 3, "What limits the `middleware` run"). There may be any number of threads and scopes, where
the run has one of each.

The argument: nothing expires and nothing is pruned (`Calm`), so every step moves the writer as `PersistenceWriter` does and
its `OrderInv` carries over (`WritesInv`). A scope has at most one request at a time (`ClientInv`). `Talk` then says where the
tokens of an intact scope are: the last write requested for it and its vault, if it has one, resolve each of them, to the value it was answered for
or to a correction of it (`Resolves`); if it has no vault it has no tokens, or the last
write is in the store, or its session is about to end. The second alternative is what a load rests on: without eviction an intact
scope loses its vault at a restart only, and one that lost a write with it is no longer intact. So a load finds every token
in the row. A registration adds a value or corrects the latest one (`Extends`), and the history of corrections grows with it; `AnsweredStable`
is the step that answers a token, where a correction becomes what the token was answered for. `Fits` says the same of a snapshot on its way to the queue. `Forgets` says that the last write of a scope that is over
is a delete, also while the vault is being destroyed. None of this is inductive without `Base`, the four layers above. Most steps leave a scope alone; `Still` and
`Keeps` say what that means, `OtherRequests` and `NobodyElse` that other threads do, and one lemma per remaining step
(`AnswerFit`, `GateFit`, `LookupFit`, `LoadFit`, `InsertFit`, `RedactFit`, `SnapshotFit`, `SaveFit`, `TokenFit`, `PopFit`, `EndFit`,
`DestroyFit`) covers the request of the scope itself; `RestartTalk` covers a restart, where the last write was stored or the
scope is no longer intact.

What is only model-checked, and why:

- Liveness (`writer_liveness`, `SlotsReturn`, `CallersAnswered` and the shutdown): the prover has no rule for fairness.
- The runs that end in a counterexample.

Induction over finite sets, where a proof needs it, goes by a least counterexample: proper inclusion of finite sets is
well-founded, so it has one, and that is shown not to be one (`FiniteOrders`).

## 5. Running

    tlc -config MCVaultSnapshot.cfg MCVaultSnapshot   # and the other .cfg files, named after their module
    tlapm PIIVaultProofs.tla
    tlapm PersistenceWriterProofs.tla
    tlapm RedactorServiceProofs.tla
    tlapm RedactionEngineProofs.tla
    tlapm FiniteOrders.tla
    tlapm VaultSnapshotProofs.tla
    tlapm PIIMiddlewareProofs.tla
    tlapm ConversationProofs.tla

The configurations named after a property are expected to end in a counterexample.

## 6. Not modelled, and the plan

Not modelled:

- What the detectors of names find in a text (GLiNER, the heuristics, the prompted-name parsers) and the word lists
  behind them: regular expressions over characters. `RedactionEngine` allows any of it.
- HTTP parsing, the status codes and response fields of the routes, metrics; encryption beyond which key fits; logging.
- The maintenance scripts: offline conversions of one file with no state between runs.
- The arithmetic of the recovery delay: one capped expression.
- Seven hazards of orchestrator and store that the properties exempt because the code does not prevent them (see "What limits the
  `middleware` run", and the notes in `PROJECT.json`).

What would come next:

1. Several instances over one store.
2. Properties for the hazards without one, each under the weakest condition the code keeps.

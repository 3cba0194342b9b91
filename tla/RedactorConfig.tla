---------------------------- MODULE RedactorConfig ----------------------------
(***************************************************************************)
(* What the environment makes of the service: get_settings (config.py),     *)
(* build_vault_store (persistence.py), the decision to serve or not         *)
(* (server.py) and what a request needs to be let in.  A variable of the    *)
(* environment is unset or a text; a text is a whole number, a decimal, a   *)
(* number without end, not a number ("nan"), one of the words for true, or  *)
(* something else.                                                          *)
(***************************************************************************)
EXTENDS Integers

CONSTANTS
    Deployments,        \* names of deployments
    Envs                \* Envs[d]: the environment of a deployment

Unset == [text |-> "unset", n |-> 0]
Number(k) == [text |-> "number", n |-> k]
Decimal(hundredths) == [text |-> "decimal", n |-> hundredths]
Word(w) == [text |-> w, n |-> 0]

\* _env_int, _env_bool: what does not parse as a whole number is the default, what
\* is neither 1 nor a word for true is false.
EnvInt(v, default) == IF v.text = "number" THEN v.n ELSE default
EnvBool(v, default) == IF v.text = "unset" THEN default ELSE v.text = "true" \/ v = Number(1)
EnvText(v, default) == IF v.text = "unset" THEN default ELSE v.text

\* _env_float, in hundredths.  Forever: inf, or any time a thread cannot be asked to
\* wait (threading.TIMEOUT_MAX).
Forever == 1000000000
EnvFloat(v, default) ==
    CASE v.text = "number" -> 100 * v.n
      [] v.text = "decimal" -> v.n
      [] v.text = "inf" -> Forever
      [] v.text = "-inf" -> -Forever
      [] OTHER -> default

AtLeast(k, n) == IF n < k THEN k ELSE n
AtMost(k, n) == IF n > k THEN k ELSE n
AUDIT_MAX_TURNS_HARD_LIMIT == 200
AUDIT_MAX_CHARACTERS_HARD_LIMIT == 100000

\* max(low, nan) is low.
Seconds(low, v, default) == IF v.text = "nan" THEN low ELSE AtLeast(low, EnvFloat(v, default))
Limit(hard, v) == AtMost(hard, AtLeast(1, EnvInt(v, hard)))

GetSettings(env) ==
    [apiKey             |-> EnvText(env.API_KEY, ""),
     apiKeySha256       |-> EnvText(env.API_KEY_SHA256, ""),
     requireApiKey      |-> EnvBool(env.REQUIRE_API_KEY, TRUE),
     failClosedDefault  |-> EnvBool(env.FAIL_CLOSED_DEFAULT, TRUE),
     allowRaw           |-> EnvBool(env.ALLOW_RAW_REPLACEMENTS, FALSE),
     usePresidio        |-> EnvBool(env.USE_PRESIDIO, FALSE),
     requirePresidio    |-> EnvBool(env.REQUIRE_PRESIDIO, FALSE),
     useGliner          |-> EnvBool(env.USE_GLINER, FALSE),
     requireGliner      |-> EnvBool(env.REQUIRE_GLINER, FALSE),
     requirePersistence |-> EnvBool(env.REQUIRE_PERSISTENCE, FALSE),
     blockOnError       |-> EnvBool(env.PERSISTENCE_BLOCK_ON_ERROR, TRUE),
     persistenceMode    |-> EnvText(env.PERSISTENCE_MODE, "none"),
     internalStore      |-> EnvText(env.INTERNAL_STORE_IMPL, "supabase"),
     cacheEnabled       |-> EnvBool(env.ALLOWLIST_CACHE_ENABLED, TRUE),
     cacheMaxTerms      |-> AtLeast(100, EnvInt(env.ALLOWLIST_CACHE_MAX_TERMS, 50000)),
     ttl                |-> AtLeast(60, EnvInt(env.VAULT_TTL_SECONDS, 3600)),
     maxActiveScopes    |-> AtLeast(1, EnvInt(env.MAX_ACTIVE_SCOPES, 15)),
     redactConcurrency  |-> AtLeast(1, EnvInt(env.REDACT_MAX_CONCURRENCY, 24)),
     rehydrateConcurrency |-> AtLeast(1, EnvInt(env.REHYDRATE_MAX_CONCURRENCY, 24)),
     acquireTimeout     |-> Seconds(0, env.CONCURRENCY_ACQUIRE_TIMEOUT_SECONDS, 50),
     queueMax           |-> AtLeast(1, EnvInt(env.PERSISTENCE_QUEUE_MAX, 1024)),
     recoveryCooldown   |-> AtLeast(1, EnvInt(env.RECOVERY_COOLDOWN_SECONDS, 30)),
     auditTurns         |-> Limit(AUDIT_MAX_TURNS_HARD_LIMIT, env.AUDIT_MAX_TURNS),
     auditCharacters    |-> Limit(AUDIT_MAX_CHARACTERS_HARD_LIMIT, env.AUDIT_MAX_CHARACTERS),
     auditTimeout       |-> Seconds(1, env.AUDIT_TIMEOUT_SECONDS, 200),
     auditConcurrency   |-> AtLeast(1, EnvInt(env.AUDIT_MAX_CONCURRENCY, 2)),
     auditAcquireTimeout |-> Seconds(0, env.AUDIT_ACQUIRE_TIMEOUT_SECONDS, 10)]

\* A text that parses as a number is a number.
ASSUME EnvsAssumption ==
    \A d \in Deployments :
        \A v \in {Envs[d].ALLOWLIST_CACHE_MAX_TERMS, Envs[d].VAULT_TTL_SECONDS,
                  Envs[d].MAX_ACTIVE_SCOPES, Envs[d].REDACT_MAX_CONCURRENCY,
                  Envs[d].REHYDRATE_MAX_CONCURRENCY, Envs[d].CONCURRENCY_ACQUIRE_TIMEOUT_SECONDS,
                  Envs[d].PERSISTENCE_QUEUE_MAX, Envs[d].RECOVERY_COOLDOWN_SECONDS,
                  Envs[d].AUDIT_MAX_TURNS, Envs[d].AUDIT_MAX_CHARACTERS,
                  Envs[d].AUDIT_TIMEOUT_SECONDS, Envs[d].AUDIT_MAX_CONCURRENCY,
                  Envs[d].AUDIT_ACQUIRE_TIMEOUT_SECONDS} :
            v.text \in {"number", "decimal"} => v.n \in Int

--------------------------------------------------------------------------------
(* build_vault_store: the store, "none", or a PersistenceConfigError.          *)

\* SupabaseVaultStore.__init__ and _ScopeCipher.__init__ want the library, an HTTP
\* URL, a service key, a table and a master key.
SupabaseParts == {"cryptography", "url", "http_url", "service_role_key", "table", "master_key"}

\* The external factory must be a path module:callable that can be imported and
\* called and that returns an object with load, save and delete.
FactorySteps == {"path", "colon", "import", "callable", "returns", "not_none", "methods"}

BuildVaultStore(s, env) ==
    CASE s.persistenceMode = "none" -> IF s.requirePersistence THEN "error" ELSE "none"
      [] s.persistenceMode = "internal" ->
            IF s.internalStore = "memory" THEN "memory"
            ELSE IF s.internalStore = "supabase" /\ SupabaseParts \subseteq env.supabase
                 THEN "supabase" ELSE "error"
      [] s.persistenceMode = "external" ->
            IF FactorySteps \subseteq env.factory THEN "external" ELSE "error"
      [] OTHER -> "error"

\* server.py at import: a required detector must be switched on and have loaded.
DetectorFit(required, used, loads) == required => used /\ loads

Fit(s, env) ==
    /\ BuildVaultStore(s, env) # "error"
    /\ DetectorFit(s.requireGliner, s.useGliner, env.glinerLoads)
    /\ DetectorFit(s.requirePresidio, s.usePresidio, env.presidioLoads)

--------------------------------------------------------------------------------
(* The routes.                                                                 *)

\* _validate_api_key: 200 to go on.
Authorize(s, key) ==
    IF ~s.requireApiKey THEN 200
    ELSE IF s.apiKey = "" /\ s.apiKeySha256 = "" THEN 503
    ELSE IF s.apiKey # "" /\ key = s.apiKey THEN 200
    ELSE IF s.apiKeySha256 # "" /\ <<"sha256", key>> = <<"sha256", s.apiKeySha256>> THEN 200
    ELSE 401

\* AllowlistRefreshRequest.validate_sources
SourcesGiven(request) ==
    request.terms # {} \/ (request.payload # <<>> /\ request.selectors # {})
================================================================================

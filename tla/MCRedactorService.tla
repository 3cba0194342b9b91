--------------------------- MODULE MCRedactorService ---------------------------
(* Constants for model checking RedactorService: two request threads and at    *)
(* most two audit workers; deployments that serve, with one slot and with two, *)
(* and deployments that lack something they require.                           *)
EXTENDS RedactorService, TLC

\* Three terms of which two are allowed, and one with nothing left of it.
MCNormal(t) == IF t = "!!" THEN "" ELSE t

\* {"names": ["acme", "!!"], "meta": {"team": "blue"}}
MCPayload ==
    (<<>> :> "object") @@ (<<"names">> :> "array") @@ (<<"names", "0">> :> "acme")
    @@ (<<"names", "1">> :> "!!") @@ (<<"meta">> :> "object") @@ (<<"meta", "team">> :> "blue")
MCPayloads == {MCPayload}
Tok(kind, at) == [kind |-> kind, at |-> at]
Sel(tokens, include) == [parses |-> TRUE, tokens |-> tokens, include |-> include]
MCSelectors ==
    {Sel(<<>>, "keys"),
     Sel(<<Tok("name", "names"), Tok("index", "0")>>, "values"),
     Sel(<<Tok("name", "names"), Tok("name", "0")>>, "values"),
     Sel(<<Tok("descend", ""), Tok("name", "team")>>, "both"),
     Sel(<<Tok("descend", ""), Tok("descend", "")>>, "values"),
     Sel(<<Tok("any", ""), Tok("any", "")>>, "values"),
     Sel(<<Tok("any", ""), Tok("descend", ""), Tok("any", "")>>, "keys"),
     [parses |-> FALSE, tokens |-> <<>>, include |-> "values"]}

Refresh(terms, selectors) ==
    [terms |-> terms, payload |-> IF selectors = {} THEN <<>> ELSE MCPayload, selectors |-> selectors]
MCRefreshes ==
    {Refresh({"acme"}, {}),
     Refresh({"!!"}, {Sel(<<Tok("descend", ""), Tok("name", "team")>>, "values")}),
     Refresh({"acme", "blue", "cobalt"}, {})}

Default ==
    [v \in {"API_KEY", "API_KEY_SHA256", "REQUIRE_API_KEY", "FAIL_CLOSED_DEFAULT",
            "ALLOW_RAW_REPLACEMENTS", "USE_PRESIDIO", "REQUIRE_PRESIDIO", "USE_GLINER",
            "REQUIRE_GLINER", "REQUIRE_PERSISTENCE", "PERSISTENCE_BLOCK_ON_ERROR", "PERSISTENCE_MODE", "INTERNAL_STORE_IMPL",
            "ALLOWLIST_CACHE_ENABLED", "ALLOWLIST_CACHE_MAX_TERMS", "VAULT_TTL_SECONDS",
            "MAX_ACTIVE_SCOPES", "REDACT_MAX_CONCURRENCY", "REHYDRATE_MAX_CONCURRENCY",
            "CONCURRENCY_ACQUIRE_TIMEOUT_SECONDS", "PERSISTENCE_QUEUE_MAX",
            "RECOVERY_COOLDOWN_SECONDS", "AUDIT_MAX_TURNS", "AUDIT_MAX_CHARACTERS",
            "AUDIT_TIMEOUT_SECONDS", "AUDIT_MAX_CONCURRENCY", "AUDIT_ACQUIRE_TIMEOUT_SECONDS"} |-> Unset]
Deployed(texts, supabase, factory, gliner, presidio) ==
    [v \in DOMAIN Default \cup {"supabase", "factory", "glinerLoads", "presidioLoads"} |->
        CASE v = "supabase" -> supabase
          [] v = "factory" -> factory
          [] v = "glinerLoads" -> gliner
          [] v = "presidioLoads" -> presidio
          [] v \in DOMAIN texts -> texts[v]
          [] OTHER -> Default[v]]
Keyed(texts) == texts @@ [API_KEY |-> Word("k1")]

MCEnvs == <<
    \* Serve: one slot, from a text below the range; two slots and no cache; one
    \* slot, no cache and a deadline without end.
    Deployed(Keyed([AUDIT_MAX_CONCURRENCY |-> Number(0), AUDIT_MAX_TURNS |-> Number(999),
                    PERSISTENCE_QUEUE_MAX |-> Number(-1), USE_GLINER |-> Word("true"),
                    REQUIRE_GLINER |-> Word("true"), FAIL_CLOSED_DEFAULT |-> Word("false")]),
             {}, {}, TRUE, FALSE),
    Deployed([AUDIT_MAX_CONCURRENCY |-> Word("two"), ALLOWLIST_CACHE_ENABLED |-> Word("off"),
              REQUIRE_API_KEY |-> Word("no"), PERSISTENCE_MODE |-> Word("internal"),
              REQUIRE_PERSISTENCE |-> Word("true"), ALLOW_RAW_REPLACEMENTS |-> Word("true")],
             SupabaseParts, {}, FALSE, FALSE),
    Deployed([AUDIT_MAX_CONCURRENCY |-> Number(1), ALLOWLIST_CACHE_ENABLED |-> Word("off"),
              REQUIRE_API_KEY |-> Word("no"), AUDIT_TIMEOUT_SECONDS |-> Word("inf"),
              CONCURRENCY_ACQUIRE_TIMEOUT_SECONDS |-> Word("nan"),
              AUDIT_ACQUIRE_TIMEOUT_SECONDS |-> Decimal(5)],
             {}, {}, FALSE, FALSE),
    \* Refuse to start.
    Deployed(Keyed([USE_GLINER |-> Word("true"), REQUIRE_GLINER |-> Word("true")]), {}, {}, FALSE, FALSE),
    Deployed(Keyed([REQUIRE_PRESIDIO |-> Word("true")]), {}, {}, FALSE, TRUE),
    Deployed(Keyed([REQUIRE_PERSISTENCE |-> Word("true")]), {}, {}, FALSE, FALSE),
    Deployed(Keyed([PERSISTENCE_MODE |-> Word("internal")]), SupabaseParts \ {"master_key"}, {}, FALSE, FALSE),
    Deployed(Keyed([PERSISTENCE_MODE |-> Word("external")]), {}, FactorySteps \ {"methods"}, FALSE, FALSE),
    Deployed(Keyed([PERSISTENCE_MODE |-> Word("suopabase")]), {}, {}, FALSE, FALSE)>>
MCDeployments == DOMAIN MCEnvs
================================================================================

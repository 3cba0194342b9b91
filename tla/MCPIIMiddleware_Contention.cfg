SPECIFICATION MiddlewareSpec
CONSTANTS
    t1 = t1
    t2 = t2
    worker = worker
    Threads <- MCThreads
    Worker = worker
    Contexts <- MCContexts
    Scopes = {"a:b:c:v:s:thread_1", "d:c:v:s:thread_1"}
    QueueMax = 1
    Categories = {"transient"}
    MaxRequests = 12
    MaxFailures = 0
    MaxDeaths = 0
    MaxRestarts = 0
    Configs <- Unblocked
    MaxActiveScopes = 1
    Permits <- TwoPermits
    ClosedModes = {FALSE}
    LatestModes = {FALSE}
    Kinds = {"redact","rehydrate","end"}
    OnePerScope = FALSE
    SavedScopes = {}
    ValuesPerContext = 1
    MaxVaults = 4
    MaxStarts = 3
    MaxErrors = 1
    MaxExpiries = 1
SYMMETRY Symmetric
INVARIANTS
    MiddlewareTypeOK
    PermitsConserved
    OneVaultPerScope
    ScopesIsolated
CHECK_DEADLOCK FALSE

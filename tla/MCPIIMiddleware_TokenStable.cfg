SPECIFICATION MiddlewareSpec
CONSTANTS
    t1 = t1
    t2 = t2
    worker = worker
    Threads <- MCThreads
    Worker = worker
    Contexts <- OneContext
    Scopes = {"a:b:c:v:s:thread_1"}
    QueueMax = 2
    Categories = {"transient"}
    MaxRequests = 12
    MaxFailures = 0
    MaxDeaths = 0
    MaxRestarts = 0
    Configs <- Blocking
    MaxActiveScopes = 2
    Permits <- TwoPermits
    ClosedModes = {TRUE}
    LatestModes = {FALSE}
    Kinds = {"redact", "rehydrate"}
    OnePerScope = FALSE
    SavedScopes = {"a:b:c:v:s:thread_1"}
    ValuesPerContext = 3
    MaxVaults = 6
    MaxStarts = 3
    MaxErrors = 0
    MaxExpiries = 0
SYMMETRY Symmetric
PROPERTIES
    TokenStable
CHECK_DEADLOCK FALSE

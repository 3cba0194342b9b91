SPECIFICATION MiddlewareSpec
CONSTANTS
    t1 = t1
    t2 = t2
    worker = worker
    Threads <- OneThread
    Worker = worker
    Contexts <- OneContext
    Scopes = {"a:b:c:v:s:thread_1"}
    QueueMax = 2
    Categories = {"transient"}
    MaxRequests = 12
    MaxFailures = 1
    MaxDeaths = 1
    MaxRestarts = 1
    Configs <- BlockingOrNone
    MaxActiveScopes = 2
    Permits <- TwoPermits
    ClosedModes = {TRUE}
    LatestModes = {TRUE, FALSE}
    Kinds = {"redact", "rehydrate", "end"}
    OnePerScope = TRUE
    SavedScopes = {"a:b:c:v:s:thread_1"}
    ValuesPerContext = 2
    MaxVaults = 2
    MaxStarts = 4
    MaxErrors = 1
    MaxExpiries = 0
INVARIANTS
    AnyInstanceRehydrates
    EndForgets
PROPERTIES
    TokenStable
    RehydratesIssued
CHECK_DEADLOCK FALSE

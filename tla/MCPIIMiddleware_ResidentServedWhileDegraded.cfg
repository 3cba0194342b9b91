SPECIFICATION MiddlewareSpec
CONSTANTS
    t1 = t1
    t2 = t2
    worker = worker
    Threads <- MCThreads
    Worker = worker
    Contexts <- OneContext
    Scopes = {"a:b:c:v:s:thread_1"}
    QueueMax = 2
    Categories = {"transient"}
    MaxRequests = 12
    MaxFailures = 1
    MaxDeaths = 0
    MaxRestarts = 0
    Configs <- Blocking
    MaxActiveScopes = 2
    Permits <- TwoPermits
    ClosedModes = {TRUE}
    LatestModes = {FALSE}
    Kinds = {"redact"}
    OnePerScope = FALSE
    SavedScopes = {}
    ValuesPerContext = 2
    MaxVaults = 6
    MaxStarts = 4
    MaxErrors = 0
    MaxExpiries = 0
PROPERTIES
    ResidentServedWhileDegraded
CHECK_DEADLOCK FALSE

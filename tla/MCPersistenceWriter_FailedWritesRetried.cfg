SPECIFICATION Spec
CONSTANTS
    t1 = t1
    t2 = t2
    s1 = s1
    s2 = s2
    worker = worker
    Threads <- OneThread
    Worker = worker
    Scopes <- MCScopes
    QueueMax = 2
    Categories = {"transient"}
    MaxRequests = 2
    MaxFailures = 1
    MaxDeaths = 0
    MaxRestarts = 0
INVARIANT FailedWritesRetried
CHECK_DEADLOCK FALSE

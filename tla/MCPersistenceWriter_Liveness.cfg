SPECIFICATION FairSpec
CONSTANTS
    t1 = t1
    t2 = t2
    s1 = s1
    s2 = s2
    worker = worker
    Threads <- MCThreads
    Worker = worker
    Scopes <- OneScope
    QueueMax = 2
    Categories = {"transient", "auth"}
    MaxRequests = 3
    MaxFailures = 2
    MaxDeaths = 1
    MaxRestarts = 0
PROPERTIES
    QueueDrains
    RetryHeals
CHECK_DEADLOCK FALSE

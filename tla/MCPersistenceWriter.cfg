SPECIFICATION Spec
CONSTANTS
    t1 = t1
    t2 = t2
    s1 = s1
    s2 = s2
    worker = worker
    Threads <- MCThreads
    Worker = worker
    Scopes <- MCScopes
    QueueMax = 2
    Categories = {"transient", "auth"}
    MaxRequests = 2
    MaxFailures = 2
    MaxDeaths = 1
    MaxRestarts = 1
SYMMETRY Symmetric
INVARIANTS
    TypeOK
    HealthConsistent
    RecoveryHeld
    InOrder
    NoGap
    RecoverOnlyFailed
CHECK_DEADLOCK FALSE

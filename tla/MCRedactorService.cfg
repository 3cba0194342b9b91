SPECIFICATION FairSpec
CONSTANTS
    MaxTerms = 2
    Normal <- MCNormal
    Payloads <- MCPayloads
    Selectors <- MCSelectors
    Users = {1, 2, 11, 12}
    Callers = {11, 12}
    Workers = {1, 2}
    FutureIds = {1, 2}
    StoredLists = {{"acme", "blue", "cobalt"}}
    Refreshers = {11}
    Refreshes <- MCRefreshes
    Keys = {"k1", "k2"}
    Deployments <- MCDeployments
    Envs <- MCEnvs
CHECK_DEADLOCK FALSE
INVARIANTS
    ServiceTypeOK
    SelectsCovered
    CopiesAgree
    SlotsConserved
    ActiveExact
PROPERTIES
    SlotsReturn
    CallersAnswered
    CloseEnds

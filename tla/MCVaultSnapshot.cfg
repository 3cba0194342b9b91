SPECIFICATION SnapshotSpec
CONSTANTS
    ENTITY_KEYS <- MCKeys
    NAME_ENTITY_KEYS <- MCNameKeys
    OtherKeys <- MCOtherKeys
    Values <- SnapshotValues
    EmptyValue <- MCEmpty
    PhoneKey = "ph"
    MaxProfile = 2
    MaxTokens = 2
    KeyVersions = {"v1", "v2"}
    MaxDuring = 1
    StoreImpls = {"memory", "supabase"}
INVARIANTS
    TypeOK
    TokensDense
    IndexExact
    ReplyResolves
    CleanRowRestores
    TornRowSafe
PROPERTIES
    OnlyLatestRewritten
    LedgerSpec

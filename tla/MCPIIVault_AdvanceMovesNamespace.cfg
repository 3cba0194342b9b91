SPECIFICATION Spec
CONSTANTS
    ENTITY_KEYS <- MCKeys
    NAME_ENTITY_KEYS <- MCNameKeys
    OtherKeys <- MCOtherKeys
    Values <- MCValues
    EmptyValue <- MCEmpty
    PhoneKey = "ph"
    MaxProfile = 2
    MaxTokens = 3
PROPERTY AdvanceMovesNamespace

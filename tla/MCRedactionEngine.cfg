SPECIFICATION Spec
CONSTANTS
    Written <- MCWritten
    Signs <- MCSigns
    NameWords <- MCNameWords
    CoupleWord <- MCCoupleWord
    Camel <- MCCamel
    Phrase <- MCPhrase
    Similar <- MCSimilar
    Fuzzy <- MCFuzzy
    NonNames <- MCNonNames
    Blocked <- MCBlocked
    Alias <- MCAlias
    Requests <- MCRequests
    Replies <- MCReplies
    MaxValues = 3
INVARIANTS
    EngineTypeOK
    ContactsCovered
    KnownValuesHidden
    NamesLearned
    RoundTrip
    RehydrationExact

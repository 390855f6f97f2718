SPECIFICATION FairSpec
CONSTANTS
    MaxNodes = 6
    MaxMixed = 4
    Templates <- MCTemplates
    AllowMissing = TRUE
    MaxCalls = 2
INVARIANTS
    TypeOK
    LoopSemantics
    CountersExact
    Descends
PROPERTY
    Terminates
CHECK_DEADLOCK FALSE

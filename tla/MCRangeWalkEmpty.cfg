SPECIFICATION Spec
CONSTANTS
    MaxNodes = 4
    MaxMixed = 4
    Templates <- MCTemplates
    AllowMissing = TRUE
    MaxCalls = 1
INVARIANTS
    EmptyRangeHarmless
CHECK_DEADLOCK FALSE

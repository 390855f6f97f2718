SPECIFICATION FairSpec
CONSTANTS
    MaxInt = 7
    MaxLen = 3
    Subscripts <- MCSubscripts
    Inputs <- MCInputs
INVARIANTS
    TypeOK
    InBounds
    IndexSelectsOne
    MatchesSlices
PROPERTY
    Terminates
CHECK_DEADLOCK FALSE

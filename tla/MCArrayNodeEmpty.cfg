SPECIFICATION Spec
CONSTANTS
    MaxInt = 7
    MaxLen = 3
    Subscripts <- MCSubscripts
    Inputs <- MCInputs
INVARIANTS
    EmptySliceAllowed
CHECK_DEADLOCK FALSE

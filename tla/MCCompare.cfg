SPECIFICATION Spec
CONSTANTS
    Half = 4
    Operands <- MCOperands
INVARIANTS
    IntegersExact
    TotalOrder
    ErrorsAlike
CHECK_DEADLOCK FALSE

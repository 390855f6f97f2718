SPECIFICATION Spec
CONSTANTS
    MaxInt = 7
    a = a
    b = b
    literal = literal
    Depth = 2
    Steps <- MCSteps
    Root <- MCRoot
    Documents <- MCDocuments
    Nodes <- MCNodes
    Lists <- FailingLists
    Failure = Failure
    Size <- MCSize
    Templates <- FailingHas
INVARIANT
    Denotes
CHECK_DEADLOCK FALSE

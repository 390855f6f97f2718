SPECIFICATION FairSpec
CONSTANTS
    MaxInt = 7
    a = a
    b = b
    literal = literal
    Depth = 2
    Steps <- MCSteps
    Root <- MCRoot
    Documents <- MCDocuments
    Nodes <- MCNodes
    Lists <- MCLists
    Failure = Failure
    Size <- MCSize
    Templates <- MCTemplates
INVARIANTS
    TypeOK
    CallsMatch
    Denotes
    NeverFails
PROPERTY
    Terminates
CHECK_DEADLOCK FALSE

SPECIFICATION FairSpec
CONSTANTS
    pod = pod
    custom = custom
    config = config
    other = other
    containers = containers
    initContainers = initContainers
    field = field
    list = list
    nginx = nginx
    busybox = busybox
    extra = extra
    Types <- MCTypes
    ConfigType = config
    Paths <- MCPaths
    Names <- MCNames
    DefaultRules <- MCDefaults
    Inputs <- MCInputs
INVARIANTS
    TypeOK
    EveryReferenceArchived
    ExitTellsOutcome
    StopFollowsStart
PROPERTIES
    OutputTouchedOnlyIfUsable
    RunEnds
CHECK_DEADLOCK FALSE

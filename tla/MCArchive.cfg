SPECIFICATION FairSpec
CONSTANTS
    nginx = nginx
    app = app
    bad = bad
    amd64 = amd64
    arm64 = arm64
    Images <- MCImages
    Unparseable <- MCUnparseable
    Platforms <- MCPlatforms
    DefaultPlatform = amd64
    Indexes <- MCIndexes
    Serves <- MCServes
    Compressed = TRUE
    Faults <- QuietCloses
    MaxCalls = 2
INVARIANTS
    TypeOK
    SuccessMeansArchive
    IndexesResolved
    FlushBeforeClose
    NoTempDirLeft
PROPERTIES
    OutputTouchedOnlyAfterFetch
    EveryRunEnds
    ImplementsContract
CHECK_DEADLOCK FALSE

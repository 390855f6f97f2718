SPECIFICATION Spec
CONSTANTS
    nginx = nginx
    app = app
    bad = bad
    amd64 = amd64
    arm64 = arm64
    Images <- MCImages
    Unparseable <- MCUnparseable
    Platforms <- MCPlatforms
    DefaultPlatform = amd64
    Indexes <- MCIndexes
    Serves <- MCServes
    Compressed = TRUE
    Faults <- AllFaults
    MaxCalls = 2
INVARIANT
    SuccessMeansArchive
CHECK_DEADLOCK FALSE

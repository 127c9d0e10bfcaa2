\* Two compactors side by side, one that fails, ones started with other sizes.
SPECIFICATION CompactionSpec
CONSTANTS
    Null = Null
    p1 = p1
    p2 = p2
    p3 = p3
    Reader <- ThreeProcesses
    Task <- AllTasks
    Scenario <- SafeScenarios
    SegmentSize = 2
    GroupSize = 1
    GroupSizeOf <- GroupSizes
    StartingBlock = 0
    MaxBlock = 6
    MaxInbox = 2
    MaxPublications = 9
    MaxBreaks = 1
    MaxGeneration = 0
INVARIANTS
    CompactionTypeOK
    ReadableSegmentsExist
    NoBlockIsLost
    PrunedBlocksAreGone
    OneCompactor
    PruneReachesGrouped
PROPERTIES
    CursorsNeverMoveBack
CHECK_DEADLOCK FALSE

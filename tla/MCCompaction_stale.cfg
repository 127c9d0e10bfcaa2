\* A process that reads the segmented cursor when it starts, before its watch is
\* open, and takes over later.
SPECIFICATION CompactionSpec
CONSTANTS
    Null = Null
    p1 = p1
    p2 = p2
    p3 = p3
    Reader <- TwoProcesses
    Task <- AllTasks
    Scenario <- Standby
    SegmentSize = 1
    GroupSize = 1
    GroupSizeOf <- GroupSizes
    StartingBlock = 0
    MaxBlock = 3
    MaxInbox = 2
    MaxPublications = 9
    MaxBreaks = 0
    MaxGeneration = 0
INVARIANTS
    DeletedBlocksAreNotRead
CHECK_DEADLOCK FALSE

\* One process and a chain that goes on.
SPECIFICATION FairCompactionSpec
CONSTANTS
    Null = Null
    p1 = p1
    p2 = p2
    p3 = p3
    Reader <- TwoProcesses
    Task <- AllTasks
    Scenario <- Steady
    SegmentSize = 1
    GroupSize = 2
    GroupSizeOf <- GroupSizes
    StartingBlock = 0
    MaxBlock = 5
    MaxInbox = 1
    MaxPublications = 9
    MaxBreaks = 0
    MaxGeneration = 0
PROPERTIES
    CompactionKeepsUp
CHECK_DEADLOCK FALSE

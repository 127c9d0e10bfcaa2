CONSTANTS
    Block <- TreeBlock
    Number <- TreeHeight
    Parent <- TreeParent
    InitialChain <- GenesisChain
    InitialHeight = 0
    ZeroHash = ZeroHash
    Null = Null
    ChainSegmentSize = 2
    ChainSegmentUploadOffset = 2
    MaxConcurrentTasks = 2
    StartingBlock = 0
    LaggingFinalized = FALSE
    MaxFinalized = 0
    MaxReorgDepth = 0
    SupportsPending = TRUE
    Failures = TRUE
    MaxGeneration = 2
    MaxNotifications = 1
SPECIFICATION FairSpec
INVARIANTS
    QueueIsConsecutive
    PendingPointerResolves
PROPERTY NewHeadIsIngested

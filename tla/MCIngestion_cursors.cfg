CONSTANTS
    Block <- LowBlock
    Number <- LowHeight
    Parent <- LowParent
    InitialChain <- GenesisChain
    InitialHeight = 0
    ZeroHash = ZeroHash
    Null = Null
    MaxFinalized = 0
    MaxReorgDepth = 2
    ChainSegmentSize = 1
    ChainSegmentUploadOffset = 3
    MaxConcurrentTasks = 2
    StartingBlock = 0
    SupportsPending = FALSE
    LaggingFinalized = FALSE
    Failures = FALSE
    MaxGeneration = 0
    MaxNotifications = 0
SPECIFICATION Spec
INVARIANTS
    CommonBlockIsKept
    EveryPublishedCursorIsKnown
    PublishedCursorIsAccepted
    ReorgTargetsAreAncestors
PROPERTY ReadableSegmentsAreImmutable

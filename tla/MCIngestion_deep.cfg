CONSTANTS
    Block <- DeepBlock
    Number <- DeepHeight
    Parent <- DeepParent
    InitialChain <- GenesisChain
    InitialHeight = 0
    ZeroHash = ZeroHash
    Null = Null
    MaxFinalized = 1
    MaxReorgDepth = 2
    ChainSegmentSize = 2
    ChainSegmentUploadOffset = 1
    MaxConcurrentTasks = 1
    StartingBlock = 1
    SupportsPending = FALSE
    LaggingFinalized = TRUE
    Failures = TRUE
    MaxGeneration = 0
    MaxNotifications = 0
SPECIFICATION FairSpec
INVARIANTS
    TypeOK
    LastIngestedIsBuilderHead
    PublishedChainIsComplete
    PublishedBlocksAreStored
PROPERTIES
    RecoveryEnds
    ImplementsPublishedChain

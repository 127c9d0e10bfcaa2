CONSTANTS
    c1 = c1
    c2 = c2
    Client <- TwoClients
    Null = Null
    ZeroHash = ZeroHash
    Block <- TreeBlock
    Number <- TreeHeight
    Parent <- TreeParent
    StartingBlock = 0
    ChainSegmentSize = 3
    MaxStreams = 1
    ChannelSize = 1
    PrefetchSegments = 1
    BlocksPerSegment = 1
    SegmentsPerGroup = 2
    Setting <- Settings

SPECIFICATION StreamSpec

INVARIANTS
    StreamTypeOK
    ClientHoldsOneBranch
    FinalizedStreamIsFinal
    PermitsAreConserved
    PendingDataExtendsPosition

PROPERTIES
    FinalizedClientKeepsBranch
    LastingBlockIsDelivered
    PermitIsReturned

CHECK_DEADLOCK FALSE

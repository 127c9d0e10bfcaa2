CONSTANTS
    c1 = c1
    c2 = c2
    Client <- TwoClients
    Null = Null
    ZeroHash = ZeroHash
    Block <- TreeBlock
    Number <- TreeHeight
    Parent <- TreeParent
    StartingBlock = 0
    ChainSegmentSize = 3
    MaxStreams = 1
    ChannelSize = 1
    PrefetchSegments = 1
    BlocksPerSegment = 1
    SegmentsPerGroup = 2
    Setting <- ForkOnly

SPECIFICATION StreamSpec

PROPERTIES
    FinalizedDataIsKept

CHECK_DEADLOCK FALSE

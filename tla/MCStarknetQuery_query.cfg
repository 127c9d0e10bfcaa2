CONSTANTS
    Null = Null
    FirstBlock = 4
    SegmentSize = 2
    GroupSize = 2
    Content <- Chains
    Request <- Requests
    MessageLen <- Lengths

SPECIFICATION QuerySpec

INVARIANTS
    AnswerIsExact
    NoOperationFails
    GroupIndexIsComplete
    FramesAreSound

CHECK_DEADLOCK FALSE

SPECIFICATION Spec
CONSTANTS
    TwoWay = {r1}
    Streaming = {s1}
    OneWay = {}
    Forget = {}
    BackReply = {b1}
    NoReq = NoReq
    Cancellable = {s1}
    SendBuffer = 2
    ReplyCap = 1
    MaxReplies = 1
    MaxStreams = 2
    MaxConnDrops = 0
    First = r1
    Second = s1
ACTION_CONSTRAINTS OneCaller OneOfAnotherKind
CHECK_DEADLOCK FALSE
INVARIANTS OneOwner WakeupNotLost FifoOnFirstStream ResendOnlyTwoWay
PROPERTIES NoRequestDropped OnlyOwnStreamCancelled ImplementsContract

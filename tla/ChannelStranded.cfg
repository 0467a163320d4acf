SPECIFICATION FairSpec
CONSTANTS
    TwoWay = {r1, r2}
    Streaming = {}
    OneWay = {}
    Forget = {}
    BackReply = {}
    NoReq = NoReq
    Cancellable = {}
    SendBuffer = 0
    ReplyCap = 1
    MaxReplies = 1
    MaxStreams = 2
    MaxConnDrops = 1
    First = r1
    Second = r2
CHECK_DEADLOCK FALSE
PROPERTY LostStreamRequeues

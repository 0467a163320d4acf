SPECIFICATION FairSpec
CONSTANTS
    TwoWay = {r1}
    Streaming = {}
    OneWay = {o1}
    Forget = {}
    BackReply = {}
    NoReq = NoReq
    Cancellable = {}
    SendBuffer = 0
    ReplyCap = 1
    MaxReplies = 1
    MaxStreams = 2
    MaxConnDrops = 1
    First = r1
    Second = o1
ACTION_CONSTRAINT OneCaller
CHECK_DEADLOCK FALSE
PROPERTIES  CloseCompletes

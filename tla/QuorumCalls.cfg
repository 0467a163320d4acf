SPECIFICATION FairSpec
CONSTANTS
    a = a
    b = b
    c = c
    low = low
    high = high
    Calls <- MCCalls
    Nodes = {a, b, c}
    Watchers = {low, high}
    WatchLevel <- MCWatchLevel
    StreamFactor = 1
    MaxAnswers = 2
CHECK_DEADLOCK FALSE
INVARIANTS RoomForAnswers ResultJustified CountedOnce
PROPERTIES CorrectableProgress CallReturns

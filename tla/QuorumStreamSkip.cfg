SPECIFICATION FairSpec
CONSTANTS
    a = a
    b = b
    c = c
    low = low
    high = high
    Calls <- MCStreamSkip
    Nodes = {a, b}
    Watchers = {low, high}
    WatchLevel <- MCWatchLevel
    StreamFactor = 2
    MaxAnswers = 4
CHECK_DEADLOCK FALSE
PROPERTY EndsWhenCancelled

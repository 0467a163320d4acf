SPECIFICATION CallsFairSpec
CONSTANTS
    Self = 1
    Peers = {2, 3}
    Strangers = {4}
    FirstClient = 5
    LastClient = 6
    Conns = {c1, c2}
    Calls = {r1}
    Waiters = {w1}
    Want <- MCWant
    None = None
CHECK_DEADLOCK FALSE
INVARIANTS ConfigFollowsStreams DetachedIsClosed NoMissedChange
           AnsweredAtMostOnce StrandedOnlyIfLate DisturbedForCause
PROPERTY WaitsEnd

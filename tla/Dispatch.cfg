SPECIFICATION FairSpec
CONSTANTS
    Remote = {m1, m2}
    LocalTwoWay = {l1}
    LocalOneWay = {l2}
    Replying = {m1, l1}
    Unhandled = {m2, l2}
    Nested = {m1}
    Cancellable = {l1}
    FinishedCap = 0
    NoMsg = NoMsg
ACTION_CONSTRAINT AtMostTwo
CHECK_DEADLOCK FALSE
INVARIANTS OneTurnAtATime HandlersInOrder
PROPERTIES LocalContract RequestsServed StreamEnds

SPECIFICATION FairSpec
CONSTANTS
    MaxSystems = 3
    NumNodes = 3
    Nothing = Nothing
    NotANumber = NotANumber
    MaxFaults = 1
    Blank = 0
    Invocations <- MCInvocations
    Typed <- MCTyped
    Sentences <- MCSentences
CHECK_DEADLOCK FALSE
INVARIANTS StoppedIsReleased WaitEndsForCause NoOrphans
           WordsSurviveQuoting CallsAreWellFormed
PROPERTY StopCompletes

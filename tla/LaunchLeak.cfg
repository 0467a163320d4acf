SPECIFICATION Spec
CONSTANTS
    MaxSystems = 3
    NumNodes = 3
    Nothing = Nothing
    NotANumber = NotANumber
    MaxFaults = 1
    Blank = 0
    Invocations <- MCInvocations
    Typed <- MCTyped
    Sentences <- MCSentences
CHECK_DEADLOCK FALSE
INVARIANT FailedStartReleases

SPECIFICATION Spec
CONSTANTS
    MaxLines = 1
    PipeCap = 1
    ReadyLimit = 1
    PrepareAttempts = 2
    FailCap = 1
    ShiftCap = 18
    LoudAfter = 1
    RetryInitial = 1
    RetryMax = 1
    PathFaults = {FALSE}
    Jobs = {TRUE, FALSE}
INVARIANT
    SingleWriter

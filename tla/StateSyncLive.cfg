SPECIFICATION FairSpec
CONSTANTS
    Haste = {FALSE}
    Modes = {"rollback"}
    Delay = 1
    Prediction = 1
    CardPairs <- MCCards
    OldStates <- MCSlots
    MaxTick = 4
    MaxOps = 2
    Faults = {}
    MaxFaults = 0
PROPERTIES
    SyncCompletes
    LeaveTogether
CHECK_DEADLOCK FALSE

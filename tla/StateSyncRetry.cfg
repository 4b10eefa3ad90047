SPECIFICATION Spec
CONSTANTS
    Haste = {FALSE}
    Modes = {"rollback"}
    Delay = 1
    Prediction = 1
    CardPairs <- MCCards
    OldStates <- MCSlots
    MaxTick = 4
    MaxOps = 2
    Faults = {"guest_save"}
    MaxFaults = 1
INVARIANT
    GuestAppliesHostState
CHECK_DEADLOCK FALSE

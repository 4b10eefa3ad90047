SPECIFICATION Spec
CONSTANTS
    Haste = {TRUE, FALSE}
    Modes = {"delay", "rollback"}
    Delay = 1
    Prediction = 1
    CardPairs <- MCCards
    OldStates <- MCSlots
    MaxTick = 4
    MaxOps = 2
    Faults = {"load", "write", "host_save", "guest_save", "start", "ready"}
    MaxFaults = 1
INVARIANTS
    TypeOK
    SameMachine
    RefusalIsNoSplit
    ClockTracksMachine
    CardsAgree
PROPERTIES
    NoEarlyResume
    SaveSynced
CHECK_DEADLOCK FALSE

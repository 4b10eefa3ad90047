SPECIFICATION Spec
CONSTANTS
    Ring = 2
    LastTick = 3
    Digests = {a, b}
    PersistTicks = 1
    RetryGaps = {1, 3}
    Busy = {TRUE, FALSE}
SYMMETRY DigestSymmetry
INVARIANTS
    TypeOK
    ConfirmedWereMatched
    WatermarkMaximal
    NeverStuckBehindMatches
PROPERTIES
    NeverCrossesVisibleFork
    OnlyPrimeTakesBack
    RecoveryOfPersistentFork

SPECIFICATION Spec
CONSTANTS
    Depth = 3
    Null = Null
    Interval = 3
    MediaInterval = 2
    Window = 1
    MaxTick = 4
    MaxRealigns = 2
INVARIANT
    TypeOK
    RingActsAsMap
    SnapsAreTrue
    AgreedIsHeld

SPECIFICATION Spec
CONSTANTS
    NumPages = 1
    Contents = {a, b}
    Streaming = {}
    AbandonAfter = 2
    MaxSeq = 1
    MaxWrites = 1
    Resources = {TRUE, FALSE}
SYMMETRY ContentSymmetry
INVARIANTS
    ShutdownDrains

SPECIFICATION Spec
CONSTANTS
    NumPages = 2
    Contents = {a, b}
    Streaming = {2}
    AbandonAfter = 2
    MaxSeq = 1
    MaxWrites = 3
    Resources = {TRUE, FALSE}
SYMMETRY ContentSymmetry
INVARIANTS
    NoHybrid
    EvidenceConserved

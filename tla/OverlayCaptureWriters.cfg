SPECIFICATION FairSpec
CONSTANTS
    NumPages = 1
    Contents = {a, b}
    Streaming = {}
    AbandonAfter = 2
    MaxSeq = 2
    MaxWrites = 2
    Resources = {TRUE, FALSE}
INVARIANTS
    TypeOK
PROPERTIES
    ManifestNewest
    OfferedUntilAccepted
    ShutdownReturns

CONSTANTS
    k1 = k1
    k2 = k2
    k3 = k3
    Chunks <- ThreeChunks
    Batches = 2
    MaxParallel = 2
    MaxRetries = 2
SPECIFICATION FairSpec
INVARIANTS
    TypeOK
    NothingMissing
    NothingTwice
    OnlyKillsLeaveFiles
PROPERTIES
    JobEnds
CHECK_DEADLOCK FALSE

CONSTANTS
    k1 = k1
    k2 = k2
    k3 = k3
    Chunks <- TwoChunks
    Batches = 2
    MaxParallel = 2
    MaxRetries = 1
SPECIFICATION Spec
INVARIANTS
    EachRowOnce
CHECK_DEADLOCK FALSE

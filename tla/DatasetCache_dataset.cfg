CONSTANTS
    p1 = p1
    p2 = p2
    w1 = w1
    w2 = w2
    Procs = {p1, p2}
    Workers = {w1, w2}
    None = None
    Home <- OneEach
    Ttl = 2
    MaxPolls = 1
    MaxDb = 2
    MaxFaults = 1
SPECIFICATION FairDatasetSpec
INVARIANTS
    DatasetTypeOK
PROPERTIES
    SpoolMovesForward
    DatasetReturns

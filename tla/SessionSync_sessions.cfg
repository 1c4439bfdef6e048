CONSTANTS
    Users = {u1}
    Workers = {s1, s2}
    BatchSize = 1
    MaxRows = 2
    MaxWrites = 3
    MaxFaults = 1
SPECIFICATION FairSpec
INVARIANTS
    TypeOK
    SyncedIsCopied
    NeverUnseen
PROPERTIES
    LastWriteArrives
CHECK_DEADLOCK FALSE

CONSTANTS
    j1 = j1
    j2 = j2
    r1 = r1
    c1 = c1
    Jobs <- TwoJobs
    CasJobs <- TwoJobs
    InPlaceJobs <- OneJob
    Readers <- OneReader
    Cleaners <- OneCleaner
    MaxQueries = 2
    Ttl = 2
    Grace = 2
SPECIFICATION SpecCleanup
INVARIANTS
    TypeOK
PROPERTIES
    SweepSparesRegistered
    OrphansCollected
    DanglingRepaired

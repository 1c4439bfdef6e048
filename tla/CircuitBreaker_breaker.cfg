CONSTANTS
    f1 = f1
    f2 = f2
    s1 = s1
    s2 = s2
    Fast <- FastThreads
    Slow <- SlowThreads
    SlowLimit = 1
    FailureThreshold = 2
    RatePercent = 50
    WindowSize = 3
    Recovery = 2
SPECIFICATION FairSpec
INVARIANTS
    TypeOK
PROPERTIES
    AdmitsOnlyAfterRecovery
    OpensOnFreshFailures
    RecoversWhenFailuresStop

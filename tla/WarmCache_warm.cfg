CONSTANTS
    Procs = {p1, p2}
    None = None
    Ttl = 1
    Interval = 2
    Cooldown = 2
    Threshold = 1
    MaxBuild = 1
    MaxFaults = 1
SPECIFICATION FairWarmSpec
INVARIANTS
    WarmTypeOK
    Exclusion
    TodayFollows
PROPERTIES
    OneBeat
    DayCompletes
    LockComesBack

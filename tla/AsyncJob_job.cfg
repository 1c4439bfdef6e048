CONSTANTS
    MaxRetries = 2
    Ttl = 3
    OrphanAge = 5
SPECIFICATION FairSpec
INVARIANTS
    TypeOK
PROPERTIES
    StatusSettles
    ImplementsLifecycle
CHECK_DEADLOCK FALSE

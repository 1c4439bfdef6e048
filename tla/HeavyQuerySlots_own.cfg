CONSTANTS
    c1 = c1
    c2 = c2
    c3 = c3
    o1 = o1
    o2 = o2
    o3 = o3
    Callers <- MCCallers
    Owners <- OwnOwners
    OwnerOf <- OwnOwnerOf
    StrictCallers <- OneStrict
    MaxConcurrent = 2
    Ttl = 2
SPECIFICATION Spec
INVARIANTS
    TypeOK
    RunnersAreCounted
    EverySlotExplained
PROPERTIES
    ImplementsSemaphore
    LeaksEnd

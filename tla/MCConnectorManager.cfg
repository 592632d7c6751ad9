SPECIFICATION FairSpec
CONSTANTS
    a = a
    b = b
    t1 = t1
    Sources = {a, b}
    Tenants = {t1}
    TenantOf <- MCTenantOf
    Requests = {"r1", "r2"}
    Lifespan = "lifespan"
    MaxSources = 1
    MaxLoops = 3
INVARIANTS
    TypeOK
    OneReader
    NoOrphans
    TenantLimit
    SlotIsPolled
PROPERTIES
    StopEndsEveryTask
CHECK_DEADLOCK FALSE

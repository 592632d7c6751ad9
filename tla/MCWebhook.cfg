SPECIFICATION FairSpec
CONSTANTS
    k1 = k1
    u1 = u1
    u2 = u2
    a1 = a1
    a2 = a2
    None = None
    Keys = {k1}
    Urls = {u1, u2}
    Alerts = {a1, a2}
    SeverityOf <- MCSeverityOf
    Filters = {None}
    MaxAttempts = 3
    DisableThreshold = 4
    MaxAttach = 2
    MaxAborts = 1
INVARIANTS
    TypeOK
    AttemptsInOrder
    DuplicatesOnlyByAbort
PROPERTIES
    ScheduledIsSettled
CHECK_DEADLOCK FALSE

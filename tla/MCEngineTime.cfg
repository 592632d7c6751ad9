SPECIFICATION MSpec
CONSTANTS
    t1 = t1
    t2 = t2
    s1 = s1
    s2 = s2
    s3 = s3
    f1 = f1
    f2 = f2
    None = None
    Tenants = {t1, t2}
    TenantOf <- MCTenantOf
    Registered = {s1}
    Sources = {s1}
    Batches <- TimeBatches
    CallerCommits = TRUE
    WarmupRequired = 0
    PersistEvery = 2
    SustainedWarning = 2
    SustainedCritical = 3
    SilenceWindow = 2
    CascadeWindow = 9
    CascadeMinServices = 3
    FingerprintTTL = 2
    MaxFingerprints = 1
    RetentionAge = 9
    MaxTime = 3
    MaxAlerts = 3
    MaxBoots = 2
    MaxFailedPersists = 0
    Fingerprints = {f1, f2}
    Services = {"api", "db", "unknown"}
    UnknownService = "unknown"
INVARIANTS
    SilenceNeverOpen
    SustainedIsSustained
    NovelOnce
CHECK_DEADLOCK FALSE

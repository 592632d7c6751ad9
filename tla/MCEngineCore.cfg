SPECIFICATION MFairSpec
CONSTANTS
    t1 = t1
    t2 = t2
    s1 = s1
    s2 = s2
    s3 = s3
    f1 = f1
    f2 = f2
    None = None
    Tenants = {t1, t2}
    TenantOf <- MCTenantOf
    Registered = {s1}
    Sources = {s1, s2}
    Batches <- CoreBatches
    CallerCommits = TRUE
    WarmupRequired = 3
    PersistEvery = 2
    SustainedWarning = 9
    SustainedCritical = 9
    SilenceWindow = 9
    CascadeWindow = 9
    CascadeMinServices = 3
    FingerprintTTL = 9
    MaxFingerprints = 1
    RetentionAge = 0
    MaxTime = 0
    MaxAlerts = 2
    MaxBoots = 2
    MaxFailedPersists = 1
    Fingerprints = {f1}
    Services = {"api", "db", "unknown"}
    UnknownService = "unknown"
INVARIANTS
    TypeOK
    BoundedLoss
    NoAlertBeforeWarmup
PROPERTIES
    
    CalmBeforeResolve
    SpikesDrain

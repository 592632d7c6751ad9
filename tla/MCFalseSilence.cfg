SPECIFICATION MSpec
CONSTANTS
    t1 = t1
    t2 = t2
    s1 = s1
    s2 = s2
    s3 = s3
    f1 = f1
    f2 = f2
    None = None
    Tenants = {t1, t2}
    TenantOf <- MCTenantOf
    Registered = {s1}
    Sources = {s1}
    Batches <- TimeBatches
    CallerCommits = TRUE
    WarmupRequired = 0
    PersistEvery = 2
    SustainedWarning = 9
    SustainedCritical = 9
    SilenceWindow = 2
    CascadeWindow = 9
    CascadeMinServices = 3
    FingerprintTTL = 9
    MaxFingerprints = 2
    RetentionAge = 9
    MaxTime = 4
    MaxAlerts = 4
    MaxBoots = 1
    MaxFailedPersists = 0
    Fingerprints = {f1, f2}
    Services = {"api", "db", "unknown"}
    UnknownService = "unknown"
PROPERTY SilenceIsReal

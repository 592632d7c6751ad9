SPECIFICATION MSpec
CONSTANTS
    t1 = t1
    t2 = t2
    s1 = s1
    s2 = s2
    s3 = s3
    f1 = f1
    f2 = f2
    None = None
    Tenants = {t1, t2}
    TenantOf <- MCTenantOf
    Registered = {s1, s2, s3}
    Sources = {s1, s2, s3}
    Batches <- CascadeBatches
    CallerCommits = TRUE
    WarmupRequired = 0
    PersistEvery = 1
    SustainedWarning = 9
    SustainedCritical = 9
    SilenceWindow = 9
    CascadeWindow = 2
    CascadeMinServices = 2
    FingerprintTTL = 9
    MaxFingerprints = 1
    RetentionAge = 1
    MaxTime = 2
    MaxAlerts = 3
    MaxBoots = 1
    MaxFailedPersists = 0
    Fingerprints = {f1}
    Services = {"api", "db", "unknown"}
    UnknownService = "unknown"
INVARIANTS
    CascadeIsBacked
    CascadeSpacing
 

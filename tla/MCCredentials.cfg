SPECIFICATION FairSpec
CONSTANTS
    Users = {"alice", "bob"}
    FirstAdmin = "alice"
    Never = Never
    AccessTTL = 1
    RefreshTTL = 2
    Grace = 1
    Expiries = {1}
    MaxTime = 2
    MaxSessions = 2
    MaxKeys = 2
INVARIANTS
    TypeOK
    NoTokenAfterEnd
    SomeoneStaysActive
    RotationNeverStrands
PROPERTIES
    LapsedIsMarked

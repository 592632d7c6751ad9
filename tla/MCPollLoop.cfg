SPECIFICATION FairSpec
CONSTANTS
    Ids = {8, 9, 10, 90}
    Text <- Decimal
    BatchLimit = 2
    IdleAfterEmpty = 3
    BackoffAfterErrors = 2
    MaxStops = 2
    MaxFailedSaves = 1
INVARIANTS
    TypeOK
    NothingMissed
    OnceUnlessSaveFailed
    LossPerStop
    ModeFollowsPolls
PROPERTIES
    EveryRowArrives

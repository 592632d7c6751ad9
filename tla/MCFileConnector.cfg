SPECIFICATION FairSpec
CONSTANTS
    MaxWrites = 3
    MaxFiles = 3
    MaxTruncations = 1
    MaxStops = 1
    MaxFailedSaves = 1
    MaxFaults = 1
INVARIANTS
    TypeOK
    NoGap
    NoReRead
    CursorIsHandle
PROPERTIES
    EveryWriteArrives
    ReachesTheEnd

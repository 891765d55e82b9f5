SPECIFICATION FairSpec
CONSTANTS
    Interval <- Intervals
    Beat = 1
    Offset = 1
    MaxProbe = 1
    MaxReport = 0
    MaxJob = 1
    Cap = 15
INVARIANTS
    TypeOK
    HeartbeatInTime
    OnCadence
PROPERTIES
    NoDuplicateWork
    KeepsProbing

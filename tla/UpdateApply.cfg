SPECIFICATION FairSpec
CONSTANTS
    Runs = {r1, r2}
    Polls = 3
    RequireBackup = TRUE
    MaxFaults = 2
INVARIANTS
    TypeOK
    AbortIsHarmless
    SuccessWithoutFaults
PROPERTY
    ApplyEnds

SPECIFICATION Spec
CONSTANTS
    Names = {n1}
    Ids = {d1, d2}
    NoName = NoName
    NoId = NoId
    Beats = {h1}
    Sweeps = {w1}
    Reported = {"ok", "down"}
    Limits = {2}
    DefaultLimit = 2
    MinLimit = 2
    MaxDelay = 1
    MaxTime = 5
    MaxFaults = 1
PROPERTY RecoveryAnnounced
CHECK_DEADLOCK FALSE

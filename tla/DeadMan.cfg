SPECIFICATION FairSpec
CONSTANTS
    Names = {n1}
    Ids = {d1, d2}
    NoName = NoName
    NoId = NoId
    Beats = {h1, h2}
    Sweeps = {w1, w2}
    Reported = {"ok", "down"}
    Limits = {2, 3}
    DefaultLimit = 2
    MinLimit = 2
    MaxDelay = 1
    MaxTime = 4
    MaxFaults = 1
INVARIANTS
    TypeOK
    DownMeansSilent
    OneAlertPerSilence
    DownIsAnnounced
PROPERTY SilenceIsAlerted
CHECK_DEADLOCK FALSE

SPECIFICATION FairSpec
CONSTANTS
    r1 = r1
    Posts = {p1}
    Others = {o1}
    Routes = {r1}
    Bot = Bot
    Sent <- Reports
    Asked <- Filtering
    MaxFaults = 2
INVARIANTS
    TypeOK
    AckedIsAlerted
    TwiceOnlyIfLost
    MutedStaysQuiet
    SinkFailureIsContained
PROPERTY
    AlertReachesRoutes
CHECK_DEADLOCK FALSE

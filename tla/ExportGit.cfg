SPECIFICATION Spec
CONSTANTS
    d1 = d1
    d2 = d2
    t1 = t1
    tc = tc
    Devices = {d1, d2}
    Threads = {t1, tc}
    Serves <- LoopAndCommands
    NoThread = NoThread
    NoDevice = NoDevice
    Configs = {v1, v2}
    NoFile = NoFile
    Torn = Torn
    PushEnabled = TRUE
    MaxChanges = 1
    MaxLog = 5
    MaxFaults = 2
SYMMETRY Symmetric
INVARIANTS
    TypeOK
    DiskIsCommitted
    DriftIsPosted
    WarningIsMirrored
    NoFalsePushError
PROPERTY
    CommitIsOwn
CHECK_DEADLOCK FALSE

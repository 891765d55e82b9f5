SPECIFICATION Spec
CONSTANTS
    d1 = d1
    d2 = d2
    t1 = t1
    tc = tc
    Devices = {d1}
    Threads = {t1}
    Serves <- OneLoop
    NoThread = NoThread
    NoDevice = NoDevice
    Configs = {v1, v2}
    NoFile = NoFile
    Torn = Torn
    PushEnabled = TRUE
    MaxChanges = 2
    MaxLog = 5
    MaxFaults = 1
INVARIANT
    SuccessIsMirrored
CHECK_DEADLOCK FALSE

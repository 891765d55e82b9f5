SPECIFICATION FairSpec
CONSTANTS
    a1 = a1
    a2 = a2
    d1 = d1
    d2 = d2
    Cmds = {c1, c2}
    Devices = {d1}
    Agents = {a1}
    Owner <- OneOwner
    Configured = {d1}
    Calls = {k1, k2}
    NoCmd = NoCmd
    NoDevice = NoDevice
    NoAgent = NoAgent
    NoCall = NoCall
    BatchLimit = 1
    MaxTime = 1
    MaxFaults = 2
PROPERTY
    DueIsClaimed

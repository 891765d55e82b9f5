SPECIFICATION Spec
CONSTANTS
    a1 = a1
    a2 = a2
    d1 = d1
    d2 = d2
    Cmds = {c1, c2}
    Devices = {d1, d2}
    Agents = {a1, a2}
    Owner <- TwoOwners
    Configured = {d1}
    Calls = {k1, k2}
    NoCmd = NoCmd
    NoDevice = NoDevice
    NoAgent = NoAgent
    NoCall = NoCall
    BatchLimit = 2
    MaxTime = 1
    MaxFaults = 2
SYMMETRY Symmetric
INVARIANTS
    TypeOK
    RunOnce
    OutcomeIsTrue
    ServedOnce
    WorkIsDue
PROPERTY
    ImplementsContract

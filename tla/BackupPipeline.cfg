SPECIFICATION Spec
CONSTANTS
    b1 = b1
    b2 = b2
    b3 = b3
    Runs = {b1, b2, b3}
    ThreadOf <- LoopAndCommand
    NoRun = NoRun
    Torn = Torn
    Calls = {k1, k2}
    NoCall = NoCall
    Retain = 2
    MaxTime = 3
    MaxFaults = 1
SYMMETRY Symmetric
INVARIANTS
    TypeOK
    UploadIsStored
    RowHasBody
    ArchiveKeepsWhole
    RunKeepsItsFile
    GateSeesWhole
    RouterIsClean
CHECK_DEADLOCK FALSE

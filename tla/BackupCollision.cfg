SPECIFICATION Spec
CONSTANTS
    b1 = b1
    b2 = b2
    b3 = b3
    Runs = {b1, b2}
    ThreadOf <- LoopAndCommand
    NoRun = NoRun
    Torn = Torn
    Calls = {k1, k2}
    NoCall = NoCall
    Retain = 2
    MaxTime = 1
    MaxFaults = 0
INVARIANT
    BodyMatchesCatalog
CHECK_DEADLOCK FALSE

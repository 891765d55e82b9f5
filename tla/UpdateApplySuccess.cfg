SPECIFICATION Spec
CONSTANTS
    Runs = {r1}
    Polls = 2
    RequireBackup = TRUE
    MaxFaults = 1
INVARIANT
    SuccessIsInstalled

SPECIFICATION Spec
CONSTANTS
    B1 = B1
    r1 = r1
    r2 = r2
    Batches <- MCOneBatch
    Runs <- MCSingleRun
    RunsOf <- MCRunOfOne
    Procs <- MCBothProcs
    Concurrency = 1
    MaxCancels = 1
    MaxCrashes = 0
    MaxFaults = 0
PROPERTIES
    TerminalIsFinal
CHECK_DEADLOCK FALSE

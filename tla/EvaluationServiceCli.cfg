SPECIFICATION Spec
CONSTANTS
    B1 = B1
    r1 = r1
    r2 = r2
    Batches <- MCOneBatch
    Runs <- MCTwoRuns
    RunsOf <- MCRunsOfOne
    Procs <- MCBothProcs
    Concurrency = 1
    MaxCancels = 1
    MaxCrashes = 1
    MaxFaults = 0
PROPERTIES
    ResultIsFinal
CHECK_DEADLOCK FALSE

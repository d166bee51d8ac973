SPECIFICATION FairSpec
CONSTANTS
    B1 = B1
    r1 = r1
    r2 = r2
    Batches <- MCOneBatch
    Runs <- MCSingleRun
    RunsOf <- MCRunOfOne
    Procs <- MCProcs
    Concurrency = 1
    MaxCancels = 1
    MaxCrashes = 1
    MaxFaults = 0
PROPERTIES
    RestartSettles
CHECK_DEADLOCK FALSE

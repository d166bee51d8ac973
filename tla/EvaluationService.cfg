SPECIFICATION FairSpec
CONSTANTS
    B1 = B1
    r1 = r1
    r2 = r2
    Batches <- MCOneBatch
    Runs <- MCTwoRuns
    RunsOf <- MCRunsOfOne
    Procs <- MCProcs
    Concurrency = 2
    MaxCancels = 1
    MaxCrashes = 1
    MaxFaults = 1
INVARIANTS
    TypeOK
    RecordsOnDisk
    BatchSettled
    ActiveIsOwned
    AnnouncedIsFinal
    NothingOfDeleted
PROPERTIES
    TerminalIsFinal
    BatchesEnd
    CancelEnds
CHECK_DEADLOCK FALSE

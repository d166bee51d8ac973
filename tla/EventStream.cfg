SPECIFICATION Spec
CONSTANTS
    ReplayLimit = 2
    ReadLimit = 2
    KeepAlive = 2
    MaxEvents = 4
    MaxRemovals = 1
    MaxDrops = 1
INVARIANTS
    TypeOK
    InOrder
    MissedOnlyOld
PROPERTIES
    EndIsComplete
    FinishArrives
CHECK_DEADLOCK FALSE

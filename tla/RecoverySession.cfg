SPECIFICATION Spec
CONSTANTS
    initial = initial
    edited = edited
    mixed = mixed
    budget3 = budget3
    budget1 = budget1
    unreadable = unreadable
    P1 = P1
    P2 = P2
    clean = clean
    incident = incident
    Sources <- MCSources
    InitialSource = initial
    MixedSource = mixed
    Configs <- MCConfigs
    R0Config = budget3
    R1Config = budget1
    Unreadable = unreadable
    Workloads = {P1}
    PassesOn <- AskingFlows
    ServiceStates <- MCServiceStates
    SnapshotState = clean
    IncidentState = incident
    KeepSources = FALSE
    MaxFaults = 1
    MaxAudit = 6
CHECK_DEADLOCK FALSE
INVARIANTS
    TypeOK
    ActiveIsDeployed
    CapabilityIsFresh
    ClosedIsOnRecord
    ProvenanceIsPermanent
    OpenIsCommitted
    FullRewardIsEarned
    ClosedIsCredited
PROPERTIES
    RestoreIsValid

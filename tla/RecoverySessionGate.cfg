SPECIFICATION Spec
CONSTANTS
    initial = initial
    edited = edited
    mixed = mixed
    budget3 = budget3
    budget1 = budget1
    unreadable = unreadable
    P1 = P1
    P2 = P2
    clean = clean
    incident = incident
    Sources <- MCSources
    InitialSource = initial
    MixedSource = mixed
    Configs <- MCConfigs
    R0Config = budget3
    R1Config = budget1
    Unreadable = unreadable
    Workloads <- MCWorkloads
    PassesOn <- PlainFlows
    ServiceStates <- MCServiceStates
    SnapshotState = clean
    IncidentState = incident
    KeepSources = TRUE
    MaxFaults = 0
    MaxAudit = 7
SYMMETRY WorkloadSymmetry
CHECK_DEADLOCK FALSE
PROPERTIES ResumedCodePassed

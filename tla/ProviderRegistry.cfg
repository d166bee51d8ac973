SPECIFICATION Spec
CONSTANTS
    Endpoints = {base, other}
    Default = base
    Unset = unset
    MaxDigest = 2
    MaxChanges = 2
    MaxRestarts = 1
    MaxSaveFaults = 1
INVARIANTS
    TypeOK
    ProbeOfEndpoint
    ResultIsOfVersion
    DiskIsMemory
CHECK_DEADLOCK FALSE

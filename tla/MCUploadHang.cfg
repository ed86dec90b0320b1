CONSTANTS
    Contents <- MCEqual
    Clients <- MCPair
    Versions <- MCVersions
    MaxEdits = 0
    ChunkSize = 0
    PartSize = 1
    MultipartCache = TRUE
    MaxWorkers = 2
    MaxBytes = 4
    Granularity = 1
    PermitSpace = 16
    HashCached <- MCNone
    Stored <- MCNone
    Faults <- MCCreate
SPECIFICATION FairSpec
PROPERTY Terminates
CHECK_DEADLOCK FALSE

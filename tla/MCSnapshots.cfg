CONSTANTS
    Contents <- MCShared
    Clients <- MCTriple
    Versions <- MCVersions
    MaxEdits = 1
    ChunkSize = 2
    PartSize = 1
    MultipartCache = TRUE
    MaxWorkers = 2
    MaxBytes = 4
    Granularity = 1
    PermitSpace = 16
    HashCached <- MCCached
    Stored <- MCStored
    Faults <- MCFaults
    Places <- MCPlaces
    Writings <- MCWritings
    Targets <- MCTargets
    Root <- W
    Policies <- MCPolicies
    Starts <- MCStarts
    MaxChanges = 2
    MaxSnaps = 3
    Downloads <- MCDownloads
    FetchSize = 1
    MaxAttempts = 2
    Syncs <- MCSyncs
    SyncPartSize = 2
    S3_MAX_SINGLE_COPY_BYTES = 3
    S3_MAX_MULTIPART_PARTS = 2
    S3_MIN_PART_SIZE = 1
    S3_MAX_PART_SIZE = 4
    VerifyFirst = 1
    MaxSyncs = 2
    MaxLosses = 1
SPECIFICATION SnapSpec
INVARIANT UploadIsSound
INVARIANT BytesAreAccounted
INVARIANT DiffsRebuildSnapshots
INVARIANT OperationsKeepFiles
INVARIANT SnapshotsAreFaithful
INVARIANT HashesAreGenuine
INVARIANT DownloadsAreAtomic
INVARIANT DownloadsAreExact
INVARIANT SyncsAreSound
PROPERTY ReturnsUnlessOrphaned
CHECK_DEADLOCK FALSE

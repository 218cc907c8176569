\* One request at a time, imports and deletions of two files; a failure and a crash.
SPECIFICATION FairSpec
CONSTANTS
    Files = {btc_1h, eth_1h}
    Actors = {a1}
    NoFile = NoFile
    MaxTime = 4
    PageSize = 2
    RefreshSize = 1
    MaxActive = 1
    MaxRequests = 3
    MaxRefreshes = 0
    MaxFailures = 1
    MaxFaults = 1
INVARIANT TypeOK
INVARIANT ImportedFilesAreDescribed
PROPERTY ArchiveSpec
PROPERTY ImportEnds
CHECK_DEADLOCK FALSE

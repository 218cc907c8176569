\* An import whose call to Binance fails.
SPECIFICATION Spec
CONSTANTS
    Files = {btc_1h}
    Actors = {a1}
    NoFile = NoFile
    MaxTime = 3
    PageSize = 2
    RefreshSize = 2
    MaxActive = 1
    MaxRequests = 1
    MaxRefreshes = 0
    MaxFailures = 1
    MaxFaults = 0
INVARIANT FailedImportIsNotDone
CHECK_DEADLOCK FALSE

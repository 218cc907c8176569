\* Two imports of the same file.
SPECIFICATION Spec
CONSTANTS
    Files = {btc_1h}
    Actors = {a1, a2}
    NoFile = NoFile
    MaxTime = 3
    PageSize = 2
    RefreshSize = 2
    MaxActive = 2
    MaxRequests = 2
    MaxRefreshes = 0
    MaxFailures = 0
    MaxFaults = 0
INVARIANT RowsDescribeFiles
CHECK_DEADLOCK FALSE

\* Two requests at a time, of any kind, on the same files or on different ones.
SPECIFICATION Spec
CONSTANTS
    Files = {btc_1h, eth_1h}
    Actors = {a1, a2}
    NoFile = NoFile
    MaxTime = 2
    PageSize = 1
    RefreshSize = 1
    MaxActive = 2
    MaxRequests = 3
    MaxRefreshes = 1
    MaxFailures = 0
    MaxFaults = 0
INVARIANT QuietRowsDescribeFiles
SYMMETRY Symmetric
CHECK_DEADLOCK FALSE

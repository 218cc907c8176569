\* A refresh long after the last candle.
SPECIFICATION Spec
CONSTANTS
    Files = {btc_1h}
    Actors = {a1}
    NoFile = NoFile
    MaxTime = 5
    PageSize = 2
    RefreshSize = 2
    MaxActive = 1
    MaxRequests = 2
    MaxRefreshes = 1
    MaxFailures = 0
    MaxFaults = 0
INVARIANT HistoryIsIntact
CHECK_DEADLOCK FALSE

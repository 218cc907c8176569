\* A crash in the middle of a write, and another import.
SPECIFICATION Spec
CONSTANTS
    Files = {btc_1h}
    Actors = {a1}
    NoFile = NoFile
    MaxTime = 3
    PageSize = 2
    RefreshSize = 2
    MaxActive = 1
    MaxRequests = 2
    MaxRefreshes = 0
    MaxFailures = 0
    MaxFaults = 1
INVARIANT CorruptFileIsMovedAway
CHECK_DEADLOCK FALSE

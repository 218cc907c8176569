\* Two requests at a time race with the thread; one crash or failed commit.
SPECIFICATION Spec
CONSTANTS
    Strategies = {s1}
    Jobs = {j1, j2}
    Feeds = {btc_1h}
    Requests = {r1, r2}
    NoStrategy = NoStrategy
    NoJob = NoJob
    MaxCandle = 2
    MaxRequests = 3
    MaxFailures = 0
    MaxFaults = 1
INVARIANT TypeOK
INVARIANT SignalLoggedOnce
INVARIANT RepeatedOnlyWhenLost
INVARIANT SentRowsWereDelivered
INVARIANT AtMostOneLateSignal
SYMMETRY Symmetric
CHECK_DEADLOCK FALSE

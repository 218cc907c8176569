\* Three failures with successful polls between them.
SPECIFICATION Spec
CONSTANTS
    Strategies = {s1}
    Jobs = {j1}
    Feeds = {btc_1h}
    Requests = {r1}
    NoStrategy = NoStrategy
    NoJob = NoJob
    MaxCandle = 1
    MaxRequests = 1
    MaxFailures = 3
    MaxFaults = 0
INVARIANT StoppedAfterConsecutiveFailures
CHECK_DEADLOCK FALSE

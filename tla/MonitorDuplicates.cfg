\* Two requests create a job each.
SPECIFICATION Spec
CONSTANTS
    Strategies = {s1}
    Jobs = {j1, j2}
    Feeds = {btc_1h}
    Requests = {r1, r2}
    NoStrategy = NoStrategy
    NoJob = NoJob
    MaxCandle = 1
    MaxRequests = 3
    MaxFailures = 0
    MaxFaults = 0
INVARIANT OneSignalPerStrategyAndCandle
CHECK_DEADLOCK FALSE

\* Two strategies share the thread; failures and a fault delay it.
SPECIFICATION FairSpec
CONSTANTS
    Strategies = {s1, s2}
    Jobs = {j1, j2}
    Feeds = {btc_1h}
    Requests = {r1}
    NoStrategy = NoStrategy
    NoJob = NoJob
    MaxCandle = 1
    MaxRequests = 2
    MaxFailures = 1
    MaxFaults = 1
PROPERTY EveryCandleIsEvaluated
CHECK_DEADLOCK FALSE

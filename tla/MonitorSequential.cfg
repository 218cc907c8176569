\* One request at a time: reconfiguration between two feeds, failures, a fault.
SPECIFICATION Spec
CONSTANTS
    Strategies = {s1}
    Jobs = {j1, j2}
    Feeds = {btc_1h, btc_1d}
    Requests = {r1}
    NoStrategy = NoStrategy
    NoJob = NoJob
    MaxCandle = 2
    MaxRequests = 3
    MaxFailures = 1
    MaxFaults = 1
INVARIANT OneJobPerStrategy
PROPERTY LedgerSpec
SYMMETRY Symmetric
CHECK_DEADLOCK FALSE

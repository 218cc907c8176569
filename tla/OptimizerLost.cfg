\* A crash between the status and the row.
SPECIFICATION Spec
CONSTANTS
    Tasks = {t1}
    Requests = {r1}
    Combinations = 1
    NoTask = NoTask
    NoResult = NoResult
    MaxFailures = 0
    MaxFaults = 1
INVARIANT CompletedIsPersisted
CHECK_DEADLOCK FALSE

\* A cancellation after the last check.
SPECIFICATION Spec
CONSTANTS
    Tasks = {t1}
    Requests = {r1}
    Combinations = 1
    NoTask = NoTask
    NoResult = NoResult
    MaxFailures = 0
    MaxFaults = 0
INVARIANT CancelledIsNotCompleted
CHECK_DEADLOCK FALSE

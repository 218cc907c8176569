\* A cancellation after the first candidate.
SPECIFICATION Spec
CONSTANTS
    Tasks = {t1}
    Requests = {r1}
    Combinations = 2
    NoTask = NoTask
    NoResult = NoResult
    MaxFailures = 0
    MaxFaults = 0
INVARIANT PartialResultsAreKept
CHECK_DEADLOCK FALSE

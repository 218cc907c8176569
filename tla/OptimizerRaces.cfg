\* Two tasks, cancelled, polled and deleted at any time; a failure and a crash.
SPECIFICATION FairSpec
CONSTANTS
    Tasks = {t1, t2}
    Requests = {r1}
    Combinations = 3
    NoTask = NoTask
    NoResult = NoResult
    MaxFailures = 1
    MaxFaults = 1
INVARIANT WholeResults
INVARIANT AtMostOneLateCombination
PROPERTY TaskEnds
CHECK_DEADLOCK FALSE

\* A sweep is asked for once the last one shows; a cancellation and a failure.
SPECIFICATION FairSpec
CONSTANTS
    Pipelines = {p1, p2}
    Requests = {r1}
    Jobs = {j1, j2}
    NoPipeline = NoPipeline
    NoRun = NoRun
    Concurrency = 1
    MaxRegister = 2
    Patient = TRUE
    MaxTime = 2
    MaxCancels = 1
    MaxFailures = 1
    MaxFaults = 0
INVARIANT ResultsBelongToRun
INVARIANT AtMostOneLateStrategy
PROPERTY SweepEnds
CHECK_DEADLOCK FALSE

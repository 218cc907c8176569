\* The first sweep after a start of the process.
SPECIFICATION Spec
CONSTANTS
    Pipelines = {p1, p2}
    Requests = {r1}
    Jobs = {j1}
    NoPipeline = NoPipeline
    NoRun = NoRun
    Concurrency = 1
    MaxRegister = 1
    Patient = TRUE
    MaxTime = 1
    MaxCancels = 0
    MaxFailures = 0
    MaxFaults = 0
INVARIANT RefusedOnlyWhenBusy
CHECK_DEADLOCK FALSE

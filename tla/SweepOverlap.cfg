\* Two requests before the first thread says it runs.
SPECIFICATION Spec
CONSTANTS
    Pipelines = {p1, p2}
    Requests = {r1, r2}
    Jobs = {j1}
    NoPipeline = NoPipeline
    NoRun = NoRun
    Concurrency = 1
    MaxRegister = 1
    Patient = FALSE
    MaxTime = 1
    MaxCancels = 0
    MaxFailures = 0
    MaxFaults = 0
INVARIANT OneSweepAtATime
CHECK_DEADLOCK FALSE

\* Two sweeps that overlap, cancelled, failing and lost in a crash.
SPECIFICATION Spec
CONSTANTS
    Pipelines = {p1, p2}
    Requests = {r1}
    Jobs = {j1, j2}
    NoPipeline = NoPipeline
    NoRun = NoRun
    Concurrency = 1
    MaxRegister = 1
    Patient = FALSE
    MaxTime = 1
    MaxCancels = 1
    MaxFailures = 1
    MaxFaults = 1
INVARIANT TypeOK
INVARIANT OnlyWholeSweepsCount
SYMMETRY Symmetric
CHECK_DEADLOCK FALSE

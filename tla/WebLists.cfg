\* The pages that list what the server keeps, with calls that cross and fail,
\* and the configuration.
SPECIFICATION FairSpec
CONSTANTS
    None = None
    Strategies = {s1}
    SomeStrategies = {s1, s2}
    Alerts = {a1}
    Files = {f1, f2}
    Levels = {"INFO", "ERROR"}
    Modules = {"monitor"}
    All = "Todos"
    MaxClicks = 3
    FewClicks = 2
    MaxFailures = 1
    MaxLoads = 1
    MaxSignals = 1
    MaxVersions = 2
INVARIANT TypeOK
INVARIANT ListsShowServer
INVARIANT LogsMatchFilter
PROPERTY SaveChangesTheTyped
PROPERTY ListsCatchUp
CHECK_DEADLOCK FALSE

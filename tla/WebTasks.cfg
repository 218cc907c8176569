\* The pages that wait for a run, and the forms that ask for one.
SPECIFICATION FairSpec
CONSTANTS
    Runs = {r1, r2}
    None = None
    FormStrategies = {"ema", "rsi"}
    Keys = {"fast", "slow"}
    Schema <- ParametersSchema
    Symbols = {btc, eth}
    Timeframes = {h1}
    MaxClicks = 6
    OptimizerClicks = 4
    FewClicks = 2
    MaxFailures = 1
    MaxSweeps = 2
    MaxCalls = 1
INVARIANT TypeOK
INVARIANT NoDeletedRow
INVARIANT OnlyTheAwaitedRunIsFollowed
INVARIANT DetailIsLabelledRight
INVARIANT ShownTaskIsFollowed
INVARIANT CompletedShowsAll
INVARIANT SubmittedIsShown
INVARIANT ChoicesSurvive
PROPERTY WaitingEnds
CHECK_DEADLOCK FALSE

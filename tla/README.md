# LasaTrading v3: models and proofs

LasaTrading v3 downloads candles from Binance, backtests and optimizes trading strategies on them, watches the active
strategies and sends their signals by Telegram, and keeps a journal of the trades made. This directory models the parts
of it that run concurrently or that can fail half way, the loop of the backtest they all rest on and the pages of the
web client that follow and change what the server keeps; it checks them with TLC on small instances, and proves the
main facts for every size with TLAPS. Line numbers are of this repository.

## The system

One Python process (FastAPI under uvicorn, `src/backend/app/main.py`) and a web client (Next.js, `src/frontend`).
Endpoints are plain `def`s, so each request runs in a thread of a pool; nothing serializes two requests. Besides them
run one task-manager thread, one thread per optimization, one thread per sweep with a pool of workers, and the
background tasks of imports. They share:

- a PostgreSQL database, through SQLAlchemy sessions (`infra/db.py`: no autocommit, no autoflush, READ COMMITTED). A
  session reads rows into objects; its commit writes the *columns that changed*, over whatever the row holds by then.
- Parquet files, one per symbol and timeframe (`infra/parquet_utils.py`), written in place and without locks;
- three module-level dictionaries: the import tasks (`routers/data.py:27`), the optimizations
  (`optimizer_service.py:15`) and the state of the sweep (`mass_sweep_engine.py:326`). A restart empties them.

| Component | State | Operations | Talks to | Hard about it |
|---|---|---|---|---|
| Monitor: `task_manager.py`, `monitor_engine.py`, `routers/portfolio.py`, `routers/monitor.py` | `user_strategies`, `monitor_jobs`, `signal_logs`; the round of the thread | evaluate each running job once a minute; create, update, toggle, delete strategies and jobs | Binance, Telegram, the database; activating a strategy starts an import | requests race with the thread and with each other; a message is sent before its row is committed; errors are counted in another session; a failed commit takes the round with it |
| Market data: `routers/data.py`, `data_import_service.py`, `parquet_utils.py` | Parquet files, `market_data_files`, import tasks | import, refresh, delete | Binance, disk, database | read-modify-write of a file without a lock; file and row change separately; crash in a write; pages |
| Optimizer: `optimizer_service.py`, `optimizer_engine.py`, `routers/optimizer.py` | dictionary entry per task, `optimization_runs` | start, cancel, poll, results, delete | backtest engine, Parquet files | cancellation races with the end; status, result and row are written one by one |
| Mass sweep: `mass_sweep_engine.py`, `routers/sweep.py` | one dictionary, `sweep_runs`, rows added to `user_strategies` | start, (cancel), status, results | imports, backtests, the portfolio | two sweeps over one dictionary; the cancellation flag is reset by the next sweep; the pool outlives the sweep |
| Backtest engine: `backtest_engine.py` | none | one loop over the candles | strategies; called by backtests, optimizations and sweeps | what an entry may know; a candle that touches both prices, or closes one position while giving a signal; the last candle |
| Backtest requests: `routers/backtest.py` | dictionary entry per task, `backtest_results` | run, poll, list, show, delete | backtest engine, Parquet files | the page follows a task by polling, and a restart forgets it |
| Optimizer grid and verdicts: `optimizer_engine.py`, `optimizer_service.py:19` | none | ranges, count, classification | | counts of a range of floats; profit factor without losses |
| Trade journal: `routers/journal.py` and its page | `trades` | create, update, close, delete, analysis of an execution | the signals of the monitor | profit recomputed or kept; concurrent updates |
| Performance: `performance_service.py`, `routers/performance.py` | none | summary, equity curve, per strategy | the closed trades | order of the trades; trades without a closing date; sampling |
| Configuration and health: `config_service.py`, `routers/system.py`, `health_service.py` | `system_config` | read, update, logs, test of Telegram | Telegram, Binance, disk | several keys, one commit each; a token that is shown masked |
| Watchlist and price alerts: `routers/watchlist.py`, `routers/monitor.py` | two tables | add, remove | | nothing evaluates an alert |
| Strategies: `core/strategies/` | none | signals over columns of candles | | how many candles a verdict needs |
| Web client: `src/frontend/src` | per page: lists, spinners, the calls in flight | start, follow, list, change, fill in a form | all endpoints | answers in any order; closures over an old state; lists a page changes by itself; timers and references that outlive a component |

What makes each component correct: a signal is logged once per job and candle, is repeated to the user only when its
record was lost, and every candle of a watched feed is evaluated (Monitor); a file is an unbroken stretch of candles and
its row describes it (Market data); what is served as a result covers the whole grid, a cancelled task stops, every
task ends (Optimizer); only whole sweeps count, results are those of the run that is named, and a sweep can be started
again (Sweep); a closed trade's profit is that of its prices, and summary and curve agree (Journal, Performance); a
backtest does not see ahead, enters every signal it can and leaves at the first touch (Backtest engine); what is shown is
what was asked for and what the server keeps, what was left is let go, nothing typed or chosen is lost, and whoever waits
sees the end (Web client).

## Modules

| Module | Models | Abstract specification | Proofs |
|---|---|---|---|
| `Monitor` | task-manager thread, evaluation, portfolio and monitor requests | `SignalLedger` | `MonitorProofs` |
| `DataStore` | imports, refreshes, deletions, step by step | `Archive` | `DataProofs` |
| `OptimizerTask` | the life of an optimization | | `OptimizerProofs` |
| `SweepEngine` | the sweep's pipeline, pool and registration | | `SweepProofs` |
| `Journal` | the trades, their requests and the tabs that show them | | `JournalProofs` |
| `BacktestEngine` | the loop over the candles, beside a second run on other data | | `BacktestProofs` |
| `PageCalls`, `RunHistory` | calls, and the list of past runs two pages share | | |
| `BacktestPage`, `OptimizerPage`, `SweepPage` | the pages that start something and follow it | | `WebTasksProofs` |
| `MonitorPage`, `PortfolioPage`, `DataPage` | the pages that list what the server keeps and change it | | `WebListsProofs` |
| `SystemPage` | the configuration, its save, and the filtered logs | | `WebListsProofs` |
| `RequestForm` | the three forms that ask for a run or a strategy | | `WebTasksProofs` |
| `WebTasks` | the router over the pages that wait for a run and the forms | | `WebTasksProofs` |
| `WebLists` | the router over the pages that list what the server keeps | | `WebListsProofs` |
| `MC...` | symmetry, frames and schemas for the runs | | |

`PROJECT.json` gives the lines each definition stands for. Operators named after a defect ("Mutant: ..." in their
comment) are variants of the definition below them; no specification uses them.

### Monitor

`strategies`, `jobs` and `signal_logs` are the tables; `pc`, `pending`, `expired`, `job`, `strategy`, `evaluation` and
`seen` are the thread, its session and what it has read; `requests` are the requests under way, with the rows they read
and the values they are about to write; `clock` is the last closed candle of each feed. `delivered`, `unlogged`, `late`
and `streak` are what an observer counts. A handler of a request is two actions, its reads (`Begin...`) and its commit
(`Finish...`, `FinishFails`); `UpdateJob` and `UpdateStrategy` are the commit of changed columns. The thread takes a
job (`PickJob`), fetches and decides and sends (`Evaluate...`), and commits (`CommitEvaluation`). An exception goes
through the rollback, a second read and a second commit (`RollBack`, `CommitError`); when the commit fails, the
handler's own access to the expired row raises and the whole round is left (`CommitEvaluationFails`, lines 30-41).
Rows of deleted jobs raise as well (`PickDeletedJob`). `Crash` ends the thread and the requests and keeps the tables.
Whether a strategy signals, Binance fails or is not ready and Telegram accepts or delivers a message are choices.
`SignalLedger` is the promise: the candles of a job are passed in increasing order, with at most one row each.

### DataStore

`disk` has for each file its opening times and whether it is whole, absent or torn; `market_data_files` its row
(number of candles, first, last, an id that a new row draws anew); `actors` are the requests and their background
tasks. An import goes file by file and page by page: `Fetch`, `ReadFile`, `OpenFile` (which truncates), `FinishFile`,
and after the last page `Measure`, `SelectRow`, `CommitRow`. A refresh is one page, a deletion `RemoveFile` then
`DropRow`. Each of these may fail: the reads of a file and the calls to Binance (`PickFileFails`, `CallFails`); `to_parquet`, which
has truncated the file by then and leaves what it wrote or removes it (`WriteFails`, `WriteRemoved`); the database, which may
refuse a query (`SelectRowFails`) or a commit, before or after it took effect (`CommitRowFails`, `DropRowFails`); the removal of a file,
which is only logged (`RemoveFileFails`). `failures` counts them, `faults` the crashes; a commit also
fails, uncounted, when its row no longer fits. One session serves all files of an import, so a commit that fails
poisons it for the files that follow. `PageSize` and `RefreshSize` stand for 1000 and 10. A candle is its opening time: that the last
candle Binance returns is still open and is stored as it is, is left out.

`Archive` is the promise: a file is an unbroken stretch that grows at its end, and is lost in two ways only, by a deletion
somebody asked for and by a mishap while it was being rewritten. Its four variables are read off `DataStore`: the candles of each file, or,
while one is written, those it had (`Held`); the files that are written (`Rewriting`) or about to be removed (`Deleting`);
the number of failures and crashes (`Mishaps`). A step that loses a file without one of the three is no step of `Archive`.

### OptimizerTask

`tasks` is the dictionary, `thread` what each daemon thread has done and not yet published, `optimization_runs` the
table, `requests` those that read the dictionary first and the table second. The thread begins and ends one combination
at a time, leaves the loop when it sees the flag, asks once more whether it was cancelled (`PassCheck`), then writes
status, result and row in three steps (`PublishStatus`, `PublishResult`, `Persist`/`PersistFails`). `keep` in
`EndCombination` stands for the backtest and its verdict.

### SweepEngine

`state` is the dictionary, `pipelines` the threads with their futures and local results, `sweep_runs` and `portfolio`
the tables, `requests` those between the start of the thread and the reading of `run_id`. The pipeline imports, submits
the jobs to the pool (`Work`), consumes results as they complete, validates winners on the hold-out symbols, registers
the generalized ones row by row, stores the run and publishes its end; `Raise` is the `except` of line 848. After a
cancellation the pipeline publishes first and waits for its pool afterwards (`PublishCancelled`, `Drain`).
`cancel_sweep` belongs to the service and no endpoint calls it yet: `MaxCancels = 0` is the program as deployed.

### Journal

`trades` is the table, with the columns a profit is made of; `page` is what each tab shows of each trade, however old;
`requests` holds for each tab the row its request has read and the row it will write. `BeginUpdate` is `update_trade` up
to its commit: `Merge` assigns the columns the body carries and `Settle` computes the profit; `FinishUpdate` commits the
columns that changed over whatever the row holds by then. A tab sends two kinds of body: the form, with any amounts and
the profit the tab shows (`TradeModal.tsx:130`), and the button that closes, which carries the status only. `doubtful`
is an observer: the trades whose last update overlapped another or carried a profit of its own. A tab waits for its answer
before it sends again. Prices are whole numbers, and the rounding of floats is left out.

### BacktestEngine

`frame` is the data with the columns the strategy adds, `run` the position and the trades, `i` the candle the loop is at:
one action per turn (`NextCandle`), one for what is left open (`EndOfData`). `Opened` is the entry with its two prices,
`After` the body of the loop. No lookahead is a relation between two executions, so a second one runs in step: `twin`
begins with the same `common` candles as `frame` and then goes on otherwise or stops, `echo` is what its run has done. Prices are
integers, slippage and distances are rounded down; quantities, fees, the curve and the metrics follow from the trades
and no branch depends on them.

### The web client

A call of a page is sent, served and answered in steps of their own, and its continuation works on the state the page
has by then; a closure keeps what it captured. `failures` bounds the calls that fail, `clicks` what the user does. The server
behind a page is the little that the page can tell apart: the states of a run, a set of rows.

- `RunHistory`: the loads, details and deletions of past runs. `BacktestPage` adds the chain of polls of each run,
  over one timer (`timer`) and one flag; `OptimizerPage` the component `OptimizationProgress` with its closures and references, each
  instance an element of `progress`, and the calls for results. A deletion or a cancellation may be done by the server and its
  answer lost: the page reports a failure, and the run is `gone`, or cancelled without the component knowing. The button
  that cancels is there until the component knows that the task was cancelled, also once it has completed or failed. A
  restart of the server is not modelled for these two pages (a crash is an action of `OptimizerTask`, whose dictionary it empties).
- `SweepPage`: the interval that polls while the status it knows is running, and the loads a change of status brings.
  `state`, `threads` and `rows` are the server's sweeps, and `Restart` the process that dies and starts again. A pipeline that fails
  stores its row, or not, and only then writes its status (`Fail`, `PublishFailure`).
- `MonitorPage`, `DataPage`: a load every thirty seconds and after some calls; the rest the page does to its lists
  itself. `PortfolioPage` loads once; a toggle is shown before it is sent, and its failure puts back an older list.
- `SystemPage`: a form that sends every field, a server that commits them one by one, filters that load the logs.
- `RequestForm`: a form whose catalog and symbols arrive after it is shown, and whose selects show their first option
  when their value is not among them. `chosen` is what the user or the earlier request asked for.
- `WebTasks` and `WebLists`: a behaviour is the life of the page or form `route` names; leaving a page ends what it keeps. The
  variables of the others hold `None`. `WebTasks` composes the pages of backtests, optimizations and sweeps and the forms,
  `WebLists` the monitor, the portfolio, the data and the configuration: no two pages are shown at a time, so nothing is lost
  between the two, and each of their pages has bounds of its own.

Observers say which exception applies: `overtaken` (an answer passed an older one), `left` (a run left with a call in flight),
`doubled` (two optimizations asked for at a time), `unseen` and `disturbed` (a sweep never seen running; its calls crossed
or failed), `behind` (a list that a crossing or failing call left wrong), `typed` and `blind` (fields the user typed; a form
that was never loaded).

## Runs

All bounds are constants that count what the environment may do; no bound limits a step of the program.

| Run | Instance | Question |
|---|---|---|
| `monitor_races` | 1 strategy, 2 jobs, 1 feed, 2 requests at a time, 3 in all, 2 candles, 1 crash or failed commit | `SignalLoggedOnce`, `RepeatedOnlyWhenLost`, `SentRowsWereDelivered`, `AtMostOneLateSignal` under every interleaving |
| `monitor_sequential` | 2 feeds, 1 request at a time, 3 in all, 2 candles, 1 failure, 1 fault | a strategy has one job (`OneJobPerStrategy`); `LedgerSpec` while a strategy moves between feeds |
| `monitor_liveness` | 2 strategies, 2 jobs, 1 feed, 1 candle, 2 requests, 1 failure, 1 fault | `EveryCandleIsEvaluated` |
| `data_archive` | 2 files, 1 request at a time, 3 in all, 4 candles, 1 failing call, write or commit, 1 crash | `ArchiveSpec`, `ImportedFilesAreDescribed`, `ImportEnds` |
| `data_requests` | 2 files, 2 requests at a time, 3 in all, 2 candles, pages of 1 | `QuietRowsDescribeFiles` while requests for other files run |
| `optimizer_races` | 2 tasks, 3 combinations, 1 request, 1 failure, 1 crash | `WholeResults`, `AtMostOneLateCombination`, `TaskEnds` |
| `sweep_races` | 2 sweeps that may overlap, 2 jobs, 1 cancellation, 1 failure, 1 crash, one clock second | `OnlyWholeSweepsCount`, whatever one sweep does to the other's flag |
| `sweep_sequential` | 2 sweeps, the next asked for only once the last shows; 2 jobs, 2 registrations, 2 clock seconds, 1 cancellation, 1 failure | `ResultsBelongToRun`, `AtMostOneLateStrategy`, `SweepEnds` |
| `journal_races` | 2 tabs, 1 trade, prices that are missing or filled in, 3 requests | `ProfitIsThatOfPrices`, `ClosingKeepsEdits` |
| `backtest` | every frame of up to 4 candles of 11 kinds, each with every beginning and 3 ways to go on; 3 sets of exit rules | `NoLookahead`, `ExitsAtFirstTouch`, `SignalsAreTaken` |
| `web_tasks` | backtests, optimizations, sweeps and the forms; 2 runs, 2 sweeps, 6 clicks (4 on the optimizer's page, 2 on the sweep's and in a form), 1 failure | the pages' properties named below, and `WaitingEnds` |
| `web_lists` | the monitor, the portfolio, the data and the configuration; 1 strategy, signal and alert, or 2 strategies, or 2 files, or 2 levels and 1 module of the log; 3 clicks on the portfolio's and the configuration's page, 2 on the others, 1 failure, 1 load in flight when the interval adds one | `ListsShowServer`, `LogsMatchFilter`, `SaveChangesTheTyped`, `ListsCatchUp` |

Why the bounds are enough: the races are between two actors about one row, file or flag, so two requests, two tasks or
two sweeps are the smallest instances that have them, and the next actor only repeats them; order and repetition
need two candles (a second poll) or a full page and a short one (4 candles with pages of 2); one fault at each place
is enough to lose what is between two steps, and a second one meets a state the first has already left.
A frame of four candles holds a signal, an entry, an exit and a signal after it,
and the entry may be on the last candle; the kinds are those that touch the stop, the target, both or neither, that jump, and
that give a signal with or without a range. Two runs on a page are the one that is left and the one that is awaited;
the interval adds a load while one is in flight. `monitor_liveness` has two jobs because what it asks is whether one starves the other. The runs have no deadlock check: when the
bounds are used up and nothing is under way, the system rests.

The properties of `web_tasks`: a deleted row leaves the table (`NoDeletedRow`); the run with the spinner is followed and no other
(`OnlyTheAwaitedRunIsFollowed`); results are shown under the request they answer (`DetailIsLabelledRight`); the component
on screen asks about the task the page names (`ShownTaskIsFollowed`); a page that says "completado" shows the last sweep,
whole (`CompletedShowsAll`); a form sends what it shows (`SubmittedIsShown`)
and keeps what was chosen (`ChoicesSurvive`); every wait ends (`WaitingEnds`). Those of `web_lists`: a list is the server's
once the page waits for nothing (`ListsShowServer`), and in the end (`ListsCatchUp`); log lines match the filters
(`LogsMatchFilter`); a save writes what was typed (`SaveChangesTheTyped`).
Each has the exceptions its comment states, and the next table names the same property without them.

### Fairness

- Monitor: weak fairness of the thread, which the operating system schedules; strong fairness of `Decide`, the evaluation
  whose call to Binance succeeds. The thread polls for ever; the assumption says Binance does not refuse every poll. No
  request, candle or fault is forced.
- DataStore: weak fairness of each request's steps. A call, a write or a commit may fail, and failing is a step.
- OptimizerTask, SweepEngine: weak fairness of each thread and, in the sweep, of its workers.
- WebTasks, WebLists: weak fairness of what the browser's event loop runs, the answer to a call in flight and a timer that is due, and of
  the server's threads. `request` has no timeout of its own: that every call is answered or fails is the
  network's doing, and failing is an answer. The interval of the monitor's and the data's page fires for ever, which is what
  `ListsCatchUp` rests on. No click is forced.

### Further counterexamples

What the documents or the code say of the program and the models refute. These configurations are kept for reference;
each has one property that TLC refutes within seconds, and the quoted document is in the property's comment.

| Configuration | Property | What happens |
|---|---|---|
| `MonitorStopped` | `StoppedAfterConsecutiveFailures` | `error_count` is reset only by an evaluation that reaches its commit; a poll that finds its candle already evaluated returns before (`monitor_engine.py:49`), so three errors hours apart stop a job that docs/v3-modulo-6-monitor-alertas.md:28 says stops after three in a row |
| `DataHole` | `HistoryIsIntact` | a refresh asks for the last ten candles (`routers/data.py:168`): after a longer pause the file has a hole, and every later import begins after it (docs/v3-modulo-6-monitor-alertas.md:55) |
| `SweepOverlap` | `OneSweepAtATime` | `start_sweep` tests the status and leaves it to the thread to set it (`mass_sweep_engine.py:928`) |
| `MonitorDuplicates` | `OneSignalPerStrategyAndCandle` | two requests create two jobs, and each signal is logged twice |
| `DataRaces` | `RowsDescribeFiles` | two imports of one file lose candles or commit an older count |
| `DataFailed` | `FailedImportIsNotDone` | an import whose files all failed ends as done |
| `DataCorrupt` | `CorruptFileIsMovedAway` | a torn file stays and fails every later import |
| `OptimizerCancelled` | `CancelledIsNotCompleted` | a cancellation after the last check is answered, and the task completes |
| `OptimizerPartial` | `PartialResultsAreKept` | a cancelled task drops its candidates |
| `OptimizerLost` | `CompletedIsPersisted` | a restart or a failed commit loses a task somebody saw completed |
| `SweepRefused` | `RefusedOnlyWhenBusy` | the request that starts the first sweep may be answered 409 |
| `JournalEdited` | `ClosedTradeHasItsProfit` | correcting a closed trade in the form sends the old profit back |

The backtest and the pages state what fails, for the pages once an exception of a property is dropped; each of these, and three
more of the monitor, is refuted with the bounds of the runs:

| Module | Definition | What happens |
|---|---|---|
| `Monitor` | `PausedJobIsSilent` | a pause during the call to Binance does not stop the message |
| `Monitor` | `UnsentSignalIsSent` | a message that Telegram refused is never sent again, and `last_run_at` is past it |
| `Monitor` | `ActiveStrategyIsWatched` | PUT with `is_active` creates no job |
| `BacktestEngine` | `ExitsAfterEntry` | a position is closed on the candle it was entered on, at whose opening it began; docs/v3-modulo-3-backtest.md:26 says its exit is evaluated on the candles that follow |
| `BacktestEngine` | `ExitPriceWasTraded` | a candle that opens beyond the stop, or the target, fills it at a price it never had |
| `BacktestPage` | `AwaitedRunIsFollowed` | a run left during a poll goes on polling, and the poll of the next one finds the flag set and is not repeated |
| `OptimizerPage` | `SecondTaskIsFollowed` | of two tasks asked for at a time, the component goes on asking about the first |
| `SweepPage` | `ResultsAreBelow` | a sweep whose status was read before its thread wrote it is never followed, and the page shows the one before |
| `MonitorPage` | `AlertsListedOnce` | an alert is listed twice when a load that has it is answered before its creation |
| `PortfolioPage` | `RollbackUndoesOneToggle` | a failed toggle brings back a strategy deleted meanwhile |
| `SystemPage` | `SaveErasesNothing`, `AccountIsWhole`, `FilterIsShown` | a form whose load failed saves blanks; a failed save keeps half of an account; a select shows "all" while a filter is on |
| `RequestForm` | `SentIsShown`, `ChoicesAreKept` | a default that is shown is not what is sent; a choice made before the catalog came is overwritten |

### Known and not modelled

Hazards of the code that no definition reaches: the error path writes `error_count` from an older read over a restart
(`task_manager.py:34`); a range of parameters is counted with a floor and walked in floats (`routers/optimizer.py:62`); a
candidate without losses has no profit factor, passes no comparison and is sorted as if it were 0 (`optimizer_engine.py:40`);
the drawdown follows the order of the rows and the curve that of closing (`performance_service.py:49`); `1M` is taken for a
minute (`core/utils.py:12`); the candle still open is stored and never replaced (`binance_client.py:54`); two klines are
all a strategy sees live (`monitor_engine.py:36`).

## Proofs

The assumptions are those on the constants (`ConstantsAssumption`, `DataAssumption`, `OptimizerAssumption`, `SweepAssumption`,
`JournalAssumption`, `BacktestAssumption`, `BoundsAssumption`, `RunsAssumption`, `TasksAssumption`, `ListsAssumption`): the null
values are not members, the bounds are natural numbers, a file has a first version, as is the number of sweeps, there is a feed, a sweep's jobs are finite in number, a frame is a sequence of candles,
a strategy has the keys of its parameters, and no page of `WebTasks` has a larger bound than that of the backtests. Strategies, jobs, requests, tasks, threads, frames
and bounds are arbitrary.

`MonitorProofs`:

- `TypeCorrect`: `Spec => []TypeOK`, one lemma for the steps of the thread and one for those of the requests.
- `MonitorInvariant`: `Spec => [](TypeOK /\ IInv)`. None of the properties is inductive as it stands. That a candle has at
  most one row needs that no row is past its job's `last_run_at` (`Watermarked`), that the candle about to be committed is
  (`PastWatermark`), and that a job not yet created has no history (`UnusedNeverRun`). That messages repeat only when
  a commit was lost needs the balance at every moment, which allows one message more once the candle is passed or while
  its commit is awaited (`DeliveriesAccounted`). That a row says the truth needs that the flag about to be committed
  does (`SentInFlight`). The central fact is that only `CommitEvaluation` moves `last_run_at` or adds a row: the
  requests and the error path commit other columns (`JobsKeptByStep`, `QuietStep`).
- `NoRepeatWithoutLoss`, `SentRowsAreTrue`: the two properties, from the invariant.
- `OneLateSignal`: `Spec => []AtMostOneLateSignal`, from an invariant of its own (`LateInv`): once a strategy is paused or
  deleted, the thread sends for one of its jobs only if it had read the job and the strategy before, and a job whose
  message is already late is not the one it is at. It needs that the thread's job is one that was inserted, and that the
  strategy it read is that job's (`ThreadJobsAreInserted`, `FetchesForItsStrategy`, `LateIsOver`).
- `OneJobUnlessInsertsMeet`: `Spec /\ []InsertsApart => []OneJobPerStrategy`. Two requests that look for the job of one
  strategy and insert it do not overlap; nothing else is assumed, of requests or of faults. The invariant carries the look to
  the insertion: what such a request did not find is still not there (`NoneFoundIsNone`), because a step adds a job only by
  such a commit (`AddedByStep`). `monitor_sequential` has one request at a time, where `InsertsApart` holds by itself.
- `ImplementsLedger`: every step of `Monitor` is a step of `SignalLedger` or changes none of its variables, from the
  invariant (`Numbered` makes the new row's id fresh); `OneRowPerJobAndCandle`: its consequence for the rows.

`OptimizerProofs`:

- `TypeCorrect`: `Spec => []TypeOK`.
- `ResultsAreWhole`: `Spec => []WholeResults`. A result is published only by a thread that has passed the check, passed
  the check only uncancelled, and leaves its loop early only when cancelled: the invariant says so at each place of the
  thread (`LeftEarlyWhenCancelled`, `PassedIsWhole`, `ResultsAreSettled`). A flag set after the check
  does not disturb it, because the result is whole by then.

- `OneLateCombination`: `Spec => []AtMostOneLateCombination`, from `LateInv`: an acknowledged task is flagged for good, and
  a thread that has begun a late combination is not at its loop's test with the flag unset.

`SweepProofs`, for any number of pipelines, jobs, workers and requests:

- `TypeCorrect`: `Spec => []TypeOK`, with the size of the pool: the futures that run are never more than its workers.
- `WholeSweepsCount`: `Spec => []OnlyWholeSweepsCount`, for sweeps that overlap, are cancelled, fail or die. A pipeline leaves
  its scan as complete only when every future was consumed (`ScanIsOver`, `ScanDropsNothing`), registers only what it
  found general (`RegistersTheGeneralized`), and what the table and the portfolio hold stays settled (`StoredIsSettled`,
  `RegisteredIsSettled`). The flag another sweep resets appears nowhere in the argument: a scan told to stop leaves by
  another door.

- `PatienceKeepsSweepsApart`: with `Patient`, `Spec => []SweepsApart`: no two sweeps are between the start of the thread and
  its end. It needs that the status says running while one is under way (`StatusTells`), which a second thread could undo.
- `ResultsAreOfTheirRun`, `OneLateStrategy`: `Spec /\ []SweepsApart => []ResultsBelongToRun` and the same of
  `AtMostOneLateStrategy`. The thread under way is the one whose run is named (`NamesItsRun`), though the pools of
  earlier ones still work; a cancellation stays in force until its sweep ends (`CancelHolds`), so that a late strategy is
  the last of its registration (`LateIsLast`). Without `SweepsApart` both fail: `SweepOverlap` is how sweeps come to overlap.

`DataProofs`, for any number of files, candles and requests and any size of a page:

- `TypeCorrect`: `Spec => []TypeOK`. That a file that is not empty has a first and a last candle is an induction; it is had
  from the library's minimal element of a well-founded order (`LeastNatural`, `Bounds`). The type of a request's record is
  inductive with its shape only: which fields a request uses at which place (`Shape`), and that only a file that can be read
  holds candles (`SoundDisk`).
- `ImportedFilesCorrect`: `Spec => []ImportedFilesAreDescribed`, with any number of requests at a time. The invariant is
  `Undisturbed`: a request that met none of another with a file in common has in hand what is on disk and in the table
  (`UpToDate`), at each of its steps. A file leaves the list of an import either with the row just committed or with an error: a
  write that fails (`WriteFails`, `WriteRemoved`) and a commit that fails touch this one file, which gets its error.
- `QuietRowsCorrect`: `Spec => []QuietRowsDescribeFiles`, from `Quiet`, which says what a request in the middle of a file
  has left in order (`Ready`): with no failure, it can still bring the row in line.
- `ImplementsArchive`: with `MaxActive = 1` and `MaxRefreshes = 0`, `Spec => ArchiveSpec`, the instance of `data_archive` with any
  files, candles, pages and faults. A page an import asks for starts where its file ends, at its last candle or one after it
  (`GoesOn`), so what it appends extends an unbroken stretch (`PageStretch`, `FreshStretch`). A step of a request ends or begins a
  writing, or leaves the writers alone (`StepWriters`), so what is lost is a file that was being written when something
  failed (`WriteLost`, `CrashStored`) or one whose removal was asked for (`RemoveFileStored`). The two hypotheses are needed:
  two imports lose each other's candles (`DataRaces`), and a refresh leaves holes (`DataHole`).

`BacktestProofs`, for frames of every length, every price and every rule:

- `TypeCorrect`: `Spec => []TypeOK`, with the fact that only a frame with candles opens a position (`Grounded`).
- `NothingIsSeenAhead`: `Spec => []NoLookahead`. The two runs are one while both frames have the next candle too
  (`LoopsAgree`, by `SameTurn`); at the last common candle they have the same trades
  (`SameTrades`) and positions that differ in the opening price only; after it the rules close nothing before it (`LaterTurn`).
- `FirstTouchCloses`: `Spec => []ExitsAtFirstTouch`, and `NoSignalIsLost`: `Spec => []SignalsAreTaken`. Both rest on `LoopInv`:
  the position is what `Opened` makes of the candle before it, and no trade is ahead of the loop. `StepCases` splits a step
  into the four things it may do.

`JournalProofs`, for any number of trades and tabs and any amounts (`JournalAssumption`: the null value is neither a number
nor a name):

- `TypeCorrect`: `Spec => []TypeOK`.
- `ClosedProfitIsRight`: `Spec => []ProfitIsThatOfPrices`. The row a request will write was worked out from the row it
  read, so the invariant `IInv` speaks of the requests: one that nothing overlapped will write over exactly what it read
  (`UnracedReadIsFresh`, hence the commit of changed columns writes the whole of it: `UpdateFreshRow`), what it writes
  has the profit of its own prices unless it carries one (`UncarriedWriteIsSettled`), and no request revives a trade
  (`RequestsNameTrades`).
- `ClosingTakesNothingBack`: `Spec => ClosingKeepsEdits`, from the invariant that the button changes two columns of the
  row it read (`ClosesWriteLittle`) and the lemma that such a commit changes two columns of the row it finds
  (`CommitOfClose`).

`WebListsProofs`, about `WebLists`, for any strategies, alerts, files, levels and modules and any bounds (see
`ListsAssumption`). The invariants are in the pages' modules, beside the
actions they are about, and `PagesInv` takes them together, one for each route:

- `ListsAreTheServers`: `Spec => []ListsShowServer`. What a page shows is right only when it waits for nothing, so each
  invariant says what the calls and loads in flight mean for the list on screen.
  - `MonitorInv`: unless calls crossed or failed, either no call is in flight and the page shows the server, with loads that
    carry what the server still has (`LoadsAreFresh`), or one call is, with no load, and the difference between page and
    server is the one this call makes (`Expected`). A toggle is two calls, the switch and then the jobs it is read off, and
    until the second the page lists the active strategies among others (`StillListed`). It needs that the server
    switches a strategy and its job together (`JobsFollow`), and that a load ends the exception only while it is the only
    one and meets no call (`AloneIsFresh`).
  - `PortfolioInv`: calls about different strategies may be in flight together and in any order, so for each strategy that
    no call is about page and server have the same row (`RestAgrees`), and each call says how the rows of its strategy differ
    (`Expects`): what a toggle will put back, what a creation will add, what a deletion will take out. Lists are compared
    strategy by strategy (`Of`), which is enough because an id occurs once on either side (`Once`), also while a new one is
    on its way (`NewAreNew`). `EditsAreCalls`, which counts the calls the server has not answered, is what bounds the number of
    edits, hence the type. Taking an answered call out (`PortfolioTaken`) and each of the four edits of a list
    (`SwitchedLists`, `ReplacedLists`, `LongerLists`, `WithoutLists`) are lemmas.
  - `DataInv`: a call that changed the table will load it, or the load sent last brings what the server has, or the page
    shows it (`TableComes`), as long as all that happens is foreseen; only the first load in flight can be the one that
    restores this (`AloneIsFirst`).
- `ListsTypeCorrect`: `Spec => []TypeOK`, each route's types being part of its invariant.
- `SystemTypeCorrect`: the page of the configuration keeps its types.
- `SavesOnlyTheTyped`: `Spec => SaveChangesTheTyped`, from the invariant `SaveInv`: a field is the server's or the user's, on
  the form and in the save under way (`FormIsHonest`, `SaveIsHonest`). It needs that the answers in flight are what the
  server still has (`AnswersAreFresh`), which holds because one load and then one save at a time is under way
  (`OneLoadThenOneSave`: the spinner hides the form, the button waits), and that the stored capital is a number
  (`CapitalIsANumber`: an empty one would be sent as zero). `SaveWrites` covers a save broken off after any key.
- `LinesMatchFilter`: `Spec => []LogsMatchFilter`, from `LogsInv`: until an answer is overtaken, the last load sent is the one
  of the filters on screen (`LastLoadIsOfFilter`), so the last answer is too (`LastStays`).

The lemmas of the first section say what the operators on lists do: where the calls that are left were when one is taken out
(`Removed`), and what a filter keeps (`OnlyTheWanted`, by the least length at which it would fail). `prev.filter` is a
recursive function, `Only` of `PageCalls`, and not `SelectSeq`, of which the provers know nothing.

`WebTasksProofs`, about `WebTasks`, for any number of runs, sweeps, strategies and parameters and any bounds. The invariants are in the pages' modules, beside the actions they are about:

- `FollowsTheAwaitedRun`: `Spec => []OnlyTheAwaitedRunIsFollowed`, from `FollowInv` of `BacktestPage`: until a run is left with a
  call in flight, at most one chain of polls is alive, and it is that of the run on screen. The one timer all runs share is
  then that run's (`TimerIsKnown`), so that going back, which clears the timer, stops what it leaves.
- `LabelsAreRight`: `Spec => []DetailIsLabelledRight`. The label is the request in the closure of some rendering and the results are
  those of the task in it; `PollsAreLabelled` says that every closure a component still polls with, waits with or asks results with
  pairs a task with its own request, and that an answer had a poll.
- `FollowsTheShownTask`: `Spec => []ShownTaskIsFollowed`, from the same invariant (`ProgressInv`). Components that
  left the screen go on acting, so the invariant says which is on screen: the last one, when the page shows a task
  (`ScreenShowsPage`); and unless two tasks were asked for at a time no task is shown while another is asked for
  (`OneIsAsked`), so what the component on screen polls, or waits to poll, is the task shown (`ScreenFollows`).
- `CompletedShowsTheLastSweep`: `Spec => []CompletedShowsAll`, from `SweepInv` of `SweepPage`. On the server, while the page saw every
  sweep run, at most one sweep is not over and it is the last (`SweepsAreApart`), and the status is "completed" only of the last
  one, whole and with its row (`Finished`), unless one waits for its thread; then `handleRun` awaits the poll that will see it run
  (`OneIsAwaited`), and "completed" is only in polls sent before that one (`PollsTell`): an order of answers decides it. On the
  page, "completed" means that the load to come, or else the last load of each kind under way, or else what is shown, has
  all of it (`LoadsBring`).
- `TasksTypeCorrect`: `Spec => []TypeOK`, each route's types being part of its invariant.
- `DeletedRowsStayAway`: `Spec => []NoDeletedRow`, for both pages, from `DeletionInv` of `RunHistory`: a
  deletion that is done has not been shown yet, or the last load was sent after it (`LastLoadIsFresh`). The step of the
  shared list is proved once (`DeletionStep`) and carried to each page by lemmas that say the page's instance of the list is the list
  (`BacktestSame`, `OptimizerSame`, `...History`).
- `FormSendsWhatItShows`: `Spec => []SubmittedIsShown`, from `SubmitInv` of `RequestForm`: a value that is no option is that of the request
  before (`ValuesAreKnown`), and the parameters are those of the strategy, or those of the request before and the ones
  edited since (`ParamsBelong`).
- `LateAnswersKeepChoices`: `Spec => []ChoicesSurvive`, from `ChoiceInv`: a form that waits for a list has no options of it
  (`LoadingIsEmpty`), and no strategy can be chosen before the catalog has come, but for the cases named (`NoEarlyChoice`).

Only model-checked:

- The liveness: `EveryCandleIsEvaluated`, `ImportEnds`, `TaskEnds`, `SweepEnds`, `WaitingEnds` and `ListsCatchUp`. The prover
  has no `ENABLED`, which fairness speaks of. Every invariant and action property of every run, and both refinements, are theorems.

`TypeOK` of `OptimizerTask`, `Journal` and `BacktestEngine` is proved, and no run repeats it. The same holds of the inductive
invariants: TLC found no violation of them on the instances of the runs before they were proved.

## Plan

What is left, in order of importance.

1. `Performance`: the summary and the curve of `performance_service.py` as functions of the closed rows `Journal` can reach,
   against each other: the last point of the curve and the net profit, the drawdown and the order of closing, sampling.
2. `OptimizerGrid`: the count of a range against the values walked, the verdict and the order of candidates without losses.
3. Timeframes and `StrategyWindow`: how many candles a verdict needs against the two the monitor fetches.
4. Money in `BacktestEngine`: the balance against the sum of the trades, and the drawdown of the curve.
5. `SweepEngine` over `DataStore`: a sweep's import is `StartImport` with the sweep's own list.

## Not modelled

- The numbers: indicators, profit factors, market regimes are columns of floats. Each appears as a choice of
  verdict where a component acts upon it, and a strategy's signal as data in `BacktestEngine`.
- Pages that load once and show: home, strategies, performance, the regimes of the sweep, the tab of health checks; the dialog
  that sends a result to the portfolio; sorting, result tables and charts.
- `data_updater.py`: nothing calls `run_data_updater`, so the periodic update the documents describe does not happen.
- Price alerts: rows that nothing evaluates.
- A restart of the server under the pages of the backtests and of the optimizations, which then poll for a task nobody knows.
- Read-only endpoints, the log handler, health checks, the web client's layout, the watchlist (no page uses it), and the two command-line scripts
  (`mass_sweep.py`, `strategy_optimizer.py`) that preceded the services.
- Two processes: `uvicorn --reload` runs one; the dictionaries would not work with two.

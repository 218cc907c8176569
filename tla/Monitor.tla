------------------------------ MODULE Monitor ------------------------------
(***************************************************************************)
(* The live monitor: the task-manager thread (services/task_manager.py),   *)
(* the evaluation of one job (services/monitor_engine.py) and the web      *)
(* requests that write the same rows (api/routers/portfolio.py,            *)
(* api/routers/monitor.py).  All of them run in one process, each in its   *)
(* own thread with its own database session.                               *)
(*                                                                         *)
(* A session reads rows, changes its copies, and at commit writes the      *)
(* columns whose value differs from the one it read: what another thread   *)
(* committed meanwhile is kept or overwritten column by column.  So every  *)
(* handler is two steps, the read and the commit, and the thread's         *)
(* evaluation is three: the read, the call to Binance with the decision    *)
(* and the Telegram message, and the commit.                               *)
(***************************************************************************)
EXTENDS Naturals, FiniteSets

CONSTANTS
    Strategies,    \* ids of user_strategies rows, each used at most once
    Jobs,          \* ids of monitor_jobs rows, each used at most once
    Feeds,         \* (symbol, timeframe) pairs a strategy can watch
    Requests,      \* web requests that can be in progress at the same time
    NoStrategy, NoJob,
    MaxCandle,     \* bound: candles each feed closes
    MaxRequests,   \* bound: requests served
    MaxFailures,   \* bound: evaluations that raise
    MaxFaults      \* bound: process crashes and failed commits

ASSUME ConstantsAssumption ==
    /\ NoStrategy \notin Strategies
    /\ NoJob \notin Jobs
    /\ Feeds # {}
    /\ MaxCandle \in Nat \ {0}
    /\ {MaxRequests, MaxFailures, MaxFaults} \subseteq Nat

VARIABLES
    \* The database.
    strategies, jobs, signal_logs,
    \* The task-manager thread and the session of its current round.
    pc, pending, expired, job, strategy, evaluation, seen,
    \* The requests in progress.
    requests,
    \* Binance: the opening time of the last closed candle of each feed.
    clock,
    \* What an observer has counted.
    delivered,   \* Telegram messages that reached the user, per job and candle
    unlogged,    \* of those, the ones whose commit was lost
    late,        \* messages sent for a job since its strategy was deactivated
    streak,      \* failed evaluations of a job since its last good one
    served, failures, faults

database == <<strategies, jobs, signal_logs>>
thread   == <<pc, pending, expired, job, strategy, evaluation, seen>>
observed == <<delivered, unlogged, late, streak>>
counts   == <<served, failures, faults>>
vars     == <<database, thread, requests, clock, observed, counts>>

ErrorLimit == 3

Candles == 1 .. MaxCandle
Times   == 0 .. MaxCandle          \* 0: never run
Lives   == {"unused", "live", "deleted"}

StrategyRow == [life: Lives, is_active: BOOLEAN, feed: Feeds]
JobRow == [life: Lives, user_strategy_id: Strategies \cup {NoStrategy},
           status: {"running", "paused", "stopped"},
           error_count: Nat, last_run_at: Times]
SignalRow == [id: Nat, job: Jobs, timestamp: Candles, telegram_sent: BOOLEAN]

LiveStrategies == {s \in Strategies : strategies[s].life = "live"}
LiveJobs       == {j \in Jobs : jobs[j].life = "live"}
JobsOf(s)      == {j \in LiveJobs : jobs[j].user_strategy_id = s}
UnusedJobs     == {j \in Jobs : jobs[j].life = "unused"}

NewJob(s) == [life |-> "live", user_strategy_id |-> s, status |-> "running",
              error_count |-> 0, last_run_at |-> 0]
NoRow  == [life |-> "unused", user_strategy_id |-> NoStrategy,
           status |-> "running", error_count |-> 0, last_run_at |-> 0]
NoView == [id |-> NoStrategy, is_active |-> FALSE, feed |-> CHOOSE f \in Feeds : TRUE]
NoEvaluation == [candle |-> 0, signal |-> FALSE, sent |-> FALSE]

(***************************************************************************)
(* The UPDATE a session issues for a row it read as  old  and left as      *)
(* new: the columns that differ, over what the row holds now.              *)
(***************************************************************************)
UpdateJob(row, old, new) ==
    [row EXCEPT !.status = IF new.status # old.status THEN new.status ELSE @,
                !.error_count = IF new.error_count # old.error_count
                                THEN new.error_count ELSE @]

UpdateStrategy(row, old, new) ==
    [row EXCEPT !.is_active = IF new.is_active # old.is_active THEN new.is_active ELSE @,
                !.feed = IF new.feed # old.feed THEN new.feed ELSE @]

-----------------------------------------------------------------------------
(***************************************************************************)
(* The task-manager thread.                                                *)
(***************************************************************************)

(* The for loop is left for any reason: db.close(), and wait 60 seconds.   *)
Sleep ==
    /\ pc' = "asleep"
    /\ pending' = {}
    /\ expired' = FALSE
    /\ job' = NoJob
    /\ strategy' = NoView
    /\ evaluation' = NoEvaluation
    /\ seen' = NoRow

(* Mutant: the loop goes back to the job it has just evaluated.            *)
NextJobSame ==
    /\ pc' = "picking"
    /\ job' = NoJob
    /\ evaluation' = NoEvaluation
    /\ seen' = NoRow
    /\ UNCHANGED <<pending, expired, strategy>>

(* The current job is done with; the strategy object the loop still holds  *)
(* stays in the session's identity map.                                    *)
NextJob ==
    /\ pc' = "picking"
    /\ pending' = pending \ {job}
    /\ job' = NoJob
    /\ evaluation' = NoEvaluation
    /\ seen' = NoRow
    /\ UNCHANGED <<expired, strategy>>

(* The same after a commit, which expires every object of the session.     *)
NextJobExpired ==
    /\ pc' = "picking"
    /\ pending' = pending \ {job}
    /\ expired' = TRUE
    /\ job' = NoJob
    /\ strategy' = NoView
    /\ evaluation' = NoEvaluation
    /\ seen' = NoRow

StartRound ==
    /\ pc = "asleep"
    /\ pc' = "picking"
    /\ pending' = {j \in LiveJobs : jobs[j].status = "running"}
    /\ UNCHANGED <<expired, job, strategy, evaluation, seen>>
    /\ UNCHANGED <<database, requests, clock, observed, counts>>

EndRound ==
    /\ pc = "picking"
    /\ pending = {}
    /\ Sleep
    /\ UNCHANGED <<database, requests, clock, observed, counts>>

(* Mutant: is_active is not looked at.                                     *)
ViewOfAny(s) ==
    IF s \in LiveStrategies
    THEN [id |-> s, is_active |-> TRUE, feed |-> strategies[s].feed]
    ELSE NoView

(* db.get(UserStrategy, ...) answers from the identity map when it can.    *)
ViewOf(s) ==
    IF strategy.id = s
    THEN strategy
    ELSE IF s \in LiveStrategies
         THEN [id |-> s, is_active |-> strategies[s].is_active,
               feed |-> strategies[s].feed]
         ELSE NoView

(* The next job of the snapshot: its strategy is missing or paused         *)
(* (continue), or its evaluation begins.  status is not read again.        *)
PickJob(j) ==
    LET view == ViewOf(jobs[j].user_strategy_id)
    IN  /\ pc = "picking"
        /\ j \in pending
        /\ expired => j \in LiveJobs
        /\ strategy' = view
        /\ IF view.is_active
           THEN /\ pc' = "fetching"
                /\ job' = j
                /\ UNCHANGED pending
           ELSE /\ pending' = pending \ {j}
                /\ UNCHANGED <<pc, job>>
        /\ UNCHANGED <<expired, evaluation, seen>>
        /\ UNCHANGED <<database, requests, clock, observed, counts>>

(* The job's attributes are expired and its row is gone: job.user_strategy_id *)
(* raises, job.id raises again inside the handler and the round is abandoned. *)
PickDeletedJob(j) ==
    /\ pc = "picking"
    /\ j \in pending
    /\ expired
    /\ j \notin LiveJobs
    /\ Sleep
    /\ UNCHANGED <<database, requests, clock, observed, counts>>

(* fewer than two candles, a candle not yet closed by the local clock, or  *)
(* an unknown base strategy: evaluate_job returns and nothing is written.  *)
EvaluateNotReady ==
    /\ pc = "fetching"
    /\ NextJob
    /\ UNCHANGED <<database, requests, clock, observed, counts>>

Fetched == clock[strategy.feed]

(* Mutants: the comparison lets the same candle through; the check looks   *)
(* for the same candle only.                                               *)
AlreadyEvaluatedLess == Fetched < jobs[job].last_run_at
AlreadyEvaluatedSame == Fetched = jobs[job].last_run_at

AlreadyEvaluated == Fetched <= jobs[job].last_run_at

(* The candle was evaluated before: evaluate_job returns without a commit. *)
EvaluateOldCandle ==
    /\ pc = "fetching"
    /\ AlreadyEvaluated
    /\ NextJob
    /\ streak' = [streak EXCEPT ![job] = 0]
    /\ UNCHANGED <<database, requests, clock, delivered, unlogged, late, counts>>

EvaluateNoSignal ==
    /\ pc = "fetching"
    /\ ~AlreadyEvaluated
    /\ pc' = "committing"
    /\ evaluation' = [candle |-> Fetched, signal |-> FALSE, sent |-> FALSE]
    /\ streak' = [streak EXCEPT ![job] = 0]
    /\ UNCHANGED <<pending, expired, job, strategy, seen>>
    /\ UNCHANGED <<database, requests, clock, delivered, unlogged, late, counts>>

Inactive(s) == s \notin LiveStrategies \/ ~strategies[s].is_active

(* Mutant: send_telegram_message returns True without looking at the answer. *)
EvaluateSignalUnchecked(sent, arrives) ==
    /\ pc = "fetching"
    /\ ~AlreadyEvaluated
    /\ pc' = "committing"
    /\ evaluation' = [candle |-> Fetched, signal |-> TRUE, sent |-> TRUE]
    /\ delivered' = IF arrives
                    THEN [delivered EXCEPT ![job][Fetched] = @ + 1]
                    ELSE delivered
    /\ UNCHANGED <<pending, expired, job, strategy, seen>>
    /\ UNCHANGED <<database, requests, clock, unlogged, late, streak, counts>>

(* A BUY signal: the row is added to the session and the Telegram message  *)
(* is sent before anything is committed.  The message may arrive and the   *)
(* call still report a failure (a timeout while reading the answer).       *)
EvaluateSignal(sent, arrives) ==
    /\ pc = "fetching"
    /\ ~AlreadyEvaluated
    /\ sent => arrives
    /\ pc' = "committing"
    /\ evaluation' = [candle |-> Fetched, signal |-> TRUE, sent |-> sent]
    /\ delivered' = IF arrives
                    THEN [delivered EXCEPT ![job][Fetched] = @ + 1]
                    ELSE delivered
    /\ late' = IF Inactive(jobs[job].user_strategy_id)
               THEN [late EXCEPT ![job] = @ + 1]
               ELSE late
    /\ streak' = [streak EXCEPT ![job] = 0]
    /\ UNCHANGED <<pending, expired, job, strategy, seen>>
    /\ UNCHANGED <<database, requests, clock, unlogged, counts>>

(* fetch_klines or calculate raises.                                       *)
EvaluateRaises ==
    /\ pc = "fetching"
    /\ failures < MaxFailures
    /\ failures' = failures + 1
    /\ pc' = "rolling_back"
    /\ streak' = [streak EXCEPT ![job] = @ + 1]
    /\ UNCHANGED <<pending, expired, job, strategy, evaluation, seen>>
    /\ UNCHANGED <<database, requests, clock, delivered, unlogged, late, served, faults>>

LoggedSignal ==
    [id |-> Cardinality(signal_logs) + 1, job |-> job,
     timestamp |-> evaluation.candle, telegram_sent |-> evaluation.sent]

(* Mutant: the function returns after the notification, last_run_at is only *)
(* written for a candle without a signal.                                  *)
CommitEvaluationNotified ==
    /\ pc = "committing"
    /\ job \in LiveJobs
    /\ jobs' = IF evaluation.signal THEN jobs
               ELSE [jobs EXCEPT ![job].last_run_at = evaluation.candle,
                                 ![job].error_count = 0]
    /\ signal_logs' = IF evaluation.signal
                      THEN signal_logs \cup {LoggedSignal}
                      ELSE signal_logs
    /\ NextJobExpired
    /\ UNCHANGED <<strategies, requests, clock, observed, counts>>

(* db.commit() of evaluate_job: last_run_at, error_count and the signal in *)
(* one transaction.  Only this thread writes last_run_at or raises         *)
(* error_count, so the copies it read are the row's.                       *)
CommitEvaluation ==
    /\ pc = "committing"
    /\ job \in LiveJobs
    /\ jobs' = [jobs EXCEPT ![job].last_run_at = evaluation.candle,
                            ![job].error_count = 0]
    /\ signal_logs' = IF evaluation.signal
                      THEN signal_logs \cup {LoggedSignal}
                      ELSE signal_logs
    /\ NextJobExpired
    /\ UNCHANGED <<strategies, requests, clock, observed, counts>>

(* What an unfinished evaluation leaves behind when its commit is lost: a  *)
(* message nobody has a record of.  Counted per job and candle.            *)
ForgetEvaluation ==
    unlogged' = IF pc = "committing" /\ evaluation.signal
                THEN [unlogged EXCEPT ![job][evaluation.candle] = @ + 1]
                ELSE unlogged

(* The commit fails: the UPDATE matches no row, or the database does not   *)
(* answer.  The session must be rolled back before it can be used, but the *)
(* handler reads job.id first: that raises, leaves the for loop, and       *)
(* neither error_count nor the remaining jobs are touched in this round.   *)
CommitEvaluationFails ==
    /\ pc = "committing"
    /\ \/ job \notin LiveJobs /\ UNCHANGED faults
       \/ faults < MaxFaults /\ faults' = faults + 1
    /\ ForgetEvaluation
    /\ Sleep
    /\ UNCHANGED <<database, requests, clock, delivered, late, streak, served, failures>>

(* except Exception: rollback, and job.error_count reads the row again.    *)
RollBack ==
    /\ pc = "rolling_back"
    /\ IF job \in LiveJobs
       THEN /\ pc' = "recovering"
            /\ expired' = TRUE
            /\ strategy' = NoView
            /\ seen' = jobs[job]
            /\ UNCHANGED <<pending, job, evaluation>>
       ELSE Sleep
    /\ UNCHANGED <<database, requests, clock, observed, counts>>

Blamed == [seen EXCEPT !.error_count = @ + 1,
                       !.status = IF seen.error_count + 1 >= ErrorLimit
                                  THEN "stopped" ELSE @]

CommitError ==
    /\ pc = "recovering"
    /\ job \in LiveJobs
    /\ jobs' = [jobs EXCEPT ![job] = UpdateJob(@, seen, Blamed)]
    /\ NextJobExpired
    /\ UNCHANGED <<strategies, signal_logs, requests, clock, observed, counts>>

CommitErrorFails ==
    /\ pc = "recovering"
    /\ \/ job \notin LiveJobs /\ UNCHANGED faults
       \/ faults < MaxFaults /\ faults' = faults + 1
    /\ Sleep
    /\ UNCHANGED <<database, requests, clock, observed, served, failures>>

-----------------------------------------------------------------------------
(***************************************************************************)
(* The web requests.                                                       *)
(***************************************************************************)
Idle == [op |-> "idle", strategy |-> NoStrategy, job |-> NoJob,
         oldJob |-> NoRow, old |-> [life |-> "unused", is_active |-> FALSE,
                                    feed |-> NoView.feed],
         new |-> [life |-> "unused", is_active |-> FALSE, feed |-> NoView.feed]]

(* Mutant: only a running job is looked for.                               *)
FirstJobRunning(s, j) ==
    LET running == {k \in JobsOf(s) : jobs[k].status = "running"}
    IN  IF running = {} THEN j = NoJob ELSE j \in running

(* scalars().first() without an ORDER BY: any job of the strategy.         *)
FirstJob(s, j) == IF JobsOf(s) = {} THEN j = NoJob ELSE j \in JobsOf(s)

Begin(r, op, s, j, new) ==
    /\ requests[r].op = "idle"
    /\ served < MaxRequests
    /\ served' = served + 1
    /\ s \in LiveStrategies
    /\ FirstJob(s, j)
    /\ requests' = [requests EXCEPT ![r] =
          [op |-> op, strategy |-> s, job |-> j,
           oldJob |-> IF j = NoJob THEN NoRow ELSE jobs[j],
           old |-> strategies[s], new |-> new]]
    /\ UNCHANGED <<database, thread, clock, observed, failures, faults>>

BeginToggle(r, s, j) ==
    Begin(r, "toggle", s, j, [strategies[s] EXCEPT !.is_active = ~@])

BeginCreateJob(r, s, j) == Begin(r, "create_job", s, j, strategies[s])

BeginDelete(r, s, j) == Begin(r, "delete", s, j, strategies[s])

(* The job is not read: the session of update_strategy touches one row.    *)
BeginUpdate(r, s, active, feed) ==
    /\ requests[r].op = "idle"
    /\ served < MaxRequests
    /\ served' = served + 1
    /\ s \in LiveStrategies
    /\ requests' = [requests EXCEPT ![r] =
          [op |-> "update", strategy |-> s, job |-> NoJob, oldJob |-> NoRow,
           old |-> strategies[s],
           new |-> [strategies[s] EXCEPT !.is_active = active, !.feed = feed]]]
    /\ UNCHANGED <<database, thread, clock, observed, failures, faults>>

Finish(r) == requests' = [requests EXCEPT ![r] = Idle]

(* Mutant: the restarted job gets a status the table never holds.          *)
RestartedIdle(row) == [row EXCEPT !.status = "idle", !.error_count = 0]

(* status and error_count as both handlers set them on a job to restart.   *)
Restarted(row) == [row EXCEPT !.status = "running", !.error_count = 0]

(* An UPDATE is issued for the job only when a column differs, and fails   *)
(* when the row is gone.                                                   *)
CanUpdateJob(q, new) == q.oldJob = new \/ q.job \in LiveJobs

SaveJob(q, new) ==
    IF q.oldJob = new \/ q.job \notin LiveJobs
    THEN UNCHANGED jobs
    ELSE jobs' = [jobs EXCEPT ![q.job] = UpdateJob(@, q.oldJob, new)]

InsertJob(s) ==
    \E j \in UnusedJobs :
        jobs' = [jobs EXCEPT ![j] = NewJob(s)]

(* A reactivated strategy's messages are wanted again.                     *)
SaveStrategy(q) ==
    /\ strategies' = [strategies EXCEPT ![q.strategy] = UpdateStrategy(@, q.old, q.new)]
    /\ late' = IF strategies'[q.strategy].is_active
               THEN [j \in Jobs |-> IF jobs[j].user_strategy_id = q.strategy
                                    THEN 0 ELSE late[j]]
               ELSE late

Paused(row) == [row EXCEPT !.status = "paused"]

FinishToggle(r) ==
    LET q == requests[r]
    IN  /\ q.op = "toggle"
        /\ q.strategy \in LiveStrategies
        /\ SaveStrategy(q)
        /\ \/ /\ q.new.is_active
              /\ q.job = NoJob
              /\ InsertJob(q.strategy)
           \/ /\ q.new.is_active
              /\ q.job # NoJob
              /\ CanUpdateJob(q, Restarted(q.oldJob))
              /\ SaveJob(q, Restarted(q.oldJob))
           \/ /\ ~q.new.is_active
              /\ q.job # NoJob
              /\ CanUpdateJob(q, Paused(q.oldJob))
              /\ SaveJob(q, Paused(q.oldJob))
           \/ /\ ~q.new.is_active
              /\ q.job = NoJob
              /\ UNCHANGED jobs
        /\ Finish(r)
        /\ UNCHANGED <<signal_logs, thread, clock, delivered, unlogged, streak, counts>>

FinishCreateJob(r) ==
    LET q == requests[r]
    IN  /\ q.op = "create_job"
        /\ \/ /\ q.job = NoJob
              /\ InsertJob(q.strategy)
           \/ /\ q.job # NoJob
              /\ CanUpdateJob(q, Restarted(q.oldJob))
              /\ SaveJob(q, Restarted(q.oldJob))
        /\ Finish(r)
        /\ UNCHANGED <<strategies, signal_logs, thread, clock, observed, counts>>

FinishUpdate(r) ==
    LET q == requests[r]
    IN  /\ q.op = "update"
        /\ q.strategy \in LiveStrategies
        /\ SaveStrategy(q)
        /\ Finish(r)
        /\ UNCHANGED <<jobs, signal_logs, thread, clock, delivered, unlogged, streak, counts>>

(* A DELETE that matches no row is only a warning.                         *)
FinishDelete(r) ==
    LET q == requests[r]
    IN  /\ q.op = "delete"
        /\ strategies' = [strategies EXCEPT ![q.strategy].life = "deleted"]
        /\ jobs' = IF q.job = NoJob THEN jobs
                   ELSE [jobs EXCEPT ![q.job].life = "deleted"]
        /\ Finish(r)
        /\ UNCHANGED <<signal_logs, thread, clock, observed, counts>>

(* The row to UPDATE was deleted meanwhile: the commit raises, nothing is  *)
(* written and the answer is an error.                                     *)
FinishFails(r) ==
    LET q == requests[r]
    IN  /\ \/ q.op \in {"toggle", "update"} /\ q.strategy \notin LiveStrategies
           \/ /\ q.op \in {"toggle", "create_job"}
              /\ q.job # NoJob
              /\ ~CanUpdateJob(q, IF q.op = "create_job" \/ q.new.is_active
                                  THEN Restarted(q.oldJob) ELSE Paused(q.oldJob))
        /\ Finish(r)
        /\ UNCHANGED <<database, thread, clock, observed, counts>>

(* create_strategy inserts one row; a new strategy is paused and has no job. *)
CreateStrategy(s, f) ==
    /\ strategies[s].life = "unused"
    /\ strategies' = [strategies EXCEPT ![s] =
                         [life |-> "live", is_active |-> FALSE, feed |-> f]]
    /\ UNCHANGED <<jobs, signal_logs, thread, requests, clock, observed, counts>>

-----------------------------------------------------------------------------
(* Binance closes a candle.                                                *)
CloseCandle(f) ==
    /\ clock[f] < MaxCandle
    /\ clock' = [clock EXCEPT ![f] = @ + 1]
    /\ UNCHANGED <<database, thread, requests, observed, counts>>

(* The process dies and starts again: the daemon thread and every request  *)
(* in progress are gone, start_task_manager runs a new loop on what is in  *)
(* the database.                                                           *)
Crash ==
    /\ faults < MaxFaults
    /\ faults' = faults + 1
    /\ ForgetEvaluation
    /\ Sleep
    /\ requests' = [r \in Requests |-> Idle]
    /\ UNCHANGED <<database, clock, delivered, late, streak, served, failures>>

Init ==
    /\ \E f \in Feeds :
          strategies = [s \in Strategies |->
                           [life |-> "unused", is_active |-> FALSE, feed |-> f]]
    /\ jobs = [j \in Jobs |-> NoRow]
    /\ signal_logs = {}
    /\ pc = "asleep" /\ pending = {} /\ expired = FALSE /\ job = NoJob
    /\ strategy = NoView /\ evaluation = NoEvaluation /\ seen = NoRow
    /\ requests = [r \in Requests |-> Idle]
    /\ clock = [f \in Feeds |-> 1]
    /\ delivered = [j \in Jobs |-> [c \in Candles |-> 0]]
    /\ unlogged = [j \in Jobs |-> [c \in Candles |-> 0]]
    /\ late = [j \in Jobs |-> 0]
    /\ streak = [j \in Jobs |-> 0]
    /\ served = 0 /\ failures = 0 /\ faults = 0

Evaluate ==
    \/ EvaluateNotReady
    \/ EvaluateOldCandle
    \/ EvaluateNoSignal
    \/ \E sent, arrives \in BOOLEAN : EvaluateSignal(sent, arrives)
    \/ EvaluateRaises

TaskManager ==
    \/ StartRound
    \/ EndRound
    \/ \E j \in Jobs : PickJob(j) \/ PickDeletedJob(j)
    \/ Evaluate
    \/ CommitEvaluation
    \/ CommitEvaluationFails
    \/ RollBack
    \/ CommitError
    \/ CommitErrorFails

Web ==
    \/ \E r \in Requests, s \in Strategies, j \in Jobs \cup {NoJob} :
          BeginToggle(r, s, j) \/ BeginCreateJob(r, s, j) \/ BeginDelete(r, s, j)
    \/ \E r \in Requests, s \in Strategies, active \in BOOLEAN, f \in Feeds :
          BeginUpdate(r, s, active, f)
    \/ \E r \in Requests :
          FinishToggle(r) \/ FinishCreateJob(r) \/ FinishUpdate(r)
          \/ FinishDelete(r) \/ FinishFails(r)
    \/ \E s \in Strategies, f \in Feeds : CreateStrategy(s, f)

Next == TaskManager \/ Web \/ (\E f \in Feeds : CloseCandle(f)) \/ Crash

Spec == Init /\ [][Next]_vars

(***************************************************************************)
(* Fairness: the operating system runs the daemon thread and the threads   *)
(* of the requests; and Binance answers, again and again, with a closed    *)
(* candle.  Nothing forces a request to come, a candle to close or a fault *)
(* to happen.                                                              *)
(***************************************************************************)
Decide == EvaluateNoSignal \/ \E sent, arrives \in BOOLEAN : EvaluateSignal(sent, arrives)

FairSpec ==
    /\ Spec
    /\ WF_vars(TaskManager)
    /\ SF_vars(Decide)

-----------------------------------------------------------------------------
(* The variables range over the values the tables and the threads hold.    *)
RequestRecord ==
    {Idle} \cup
    [op: {"toggle", "create_job", "update", "delete"},
     strategy: Strategies, job: Jobs \cup {NoJob},
     oldJob: JobRow, old: StrategyRow, new: StrategyRow]

DatabaseOK ==
    /\ strategies \in [Strategies -> StrategyRow]
    /\ jobs \in [Jobs -> JobRow]
    /\ signal_logs \subseteq SignalRow
    /\ IsFiniteSet(signal_logs)

(* A job is named while it is evaluated, a candle until it is committed.   *)
ThreadOK ==
    /\ pc \in {"asleep", "picking", "fetching", "committing", "rolling_back", "recovering"}
    /\ pending \subseteq Jobs
    /\ expired \in BOOLEAN
    /\ job \in Jobs \cup {NoJob}
    /\ pc \in {"fetching", "committing", "rolling_back", "recovering"} => job \in Jobs
    /\ strategy \in [id: Strategies \cup {NoStrategy}, is_active: BOOLEAN, feed: Feeds]
    /\ evaluation \in [candle: Times, signal: BOOLEAN, sent: BOOLEAN]
    /\ pc = "committing" => evaluation.candle \in Candles
    /\ seen \in JobRow

OutsideOK ==
    /\ requests \in [Requests -> RequestRecord]
    /\ clock \in [Feeds -> Candles]

ObservedOK ==
    /\ delivered \in [Jobs -> [Candles -> Nat]]
    /\ unlogged \in [Jobs -> [Candles -> Nat]]
    /\ late \in [Jobs -> Nat]
    /\ streak \in [Jobs -> Nat]

CountsOK == {served, failures, faults} \subseteq Nat

TypeOK == DatabaseOK /\ ThreadOK /\ OutsideOK /\ ObservedOK /\ CountsOK

(***************************************************************************)
(* A message about a candle is repeated only when the commit that should   *)
(* have recorded the one before it was lost: in a crash between the call   *)
(* to Telegram and db.commit(), or in a commit that failed.                *)
(***************************************************************************)
RepeatedOnlyWhenLost ==
    \A j \in Jobs, c \in Candles : delivered[j][c] <= unlogged[j][c] + 1

(***************************************************************************)
(* A row that claims its message was sent tells the truth.                 *)
(***************************************************************************)
SentRowsWereDelivered ==
    \A row \in signal_logs : row.telegram_sent => delivered[row.job][row.timestamp] > 0

(***************************************************************************)
(* Once a strategy is paused or deleted, each of its jobs sends at most    *)
(* one more message: the one of the evaluation that was already under way. *)
(***************************************************************************)
AtMostOneLateSignal == \A j \in Jobs : late[j] <= 1

(* The rows of signal_logs keep the promise of SignalLedger.               *)
Ledger == INSTANCE SignalLedger
    WITH watermark <- [j \in Jobs |-> jobs[j].last_run_at], ledger <- signal_logs

LedgerSpec == Ledger!LedgerSpec

SignalLoggedOnce == Ledger!OneRowPerCandle

(***************************************************************************)
(* The inductive invariant behind the four properties above.               *)
(***************************************************************************)
UnusedNeverRun == \A j \in UnusedJobs : jobs[j].last_run_at = 0

(* A row is never about a candle past its job's last_run_at, and the       *)
(* candle being committed always is.                                       *)
Watermarked == \A row \in signal_logs : row.timestamp <= jobs[row.job].last_run_at
PastWatermark == pc = "committing" => evaluation.candle > jobs[job].last_run_at

Numbered == \A row \in signal_logs : row.id <= Cardinality(signal_logs)

(* The messages about a candle: the lost ones, and one more once the       *)
(* candle is evaluated or while its commit is awaited.                     *)
InFlight(j, c) == pc = "committing" /\ job = j /\ evaluation.candle = c /\ evaluation.signal
Accounted(j, c) ==
    IF c <= jobs[j].last_run_at \/ InFlight(j, c)
    THEN delivered[j][c] <= unlogged[j][c] + 1
    ELSE delivered[j][c] <= unlogged[j][c]
DeliveriesAccounted == \A j \in Jobs, c \in Candles : Accounted(j, c)

SentInFlight ==
    pc = "committing" /\ evaluation.signal /\ evaluation.sent
        => delivered[job][evaluation.candle] > 0

IInv ==
    /\ UnusedNeverRun
    /\ Watermarked
    /\ PastWatermark
    /\ Numbered
    /\ DeliveriesAccounted
    /\ SentInFlight
    /\ SentRowsWereDelivered

(***************************************************************************)
(* The inductive invariant behind AtMostOneLateSignal: a job that has sent *)
(* its late message is one of an inactive strategy, and the session no     *)
(* longer holds an active copy of that strategy once the commit is over.   *)
(***************************************************************************)
ThreadJobsAreInserted ==
    /\ \A j \in pending : jobs[j].life # "unused"
    /\ job \in Jobs => jobs[job].life # "unused"

FetchesForItsStrategy ==
    pc = "fetching" => strategy.is_active /\ strategy.id = jobs[job].user_strategy_id

LateIsOver ==
    \A j \in Jobs : late[j] # 0 =>
        /\ late[j] = 1
        /\ jobs[j].life # "unused"
        /\ Inactive(jobs[j].user_strategy_id)
        /\ strategy.is_active /\ strategy.id = jobs[j].user_strategy_id => pc = "committing"

LateInv == ThreadJobsAreInserted /\ FetchesForItsStrategy /\ LateIsOver

(* portfolio.py and monitor.py look for a job before they insert one: a    *)
(* strategy has one job at most, as long as requests come one at a time.   *)
OneJobPerStrategy ==
    \A j, k \in LiveJobs : jobs[j].user_strategy_id = jobs[k].user_strategy_id => j = k

(* The requests that look for the job of a strategy and insert one when    *)
(* they have found none: two of them on one strategy do not meet.          *)
Inserts(r) == requests[r].op \in {"toggle", "create_job"}

InsertsApart ==
    \A q, r \in Requests :
        Inserts(q) /\ Inserts(r) /\ requests[q].strategy = requests[r].strategy => q = r

(* What such a request did not find when it looked is still not there.     *)
NoneFoundIsNone ==
    \A r \in Requests :
        Inserts(r) /\ requests[r].job = NoJob => JobsOf(requests[r].strategy) = {}

(***************************************************************************)
(* A candle that closes while a running job of an active strategy watches  *)
(* its feed is evaluated, unless the job or its strategy is stopped,       *)
(* paused, moved to another feed or deleted first: failures, aborted       *)
(* rounds, crashes and the other jobs only delay it.                       *)
(***************************************************************************)
Waits(j, c) ==
    /\ j \in LiveJobs
    /\ jobs[j].status = "running"
    /\ ~Inactive(jobs[j].user_strategy_id)
    /\ clock[strategies[jobs[j].user_strategy_id].feed] >= c
    /\ jobs[j].last_run_at < c

EveryCandleIsEvaluated ==
    \A j \in Jobs, c \in Candles : Waits(j, c) ~> ~Waits(j, c)

-----------------------------------------------------------------------------
(***************************************************************************)
(* What the documents say and the code does not do.                        *)
(***************************************************************************)

(* docs/v3-modulo-6-monitor-alertas.md:28: a job is stopped after three    *)
(* failures in a row.  A poll of a candle already evaluated leaves         *)
(* error_count as it is, so failures hours apart add up.                   *)
StoppedAfterConsecutiveFailures ==
    \A j \in LiveJobs : jobs[j].status = "stopped" => streak[j] >= ErrorLimit

(* docs/v3-modulo-6-monitor-alertas.md:109: pausing a strategy stops its   *)
(* job at once.  An evaluation under way still sends its message.          *)
PausedJobIsSilent == \A j \in Jobs : late[j] = 0

(* docs/v3-modulo-5-portafolio.md:113: the monitor watches the strategies  *)
(* with is_active.  PUT activates a strategy without a job.                *)
ActiveStrategyIsWatched ==
    \A s \in LiveStrategies : strategies[s].is_active => JobsOf(s) # {}

(* docs/v3-modulo-6-monitor-alertas.md:56: the candle's timestamp is       *)
(* compared with the last one evaluated to avoid duplicated signals.  The  *)
(* comparison is per job, and two requests give a strategy two jobs.       *)
OneSignalPerStrategyAndCandle ==
    \A a, b \in signal_logs :
        /\ jobs[a.job].user_strategy_id = jobs[b.job].user_strategy_id
        /\ a.timestamp = b.timestamp
        => a = b

(* docs/v3-modulo-6-monitor-alertas.md:34: a message Telegram refuses is   *)
(* tried again and kept in a queue until it is sent.  It is sent once.     *)
UnsentSignalIsSent ==
    \A j \in Jobs, c \in Candles :
        (\E row \in signal_logs : row.job = j /\ row.timestamp = c /\ ~row.telegram_sent)
            ~> delivered[j][c] > 0
=============================================================================

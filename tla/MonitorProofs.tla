---------------------------- MODULE MonitorProofs ----------------------------
(***************************************************************************)
(* Theorems about Monitor for every set of strategies, jobs, feeds and     *)
(* requests, and every bound.                                              *)
(***************************************************************************)
EXTENDS Monitor, FiniteSetTheorems, TLAPS

LEMMA ConstantRows ==
    /\ NoRow \in JobRow
    /\ NoView \in [id: Strategies \cup {NoStrategy}, is_active: BOOLEAN, feed: Feeds]
    /\ NoEvaluation \in [candle: Times, signal: BOOLEAN, sent: BOOLEAN]
    /\ Idle \in RequestRecord
    /\ \A s \in Strategies : NewJob(s) \in JobRow
<1>1. (CHOOSE f \in Feeds : TRUE) \in Feeds
  BY ConstantsAssumption
<1>2. 0 \in Times
  BY ConstantsAssumption DEF Times
<1> QED
  BY <1>1, <1>2 DEF NoRow, NoView, NoEvaluation, Idle, NewJob, JobRow, StrategyRow,
                    RequestRecord, Lives

LEMMA RequestFields ==
    ASSUME NEW q \in RequestRecord
    PROVE  /\ q.oldJob \in JobRow /\ q.old \in StrategyRow /\ q.new \in StrategyRow
           /\ q.op # "idle" => q.strategy \in Strategies
<1>1. (CHOOSE f \in Feeds : TRUE) \in Feeds
  BY ConstantsAssumption
<1>2. CASE q = Idle
  <2>1. q.oldJob = NoRow /\ q.op = "idle"
    BY <1>2 DEF Idle
  <2>2. /\ q.old = [life |-> "unused", is_active |-> FALSE, feed |-> NoView.feed]
        /\ q.new = q.old
    BY <1>2 DEF Idle
  <2>3. NoView.feed \in Feeds
    BY <1>1 DEF NoView
  <2> QED
    BY <2>1, <2>2, <2>3, ConstantRows DEF StrategyRow, Lives
<1>3. CASE q # Idle
  BY <1>3 DEF RequestRecord
<1> QED
  BY <1>2, <1>3

LEMMA InitTypes == Init => TypeOK
<1> SUFFICES ASSUME Init PROVE TypeOK
  OBVIOUS
<1>1. strategies \in [Strategies -> StrategyRow]
  BY DEF Init, StrategyRow, Lives
<1>2. clock \in [Feeds -> Candles]
  BY ConstantsAssumption DEF Init, Candles
<1>3. jobs \in [Jobs -> JobRow] /\ requests \in [Requests -> RequestRecord]
  BY ConstantRows DEF Init
<1>4. /\ delivered \in [Jobs -> [Candles -> Nat]]
      /\ unlogged \in [Jobs -> [Candles -> Nat]]
      /\ late \in [Jobs -> Nat] /\ streak \in [Jobs -> Nat]
      /\ {served, failures, faults} \subseteq Nat
  BY DEF Init
<1>5. ThreadOK /\ signal_logs \subseteq SignalRow
  BY ConstantRows DEF Init, ThreadOK
<1> QED
  BY <1>1, <1>2, <1>3, <1>4, <1>5, FS_EmptySet DEF Init, TypeOK, DatabaseOK, OutsideOK, ObservedOK, CountsOK

LEMMA SleepTypes == Sleep => ThreadOK'
BY ConstantRows DEF Sleep, ThreadOK

LEMMA NextJobTypes == TypeOK /\ (NextJob \/ NextJobExpired) => ThreadOK'
BY ConstantRows DEF NextJob, NextJobExpired, TypeOK, ThreadOK

LEMMA UpdateJobType ==
    ASSUME NEW row \in JobRow, NEW old \in JobRow, NEW new \in JobRow
    PROVE  UpdateJob(row, old, new) \in JobRow
BY DEF UpdateJob, JobRow

LEMMA UpdateStrategyType ==
    ASSUME NEW row \in StrategyRow, NEW old \in StrategyRow, NEW new \in StrategyRow
    PROVE  UpdateStrategy(row, old, new) \in StrategyRow
BY DEF UpdateStrategy, StrategyRow

LEMMA BlamedType == seen \in JobRow => Blamed \in JobRow
<1> SUFFICES ASSUME seen \in JobRow PROVE Blamed \in JobRow
  OBVIOUS
<1> DEFINE st == IF seen.error_count + 1 >= ErrorLimit THEN "stopped" ELSE seen.status
<1>1. st \in {"running", "paused", "stopped"} /\ seen.error_count + 1 \in Nat
  BY DEF JobRow
<1>2. Blamed = [seen EXCEPT !.error_count = seen.error_count + 1, !.status = st]
  BY DEF Blamed
<1> HIDE DEF st
<1> QED
  BY <1>1, <1>2 DEF JobRow

LEMMA ThreadKept == TypeOK /\ UNCHANGED thread => ThreadOK'
BY DEF TypeOK, ThreadOK, thread

LEMMA ForgetTypes == TypeOK /\ ForgetEvaluation => unlogged' \in [Jobs -> [Candles -> Nat]]
<1> SUFFICES ASSUME TypeOK, ForgetEvaluation
             PROVE  unlogged' \in [Jobs -> [Candles -> Nat]]
  OBVIOUS
<1> USE DEF TypeOK, ObservedOK, ThreadOK
<1>1. CASE pc = "committing" /\ evaluation.signal
  <2>1. job \in Jobs /\ evaluation.candle \in Candles
    BY <1>1
  <2>2. unlogged[job] \in [Candles -> Nat]
    BY <2>1
  <2>3. [unlogged[job] EXCEPT ![evaluation.candle] = @ + 1] \in [Candles -> Nat]
    BY <2>1, <2>2
  <2> QED
    BY <1>1, <2>1, <2>3 DEF ForgetEvaluation
<1>2. CASE ~(pc = "committing" /\ evaluation.signal)
  BY <1>2 DEF ForgetEvaluation
<1> QED
  BY <1>1, <1>2

LEMMA LiveIsJob == LiveJobs \subseteq Jobs /\ LiveStrategies \subseteq Strategies
BY DEF LiveJobs, LiveStrategies

LEMMA TaskManagerTypes == TypeOK /\ TaskManager => TypeOK'
<1> SUFFICES ASSUME TypeOK, TaskManager PROVE TypeOK'
  OBVIOUS
<1> USE DEF TypeOK
<1>1. CASE StartRound
  BY <1>1, LiveIsJob DEF StartRound, ThreadOK, DatabaseOK, ObservedOK, CountsOK, OutsideOK,
                         database, observed, counts
<1>2. CASE EndRound
  BY <1>2, SleepTypes DEF EndRound, DatabaseOK, ObservedOK, CountsOK, OutsideOK,
                          database, observed, counts
<1>3. ASSUME NEW j \in Jobs, PickJob(j) PROVE TypeOK'
  <2>1. ViewOf(jobs[j].user_strategy_id)
          \in [id: Strategies \cup {NoStrategy}, is_active: BOOLEAN, feed: Feeds]
    BY ConstantRows DEF ViewOf, ThreadOK, DatabaseOK, LiveStrategies, StrategyRow
  <2> QED
    BY <1>3, <2>1 DEF PickJob, ThreadOK, DatabaseOK, ObservedOK, CountsOK, OutsideOK,
                      database, observed, counts
<1>4. ASSUME NEW j \in Jobs, PickDeletedJob(j) PROVE TypeOK'
  BY <1>4, SleepTypes DEF PickDeletedJob, DatabaseOK, ObservedOK, CountsOK, OutsideOK,
                          database, observed, counts
<1>5. CASE Evaluate
  <2>0. ASSUME pc = "fetching"
        PROVE  /\ job \in Jobs
               /\ Fetched \in Candles
               /\ Fetched \in Times
    BY <2>0, ConstantsAssumption DEF Fetched, ThreadOK, OutsideOK, Candles, Times
  <2>1. CASE EvaluateNotReady
    BY <2>1, NextJobTypes DEF EvaluateNotReady, DatabaseOK, ObservedOK, CountsOK, OutsideOK,
                              database, observed, counts
  <2>2. CASE EvaluateOldCandle
    BY <2>2, <2>0, NextJobTypes DEF EvaluateOldCandle, DatabaseOK, ObservedOK, CountsOK,
                                    OutsideOK, database, counts
  <2>3. CASE EvaluateNoSignal
    BY <2>3, <2>0 DEF EvaluateNoSignal, ThreadOK, DatabaseOK, ObservedOK,
                      CountsOK, OutsideOK, database, counts
  <2>4. ASSUME NEW sent \in BOOLEAN, NEW arrives \in BOOLEAN, EvaluateSignal(sent, arrives)
        PROVE  TypeOK'
    <3>1. job \in Jobs /\ Fetched \in Candles /\ Fetched \in Times
      BY <2>4, <2>0 DEF EvaluateSignal
    <3>2. [delivered[job] EXCEPT ![Fetched] = @ + 1] \in [Candles -> Nat]
      BY <3>1 DEF ObservedOK
    <3>3. delivered' \in [Jobs -> [Candles -> Nat]]
      BY <2>4, <3>1, <3>2 DEF EvaluateSignal, ObservedOK
    <3> QED
      BY <2>4, <3>1, <3>3 DEF EvaluateSignal, ThreadOK, DatabaseOK, ObservedOK,
                              CountsOK, OutsideOK, database, counts
  <2>5. CASE EvaluateRaises
    BY <2>5, <2>0 DEF EvaluateRaises, ThreadOK, DatabaseOK, ObservedOK,
                      CountsOK, OutsideOK, database
  <2> QED
    BY <1>5, <2>1, <2>2, <2>3, <2>4, <2>5 DEF Evaluate
<1>6. CASE CommitEvaluation
  <2>1. job \in Jobs /\ evaluation.candle \in Times
    BY <1>6 DEF CommitEvaluation, ThreadOK
  <2>2. jobs' \in [Jobs -> JobRow]
    BY <1>6, <2>1 DEF CommitEvaluation, DatabaseOK, JobRow
  <2>3. signal_logs' \subseteq SignalRow
    <3>1. IsFiniteSet(signal_logs)
      BY DEF DatabaseOK
    <3>2. LoggedSignal \in SignalRow
      BY <1>6, <2>1, <3>1, FS_CardinalityType
         DEF CommitEvaluation, LoggedSignal, SignalRow, ThreadOK
    <3> QED
      BY <1>6, <3>2 DEF CommitEvaluation, DatabaseOK
  <2>4. IsFiniteSet(signal_logs')
    BY <1>6, FS_AddElement DEF CommitEvaluation, DatabaseOK
  <2> QED
    BY <1>6, <2>2, <2>3, <2>4, NextJobTypes DEF CommitEvaluation, DatabaseOK, ObservedOK, CountsOK,
                                          OutsideOK, observed, counts
<1>7. CASE CommitEvaluationFails
  <2>1. unlogged' \in [Jobs -> [Candles -> Nat]]
    BY <1>7, ForgetTypes DEF CommitEvaluationFails, ThreadOK
  <2> QED
    BY <1>7, <2>1, SleepTypes DEF CommitEvaluationFails, DatabaseOK, ObservedOK, CountsOK,
                                  OutsideOK, database
<1>8. CASE RollBack
  <2>1. CASE job \in LiveJobs
    BY <1>8, <2>1, LiveIsJob, ConstantRows
       DEF RollBack, ThreadOK, DatabaseOK, ObservedOK, CountsOK, OutsideOK,
           database, observed, counts
  <2>2. CASE job \notin LiveJobs
    BY <1>8, <2>2, SleepTypes DEF RollBack, DatabaseOK, ObservedOK, CountsOK, OutsideOK,
                                  database, observed, counts
  <2> QED
    BY <2>1, <2>2
<1>9. CASE CommitError
  <2>1. job \in Jobs /\ jobs[job] \in JobRow /\ Blamed \in JobRow
    BY <1>9, BlamedType DEF CommitError, LiveJobs, DatabaseOK, ThreadOK
  <2>2. UpdateJob(jobs[job], seen, Blamed) \in JobRow
    BY <2>1, UpdateJobType DEF ThreadOK
  <2>3. jobs' \in [Jobs -> JobRow]
    BY <1>9, <2>1, <2>2 DEF CommitError, DatabaseOK
  <2> QED
    BY <1>9, <2>3, NextJobTypes DEF CommitError, DatabaseOK, ObservedOK, CountsOK, OutsideOK,
                                    observed, counts
<1>10. CASE CommitErrorFails
  BY <1>10, SleepTypes DEF CommitErrorFails, DatabaseOK, ObservedOK, CountsOK, OutsideOK,
                           database, observed
<1> QED
  BY <1>1, <1>2, <1>3, <1>4, <1>5, <1>6, <1>7, <1>8, <1>9, <1>10 DEF TaskManager

LEMMA BeginTypes ==
    ASSUME TypeOK, NEW r \in Requests, NEW s \in Strategies, NEW j \in Jobs \cup {NoJob},
           NEW op \in {"toggle", "create_job", "delete"}, NEW new \in StrategyRow,
           Begin(r, op, s, j, new)
    PROVE  TypeOK'
<1> USE DEF TypeOK
<1> DEFINE q == [op |-> op, strategy |-> s, job |-> j,
                 oldJob |-> IF j = NoJob THEN NoRow ELSE jobs[j],
                 old |-> strategies[s], new |-> new]
<1>1. q \in RequestRecord
  BY ConstantRows DEF RequestRecord, DatabaseOK
<1>2. requests' = [requests EXCEPT ![r] = q]
  BY DEF Begin
<1> HIDE DEF q
<1>3. requests' \in [Requests -> RequestRecord]
  BY <1>1, <1>2 DEF OutsideOK
<1>4. ThreadOK'
  BY ThreadKept DEF Begin
<1> QED
  BY <1>3, <1>4 DEF Begin, DatabaseOK, OutsideOK, ObservedOK, CountsOK, database, observed

LEMMA FinishTypes ==
    ASSUME TypeOK, NEW r \in Requests, Finish(r)
    PROVE  requests' \in [Requests -> RequestRecord]
BY ConstantRows DEF TypeOK, OutsideOK, Finish

LEMMA SaveStrategyTypes ==
    ASSUME TypeOK, NEW q \in RequestRecord, SaveStrategy(q), q.strategy \in Strategies
    PROVE  /\ strategies' \in [Strategies -> StrategyRow]
           /\ late' \in [Jobs -> Nat]
<1>1. UpdateStrategy(strategies[q.strategy], q.old, q.new) \in StrategyRow
  BY UpdateStrategyType, RequestFields DEF TypeOK, DatabaseOK
<1>2. strategies' \in [Strategies -> StrategyRow]
  BY <1>1 DEF SaveStrategy, TypeOK, DatabaseOK
<1>3. late' \in [Jobs -> Nat]
  BY DEF SaveStrategy, TypeOK, ObservedOK
<1> QED
  BY <1>2, <1>3

LEMMA RestartTypes ==
    ASSUME NEW row \in JobRow
    PROVE  Restarted(row) \in JobRow /\ Paused(row) \in JobRow
BY DEF Restarted, Paused, JobRow

LEMMA SaveJobTypes ==
    ASSUME TypeOK, NEW q \in RequestRecord, NEW new \in JobRow, SaveJob(q, new)
    PROVE  jobs' \in [Jobs -> JobRow]
<1>1. CASE q.oldJob = new \/ q.job \notin LiveJobs
  BY <1>1 DEF SaveJob, TypeOK, DatabaseOK
<1>2. CASE ~(q.oldJob = new \/ q.job \notin LiveJobs)
  <2>1. q.job \in Jobs
    BY <1>2, LiveIsJob
  <2>2. UpdateJob(jobs[q.job], q.oldJob, new) \in JobRow
    BY <2>1, UpdateJobType, RequestFields DEF TypeOK, DatabaseOK
  <2> QED
    BY <1>2, <2>1, <2>2 DEF SaveJob, TypeOK, DatabaseOK
<1> QED
  BY <1>1, <1>2

LEMMA InsertJobTypes ==
    ASSUME TypeOK, NEW s \in Strategies, InsertJob(s)
    PROVE  jobs' \in [Jobs -> JobRow]
BY ConstantRows DEF InsertJob, UnusedJobs, TypeOK, DatabaseOK

LEMMA WebTypes == TypeOK /\ Web => TypeOK'
<1> SUFFICES ASSUME TypeOK, Web PROVE TypeOK'
  OBVIOUS
<1> USE DEF TypeOK
<1>1. ASSUME NEW r \in Requests, NEW s \in Strategies, NEW j \in Jobs \cup {NoJob},
             BeginToggle(r, s, j) \/ BeginCreateJob(r, s, j) \/ BeginDelete(r, s, j)
      PROVE  TypeOK'
  <2>1. strategies[s] \in StrategyRow
    BY DEF DatabaseOK
  <2>2. [strategies[s] EXCEPT !.is_active = ~strategies[s].is_active] \in StrategyRow
    BY <2>1 DEF StrategyRow
  <2> QED
    BY <1>1, <2>1, <2>2, BeginTypes DEF BeginToggle, BeginCreateJob, BeginDelete
<1>2. ASSUME NEW r \in Requests, NEW s \in Strategies, NEW active \in BOOLEAN, NEW f \in Feeds,
             BeginUpdate(r, s, active, f)
      PROVE  TypeOK'
  <2> DEFINE new == [strategies[s] EXCEPT !.is_active = active, !.feed = f]
  <2> DEFINE q == [op |-> "update", strategy |-> s, job |-> NoJob, oldJob |-> NoRow,
                   old |-> strategies[s], new |-> new]
  <2>1. strategies[s] \in StrategyRow /\ new \in StrategyRow
    BY DEF DatabaseOK, StrategyRow
  <2> HIDE DEF new
  <2>2. q \in RequestRecord
    BY <2>1, ConstantRows DEF RequestRecord
  <2>3. requests' = [requests EXCEPT ![r] = q]
    BY <1>2 DEF BeginUpdate, new
  <2> HIDE DEF q
  <2>4. requests' \in [Requests -> RequestRecord]
    BY <2>2, <2>3 DEF OutsideOK
  <2>5. ThreadOK'
    BY <1>2, ThreadKept DEF BeginUpdate
  <2> QED
    BY <1>2, <2>4, <2>5 DEF BeginUpdate, DatabaseOK, OutsideOK, ObservedOK, CountsOK,
                            database, observed
<1>3. ASSUME NEW r \in Requests,
             \/ FinishToggle(r) \/ FinishCreateJob(r) \/ FinishUpdate(r)
             \/ FinishDelete(r) \/ FinishFails(r)
      PROVE  TypeOK'
  <2> DEFINE q == requests[r]
  <2>1. q \in RequestRecord
    BY DEF OutsideOK
  <2>2. requests' \in [Requests -> RequestRecord]
    BY <1>3, FinishTypes DEF FinishToggle, FinishCreateJob, FinishUpdate, FinishDelete,
                             FinishFails
  <2>3. ThreadOK'
    BY <1>3, ThreadKept DEF FinishToggle, FinishCreateJob, FinishUpdate, FinishDelete,
                            FinishFails
  <2>4. q.oldJob \in JobRow
    BY <2>1, RequestFields
  <2>5. Restarted(q.oldJob) \in JobRow /\ Paused(q.oldJob) \in JobRow
    BY <2>4, RestartTypes
  <2> HIDE DEF q
  <2>6. CASE FinishToggle(r)
    <3>1. q.strategy \in Strategies
      BY <2>6, LiveIsJob DEF FinishToggle, q
    <3>2. strategies' \in [Strategies -> StrategyRow] /\ late' \in [Jobs -> Nat]
      BY <2>6, <2>1, <3>1, SaveStrategyTypes DEF FinishToggle, q
    <3>3. jobs' \in [Jobs -> JobRow]
      BY <2>6, <2>1, <2>5, <3>1, SaveJobTypes, InsertJobTypes DEF FinishToggle, q, DatabaseOK
    <3> QED
      BY <2>2, <2>3, <2>6, <3>2, <3>3
         DEF FinishToggle, DatabaseOK, OutsideOK, ObservedOK, CountsOK, counts
  <2>7. CASE FinishCreateJob(r)
    <3>1. q.strategy \in Strategies
      BY <2>1, <2>7, RequestFields DEF FinishCreateJob, q
    <3>3. jobs' \in [Jobs -> JobRow]
      BY <2>7, <2>1, <2>5, <3>1, SaveJobTypes, InsertJobTypes DEF FinishCreateJob, q
    <3> QED
      BY <2>2, <2>3, <2>7, <3>3
         DEF FinishCreateJob, DatabaseOK, OutsideOK, ObservedOK, CountsOK, counts, observed
  <2>8. CASE FinishUpdate(r)
    <3>1. q.strategy \in Strategies
      BY <2>8, LiveIsJob DEF FinishUpdate, q
    <3>2. strategies' \in [Strategies -> StrategyRow] /\ late' \in [Jobs -> Nat]
      BY <2>8, <2>1, <3>1, SaveStrategyTypes DEF FinishUpdate, q
    <3> QED
      BY <2>2, <2>3, <2>8, <3>2
         DEF FinishUpdate, DatabaseOK, OutsideOK, ObservedOK, CountsOK, counts
  <2>9. CASE FinishDelete(r)
    <3>1. strategies' \in [Strategies -> StrategyRow]
      BY <2>9 DEF FinishDelete, DatabaseOK, StrategyRow, Lives
    <3>2. jobs' \in [Jobs -> JobRow]
      BY <2>9 DEF FinishDelete, DatabaseOK, JobRow, Lives
    <3> QED
      BY <2>2, <2>3, <2>9, <3>1, <3>2
         DEF FinishDelete, DatabaseOK, OutsideOK, ObservedOK, CountsOK, counts, observed
  <2>10. CASE FinishFails(r)
    BY <2>2, <2>3, <2>10
       DEF FinishFails, DatabaseOK, OutsideOK, ObservedOK, CountsOK, counts, observed, database
  <2> QED
    BY <1>3, <2>6, <2>7, <2>8, <2>9, <2>10
<1>4. ASSUME NEW s \in Strategies, NEW f \in Feeds, CreateStrategy(s, f) PROVE TypeOK'
  <2>1. strategies' \in [Strategies -> StrategyRow]
    BY <1>4 DEF CreateStrategy, DatabaseOK, StrategyRow, Lives
  <2>2. ThreadOK'
    BY <1>4, ThreadKept DEF CreateStrategy
  <2> QED
    BY <1>4, <2>1, <2>2 DEF CreateStrategy, DatabaseOK, OutsideOK, ObservedOK, CountsOK,
                            counts, observed
<1> QED
  BY <1>1, <1>2, <1>3, <1>4 DEF Web

LEMMA NextTypes == TypeOK /\ [Next]_vars => TypeOK'
<1> SUFFICES ASSUME TypeOK, [Next]_vars PROVE TypeOK'
  OBVIOUS
<1> USE DEF TypeOK
<1>1. ASSUME NEW f \in Feeds, CloseCandle(f) PROVE TypeOK'
  <2>1. clock' \in [Feeds -> Candles]
    BY <1>1, ConstantsAssumption DEF CloseCandle, OutsideOK, Candles
  <2>2. ThreadOK'
    BY <1>1, ThreadKept DEF CloseCandle
  <2> QED
    BY <1>1, <2>1, <2>2 DEF CloseCandle, DatabaseOK, OutsideOK, ObservedOK, CountsOK,
                            database, counts, observed
<1>2. CASE Crash
  BY <1>2, SleepTypes, ForgetTypes, ConstantRows
     DEF Crash, DatabaseOK, OutsideOK, ObservedOK, CountsOK, database
<1>3. CASE UNCHANGED vars
  BY <1>3, ThreadKept DEF vars, DatabaseOK, OutsideOK, ObservedOK, CountsOK, database,
                          counts, observed
<1> QED
  BY <1>1, <1>2, <1>3, TaskManagerTypes, WebTypes DEF Next

(* Every variable keeps its type.                                          *)
THEOREM TypeCorrect == Spec => []TypeOK
<1>1. Init => TypeOK
  BY InitTypes
<1>2. TypeOK /\ [Next]_vars => TypeOK'
  BY NextTypes
<1> QED
  BY <1>1, <1>2, PTL DEF Spec

-----------------------------------------------------------------------------
(* Only the commit of an evaluation moves a watermark or logs a signal.    *)
LedgerKept ==
    /\ signal_logs' = signal_logs
    /\ \A j \in Jobs : jobs'[j].last_run_at = jobs[j].last_run_at

LEMMA UpdateKeepsRun ==
    ASSUME NEW row \in JobRow, NEW old \in JobRow, NEW new \in JobRow
    PROVE  /\ UpdateJob(row, old, new).last_run_at = row.last_run_at
           /\ UpdateJob(row, old, new).life = row.life
           /\ UpdateJob(row, old, new).user_strategy_id = row.user_strategy_id
BY DEF UpdateJob, JobRow

LEMMA SaveJobKeeps ==
    ASSUME TypeOK, NEW q \in RequestRecord, NEW new \in JobRow, SaveJob(q, new)
    PROVE  \A j \in Jobs : /\ jobs'[j].last_run_at = jobs[j].last_run_at
                           /\ jobs'[j].life = jobs[j].life
                           /\ jobs'[j].user_strategy_id = jobs[j].user_strategy_id
<1>1. CASE q.oldJob = new \/ q.job \notin LiveJobs
  BY <1>1 DEF SaveJob
<1>2. CASE ~(q.oldJob = new \/ q.job \notin LiveJobs)
  <2>1. q.job \in Jobs
    BY <1>2, LiveIsJob
  <2>2. jobs[q.job] \in JobRow
    BY <2>1 DEF TypeOK, DatabaseOK
  <2>3. UpdateJob(jobs[q.job], q.oldJob, new).last_run_at = jobs[q.job].last_run_at
    BY <2>2, UpdateKeepsRun, RequestFields
  <2>4. UpdateJob(jobs[q.job], q.oldJob, new).life = jobs[q.job].life
    BY <2>2, UpdateKeepsRun, RequestFields
  <2>5. UpdateJob(jobs[q.job], q.oldJob, new).user_strategy_id = jobs[q.job].user_strategy_id
    BY <2>2, UpdateKeepsRun, RequestFields
  <2>6. jobs' = [jobs EXCEPT ![q.job] = UpdateJob(jobs[q.job], q.oldJob, new)]
    BY <1>2 DEF SaveJob
  <2> QED
    BY <2>1, <2>3, <2>4, <2>5, <2>6 DEF TypeOK, DatabaseOK
<1> QED
  BY <1>1, <1>2

LEMMA InsertJobKeeps ==
    ASSUME TypeOK, UnusedNeverRun, NEW s, InsertJob(s)
    PROVE  \A j \in Jobs : /\ jobs'[j].last_run_at = jobs[j].last_run_at
                           /\ jobs'[j].life = "unused" => jobs[j].life = "unused"
                           /\ jobs[j].life # "unused" =>
                                 jobs'[j].user_strategy_id = jobs[j].user_strategy_id
BY DEF InsertJob, UnusedJobs, UnusedNeverRun, NewJob, TypeOK, DatabaseOK

(* The rows of monitor_jobs after a step, whoever takes it.                *)
JobsKept ==
    \A j \in Jobs : /\ jobs'[j].last_run_at = jobs[j].last_run_at
                    /\ jobs'[j].life = "unused" => jobs[j].life = "unused"
                    /\ jobs[j].life # "unused" =>
                          jobs'[j].user_strategy_id = jobs[j].user_strategy_id

LEMMA RequestKeeps ==
    ASSUME TypeOK, UnusedNeverRun, NEW r \in Requests,
           FinishToggle(r) \/ FinishCreateJob(r) \/ FinishDelete(r)
    PROVE  JobsKept
<1> DEFINE q == requests[r]
<1>1. q \in RequestRecord
  BY DEF TypeOK, OutsideOK
<1>2. Restarted(q.oldJob) \in JobRow /\ Paused(q.oldJob) \in JobRow
  BY <1>1, RequestFields, RestartTypes
<1> HIDE DEF q
<1>3. CASE FinishToggle(r)
  <2>1. CASE UNCHANGED jobs
    BY <2>1 DEF JobsKept
  <2>2. CASE InsertJob(q.strategy)
    BY <2>2, InsertJobKeeps DEF JobsKept
  <2>3. CASE SaveJob(q, Restarted(q.oldJob)) \/ SaveJob(q, Paused(q.oldJob))
    BY <2>3, <1>1, <1>2, SaveJobKeeps DEF JobsKept
  <2> QED
    BY <1>3, <2>1, <2>2, <2>3 DEF FinishToggle, q
<1>4. CASE FinishCreateJob(r)
  <2>1. CASE InsertJob(q.strategy)
    BY <2>1, InsertJobKeeps DEF JobsKept
  <2>2. CASE SaveJob(q, Restarted(q.oldJob))
    BY <2>2, <1>1, <1>2, SaveJobKeeps DEF JobsKept
  <2> QED
    BY <1>4, <2>1, <2>2 DEF FinishCreateJob, q
<1>5. CASE FinishDelete(r)
  BY <1>5 DEF FinishDelete, JobsKept, TypeOK, DatabaseOK, JobRow
<1> QED
  BY <1>3, <1>4, <1>5

LEMMA ErrorKeeps == ASSUME TypeOK, CommitError PROVE JobsKept
<1>1. job \in Jobs /\ jobs[job] \in JobRow /\ Blamed \in JobRow /\ seen \in JobRow
  BY BlamedType DEF CommitError, LiveJobs, TypeOK, DatabaseOK, ThreadOK
<1>2. /\ UpdateJob(jobs[job], seen, Blamed).last_run_at = jobs[job].last_run_at
      /\ UpdateJob(jobs[job], seen, Blamed).life = jobs[job].life
      /\ UpdateJob(jobs[job], seen, Blamed).user_strategy_id = jobs[job].user_strategy_id
  BY <1>1, UpdateKeepsRun
<1> QED
  BY <1>1, <1>2 DEF CommitError, JobsKept, TypeOK, DatabaseOK

LEMMA JobsKeptByStep ==
    ASSUME TypeOK, UnusedNeverRun, [Next]_vars, ~CommitEvaluation
    PROVE  JobsKept /\ signal_logs' = signal_logs
<1>1. CASE TaskManager
  <2>1. CASE CommitError
    BY <2>1, ErrorKeeps DEF CommitError
  <2>2. CASE ~CommitError
    <3>1. UNCHANGED database
      BY <1>1, <2>2 DEF TaskManager, StartRound, EndRound, PickJob, PickDeletedJob, Evaluate,
            EvaluateNotReady, EvaluateOldCandle, EvaluateNoSignal, EvaluateSignal,
            EvaluateRaises, CommitEvaluationFails, RollBack, CommitErrorFails
    <3> QED
      BY <3>1 DEF database, JobsKept
  <2> QED
    BY <2>1, <2>2
<1>2. CASE Web
  <2>1. ASSUME NEW r \in Requests, FinishToggle(r) \/ FinishCreateJob(r) \/ FinishDelete(r)
        PROVE  JobsKept /\ signal_logs' = signal_logs
    BY <2>1, RequestKeeps DEF FinishToggle, FinishCreateJob, FinishDelete
  <2>2. CASE ~\E r \in Requests : FinishToggle(r) \/ FinishCreateJob(r) \/ FinishDelete(r)
    <3>1. UNCHANGED jobs /\ UNCHANGED signal_logs
      BY <1>2, <2>2 DEF Web, BeginToggle, BeginCreateJob, BeginDelete, Begin, BeginUpdate,
            FinishUpdate, FinishFails, CreateStrategy, database
    <3> QED
      BY <3>1 DEF JobsKept
  <2> QED
    BY <2>1, <2>2
<1>3. CASE (\E f \in Feeds : CloseCandle(f)) \/ Crash \/ UNCHANGED vars
  BY <1>3 DEF CloseCandle, Crash, vars, database, JobsKept
<1> QED
  BY <1>1, <1>2, <1>3 DEF Next

(* What the commit of an evaluation does to the ledger.                    *)
LEMMA CommitFacts ==
    ASSUME TypeOK, CommitEvaluation
    PROVE  /\ job \in Jobs
           /\ evaluation.candle \in Candles
           /\ jobs[job] \in JobRow
           /\ jobs[job].life = "live"
           /\ jobs'[job].last_run_at = evaluation.candle
           /\ jobs'[job].life = "live"
           /\ jobs'[job].user_strategy_id = jobs[job].user_strategy_id
           /\ \A j \in Jobs \ {job} : jobs'[j] = jobs[j]
BY DEF CommitEvaluation, TypeOK, DatabaseOK, ThreadOK, LiveJobs, JobRow

LEMMA NewRowIsNew ==
    ASSUME TypeOK, Numbered
    PROVE  /\ Cardinality(signal_logs) \in Nat
           /\ \A row \in signal_logs : row.id # LoggedSignal.id
           /\ Cardinality(signal_logs \cup {LoggedSignal}) = Cardinality(signal_logs) + 1
<1>1. IsFiniteSet(signal_logs) /\ Cardinality(signal_logs) \in Nat
  BY FS_CardinalityType DEF TypeOK, DatabaseOK
<1>2. LoggedSignal.id = Cardinality(signal_logs) + 1
  BY DEF LoggedSignal
<1>3. \A row \in signal_logs : row.id # LoggedSignal.id
  BY <1>1, <1>2 DEF Numbered, TypeOK, DatabaseOK, SignalRow
<1>4. LoggedSignal \notin signal_logs
  BY <1>3
<1> QED
  BY <1>1, <1>3, <1>4, FS_AddElement

LEMMA LedgerStep ==
    TypeOK /\ UnusedNeverRun /\ Watermarked /\ PastWatermark /\ Numbered /\ [Next]_vars
        => UnusedNeverRun' /\ Watermarked' /\ Numbered'
<1> SUFFICES ASSUME TypeOK, UnusedNeverRun, Watermarked, PastWatermark, Numbered, [Next]_vars
             PROVE  UnusedNeverRun' /\ Watermarked' /\ Numbered'
  OBVIOUS
<1>1. CASE CommitEvaluation
  <2>1. UnusedNeverRun'
    BY <1>1, CommitFacts DEF UnusedNeverRun, UnusedJobs
  <2>2. \A j \in Jobs : jobs[j].last_run_at \in Nat /\ jobs[j].last_run_at <= jobs'[j].last_run_at
    BY <1>1, CommitFacts DEF PastWatermark, CommitEvaluation, TypeOK, DatabaseOK, ThreadOK,
                             JobRow, Times, Candles
  <2>3. Watermarked'
    <3> SUFFICES ASSUME NEW row \in signal_logs'
                 PROVE  row.timestamp <= jobs'[row.job].last_run_at
      BY DEF Watermarked
    <3>1. CASE row \in signal_logs
      <4>1. row.job \in Jobs /\ row.timestamp \in Nat
        BY <3>1 DEF TypeOK, DatabaseOK, SignalRow, Candles
      <4>2. jobs[row.job].last_run_at \in Nat /\ jobs'[row.job].last_run_at \in Nat
        BY <4>1, NextTypes DEF TypeOK, DatabaseOK, JobRow, Times
      <4> QED
        BY <3>1, <4>1, <4>2, <2>2 DEF Watermarked
    <3>2. CASE row = LoggedSignal
      <4>1. row.job = job /\ row.timestamp = evaluation.candle
        BY <3>2 DEF LoggedSignal
      <4> QED
        BY <1>1, <4>1, CommitFacts DEF Candles
    <3> QED
      BY <1>1, <3>1, <3>2 DEF CommitEvaluation
  <2>4. Numbered'
    BY <1>1, NewRowIsNew DEF CommitEvaluation, Numbered, LoggedSignal, TypeOK, DatabaseOK,
                             SignalRow
  <2> QED
    BY <2>1, <2>3, <2>4
<1>2. CASE ~CommitEvaluation
  <2>1. JobsKept /\ signal_logs' = signal_logs
    BY <1>2, JobsKeptByStep
  <2>2. \A row \in signal_logs : row.job \in Jobs
    BY DEF TypeOK, DatabaseOK, SignalRow
  <2> QED
    BY <2>1, <2>2 DEF JobsKept, UnusedNeverRun, UnusedJobs, Watermarked, Numbered
<1> QED
  BY <1>1, <1>2

LEMMA WatermarkStep ==
    ASSUME TypeOK, UnusedNeverRun, PastWatermark, [Next]_vars
    PROVE  PastWatermark'
<1>1. CASE EvaluateNoSignal \/ \E sent, arrives \in BOOLEAN : EvaluateSignal(sent, arrives)
  <2>1. /\ ~AlreadyEvaluated /\ job' = job /\ evaluation'.candle = Fetched
        /\ jobs' = jobs /\ pc = "fetching"
    BY <1>1 DEF EvaluateNoSignal, EvaluateSignal, database
  <2>2. job \in Jobs /\ Fetched \in Nat /\ jobs[job].last_run_at \in Nat
    BY <2>1 DEF TypeOK, ThreadOK, DatabaseOK, OutsideOK, Fetched, JobRow, Times, Candles
  <2> QED
    BY <2>1, <2>2 DEF PastWatermark, AlreadyEvaluated
<1>2. CASE /\ pc' = "committing" => pc = "committing" /\ job' = job /\ evaluation' = evaluation
           /\ ~CommitEvaluation
  <2>1. JobsKept
    BY <1>2, JobsKeptByStep
  <2> QED
    BY <1>2, <2>1 DEF PastWatermark, JobsKept, TypeOK, ThreadOK
<1>3. CASE CommitEvaluation
  BY <1>3 DEF CommitEvaluation, NextJobExpired, PastWatermark
<1> QED
  BY <1>1, <1>2, <1>3
     DEF Next, TaskManager, StartRound, EndRound, PickJob, PickDeletedJob, Evaluate,
         EvaluateNotReady, EvaluateOldCandle, EvaluateRaises, CommitEvaluationFails,
         RollBack, CommitError, CommitErrorFails, Sleep, NextJob, NextJobExpired,
         Web, BeginToggle, BeginCreateJob, BeginDelete, Begin, BeginUpdate, FinishToggle,
         FinishCreateJob, FinishUpdate, FinishDelete, FinishFails, CreateStrategy,
         CloseCandle, Crash, vars, thread

(* The steps that neither send, nor commit or lose an evaluation.          *)
LEMMA QuietStep ==
    ASSUME TypeOK, [Next]_vars, ~CommitEvaluation, ~CommitEvaluationFails, ~Crash,
           ~\E sent, arrives \in BOOLEAN : EvaluateSignal(sent, arrives)
    PROVE  /\ UNCHANGED <<delivered, unlogged>>
           /\ \/ pc # "committing" /\ pc' # "committing"
              \/ pc # "committing" /\ ~evaluation'.signal
              \/ UNCHANGED <<pc, job, evaluation>>
<1>1. CASE TaskManager
  <2>1. CASE StartRound \/ EndRound \/ (\E j \in Jobs : PickJob(j) \/ PickDeletedJob(j))
    BY <2>1 DEF StartRound, EndRound, PickJob, PickDeletedJob, Sleep, observed
  <2>2. CASE EvaluateNotReady \/ EvaluateOldCandle \/ EvaluateRaises
    BY <2>2 DEF EvaluateNotReady, EvaluateOldCandle, EvaluateRaises, NextJob, observed
  <2>3. CASE EvaluateNoSignal
    BY <2>3 DEF EvaluateNoSignal
  <2>4. CASE RollBack \/ CommitError \/ CommitErrorFails
    BY <2>4 DEF RollBack, CommitError, CommitErrorFails, Sleep, NextJobExpired, observed
  <2> QED
    BY <1>1, <2>1, <2>2, <2>3, <2>4 DEF TaskManager, Evaluate
<1>2. CASE Web
  <2>1. UNCHANGED <<delivered, unlogged>> /\ UNCHANGED thread
    BY <1>2 DEF Web, BeginToggle, BeginCreateJob, BeginDelete, Begin, BeginUpdate, FinishToggle,
           FinishCreateJob, FinishUpdate, FinishDelete, FinishFails, CreateStrategy, observed
  <2> QED
    BY <2>1 DEF thread
<1>3. CASE (\E f \in Feeds : CloseCandle(f)) \/ UNCHANGED vars
  BY <1>3 DEF CloseCandle, vars, thread, observed
<1> QED
  BY <1>1, <1>2, <1>3 DEF Next

LEMMA SignalFacts ==
    ASSUME TypeOK, NEW sent \in BOOLEAN, NEW arrives \in BOOLEAN, EvaluateSignal(sent, arrives)
    PROVE  /\ job \in Jobs /\ Fetched \in Candles /\ job' = job
           /\ pc = "fetching" /\ pc' = "committing"
           /\ evaluation' = [candle |-> Fetched, signal |-> TRUE, sent |-> sent]
           /\ UNCHANGED <<jobs, unlogged, signal_logs>>
           /\ ~(Fetched <= jobs[job].last_run_at)
           /\ \A j \in Jobs, c \in Candles :
                 delivered'[j][c] = IF arrives /\ j = job /\ c = Fetched
                                    THEN delivered[j][c] + 1 ELSE delivered[j][c]
<1>1. job \in Jobs /\ Fetched \in Candles
  BY DEF EvaluateSignal, TypeOK, ThreadOK, OutsideOK, Fetched
<1>2. delivered[job] \in [Candles -> Nat]
  BY <1>1 DEF TypeOK, ObservedOK
<1>3. ASSUME NEW j \in Jobs, NEW c \in Candles
      PROVE  delivered'[j][c] = IF arrives /\ j = job /\ c = Fetched
                                THEN delivered[j][c] + 1 ELSE delivered[j][c]
  BY <1>1, <1>2 DEF EvaluateSignal, TypeOK, ObservedOK
<1> QED
  BY <1>1, <1>3 DEF EvaluateSignal, AlreadyEvaluated, database

LEMMA ForgetFacts ==
    ASSUME TypeOK, ForgetEvaluation, NEW j \in Jobs, NEW c \in Candles
    PROVE  unlogged'[j][c] = IF InFlight(j, c) THEN unlogged[j][c] + 1 ELSE unlogged[j][c]
<1> USE DEF TypeOK, ThreadOK, ObservedOK
<1>1. CASE pc = "committing" /\ evaluation.signal
  <2>1. job \in Jobs /\ evaluation.candle \in Candles
    BY <1>1
  <2>2. unlogged[job] \in [Candles -> Nat]
    BY <2>1
  <2> QED
    BY <1>1, <2>1, <2>2 DEF ForgetEvaluation, InFlight
<1>2. CASE ~(pc = "committing" /\ evaluation.signal)
  BY <1>2 DEF ForgetEvaluation, InFlight
<1> QED
  BY <1>1, <1>2

LEMMA DeliveryStep ==
    ASSUME TypeOK, UnusedNeverRun, PastWatermark, DeliveriesAccounted, [Next]_vars
    PROVE  DeliveriesAccounted'
<1> SUFFICES ASSUME NEW j \in Jobs, NEW c \in Candles
             PROVE  Accounted(j, c)'
  BY DEF DeliveriesAccounted
<1>0. /\ delivered[j][c] \in Nat /\ unlogged[j][c] \in Nat /\ c \in Nat
      /\ jobs[j].last_run_at \in Nat /\ jobs'[j].last_run_at \in Nat
      /\ Accounted(j, c)
  <2>1. jobs[j].last_run_at \in Times /\ jobs'[j].last_run_at \in Times
    BY NextTypes DEF TypeOK, DatabaseOK, JobRow
  <2>2. Accounted(j, c)
    BY DEF DeliveriesAccounted
  <2>3. delivered[j][c] \in Nat /\ unlogged[j][c] \in Nat
    BY DEF TypeOK, ObservedOK
  <2> QED
    BY <2>1, <2>2, <2>3, ConstantsAssumption DEF Times, Candles
<1>1. ASSUME NEW sent \in BOOLEAN, NEW arrives \in BOOLEAN, EvaluateSignal(sent, arrives)
      PROVE  Accounted(j, c)'
  <2>1. CASE j = job /\ c = Fetched
    BY <1>0, <1>1, <2>1, SignalFacts DEF Accounted, InFlight
  <2>2. CASE ~(j = job /\ c = Fetched)
    BY <1>0, <1>1, <2>2, SignalFacts DEF Accounted, InFlight
  <2> QED
    BY <2>1, <2>2
<1>2. CASE CommitEvaluation
  <2>1. UNCHANGED <<delivered, unlogged>> /\ pc = "committing" /\ pc' = "picking"
    BY <1>2 DEF CommitEvaluation, NextJobExpired, observed
  <2>2. CASE j = job
    <3>1. evaluation.candle \in Nat /\ jobs[j].last_run_at < evaluation.candle
      BY <1>2, <2>1, <2>2, CommitFacts, <1>0 DEF PastWatermark, Candles
    <3>2. jobs'[j].last_run_at = evaluation.candle
      BY <1>2, <2>2, CommitFacts
    <3> QED
      BY <1>0, <2>1, <3>1, <3>2 DEF Accounted, InFlight
  <2>3. CASE j # job
    BY <1>0, <1>2, <2>1, <2>3, CommitFacts DEF Accounted, InFlight
  <2> QED
    BY <2>2, <2>3
<1>3. CASE CommitEvaluationFails \/ Crash
  <2>1. ForgetEvaluation /\ UNCHANGED <<delivered, jobs>> /\ pc' = "asleep"
    BY <1>3 DEF CommitEvaluationFails, Crash, Sleep, database
  <2> QED
    BY <1>0, <2>1, ForgetFacts DEF Accounted, InFlight
<1>4. CASE ~(CommitEvaluation \/ CommitEvaluationFails \/ Crash
             \/ \E sent, arrives \in BOOLEAN : EvaluateSignal(sent, arrives))
  <2>1. jobs'[j].last_run_at = jobs[j].last_run_at
    BY <1>4, JobsKeptByStep DEF JobsKept
  <2>2. InFlight(j, c)' <=> InFlight(j, c)
    BY <1>4, QuietStep DEF InFlight
  <2>3. UNCHANGED <<delivered, unlogged>>
    BY <1>4, QuietStep
  <2> QED
    BY <1>0, <2>1, <2>2, <2>3 DEF Accounted
<1> QED
  BY <1>1, <1>2, <1>3, <1>4

(* Deliveries are never taken back.                                        *)
LEMMA DeliveredGrows ==
    ASSUME TypeOK, [Next]_vars, NEW j \in Jobs, NEW c \in Candles
    PROVE  delivered[j][c] \in Nat /\ delivered'[j][c] \in Nat /\ delivered[j][c] <= delivered'[j][c]
<1>0. delivered[j][c] \in Nat /\ delivered'[j][c] \in Nat
  BY NextTypes DEF TypeOK, ObservedOK
<1>1. CASE \E sent, arrives \in BOOLEAN : EvaluateSignal(sent, arrives)
  BY <1>0, <1>1, SignalFacts
<1>2. CASE CommitEvaluation \/ CommitEvaluationFails \/ Crash
  BY <1>0, <1>2 DEF CommitEvaluation, CommitEvaluationFails, Crash, observed
<1> QED
  BY <1>0, <1>1, <1>2, QuietStep

LEMMA SentStep ==
    ASSUME TypeOK, UnusedNeverRun, SentInFlight, SentRowsWereDelivered, [Next]_vars
    PROVE  SentInFlight' /\ SentRowsWereDelivered'
<1>1. SentInFlight'
  <2>1. ASSUME NEW sent \in BOOLEAN, NEW arrives \in BOOLEAN, EvaluateSignal(sent, arrives)
        PROVE  SentInFlight'
    <3>1. sent => arrives
      BY <2>1 DEF EvaluateSignal
    <3>2. delivered[job][Fetched] \in Nat
      BY <2>1, SignalFacts DEF TypeOK, ObservedOK
    <3> QED
      BY <2>1, <3>1, <3>2, SignalFacts DEF SentInFlight
  <2>2. CASE CommitEvaluation \/ CommitEvaluationFails \/ Crash
    BY <2>2 DEF CommitEvaluation, NextJobExpired, CommitEvaluationFails, Crash, Sleep, SentInFlight
  <2>3. CASE ~(CommitEvaluation \/ CommitEvaluationFails \/ Crash
               \/ \E sent, arrives \in BOOLEAN : EvaluateSignal(sent, arrives))
    BY <2>3, QuietStep DEF SentInFlight
  <2> QED
    BY <2>1, <2>2, <2>3
<1>2. SentRowsWereDelivered'
  <2> SUFFICES ASSUME NEW row \in signal_logs', row.telegram_sent
               PROVE  delivered'[row.job][row.timestamp] > 0
    BY DEF SentRowsWereDelivered
  <2>1. row.job \in Jobs /\ row.timestamp \in Candles
    BY NextTypes DEF TypeOK, DatabaseOK, SignalRow
  <2>2. CASE row \in signal_logs
    BY <2>1, <2>2, DeliveredGrows DEF SentRowsWereDelivered
  <2>3. CASE row \notin signal_logs
    <3>1. CommitEvaluation
      BY <2>3, JobsKeptByStep
    <3>2. row = LoggedSignal /\ pc = "committing" /\ evaluation.signal
      BY <2>3, <3>1 DEF CommitEvaluation
    <3>3. row.job = job /\ row.timestamp = evaluation.candle /\ evaluation.sent
      BY <3>2 DEF LoggedSignal
    <3> QED
      BY <2>1, <3>2, <3>3, DeliveredGrows DEF SentInFlight
  <2> QED
    BY <2>2, <2>3
<1> QED
  BY <1>1, <1>2

LEMMA InitInvariant == Init => IInv
<1> SUFFICES ASSUME Init PROVE IInv
  OBVIOUS
<1>1. TypeOK
  BY InitTypes
<1> QED
  BY <1>1 DEF Init, IInv, UnusedNeverRun, UnusedJobs, NoRow, Watermarked, PastWatermark, Numbered,
         DeliveriesAccounted, Accounted, InFlight, SentInFlight, SentRowsWereDelivered,
         TypeOK, ObservedOK

(* The inductive invariant.                                                *)
THEOREM MonitorInvariant == Spec => [](TypeOK /\ IInv)
<1>1. Init => TypeOK /\ IInv
  BY InitTypes, InitInvariant
<1>2. TypeOK /\ IInv /\ [Next]_vars => (TypeOK /\ IInv)'
  BY NextTypes, LedgerStep, WatermarkStep, DeliveryStep, SentStep DEF IInv
<1> QED
  BY <1>1, <1>2, PTL DEF Spec

(* A message about a candle is repeated only when a commit was lost.       *)
THEOREM NoRepeatWithoutLoss == Spec => []RepeatedOnlyWhenLost
<1>1. TypeOK /\ IInv => RepeatedOnlyWhenLost
  <2> SUFFICES ASSUME TypeOK, IInv, NEW j \in Jobs, NEW c \in Candles
               PROVE  delivered[j][c] <= unlogged[j][c] + 1
    BY DEF RepeatedOnlyWhenLost
  <2>1. delivered[j][c] \in Nat /\ unlogged[j][c] \in Nat /\ Accounted(j, c)
    BY DEF TypeOK, ObservedOK, IInv, DeliveriesAccounted
  <2> QED
    BY <2>1 DEF Accounted
<1> QED
  BY <1>1, MonitorInvariant, PTL

(* A row that claims its message was sent tells the truth.                 *)
THEOREM SentRowsAreTrue == Spec => []SentRowsWereDelivered
<1>1. IInv => SentRowsWereDelivered
  BY DEF IInv
<1> QED
  BY <1>1, MonitorInvariant, PTL

(* The rows of signal_logs implement SignalLedger: the commit of an        *)
(* evaluation is Advance, every other step leaves the ledger alone.        *)
THEOREM ImplementsLedger == Spec => LedgerSpec
<1>1. Init => Ledger!LedgerInit
  BY DEF Init, Ledger!LedgerInit, NoRow
<1>2. ASSUME TypeOK, IInv, [Next]_vars
      PROVE  [Ledger!LedgerNext]_<<[j \in Jobs |-> jobs[j].last_run_at], signal_logs>>
  <2> DEFINE watermark == [j \in Jobs |-> jobs[j].last_run_at]
  <2>1. CASE CommitEvaluation
    <3>1. /\ job \in Jobs /\ evaluation.candle \in 1 .. MaxCandle
          /\ evaluation.candle > watermark[job]
      BY <1>2, <2>1, CommitFacts DEF CommitEvaluation, IInv, PastWatermark, Candles
    <3>2. watermark' = [watermark EXCEPT ![job] = evaluation.candle]
      BY <1>2, <2>1, CommitFacts
    <3>3. ASSUME signal_logs' # signal_logs
          PROVE  \E row \in signal_logs' :
                    /\ row \in Ledger!LedgerRow
                    /\ row.job = job
                    /\ row.timestamp = evaluation.candle
                    /\ \A other \in signal_logs : other.id # row.id
                    /\ signal_logs' = signal_logs \cup {row}
      <4>1. signal_logs' = signal_logs \cup {LoggedSignal}
        BY <1>2, <2>1, <3>3 DEF CommitEvaluation
      <4>2. LoggedSignal \in Ledger!LedgerRow
        BY <1>2, <4>1, NextTypes DEF TypeOK, DatabaseOK, SignalRow, Candles, Ledger!LedgerRow
      <4>3. \A other \in signal_logs : other.id # LoggedSignal.id
        BY <1>2, NewRowIsNew DEF IInv
      <4>4. LoggedSignal.job = job /\ LoggedSignal.timestamp = evaluation.candle
        BY DEF LoggedSignal
      <4> QED
        BY <4>1, <4>2, <4>3, <4>4
    <3>4. PICK j \in Jobs, c \in 1 .. MaxCandle : j = job /\ c = evaluation.candle
      BY <3>1
    <3>5. Ledger!Advance(j, c)
      BY <3>1, <3>2, <3>3, <3>4 DEF Ledger!Advance
    <3>6. Ledger!LedgerNext
      BY <3>5 DEF Ledger!LedgerNext
    <3> QED
      BY <3>6
  <2>2. CASE ~CommitEvaluation
    <3>1. /\ [j \in Jobs |-> jobs'[j].last_run_at] = [j \in Jobs |-> jobs[j].last_run_at]
          /\ signal_logs' = signal_logs
      BY <1>2, <2>2, JobsKeptByStep DEF JobsKept, IInv
    <3>2. UNCHANGED <<[j \in Jobs |-> jobs[j].last_run_at], signal_logs>>
      BY <3>1
    <3> QED
      BY <3>2
  <2> QED
    BY <2>1, <2>2
<1> QED
  BY <1>1, <1>2, MonitorInvariant, PTL DEF Spec, LedgerSpec, Ledger!LedgerSpec

(* No two rows of signal_logs are about the same candle of the same job.   *)
LEMMA OneRowStep ==
    ASSUME TypeOK, IInv, SignalLoggedOnce, [Next]_vars
    PROVE  SignalLoggedOnce'
<1>1. CASE signal_logs' = signal_logs
  BY <1>1 DEF SignalLoggedOnce, Ledger!OneRowPerCandle
<1>2. CASE signal_logs' # signal_logs
  <2>1. CommitEvaluation
    BY <1>2, JobsKeptByStep DEF IInv
  <2>2. signal_logs' = signal_logs \cup {LoggedSignal}
    BY <1>2, <2>1 DEF CommitEvaluation
  <2>3. ASSUME NEW row \in signal_logs, row.job = job
        PROVE  row.timestamp # evaluation.candle
    <3>1. row.timestamp \in Nat /\ jobs[job].last_run_at \in Nat /\ evaluation.candle \in Nat
      BY <2>1, <2>3, CommitFacts DEF TypeOK, DatabaseOK, SignalRow, JobRow, Candles, Times
    <3> QED
      BY <2>1, <2>3, <3>1 DEF IInv, Watermarked, PastWatermark, CommitEvaluation
  <2> QED
    BY <2>2, <2>3 DEF SignalLoggedOnce, Ledger!OneRowPerCandle, LoggedSignal
<1> QED
  BY <1>1, <1>2

THEOREM OneRowPerJobAndCandle == Spec => []SignalLoggedOnce
<1>1. Init => SignalLoggedOnce
  BY DEF Init, SignalLoggedOnce, Ledger!OneRowPerCandle
<1>2. TypeOK /\ IInv /\ SignalLoggedOnce /\ [Next]_vars => SignalLoggedOnce'
  BY OneRowStep
<1> QED
  BY <1>1, <1>2, MonitorInvariant, PTL DEF Spec

-----------------------------------------------------------------------------
(* A row once inserted stays one, of the same strategy.                    *)
OwnersKept ==
    \A j \in Jobs : jobs[j].life # "unused" =>
        /\ jobs'[j].life # "unused"
        /\ jobs'[j].user_strategy_id = jobs[j].user_strategy_id

LEMMA OwnersKeptByStep == ASSUME TypeOK, UnusedNeverRun, [Next]_vars PROVE OwnersKept
<1>1. CASE CommitEvaluation
  BY <1>1, CommitFacts DEF OwnersKept
<1>2. CASE ~CommitEvaluation
  BY <1>2, JobsKeptByStep DEF JobsKept, OwnersKept
<1> QED
  BY <1>1, <1>2

LEMMA InitLate == Init => LateInv
BY ConstantsAssumption
   DEF Init, LateInv, ThreadJobsAreInserted, FetchesForItsStrategy, LateIsOver

(* Which jobs the thread may name after a step.                            *)
LEMMA ThreadJobsStep ==
    ASSUME TypeOK, UnusedNeverRun, ThreadJobsAreInserted, [Next]_vars
    PROVE  ThreadJobsAreInserted'
<1>1. OwnersKept
  BY OwnersKeptByStep
<1>2. /\ \A j \in pending' : j \in pending \/ j \in LiveJobs
      /\ job' \in Jobs => job' = job \/ job' \in pending
  <2> USE ConstantsAssumption DEF TypeOK, ThreadOK
  <2>1. CASE StartRound \/ EndRound \/ \E j \in Jobs : PickJob(j) \/ PickDeletedJob(j)
    BY <2>1 DEF StartRound, EndRound, PickJob, PickDeletedJob, Sleep
  <2>2. CASE Evaluate
    BY <2>2 DEF Evaluate, EvaluateNotReady, EvaluateOldCandle, EvaluateNoSignal,
                EvaluateSignal, EvaluateRaises, NextJob
  <2>3. CASE CommitEvaluation \/ CommitEvaluationFails \/ RollBack \/ CommitError \/ CommitErrorFails
    BY <2>3 DEF CommitEvaluation, CommitEvaluationFails, RollBack, CommitError,
                CommitErrorFails, Sleep, NextJobExpired
  <2>4. CASE Web \/ (\E f \in Feeds : CloseCandle(f)) \/ UNCHANGED vars
    <3>1. UNCHANGED thread
      BY <2>4 DEF Web, BeginToggle, BeginCreateJob, BeginDelete, Begin, BeginUpdate,
             FinishToggle, FinishCreateJob, FinishUpdate, FinishDelete, FinishFails,
             CreateStrategy, CloseCandle, vars
    <3> QED
      BY <3>1 DEF thread
  <2>5. CASE Crash
    BY <2>5 DEF Crash, Sleep
  <2> QED
    BY <2>1, <2>2, <2>3, <2>4, <2>5 DEF Next, TaskManager
<1> QED
  BY <1>1, <1>2 DEF OwnersKept, ThreadJobsAreInserted, TypeOK, ThreadOK, LiveJobs

(* The copy of the strategy the session holds after a step: none, the one  *)
(* it held, or the one a job about to be evaluated is read with.           *)
LEMMA ViewStep ==
    ASSUME TypeOK, [Next]_vars
    PROVE  \/ strategy' = NoView /\ pc' # "fetching"
           \/ UNCHANGED strategy /\ (pc' = "fetching" => pc = "fetching" /\ job' = job)
           \/ \E j \in Jobs : PickJob(j)
<1>1. CASE TaskManager
  <2>1. CASE StartRound \/ EndRound \/ \E j \in Jobs : PickDeletedJob(j)
    BY <2>1 DEF StartRound, EndRound, PickDeletedJob, Sleep
  <2>2. CASE Evaluate
    BY <2>2 DEF Evaluate, EvaluateNotReady, EvaluateOldCandle, EvaluateNoSignal,
                EvaluateSignal, EvaluateRaises, NextJob
  <2>3. CASE CommitEvaluation \/ CommitEvaluationFails \/ RollBack \/ CommitError \/ CommitErrorFails
    BY <2>3 DEF CommitEvaluation, CommitEvaluationFails, RollBack, CommitError,
                CommitErrorFails, Sleep, NextJobExpired
  <2> QED
    BY <1>1, <2>1, <2>2, <2>3 DEF TaskManager
<1>2. CASE Web
  <2>1. UNCHANGED thread
    BY <1>2 DEF Web, BeginToggle, BeginCreateJob, BeginDelete, Begin, BeginUpdate, FinishToggle,
           FinishCreateJob, FinishUpdate, FinishDelete, FinishFails, CreateStrategy
  <2> QED
    BY <2>1 DEF thread
<1>3. CASE (\E f \in Feeds : CloseCandle(f)) \/ Crash \/ UNCHANGED vars
  BY <1>3 DEF CloseCandle, Crash, Sleep, vars, thread
<1> QED
  BY <1>1, <1>2, <1>3 DEF Next

LEMMA FetchesStep ==
    ASSUME TypeOK, UnusedNeverRun, ThreadJobsAreInserted, FetchesForItsStrategy, [Next]_vars
    PROVE  FetchesForItsStrategy'
<1> SUFFICES ASSUME pc' = "fetching"
             PROVE  strategy'.is_active /\ strategy'.id = jobs'[job'].user_strategy_id
  BY DEF FetchesForItsStrategy
<1>1. CASE UNCHANGED strategy /\ pc = "fetching" /\ job' = job
  <2>1. job \in Jobs /\ jobs[job].life # "unused"
    BY <1>1 DEF TypeOK, ThreadOK, ThreadJobsAreInserted
  <2> QED
    BY <1>1, <2>1, OwnersKeptByStep DEF OwnersKept, FetchesForItsStrategy
<1>2. ASSUME NEW j \in Jobs, PickJob(j)
      PROVE  strategy'.is_active /\ strategy'.id = jobs'[job'].user_strategy_id
  <2>1. /\ strategy' = ViewOf(jobs[j].user_strategy_id) /\ jobs' = jobs
        /\ strategy'.is_active /\ job' = j
    BY <1>2 DEF PickJob, database
  <2>2. ViewOf(jobs[j].user_strategy_id).id = jobs[j].user_strategy_id
    BY <2>1 DEF ViewOf, NoView
  <2> QED
    BY <2>1, <2>2
<1> QED
  BY <1>1, <1>2, ViewStep

(* A strategy is reactivated only by a request, which forgives its jobs.   *)
LEMMA InactiveStep ==
    ASSUME TypeOK, [Next]_vars, NEW j \in Jobs, late'[j] # 0,
           Inactive(jobs[j].user_strategy_id)
    PROVE  Inactive(jobs[j].user_strategy_id)'
           \/ jobs'[j].user_strategy_id # jobs[j].user_strategy_id
<1> DEFINE s == jobs[j].user_strategy_id
<1> SUFFICES ASSUME jobs'[j].user_strategy_id = s PROVE Inactive(s)'
  OBVIOUS
<1>1. CASE UNCHANGED strategies
  BY <1>1 DEF Inactive, LiveStrategies
<1>2. ASSUME NEW r \in Requests, FinishToggle(r) \/ FinishUpdate(r)
      PROVE  Inactive(s)'
  <2> DEFINE q == requests[r]
  <2>1. SaveStrategy(q) /\ q.strategy \in LiveStrategies
    BY <1>2 DEF FinishToggle, FinishUpdate
  <2>2. q \in RequestRecord /\ q.strategy \in Strategies
    BY <2>1 DEF LiveStrategies, TypeOK, OutsideOK
  <2>3. /\ strategies' = [strategies EXCEPT ![q.strategy]
                              = UpdateStrategy(strategies[q.strategy], q.old, q.new)]
        /\ UpdateStrategy(strategies[q.strategy], q.old, q.new).life
              = strategies[q.strategy].life
    BY <2>1, <2>2 DEF SaveStrategy, UpdateStrategy, TypeOK, DatabaseOK, StrategyRow
  <2>4. CASE s = q.strategy
    <3>1. ~strategies'[s].is_active
      BY <2>1, <2>4 DEF SaveStrategy
    <3> QED
      BY <3>1 DEF Inactive
  <2>5. CASE s # q.strategy
    <3>1. s \in Strategies => strategies'[s] = strategies[s]
      BY <2>2, <2>3, <2>5 DEF TypeOK, DatabaseOK
    <3> QED
      BY <3>1 DEF Inactive, LiveStrategies
  <2> QED
    BY <2>4, <2>5
<1>3. ASSUME NEW r \in Requests, FinishDelete(r)
      PROVE  Inactive(s)'
  BY <1>3 DEF FinishDelete, Inactive, LiveStrategies, TypeOK, DatabaseOK, StrategyRow
<1>4. ASSUME NEW n \in Strategies, NEW f \in Feeds, CreateStrategy(n, f)
      PROVE  Inactive(s)'
  BY <1>4 DEF CreateStrategy, Inactive, LiveStrategies, TypeOK, DatabaseOK, StrategyRow
<1>5. \/ UNCHANGED strategies
      \/ \E r \in Requests : FinishToggle(r) \/ FinishUpdate(r) \/ FinishDelete(r)
      \/ \E n \in Strategies, f \in Feeds : CreateStrategy(n, f)
  BY DEF Next, TaskManager, StartRound, EndRound, PickJob, PickDeletedJob, Evaluate,
         EvaluateNotReady, EvaluateOldCandle, EvaluateNoSignal, EvaluateSignal,
         EvaluateRaises, CommitEvaluation, CommitEvaluationFails, RollBack, CommitError,
         CommitErrorFails, Web, BeginToggle, BeginCreateJob, BeginDelete, Begin, BeginUpdate,
         FinishCreateJob, FinishFails, CloseCandle, Crash, vars, database
<1> QED
  BY <1>1, <1>2, <1>3, <1>4, <1>5

(* Only EvaluateSignal adds to the late messages of a job.                 *)
LEMMA LateCountStep ==
    ASSUME TypeOK, [Next]_vars, NEW j \in Jobs, late'[j] # 0, late'[j] # late[j]
    PROVE  \E sent, arrives \in BOOLEAN : EvaluateSignal(sent, arrives)
<1>1. ASSUME NEW r \in Requests, FinishToggle(r) \/ FinishUpdate(r)
      PROVE  late'[j] \in {0, late[j]}
  BY <1>1 DEF FinishToggle, FinishUpdate, SaveStrategy, TypeOK, ObservedOK
<1>2. \/ UNCHANGED late
      \/ \E r \in Requests : FinishToggle(r) \/ FinishUpdate(r)
      \/ \E sent, arrives \in BOOLEAN : EvaluateSignal(sent, arrives)
  BY DEF Next, TaskManager, StartRound, EndRound, PickJob, PickDeletedJob, Evaluate,
         EvaluateNotReady, EvaluateOldCandle, EvaluateNoSignal,
         EvaluateRaises, CommitEvaluation, CommitEvaluationFails, RollBack, CommitError,
         CommitErrorFails, Web, BeginToggle, BeginCreateJob, BeginDelete, Begin, BeginUpdate,
         FinishCreateJob, FinishDelete, FinishFails, CreateStrategy, CloseCandle, Crash,
         vars, observed
<1> QED
  BY <1>1, <1>2

(* An evaluation that is to send a message late is the first to do so.     *)
LEMMA LateSignal ==
    ASSUME TypeOK, LateInv, NEW sent \in BOOLEAN, NEW arrives \in BOOLEAN,
           EvaluateSignal(sent, arrives), NEW j \in Jobs, late'[j] # 0
    PROVE  /\ late'[j] = 1 /\ jobs[j].life # "unused"
           /\ Inactive(jobs[j].user_strategy_id)
<1>1. job \in Jobs /\ jobs[job].life # "unused" /\ late[job] \in Nat
  BY DEF EvaluateSignal, TypeOK, ThreadOK, ObservedOK, LateInv, ThreadJobsAreInserted
<1>2. late[job] = 0
  BY <1>1 DEF EvaluateSignal, LateInv, LateIsOver, FetchesForItsStrategy
<1>3. CASE j = job /\ Inactive(jobs[job].user_strategy_id)
  <2>1. late'[j] = late[job] + 1
    BY <1>1, <1>3 DEF EvaluateSignal, TypeOK, ObservedOK
  <2> QED
    BY <1>1, <1>2, <1>3, <2>1
<1>4. CASE ~(j = job /\ Inactive(jobs[job].user_strategy_id))
  <2>1. late'[j] = late[j]
    BY <1>1, <1>4 DEF EvaluateSignal, TypeOK, ObservedOK
  <2> QED
    BY <2>1 DEF LateInv, LateIsOver
<1> QED
  BY <1>3, <1>4

LEMMA LateStep ==
    ASSUME TypeOK, UnusedNeverRun, LateInv, [Next]_vars
    PROVE  LateIsOver'
<1> SUFFICES ASSUME NEW j \in Jobs, late'[j] # 0
             PROVE  /\ late'[j] = 1
                    /\ jobs'[j].life # "unused"
                    /\ Inactive(jobs[j].user_strategy_id)'
                    /\ strategy'.is_active /\ strategy'.id = jobs'[j].user_strategy_id
                          => pc' = "committing"
  BY DEF LateIsOver
<1>1. /\ late'[j] = 1 /\ jobs[j].life # "unused"
      /\ Inactive(jobs[j].user_strategy_id)
  <2>1. CASE \E sent, arrives \in BOOLEAN : EvaluateSignal(sent, arrives)
    BY <2>1, LateSignal
  <2>2. CASE late'[j] = late[j]
    BY <2>2 DEF LateInv, LateIsOver
  <2> QED
    BY <2>1, <2>2, LateCountStep
<1>2. jobs'[j].life # "unused" /\ jobs'[j].user_strategy_id = jobs[j].user_strategy_id
  BY <1>1, OwnersKeptByStep DEF OwnersKept
<1>3. Inactive(jobs[j].user_strategy_id)'
  BY <1>1, <1>2, InactiveStep
<1>4. ASSUME strategy'.is_active, strategy'.id = jobs'[j].user_strategy_id
      PROVE  pc' = "committing"
  <2>1. CASE \E sent, arrives \in BOOLEAN : EvaluateSignal(sent, arrives)
    BY <2>1 DEF EvaluateSignal
  <2>2. CASE strategy' = NoView
    BY <1>4, <2>2 DEF NoView
  <2>3. CASE /\ late'[j] = late[j] /\ UNCHANGED strategy
    <3>1. pc = "committing"
      BY <1>2, <1>4, <2>3 DEF LateInv, LateIsOver
    <3>2. CASE CommitEvaluation \/ CommitEvaluationFails \/ Crash
      BY <1>4, <3>2 DEF CommitEvaluation, CommitEvaluationFails, Crash, Sleep,
                        NextJobExpired, NoView
    <3>3. CASE ~(CommitEvaluation \/ CommitEvaluationFails \/ Crash)
      BY <3>1, <3>3, QuietStep DEF EvaluateSignal
    <3> QED
      BY <3>2, <3>3
  <2>4. ASSUME NEW k \in Jobs, PickJob(k), late'[j] = late[j]
        PROVE  FALSE
    <3>1. pc = "picking" /\ strategy' = ViewOf(jobs[k].user_strategy_id)
      BY <2>4 DEF PickJob
    <3>2. ~(strategy.is_active /\ strategy.id = jobs[j].user_strategy_id)
      BY <2>4, <3>1 DEF LateInv, LateIsOver
    <3>3. CASE strategy' = strategy
      BY <1>2, <1>4, <3>2, <3>3
    <3>4. CASE strategy' # strategy
      BY <1>1, <1>2, <1>4, <3>1, <3>4 DEF ViewOf, NoView, Inactive
    <3> QED
      BY <3>3, <3>4
  <2> QED
    BY <2>1, <2>2, <2>3, <2>4, ViewStep, LateCountStep
<1> QED
  BY <1>1, <1>2, <1>3, <1>4

(* A paused or deleted strategy's jobs each send one more message at most. *)
THEOREM OneLateSignal == Spec => []AtMostOneLateSignal
<1>1. TypeOK /\ IInv /\ LateInv /\ [Next]_vars => LateInv'
  BY ThreadJobsStep, FetchesStep, LateStep DEF IInv, LateInv
<1>2. TypeOK /\ LateInv => AtMostOneLateSignal
  <2> SUFFICES ASSUME TypeOK, LateInv, NEW j \in Jobs PROVE late[j] <= 1
    BY DEF AtMostOneLateSignal
  <2> QED
    BY DEF TypeOK, ObservedOK, LateInv, LateIsOver
<1> QED
  BY <1>1, <1>2, InitLate, TypeCorrect, MonitorInvariant, PTL DEF Spec

-----------------------------------------------------------------------------
(* What a step makes of the live jobs: none is added, or the commit of a   *)
(* request that found none inserts one.                                    *)
NoJobAdded ==
    \A j \in Jobs : jobs'[j].life = "live" =>
        /\ jobs[j].life = "live"
        /\ jobs'[j].user_strategy_id = jobs[j].user_strategy_id

JobAddedBy(r) ==
    /\ Inserts(r)
    /\ requests[r].job = NoJob
    /\ InsertJob(requests[r].strategy)
    /\ Finish(r)

LEMMA SaveJobAddsNone ==
    ASSUME TypeOK, NEW q \in RequestRecord, NEW new \in JobRow, SaveJob(q, new)
    PROVE  NoJobAdded
BY SaveJobKeeps DEF NoJobAdded

LEMMA AddedByRequest ==
    ASSUME TypeOK, NEW r \in Requests,
           FinishToggle(r) \/ FinishCreateJob(r) \/ FinishDelete(r)
    PROVE  NoJobAdded \/ JobAddedBy(r)
<1> DEFINE q == requests[r]
<1>1. q \in RequestRecord
  BY DEF TypeOK, OutsideOK
<1>2. Restarted(q.oldJob) \in JobRow /\ Paused(q.oldJob) \in JobRow
  BY <1>1, RequestFields, RestartTypes
<1> HIDE DEF q
<1>3. CASE FinishToggle(r)
  <2>1. CASE UNCHANGED jobs
    BY <2>1 DEF NoJobAdded
  <2>2. CASE q.job = NoJob /\ InsertJob(q.strategy)
    BY <1>3, <2>2 DEF FinishToggle, JobAddedBy, Inserts, q
  <2>3. CASE SaveJob(q, Restarted(q.oldJob)) \/ SaveJob(q, Paused(q.oldJob))
    BY <2>3, <1>1, <1>2, SaveJobAddsNone
  <2> QED
    BY <1>3, <2>1, <2>2, <2>3 DEF FinishToggle, q
<1>4. CASE FinishCreateJob(r)
  <2>1. CASE q.job = NoJob /\ InsertJob(q.strategy)
    BY <1>4, <2>1 DEF FinishCreateJob, JobAddedBy, Inserts, q
  <2>2. CASE SaveJob(q, Restarted(q.oldJob))
    BY <2>2, <1>1, <1>2, SaveJobAddsNone
  <2> QED
    BY <1>4, <2>1, <2>2 DEF FinishCreateJob, q
<1>5. CASE FinishDelete(r)
  BY <1>5 DEF FinishDelete, NoJobAdded, TypeOK, DatabaseOK, JobRow
<1> QED
  BY <1>3, <1>4, <1>5

LEMMA AddedByStep ==
    ASSUME TypeOK, [Next]_vars
    PROVE  NoJobAdded \/ \E r \in Requests : JobAddedBy(r)
<1>1. CASE CommitEvaluation
  BY <1>1 DEF CommitEvaluation, NoJobAdded, TypeOK, DatabaseOK, JobRow
<1>2. CASE CommitError
  <2>1. job \in Jobs /\ jobs[job] \in JobRow /\ Blamed \in JobRow /\ seen \in JobRow
    BY <1>2, BlamedType DEF CommitError, LiveJobs, TypeOK, DatabaseOK, ThreadOK
  <2>2. /\ UpdateJob(jobs[job], seen, Blamed).life = jobs[job].life
        /\ UpdateJob(jobs[job], seen, Blamed).user_strategy_id = jobs[job].user_strategy_id
    BY <2>1, UpdateKeepsRun
  <2> QED
    BY <1>2, <2>1, <2>2 DEF CommitError, NoJobAdded, TypeOK, DatabaseOK
<1>3. CASE \E r \in Requests : FinishToggle(r) \/ FinishCreateJob(r) \/ FinishDelete(r)
  BY <1>3, AddedByRequest
<1>4. CASE UNCHANGED jobs
  BY <1>4 DEF NoJobAdded
<1>5. ASSUME TaskManager, ~CommitEvaluation, ~CommitError
      PROVE  UNCHANGED jobs
  BY <1>5 DEF TaskManager, StartRound, EndRound, PickJob, PickDeletedJob, Evaluate,
      EvaluateNotReady, EvaluateOldCandle, EvaluateNoSignal, EvaluateSignal,
      EvaluateRaises, CommitEvaluationFails, RollBack, CommitErrorFails, database
<1>6. ASSUME Web, ~\E r \in Requests : FinishToggle(r) \/ FinishCreateJob(r) \/ FinishDelete(r)
      PROVE  UNCHANGED jobs
  BY <1>6 DEF Web, BeginToggle, BeginCreateJob, BeginDelete, Begin, BeginUpdate,
      FinishUpdate, FinishFails, CreateStrategy, database
<1>7. ASSUME (\E f \in Feeds : CloseCandle(f)) \/ Crash \/ UNCHANGED vars
      PROVE  UNCHANGED jobs
  BY <1>7 DEF CloseCandle, Crash, vars, database
<1> QED
  BY <1>1, <1>2, <1>3, <1>4, <1>5, <1>6, <1>7 DEF Next

(* What a step makes of the requests: one that may insert was there before *)
(* and read the same, or has just looked for a job.                        *)
LEMMA InsertsAfterStep ==
    ASSUME TypeOK, [Next]_vars, NEW r \in Requests, Inserts(r)'
    PROVE  \/ requests'[r] = requests[r]
           \/ /\ UNCHANGED jobs
              /\ requests'[r].job = NoJob => JobsOf(requests'[r].strategy) = {}
<1> USE DEF Inserts
<1>1. ASSUME NEW q \in Requests, Finish(q)
      PROVE  requests'[r] = requests[r]
  BY <1>1 DEF Finish, Idle, TypeOK, OutsideOK
<1>2. ASSUME NEW q \in Requests, NEW op, NEW s, NEW j, NEW new, Begin(q, op, s, j, new)
      PROVE  \/ requests'[r] = requests[r]
             \/ /\ UNCHANGED jobs
                /\ requests'[r].job = NoJob => JobsOf(requests'[r].strategy) = {}
  <2>1. CASE q = r
    <3>1. requests'[r].job = j /\ requests'[r].strategy = s /\ FirstJob(s, j) /\ UNCHANGED jobs
      BY <1>2, <2>1 DEF Begin, database, TypeOK, OutsideOK
    <3>2. NoJob \notin JobsOf(s)
      BY ConstantsAssumption DEF JobsOf, LiveJobs
    <3> QED
      BY <3>1, <3>2 DEF FirstJob
  <2>2. CASE q # r
    BY <1>2, <2>2 DEF Begin, TypeOK, OutsideOK
  <2> QED
    BY <2>1, <2>2
<1>3. ASSUME NEW q \in Requests, NEW s, NEW active, NEW f, BeginUpdate(q, s, active, f)
      PROVE  requests'[r] = requests[r]
  BY <1>3 DEF BeginUpdate, TypeOK, OutsideOK
<1>4. CASE TaskManager
  BY <1>4 DEF TaskManager, StartRound, EndRound, PickJob, PickDeletedJob, Evaluate,
      EvaluateNotReady, EvaluateOldCandle, EvaluateNoSignal, EvaluateSignal, EvaluateRaises,
      CommitEvaluation, CommitError, CommitEvaluationFails, RollBack, CommitErrorFails
<1>5. CASE Web
  <2>1. CASE \E q \in Requests : Finish(q)
    BY <1>1, <2>1
  <2>2. CASE \E q \in Requests, s \in Strategies, j \in Jobs \cup {NoJob} :
                 BeginToggle(q, s, j) \/ BeginCreateJob(q, s, j) \/ BeginDelete(q, s, j)
    BY <1>2, <2>2 DEF BeginToggle, BeginCreateJob, BeginDelete
  <2>3. CASE \E q \in Requests, s \in Strategies, active \in BOOLEAN, f \in Feeds :
                 BeginUpdate(q, s, active, f)
    BY <1>3, <2>3
  <2>4. CASE \E s \in Strategies, f \in Feeds : CreateStrategy(s, f)
    BY <2>4 DEF CreateStrategy
  <2>5. ASSUME NEW q \in Requests,
               FinishToggle(q) \/ FinishCreateJob(q) \/ FinishUpdate(q)
               \/ FinishDelete(q) \/ FinishFails(q)
        PROVE  Finish(q)
    BY <2>5 DEF FinishToggle, FinishCreateJob, FinishUpdate, FinishDelete, FinishFails
  <2> QED
    BY <1>5, <2>1, <2>2, <2>3, <2>4, <2>5 DEF Web
<1>6. CASE (\E f \in Feeds : CloseCandle(f)) \/ Crash \/ UNCHANGED vars
  BY <1>6 DEF CloseCandle, Crash, Idle, vars
<1> QED
  BY <1>4, <1>5, <1>6 DEF Next

LEMMA OneJobStep ==
    ASSUME TypeOK, OneJobPerStrategy, NoneFoundIsNone, [Next]_vars
    PROVE  OneJobPerStrategy'
<1>1. CASE NoJobAdded
  BY <1>1 DEF NoJobAdded, OneJobPerStrategy, LiveJobs
<1>2. ASSUME NEW r \in Requests, JobAddedBy(r)
      PROVE  OneJobPerStrategy'
  <2> DEFINE s == requests[r].strategy
  <2>1. PICK n \in UnusedJobs : jobs' = [jobs EXCEPT ![n] = NewJob(s)]
    BY <1>2 DEF JobAddedBy, InsertJob
  <2>2. JobsOf(s) = {}
    BY <1>2 DEF JobAddedBy, NoneFoundIsNone
  <2> HIDE DEF s
  <2>3. n \in Jobs /\ jobs'[n].user_strategy_id = s
    BY <2>1 DEF UnusedJobs, NewJob, TypeOK, DatabaseOK
  <2>4. ASSUME NEW j \in LiveJobs', j # n
        PROVE  j \in LiveJobs /\ jobs'[j] = jobs[j] /\ jobs[j].user_strategy_id # s
    BY <2>1, <2>2, <2>3, <2>4 DEF LiveJobs, JobsOf, TypeOK, DatabaseOK
  <2> QED
    BY <2>3, <2>4 DEF OneJobPerStrategy
<1> QED
  BY <1>1, <1>2, AddedByStep

LEMMA NoneFoundStep ==
    ASSUME TypeOK, NoneFoundIsNone, InsertsApart, [Next]_vars
    PROVE  NoneFoundIsNone'
<1> SUFFICES ASSUME NEW r \in Requests, Inserts(r)', requests'[r].job = NoJob
             PROVE  JobsOf(requests[r].strategy)' = {}
  BY DEF NoneFoundIsNone
<1>1. CASE UNCHANGED jobs /\ JobsOf(requests'[r].strategy) = {}
  BY <1>1 DEF JobsOf, LiveJobs
<1>2. CASE requests'[r] = requests[r]
  <2>1. Inserts(r) /\ requests[r].job = NoJob /\ JobsOf(requests[r].strategy) = {}
    BY <1>2 DEF Inserts, NoneFoundIsNone
  <2>2. CASE NoJobAdded
    BY <1>2, <2>1, <2>2 DEF NoJobAdded, JobsOf, LiveJobs
  <2>3. ASSUME NEW q \in Requests, JobAddedBy(q)
        PROVE  JobsOf(requests[r].strategy)' = {}
    <3>1. q # r
      BY <1>2, <2>1, <2>3 DEF JobAddedBy, Finish, Inserts, Idle, TypeOK, OutsideOK
    <3>2. requests[q].strategy # requests[r].strategy
      BY <2>1, <2>3, <3>1 DEF JobAddedBy, InsertsApart
    <3>3. PICK n \in UnusedJobs : jobs' = [jobs EXCEPT ![n] = NewJob(requests[q].strategy)]
      BY <2>3 DEF JobAddedBy, InsertJob
    <3> QED
      BY <1>2, <2>1, <3>2, <3>3 DEF JobsOf, LiveJobs, UnusedJobs, NewJob, TypeOK, DatabaseOK
  <2> QED
    BY <2>2, <2>3, AddedByStep
<1> QED
  BY <1>1, <1>2, InsertsAfterStep

(* A strategy has one job at most, as long as no two requests that may     *)
(* insert one for it overlap, whatever else goes on at the same time:      *)
(* updates, deletions, the thread and its failures.                        *)
THEOREM OneJobUnlessInsertsMeet == Spec /\ []InsertsApart => []OneJobPerStrategy
<1>1. Init => OneJobPerStrategy /\ NoneFoundIsNone
  BY DEF Init, OneJobPerStrategy, NoneFoundIsNone, LiveJobs, NoRow, Inserts, Idle
<1>2. /\ TypeOK /\ OneJobPerStrategy /\ NoneFoundIsNone /\ InsertsApart /\ [Next]_vars
      => (OneJobPerStrategy /\ NoneFoundIsNone)'
  BY OneJobStep, NoneFoundStep
<1> QED
  BY <1>1, <1>2, TypeCorrect, PTL DEF Spec

=============================================================================

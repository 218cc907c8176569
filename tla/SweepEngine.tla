---------------------------- MODULE SweepEngine ----------------------------
(***************************************************************************)
(* The mass sweep (services/mass_sweep_engine.py, api/routers/sweep.py):   *)
(* one thread imports the data, optimizes every job of the scan in a pool  *)
(* of workers, validates the winners on the symbols held out, and          *)
(* registers the best ones in the portfolio.                               *)
(*                                                                         *)
(* All sweeps share one dictionary.  A request checks it and starts a      *)
(* thread; the thread writes that it is running later, on its own.         *)
(***************************************************************************)
EXTENDS Naturals, FiniteSets

CONSTANTS
    Pipelines,      \* threads of _run_pipeline, each started at most once
    Requests,       \* requests to start a sweep in progress at a time
    Jobs,           \* jobs of a scan: a pair and a strategy
    NoPipeline, NoRun,
    Concurrency,    \* workers of a pool
    MaxRegister,    \* strategies a sweep registers
    Patient,        \* TRUE: nobody asks for a sweep before the last one shows
    MaxTime,        \* bound: seconds
    MaxCancels,     \* bound: cancellations
    MaxFailures,    \* bound: exceptions and failed commits
    MaxFaults       \* bound: process crashes

ASSUME SweepAssumption ==
    /\ NoPipeline \notin Pipelines
    /\ Patient \in BOOLEAN
    /\ Concurrency \in Nat \ {0}
    /\ IsFiniteSet(Jobs)
    /\ MaxTime \in Nat \ {0}
    /\ {MaxRegister, MaxCancels, MaxFailures, MaxFaults} \subseteq Nat

VARIABLES
    state,          \* _state
    pipelines,      \* the threads and their locals
    sweep_runs,     \* the rows, by run_id
    portfolio,      \* user_strategies a sweep registered
    requests,
    now,            \* int(time.time())
    acknowledged,   \* sweeps under way when a cancellation was accepted
    late,           \* strategies they registered after that
    cancels, failures, faults

observed == <<acknowledged, late>>
counts == <<cancels, failures, faults>>
vars == <<state, pipelines, sweep_runs, portfolio, requests, now, observed, counts>>

Times == 0 .. MaxTime                   \* 0: no run yet
Found == Pipelines \X Jobs              \* a job's result, and whose it is

Idle == [status |-> "idle", run_id |-> 0, cancelled |-> FALSE, results |-> {}]
Unborn == [pc |-> "unborn", run_id |-> 0, futures |-> [j \in Jobs |-> "none"],
           rows |-> {}, waiting |-> {}, generalized |-> {}]
NoRequest == [pc |-> "idle", pipeline |-> NoPipeline, run_id |-> 0]

At(p, pc) == pipelines[p].pc = pc
Goto(p, pc) == pipelines' = [pipelines EXCEPT ![p].pc = pc]
Futures(p, places) == {j \in Jobs : pipelines[p].futures[j] \in places}
ResultsOf(p, rows) == {p} \X rows
Fails == failures < MaxFailures /\ failures' = failures + 1

(* Under way: running is published, and neither its end nor its            *)
(* cancellation is.                                                        *)
Ended == {"ended", "draining", "lost"}
UnderWay == {p \in Pipelines : pipelines[p].pc \notin Ended \cup {"unborn", "starting"}}
Started == {p \in Pipelines : At(p, "starting")}

-----------------------------------------------------------------------------
(* Requests.                                                               *)
StartSweep(r, p) ==
    /\ requests[r].pc # "started"
    /\ At(p, "unborn")
    /\ Patient => Started = {}
    /\ state.status # "running"
    /\ state' = [state EXCEPT !.cancelled = FALSE]
    /\ Goto(p, "starting")
    /\ requests' = [requests EXCEPT ![r] = [NoRequest EXCEPT !.pc = "started", !.pipeline = p]]
    /\ UNCHANGED <<sweep_runs, portfolio, now, observed, counts>>

RefuseSweep(r) ==
    /\ ~Patient
    /\ requests[r].pc # "started"
    /\ state.status = "running"
    /\ requests' = [requests EXCEPT ![r] = [NoRequest EXCEPT !.pc = "refused"]]
    /\ UNCHANGED <<state, pipelines, sweep_runs, portfolio, now, observed, counts>>

(* start_sweep returns whatever run_id is now, and None makes a 409.       *)
ReadRunId(r) ==
    /\ requests[r].pc = "started"
    /\ requests' = [requests EXCEPT
          ![r].pc = IF state.run_id = 0 THEN "refused" ELSE "accepted",
          ![r].run_id = state.run_id]
    /\ UNCHANGED <<state, pipelines, sweep_runs, portfolio, now, observed, counts>>

CancelSweep ==
    /\ state.status = "running"
    /\ cancels < MaxCancels
    /\ state' = [state EXCEPT !.cancelled = TRUE]
    /\ acknowledged' = acknowledged \cup UnderWay
    /\ cancels' = cancels + 1
    /\ UNCHANGED <<pipelines, sweep_runs, portfolio, requests, now, late, failures, faults>>

-----------------------------------------------------------------------------
(* The thread.                                                             *)

(* Mutant: the results of the last sweep are kept.                         *)
BeginKeeping(p) ==
    /\ At(p, "starting")
    /\ state' = [state EXCEPT !.status = "running", !.run_id = now, !.cancelled = FALSE]
    /\ pipelines' = [pipelines EXCEPT ![p].pc = "importing", ![p].run_id = now]
    /\ UNCHANGED <<sweep_runs, portfolio, requests, now, observed, counts>>

Begin(p) ==
    /\ At(p, "starting")
    /\ state' = [Idle EXCEPT !.status = "running", !.run_id = now]
    /\ pipelines' = [pipelines EXCEPT ![p].pc = "importing", ![p].run_id = now]
    /\ UNCHANGED <<sweep_runs, portfolio, requests, now, observed, counts>>

(* The jobs are those whose pair has data once the import is over.         *)
EndImport(p, jobs) ==
    /\ At(p, "importing")
    /\ ~state.cancelled
    /\ pipelines' = [pipelines EXCEPT ![p].pc = "sweeping",
          ![p].futures = [j \in Jobs |-> IF j \in jobs THEN "queued" ELSE "none"]]
    /\ UNCHANGED <<state, sweep_runs, portfolio, requests, now, observed, counts>>

(* Mutant: a pool with a worker more.                                      *)
WorkMore(p) ==
    \E j \in Jobs :
        /\ \/ /\ pipelines[p].futures[j] = "queued"
              /\ Cardinality(Futures(p, {"running"})) <= Concurrency
              /\ pipelines' = [pipelines EXCEPT ![p].futures[j] = "running"]
           \/ /\ pipelines[p].futures[j] = "running"
              /\ pipelines' = [pipelines EXCEPT ![p].futures[j] = "finished"]
        /\ ~At(p, "lost")
        /\ UNCHANGED <<state, sweep_runs, portfolio, requests, now, observed, counts>>

(* A worker takes a job or ends one; it touches nothing that is shared.    *)
Work(p) ==
    \E j \in Jobs :
        /\ \/ /\ pipelines[p].futures[j] = "queued"
              /\ Cardinality(Futures(p, {"running"})) < Concurrency
              /\ pipelines' = [pipelines EXCEPT ![p].futures[j] = "running"]
           \/ /\ pipelines[p].futures[j] = "running"
              /\ pipelines' = [pipelines EXCEPT ![p].futures[j] = "finished"]
        /\ ~At(p, "lost")
        /\ UNCHANGED <<state, sweep_runs, portfolio, requests, now, observed, counts>>

(* as_completed yields the futures in any order; a job may find nothing.   *)
Consume(p, j, keep) ==
    /\ At(p, "sweeping")
    /\ pipelines[p].futures[j] = "finished"
    /\ ~state.cancelled
    /\ LET rows == pipelines[p].rows \cup (IF keep THEN {j} ELSE {})
       IN  /\ pipelines' = [pipelines EXCEPT ![p].futures[j] = "consumed", ![p].rows = rows]
           /\ state' = [state EXCEPT !.results = ResultsOf(p, rows)]
    /\ UNCHANGED <<sweep_runs, portfolio, requests, now, observed, counts>>

ConsumeRaised(p, j) ==
    /\ At(p, "sweeping")
    /\ pipelines[p].futures[j] = "finished"
    /\ ~state.cancelled
    /\ pipelines' = [pipelines EXCEPT ![p].futures[j] = "consumed"]
    /\ UNCHANGED <<state, sweep_runs, portfolio, requests, now, observed, counts>>

(* Mutant: the loop is left as soon as no job waits for a worker.          *)
EndScanEarly(p) ==
    /\ At(p, "sweeping")
    /\ Futures(p, {"queued", "running"}) = {}
    /\ Goto(p, "scanned")
    /\ UNCHANGED <<state, sweep_runs, portfolio, requests, now, observed, counts>>

EndScan(p) ==
    /\ At(p, "sweeping")
    /\ Futures(p, {"queued", "running", "finished"}) = {}
    /\ Goto(p, "scanned")
    /\ UNCHANGED <<state, sweep_runs, portfolio, requests, now, observed, counts>>

(* The places where the thread asks whether it was cancelled, but for the  *)
(* one in the registration.  Futures that wait are dropped.                *)
SeeCancel(p) ==
    /\ \/ pipelines[p].pc \in {"importing", "scanned"}
       \/ At(p, "sweeping") /\ Futures(p, {"finished"}) # {}
       \/ At(p, "validating") /\ pipelines[p].waiting # {}
    /\ state.cancelled
    /\ pipelines' = [pipelines EXCEPT ![p].pc = "cancelling",
          ![p].futures = [j \in Jobs |-> IF @[j] \in {"queued", "finished"} THEN "dropped" ELSE @[j]]]
    /\ UNCHANGED <<state, sweep_runs, portfolio, requests, now, observed, counts>>

(* The pool is left with the block, once its running jobs are over.        *)
PublishCancelled(p) ==
    /\ At(p, "cancelling")
    /\ state' = [state EXCEPT !.status = "cancelled"]
    /\ Goto(p, "draining")
    /\ UNCHANGED <<sweep_runs, portfolio, requests, now, observed, counts>>

Drain(p) ==
    /\ At(p, "draining")
    /\ Futures(p, {"running"}) = {}
    /\ Goto(p, "ended")
    /\ UNCHANGED <<state, sweep_runs, portfolio, requests, now, observed, counts>>

BeginHoldout(p, winners) ==
    /\ At(p, "scanned")
    /\ ~state.cancelled
    /\ pipelines' = [pipelines EXCEPT ![p].pc = "validating", ![p].waiting = winners]
    /\ UNCHANGED <<state, sweep_runs, portfolio, requests, now, observed, counts>>

ValidateHoldout(p, j, generalizes) ==
    /\ At(p, "validating")
    /\ j \in pipelines[p].waiting
    /\ ~state.cancelled
    /\ pipelines' = [pipelines EXCEPT ![p].waiting = @ \ {j},
          ![p].generalized = @ \cup (IF generalizes THEN {j} ELSE {})]
    /\ UNCHANGED <<state, sweep_runs, portfolio, requests, now, observed, counts>>

(* The first MaxRegister of the generalized rows, in the order of their    *)
(* profit factor.                                                          *)
EndHoldout(p, top) ==
    /\ At(p, "validating")
    /\ pipelines[p].waiting = {}
    /\ top \subseteq pipelines[p].generalized
    /\ Cardinality(top) <= MaxRegister
    /\ top # pipelines[p].generalized => Cardinality(top) = MaxRegister
    /\ pipelines' = [pipelines EXCEPT ![p].pc = "registering", ![p].waiting = top]
    /\ UNCHANGED <<state, sweep_runs, portfolio, requests, now, observed, counts>>

(* Mutant: the registration does not ask whether it was cancelled.         *)
PickRowAlways(p) ==
    /\ At(p, "registering")
    /\ pipelines[p].waiting # {}
    /\ Goto(p, "inserting")
    /\ UNCHANGED <<state, sweep_runs, portfolio, requests, now, observed, counts>>

PickRow(p) ==
    /\ At(p, "registering")
    /\ pipelines[p].waiting # {}
    /\ ~state.cancelled
    /\ Goto(p, "inserting")
    /\ UNCHANGED <<state, sweep_runs, portfolio, requests, now, observed, counts>>

InsertStrategy(p, j) ==
    /\ At(p, "inserting")
    /\ j \in pipelines[p].waiting
    /\ portfolio' = portfolio \cup {<<p, j>>}
    /\ pipelines' = [pipelines EXCEPT ![p].pc = "registering", ![p].waiting = @ \ {j}]
    /\ late' = [late EXCEPT ![p] = IF p \in acknowledged THEN @ + 1 ELSE @]
    /\ UNCHANGED <<state, sweep_runs, requests, now, acknowledged, counts>>

(* A cancellation ends the registration, and the sweep is completed.       *)
EndRegister(p) ==
    /\ At(p, "registering")
    /\ pipelines[p].waiting = {} \/ state.cancelled
    /\ Goto(p, "persisting")
    /\ UNCHANGED <<state, sweep_runs, portfolio, requests, now, observed, counts>>

(* The import, a torn file of the hold-out, a name that does not fit its   *)
(* column, a commit or the CSV files.                                      *)
Raise(p) ==
    /\ \/ pipelines[p].pc \in {"importing", "registering", "inserting", "persisting"}
       \/ At(p, "validating") /\ pipelines[p].waiting # {}
    /\ Fails
    /\ Goto(p, "failing")
    /\ UNCHANGED <<state, sweep_runs, portfolio, requests, now, observed, cancels, faults>>

RunRow(p) ==
    IF At(p, "persisting")
    THEN [pipeline |-> p, status |-> "completed", results |-> pipelines[p].rows]
    ELSE [pipeline |-> p, status |-> "failed", results |-> {}]

AfterPersist(p) == IF At(p, "persisting") THEN "publishing" ELSE "publishing_failure"

Persist(p) ==
    /\ pipelines[p].pc \in {"persisting", "failing"}
    /\ sweep_runs[pipelines[p].run_id] = NoRun
    /\ sweep_runs' = [sweep_runs EXCEPT ![pipelines[p].run_id] = RunRow(p)]
    /\ Goto(p, AfterPersist(p))
    /\ UNCHANGED <<state, portfolio, requests, now, observed, counts>>

(* Logged and forgotten: run_id is unique, and a second long.              *)
PersistFails(p) ==
    /\ pipelines[p].pc \in {"persisting", "failing"}
    /\ \/ sweep_runs[pipelines[p].run_id] # NoRun /\ UNCHANGED failures
       \/ Fails
    /\ Goto(p, AfterPersist(p))
    /\ UNCHANGED <<state, sweep_runs, portfolio, requests, now, observed, cancels, faults>>

PublishCompleted(p) ==
    /\ At(p, "publishing")
    /\ state' = [state EXCEPT !.status = "completed", !.results = ResultsOf(p, pipelines[p].rows)]
    /\ Goto(p, "ended")
    /\ UNCHANGED <<sweep_runs, portfolio, requests, now, observed, counts>>

(* Mutant: the handler persists the failure and leaves the status.         *)
PublishFailedNot(p) ==
    /\ At(p, "publishing_failure")
    /\ Goto(p, "ended")
    /\ UNCHANGED <<state, sweep_runs, portfolio, requests, now, observed, counts>>

PublishFailed(p) ==
    /\ At(p, "publishing_failure")
    /\ state' = [state EXCEPT !.status = "failed"]
    /\ Goto(p, "ended")
    /\ UNCHANGED <<sweep_runs, portfolio, requests, now, observed, counts>>

(* The second passes; only a pipeline that begins reads the clock, so it    *)
(* may as well pass just before.                                           *)
Tick ==
    /\ Started # {}
    /\ now < MaxTime
    /\ now' = now + 1
    /\ UNCHANGED <<state, pipelines, sweep_runs, portfolio, requests, observed, counts>>

Crash ==
    /\ faults < MaxFaults
    /\ faults' = faults + 1
    /\ state' = Idle
    /\ pipelines' = [p \in Pipelines |-> IF At(p, "unborn") THEN Unborn
                                         ELSE [pipelines[p] EXCEPT !.pc = "lost"]]
    /\ requests' = [r \in Requests |-> NoRequest]
    /\ UNCHANGED <<sweep_runs, portfolio, now, observed, cancels, failures>>

Init ==
    /\ state = Idle
    /\ pipelines = [p \in Pipelines |-> Unborn]
    /\ sweep_runs = [t \in Times |-> NoRun]
    /\ portfolio = {}
    /\ requests = [r \in Requests |-> NoRequest]
    /\ now = 1
    /\ acknowledged = {} /\ late = [p \in Pipelines |-> 0]
    /\ cancels = 0 /\ failures = 0 /\ faults = 0

Run(p) ==
    \/ Begin(p) \/ EndScan(p) \/ SeeCancel(p) \/ PublishCancelled(p) \/ Drain(p)
    \/ \E jobs \in SUBSET Jobs : EndImport(p, jobs)
    \/ \E j \in Jobs : ConsumeRaised(p, j) \/ InsertStrategy(p, j)
    \/ \E j \in Jobs, yes \in BOOLEAN : Consume(p, j, yes) \/ ValidateHoldout(p, j, yes)
    \/ \E winners \in SUBSET pipelines[p].rows : BeginHoldout(p, winners)
    \/ \E top \in SUBSET pipelines[p].generalized : EndHoldout(p, top)
    \/ PickRow(p) \/ EndRegister(p) \/ Raise(p)
    \/ Persist(p) \/ PersistFails(p) \/ PublishCompleted(p) \/ PublishFailed(p)

Next ==
    \/ \E r \in Requests, p \in Pipelines : StartSweep(r, p)
    \/ \E r \in Requests : RefuseSweep(r) \/ ReadRunId(r)
    \/ \E p \in Pipelines : Run(p) \/ Work(p)
    \/ CancelSweep \/ Tick \/ Crash

Spec == Init /\ [][Next]_vars

(* The operating system runs the thread and its workers.                   *)
FairSpec == Spec /\ \A p \in Pipelines : WF_vars(Run(p)) /\ WF_vars(Work(p))

-----------------------------------------------------------------------------
(* The variables range over what the dictionary and the tables hold.       *)
Places == {"unborn", "starting", "importing", "sweeping", "scanned", "validating",
           "registering", "inserting", "persisting", "failing", "publishing",
           "publishing_failure", "cancelling"} \cup Ended

FutureStates == {"none", "queued", "running", "finished", "consumed", "dropped"}

TypeOK ==
    /\ state \in [status: {"idle", "running", "completed", "cancelled", "failed"},
                  run_id: Times, cancelled: BOOLEAN, results: SUBSET Found]
    /\ pipelines \in [Pipelines ->
          [pc: Places, run_id: Times, futures: [Jobs -> FutureStates],
           rows: SUBSET Jobs, waiting: SUBSET Jobs, generalized: SUBSET Jobs]]
    /\ \A p \in Pipelines : Cardinality(Futures(p, {"running"})) <= Concurrency
    /\ sweep_runs \in [Times -> [pipeline: Pipelines, status: {"completed", "failed"},
                                 results: SUBSET Jobs] \cup {NoRun}]
    /\ portfolio \subseteq Found
    /\ requests \in [Requests -> [pc: {"idle", "started", "accepted", "refused"},
                                  pipeline: Pipelines \cup {NoPipeline}, run_id: Times]]
    /\ now \in Times
    /\ acknowledged \subseteq Pipelines
    /\ late \in [Pipelines -> Nat]
    /\ cancels \in Nat /\ failures \in Nat /\ faults \in Nat

(***************************************************************************)
(* A sweep that is stored as completed, and one that registers strategies, *)
(* has taken the result of every job it submitted: neither a cancellation  *)
(* nor another sweep that resets its flag cuts the scan short.             *)
(***************************************************************************)
Whole(p) == Futures(p, {"queued", "running", "finished", "dropped"}) = {}

OnlyWholeSweepsCount ==
    /\ \A t \in Times :
          LET run == sweep_runs[t]
          IN  run # NoRun /\ run.status = "completed" =>
                  Whole(run.pipeline) /\ run.results = pipelines[run.pipeline].rows
    /\ \A found \in portfolio : Whole(found[1]) /\ found[2] \in pipelines[found[1]].generalized

(***************************************************************************)
(* The inductive invariant behind it: past the scan no future is left, and *)
(* what a stored or registered result rests on can no longer change.       *)
(***************************************************************************)
ScanIsOver ==
    \A p \in Pipelines :
        pipelines[p].pc \in {"scanned", "validating", "registering", "inserting",
                             "persisting", "publishing"} => Whole(p)

ScanDropsNothing ==
    \A p \in Pipelines : At(p, "sweeping") => Futures(p, {"dropped"}) = {}

RegistersTheGeneralized ==
    \A p \in Pipelines :
        pipelines[p].pc \in {"registering", "inserting"}
            => pipelines[p].waiting \subseteq pipelines[p].generalized

StoredIsSettled ==
    \A t \in Times :
        sweep_runs[t] # NoRun /\ sweep_runs[t].status = "completed" =>
            /\ pipelines[sweep_runs[t].pipeline].pc \in {"publishing", "ended", "lost"}
            /\ Whole(sweep_runs[t].pipeline)
            /\ sweep_runs[t].results = pipelines[sweep_runs[t].pipeline].rows

RegisteredIsSettled ==
    \A found \in portfolio :
        /\ pipelines[found[1]].pc \in {"registering", "inserting", "persisting", "failing",
                                       "publishing", "publishing_failure", "ended", "lost"}
        /\ Whole(found[1])
        /\ found[2] \in pipelines[found[1]].generalized

SweepInv ==
    /\ ScanIsOver
    /\ ScanDropsNothing
    /\ RegistersTheGeneralized
    /\ StoredIsSettled
    /\ RegisteredIsSettled

(* The results the dictionary shows are those of the run it names, even    *)
(* while the workers of a cancelled sweep still run.                       *)
ResultsBelongToRun ==
    \A found \in state.results : pipelines[found[1]].run_id = state.run_id

(* A cancelled sweep registers at most the strategy it was about to.       *)
AtMostOneLateStrategy == \A p \in Pipelines : late[p] <= 1

(***************************************************************************)
(* What the two rest on.  Sweeps do not meet when each is asked for once   *)
(* the last one shows: the status then says running from the start of a    *)
(* thread to its end, and it names the run of that thread.                 *)
(***************************************************************************)
SweepsApart == \A p, q \in Started \cup UnderWay : p = q

StatusTells == UnderWay # {} => state.status = "running"

NamesItsRun == \A p \in UnderWay : pipelines[p].run_id = state.run_id

(* A cancellation that was accepted stays in force until its sweep ends,   *)
(* and its late strategy is the last row of its registration.              *)
CancelHolds ==
    /\ \A p \in acknowledged : pipelines[p].pc \notin {"unborn", "starting"}
    /\ acknowledged \cap UnderWay # {} => state.cancelled

LateIsLast ==
    \A p \in Pipelines : late[p] # 0 =>
        /\ late[p] = 1
        /\ p \in acknowledged
        /\ pipelines[p].pc \in {"registering", "persisting", "failing", "publishing",
                                "publishing_failure", "ended", "lost"}

(* The status leaves running, so a sweep can be started again.             *)
SweepEnds == state.status = "running" ~> state.status # "running"

-----------------------------------------------------------------------------
(***************************************************************************)
(* What the code says of itself and does not do.                           *)
(***************************************************************************)

(* api/routers/sweep.py:51: a request is refused because a sweep is        *)
(* running.  The request that starts the first sweep is refused as well,   *)
(* when it reads run_id before the thread has written it.                  *)
RefusedOnlyWhenBusy ==
    \A r \in Requests : requests[r].pc = "refused" => requests[r].pipeline = NoPipeline

(* mass_sweep_engine.py:323: one sweep at a time.  Two requests pass the   *)
(* check before either thread says that it runs.                           *)
OneSweepAtATime == Cardinality(UnderWay) <= 1
=============================================================================

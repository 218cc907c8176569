--------------------------- MODULE OptimizerTask ---------------------------
(***************************************************************************)
(* Optimization tasks: the thread a task runs in and the dictionary it     *)
(* shares with the requests (services/optimizer_service.py), the loop over *)
(* the combinations (core/optimizer_engine.py) and the endpoints           *)
(* (api/routers/optimizer.py).                                             *)
(*                                                                         *)
(* The thread writes the fields of its task one by one and takes no lock;  *)
(* the lock of the requests orders them among themselves only.             *)
(***************************************************************************)
EXTENDS Naturals, FiniteSets

CONSTANTS
    Tasks,          \* task ids, each used at most once
    Requests,       \* requests for results that can be in progress at a time
    Combinations,   \* combinations of the grid of each task
    NoTask, NoResult,
    MaxFailures,    \* bound: exceptions and failed commits
    MaxFaults       \* bound: process crashes

ASSUME OptimizerAssumption ==
    /\ NoTask \notin Tasks
    /\ {Combinations, MaxFailures, MaxFaults} \subseteq Nat

VARIABLES
    tasks,               \* _OPTIMIZATION_TASKS
    thread,              \* the thread of each task and its locals
    optimization_runs,   \* the rows, NoResult where there is none
    requests,            \* requests for results
    acknowledged,        \* tasks whose cancellation was answered with cancelled
    late,                \* combinations that ended after that answer
    reported,            \* tasks somebody was told are completed
    removed,             \* rows deleted on request
    failures, faults

observed == <<acknowledged, late, reported, removed>>
vars == <<tasks, thread, optimization_runs, requests, observed, failures, faults>>

Grid == 1 .. Combinations
Result == [completed: 0 .. Combinations, candidates: SUBSET Grid]
Statuses == {"unknown", "running", "completed", "cancelled", "failed"}

(* unknown: no entry in the dictionary.                                    *)
Unknown == [status |-> "unknown", cancelled |-> FALSE, result |-> NoResult]
Unborn == [pc |-> "unborn", completed |-> 0, candidates |-> {}]
NoRequest == [pc |-> "idle", task |-> NoTask, answer |-> NoResult]

At(t, pc) == thread[t].pc = pc
Goto(t, pc) == thread' = [thread EXCEPT ![t].pc = pc]
Fails == failures < MaxFailures /\ failures' = failures + 1

-----------------------------------------------------------------------------
(* The thread.                                                             *)
StartTask(t) ==
    /\ At(t, "unborn")
    /\ tasks' = [tasks EXCEPT ![t] = [Unknown EXCEPT !.status = "running"]]
    /\ Goto(t, "loop")
    /\ UNCHANGED <<optimization_runs, requests, observed, failures, faults>>

(* Mutant: the loop does not ask whether the task was cancelled.           *)
BeginCombinationAlways(t) ==
    /\ At(t, "loop")
    /\ thread[t].completed < Combinations
    /\ Goto(t, "evaluating")
    /\ UNCHANGED <<tasks, optimization_runs, requests, observed, failures, faults>>

BeginCombination(t) ==
    /\ At(t, "loop")
    /\ thread[t].completed < Combinations
    /\ ~tasks[t].cancelled
    /\ Goto(t, "evaluating")
    /\ UNCHANGED <<tasks, optimization_runs, requests, observed, failures, faults>>

(* Mutant: a combination whose backtest raises is not counted.             *)
EndCombinationUncounted(t, keep) ==
    /\ At(t, "evaluating")
    /\ thread' = [thread EXCEPT ![t] =
          [pc |-> "loop",
           completed |-> IF keep THEN @.completed + 1 ELSE @.completed,
           candidates |-> IF keep THEN @.candidates \cup {@.completed + 1} ELSE @.candidates]]
    /\ late' = [late EXCEPT ![t] = IF t \in acknowledged THEN @ + 1 ELSE @]
    /\ UNCHANGED <<tasks, optimization_runs, requests, acknowledged, reported, removed,
                   failures, faults>>

(* The combination becomes a candidate, or its backtest raises, trades too *)
(* seldom or earns too little.                                             *)
EndCombination(t, keep) ==
    /\ At(t, "evaluating")
    /\ thread' = [thread EXCEPT ![t] =
          [pc |-> "loop", completed |-> @.completed + 1,
           candidates |-> IF keep THEN @.candidates \cup {@.completed + 1} ELSE @.candidates]]
    /\ late' = [late EXCEPT ![t] = IF t \in acknowledged THEN @ + 1 ELSE @]
    /\ UNCHANGED <<tasks, optimization_runs, requests, acknowledged, reported, removed,
                   failures, faults>>

(* The loop ends or breaks; run_optimization returns what it has.          *)
LeaveLoop(t) ==
    /\ At(t, "loop")
    /\ thread[t].completed = Combinations \/ tasks[t].cancelled
    /\ Goto(t, "returned")
    /\ UNCHANGED <<tasks, optimization_runs, requests, observed, failures, faults>>

(* An exception outside of the two backtests.                              *)
TaskFails(t) ==
    /\ At(t, "loop") \/ At(t, "evaluating")
    /\ Fails
    /\ tasks' = [tasks EXCEPT ![t].status = "failed"]
    /\ Goto(t, "ended")
    /\ UNCHANGED <<optimization_runs, requests, observed, faults>>

EndCancelled(t) ==
    /\ At(t, "returned")
    /\ tasks[t].cancelled
    /\ tasks' = [tasks EXCEPT ![t].status = "cancelled"]
    /\ Goto(t, "ended")
    /\ UNCHANGED <<optimization_runs, requests, observed, failures, faults>>

(* Mutant: a task that was cancelled is completed as well.                 *)
PassCheckAlways(t) ==
    /\ At(t, "returned")
    /\ Goto(t, "passed")
    /\ UNCHANGED <<tasks, optimization_runs, requests, observed, failures, faults>>

PassCheck(t) ==
    /\ At(t, "returned")
    /\ ~tasks[t].cancelled
    /\ Goto(t, "passed")
    /\ UNCHANGED <<tasks, optimization_runs, requests, observed, failures, faults>>

PublishStatus(t) ==
    /\ At(t, "passed")
    /\ tasks' = [tasks EXCEPT ![t].status = "completed"]
    /\ Goto(t, "publishing")
    /\ UNCHANGED <<optimization_runs, requests, observed, failures, faults>>

Returned(t) == [completed |-> thread[t].completed, candidates |-> thread[t].candidates]

PublishResult(t) ==
    /\ At(t, "publishing")
    /\ tasks' = [tasks EXCEPT ![t].result = Returned(t)]
    /\ Goto(t, "persisting")
    /\ UNCHANGED <<optimization_runs, requests, observed, failures, faults>>

Persist(t) ==
    /\ At(t, "persisting")
    /\ optimization_runs' = [optimization_runs EXCEPT ![t] = Returned(t)]
    /\ Goto(t, "ended")
    /\ UNCHANGED <<tasks, requests, observed, failures, faults>>

(* Logged and forgotten.                                                   *)
PersistFails(t) ==
    /\ At(t, "persisting")
    /\ Fails
    /\ Goto(t, "ended")
    /\ UNCHANGED <<tasks, optimization_runs, requests, observed, faults>>

-----------------------------------------------------------------------------
(* The requests.                                                           *)
Cancel(t) ==
    /\ tasks[t].status = "running"
    /\ tasks' = [tasks EXCEPT ![t].cancelled = TRUE]
    /\ acknowledged' = acknowledged \cup {t}
    /\ UNCHANGED <<thread, optimization_runs, requests, late, reported, removed,
                   failures, faults>>

PollCompleted(t) ==
    /\ tasks[t].status = "completed"
    /\ reported' = reported \cup {t}
    /\ UNCHANGED <<tasks, thread, optimization_runs, requests, acknowledged, late,
                   removed, failures, faults>>

(* get_task_results looks at the status first, and at the rows only for a  *)
(* task the dictionary does not have.                                      *)
AskResults(r, t) ==
    /\ requests[r].pc = "idle"
    /\ \/ /\ tasks[t].status = "completed"
          /\ requests' = [requests EXCEPT ![r] = [NoRequest EXCEPT !.pc = "asking", !.task = t]]
       \/ /\ tasks[t].status = "unknown"
          /\ optimization_runs[t] # NoResult
          /\ requests' = [requests EXCEPT ![r] =
                [pc |-> "answered", task |-> t, answer |-> optimization_runs[t]]]
    /\ UNCHANGED <<tasks, thread, optimization_runs, observed, failures, faults>>

(* 500 while there is no result yet.                                       *)
AnswerResults(r) ==
    LET t == requests[r].task
    IN  /\ requests[r].pc = "asking"
        /\ requests' = [requests EXCEPT ![r] =
              IF tasks[t].result = NoResult THEN NoRequest
              ELSE [pc |-> "answered", task |-> t, answer |-> tasks[t].result]]
        /\ UNCHANGED <<tasks, thread, optimization_runs, observed, failures, faults>>

Forget(r) ==
    /\ requests[r].pc = "answered"
    /\ requests' = [requests EXCEPT ![r] = NoRequest]
    /\ UNCHANGED <<tasks, thread, optimization_runs, observed, failures, faults>>

(* The row only: a task in memory keeps its result.                        *)
DeleteRun(t) ==
    /\ optimization_runs[t] # NoResult
    /\ optimization_runs' = [optimization_runs EXCEPT ![t] = NoResult]
    /\ removed' = removed \cup {t}
    /\ UNCHANGED <<tasks, thread, requests, acknowledged, late, reported, failures, faults>>

(* The process dies; the dictionary and the daemon threads are gone.       *)
Crash ==
    /\ faults < MaxFaults
    /\ faults' = faults + 1
    /\ tasks' = [t \in Tasks |-> Unknown]
    /\ thread' = [t \in Tasks |-> IF At(t, "unborn") THEN Unborn
                                  ELSE [thread[t] EXCEPT !.pc = "lost"]]
    /\ requests' = [r \in Requests |-> NoRequest]
    /\ UNCHANGED <<optimization_runs, observed, failures>>

Init ==
    /\ tasks = [t \in Tasks |-> Unknown]
    /\ thread = [t \in Tasks |-> Unborn]
    /\ optimization_runs = [t \in Tasks |-> NoResult]
    /\ requests = [r \in Requests |-> NoRequest]
    /\ acknowledged = {} /\ reported = {} /\ removed = {}
    /\ late = [t \in Tasks |-> 0]
    /\ failures = 0 /\ faults = 0

Run(t) ==
    \/ BeginCombination(t)
    \/ \E keep \in BOOLEAN : EndCombination(t, keep)
    \/ LeaveLoop(t) \/ TaskFails(t)
    \/ EndCancelled(t) \/ PassCheck(t) \/ PublishStatus(t) \/ PublishResult(t)
    \/ Persist(t) \/ PersistFails(t)

Next ==
    \/ \E t \in Tasks : StartTask(t) \/ Run(t) \/ Cancel(t) \/ PollCompleted(t) \/ DeleteRun(t)
    \/ \E r \in Requests, t \in Tasks : AskResults(r, t)
    \/ \E r \in Requests : AnswerResults(r) \/ Forget(r)
    \/ Crash

Spec == Init /\ [][Next]_vars

(* The operating system runs the threads.                                  *)
FairSpec == Spec /\ \A t \in Tasks : WF_vars(Run(t))

-----------------------------------------------------------------------------
(* The variables range over what the dictionary and the table hold.        *)
TaskEntry == [status: Statuses, cancelled: BOOLEAN, result: Result \cup {NoResult}]

Places == {"unborn", "loop", "evaluating", "returned", "passed", "publishing",
           "persisting", "ended", "lost"}

ThreadRecord == [pc: Places, completed: 0 .. Combinations, candidates: SUBSET Grid]

RequestRecord ==
    [pc: {"idle", "asking", "answered"}, task: Tasks \cup {NoTask},
     answer: Result \cup {NoResult}]

EvaluatedInGrid == \A t \in Tasks : At(t, "evaluating") => thread[t].completed < Combinations

TypeOK ==
    /\ tasks \in [Tasks -> TaskEntry]
    /\ thread \in [Tasks -> ThreadRecord]
    /\ EvaluatedInGrid
    /\ optimization_runs \in [Tasks -> Result \cup {NoResult}]
    /\ requests \in [Requests -> RequestRecord]
    /\ \A r \in Requests : requests[r].pc # "idle" => requests[r].task \in Tasks
    /\ acknowledged \subseteq Tasks /\ reported \subseteq Tasks /\ removed \subseteq Tasks
    /\ late \in [Tasks -> Nat]
    /\ failures \in Nat /\ faults \in Nat

(***************************************************************************)
(* A result that is served, from memory or from the table, before or after *)
(* a restart, is the whole grid's: a task cut short by a cancellation is   *)
(* never taken for a completed one.                                        *)
(***************************************************************************)
IsWhole(result, t) ==
    result # NoResult => /\ result.completed = Combinations
                         /\ result.candidates = thread[t].candidates

WholeResults ==
    /\ \A t \in Tasks : IsWhole(tasks[t].result, t) /\ IsWhole(optimization_runs[t], t)
    /\ \A r \in Requests : requests[r].pc = "answered" => IsWhole(requests[r].answer, requests[r].task)

(* The inductive invariant behind it: the loop is left early only by a     *)
(* cancellation, no result is written before the check is passed, and once *)
(* one is written the thread finds no more candidates.                     *)
LeftEarlyWhenCancelled ==
    \A t \in Tasks :
        At(t, "returned") => thread[t].completed = Combinations \/ tasks[t].cancelled

PassedIsWhole ==
    \A t \in Tasks :
        thread[t].pc \in {"passed", "publishing", "persisting"}
            => thread[t].completed = Combinations

Settled(t) == thread[t].pc \in {"persisting", "ended", "lost"}

ResultsAreSettled ==
    /\ \A t \in Tasks :
          tasks[t].result # NoResult \/ optimization_runs[t] # NoResult => Settled(t)
    /\ \A r \in Requests : requests[r].pc = "answered" => Settled(requests[r].task)

IInv == LeftEarlyWhenCancelled /\ PassedIsWhole /\ ResultsAreSettled /\ WholeResults

(* After a cancellation is acknowledged the combination under way is the   *)
(* last one.                                                               *)
AtMostOneLateCombination == \A t \in Tasks : late[t] <= 1

(* The inductive invariant behind it: nobody cancels a task before its     *)
(* thread is there, an acknowledged cancellation stays in the dictionary   *)
(* while the loop runs, and a combination under way is not a late one yet. *)
UnbornIsUnknown ==
    \A t \in Tasks : At(t, "unborn") => tasks[t].status = "unknown" /\ t \notin acknowledged

AcknowledgedIsCancelled ==
    \A t \in acknowledged : thread[t].pc \in {"loop", "evaluating"} => tasks[t].cancelled

LateIsOver ==
    \A t \in Tasks : /\ late[t] # 0 => t \in acknowledged
                     /\ At(t, "evaluating") => late[t] = 0

LateInv == UnbornIsUnknown /\ AcknowledgedIsCancelled /\ LateIsOver /\ AtMostOneLateCombination

(* A task ends, whatever is cancelled, raised or lost.                     *)
TaskEnds == \A t \in Tasks : tasks[t].status = "running" ~> tasks[t].status # "running"

-----------------------------------------------------------------------------
(***************************************************************************)
(* What the documents say and the code does not do.                        *)
(***************************************************************************)

(* docs/v3-modulo-4-optimizador.md:40: cancelling stops the task.  A       *)
(* cancellation acknowledged after the last check changes nothing.         *)
CancelledIsNotCompleted ==
    \A t \in acknowledged : tasks[t].status # "completed"

(* docs/v3-modulo-4-optimizador.md:120: a cancelled task stops and keeps   *)
(* its partial results.                                                    *)
PartialResultsAreKept ==
    \A t \in Tasks :
        tasks[t].status = "cancelled" /\ thread[t].candidates # {}
            => optimization_runs[t] # NoResult \/ tasks[t].result # NoResult

(* docs/v3-modulo-4-optimizador.md:32: the state of the tasks and their    *)
(* results are persisted.  A task is reported completed before its row is  *)
(* committed, and a restart in between loses it.                           *)
CompletedIsPersisted ==
    \A t \in reported \ removed :
        tasks[t].status = "unknown" => optimization_runs[t] # NoResult
=============================================================================

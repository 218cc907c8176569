-------------------------- MODULE OptimizerProofs --------------------------
(***************************************************************************)
(* Theorems about OptimizerTask, for every number of tasks, requests,      *)
(* combinations, failures and crashes.                                     *)
(***************************************************************************)
EXTENDS OptimizerTask, TLAPS

(* What the steps write is of its type.                                    *)
LEMMA ConstantTypes ==
    /\ Unknown \in TaskEntry
    /\ Unborn \in ThreadRecord
    /\ NoRequest \in RequestRecord
    /\ Combinations \in Nat /\ MaxFailures \in Nat /\ MaxFaults \in Nat
<1>1. Combinations \in Nat /\ MaxFailures \in Nat /\ MaxFaults \in Nat
  BY OptimizerAssumption
<1> QED
  BY <1>1 DEF Unknown, TaskEntry, Statuses, Unborn, ThreadRecord, Places, Grid, NoRequest, RequestRecord

LEMMA GotoTypes ==
    ASSUME TypeOK, NEW t \in Tasks, NEW pc \in Places, Goto(t, pc),
           pc = "evaluating" => thread[t].completed < Combinations
    PROVE  thread' \in [Tasks -> ThreadRecord] /\ EvaluatedInGrid'
<1>1. /\ thread \in [Tasks -> ThreadRecord]
      /\ EvaluatedInGrid
      /\ thread' = [thread EXCEPT ![t].pc = pc]
  BY DEF TypeOK, Goto
<1>2. [thread[t] EXCEPT !.pc = pc] \in ThreadRecord
  BY <1>1 DEF ThreadRecord
<1>3. thread' \in [Tasks -> ThreadRecord]
  BY <1>1, <1>2
<1>4. ASSUME NEW u \in Tasks, thread'[u].pc = "evaluating"
      PROVE  thread'[u].completed < Combinations
  BY <1>1, <1>4 DEF EvaluatedInGrid, At, ThreadRecord
<1> QED
  BY <1>3, <1>4 DEF EvaluatedInGrid, At

LEMMA ReturnedTypes ==
    ASSUME TypeOK, NEW t \in Tasks
    PROVE  Returned(t) \in Result
BY DEF TypeOK, ThreadRecord, Returned, Result

LEMMA StatusTypes ==
    ASSUME TypeOK, NEW t \in Tasks, NEW status \in Statuses,
           tasks' = [tasks EXCEPT ![t].status = status]
    PROVE  tasks' \in [Tasks -> TaskEntry]
BY DEF TypeOK, TaskEntry

LEMMA InitTypes == Init => TypeOK
BY ConstantTypes DEF Init, TypeOK, NoRequest, EvaluatedInGrid, At, Unborn

LEMMA NextTypes ==
    ASSUME TypeOK, [Next]_vars
    PROVE  TypeOK'
<1>1. ASSUME NEW t \in Tasks, StartTask(t)
      PROVE  TypeOK'
  <2>1. [Unknown EXCEPT !.status = "running"] \in TaskEntry
    BY ConstantTypes DEF TaskEntry, Statuses
  <2>2. tasks' \in [Tasks -> TaskEntry]
    BY <1>1, <2>1 DEF TypeOK, StartTask
  <2>3. thread' \in [Tasks -> ThreadRecord] /\ EvaluatedInGrid'
    BY <1>1, GotoTypes DEF StartTask, Places
  <2> QED
    BY <1>1, <2>2, <2>3 DEF TypeOK, StartTask, observed
<1>2. ASSUME NEW t \in Tasks, BeginCombination(t) \/ LeaveLoop(t) \/ PassCheck(t)
      PROVE  TypeOK'
  <2>1. thread' \in [Tasks -> ThreadRecord] /\ EvaluatedInGrid'
    BY <1>2, GotoTypes DEF BeginCombination, LeaveLoop, PassCheck, Places
  <2> QED
    BY <1>2, <2>1 DEF TypeOK, BeginCombination, LeaveLoop, PassCheck, observed
<1>3. ASSUME NEW t \in Tasks, NEW keep \in BOOLEAN, EndCombination(t, keep)
      PROVE  TypeOK'
  <2>1. thread[t].completed + 1 \in 0 .. Combinations
    BY <1>3, ConstantTypes DEF TypeOK, EndCombination, EvaluatedInGrid, At, ThreadRecord
  <2>2. EvaluatedInGrid'
    BY <1>3 DEF TypeOK, EndCombination, ThreadRecord, EvaluatedInGrid, At
  <2> DEFINE after == [pc |-> "loop", completed |-> thread[t].completed + 1,
                       candidates |-> IF keep
                                      THEN thread[t].candidates \cup {thread[t].completed + 1}
                                      ELSE thread[t].candidates]
  <2>3. thread[t].completed + 1 \in Grid
    BY <1>3, ConstantTypes DEF TypeOK, EndCombination, EvaluatedInGrid, At, ThreadRecord, Grid
  <2>4. after \in ThreadRecord
    BY <2>1, <2>3 DEF TypeOK, ThreadRecord, Places
  <2>5. thread' = [thread EXCEPT ![t] = after]
    BY <1>3 DEF TypeOK, EndCombination
  <2>6. thread' \in [Tasks -> ThreadRecord]
    BY <2>4, <2>5 DEF TypeOK
  <2>7. late' \in [Tasks -> Nat]
    BY <1>3 DEF TypeOK, EndCombination
  <2> QED
    BY <1>3, <2>2, <2>6, <2>7 DEF TypeOK, EndCombination
<1>4. ASSUME NEW t \in Tasks, TaskFails(t)
      PROVE  TypeOK'
  <2>1. tasks' \in [Tasks -> TaskEntry] /\ thread' \in [Tasks -> ThreadRecord] /\ EvaluatedInGrid'
    BY <1>4, GotoTypes, StatusTypes DEF TaskFails, Statuses, Places
  <2> QED
    BY <1>4, <2>1 DEF TypeOK, TaskFails, Fails, observed
<1>5. ASSUME NEW t \in Tasks, EndCancelled(t) \/ PublishStatus(t)
      PROVE  TypeOK'
  <2>1. tasks' \in [Tasks -> TaskEntry] /\ thread' \in [Tasks -> ThreadRecord] /\ EvaluatedInGrid'
    BY <1>5, GotoTypes, StatusTypes DEF EndCancelled, PublishStatus, Statuses, Places
  <2> QED
    BY <1>5, <2>1 DEF TypeOK, EndCancelled, PublishStatus, observed
<1>6. ASSUME NEW t \in Tasks, PublishResult(t)
      PROVE  TypeOK'
  <2>1. tasks' \in [Tasks -> TaskEntry]
    BY <1>6, ReturnedTypes DEF TypeOK, PublishResult, TaskEntry
  <2>2. thread' \in [Tasks -> ThreadRecord] /\ EvaluatedInGrid'
    BY <1>6, GotoTypes DEF PublishResult, Places
  <2> QED
    BY <1>6, <2>1, <2>2 DEF TypeOK, PublishResult, observed
<1>7. ASSUME NEW t \in Tasks, Persist(t)
      PROVE  TypeOK'
  <2>1. thread' \in [Tasks -> ThreadRecord] /\ EvaluatedInGrid'
    BY <1>7, GotoTypes DEF Persist, Places
  <2> QED
    BY <1>7, <2>1, ReturnedTypes DEF TypeOK, Persist, observed
<1>8. ASSUME NEW t \in Tasks, PersistFails(t)
      PROVE  TypeOK'
  <2>1. thread' \in [Tasks -> ThreadRecord] /\ EvaluatedInGrid'
    BY <1>8, GotoTypes DEF PersistFails, Places
  <2> QED
    BY <1>8, <2>1 DEF TypeOK, PersistFails, Fails, observed
<1>9. ASSUME NEW t \in Tasks, Cancel(t)
      PROVE  TypeOK'
  <2>1. tasks' \in [Tasks -> TaskEntry]
    BY <1>9 DEF TypeOK, Cancel, TaskEntry
  <2> QED
    BY <1>9, <2>1 DEF TypeOK, Cancel, EvaluatedInGrid, At
<1>10. ASSUME NEW t \in Tasks, PollCompleted(t) \/ DeleteRun(t)
       PROVE  TypeOK'
  BY <1>10 DEF TypeOK, PollCompleted, DeleteRun, EvaluatedInGrid, At
<1>11. ASSUME NEW r \in Requests, NEW t \in Tasks, AskResults(r, t)
       PROVE  TypeOK'
  <2>1. [NoRequest EXCEPT !.pc = "asking", !.task = t] \in RequestRecord
    BY DEF NoRequest, RequestRecord
  <2>2. [pc |-> "answered", task |-> t, answer |-> optimization_runs[t]] \in RequestRecord
    BY DEF TypeOK, RequestRecord
  <2>3. requests' \in [Requests -> RequestRecord]
    BY <1>11, <2>1, <2>2 DEF TypeOK, AskResults
  <2>4. \A q \in Requests : requests'[q].pc # "idle" => requests'[q].task \in Tasks
    <3>1. requests'[r].task = t
      <4>1. requests \in [Requests -> RequestRecord]
        BY DEF TypeOK
      <4>2. \E answer : requests' = [requests EXCEPT ![r] =
                          [pc |-> requests'[r].pc, task |-> t, answer |-> answer]]
        BY <1>11, <4>1 DEF AskResults, NoRequest
      <4> QED
        BY <4>1, <4>2
    <3>2. \A q \in Requests \ {r} : requests'[q] = requests[q]
      BY <1>11 DEF TypeOK, AskResults
    <3> QED
      BY <3>1, <3>2 DEF TypeOK
  <2> QED
    BY <1>11, <2>3, <2>4 DEF TypeOK, AskResults, observed, EvaluatedInGrid, At
<1>12. ASSUME NEW r \in Requests, AnswerResults(r)
       PROVE  TypeOK'
  <2>1. requests[r].task \in Tasks
    BY <1>12 DEF TypeOK, AnswerResults
  <2>2. tasks[requests[r].task].result \in Result \cup {NoResult}
    BY <2>1 DEF TypeOK, TaskEntry
  <2>3. [pc |-> "answered", task |-> requests[r].task,
         answer |-> tasks[requests[r].task].result] \in RequestRecord
    BY <2>1, <2>2 DEF RequestRecord
  <2>4. requests' \in [Requests -> RequestRecord]
    BY <1>12, <2>3, ConstantTypes DEF TypeOK, AnswerResults
  <2>5. \A q \in Requests : requests'[q].pc # "idle" => requests'[q].task \in Tasks
    BY <1>12, <2>1 DEF TypeOK, AnswerResults, NoRequest
  <2> QED
    BY <1>12, <2>4, <2>5 DEF TypeOK, AnswerResults, observed, EvaluatedInGrid, At
<1>13. ASSUME NEW r \in Requests, Forget(r)
       PROVE  TypeOK'
  BY <1>13, ConstantTypes DEF TypeOK, Forget, NoRequest, observed, EvaluatedInGrid, At
<1>14. CASE Crash
  <2>1. \A t \in Tasks : [thread[t] EXCEPT !.pc = "lost"] \in ThreadRecord
    <3>1. "lost" \in Places
      BY DEF Places
    <3>2. \A t \in Tasks : thread[t] \in ThreadRecord
      BY DEF TypeOK
    <3> QED
      BY <3>1, <3>2 DEF ThreadRecord
  <2>2. thread' \in [Tasks -> ThreadRecord]
    BY <1>14, <2>1, ConstantTypes DEF Crash
  <2>7. EvaluatedInGrid'
    BY <1>14 DEF Crash, EvaluatedInGrid, At, Unborn, TypeOK, ThreadRecord
  <2>3. requests' = [r \in Requests |-> NoRequest]
    BY <1>14 DEF Crash
  <2>4. \A q \in Requests : requests'[q].pc = "idle"
    BY <2>3 DEF NoRequest
  <2>5. requests' \in [Requests -> RequestRecord]
    BY <2>3, ConstantTypes
  <2>6. tasks' \in [Tasks -> TaskEntry]
    BY <1>14, ConstantTypes DEF Crash
  <2> QED
    BY <1>14, <2>2, <2>4, <2>5, <2>6, <2>7 DEF TypeOK, Crash, observed
<1>15. CASE UNCHANGED vars
  BY <1>15 DEF TypeOK, vars, observed, EvaluatedInGrid, At
<1> QED
  BY <1>1, <1>2, <1>3, <1>4, <1>5, <1>6, <1>7, <1>8, <1>9, <1>10, <1>11, <1>12, <1>13,
     <1>14, <1>15 DEF Next, Run

(* The dictionary, the threads, the table and the requests hold values of  *)
(* their types.                                                            *)
THEOREM TypeCorrect == Spec => []TypeOK
BY InitTypes, NextTypes, PTL DEF Spec

-----------------------------------------------------------------------------
LEMMA InitInv == Init => IInv
BY DEF Init, IInv, LeftEarlyWhenCancelled, PassedIsWhole, ResultsAreSettled, WholeResults,
       IsWhole, At, Unknown, Unborn, NoRequest

LEMMA NextInv ==
    ASSUME TypeOK, IInv, [Next]_vars
    PROVE  IInv'
<1> USE DEF TypeOK, IInv, LeftEarlyWhenCancelled, PassedIsWhole, ResultsAreSettled,
            WholeResults, IsWhole, Settled, At
<1>1. ASSUME NEW t \in Tasks, StartTask(t)
      PROVE  IInv'
  BY <1>1 DEF StartTask, Goto, Unknown
<1>2. ASSUME NEW t \in Tasks, BeginCombination(t)
      PROVE  IInv'
  BY <1>2 DEF BeginCombination, Goto
<1>3. ASSUME NEW t \in Tasks, NEW keep \in BOOLEAN, EndCombination(t, keep)
      PROVE  IInv'
  BY <1>3 DEF EndCombination
<1>4. ASSUME NEW t \in Tasks, LeaveLoop(t)
      PROVE  IInv'
  BY <1>4 DEF LeaveLoop, Goto
<1>5. ASSUME NEW t \in Tasks, TaskFails(t)
      PROVE  IInv'
  BY <1>5 DEF TaskFails, Goto
<1>6. ASSUME NEW t \in Tasks, EndCancelled(t)
      PROVE  IInv'
  BY <1>6 DEF EndCancelled, Goto
<1>7. ASSUME NEW t \in Tasks, PassCheck(t)
      PROVE  IInv'
  BY <1>7 DEF PassCheck, Goto
<1>8. ASSUME NEW t \in Tasks, PublishStatus(t)
      PROVE  IInv'
  BY <1>8 DEF PublishStatus, Goto
<1>9. ASSUME NEW t \in Tasks, PublishResult(t)
      PROVE  IInv'
  BY <1>9 DEF PublishResult, Returned, Goto
<1>10. ASSUME NEW t \in Tasks, Persist(t) \/ PersistFails(t)
       PROVE  IInv'
  <2>1. CASE Persist(t)
    <3>1. Returned(t).completed = Combinations /\ Returned(t).candidates = thread[t].candidates
      BY <2>1 DEF Persist, Returned
    <3>2. \A u \in Tasks : /\ thread'[u].completed = thread[u].completed
                          /\ thread'[u].candidates = thread[u].candidates
                          /\ thread'[u].pc = IF u = t THEN "ended" ELSE thread[u].pc
      BY <2>1 DEF Persist, Goto, ThreadRecord
    <3>3. \A u \in Tasks : optimization_runs'[u] = IF u = t THEN Returned(t)
                                                   ELSE optimization_runs[u]
      BY <2>1 DEF Persist
    <3>4. tasks' = tasks /\ requests' = requests
      BY <2>1 DEF Persist
    <3>5. LeftEarlyWhenCancelled' /\ PassedIsWhole' /\ ResultsAreSettled'
      BY <2>1, <3>2, <3>3, <3>4 DEF Persist
    <3>6. WholeResults'
      BY <3>1, <3>2, <3>3, <3>4
    <3> QED
      BY <3>5, <3>6
  <2>2. CASE PersistFails(t)
    BY <2>2 DEF PersistFails, Goto
  <2> QED
    BY <1>10, <2>1, <2>2
<1>11. ASSUME NEW t \in Tasks, Cancel(t) \/ PollCompleted(t) \/ DeleteRun(t)
       PROVE  IInv'
  <2>1. CASE Cancel(t)
    <3>1. \A u \in Tasks : /\ tasks'[u].result = tasks[u].result
                          /\ tasks[u].cancelled => tasks'[u].cancelled
      BY <2>1 DEF Cancel, TaskEntry
    <3> QED
      BY <2>1, <3>1 DEF Cancel
  <2>2. CASE PollCompleted(t)
    BY <2>2 DEF PollCompleted
  <2>3. CASE DeleteRun(t)
    BY <2>3 DEF DeleteRun
  <2> QED
    BY <1>11, <2>1, <2>2, <2>3
<1>12. ASSUME NEW r \in Requests, NEW t \in Tasks, AskResults(r, t)
       PROVE  IInv'
  <2>1. tasks' = tasks /\ thread' = thread /\ optimization_runs' = optimization_runs
    BY <1>12 DEF AskResults
  <2>2. \A q \in Requests \ {r} : requests'[q] = requests[q]
    BY <1>12 DEF AskResults
  <2>3. \/ requests'[r].pc = "asking"
        \/ /\ requests'[r].pc = "answered"
           /\ requests'[r].task = t /\ requests'[r].answer = optimization_runs[t]
           /\ optimization_runs[t] # NoResult
    <3>1. CASE requests' = [requests EXCEPT ![r] = [NoRequest EXCEPT !.pc = "asking", !.task = t]]
      BY <3>1 DEF NoRequest
    <3>2. CASE /\ optimization_runs[t] # NoResult
               /\ requests' = [requests EXCEPT ![r] =
                     [pc |-> "answered", task |-> t, answer |-> optimization_runs[t]]]
      BY <3>2
    <3> QED
      BY <1>12, <3>1, <3>2 DEF AskResults
  <2> QED
    BY <2>1, <2>2, <2>3
<1>13. ASSUME NEW r \in Requests, AnswerResults(r)
       PROVE  IInv'
  <2> DEFINE u == requests[r].task
  <2>1. tasks' = tasks /\ thread' = thread /\ optimization_runs' = optimization_runs
    BY <1>13 DEF AnswerResults
  <2>2. \A q \in Requests \ {r} : requests'[q] = requests[q]
    BY <1>13 DEF AnswerResults
  <2>3. u \in Tasks
    BY <1>13 DEF AnswerResults
  <2>4. \/ requests'[r].pc = "idle"
        \/ /\ requests'[r].pc = "answered"
           /\ requests'[r].task = u /\ requests'[r].answer = tasks[u].result
           /\ tasks[u].result # NoResult
    BY <1>13 DEF AnswerResults, NoRequest
  <2>5. LeftEarlyWhenCancelled' /\ PassedIsWhole'
    BY <2>1
  <2>6. ResultsAreSettled'
    BY <2>1, <2>2, <2>3, <2>4
  <2>7. WholeResults'
    BY <2>1, <2>2, <2>3, <2>4
  <2> QED
    BY <2>5, <2>6, <2>7
<1>14. ASSUME NEW r \in Requests, Forget(r)
       PROVE  IInv'
  BY <1>14 DEF Forget, NoRequest
<1>15. CASE Crash
  BY <1>15 DEF Crash, Unknown, Unborn, NoRequest
<1>16. CASE UNCHANGED vars
  BY <1>16 DEF vars
<1> QED
  BY <1>1, <1>2, <1>3, <1>4, <1>5, <1>6, <1>7, <1>8, <1>9, <1>10, <1>11, <1>12, <1>13,
     <1>14, <1>15, <1>16 DEF Next, Run

(* Whatever is cancelled, raised or lost, a result that is kept or served  *)
(* is the whole grid's.                                                    *)
THEOREM ResultsAreWhole == Spec => []WholeResults
<1>1. Spec => []IInv
  BY TypeCorrect, InitInv, NextInv, PTL DEF Spec
<1>2. IInv => WholeResults
  BY DEF IInv
<1> QED
  BY <1>1, <1>2, PTL

-----------------------------------------------------------------------------
LEMMA InitLate == Init => LateInv
BY DEF Init, LateInv, UnbornIsUnknown, AcknowledgedIsCancelled, LateIsOver,
       AtMostOneLateCombination, At, Unknown, Unborn

(* A thread that is past its loop is no longer spoken of.                  *)
LEMMA LeavingLate ==
    ASSUME TypeOK, LateInv, NEW t \in Tasks, NEW pc \in Places \ {"unborn", "loop", "evaluating"},
           Goto(t, pc), \A u \in Tasks \ {t} : tasks'[u] = tasks[u],
           UNCHANGED <<acknowledged, late>>
    PROVE  LateInv'
<1>1. \A u \in Tasks : thread'[u].pc = IF u = t THEN pc ELSE thread[u].pc
  BY DEF Goto, TypeOK, ThreadRecord
<1> QED
  BY <1>1 DEF TypeOK, LateInv, UnbornIsUnknown, AcknowledgedIsCancelled, LateIsOver,
              AtMostOneLateCombination, At

LEMMA NextLate ==
    ASSUME TypeOK, LateInv, [Next]_vars
    PROVE  LateInv'
<1> USE DEF TypeOK, TaskEntry, ThreadRecord, LateInv, UnbornIsUnknown,
            AcknowledgedIsCancelled, LateIsOver, AtMostOneLateCombination, At
<1>1. ASSUME NEW t \in Tasks, StartTask(t)
      PROVE  LateInv'
  BY <1>1 DEF StartTask, Goto, Unknown, observed
<1>2. ASSUME NEW t \in Tasks, BeginCombination(t)
      PROVE  LateInv'
  BY <1>2 DEF BeginCombination, Goto, observed
<1>3. ASSUME NEW t \in Tasks, NEW keep \in BOOLEAN, EndCombination(t, keep)
      PROVE  LateInv'
  <2>1. \A u \in Tasks : thread'[u].pc = IF u = t THEN "loop" ELSE thread[u].pc
    BY <1>3 DEF EndCombination
  <2>2. \A u \in Tasks : late'[u] = IF u = t /\ t \in acknowledged THEN 1 ELSE late[u]
    BY <1>3 DEF EndCombination
  <2> QED
    BY <1>3, <2>1, <2>2 DEF EndCombination
<1>4. ASSUME NEW t \in Tasks, LeaveLoop(t) \/ PassCheck(t)
      PROVE  LateInv'
  BY <1>4, LeavingLate DEF LeaveLoop, PassCheck, Places, observed
<1>5. ASSUME NEW t \in Tasks,
             TaskFails(t) \/ EndCancelled(t) \/ PublishStatus(t) \/ PublishResult(t)
      PROVE  LateInv'
  <2>1. \A u \in Tasks \ {t} : tasks'[u] = tasks[u]
    BY <1>5 DEF TaskFails, EndCancelled, PublishStatus, PublishResult
  <2> QED
    BY <1>5, <2>1, LeavingLate
       DEF TaskFails, EndCancelled, PublishStatus, PublishResult, Places, observed
<1>6. ASSUME NEW t \in Tasks, Persist(t) \/ PersistFails(t)
      PROVE  LateInv'
  BY <1>6, LeavingLate DEF Persist, PersistFails, Places, observed
<1>7. ASSUME NEW t \in Tasks, Cancel(t)
      PROVE  LateInv'
  BY <1>7 DEF Cancel
<1>8. ASSUME NEW t \in Tasks, PollCompleted(t) \/ DeleteRun(t)
      PROVE  LateInv'
  BY <1>8 DEF PollCompleted, DeleteRun
<1>9. ASSUME NEW r \in Requests,
             AnswerResults(r) \/ Forget(r) \/ \E t \in Tasks : AskResults(r, t)
      PROVE  LateInv'
  BY <1>9 DEF AnswerResults, Forget, AskResults, observed
<1>10. CASE Crash
  BY <1>10 DEF Crash, Unknown, Unborn, observed
<1>11. CASE UNCHANGED vars
  BY <1>11 DEF vars, observed
<1> QED
  BY <1>1, <1>2, <1>3, <1>4, <1>5, <1>6, <1>7, <1>8, <1>9, <1>10, <1>11 DEF Next, Run

(* Once a cancellation is acknowledged, the combination under way is the   *)
(* last one, whatever fails and however often the process dies.            *)
THEOREM OneLateCombination == Spec => []AtMostOneLateCombination
<1>1. Spec => []LateInv
  BY TypeCorrect, InitLate, NextLate, PTL DEF Spec
<1>2. LateInv => AtMostOneLateCombination
  BY DEF LateInv
<1> QED
  BY <1>1, <1>2, PTL
=============================================================================

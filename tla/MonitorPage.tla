---------------------------- MODULE MonitorPage ----------------------------
(***************************************************************************)
(* The page of the monitor (app/monitor/page.tsx): the strategies under    *)
(* watch, the signals and the price alerts, loaded together every thirty   *)
(* seconds, and what the user does to them in between.                     *)
(*                                                                         *)
(* A load is four calls, each served at its own time, whose answers are    *)
(* taken together.  Nothing orders a load and the other calls: the last    *)
(* answer wins.                                                            *)
(***************************************************************************)
EXTENDS PageCalls

CONSTANTS
    Strategies,
    Alerts,
    None,
    MaxLoads,     \* bound: loads in flight when the interval adds one
    MaxSignals    \* bound: signals the monitor emits

VARIABLES
    page,         \* the state of the component
    loads,        \* loads in flight, in the order they were sent
    calls,        \* the other calls, likewise
    server,       \* what the server keeps
    behind        \* observer: calls crossed, or failed, since the last load that met none

vars == <<page, loads, calls, server, behind, bounds>>

OrNone(values) == values \cup {None}

Listed == {"none", "active", "paused"}
JobStates == {"none", "running", "paused"}
Parts == {"strategies", "jobs", "signals", "alerts"}

(* What the four calls bring, and where: the alerts newest first.          *)
Data == [strategies: [Strategies -> Listed], jobs: [Strategies -> JobStates],
         signals: 0 .. MaxSignals, alerts: Seq(Alerts)]
Empty == [strategies |-> [s \in Strategies |-> "none"], jobs |-> [s \in Strategies |-> "none"],
          signals |-> 0, alerts |-> <<>>]

Page == [data: Data, loading: BOOLEAN, error: BOOLEAN, alertForm: {"empty", "filled"},
         creatingAlert: BOOLEAN, deleteTarget: OrNone(Alerts), deleting: BOOLEAN,
         telegramState: {"idle", "testing", "told"}]

Load == [got: SUBSET Parts, data: Data, alone: BOOLEAN]
Call == [kind: {"toggle", "jobs", "create", "delete", "telegram"},
         about: OrNone(Strategies \cup Alerts), answer: {"pending", "done", "failed"}, data: Data]

NewCall(kind, about) ==
    [kind |-> kind, about |-> about, answer |-> "pending", data |-> Empty]

Send(kind, about) ==
    /\ calls' = Append(calls, NewCall(kind, about))
    /\ loads' = [i \in DOMAIN loads |-> [loads[i] EXCEPT !.alone = FALSE]]
    /\ behind' = (behind \/ loads # <<>> \/ calls # <<>>)

-----------------------------------------------------------------------------
(* Loading.                                                                *)

LoadData ==
    /\ Len(loads) < MaxLoads
    /\ loads' = Append(loads, [got |-> {}, data |-> Empty, alone |-> loads = <<>> /\ calls = <<>>])
    /\ behind' = (behind \/ loads # <<>> \/ calls # <<>>)
    /\ UNCHANGED <<page, calls, server, bounds>>

(* The strategies are asked for with active_only.                          *)
Served(part) ==
    IF part = "strategies"
    THEN [s \in Strategies |-> IF server.strategies[s] = "active" THEN "active" ELSE "none"]
    ELSE server[part]

Serve(i, part) ==
    /\ part \in Parts \ loads[i].got
    /\ loads' = [loads EXCEPT ![i].got = @ \cup {part}, ![i].data[part] = Served(part)]
    /\ UNCHANGED <<page, calls, server, behind, bounds>>

LoadArrives(i) ==
    /\ loads[i].got = Parts
    /\ page' = [page EXCEPT !.data = loads[i].data, !.error = FALSE, !.loading = FALSE]
    /\ behind' = (behind /\ ~loads[i].alone)
    /\ loads' = RemoveAt(loads, i)
    /\ UNCHANGED <<calls, server, bounds>>

(* One of the four calls fails.                                            *)
LoadFails(i) ==
    /\ Fails
    /\ page' = [page EXCEPT !.error = TRUE, !.loading = FALSE]
    /\ loads' = RemoveAt(loads, i)
    /\ UNCHANGED <<calls, server, behind>>

-----------------------------------------------------------------------------
(* What the page shows.                                                    *)
ActiveJobs == {s \in Strategies : page.data.strategies[s] # "none" /\ page.data.jobs[s] # "paused"}

JobShown(s) == ~page.loading /\ page.deleteTarget = None /\ s \in ActiveJobs
AlertShown(a) == page.deleteTarget = None /\ a \in ToSet(page.data.alerts)

-----------------------------------------------------------------------------
(* The calls of the user.  Each fails before or after it reached the       *)
(* server.                                                                 *)
HandleToggle(s) ==
    /\ JobShown(s)
    /\ Clicks
    /\ Send("toggle", s)
    /\ UNCHANGED <<page, server>>

FillAlert ==
    /\ page.deleteTarget = None
    /\ page.alertForm = "empty"
    /\ page' = [page EXCEPT !.alertForm = "filled"]
    /\ UNCHANGED <<loads, calls, server, behind, bounds>>

Used == ToSet(server.alerts) \cup {calls[i].about : i \in DOMAIN calls}

HandleCreateAlert(a) ==
    /\ ~page.creatingAlert
    /\ page.deleteTarget = None
    /\ \/ /\ page.alertForm = "empty"
          /\ page' = [page EXCEPT !.error = TRUE]
          /\ UNCHANGED <<loads, calls, behind, bounds>>
       \/ /\ page.alertForm = "filled"
          /\ a \notin Used
          /\ Clicks
          /\ page' = [page EXCEPT !.creatingAlert = TRUE, !.error = FALSE]
          /\ Send("create", a)
    /\ UNCHANGED server

AskDelete(a) ==
    /\ AlertShown(a)
    /\ page' = [page EXCEPT !.deleteTarget = a]
    /\ UNCHANGED <<loads, calls, server, behind, bounds>>

(* The backdrop closes the dialog while the deletion runs, too.            *)
CancelDelete ==
    /\ page.deleteTarget # None
    /\ page' = [page EXCEPT !.deleteTarget = None]
    /\ UNCHANGED <<loads, calls, server, behind, bounds>>

HandleDeleteAlert ==
    /\ page.deleteTarget # None
    /\ ~page.deleting
    /\ Clicks
    /\ page' = [page EXCEPT !.deleting = TRUE, !.error = FALSE]
    /\ Send("delete", page.deleteTarget)
    /\ UNCHANGED server

HandleTestTelegram ==
    /\ page.telegramState # "testing"
    /\ page.deleteTarget = None
    /\ Clicks
    /\ page' = [page EXCEPT !.telegramState = "testing"]
    /\ Send("telegram", None)
    /\ UNCHANGED server

-----------------------------------------------------------------------------
(* The endpoints.                                                          *)
ToggleStrategy(s) ==
    LET active == server.strategies[s] # "active"
    IN  [server EXCEPT !.strategies[s] = IF active THEN "active" ELSE "paused",
                       !.jobs[s] = IF active THEN "running"
                                   ELSE IF @ = "none" THEN "none" ELSE "paused"]

CreatePriceAlert(a) == [server EXCEPT !.alerts = <<a>> \o @]
DeletePriceAlert(a) == [server EXCEPT !.alerts = Only(@, Alerts \ {a})]

(* What the server keeps once it has served a call.                        *)
After(call) ==
    CASE call.kind = "toggle" -> ToggleStrategy(call.about)
      [] call.kind = "create" -> CreatePriceAlert(call.about)
      [] call.kind = "delete" -> DeletePriceAlert(call.about)
      [] OTHER -> server

(* What the page takes from an answer: the strategy that was changed, or   *)
(* the jobs.                                                               *)
Answer(call, data) ==
    CASE call.kind = "toggle" -> [Empty EXCEPT !.strategies[call.about] = data.strategies[call.about]]
      [] call.kind = "jobs" -> [Empty EXCEPT !.jobs = data.jobs]
      [] OTHER -> Empty

Refused(call) == call.kind = "delete" /\ call.about \notin ToSet(server.alerts)

ServeCall(i) ==
    /\ calls[i].answer = "pending"
    /\ \/ /\ ~Refused(calls[i])
          /\ Succeeds
          /\ server' = After(calls[i])
          /\ calls' = [calls EXCEPT ![i].answer = "done", ![i].data = Answer(calls[i], server')]
          /\ UNCHANGED behind
       \/ /\ IF Refused(calls[i]) THEN Succeeds ELSE Fails
          /\ server' \in IF Refused(calls[i]) THEN {server} ELSE {server, After(calls[i])}
          /\ calls' = [calls EXCEPT ![i].answer = "failed"]
          /\ behind' = TRUE
    /\ UNCHANGED <<page, loads>>

-----------------------------------------------------------------------------
(* The answers.                                                            *)
ThenJobs(i) == calls' = Append(RemoveAt(calls, i), NewCall("jobs", None))

Toggled(i) ==
    /\ calls[i].kind = "toggle" /\ calls[i].answer = "done"
    /\ page' = [page EXCEPT !.data.strategies[calls[i].about] =
                   IF @ = "none" THEN @ ELSE calls[i].data.strategies[calls[i].about]]
    /\ ThenJobs(i)
    /\ UNCHANGED <<loads, server, behind, bounds>>

JobsArrive(i) ==
    /\ calls[i].kind = "jobs" /\ calls[i].answer = "done"
    /\ page' = [page EXCEPT !.data.jobs = calls[i].data.jobs]
    /\ calls' = RemoveAt(calls, i)
    /\ UNCHANGED <<loads, server, behind, bounds>>

ToggleFails(i) ==
    /\ calls[i].kind \in {"toggle", "jobs"} /\ calls[i].answer = "failed"
    /\ page' = [page EXCEPT !.error = TRUE]
    /\ calls' = RemoveAt(calls, i)
    /\ UNCHANGED <<loads, server, behind, bounds>>

(* Mutant: the alert is listed as it was typed, without the server's id.   *)
AlertCreatedTyped(i) ==
    /\ calls[i].kind = "create" /\ calls[i].answer # "pending"
    /\ page' = IF calls[i].answer = "done"
               THEN [page EXCEPT !.data.alerts = <<None>> \o @,
                                 !.alertForm = "empty", !.creatingAlert = FALSE]
               ELSE [page EXCEPT !.error = TRUE, !.creatingAlert = FALSE]
    /\ calls' = RemoveAt(calls, i)
    /\ UNCHANGED <<loads, server, behind, bounds>>

(* The form is emptied, of what was typed since the button was pressed too.*)
AlertCreated(i) ==
    /\ calls[i].kind = "create" /\ calls[i].answer # "pending"
    /\ page' = IF calls[i].answer = "done"
               THEN [page EXCEPT !.data.alerts = <<calls[i].about>> \o @,
                                 !.alertForm = "empty", !.creatingAlert = FALSE]
               ELSE [page EXCEPT !.error = TRUE, !.creatingAlert = FALSE]
    /\ calls' = RemoveAt(calls, i)
    /\ UNCHANGED <<loads, server, behind, bounds>>

(* It closes the dialog, whichever alert the dialog is about by then.      *)
AlertDeleted(i) ==
    /\ calls[i].kind = "delete" /\ calls[i].answer # "pending"
    /\ page' = IF calls[i].answer = "done"
               THEN [page EXCEPT !.data.alerts = Only(@, Alerts \ {calls[i].about}),
                                 !.deleteTarget = None, !.deleting = FALSE]
               ELSE [page EXCEPT !.error = TRUE, !.deleting = FALSE]
    /\ calls' = RemoveAt(calls, i)
    /\ UNCHANGED <<loads, server, behind, bounds>>

(* That the message was sent, or why not, is only told.                    *)
TelegramTested(i) ==
    /\ calls[i].kind = "telegram" /\ calls[i].answer # "pending"
    /\ page' = [page EXCEPT !.telegramState = "told", !.error = (calls[i].answer = "failed")]
    /\ calls' = RemoveAt(calls, i)
    /\ UNCHANGED <<loads, server, behind, bounds>>

-----------------------------------------------------------------------------
(* The monitor, see Monitor.                                               *)
EmitSignal ==
    /\ server.signals < MaxSignals
    /\ server' = [server EXCEPT !.signals = @ + 1]
    /\ loads' = [i \in DOMAIN loads |-> [loads[i] EXCEPT !.alone = FALSE]]
    /\ behind' = TRUE
    /\ UNCHANGED <<page, calls, bounds>>

Init ==
    /\ page = [data |-> Empty, loading |-> TRUE, error |-> FALSE, alertForm |-> "empty",
               creatingAlert |-> FALSE, deleteTarget |-> None, deleting |-> FALSE,
               telegramState |-> "idle"]
    /\ loads = <<>>
    /\ calls = <<>>
    /\ server = [Empty EXCEPT !.strategies = [s \in Strategies |-> "active"],
                              !.jobs = [s \in Strategies |-> "running"]]
    /\ behind = TRUE
    /\ clicks = 0 /\ failures = 0

Arrives(i) ==
    \/ Toggled(i) \/ JobsArrive(i) \/ ToggleFails(i)
    \/ AlertCreated(i) \/ AlertDeleted(i) \/ TelegramTested(i)

Next ==
    \/ LoadData
    \/ \E i \in DOMAIN loads :
          LoadArrives(i) \/ LoadFails(i) \/ \E part \in Parts : Serve(i, part)
    \/ \E s \in Strategies : HandleToggle(s)
    \/ FillAlert
    \/ \E a \in Alerts : HandleCreateAlert(a) \/ AskDelete(a)
    \/ CancelDelete
    \/ HandleDeleteAlert
    \/ HandleTestTelegram
    \/ \E i \in DOMAIN calls : ServeCall(i) \/ Arrives(i)
    \/ EmitSignal

(* No call is forgotten for good, and the interval goes on.                *)
OldestLoad == loads # <<>> /\ (LoadArrives(1) \/ \E part \in Parts : Serve(1, part))
OldestCall == calls # <<>> /\ (ServeCall(1) \/ Arrives(1))

Fairness == WF_vars(LoadData) /\ WF_vars(OldestLoad) /\ WF_vars(OldestCall)

Spec == Init /\ [][Next]_vars
FairSpec == Spec /\ Fairness

-----------------------------------------------------------------------------
(* The state of the page, its calls and the server keep their types.       *)
TypeOK ==
    /\ page \in Page
    /\ loads \in Seq(Load) /\ calls \in Seq(Call)
    /\ server \in Data
    /\ behind \in BOOLEAN
    /\ clicks \in 0 .. MaxClicks /\ failures \in 0 .. MaxFailures

Mirrors ==
    /\ ActiveJobs = {s \in Strategies : server.strategies[s] = "active"}
    /\ page.data.signals = server.signals
    /\ page.data.alerts = server.alerts

(* The page changes its lists itself after each call instead of loading    *)
(* them (page.tsx:115, 142, 160): when it waits for nothing, and its calls *)
(* neither crossed nor failed since a load that met none, it shows the     *)
(* strategies under watch, the signals and the alerts the server keeps, in *)
(* their order.                                                            *)
MonitorShowsServer == (loads = <<>> /\ calls = <<>> /\ ~behind) => Mirrors

(* Why it does.  A strategy is active and its job runs, or both pause.     *)
JobsFollow == \A s \in Strategies :
    <<server.strategies[s], server.jobs[s]>> \in {<<"active", "running">>, <<"paused", "paused">>}

AlertsAreMeant == \A i \in DOMAIN calls : calls[i].kind = "create" => calls[i].about \in Alerts

(* What the loads in flight were served is what the server still has: so   *)
(* it is while one of them is alone.                                       *)
LoadsAreFresh ==
    \A i \in DOMAIN loads : \A part \in loads[i].got : loads[i].data[part] = Served(part)
AloneIsFresh == (\E i \in DOMAIN loads : loads[i].alone) => calls = <<>> /\ LoadsAreFresh

(* What the only call in flight says of the page.  A toggle is told first  *)
(* of the strategy, then of the jobs; until both are, the page lists the   *)
(* active strategies at least.                                             *)
StillListed == \A s \in Strategies :
    server.strategies[s] = "active" => page.data.strategies[s] # "none"
Halfway(call) == call.kind = "jobs" \/ (call.kind = "toggle" /\ call.answer = "done")

StrategiesExpect(call) ==
    IF Halfway(call)
    THEN /\ StillListed
         /\ call.answer = "done" =>
               IF call.kind = "jobs" THEN call.data.jobs = server.jobs
               ELSE call.about \in Strategies =>
                      call.data.strategies[call.about] = server.strategies[call.about]
    ELSE /\ ActiveJobs = {s \in Strategies : server.strategies[s] = "active"}
         /\ call.kind = "toggle" => call.about \in ActiveJobs

AlertsExpect(call) ==
    server.alerts = IF call.answer = "done" /\ call.kind = "create"
                    THEN <<call.about>> \o page.data.alerts
                    ELSE IF call.answer = "done" /\ call.kind = "delete"
                    THEN Only(page.data.alerts, Alerts \ {call.about})
                    ELSE page.data.alerts

Expected(call) ==
    /\ call.answer # "failed"
    /\ page.data.signals = server.signals
    /\ StrategiesExpect(call)
    /\ AlertsExpect(call)

Told ==
    \/ calls = <<>> /\ LoadsAreFresh /\ Mirrors
    \/ loads = <<>> /\ Len(calls) = 1 /\ Expected(calls[1])

MonitorInv == TypeOK /\ AlertsAreMeant /\ JobsFollow /\ AloneIsFresh /\ (~behind => Told)

(* The interval mends what crossing and failing calls left on the screen   *)
(* (page.tsx:95): in the end the page shows what the server keeps, for     *)
(* good.                                                                   *)
MonitorCatchesUp == <>[]Mirrors

(* What crossing calls do: a load served after an alert was created, and   *)
(* answered before the creation is, lists the alert twice (page.tsx:142).  *)
AlertsListedOnce == IsInjective(page.data.alerts)
=============================================================================

----------------------------- MODULE SweepPage -----------------------------
(***************************************************************************)
(* The page of the mass sweep (app/sweep/page.tsx): it starts a sweep,     *)
(* asks for its status every three seconds while it runs, and loads the    *)
(* results and the history when it reads that one completed.  The server   *)
(* is SweepEngine seen from outside, with a scan that always finds results.*)
(*                                                                         *)
(* Nothing keeps two calls of a kind from being in flight, and each answer *)
(* replaces what an earlier one brought.  The regimes, their table and the *)
(* options of a sweep are left out.                                        *)
(***************************************************************************)
EXTENDS PageCalls

CONSTANTS
    MaxSweeps,    \* bound: sweeps started
    MaxCalls      \* bound: polls in flight when the interval adds one

VARIABLES
    page,         \* the state of the component, its interval and its timeout
    polls,        \* calls for the status in flight, in the order they were sent
    loads,        \* calls for the results and the history, likewise
    run,          \* what handleRun awaits
    state,        \* _state of the service
    threads,      \* the pipelines
    rows,         \* the rows of sweep_runs, in the order they were written
    unseen,       \* observer: a start that did not end with the page told it runs
    disturbed     \* observer: an answer was overtaken, or a load failed without a word

calls == <<polls, loads, run>>
server == <<state, threads, rows>>
observed == <<unseen, disturbed>>
vars == <<page, calls, server, observed, bounds>>

Sweeps == 1 .. MaxSweeps                \* 0: none
Statuses == {"idle", "running", "completed", "failed"}

(* Whose results, and how much of them.                                    *)
Results == [sweep: {0} \cup Sweeps, part: {"none", "some", "all"}]
Nothing == [sweep |-> 0, part |-> "none"]

State == [status: Statuses, sweep: {0} \cup Sweeps, results: Results]
Idle == [status |-> "idle", sweep |-> 0, results |-> Nothing]
Row == [sweep: Sweeps, status: {"completed", "failed"}]

(* Of a pipeline; from Working on it wrote that it runs.                   *)
Working == {"running", "scanned", "persisted", "failing"}
Stages == {"unborn", "started", "ended"} \cup Working

Poll == [answer: Statuses \cup {"pending", "lost"}, awaited: BOOLEAN]
Load == [kind: {"results", "history"}, answer: {"pending", "done", "lost"},
         results: Results, history: SUBSET Sweeps, awaited: BOOLEAN]

Page == [status: Statuses, results: Results, history: SUBSET Sweeps,
         starting: BOOLEAN, interval: BOOLEAN, reload: BOOLEAN]

NewPoll(awaited) == [answer |-> "pending", awaited |-> awaited]
NewLoad(kind, awaited) ==
    [kind |-> kind, answer |-> "pending", results |-> Nothing, history |-> {},
     awaited |-> awaited]

-----------------------------------------------------------------------------
(* The status.                                                             *)
GetStatus(i) ==
    /\ polls[i].answer = "pending"
    /\ \/ Succeeds /\ polls' = [polls EXCEPT ![i].answer = state.status]
       \/ Fails /\ polls' = [polls EXCEPT ![i].answer = "lost"]
    /\ disturbed' = (disturbed \/ \E o \in 1 .. i - 1 : polls[o].answer = "pending")
    /\ UNCHANGED <<page, loads, run, server, unseen>>

Tick ==
    /\ page.interval
    /\ Len(polls) < MaxCalls
    /\ polls' = Append(polls, NewPoll(FALSE))
    /\ UNCHANGED <<page, loads, run, server, observed, bounds>>

(* Mutant: the effect of a status that changed loads nothing.              *)
WithStatusAlone(p, status) ==
    [p EXCEPT !.status = status, !.interval = (status = "running")]

(* The effects run when what they depend on changed: one sets or clears the*)
(* interval, one the timeout that loads everything again.                  *)
WithStatus(p, status) ==
    [p EXCEPT !.status = status,
              !.interval = (status = "running"),
              !.reload = IF status = p.status THEN @ ELSE status = "completed"]

(* handleRun goes on to the history, whatever the status was.              *)
PollArrives(i) ==
    /\ polls[i].answer # "pending"
    /\ polls' = RemoveAt(polls, i)
    /\ page' = IF polls[i].answer = "lost"
               THEN page
               ELSE WithStatus(page, polls[i].answer)
    /\ IF polls[i].awaited
       THEN run' = "history" /\ loads' = Append(loads, NewLoad("history", TRUE))
       ELSE UNCHANGED <<run, loads>>
    /\ unseen' = (unseen \/ (polls[i].awaited /\ polls[i].answer # "running"))
    /\ disturbed' = (disturbed \/ i > 1)
    /\ UNCHANGED <<server, bounds>>

-----------------------------------------------------------------------------
(* The results and the history.                                            *)
Reload ==
    /\ page.reload
    /\ page' = [page EXCEPT !.reload = FALSE]
    /\ loads' = loads \o <<NewLoad("results", FALSE), NewLoad("history", FALSE)>>
    /\ UNCHANGED <<polls, run, server, observed, bounds>>

(* The results in memory, and where there are none the last row's.         *)
GetResults ==
    CASE state.results.part # "none" -> state.results
      [] state.results.part = "none" /\ rows # <<>> ->
             [sweep |-> Last(rows).sweep,
              part |-> IF Last(rows).status = "completed" THEN "all" ELSE "none"]
      [] OTHER -> Nothing

ListSweepHistory == {rows[i].sweep : i \in DOMAIN rows}

GetLoad(i) ==
    /\ loads[i].answer = "pending"
    /\ \/ /\ Succeeds
          /\ loads' = [loads EXCEPT ![i].answer = "done",
                 ![i].results = IF loads[i].kind = "results" THEN GetResults ELSE @,
                 ![i].history = IF loads[i].kind = "history" THEN ListSweepHistory ELSE @]
       \/ /\ Fails
          /\ loads' = [loads EXCEPT ![i].answer = "lost"]
    /\ disturbed' = \/ disturbed
                    \/ \E o \in 1 .. i - 1 :
                          loads[o].kind = loads[i].kind /\ loads[o].answer = "pending"
    /\ UNCHANGED <<page, polls, run, server, unseen>>

LoadArrives(i) ==
    /\ loads[i].answer # "pending"
    /\ loads' = RemoveAt(loads, i)
    /\ page' = [page EXCEPT
           !.results = IF loads[i].kind = "results" /\ loads[i].answer = "done"
                       THEN loads[i].results ELSE @,
           !.history = IF loads[i].kind = "history" /\ loads[i].answer = "done"
                       THEN loads[i].history ELSE @,
           !.starting = @ /\ ~loads[i].awaited]
    /\ run' = IF loads[i].awaited THEN "none" ELSE run
    /\ disturbed' = \/ disturbed
                    \/ loads[i].answer = "lost"
                    \/ \E o \in 1 .. i - 1 : loads[o].kind = loads[i].kind
    /\ UNCHANGED <<polls, server, unseen, bounds>>

-----------------------------------------------------------------------------
(* Starting a sweep.                                                       *)
HandleRun ==
    /\ ~page.starting
    /\ page.status # "running"
    /\ Clicks
    /\ page' = [page EXCEPT !.starting = TRUE]
    /\ run' = "post"
    /\ UNCHANGED <<polls, loads, server, observed>>

Running(s) == [status |-> "running", sweep |-> s, results |-> [sweep |-> s, part |-> "none"]]

Unborn == {s \in Sweeps : threads[s] = "unborn"}
NextSweep == CHOOSE s \in Unborn : \A o \in Unborn : s <= o

(* The answer has the number of the sweep that wrote it last: while none   *)
(* did, the answer is the one that refuses a second sweep.                 *)
RunSweep ==
    /\ run = "post"
    /\ \/ /\ Succeeds
          /\ state.status = "running"
          /\ run' = "refused"
          /\ UNCHANGED <<state, threads>>
       \/ /\ Succeeds
          /\ state.status # "running" /\ Unborn # {}
          /\ \/ /\ threads' = [threads EXCEPT ![NextSweep] = "started"]
                /\ run' = IF state.sweep = 0 THEN "refused" ELSE "accepted"
                /\ UNCHANGED state
             \/ /\ threads' = [threads EXCEPT ![NextSweep] = "running"]
                /\ state' = Running(NextSweep)
                /\ run' = "accepted"
       \/ /\ Fails
          /\ run' = "refused"
          /\ threads' \in {threads} \cup
                 IF state.status # "running" /\ Unborn # {}
                 THEN {[threads EXCEPT ![NextSweep] = "started"]} ELSE {}
          /\ UNCHANGED state
    /\ UNCHANGED <<page, polls, loads, rows, observed>>

Started ==
    /\ \/ /\ run = "accepted"
          /\ run' = "status"
          /\ polls' = Append(polls, NewPoll(TRUE))
          /\ UNCHANGED <<page, unseen>>
       \/ /\ run = "refused"
          /\ run' = "none"
          /\ page' = [page EXCEPT !.starting = FALSE]
          /\ unseen' = TRUE
          /\ UNCHANGED polls
    /\ UNCHANGED <<loads, server, disturbed, bounds>>

-----------------------------------------------------------------------------
(* The pipeline.                                                           *)
Begin(s) ==
    /\ threads[s] = "started"
    /\ Succeeds
    /\ threads' = [threads EXCEPT ![s] = "running"]
    /\ state' = Running(s)
    /\ UNCHANGED rows

Scan(s) ==
    /\ threads[s] = "running"
    /\ Succeeds
    /\ threads' = [threads EXCEPT ![s] = "scanned"]
    /\ state' = [state EXCEPT !.results = [sweep |-> s, part |-> "some"]]
    /\ UNCHANGED rows

Persist(s) ==
    /\ threads[s] = "scanned"
    /\ threads' = [threads EXCEPT ![s] = "persisted"]
    /\ \/ Succeeds /\ rows' = Append(rows, [sweep |-> s, status |-> "completed"])
       \/ Fails /\ UNCHANGED rows
    /\ UNCHANGED state

Complete(s) ==
    /\ threads[s] = "persisted"
    /\ Succeeds
    /\ threads' = [threads EXCEPT ![s] = "ended"]
    /\ state' = [state EXCEPT !.status = "completed", !.results = [sweep |-> s, part |-> "all"]]
    /\ UNCHANGED rows

(* An exception: the row is tried first, and then the status is written.   *)
Fail(s) ==
    /\ threads[s] \in {"running", "scanned"}
    /\ Fails
    /\ threads' = [threads EXCEPT ![s] = "failing"]
    /\ rows' \in {rows, Append(rows, [sweep |-> s, status |-> "failed"])}
    /\ UNCHANGED state

PublishFailure(s) ==
    /\ threads[s] = "failing"
    /\ Succeeds
    /\ threads' = [threads EXCEPT ![s] = "ended"]
    /\ state' = [state EXCEPT !.status = "failed"]
    /\ UNCHANGED rows

RunPipeline(s) ==
    /\ \/ Begin(s) \/ Scan(s) \/ Persist(s) \/ Complete(s)
       \/ Fail(s) \/ PublishFailure(s)
    /\ UNCHANGED <<page, calls, observed>>

(* The process dies and starts again: its threads and _state are gone.     *)
Restart ==
    /\ Fails
    /\ threads' = [s \in Sweeps |-> IF threads[s] = "unborn" THEN "unborn" ELSE "ended"]
    /\ state' = Idle
    /\ UNCHANGED <<page, calls, rows, observed>>

-----------------------------------------------------------------------------
(* The page has what it asked for when it was mounted: there was no sweep. *)
Init ==
    /\ page = [status |-> "idle", results |-> Nothing, history |-> {}, starting |-> FALSE,
               interval |-> FALSE, reload |-> FALSE]
    /\ polls = <<>>
    /\ loads = <<>>
    /\ run = "none"
    /\ state = Idle
    /\ threads = [s \in Sweeps |-> "unborn"]
    /\ rows = <<>>
    /\ unseen = FALSE /\ disturbed = FALSE
    /\ clicks = 0 /\ failures = 0

Next ==
    \/ Tick
    \/ Reload
    \/ HandleRun
    \/ RunSweep
    \/ Started
    \/ Restart
    \/ \E i \in DOMAIN polls : GetStatus(i) \/ PollArrives(i)
    \/ \E i \in DOMAIN loads : GetLoad(i) \/ LoadArrives(i)
    \/ \E s \in Sweeps : RunPipeline(s)

(* No call is forgotten for good, and the timers and threads go on.        *)
OldestPoll == polls # <<>> /\ (GetStatus(1) \/ PollArrives(1))
OldestLoad == loads # <<>> /\ (GetLoad(1) \/ LoadArrives(1))

Fairness ==
    /\ WF_vars(Tick) /\ WF_vars(Reload)
    /\ WF_vars(RunSweep) /\ WF_vars(Started)
    /\ WF_vars(OldestPoll) /\ WF_vars(OldestLoad)
    /\ \A s \in Sweeps : WF_vars(RunPipeline(s))

Spec == Init /\ [][Next]_vars
FairSpec == Spec /\ Fairness

-----------------------------------------------------------------------------
(* The state of the page, its calls and the server keep their types.       *)
TypeOK ==
    /\ page \in Page
    /\ polls \in Seq(Poll) /\ loads \in Seq(Load)
    /\ run \in {"none", "post", "accepted", "refused", "status", "history"}
    /\ state \in State
    /\ threads \in [Sweeps -> Stages]
    /\ rows \in Seq(Row)
    /\ {unseen, disturbed} \subseteq BOOLEAN
    /\ clicks \in 0 .. MaxClicks /\ failures \in 0 .. MaxFailures

Quiet == polls = <<>> /\ loads = <<>> /\ run = "none" /\ ~page.reload

LastSweepIsShown ==
    \E s \in Sweeps \ Unborn :
        /\ \A o \in Sweeps \ Unborn : o <= s
        /\ (\E i \in DOMAIN rows : rows[i].sweep = s) =>
               page.results = [sweep |-> s, part |-> "all"] /\ s \in page.history

(* Once the page says that a sweep completed and waits for nothing, it     *)
(* shows the last sweep, whole, and its row of the history (page.tsx:122,  *)
(* 317), although results and history are loaded only when the status      *)
(* changes: every sweep it was told of brings that change.  The exceptions *)
(* are a sweep that was never seen running, because its status was read    *)
(* before its thread wrote it, answers that overtook one another, and      *)
(* loads that fail without a word.                                         *)
CompletedShowsAll ==
    (page.status = "completed" /\ Quiet /\ ~disturbed /\ ~unseen) => LastSweepIsShown

(* The same without the first exception: what the page says of itself,     *)
(* "Sweep completado. Resultados disponibles abajo." (page.tsx:318).       *)
ResultsAreBelow == (page.status = "completed" /\ Quiet /\ ~disturbed) => LastSweepIsShown

(* The page does not stay at a sweep that runs, and its button comes back  *)
(* (page.tsx:113, 133): the interval lives as long as the status does, and *)
(* a poll that fails is not the last.                                      *)
SweepOver == page.status # "running" /\ ~page.starting
SweepIsFollowed == []<>SweepOver

-----------------------------------------------------------------------------
(***************************************************************************)
(* What makes CompletedShowsAll inductive.                                 *)
(***************************************************************************)
IsLast(s) == threads[s] # "unborn" /\ \A o \in Sweeps : o > s => threads[o] = "unborn"
HasRow(s) == \E i \in DOMAIN rows : rows[i].sweep = s

(* The last sweep is over, and nothing was written since.                  *)
RowIsLast(s) == HasRow(s) => Last(rows) = [sweep |-> s, status |-> "completed"]
IsOver(s) ==
    /\ IsLast(s) /\ threads[s] = "ended" /\ RowIsLast(s)
    /\ state \in {Idle, [status |-> "completed", sweep |-> s,
                          results |-> [sweep |-> s, part |-> "all"]]}
Finished == \E s \in Sweeps : IsOver(s)

(* Sweeps are born in order, a sweep has a row once it was stored, and the *)
(* status says running for one that does.                                  *)
ServerIsSound ==
    /\ \A s, o \in Sweeps : o < s /\ threads[s] # "unborn" => threads[o] # "unborn"
    /\ \A s \in Sweeps :
          threads[s] \in {"unborn", "started", "running", "scanned"} => ~HasRow(s)
    /\ state.status = "running" =>
          state.sweep \in Sweeps /\ threads[state.sweep] \in Working

(* The call handleRun awaits is the only one that is awaited.              *)
OneIsAwaited ==
    /\ run # "none" => page.starting
    /\ run = "status" => \E k \in DOMAIN polls : polls[k].awaited
    /\ \A k \in DOMAIN polls : polls[k].awaited =>
          run = "status" /\ \A j \in DOMAIN polls : polls[j].awaited => j = k
    /\ \A k \in DOMAIN loads : loads[k].awaited =>
          run = "history" /\ \A j \in DOMAIN loads : loads[j].awaited => j = k

(* While the page was told of every sweep that it runs, one runs at a time:*)
(* the last.                                                               *)
SweepsAreApart ==
    /\ \A s \in Sweeps :
          /\ threads[s] \notin {"unborn", "ended"} => IsLast(s)
          /\ threads[s] \in Working =>
                state.status = "running" /\ state.sweep = s
          /\ threads[s] = "persisted" => RowIsLast(s)
          /\ threads[s] = "started" =>
                \/ run \in {"accepted", "refused"}
                \/ /\ run = "status"
                   /\ \A k \in DOMAIN polls : polls[k].awaited => polls[k].answer # "running"
    /\ state.status = "completed" /\ (\A s \in Sweeps : threads[s] # "started") => Finished

(* "completed" is said of the last sweep, but by polls that were answered  *)
(* before it was seen running, or when it will not be.                     *)
WillBeUnseen ==
    \/ run = "refused"
    \/ \E k \in DOMAIN polls : polls[k].awaited /\ polls[k].answer \notin {"pending", "running"}
IsBefore(k) == run = "accepted" \/ \E j \in DOMAIN polls : polls[j].awaited /\ k <= j
PollsTell ==
    \A k \in DOMAIN polls :
        polls[k].answer = "completed" => WillBeUnseen \/ IsBefore(k) \/ Finished

(* The last load of a kind brings what the page lacks.                     *)
LastOf(kind, k) ==
    loads[k].kind = kind /\ \A j \in DOMAIN loads : loads[j].kind = kind => j <= k
ResultsCome(s) ==
    /\ \A k \in DOMAIN loads : LastOf("results", k) /\ loads[k].answer = "done" =>
          loads[k].results = [sweep |-> s, part |-> "all"]
    /\ (\A k \in DOMAIN loads : loads[k].kind # "results") =>
          page.results = [sweep |-> s, part |-> "all"]
RowComes(s) ==
    /\ \A k \in DOMAIN loads : LastOf("history", k) /\ loads[k].answer = "done" =>
          s \in loads[k].history
    /\ (\A k \in DOMAIN loads : loads[k].kind # "history") => s \in page.history
LoadsBring ==
    page.status = "completed" /\ run \in {"none", "post", "history"} =>
        /\ Finished
        /\ \/ page.reload
           \/ \A s \in Sweeps : IsLast(s) /\ HasRow(s) => ResultsCome(s) /\ RowComes(s)

SweepInv ==
    /\ TypeOK /\ ServerIsSound /\ OneIsAwaited
    /\ unseen \/ SweepsAreApart
    /\ unseen \/ disturbed \/ (PollsTell /\ LoadsBring)
=============================================================================

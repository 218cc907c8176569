---------------------------- MODULE BacktestPage ----------------------------
(***************************************************************************)
(* Backtests from the page that asks for them to the thread that runs      *)
(* them: app/backtest/page.tsx and api/routers/backtest.py, over the list  *)
(* of RunHistory.                                                          *)
(*                                                                         *)
(* One chain of calls follows each run: the request that starts it, then   *)
(* poll after poll, with a timer between.  All chains share one reference  *)
(* to a timer and one flag that says a poll is in flight.                  *)
(***************************************************************************)
EXTENDS RunHistory

VARIABLES
    chain,      \* the call or the timer that follows each run
    timer,      \* pollTimer: the run whose timer was set last
    asked,      \* observer: the run the user asked for last
    left        \* observer: the user left a run while a call about it was in flight

following == <<chain, timer>>
observed == <<asked, left>>
vars == <<page, lists, following, server, overtaken, observed, bounds>>

Page == [view: {"history", "form", "detail"}, runs: SUBSET Runs, historyLoading: BOOLEAN,
         historyError: BOOLEAN, selectedDetail: OrNone(RunDetail), pendingRequest: OrNone(Runs),
         running: BOOLEAN, runError: BOOLEAN, itemToDelete: OrNone(Runs),
         deleteLoading: BOOLEAN]

(* ended: the chain neither awaits anything nor will.                      *)
Chain == [stage: {"none", "starting", "asking", "answered", "waiting", "ended"},
          answer: {"pending", "running", "completed", "error", "failed"}]

InFlight(r) == chain[r].stage \in {"starting", "asking", "answered"}
PollInFlight == \E r \in Runs : chain[r].stage \in {"asking", "answered"}

At(c, r, stage) == [c EXCEPT ![r] = [stage |-> stage, answer |-> "pending"]]

StopPolling(c) ==
    IF timer # None /\ c[timer].stage = "waiting" THEN At(c, timer, "ended") ELSE c

(* A poll that finds another in flight returns, and sets no timer.         *)
Poll(r) == chain' = At(chain, r, IF PollInFlight THEN "ended" ELSE "asking")

-----------------------------------------------------------------------------
(* Following a run.                                                        *)
HandleRun(r) ==
    /\ Clickable("form")
    /\ ~page.running
    /\ server[r] = "unborn"
    /\ chain[r].stage = "none"
    /\ Clicks
    /\ page' = [page EXCEPT !.running = TRUE, !.runError = FALSE]
    /\ chain' = At(StopPolling(chain), r, "starting")
    /\ timer' = None
    /\ asked' = r
    /\ UNCHANGED <<lists, server, overtaken, left>>

(* A call that fails may have reached the server.                          *)
RunEndpoint(r) ==
    /\ chain[r] = [stage |-> "starting", answer |-> "pending"]
    /\ \/ /\ Succeeds
          /\ chain' = [chain EXCEPT ![r].answer = "running"]
          /\ server' = [server EXCEPT ![r] = "running"]
       \/ /\ Fails
          /\ chain' = [chain EXCEPT ![r].answer = "failed"]
          /\ server' \in {server, [server EXCEPT ![r] = "running"]}
    /\ UNCHANGED <<page, timer, lists, overtaken, observed>>

Started(r) ==
    /\ chain[r].stage = "starting"
    /\ \/ /\ chain[r].answer = "running"
          /\ Poll(r)
          /\ UNCHANGED page
       \/ /\ chain[r].answer = "failed"
          /\ chain' = At(chain, r, "ended")
          /\ page' = [page EXCEPT !.running = FALSE, !.runError = TRUE]
    /\ UNCHANGED <<timer, lists, server, overtaken, observed, bounds>>

GetBacktestResults(r) ==
    /\ chain[r].stage = "asking"
    /\ \/ /\ Succeeds
          /\ chain' = [chain EXCEPT ![r] =
                 [stage |-> "answered",
                  answer |-> CASE server[r] \in {"completed", "kept", "lost"} -> "completed"
                               [] server[r] \in {"deleted", "gone"} -> "failed"
                               [] OTHER -> server[r]]]
       \/ /\ Fails
          /\ chain' = [chain EXCEPT ![r] = [stage |-> "answered", answer |-> "failed"]]
    /\ UNCHANGED <<page, timer, lists, server, overtaken, observed>>

ResultArrives(r) ==
    /\ chain[r].stage = "answered"
    /\ chain[r].answer = "completed"
    /\ chain' = At(chain, r, "ended")
    /\ page' = [page EXCEPT !.selectedDetail = [id |-> r, request |-> r], 
                            !.running = FALSE, !.view = "detail", !.historyLoading = TRUE]
    /\ loads' = Append(loads, Sent)
    /\ UNCHANGED <<timer, details, deletion, server, overtaken, observed, bounds>>

ErrorArrives(r) ==
    /\ chain[r].stage = "answered"
    /\ chain[r].answer \in {"error", "failed"}
    /\ chain' = At(chain, r, "ended")
    /\ page' = [page EXCEPT !.running = FALSE, !.runError = TRUE]
    /\ UNCHANGED <<timer, lists, server, overtaken, observed, bounds>>

(* Mutant: a poll that finds the run still going sets no timer.            *)
StillRunningForgets(r) ==
    /\ chain[r].stage = "answered"
    /\ chain[r].answer = "running"
    /\ chain' = At(chain, r, "ended")
    /\ UNCHANGED <<page, timer, lists, server, overtaken, observed, bounds>>

StillRunning(r) ==
    /\ chain[r].stage = "answered"
    /\ chain[r].answer = "running"
    /\ chain' = At(chain, r, "waiting")
    /\ timer' = r
    /\ UNCHANGED <<page, lists, server, overtaken, observed, bounds>>

TimerFires(r) ==
    /\ chain[r].stage = "waiting"
    /\ Poll(r)
    /\ UNCHANGED <<page, timer, lists, server, overtaken, observed, bounds>>

HandleNew ==
    /\ Clickable("history")
    /\ Clicks
    /\ page' = [page EXCEPT !.selectedDetail = None, !.pendingRequest = None,
                            !.runError = FALSE, !.view = "form"]
    /\ chain' = StopPolling(chain)
    /\ timer' = None
    /\ UNCHANGED <<lists, server, overtaken, observed>>

(* Mutant: the page leaves a run without stopping the poll.                *)
HandleBackPolling ==
    /\ Clickable("form") \/ Clickable("detail")
    /\ Clicks
    /\ page' = [page EXCEPT !.running = FALSE, !.pendingRequest = None,
                            !.selectedDetail = None, !.runError = FALSE,
                            !.view = "history"]
    /\ left' = (left \/ \E r \in Runs : InFlight(r))
    /\ UNCHANGED <<lists, following, server, overtaken, asked>>

HandleBack ==
    /\ Clickable("form") \/ Clickable("detail")
    /\ Clicks
    /\ page' = [page EXCEPT !.running = FALSE, !.pendingRequest = None,
                            !.selectedDetail = None, !.runError = FALSE,
                            !.view = "history"]
    /\ chain' = StopPolling(chain)
    /\ timer' = None
    /\ left' = (left \/ \E r \in Runs : InFlight(r))
    /\ UNCHANGED <<lists, server, overtaken, asked>>

-----------------------------------------------------------------------------
(* The thread of a run.                                                    *)
ExecuteBacktest(r) ==
    /\ server[r] = "running"
    /\ \/ Succeeds /\ server' = [server EXCEPT ![r] = "completed"]
       \/ Fails /\ server' = [server EXCEPT ![r] = "error"]
    /\ UNCHANGED <<page, lists, following, overtaken, observed>>

Persist(r) ==
    /\ server[r] = "completed"
    /\ \/ Succeeds /\ server' = [server EXCEPT ![r] = "kept"]
       \/ Fails /\ server' = [server EXCEPT ![r] = "lost"]
    /\ UNCHANGED <<page, lists, following, overtaken, observed>>

-----------------------------------------------------------------------------
Init ==
    /\ page = Mounted
    /\ chain = [r \in Runs |-> [stage |-> "none", answer |-> "pending"]]
    /\ timer = None
    /\ asked = None /\ left = FALSE
    /\ HistoryInit

Follow(r) ==
    \/ RunEndpoint(r) \/ Started(r) \/ GetBacktestResults(r)
    \/ ResultArrives(r) \/ ErrorArrives(r) \/ StillRunning(r) \/ TimerFires(r)

Thread(r) == ExecuteBacktest(r) \/ Persist(r)

Next ==
    \/ HandleNew
    \/ HandleBack
    \/ \E r \in Runs : HandleRun(r) \/ Follow(r) \/ Thread(r)
    \/ HistoryNext /\ UNCHANGED <<following, observed>>

Fairness == \A r \in Runs : WF_vars(Follow(r)) /\ WF_vars(Thread(r))

Spec == Init /\ [][Next]_vars
FairSpec == Spec /\ Fairness

-----------------------------------------------------------------------------
(* The state of the page, its calls and the server keep their types.       *)
TypeOK ==
    /\ page \in Page
    /\ chain \in [Runs -> Chain]
    /\ {timer, asked} \subseteq OrNone(Runs)
    /\ ListTypes
    /\ left \in BOOLEAN
    /\ clicks \in 0 .. MaxClicks

(* A run whose answer still matters to its chain.                          *)
Alive(r) == chain[r].stage \notin {"none", "ended"}

(* The page follows the run it shows a spinner for and no other: leaving a *)
(* run stops its poll (stopPolling, page.tsx:69), and no poll is refused   *)
(* for another's sake (page.tsx:97).  It stops to hold when a run is left  *)
(* with a call in flight: the answer sets a timer nobody clears, and while *)
(* it asks again no other run can ask.                                     *)
OnlyTheAwaitedRunIsFollowed ==
    left \/ \A r \in Runs : Alive(r) <=> (page.running /\ asked = r)

(* The same without the exception: what the user of the page expects.      *)
AwaitedRunIsFollowed == page.running => Alive(asked)

(* Every spinner ends, with the result of a run or an error (page.tsx:78): *)
(* whoever refuses the poll of a run is alive, and ends the spinner itself.*)
NoSpinner == ~page.running
EverySpinnerEnds == []<>NoSpinner

-----------------------------------------------------------------------------
(***************************************************************************)
(* What makes the types and OnlyTheAwaitedRunIsFollowed inductive.         *)
(***************************************************************************)
(* A run that is asked about has begun; nobody cancels a backtest.         *)
AskedHasBegun ==
    \A r \in Runs :
        /\ server[r] # "cancelled"
        /\ server[r] = "unborn" => /\ chain[r].stage \in {"none", "starting", "ended"}
                                   /\ chain[r].answer # "running"

(* The timer on record is the one that runs, and nothing runs behind the   *)
(* list.                                                                   *)
TimerIsKnown == \A r \in Runs : chain[r].stage = "waiting" => timer = r
RunsElsewhere == page.running => page.view # "history"

FollowInv ==
    /\ TypeOK
    /\ AskedHasBegun
    /\ RunsElsewhere
    /\ left \/ TimerIsKnown
    /\ OnlyTheAwaitedRunIsFollowed
=============================================================================

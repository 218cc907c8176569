------------------------------ MODULE WebTasks ------------------------------
(***************************************************************************)
(* The web client where a task is asked for: the pages that wait for a     *)
(* backtest, an optimization or a sweep, and the forms that ask for one.   *)
(* The router shows one page, or one form, at a time, and what a page keeps*)
(* begins with it.  A behaviour is the life of the one that route names;   *)
(* the variables of the others stay unused.                                *)
(*                                                                         *)
(* The pages have bounds of their own; MaxClicks is that of the backtests. *)
(***************************************************************************)
EXTENDS RunHistory

CONSTANTS
    FormStrategies, Keys, Schema, Symbols, Timeframes,      \* of the forms
    OptimizerClicks, FewClicks, MaxSweeps, MaxCalls

VARIABLES
    route,
    chain, timer, asked, left,                              \* backtest
    posts, progress, results, doubled,                      \* optimizer
    polls, run, state, threads, rows, unseen, disturbed,    \* sweep
    kind, initial, form, chosen, submission, edits          \* the forms

Backtest == INSTANCE BacktestPage
Optimizer == INSTANCE OptimizerPage WITH MaxClicks <- OptimizerClicks
Sweep == INSTANCE SweepPage WITH MaxClicks <- FewClicks
Request == INSTANCE RequestForm WITH Strategies <- FormStrategies, MaxEdits <- FewClicks

(* MaxClicks is the largest of the bounds; None is nothing else, and every *)
(* strategy has the keys of its parameters.                                *)
ASSUME TasksAssumption ==
    /\ {OptimizerClicks, FewClicks} \subseteq 0 .. MaxClicks /\ MaxSweeps \in Nat
    /\ None \notin FormStrategies \cup Request!Submission \cup Optimizer!Closures
    /\ Schema \in [FormStrategies -> SUBSET Keys]

shared == <<page, loads, server, bounds>>
historical == <<details, deletion, overtaken>>
backtest == <<chain, timer, asked, left>>
optimizer == <<posts, progress, results, doubled>>
sweep == <<polls, run, state, threads, rows, unseen, disturbed>>
request == <<kind, initial, form, chosen, submission, edits>>
vars == <<route, shared, historical, backtest, optimizer, sweep, request>>

-----------------------------------------------------------------------------
NoShared == /\ page = None /\ loads = None /\ server = None
            /\ clicks = 0 /\ failures = 0
NoHistory == details = None /\ deletion = None /\ overtaken = None
NoBacktest == chain = None /\ timer = None /\ asked = None /\ left = None
NoOptimizer == posts = None /\ progress = None /\ results = None /\ doubled = None
NoSweep == /\ polls = None /\ run = None /\ state = None /\ threads = None
           /\ rows = None /\ unseen = None /\ disturbed = None
NoRequest == /\ kind = None /\ initial = None /\ form = None
             /\ chosen = None /\ submission = None /\ edits = None

Init ==
    \/ /\ route = "backtest" /\ Backtest!Init
       /\ NoOptimizer /\ NoSweep /\ NoRequest
    \/ /\ route = "optimizer" /\ Optimizer!Init
       /\ NoBacktest /\ NoSweep /\ NoRequest
    \/ /\ route = "sweep" /\ Sweep!Init /\ server = None
       /\ NoHistory /\ NoBacktest /\ NoOptimizer /\ NoRequest
    \/ /\ route = "form" /\ Request!Init
       /\ NoShared /\ NoHistory /\ NoBacktest /\ NoOptimizer /\ NoSweep

Next ==
    /\ UNCHANGED route
    /\ \/ /\ route = "backtest" /\ Backtest!Next
          /\ UNCHANGED <<optimizer, sweep, request>>
       \/ /\ route = "optimizer" /\ Optimizer!Next
          /\ UNCHANGED <<backtest, sweep, request>>
       \/ /\ route = "sweep" /\ Sweep!Next
          /\ UNCHANGED <<server, historical, backtest, optimizer, request>>
       \/ /\ route = "form" /\ Request!Next
          /\ UNCHANGED <<shared, historical, backtest, optimizer, sweep>>

backtestVars == Backtest!vars
optimizerVars == Optimizer!vars
sweepVars == Sweep!vars

(* That of each page.                                                      *)
Fairness ==
    /\ \A r \in Runs :
          /\ WF_backtestVars(route = "backtest" /\ Backtest!Follow(r))
          /\ WF_backtestVars(route = "backtest" /\ Backtest!Thread(r))
          /\ WF_optimizerVars(route = "optimizer" /\ Optimizer!Thread(r))
    /\ WF_optimizerVars(route = "optimizer" /\ Optimizer!Follow)
    /\ WF_sweepVars(route = "sweep" /\ Sweep!Tick)
    /\ WF_sweepVars(route = "sweep" /\ Sweep!Reload)
    /\ WF_sweepVars(route = "sweep" /\ Sweep!RunSweep)
    /\ WF_sweepVars(route = "sweep" /\ Sweep!Started)
    /\ WF_sweepVars(route = "sweep" /\ Sweep!OldestPoll)
    /\ WF_sweepVars(route = "sweep" /\ Sweep!OldestLoad)
    /\ \A s \in 1 .. MaxSweeps : WF_sweepVars(route = "sweep" /\ Sweep!RunPipeline(s))

Spec == Init /\ [][Next]_vars
FairSpec == Spec /\ Fairness

-----------------------------------------------------------------------------
(* The properties of the pages, each with its comment there.               *)

(* Every page, its calls and what the server keeps have their types.       *)
TypeOK ==
    /\ route = "backtest" => Backtest!TypeOK
    /\ route = "optimizer" => Optimizer!TypeOK
    /\ route = "sweep" => Sweep!TypeOK
    /\ route = "form" => Request!TypeOK

(* A row that was deleted leaves the table (RunHistory).                   *)
NoDeletedRow == route \in {"backtest", "optimizer"} => NoDeletedRowIsShown

(* The page of the backtests follows the run it shows a spinner for and no *)
(* other, until a run is left with a call in flight (BacktestPage).        *)
OnlyTheAwaitedRunIsFollowed == route = "backtest" => Backtest!OnlyTheAwaitedRunIsFollowed

(* Results are shown under the request they answer (OptimizerPage).        *)
DetailIsLabelledRight == route = "optimizer" => Optimizer!DetailIsLabelledRight

(* The component that shows the progress asks about the task the page names*)
(* (OptimizerPage).                                                        *)
ShownTaskIsFollowed == route = "optimizer" => Optimizer!ShownTaskIsFollowed

(* "Completado" comes with the last sweep's results and row (SweepPage).   *)
CompletedShowsAll == route = "sweep" => Sweep!CompletedShowsAll

(* A form sends what it shows (RequestForm).                               *)
SubmittedIsShown == route = "form" => Request!SubmittedIsShown

(* An answer that comes late takes no choice back (RequestForm).           *)
ChoicesSurvive == route = "form" => Request!ChoicesSurvive

(* Whoever waits for a run sees it end: the spinner of a backtest, the bar *)
(* of an optimization, the status of a sweep (BacktestPage, OptimizerPage, *)
(* SweepPage).                                                             *)
WaitingEnds ==
    /\ []<>(route = "backtest" => Backtest!NoSpinner)
    /\ []<>(route = "optimizer" => Optimizer!ProgressOver)
    /\ []<>(route = "sweep" => Sweep!SweepOver)
=============================================================================

----------------------------- MODULE RunHistory -----------------------------
(***************************************************************************)
(* The list of past runs that the pages of backtests and of optimizations  *)
(* share: the calls that load it, show one row, prepare a row to be run    *)
(* again and delete one.  The two pages have this code each; BacktestPage  *)
(* and OptimizerPage extend this module with what differs.  The filters and*)
(* the order of the table change no state but their own and are left out.  *)
(*                                                                         *)
(* Every call is asynchronous, and its continuation changes the state of   *)
(* the page whatever the page shows by then.  The actions of this module   *)
(* leave the variables of the modules that extend it open.                 *)
(***************************************************************************)
EXTENDS PageCalls

CONSTANTS
    Runs,         \* backtests or optimizations, by the id the server draws
    None

ASSUME RunsAssumption == None \notin Runs

VARIABLES
    page,       \* the state of the component
    loads,      \* loads of the history in flight, in the order they were sent
    details,    \* requests for a row, to show it or to run it again
    deletion,   \* the request for a deletion
    server,     \* the tasks the server knows and the rows it keeps
    overtaken   \* observer: a load was answered before an older one

lists == <<loads, details, deletion>>

OrNone(values) == values \cup {None}

(* The request of a run is known by the run.                               *)
RunDetail == [id: Runs, request: OrNone(Runs)]
Load == [served: BOOLEAN, rows: SUBSET Runs]
Detail == [run: Runs, goal: {"view", "rerun"}]
Deletion == [run: OrNone(Runs), answer: {"pending", "done", "failed"}]

(* completed: the result is served and its row is still to be written;     *)
(* lost: it could not be written; gone: it was deleted, and the page does  *)
(* not know.                                                               *)
States == {"unborn", "running", "completed", "kept", "lost", "error", "cancelled", "deleted",
           "gone"}

Sent == [served |-> FALSE, rows |-> {}]
NoDeletion == [run |-> None, answer |-> "pending"]

(* The dialog covers the page.                                             *)
Clickable(view) == page.view = view /\ page.itemToDelete = None
RowShown(r) ==
    /\ Clickable("history")
    /\ ~page.historyError
    /\ ~page.historyLoading
    /\ r \in page.runs

Kept == {r \in Runs : server[r] = "kept"}

-----------------------------------------------------------------------------
ListRuns(i) ==
    /\ ~loads[i].served
    /\ loads' = [loads EXCEPT ![i] = [served |-> TRUE, rows |-> Kept]]
    /\ UNCHANGED <<page, details, deletion, server, overtaken, bounds>>

HistoryArrives(i) ==
    /\ loads[i].served
    /\ loads' = RemoveAt(loads, i)
    /\ page' = [page EXCEPT !.runs = loads[i].rows, !.historyError = FALSE,
                            !.historyLoading = FALSE]
    /\ overtaken' = (overtaken \/ i > 1)
    /\ UNCHANGED <<details, deletion, server, bounds>>

HistoryFails(i) ==
    /\ ~loads[i].served
    /\ Fails
    /\ loads' = RemoveAt(loads, i)
    /\ page' = [page EXCEPT !.historyError = TRUE, !.historyLoading = FALSE]
    /\ overtaken' = (overtaken \/ i > 1)
    /\ UNCHANGED <<details, deletion, server>>

-----------------------------------------------------------------------------
(* While a detail loads, the view of a detail has a spinner in its place.  *)
HandleView(r) ==
    /\ RowShown(r)
    /\ Clicks
    /\ page' = [page EXCEPT !.runError = FALSE]
    /\ details' = details \cup {[run |-> r, goal |-> "view"]}
    /\ UNCHANGED <<loads, deletion, server, overtaken>>

HandleRerun(r) ==
    /\ RowShown(r)
    /\ Clicks
    /\ page' = [page EXCEPT !.runError = FALSE]
    /\ details' = details \cup {[run |-> r, goal |-> "rerun"]}
    /\ UNCHANGED <<loads, deletion, server, overtaken>>

DetailArrives(d) ==
    /\ server[d.run] = "kept"
    /\ details' = details \ {d}
    /\ page' = IF d.goal = "view"
               THEN [page EXCEPT !.selectedDetail = [id |-> d.run, request |-> d.run],
                                 !.view = "detail"]
               ELSE [page EXCEPT !.pendingRequest = d.run, !.selectedDetail = None,
                                 !.view = "form"]
    /\ UNCHANGED <<loads, deletion, server, overtaken, bounds>>

DetailFails(d) ==
    /\ IF server[d.run] = "kept" THEN Fails ELSE Succeeds
    /\ details' = details \ {d}
    /\ page' = [page EXCEPT !.runError = TRUE]
    /\ UNCHANGED <<loads, deletion, server, overtaken>>

-----------------------------------------------------------------------------
AskDelete(r) ==
    /\ RowShown(r)
    /\ Clicks
    /\ page' = [page EXCEPT !.itemToDelete = r]
    /\ UNCHANGED <<lists, server, overtaken>>

(* The backdrop of the dialog closes it even while the deletion runs.      *)
CancelDelete ==
    /\ page.itemToDelete # None
    /\ Clicks
    /\ page' = [page EXCEPT !.itemToDelete = None]
    /\ UNCHANGED <<lists, server, overtaken>>

ConfirmDelete ==
    /\ page.itemToDelete # None
    /\ ~page.deleteLoading
    /\ Clicks
    /\ page' = [page EXCEPT !.deleteLoading = TRUE]
    /\ deletion' = [run |-> page.itemToDelete, answer |-> "pending"]
    /\ UNCHANGED <<loads, details, server, overtaken>>

DeleteRun ==
    /\ deletion.run # None
    /\ deletion.answer = "pending"
    /\ \/ /\ Succeeds
          /\ deletion' = [deletion EXCEPT !.answer =
                              IF server[deletion.run] = "kept" THEN "done" ELSE "failed"]
          /\ server' = IF server[deletion.run] = "kept"
                       THEN [server EXCEPT ![deletion.run] = "deleted"] ELSE server
       \/ /\ Fails
          /\ deletion' = [deletion EXCEPT !.answer = "failed"]
          /\ \/ UNCHANGED server
             \/ /\ server[deletion.run] = "kept"
                /\ server' = [server EXCEPT ![deletion.run] = "gone"]
    /\ UNCHANGED <<page, loads, details, overtaken>>

(* Mutant: the table is not loaded again after a deletion.                 *)
DeletedUnloaded ==
    /\ deletion.run # None
    /\ deletion.answer # "pending"
    /\ deletion' = NoDeletion
    /\ page' = [page EXCEPT !.itemToDelete = None, !.deleteLoading = FALSE]
    /\ UNCHANGED <<loads, details, server, overtaken, bounds>>

(* It closes the dialog, whichever row the dialog is about by then.        *)
Deleted ==
    /\ deletion.run # None
    /\ deletion.answer # "pending"
    /\ deletion' = NoDeletion
    /\ \/ /\ deletion.answer = "done"
          /\ page' = [page EXCEPT !.itemToDelete = None, !.deleteLoading = FALSE,
                                  !.historyLoading = TRUE]
          /\ loads' = Append(loads, Sent)
       \/ /\ deletion.answer = "failed"
          /\ page' = [page EXCEPT !.itemToDelete = None, !.deleteLoading = FALSE,
                                  !.runError = TRUE]
          /\ UNCHANGED loads
    /\ UNCHANGED <<details, server, overtaken, bounds>>

-----------------------------------------------------------------------------
(* What the page is mounted with: the history is asked for at once.        *)
Mounted ==
    [view |-> "history", runs |-> {}, historyLoading |-> TRUE, historyError |-> FALSE,
     selectedDetail |-> None, pendingRequest |-> None, running |-> FALSE, runError |-> FALSE,
     itemToDelete |-> None, deleteLoading |-> FALSE]

HistoryInit ==
    /\ loads = <<Sent>>
    /\ details = {}
    /\ deletion = NoDeletion
    /\ server = [r \in Runs |-> "unborn"]
    /\ overtaken = FALSE
    /\ clicks = 0 /\ failures = 0

HistoryNext ==
    \/ CancelDelete
    \/ ConfirmDelete
    \/ DeleteRun
    \/ Deleted
    \/ \E r \in Runs : HandleView(r) \/ HandleRerun(r) \/ AskDelete(r)
    \/ \E i \in DOMAIN loads : ListRuns(i) \/ HistoryArrives(i) \/ HistoryFails(i)
    \/ \E d \in details : DetailArrives(d) \/ DetailFails(d)

-----------------------------------------------------------------------------
(* Rows that are deleted leave the table: when no load is in flight, the   *)
(* table has no row that a deletion answered with success took away        *)
(* (backtest/page.tsx:198, optimizer/page.tsx:191), unless a load was      *)
(* answered before an older one.                                           *)
NoDeletedRowIsShown ==
    (/\ loads = <<>>
     /\ ~overtaken
     /\ ~page.historyError
     /\ deletion = NoDeletion) => \A r \in page.runs : server[r] # "deleted"

-----------------------------------------------------------------------------
(* What the two pages keep of the list, and the server with it.            *)
ListTypes ==
    /\ loads \in Seq(Load)
    /\ details \subseteq Detail
    /\ deletion \in Deletion
    /\ server \in [Runs -> States]
    /\ overtaken \in BOOLEAN
    /\ failures \in 0 .. MaxFailures

(***************************************************************************)
(* What makes NoDeletedRowIsShown inductive: unless a deletion is about to *)
(* load the table again, what is sent last, or was, has no deleted row.    *)
(***************************************************************************)
NoneDeleted(rows) == \A r \in rows : server[r] # "deleted"

LastLoadIsFresh ==
    IF loads = <<>> THEN page.historyError \/ NoneDeleted(page.runs)
    ELSE Last(loads).served => NoneDeleted(Last(loads).rows)

DeletionWaits == deletion.run # None => page.deleteLoading
DoneIsOfARun == deletion.answer = "done" => deletion.run # None

DeletionInv ==
    DeletionWaits /\ DoneIsOfARun /\ (overtaken \/ deletion.answer = "done" \/ LastLoadIsFresh)
=============================================================================

--------------------------- MODULE PortfolioPage ---------------------------
(***************************************************************************)
(* The page of the portfolio (app/portfolio/page.tsx) with its rows        *)
(* (StrategyRow.tsx).  It loads the strategies once, when it is mounted,   *)
(* and changes its list itself from then on: a toggle at once, before it is*)
(* sent, and a strategy that is saved or deleted when the answer comes.    *)
(*                                                                         *)
(* A toggle that fails puts back the whole list as it was when the switch  *)
(* was pressed.                                                            *)
(***************************************************************************)
EXTENDS PageCalls

CONSTANTS Strategies, None

VARIABLES
    page,         \* the state of the component
    loads,        \* the load in flight
    calls,        \* the other calls in flight, in the order they were sent
    server,       \* user_strategies
    behind        \* observer: calls crossed, or a failed one reached the server

vars == <<page, loads, calls, server, behind, bounds>>

OrNone(values) == values \cup {None}

(* A strategy: the switch, and the number of times it was edited.          *)
Item == [id: Strategies, active: BOOLEAN, edition: 0 .. MaxClicks]
Lists == Seq(Item)

Page == [strategies: Lists, loading: BOOLEAN, error: BOOLEAN, modalOpen: BOOLEAN, saving: BOOLEAN,
         editingStrategy: OrNone(Strategies), deleteTarget: OrNone(Strategies),
         deleting: BOOLEAN]

Load == [served: BOOLEAN, strategies: Lists]
Call == [kind: {"toggle", "create", "update", "delete"}, id: Strategies,
         answer: {"pending", "done", "failed"}, item: OrNone(Item), previous: Lists,
         dialog: BOOLEAN]

Ids(items) == {items[i].id : i \in DOMAIN items}
ItemOf(items, id) == CHOOSE item \in ToSet(items) : item.id = id

(* prev.map, and prev.filter.                                              *)
Replaced(items, new) == [i \in DOMAIN items |-> IF items[i].id = new.id THEN new ELSE items[i]]
Without(items, id) == Only(items, {item \in ToSet(items) : item.id # id})

Switched(items, id) ==
    [i \in DOMAIN items |->
        IF items[i].id = id THEN [items[i] EXCEPT !.active = ~@] ELSE items[i]]

Crosses(kind, id) ==
    \/ loads # <<>>
    \/ \E i \in DOMAIN calls : "toggle" \in {kind, calls[i].kind} \/ calls[i].id = id

Send(kind, id) ==
    /\ calls' = Append(calls, [kind |-> kind, id |-> id, answer |-> "pending", item |-> None,
                               previous |-> page.strategies, dialog |-> page.modalOpen])
    /\ behind' = (behind \/ Crosses(kind, id))

(* No dialog waits for these calls any more.                               *)
Orphaned(s) == [i \in DOMAIN s |-> [s[i] EXCEPT !.dialog = FALSE]]

-----------------------------------------------------------------------------
(* Loading.                                                                *)
GetStrategies ==
    /\ loads # <<>> /\ ~loads[1].served
    /\ loads' = <<[served |-> TRUE, strategies |-> server]>>
    /\ UNCHANGED <<page, calls, server, behind, bounds>>

LoadArrives ==
    /\ loads # <<>> /\ loads[1].served
    /\ page' = [page EXCEPT !.strategies = loads[1].strategies, !.error = FALSE, !.loading = FALSE]
    /\ loads' = <<>>
    /\ UNCHANGED <<calls, server, behind, bounds>>

(* The page shows an error until it is mounted again.                      *)
LoadFails ==
    /\ loads # <<>>
    /\ Fails
    /\ page' = [page EXCEPT !.error = TRUE, !.loading = FALSE]
    /\ loads' = <<>>
    /\ behind' = TRUE
    /\ UNCHANGED <<calls, server>>

-----------------------------------------------------------------------------
(* What the page shows: the dialogs cover it.                              *)
Uncovered == ~page.modalOpen /\ page.deleteTarget = None
RowShown(s) == Uncovered /\ ~page.loading /\ s \in Ids(page.strategies)

HandleAdd ==
    /\ Uncovered
    /\ page' = [page EXCEPT !.editingStrategy = None, !.modalOpen = TRUE]
    /\ UNCHANGED <<loads, calls, server, behind, bounds>>

HandleEdit(s) ==
    /\ RowShown(s)
    /\ page' = [page EXCEPT !.editingStrategy = s, !.modalOpen = TRUE]
    /\ UNCHANGED <<loads, calls, server, behind, bounds>>

(* The dialog may be closed while it saves.                                *)
OnClose ==
    /\ page.modalOpen
    /\ page' = [page EXCEPT !.editingStrategy = None, !.modalOpen = FALSE, !.saving = FALSE]
    /\ calls' = Orphaned(calls)
    /\ UNCHANGED <<loads, server, behind, bounds>>

Unused == Strategies \ (Ids(server) \cup {calls[i].id : i \in DOMAIN calls})

HandleSave ==
    /\ page.modalOpen /\ ~page.saving
    /\ Clicks
    /\ page' = [page EXCEPT !.saving = TRUE]
    /\ IF page.editingStrategy # None
       THEN Send("update", page.editingStrategy)
       ELSE \E s \in Unused : Send("create", s)
    /\ UNCHANGED <<loads, server>>

HandleToggle(s) ==
    /\ RowShown(s)
    /\ Clicks
    /\ page' = [page EXCEPT !.strategies = Switched(@, s)]
    /\ Send("toggle", s)
    /\ UNCHANGED <<loads, server>>

AskDelete(s) ==
    /\ RowShown(s)
    /\ page' = [page EXCEPT !.deleteTarget = s]
    /\ UNCHANGED <<loads, calls, server, behind, bounds>>

CancelDelete ==
    /\ page.deleteTarget # None /\ ~page.deleting
    /\ page' = [page EXCEPT !.deleteTarget = None]
    /\ UNCHANGED <<loads, calls, server, behind, bounds>>

HandleDelete ==
    /\ page.deleteTarget # None /\ ~page.deleting
    /\ Clicks
    /\ page' = [page EXCEPT !.deleting = TRUE, !.error = FALSE]
    /\ Send("delete", page.deleteTarget)
    /\ UNCHANGED <<loads, server>>

-----------------------------------------------------------------------------
(* The endpoints.  A call that fails may have reached the server.          *)
After(call) ==
    CASE call.kind = "toggle" -> Switched(server, call.id)
      [] call.kind = "create" -> Append(server, [id |-> call.id, active |-> FALSE, edition |-> 0])
      [] call.kind = "update" ->
             [i \in DOMAIN server |-> IF server[i].id = call.id
                                      THEN [server[i] EXCEPT !.edition = @ + 1] ELSE server[i]]
      [] call.kind = "delete" -> Without(server, call.id)

Refused(call) == call.kind # "create" /\ call.id \notin Ids(server)

ServeCall(i) ==
    /\ calls[i].answer = "pending"
    /\ \/ /\ ~Refused(calls[i])
          /\ Succeeds
          /\ server' = After(calls[i])
          /\ calls' = [calls EXCEPT ![i].answer = "done", ![i].item =
                 IF calls[i].kind = "delete" THEN None ELSE ItemOf(server', calls[i].id)]
          /\ UNCHANGED behind
       \/ /\ Refused(calls[i])
          /\ Succeeds
          /\ calls' = [calls EXCEPT ![i].answer = "failed"]
          /\ UNCHANGED <<server, behind>>
       \/ /\ ~Refused(calls[i])
          /\ Fails
          /\ server' \in {server, After(calls[i])}
          /\ calls' = [calls EXCEPT ![i].answer = "failed"]
          /\ behind' = (behind \/ server' # server)
    /\ UNCHANGED <<page, loads>>

-----------------------------------------------------------------------------
(* The answers.                                                            *)

(* Mutant: a toggle that fails leaves the switch as it is.                 *)
ToggleFailsKept(i) ==
    /\ calls[i].kind = "toggle" /\ calls[i].answer = "failed"
    /\ calls' = RemoveAt(calls, i)
    /\ UNCHANGED <<page, loads, server, behind, bounds>>

ToggleFails(i) ==
    /\ calls[i].kind = "toggle" /\ calls[i].answer = "failed"
    /\ page' = [page EXCEPT !.strategies = calls[i].previous]
    /\ calls' = RemoveAt(calls, i)
    /\ UNCHANGED <<loads, server, behind, bounds>>

Toggled(i) ==
    /\ calls[i].kind = "toggle" /\ calls[i].answer = "done"
    /\ calls' = RemoveAt(calls, i)
    /\ UNCHANGED <<page, loads, server, behind, bounds>>

(* It closes the dialog, whatever it edits by then.                        *)
Saved(i) ==
    /\ calls[i].kind \in {"create", "update"} /\ calls[i].answer = "done"
    /\ page' = [page EXCEPT !.strategies = IF calls[i].kind = "update"
                                           THEN Replaced(@, calls[i].item)
                                           ELSE <<calls[i].item>> \o @,
                            !.modalOpen = FALSE, !.saving = FALSE, !.editingStrategy = None]
    /\ calls' = Orphaned(RemoveAt(calls, i))
    /\ UNCHANGED <<loads, server, behind, bounds>>

(* The dialog that sent it shows the error, if it is still there.          *)
SaveFails(i) ==
    /\ calls[i].kind \in {"create", "update"} /\ calls[i].answer = "failed"
    /\ page' = [page EXCEPT !.saving = @ /\ ~calls[i].dialog]
    /\ calls' = RemoveAt(calls, i)
    /\ UNCHANGED <<loads, server, behind, bounds>>

Deleted(i) ==
    /\ calls[i].kind = "delete" /\ calls[i].answer # "pending"
    /\ page' = IF calls[i].answer = "done"
               THEN [page EXCEPT !.strategies = Without(@, calls[i].id),
                                 !.deleteTarget = None, !.deleting = FALSE]
               ELSE [page EXCEPT !.error = TRUE, !.deleting = FALSE]
    /\ calls' = RemoveAt(calls, i)
    /\ UNCHANGED <<loads, server, behind, bounds>>

-----------------------------------------------------------------------------
Init ==
    /\ page = [strategies |-> <<>>, loading |-> TRUE, error |-> FALSE, modalOpen |-> FALSE,
               saving |-> FALSE, editingStrategy |-> None, deleteTarget |-> None,
               deleting |-> FALSE]
    /\ loads = <<[served |-> FALSE, strategies |-> <<>>]>>
    /\ calls = <<>>
    /\ \E s \in Strategies : server = <<[id |-> s, active |-> FALSE, edition |-> 0]>>
    /\ behind = FALSE
    /\ clicks = 0 /\ failures = 0

Arrives(i) == Toggled(i) \/ ToggleFails(i) \/ Saved(i) \/ SaveFails(i) \/ Deleted(i)

Next ==
    \/ GetStrategies \/ LoadArrives \/ LoadFails
    \/ HandleAdd \/ OnClose \/ HandleSave
    \/ CancelDelete \/ HandleDelete
    \/ \E s \in Strategies : HandleEdit(s) \/ HandleToggle(s) \/ AskDelete(s)
    \/ \E i \in DOMAIN calls : ServeCall(i) \/ Arrives(i)

Spec == Init /\ [][Next]_vars

-----------------------------------------------------------------------------
(* The state of the page, its calls and the server keep their types.       *)
TypeOK ==
    /\ page \in Page
    /\ loads \in Seq(Load) /\ calls \in Seq(Call)
    /\ server \in Lists
    /\ behind \in BOOLEAN
    /\ clicks \in 0 .. MaxClicks /\ failures \in 0 .. MaxFailures

(* A list that is loaded once and edited ever after still is the list of   *)
(* the server, in another order, when the page waits for nothing           *)
(* (page.tsx:73, 78, 88, 113), and what a failed toggle puts back is right *)
(* (page.tsx:102).  The exceptions are a call that crossed the load, a     *)
(* toggle or one about the same strategy, and a call that failed after it  *)
(* reached the server.                                                     *)
PortfolioShowsServer ==
    (loads = <<>> /\ calls = <<>> /\ ~behind) =>
        /\ ToSet(page.strategies) = ToSet(server)
        /\ Len(page.strategies) = Len(server)

(* Why it does.  No strategy is edited more often than calls were sent.    *)
Pending == {i \in DOMAIN calls : calls[i].answer = "pending"}
EditsAreCalls ==
    /\ Cardinality(Pending) <= clicks
    /\ \A i \in DOMAIN server : server[i].edition + Cardinality(Pending) <= clicks

ItemsAnswer == \A i \in DOMAIN calls :
    calls[i].answer = "done" /\ calls[i].kind # "delete" =>
        calls[i].item \in Item /\ calls[i].item.id = calls[i].id

(* Every strategy has an id of its own, those that are being created too.  *)
Once(items) == \A i, j \in DOMAIN items : items[i].id = items[j].id => i = j
Creates(call) == call.kind = "create" /\ call.answer = "pending"
NewAreNew == \A i \in DOMAIN calls : Creates(calls[i]) =>
    /\ calls[i].id \notin Ids(server)
    /\ \A j \in DOMAIN calls : Creates(calls[j]) /\ calls[j].id = calls[i].id => j = i

(* What a call in flight says of the page and the server.                  *)
Of(items, s) == {item \in ToSet(items) : item.id = s}
Agree(s) == Of(page.strategies, s) = Of(server, s)

Expects(call) ==
    CASE call.kind = "toggle" /\ call.answer # "done" ->
             /\ page.strategies = Switched(call.previous, call.id)
             /\ \A s \in Strategies : Of(call.previous, s) = Of(server, s)
      [] call.kind = "create" ->
             /\ Of(page.strategies, call.id) = {}
             /\ Of(server, call.id) = IF call.answer = "done" THEN {call.item} ELSE {}
      [] call.kind = "update" /\ call.answer = "done" ->
             Of(page.strategies, call.id) # {} /\ Of(server, call.id) = {call.item}
      [] call.kind = "delete" /\ call.answer = "done" -> Of(server, call.id) = {}
      [] OTHER -> Agree(call.id)

LoadIsFresh == calls = <<>> /\ (loads[1].served => loads[1].strategies = server)
CallsKeepApart == \A i, j \in DOMAIN calls :
    i # j => calls[i].id # calls[j].id /\ calls[i].kind # "toggle"
RestAgrees == \A s \in Strategies : (\A i \in DOMAIN calls : calls[i].id # s) => Agree(s)

Expected ==
    /\ Once(page.strategies)
    /\ IF loads # <<>> THEN LoadIsFresh
       ELSE CallsKeepApart /\ RestAgrees /\ \A i \in DOMAIN calls : Expects(calls[i])

PortfolioInv ==
    /\ TypeOK /\ EditsAreCalls /\ ItemsAnswer
    /\ Once(server) /\ NewAreNew /\ Len(loads) <= 1
    /\ ~behind => Expected

(* What a failed toggle puts back when another call was answered in        *)
(* between: a strategy that was deleted returns.                           *)
RollbackUndoesOneToggle == [][\A i \in DOMAIN calls :
    ToggleFails(i) => page'.strategies = Switched(page.strategies, calls[i].id)]_vars
=============================================================================

------------------------------ MODULE DataPage ------------------------------
(***************************************************************************)
(* The page of the market data (app/data/page.tsx) with the dialog that    *)
(* imports symbols (ImportModal.tsx).  It loads the table every thirty     *)
(* seconds, and after a deletion, a refresh or the start of an import.     *)
(*                                                                         *)
(* loadData returns whether it failed or not, so the calls that await it   *)
(* go on in both cases.  A file is known by its symbol: the timeframes of  *)
(* an import are some or none.                                             *)
(***************************************************************************)
EXTENDS PageCalls

CONSTANTS
    Files,
    None,
    MaxLoads,     \* bound: loads in flight when the interval adds one
    MaxVersions   \* bound: the times a file changes

VARIABLES
    page,         \* the state of the component and of its dialog
    loads,        \* loads in flight, in the order they were sent
    calls,        \* the other calls, likewise
    server,       \* the table of files, and the files still to be imported
    behind        \* observer: a load was overtaken or failed, or a file changed by itself

vars == <<page, loads, calls, server, behind, bounds>>

OrNone(values) == values \cup {None}

(* A file by the times it changed; 0: there is none.                       *)
Tables == [Files -> 0 .. MaxVersions]
NoFiles == [f \in Files |-> 0]

Modal == [open: BOOLEAN, step: {1, 2}, symbols: SUBSET Files, timeframes: BOOLEAN,
          loading: BOOLEAN, error: BOOLEAN]
Page == [files: Tables, loading: BOOLEAN, error: BOOLEAN, itemToDelete: OrNone(Files),
         deleteLoading: BOOLEAN, refreshingId: OrNone(Files), modal: Modal]

(* awaits: what goes on when the load has ended.                           *)
Kinds == {"delete", "refresh", "import"}
Load == [served: BOOLEAN, files: Tables, awaits: {"nothing", "delete", "refresh"}, alone: BOOLEAN]
Call == [kind: Kinds, about: SUBSET Files, answer: {"pending", "done", "failed"}]

NewLoad(awaits) ==
    [served |-> FALSE, files |-> NoFiles, awaits |-> awaits, alone |-> loads = <<>>]

Send(kind, about) ==
    calls' = Append(calls, [kind |-> kind, about |-> about, answer |-> "pending"])

(* What the page has or will have is no longer the server's, and it will   *)
(* not load for it.                                                        *)
Unforeseen(inFlight) ==
    /\ loads' = [i \in DOMAIN inFlight |-> [inFlight[i] EXCEPT !.alone = FALSE]]
    /\ behind' = TRUE

-----------------------------------------------------------------------------
(* Loading.                                                                *)

(* Mutant: the interval is cleared with the first load.                    *)
LoadDataOnce ==
    /\ page.loading
    /\ Len(loads) < MaxLoads
    /\ loads' = Append(loads, NewLoad("nothing"))
    /\ UNCHANGED <<page, calls, server, behind, bounds>>

LoadData ==
    /\ Len(loads) < MaxLoads
    /\ loads' = Append(loads, NewLoad("nothing"))
    /\ UNCHANGED <<page, calls, server, behind, bounds>>

DataStatus(i) ==
    /\ ~loads[i].served
    /\ loads' = [loads EXCEPT ![i].served = TRUE, ![i].files = server.files]
    /\ UNCHANGED <<page, calls, server, behind, bounds>>

(* The finally of executeDelete, or of handleRefresh.                      *)
GoesOn(p, awaits) ==
    CASE awaits = "delete" -> [p EXCEPT !.deleteLoading = FALSE, !.itemToDelete = None]
      [] awaits = "refresh" -> [p EXCEPT !.refreshingId = None]
      [] awaits = "nothing" -> p

LoadArrives(i) ==
    /\ loads[i].served
    /\ page' = GoesOn([page EXCEPT !.files = loads[i].files, !.error = FALSE, !.loading = FALSE],
                      loads[i].awaits)
    /\ IF i > 1 THEN Unforeseen(RemoveAt(loads, i))
       ELSE behind' = (behind /\ ~loads[i].alone) /\ loads' = Tail(loads)
    /\ UNCHANGED <<calls, server, bounds>>

LoadFails(i) ==
    /\ Fails
    /\ page' = GoesOn([page EXCEPT !.error = TRUE, !.loading = FALSE], loads[i].awaits)
    /\ Unforeseen(RemoveAt(loads, i))
    /\ UNCHANGED <<calls, server>>

-----------------------------------------------------------------------------
(* What the page shows: the dialogs cover it, and an error hides the table.*)
Uncovered == ~page.modal.open /\ page.itemToDelete = None
RowShown(f) == Uncovered /\ ~page.error /\ page.files[f] > 0

HandleDelete(f) ==
    /\ RowShown(f)
    /\ page' = [page EXCEPT !.itemToDelete = f]
    /\ UNCHANGED <<loads, calls, server, behind, bounds>>

HandleCancelDelete ==
    /\ page.itemToDelete # None
    /\ ~page.deleteLoading
    /\ page' = [page EXCEPT !.itemToDelete = None]
    /\ UNCHANGED <<loads, calls, server, behind, bounds>>

ExecuteDelete ==
    /\ page.itemToDelete # None
    /\ ~page.deleteLoading
    /\ Clicks
    /\ page' = [page EXCEPT !.deleteLoading = TRUE]
    /\ Send("delete", {page.itemToDelete})
    /\ UNCHANGED <<loads, server, behind>>

HandleRefresh(f) ==
    /\ RowShown(f)
    /\ page.refreshingId = None
    /\ Clicks
    /\ page' = [page EXCEPT !.refreshingId = f]
    /\ Send("refresh", {f})
    /\ UNCHANGED <<loads, server, behind>>

-----------------------------------------------------------------------------
(* The dialog of an import.                                                *)
OpenModal ==
    /\ Uncovered
    /\ Clicks
    /\ page' = [page EXCEPT !.modal.open = TRUE]
    /\ UNCHANGED <<loads, calls, server, behind>>

HandleClose ==
    /\ page.modal.open
    /\ ~page.modal.loading
    /\ page' = [page EXCEPT !.modal.open = FALSE, !.modal.step = 1, !.modal.error = FALSE,
                            !.modal.symbols = {}]
    /\ UNCHANGED <<loads, calls, server, behind, bounds>>

FormShown == page.modal.open /\ page.modal.step = 1

ToggleTimeframe ==
    /\ FormShown
    /\ page' = [page EXCEPT !.modal.timeframes = ~@]
    /\ UNCHANGED <<loads, calls, server, behind, bounds>>

HandleAddSymbol(f) ==
    /\ FormShown
    /\ f \notin page.modal.symbols
    /\ page' = [page EXCEPT !.modal.symbols = @ \cup {f}]
    /\ UNCHANGED <<loads, calls, server, behind, bounds>>

HandleRemoveSymbol(f) ==
    /\ FormShown
    /\ f \in page.modal.symbols
    /\ page' = [page EXCEPT !.modal.symbols = @ \ {f}]
    /\ UNCHANGED <<loads, calls, server, behind, bounds>>

HandleSubmit ==
    /\ FormShown
    /\ ~page.modal.loading
    /\ IF page.modal.symbols = {} \/ ~page.modal.timeframes
       THEN /\ page' = [page EXCEPT !.modal.error = TRUE]
            /\ UNCHANGED <<calls, bounds>>
       ELSE /\ Clicks
            /\ page' = [page EXCEPT !.modal.loading = TRUE, !.modal.error = FALSE]
            /\ Send("import", page.modal.symbols)
    /\ UNCHANGED <<loads, server, behind>>

-----------------------------------------------------------------------------
(* The endpoints.  A call that fails may have reached the server.          *)
Bumped(files, f) ==
    IF files[f] < MaxVersions THEN [files EXCEPT ![f] = @ + 1] ELSE files

After(call) ==
    CASE call.kind = "delete" ->
             [server EXCEPT !.files = [f \in Files |-> IF f \in call.about THEN 0 ELSE @[f]]]
      [] call.kind = "refresh" ->
             [server EXCEPT !.files = Bumped(@, CHOOSE f \in call.about : TRUE)]
      [] call.kind = "import" -> [server EXCEPT !.imports = @ \cup call.about]

Refused(call) == call.kind # "import" /\ \E f \in call.about : server.files[f] = 0

ServeCall(i) ==
    /\ calls[i].answer = "pending"
    /\ \/ /\ ~Refused(calls[i])
          /\ Succeeds
          /\ server' = After(calls[i])
          /\ calls' = [calls EXCEPT ![i].answer = "done"]
          /\ UNCHANGED <<loads, behind>>
       \/ /\ Refused(calls[i])
          /\ Succeeds
          /\ calls' = [calls EXCEPT ![i].answer = "failed"]
          /\ UNCHANGED <<loads, server, behind>>
       \/ /\ ~Refused(calls[i])
          /\ Fails
          /\ server' \in {server, After(calls[i])}
          /\ calls' = [calls EXCEPT ![i].answer = "failed"]
          /\ Unforeseen(loads)
    /\ UNCHANGED page

(* A file of an import, in the background: nobody hears of one that fails. *)
RunHistoricalImport(f) ==
    /\ f \in server.imports
    /\ \/ Succeeds /\ server' = [files |-> Bumped(server.files, f), imports |-> server.imports \ {f}]
       \/ Fails /\ server' = [server EXCEPT !.imports = @ \ {f}]
    /\ Unforeseen(loads)
    /\ UNCHANGED <<page, calls>>

-----------------------------------------------------------------------------
(* The answers.                                                            *)

Answered(i) ==
    /\ calls[i].kind \in {"delete", "refresh"} /\ calls[i].answer = "done"
    /\ loads' = Append(loads, NewLoad(calls[i].kind))
    /\ calls' = RemoveAt(calls, i)
    /\ UNCHANGED <<page, server, behind, bounds>>

CallFails(i) ==
    /\ calls[i].kind \in {"delete", "refresh"} /\ calls[i].answer = "failed"
    /\ page' = GoesOn(page, calls[i].kind)
    /\ calls' = RemoveAt(calls, i)
    /\ UNCHANGED <<loads, server, behind, bounds>>

Imported(i) ==
    /\ calls[i].kind = "import" /\ calls[i].answer # "pending"
    /\ IF calls[i].answer = "done"
       THEN /\ page' = [page EXCEPT !.modal.step = 2, !.modal.loading = FALSE]
            /\ loads' = Append(loads, NewLoad("nothing"))
       ELSE /\ page' = [page EXCEPT !.modal.error = TRUE, !.modal.loading = FALSE]
            /\ UNCHANGED loads
    /\ calls' = RemoveAt(calls, i)
    /\ UNCHANGED <<server, behind, bounds>>

-----------------------------------------------------------------------------
Init ==
    /\ page = [files |-> NoFiles, loading |-> TRUE, error |-> FALSE, itemToDelete |-> None,
               deleteLoading |-> FALSE, refreshingId |-> None,
               modal |-> [open |-> FALSE, step |-> 1, symbols |-> {}, timeframes |-> TRUE,
                          loading |-> FALSE, error |-> FALSE]]
    /\ loads = <<>>
    /\ calls = <<>>
    /\ \E files \in [Files -> {0, 1}] : server = [files |-> files, imports |-> {}]
    /\ behind = TRUE
    /\ clicks = 0 /\ failures = 0

Arrives(i) == Answered(i) \/ CallFails(i) \/ Imported(i)

Next ==
    \/ LoadData
    \/ \E i \in DOMAIN loads : DataStatus(i) \/ LoadArrives(i) \/ LoadFails(i)
    \/ HandleCancelDelete \/ ExecuteDelete
    \/ OpenModal \/ HandleClose \/ ToggleTimeframe \/ HandleSubmit
    \/ \E f \in Files : HandleDelete(f) \/ HandleRefresh(f)
    \/ \E f \in Files : HandleAddSymbol(f) \/ HandleRemoveSymbol(f)
    \/ \E i \in DOMAIN calls : ServeCall(i) \/ Arrives(i)
    \/ \E f \in Files : RunHistoricalImport(f)

(* No call is forgotten for good, and the interval and the imports go on.  *)
OldestLoad == loads # <<>> /\ (DataStatus(1) \/ LoadArrives(1))
OldestCall == calls # <<>> /\ (ServeCall(1) \/ Arrives(1))

Fairness ==
    /\ WF_vars(LoadData) /\ WF_vars(OldestLoad) /\ WF_vars(OldestCall)
    /\ \A f \in Files : WF_vars(RunHistoricalImport(f))

Spec == Init /\ [][Next]_vars
FairSpec == Spec /\ Fairness

-----------------------------------------------------------------------------
(* The state of the page, its calls and the server keep their types.       *)
TypeOK ==
    /\ page \in Page
    /\ loads \in Seq(Load) /\ calls \in Seq(Call)
    /\ server \in [files: Tables, imports: SUBSET Files]
    /\ behind \in BOOLEAN
    /\ clicks \in 0 .. MaxClicks /\ failures \in 0 .. MaxFailures

Mirrors == page.files = server.files

(* A deletion or a refresh that the page says is done is on the table: the *)
(* load it awaits is sent after the answer (page.tsx:106, 125).  When the  *)
(* page waits for nothing the table is the server's, unless a load was     *)
(* overtaken or failed, which the await does not notice (page.tsx:81), or  *)
(* a file changed by itself, since the last load that met none.            *)
DataShowsServer == (loads = <<>> /\ calls = <<>> /\ ~behind) => Mirrors

(* Why it does.  Only a load that is sent while there is no other is       *)
(* alone.  And while all that happens is foreseen, a call that changed the *)
(* table will load it, or the load that arrives last brings what the       *)
(* server has, or the page shows it.                                       *)
Foreseen == ~behind \/ (loads # <<>> /\ loads[1].alone)
WillLoad(call) == call.kind \in {"delete", "refresh"} /\ call.answer = "done"
Fresh(load) == load.served => load.files = server.files

AloneIsFirst == \A i \in DOMAIN loads : loads[i].alone => i = 1
TableComes ==
    Foreseen => \/ \E i \in DOMAIN calls : WillLoad(calls[i])
                \/ loads # <<>> /\ Fresh(loads[Len(loads)])
                \/ loads = <<>> /\ Mirrors

DataInv == TypeOK /\ AloneIsFirst /\ TableComes

(* The interval brings what the page was not told of: an import that ends  *)
(* in the background, long after the load that its start asks for          *)
(* (page.tsx:140, ImportModal.tsx:81).                                     *)
DataCatchesUp == <>[]Mirrors
=============================================================================

---------------------------- MODULE RequestForm ----------------------------
(***************************************************************************)
(* The form that asks for a backtest (BacktestForm.tsx), an optimization   *)
(* (OptimizationForm.tsx) or a strategy of the portfolio                   *)
(* (StrategyModal.tsx).  The three share their structure: they start from  *)
(* defaults or from a request made before, the catalog of strategies and   *)
(* the list of imported data arrive after they are shown, in any order or  *)
(* not at all, and a strategy brings parameters of its own.                *)
(*                                                                         *)
(* A select shows its first option when its value is not among them, and   *)
(* choosing the option it shows is no change.  Values are told apart by    *)
(* where they come from, and the fields of a section are one: the exit     *)
(* rules, the capital with its costs, the validation and the risk.         *)
(***************************************************************************)
EXTENDS Naturals

CONSTANTS
    Strategies,
    Keys,         \* names of parameters
    Schema,       \* the parameters of each strategy
    Symbols,
    Timeframes,
    None,
    MaxEdits      \* bound: what the user does

VARIABLES
    kind,         \* which of the three forms
    initial,      \* the request the form starts from
    form,         \* its state
    chosen,       \* observer: what the user, or the request before, chose
    submission,   \* observer: what was sent last, and what the form showed then
    edits

vars == <<kind, initial, form, chosen, submission, edits>>

OrNone(values) == values \cup {None}

Fields == {"strategyName", "symbol", "timeframe"}

(* huge: a range of more combinations than the form accepts.               *)
Values == {"default", "prefilled", "edited", "huge"}
Params == UNION {[keys -> Values] : keys \in SUBSET Keys}

Sections == {"exitRules", "finance", "oos", "risk"}
SectionsOf(k) ==
    {"exitRules"} \cup (CASE k = "backtest" -> {"finance"}
                         [] k = "optimization" -> {"finance", "oos"}
                         [] k = "portfolio" -> {"risk"})
Content == UNION {[sections -> Values] : sections \in SUBSET Sections}

Prefill == [strategyName: Strategies, symbol: Symbols, timeframe: Timeframes,
            params: UNION {[keys -> {"prefilled"}] : keys \in SUBSET Keys}]
Choice == [strategyName: OrNone(Strategies), symbol: OrNone(Symbols),
           timeframe: OrNone(Timeframes)]
Request == [strategyName: OrNone(Strategies), symbol: OrNone(Symbols),
            timeframe: OrNone(Timeframes), params: Params, content: Content]

Submission == [shown: Request, sent: Request]

Options(values) ==
    {o \in [all: SUBSET values, first: OrNone(values)] :
        IF o.all = {} THEN o.first = None ELSE o.first \in o.all}
NoOptions == [all |-> {}, first |-> None]

Form == [strategyName: OrNone(Strategies), symbol: OrNone(Symbols),
         timeframe: OrNone(Timeframes), params: Params, content: Content, oosEnabled: BOOLEAN,
         catalog: Options(Strategies), strategiesLoading: BOOLEAN, catalogError: BOOLEAN,
         symbols: Options(Symbols), timeframes: Options(Timeframes), symbolsLoading: BOOLEAN,
         busy: BOOLEAN, open: BOOLEAN]

NoParams == [k \in {} |-> "default"]
DefaultsFor(s) == [k \in Schema[s] |-> "default"]
HasPrefill == initial # None /\ initial.params # NoParams

(* The form as it is mounted.                                              *)
Fresh ==
    [strategyName |-> IF initial = None THEN None ELSE initial.strategyName,
     symbol |-> IF initial = None THEN None ELSE initial.symbol,
     timeframe |-> IF initial = None THEN None ELSE initial.timeframe,
     params |-> IF initial = None THEN NoParams ELSE initial.params,
     content |-> [part \in SectionsOf(kind) |->
                     IF initial = None THEN "default" ELSE "prefilled"],
     oosEnabled |-> TRUE,
     catalog |-> NoOptions, strategiesLoading |-> TRUE, catalogError |-> FALSE,
     symbols |-> NoOptions, timeframes |-> NoOptions, symbolsLoading |-> TRUE,
     busy |-> FALSE, open |-> TRUE]

-----------------------------------------------------------------------------
(* What the form shows.                                                    *)
ShownIn(value, options) == IF value \in options.all THEN value ELSE options.first

SelectedStrategy == form.strategyName \in form.catalog.all

ShownParams ==
    [k \in Schema[form.strategyName] |->
        IF k \in DOMAIN form.params THEN form.params[k] ELSE "default"]

ShownRequest ==
    [strategyName |-> ShownIn(form.strategyName, form.catalog),
     symbol |-> ShownIn(form.symbol, form.symbols),
     timeframe |-> ShownIn(form.timeframe, form.timeframes),
     params |-> ShownParams,
     content |-> form.content]

(* A spinner takes the place of the form of a backtest that runs.  The     *)
(* dialog of the portfolio has no fields before the catalog has come, and  *)
(* keeps them while it saves.                                              *)
Editable ==
    /\ form.open
    /\ kind = "backtest" => ~form.busy
    /\ kind = "portfolio" => ~form.strategiesLoading /\ ~form.catalogError

Edits == edits < MaxEdits /\ edits' = edits + 1 /\ UNCHANGED <<kind, initial>>

-----------------------------------------------------------------------------
(* The answers the form waits for.                                         *)
TakesFirst(items) ==
    /\ items.all # {}
    /\ IF kind = "portfolio"
       THEN initial = None /\ form.strategyName = None
       ELSE ~HasPrefill

CatalogArrives(items) ==
    /\ form.open
    /\ form.strategiesLoading
    /\ form' = IF TakesFirst(items)
               THEN [form EXCEPT !.catalog = items, !.strategiesLoading = FALSE,
                                 !.strategyName = items.first,
                                 !.params = DefaultsFor(items.first)]
               ELSE [form EXCEPT !.catalog = items, !.strategiesLoading = FALSE]
    /\ UNCHANGED <<kind, initial, chosen, submission, edits>>

CatalogFails ==
    /\ form.open
    /\ form.strategiesLoading
    /\ form' = [form EXCEPT !.strategiesLoading = FALSE, !.catalogError = TRUE]
    /\ UNCHANGED <<kind, initial, chosen, submission, edits>>

(* Mutant: the first symbol is taken even when the form has one.           *)
FirstIfNoneAlways(value, options) ==
    IF options.all = {} THEN value ELSE options.first

FirstIfNone(value, options) == IF value = None THEN options.first ELSE value

DataArrives(symbols, timeframes) ==
    /\ form.open
    /\ form.symbolsLoading
    /\ form' = [form EXCEPT !.symbols = symbols, !.timeframes = timeframes,
                            !.symbolsLoading = FALSE,
                            !.symbol = FirstIfNone(@, symbols),
                            !.timeframe = FirstIfNone(@, timeframes)]
    /\ UNCHANGED <<kind, initial, chosen, submission, edits>>

DataFails ==
    /\ form.open
    /\ form.symbolsLoading
    /\ form' = [form EXCEPT !.symbolsLoading = FALSE]
    /\ UNCHANGED <<kind, initial, chosen, submission, edits>>

-----------------------------------------------------------------------------
(* What the user does.                                                     *)
ChangeSymbol(s) ==
    /\ Editable /\ Edits
    /\ ~form.symbolsLoading
    /\ s \in form.symbols.all
    /\ s # ShownIn(form.symbol, form.symbols)
    /\ form' = [form EXCEPT !.symbol = s]
    /\ chosen' = [chosen EXCEPT !.symbol = s]
    /\ UNCHANGED submission

ChangeTimeframe(t) ==
    /\ Editable /\ Edits
    /\ ~form.symbolsLoading
    /\ t \in form.timeframes.all
    /\ t # ShownIn(form.timeframe, form.timeframes)
    /\ form' = [form EXCEPT !.timeframe = t]
    /\ chosen' = [chosen EXCEPT !.timeframe = t]
    /\ UNCHANGED submission

(* Mutant: the parameters of the strategy before are kept.                 *)
HandleStrategyChangeKeeps(s) ==
    /\ Editable /\ Edits
    /\ s \in form.catalog.all
    /\ s # ShownIn(form.strategyName, form.catalog)
    /\ form' = [form EXCEPT !.strategyName = s]
    /\ chosen' = [chosen EXCEPT !.strategyName = s]
    /\ UNCHANGED submission

HandleStrategyChange(s) ==
    /\ Editable /\ Edits
    /\ s \in form.catalog.all
    /\ s # ShownIn(form.strategyName, form.catalog)
    /\ form' = [form EXCEPT !.strategyName = s, !.params = DefaultsFor(s)]
    /\ chosen' = [chosen EXCEPT !.strategyName = s]
    /\ UNCHANGED submission

EditParam(k, value) ==
    /\ Editable /\ Edits
    /\ SelectedStrategy
    /\ k \in Schema[form.strategyName]
    /\ value \in IF kind = "optimization" THEN {"edited", "huge"} ELSE {"edited"}
    /\ form' = [form EXCEPT !.params =
           [key \in DOMAIN @ \cup {k} |-> IF key = k THEN value ELSE @[key]]]
    /\ UNCHANGED <<chosen, submission>>

EditSection(part) ==
    /\ Editable /\ Edits
    /\ part \in DOMAIN form.content
    /\ form' = [form EXCEPT !.content[part] = "edited"]
    /\ UNCHANGED <<chosen, submission>>

EditExitRules == EditSection("exitRules")
EditFinance == EditSection("finance")
EditRisk == EditSection("risk")

(* The fields of the validation are there when its switch is on.           *)
EditOos == form.oosEnabled /\ EditSection("oos")
ToggleOos ==
    /\ Editable /\ Edits
    /\ kind = "optimization"
    /\ form' = [form EXCEPT !.oosEnabled = ~@]
    /\ UNCHANGED <<chosen, submission>>

(* The combinations are counted as the ranges stand.                       *)
ExceedsLimit == \E k \in DOMAIN form.params : form.params[k] = "huge"

BacktestReady == kind = "backtest" /\ ~form.busy
OptimizationReady == kind = "optimization" /\ ~ExceedsLimit
StrategyReady == kind = "portfolio" /\ ~form.busy /\ ~form.strategiesLoading

Complete == SelectedStrategy /\ None \notin {form.symbol, form.timeframe}

SentRequest ==
    [strategyName |-> form.strategyName, symbol |-> form.symbol, timeframe |-> form.timeframe,
     params |-> form.params, content |-> form.content]

HandleSubmit ==
    /\ form.open
    /\ BacktestReady \/ OptimizationReady \/ StrategyReady
    /\ Complete
    /\ Edits
    /\ submission' = [shown |-> ShownRequest, sent |-> SentRequest]
    /\ form' = [form EXCEPT !.busy = (kind # "optimization")]
    /\ UNCHANGED chosen

(* The spinner of a backtest takes the place of its form: after an error   *)
(* the form is mounted again.                                              *)
SubmitFails ==
    /\ form.open /\ form.busy
    /\ form' = IF kind = "backtest" THEN Fresh ELSE [form EXCEPT !.busy = FALSE]
    /\ UNCHANGED <<kind, initial, chosen, submission, edits>>

(* The request was accepted, or the user leaves.                           *)
Close ==
    /\ form.open
    /\ form' = [form EXCEPT !.open = FALSE, !.busy = FALSE]
    /\ UNCHANGED <<kind, initial, chosen, submission, edits>>

-----------------------------------------------------------------------------
Init ==
    /\ kind \in {"backtest", "optimization", "portfolio"}
    /\ initial \in OrNone(Prefill)
    /\ form = Fresh
    /\ chosen = [f \in Fields |-> IF initial = None THEN None ELSE initial[f]]
    /\ submission = None
    /\ edits = 0

Next ==
    \/ \E items \in Options(Strategies) : CatalogArrives(items)
    \/ CatalogFails
    \/ \E symbols \in Options(Symbols), timeframes \in Options(Timeframes) :
          (symbols.all = {} <=> timeframes.all = {}) /\ DataArrives(symbols, timeframes)
    \/ DataFails
    \/ \E s \in Symbols : ChangeSymbol(s)
    \/ \E t \in Timeframes : ChangeTimeframe(t)
    \/ \E s \in Strategies : HandleStrategyChange(s)
    \/ \E k \in Keys, value \in Values : EditParam(k, value)
    \/ EditExitRules \/ EditFinance \/ EditRisk \/ EditOos \/ ToggleOos
    \/ HandleSubmit
    \/ SubmitFails
    \/ Close

Spec == Init /\ [][Next]_vars

-----------------------------------------------------------------------------
(* The state of the form keeps its type.                                   *)
TypeOK ==
    /\ kind \in {"backtest", "optimization", "portfolio"}
    /\ initial \in OrNone(Prefill)
    /\ form \in Form
    /\ chosen \in Choice
    /\ submission \in OrNone(Submission)
    /\ edits \in 0 .. MaxEdits

(* What is sent is what the form showed when the button was pressed, but   *)
(* for what it was started with and nobody touched since: a symbol or a    *)
(* timeframe that is no longer imported, or a parameter the earlier request*)
(* had no value for, is shown as a default that is not sent                *)
(* (BacktestForm.tsx:199, OptimizationForm.tsx:263, StrategyModal.tsx:246).*)
SubmittedIsShown ==
    submission # None =>
        LET sent == submission.sent
            shown == submission.shown
        IN  /\ sent.strategyName = shown.strategyName /\ sent.content = shown.content
            /\ \A f \in {"symbol", "timeframe"} :
                  sent[f] = shown[f] \/ (initial # None /\ sent[f] = initial[f])
            /\ \A k \in DOMAIN sent.params \cup DOMAIN shown.params :
                  \/ k \in DOMAIN sent.params /\ k \in DOMAIN shown.params
                     /\ sent.params[k] = shown.params[k]
                  \/ /\ initial # None /\ sent.strategyName = initial.strategyName
                     /\ (k \in DOMAIN sent.params) = (k \in DOMAIN initial.params)

(* The same without the exception.                                         *)
SentIsShown == submission # None => submission.sent = submission.shown

(* Answers that come late take nothing back: a strategy, symbol or         *)
(* timeframe that the user chose, or that the form was started with, stays *)
(* (BacktestForm.tsx:157, StrategyModal.tsx:191), unless the earlier       *)
(* request had no parameters, which the forms take for no request at all,  *)
(* or the backtest failed and its form was mounted again.                  *)
ChoicesSurvive ==
    \/ initial # None /\ ~HasPrefill /\ kind # "portfolio"
    \/ kind = "backtest" /\ submission # None
    \/ \A f \in Fields : chosen[f] # None => form[f] = chosen[f]

(* The same without the exceptions.                                        *)
ChoicesAreKept == \A f \in Fields : chosen[f] # None => form[f] = chosen[f]

-----------------------------------------------------------------------------
(***************************************************************************)
(* What makes the properties of the forms inductive.                       *)
(***************************************************************************)
(* A form that waits for a list has no options of it.                      *)
LoadingIsEmpty ==
    /\ form.strategiesLoading => form.catalog = NoOptions
    /\ form.symbolsLoading => form.symbols = NoOptions /\ form.timeframes = NoOptions

BusyWasSent == form.busy => submission # None

(* No strategy can be chosen before the catalog has come.                  *)
NoEarlyChoice ==
    \/ initial # None
    \/ ~form.strategiesLoading
    \/ kind = "backtest" /\ submission # None
    \/ chosen.strategyName = None

ChoiceInv == TypeOK /\ LoadingIsEmpty /\ BusyWasSent /\ NoEarlyChoice /\ ChoicesSurvive

(* A value that is not among the options is the one of the request before. *)
Known(value, options, before) ==
    value = None \/ value \in options.all \/ (initial # None /\ value = before)

ValuesAreKnown ==
    /\ Known(form.symbol, form.symbols, initial.symbol)
    /\ Known(form.timeframe, form.timeframes, initial.timeframe)

(* The parameters are those of the strategy, or those of the request before*)
(* and the ones edited since.                                              *)
ParamsOfStrategy == DOMAIN form.params = Schema[form.strategyName]

ParamsOfPrefill ==
    /\ initial # None /\ form.strategyName = initial.strategyName
    /\ DOMAIN initial.params \subseteq DOMAIN form.params
    /\ DOMAIN form.params \subseteq DOMAIN initial.params \cup Schema[form.strategyName]

ParamsBelong == form.strategyName = None \/ ParamsOfStrategy \/ ParamsOfPrefill

SubmitInv == TypeOK /\ LoadingIsEmpty /\ ValuesAreKnown /\ ParamsBelong /\ SubmittedIsShown
=============================================================================

--------------------------- MODULE WebTasksProofs ---------------------------
(***************************************************************************)
(* Theorems about WebTasks, for every set of runs, of strategies and of    *)
(* their parameters, any number of sweeps and any bounds.                  *)
(***************************************************************************)
EXTENDS WebTasks, WellFoundedInduction, TLAPS

(* Where the element at j was before the one at i was taken out.           *)
Before(j, i) == IF j < i THEN j ELSE j + 1

LEMMA Removed ==
    ASSUME NEW S, NEW s \in Seq(S), NEW i \in DOMAIN s
    PROVE  /\ RemoveAt(s, i) \in Seq(S)
           /\ Len(RemoveAt(s, i)) = Len(s) - 1
           /\ \A j \in DOMAIN RemoveAt(s, i) :
                 /\ Before(j, i) \in DOMAIN s /\ Before(j, i) # i
                 /\ RemoveAt(s, i)[j] = s[Before(j, i)]
<1> DEFINE head == SubSeq(s, 1, i - 1)
           tail == SubSeq(s, i + 1, Len(s))
<1>1. i \in 1 .. Len(s) /\ Len(s) \in Nat
  OBVIOUS
<1>2. head \in Seq(S) /\ Len(head) = i - 1 /\ \A j \in 1 .. i - 1 : head[j] = s[j]
  BY <1>1
<1>3. /\ tail \in Seq(S) /\ Len(tail) = Len(s) - i
      /\ \A j \in 1 .. Len(s) - i : tail[j] = s[i + j]
  BY <1>1
<1> HIDE DEF head, tail
<1>4. RemoveAt(s, i) = head \o tail
  BY DEF RemoveAt, head, tail
<1>5. head \o tail \in Seq(S) /\ Len(head \o tail) = Len(s) - 1
  BY <1>1, <1>2, <1>3
<1>6. ASSUME NEW j \in 1 .. Len(s) - 1
      PROVE  /\ Before(j, i) \in DOMAIN s /\ Before(j, i) # i
             /\ (head \o tail)[j] = s[Before(j, i)]
  <2>1. CASE j < i
    BY <1>1, <1>2, <1>3, <2>1 DEF Before
  <2>2. CASE ~(j < i)
    <3>1. (head \o tail)[j] = tail[j - (i - 1)]
      BY <1>1, <1>2, <1>3, <2>2
    <3>2. j - (i - 1) \in 1 .. Len(s) - i /\ i + (j - (i - 1)) = j + 1
      BY <1>1, <2>2
    <3> QED
      BY <1>1, <1>3, <3>1, <3>2, <2>2 DEF Before
  <2> QED
    BY <2>1, <2>2
<1> QED
  BY <1>4, <1>5, <1>6

LEMMA BeforeIsInjective ==
    ASSUME NEW i \in Nat, NEW j \in Nat, NEW k \in Nat
    PROVE  /\ Before(j, i) = Before(k, i) => j = k
           /\ j <= k <=> Before(j, i) <= Before(k, i)
BY DEF Before

LEMMA Added ==
    ASSUME NEW S, NEW s \in Seq(S), NEW e \in S
    PROVE  /\ Append(s, e) \in Seq(S)
           /\ DOMAIN Append(s, e) = DOMAIN s \cup {Len(s) + 1} /\ Len(s) + 1 \notin DOMAIN s
           /\ Append(s, e)[Len(s) + 1] = e
           /\ \A j \in DOMAIN s : Append(s, e)[j] = s[j]
OBVIOUS

-----------------------------------------------------------------------------
(***************************************************************************)
(* The routes.                                                             *)
(***************************************************************************)
LEMMA Starts ==
    Init => /\ route = "backtest" => Backtest!Init
            /\ route = "optimizer" => Optimizer!Init
            /\ route = "sweep" => Sweep!Init
            /\ route = "form" => Request!Init
BY DEF Init

LEMMA Steps ==
    [Next]_vars => /\ route' = route
                   /\ route = "backtest" => Backtest!Next \/ UNCHANGED Backtest!vars
                   /\ route = "optimizer" => Optimizer!Next \/ UNCHANGED Optimizer!vars
                   /\ route = "sweep" => Sweep!Next \/ UNCHANGED Sweep!vars
                   /\ route = "form" => Request!Next \/ UNCHANGED Request!vars
<1>1. Next => /\ route' = route
              /\ route = "backtest" => Backtest!Next
              /\ route = "optimizer" => Optimizer!Next
              /\ route = "sweep" => Sweep!Next
              /\ route = "form" => Request!Next
  BY DEF Next
<1>2. UNCHANGED vars => /\ UNCHANGED <<route, page, loads, server, clicks, failures>>
                        /\ UNCHANGED <<details, deletion, overtaken, chain, timer, asked, left>>
                        /\ UNCHANGED <<posts, progress, results, doubled>>
                        /\ UNCHANGED <<polls, run, state, threads, rows, unseen, disturbed>>
                        /\ UNCHANGED <<kind, initial, form, chosen, submission, edits>>
  BY DEF vars, shared, historical, backtest, optimizer, sweep, request, bounds
<1>3. UNCHANGED vars => UNCHANGED Backtest!vars
  BY <1>2 DEF Backtest!vars, Backtest!lists, Backtest!following, Backtest!observed, Backtest!bounds
<1>4. UNCHANGED vars => UNCHANGED Optimizer!vars
  BY <1>2 DEF Optimizer!vars, Optimizer!lists, Optimizer!following, Optimizer!bounds
<1>5. UNCHANGED vars => UNCHANGED Request!vars
  BY <1>2 DEF Request!vars
<1>6. UNCHANGED vars => UNCHANGED Sweep!vars
  BY <1>2 DEF Sweep!vars, Sweep!calls, Sweep!server, Sweep!observed, Sweep!bounds
<1> QED
  BY <1>1, <1>2, <1>3, <1>4, <1>5, <1>6

LEMMA FormAssumption ==
    /\ FewClicks \in Nat
    /\ None \notin FormStrategies \cup Request!Submission
    /\ Schema \in [FormStrategies -> SUBSET Keys]
BY TasksAssumption, BoundsAssumption

LEMMA ClosuresAssumption == None \notin Optimizer!Closures
BY TasksAssumption

LEMMA OptimizerBounds == {OptimizerClicks, MaxFailures} \subseteq Nat
BY TasksAssumption, BoundsAssumption

LEMMA SweepsAssumption == MaxSweeps \in Nat
BY TasksAssumption

LEMMA SweepBounds == {FewClicks, MaxFailures} \subseteq Nat
BY TasksAssumption, BoundsAssumption

-----------------------------------------------------------------------------
(***************************************************************************)
(* The forms.                                                              *)
(***************************************************************************)
LEMMA ParamTypes ==
    /\ Request!NoParams \in Request!Params
    /\ \A s \in FormStrategies : Request!DefaultsFor(s) \in Request!Params
    /\ Request!Prefill \subseteq [strategyName: FormStrategies, symbol: Symbols,
         timeframe: Timeframes,
                                  params: Request!Params]
<1>1. Request!NoParams \in Request!Params
  <2>1. Request!NoParams \in [{} -> Request!Values]
    BY DEF Request!NoParams
  <2> QED
    BY <2>1 DEF Request!Params
<1>2. \A s \in FormStrategies : Request!DefaultsFor(s) \in Request!Params
  <2> TAKE s \in FormStrategies
  <2>1. Schema[s] \in SUBSET Keys
    BY FormAssumption
  <2>2. Request!DefaultsFor(s) \in [Schema[s] -> Request!Values]
    BY DEF Request!DefaultsFor, Request!Values
  <2> QED
    BY <2>1, <2>2 DEF Request!Params
<1>3. UNION {[keys -> {"prefilled"}] : keys \in SUBSET Keys} \subseteq Request!Params
  <2>1. \A keys \in SUBSET Keys : [keys -> {"prefilled"}] \subseteq [keys -> Request!Values]
    BY DEF Request!Values
  <2> QED
    BY <2>1 DEF Request!Params
<1> QED
  BY <1>1, <1>2, <1>3 DEF Request!Prefill

LEMMA ContentTypes ==
    ASSUME NEW k \in {"backtest", "optimization", "portfolio"}, NEW v \in Request!Values
    PROVE  [part \in Request!SectionsOf(k) |-> v] \in Request!Content
<1>1. Request!SectionsOf(k) \in SUBSET Request!Sections
  BY DEF Request!SectionsOf, Request!Sections
<1>2. [part \in Request!SectionsOf(k) |-> v] \in [Request!SectionsOf(k) -> Request!Values]
  OBVIOUS
<1> QED
  BY <1>1, <1>2 DEF Request!Content

LEMMA FreshTypes ==
    ASSUME kind \in {"backtest", "optimization", "portfolio"},
           initial \in Request!OrNone(Request!Prefill)
    PROVE  Request!Fresh \in Request!Form
<1>1. Request!NoOptions \in Request!Options(FormStrategies) /\
        Request!NoOptions \in Request!Options(Symbols)
      /\ Request!NoOptions \in Request!Options(Timeframes)
  BY DEF Request!NoOptions, Request!Options, Request!OrNone
<1>2. Request!Fresh.content \in Request!Content
  <2>1. CASE initial = None
    BY <2>1, ContentTypes DEF Request!Fresh, Request!Values
  <2>2. CASE initial # None
    BY <2>2, ContentTypes DEF Request!Fresh, Request!Values
  <2> QED
    BY <2>1, <2>2
<1>3. /\ Request!Fresh.strategyName \in Request!OrNone(FormStrategies)
      /\ Request!Fresh.symbol \in Request!OrNone(Symbols)
      /\ Request!Fresh.timeframe \in Request!OrNone(Timeframes)
      /\ Request!Fresh.params \in Request!Params
  <2>1. CASE initial = None
    BY <2>1, ParamTypes DEF Request!Fresh, Request!OrNone
  <2>2. CASE initial # None
    <3>1. initial \in [strategyName: FormStrategies, symbol: Symbols, timeframe: Timeframes,
                       params: Request!Params]
      BY <2>2, ParamTypes DEF Request!OrNone
    <3> QED
      BY <3>1, <2>2 DEF Request!Fresh, Request!OrNone
  <2> QED
    BY <2>1, <2>2
<1> QED
  BY <1>1, <1>2, <1>3 DEF Request!Fresh, Request!Form

LEMMA InitTypes == Request!Init => Request!TypeOK
<1> SUFFICES ASSUME Request!Init PROVE Request!TypeOK
  OBVIOUS
<1>1. form \in Request!Form
  BY FreshTypes DEF Request!Init
<1>2. chosen \in Request!Choice
  BY DEF Request!Init, Request!Choice, Request!OrNone, Request!Prefill, Request!Fields
<1> QED
  BY <1>1, <1>2, FormAssumption DEF Request!TypeOK, Request!Init, Request!OrNone

LEMMA ShownTypes ==
    ASSUME Request!TypeOK, Request!Complete
    PROVE  [shown |-> Request!ShownRequest, sent |-> Request!SentRequest] \in Request!Submission
<1>1. form \in Request!Form
  BY DEF Request!TypeOK
<1>2. Request!SentRequest \in Request!Request
  BY <1>1 DEF Request!SentRequest, Request!Request, Request!Form
<1>3. form.strategyName \in FormStrategies
  BY <1>1 DEF Request!Complete, Request!SelectedStrategy, Request!Form, Request!Options
<1>4. Request!ShownParams \in Request!Params
  <2>1. Schema[form.strategyName] \in SUBSET Keys
    BY <1>3, FormAssumption
  <2>2. PICK keys \in SUBSET Keys : form.params \in [keys -> Request!Values]
    BY <1>1 DEF Request!Form, Request!Params
  <2>3. Request!ShownParams \in [Schema[form.strategyName] -> Request!Values]
    BY <2>2 DEF Request!ShownParams, Request!Values
  <2> QED
    BY <2>1, <2>3 DEF Request!Params
<1>5. /\ Request!ShownIn(form.strategyName, form.catalog) \in Request!OrNone(FormStrategies)
      /\ Request!ShownIn(form.symbol, form.symbols) \in Request!OrNone(Symbols)
      /\ Request!ShownIn(form.timeframe, form.timeframes) \in Request!OrNone(Timeframes)
  BY <1>1 DEF Request!Form, Request!Options, Request!ShownIn, Request!OrNone
<1>6. form.content \in Request!Content
  BY <1>1 DEF Request!Form
<1>7. Request!ShownRequest \in Request!Request
  BY <1>4, <1>5, <1>6 DEF Request!ShownRequest, Request!Request
<1> QED
  BY <1>2, <1>7 DEF Request!Submission

LEMMA EditTypes == ASSUME Request!TypeOK, Request!Edits PROVE edits' \in 0 .. FewClicks
BY FormAssumption DEF Request!TypeOK, Request!Edits

LEMMA StepTypes == Request!TypeOK /\ (Request!Next \/ UNCHANGED Request!vars) => Request!TypeOK'
<1> SUFFICES ASSUME Request!TypeOK, (Request!Next \/ UNCHANGED Request!vars) PROVE Request!TypeOK'
  OBVIOUS
<1>0. form \in Request!Form /\ chosen \in Request!Choice
  BY DEF Request!TypeOK
<1>f. /\ form.params \in Request!Params /\ form.content \in Request!Content
      /\ form.strategyName \in Request!OrNone(FormStrategies)
      /\ form.symbol \in Request!OrNone(Symbols) /\ form.timeframe \in Request!OrNone(Timeframes)
      /\ form.catalog \in Request!Options(FormStrategies)
      /\ form.symbols \in Request!Options(Symbols)
      /\ form.timeframes \in Request!Options(Timeframes)
      /\ {form.strategiesLoading, form.catalogError, form.symbolsLoading, form.oosEnabled,
          form.busy, form.open} \subseteq BOOLEAN
  BY <1>0 DEF Request!Form
<1> DEFINE Fixed == UNCHANGED <<kind, initial, chosen, submission, edits>>
<1>s. form' \in Request!Form /\ Fixed => Request!TypeOK'
  BY DEF Request!TypeOK
<1>1. ASSUME NEW items \in Request!Options(FormStrategies), Request!CatalogArrives(items)
      PROVE Request!TypeOK'
  <2>1. form' \in Request!Form
    <3>1. CASE Request!TakesFirst(items)
      <4>1. items.first \in FormStrategies
        BY <3>1 DEF Request!TakesFirst, Request!Options
      <4>2. Request!DefaultsFor(items.first) \in Request!Params
        BY <4>1, ParamTypes
      <4> QED
        BY <1>0, <1>1, <3>1, <4>1, <4>2 DEF Request!CatalogArrives, Request!Form, Request!OrNone
    <3>2. CASE ~Request!TakesFirst(items)
      BY <1>0, <1>1, <3>2 DEF Request!CatalogArrives, Request!Form
    <3> QED
      BY <3>1, <3>2
  <2> QED
    BY <1>1, <1>s, <2>1 DEF Request!CatalogArrives
<1>2. ASSUME Request!CatalogFails PROVE Request!TypeOK'
  <2>1. form' \in Request!Form
    BY <1>0, <1>2 DEF Request!CatalogFails, Request!Form
  <2> QED
    BY <1>2, <1>s, <2>1 DEF Request!CatalogFails
<1>3. ASSUME NEW symbols \in Request!Options(Symbols),
             NEW timeframes \in Request!Options(Timeframes),
             Request!DataArrives(symbols, timeframes)
      PROVE  Request!TypeOK'
  <2>1. Request!FirstIfNone(form.symbol, symbols) \in Request!OrNone(Symbols)
        /\ Request!FirstIfNone(form.timeframe, timeframes) \in Request!OrNone(Timeframes)
    BY <1>f DEF Request!FirstIfNone, Request!Options, Request!OrNone
  <2>2. form' \in Request!Form
    BY <1>0, <1>3, <2>1 DEF Request!DataArrives, Request!Form
  <2> QED
    BY <1>3, <1>s, <2>2 DEF Request!DataArrives
<1>4. ASSUME Request!DataFails PROVE Request!TypeOK'
  <2>1. form' \in Request!Form
    BY <1>0, <1>4 DEF Request!DataFails, Request!Form
  <2> QED
    BY <1>4, <1>s, <2>1 DEF Request!DataFails
<1>5. ASSUME NEW s \in Symbols, Request!ChangeSymbol(s) PROVE Request!TypeOK'
  <2>1. form' \in Request!Form /\ chosen' \in Request!Choice
    BY <1>0, <1>5 DEF Request!ChangeSymbol, Request!Form, Request!Choice, Request!OrNone
  <2> QED
    BY <1>5, <2>1, EditTypes DEF Request!ChangeSymbol, Request!TypeOK, Request!Edits
<1>6. ASSUME NEW t \in Timeframes, Request!ChangeTimeframe(t) PROVE Request!TypeOK'
  <2>1. form' \in Request!Form /\ chosen' \in Request!Choice
    BY <1>0, <1>6 DEF Request!ChangeTimeframe, Request!Form, Request!Choice, Request!OrNone
  <2> QED
    BY <1>6, <2>1, EditTypes DEF Request!ChangeTimeframe, Request!TypeOK, Request!Edits
<1>7. ASSUME NEW s \in FormStrategies, Request!HandleStrategyChange(s) PROVE Request!TypeOK'
  <2>1. Request!DefaultsFor(s) \in Request!Params
    BY ParamTypes
  <2>2. form' \in Request!Form /\ chosen' \in Request!Choice
    BY <1>0, <1>7, <2>1
    DEF Request!HandleStrategyChange, Request!Form, Request!Choice, Request!OrNone
  <2> QED
    BY <1>7, <2>2, EditTypes DEF Request!HandleStrategyChange, Request!TypeOK, Request!Edits
<1>8. ASSUME NEW k \in Keys, NEW value \in Request!Values, Request!EditParam(k, value)
      PROVE Request!TypeOK'
  <2> DEFINE edited == [key \in DOMAIN form.params \cup {k} |->
                           IF key = k THEN value ELSE form.params[key]]
  <2>1. edited \in Request!Params
    <3>1. PICK keys \in SUBSET Keys : form.params \in [keys -> Request!Values]
      BY <1>f DEF Request!Params
    <3>2. edited \in [keys \cup {k} -> Request!Values]
      BY <3>1
    <3>3. keys \cup {k} \in SUBSET Keys
      OBVIOUS
    <3> HIDE DEF edited
    <3> QED
      BY <3>2, <3>3 DEF Request!Params
  <2>2. form' = [form EXCEPT !.params = edited]
    BY <1>8 DEF Request!EditParam
  <2> HIDE DEF edited
  <2>3. form' \in Request!Form
    BY <1>0, <2>1, <2>2 DEF Request!Form
  <2> QED
    BY <1>8, <2>3, EditTypes DEF Request!EditParam, Request!TypeOK, Request!Edits
<1>9. ASSUME NEW part, Request!EditSection(part) PROVE Request!TypeOK'
  <2> DEFINE edited == [form.content EXCEPT ![part] = "edited"]
  <2>1. edited \in Request!Content
    <3>1. PICK sections \in SUBSET Request!Sections : form.content \in [sections -> Request!Values]
      BY <1>f DEF Request!Content
    <3>2. edited \in [sections -> Request!Values]
      BY <3>1 DEF Request!Values
    <3> HIDE DEF edited
    <3> QED
      BY <3>2 DEF Request!Content
  <2>2. form' = [form EXCEPT !.content = edited]
    BY <1>0, <1>9 DEF Request!EditSection, Request!Form
  <2> HIDE DEF edited
  <2>3. form' \in Request!Form
    BY <1>0, <2>1, <2>2 DEF Request!Form
  <2> QED
    BY <1>9, <2>3, EditTypes DEF Request!EditSection, Request!TypeOK, Request!Edits
<1>10. ASSUME Request!ToggleOos PROVE Request!TypeOK'
  <2>1. form' \in Request!Form
    BY <1>0, <1>10 DEF Request!ToggleOos, Request!Form
  <2> QED
    BY <1>10, <2>1, EditTypes DEF Request!ToggleOos, Request!TypeOK, Request!Edits
<1>11. ASSUME Request!HandleSubmit PROVE Request!TypeOK'
  <2>1. form' \in Request!Form
    BY <1>0, <1>11 DEF Request!HandleSubmit, Request!Form
  <2>2. submission' \in Request!Submission
    BY <1>11, ShownTypes DEF Request!HandleSubmit
  <2> QED
    BY <1>11, <2>1, <2>2, EditTypes
    DEF Request!HandleSubmit, Request!TypeOK, Request!Edits, Request!OrNone
<1>12. ASSUME Request!SubmitFails PROVE Request!TypeOK'
  <2>1. form' \in Request!Form
    <3>1. Request!Fresh \in Request!Form
      BY FreshTypes DEF Request!TypeOK
    <3>2. [form EXCEPT !.busy = FALSE] \in Request!Form
      BY <1>0 DEF Request!Form
    <3> QED
      BY <1>12, <3>1, <3>2 DEF Request!SubmitFails
  <2> QED
    BY <1>12, <1>s, <2>1 DEF Request!SubmitFails
<1>13. ASSUME Request!Close PROVE Request!TypeOK'
  <2>1. form' \in Request!Form
    BY <1>0, <1>13 DEF Request!Close, Request!Form
  <2> QED
    BY <1>13, <1>s, <2>1 DEF Request!Close
<1>14. ASSUME UNCHANGED Request!vars PROVE Request!TypeOK'
  BY <1>14 DEF Request!vars, Request!TypeOK
<1> QED
  BY <1>1, <1>2, <1>3, <1>4, <1>5, <1>6, <1>7, <1>8, <1>9, <1>10, <1>11, <1>12, <1>13, <1>14
  DEF Request!Next, Request!EditExitRules, Request!EditFinance, Request!EditRisk, Request!EditOos

LEMMA ChoiceInit == Request!Init => Request!ChoiceInv
<1> SUFFICES ASSUME Request!Init PROVE Request!ChoiceInv
  OBVIOUS
<1>1. Request!TypeOK
  BY InitTypes
<1>2. Request!LoadingIsEmpty /\ Request!BusyWasSent
  BY DEF Request!Init, Request!Fresh, Request!LoadingIsEmpty, Request!BusyWasSent
<1>3. Request!NoEarlyChoice
  BY DEF Request!Init, Request!Fresh, Request!NoEarlyChoice, Request!Fields
<1>4. Request!ChoicesSurvive
  <2>1. CASE initial = None
    BY <2>1 DEF Request!Init, Request!ChoicesSurvive, Request!Fields
  <2>2. CASE initial # None
    BY <2>2 DEF Request!Init, Request!Fresh, Request!ChoicesSurvive, Request!Fields
  <2> QED
    BY <2>1, <2>2
<1> QED
  BY <1>1, <1>2, <1>3, <1>4 DEF Request!ChoiceInv

(* Unless the answers are known to change the choices, each is as before.  *)
Excused == \/ initial # None /\ ~Request!HasPrefill /\ kind # "portfolio"
           \/ kind = "backtest" /\ submission # None

LEMMA ChoiceKept ==
    ASSUME Request!ChoicesSurvive, NEW f \in Request!Fields, chosen[f] # None
    PROVE  Excused \/ form[f] = chosen[f]
BY DEF Request!ChoicesSurvive, Excused

LEMMA StepKeepsExcuse ==
    ASSUME Request!TypeOK, (Request!Next \/ UNCHANGED Request!vars)
    PROVE  /\ UNCHANGED <<kind, initial>>
           /\ submission # None => submission' # None
           /\ Excused => Excused'
<1>1. UNCHANGED <<kind, initial>>
  BY DEF Request!Next, Request!vars, Request!Edits, Request!CatalogArrives, Request!CatalogFails,
     Request!DataArrives, Request!DataFails, Request!ChangeSymbol, Request!ChangeTimeframe,
     Request!HandleStrategyChange, Request!EditParam, Request!EditExitRules, Request!EditFinance,
     Request!EditRisk, Request!EditOos, Request!EditSection, Request!ToggleOos,
     Request!HandleSubmit, Request!SubmitFails, Request!Close
<1>2. Request!HandleSubmit => submission' # None
  <2> SUFFICES ASSUME Request!HandleSubmit PROVE submission' # None
    OBVIOUS
  <2>1. submission' \in Request!Submission
    BY ShownTypes DEF Request!HandleSubmit
  <2> QED
    BY <2>1, FormAssumption
<1>3. ~Request!HandleSubmit => submission' = submission
  BY DEF Request!Next, Request!vars, Request!Edits, Request!CatalogArrives, Request!CatalogFails,
     Request!DataArrives, Request!DataFails, Request!ChangeSymbol, Request!ChangeTimeframe,
     Request!HandleStrategyChange, Request!EditParam, Request!EditExitRules, Request!EditFinance,
     Request!EditRisk, Request!EditOos, Request!EditSection, Request!ToggleOos, Request!SubmitFails,
     Request!Close
<1>4. submission # None => submission' # None
  BY <1>2, <1>3
<1> QED
  BY <1>1, <1>4 DEF Excused, Request!HasPrefill

(* A step that leaves the fields, and what was chosen, as they are.        *)
LEMMA FieldsKept ==
    ASSUME Request!ChoicesSurvive, Request!TypeOK, (Request!Next \/ UNCHANGED Request!vars),
           chosen' = chosen,
           \A f \in Request!Fields : chosen[f] # None => form'[f] = form[f]
    PROVE  Request!ChoicesSurvive'
BY StepKeepsExcuse DEF Request!ChoicesSurvive, Excused

LEMMA ChoiceStep ==
    Request!ChoiceInv /\ (Request!Next \/ UNCHANGED Request!vars) => Request!ChoiceInv'
<1> SUFFICES ASSUME Request!ChoiceInv, (Request!Next \/ UNCHANGED Request!vars)
             PROVE Request!ChoiceInv'
  OBVIOUS
<1>0. Request!TypeOK /\ Request!LoadingIsEmpty /\ Request!BusyWasSent /\ Request!NoEarlyChoice /\
        Request!ChoicesSurvive
  BY DEF Request!ChoiceInv
<1>t. Request!TypeOK'
  BY <1>0, StepTypes
<1>f. form \in Request!Form /\ chosen \in Request!Choice
  BY <1>0 DEF Request!TypeOK
<1>k. /\ UNCHANGED <<kind, initial>> /\ (submission # None => submission' # None)
      /\ (Excused => Excused')
  BY <1>0, StepKeepsExcuse
<1> DEFINE Rest == (Request!LoadingIsEmpty /\ Request!BusyWasSent /\ Request!NoEarlyChoice /\
             Request!ChoicesSurvive)'
<1>1. ASSUME NEW items \in Request!Options(FormStrategies), Request!CatalogArrives(items) PROVE Rest
  <2>1. Request!LoadingIsEmpty' /\ Request!BusyWasSent' /\ Request!NoEarlyChoice'
    BY <1>0, <1>1, <1>f, <1>k DEF Request!CatalogArrives, Request!LoadingIsEmpty,
       Request!BusyWasSent, Request!NoEarlyChoice, Request!Form
  <2>2. CASE ~Request!TakesFirst(items)
    BY <1>0, <1>1, <1>f, <2>1, <2>2, FieldsKept
    DEF Request!CatalogArrives, Request!Form, Request!Fields
  <2>3. CASE Request!TakesFirst(items) /\ (Excused \/ chosen.strategyName = None)
    <3>1. chosen' = chosen /\ form'.symbol = form.symbol /\ form'.timeframe = form.timeframe
      BY <1>1, <1>f, <2>3 DEF Request!CatalogArrives, Request!Form
    <3>2. Request!ChoicesSurvive'
      BY <1>0, <1>k, <2>3, <3>1 DEF Request!ChoicesSurvive, Excused, Request!Fields
    <3> QED
      BY <2>1, <3>2
  <2>4. Request!TakesFirst(items) => Excused \/ chosen.strategyName = None
    <3> SUFFICES ASSUME Request!TakesFirst(items), ~Excused PROVE chosen.strategyName = None
      OBVIOUS
    <3>1. CASE kind = "portfolio"
      BY <1>0, <3>1, ChoiceKept DEF Request!TakesFirst, Request!Fields
    <3>2. CASE kind # "portfolio"
      BY <1>0, <1>1, <3>2
      DEF Request!TakesFirst, Excused, Request!NoEarlyChoice, Request!CatalogArrives
    <3> QED
      BY <3>1, <3>2
  <2> QED
    BY <2>2, <2>3, <2>4
<1>2. ASSUME Request!CatalogFails PROVE Rest
  <2>1. Request!LoadingIsEmpty' /\ Request!BusyWasSent' /\ Request!NoEarlyChoice'
    BY <1>0, <1>2, <1>f, <1>k DEF Request!CatalogFails, Request!LoadingIsEmpty, Request!BusyWasSent,
       Request!NoEarlyChoice, Request!Form
  <2> QED
    BY <1>0, <1>2, <1>f, <2>1, FieldsKept DEF Request!CatalogFails, Request!Form, Request!Fields
<1>3. ASSUME NEW symbols \in Request!Options(Symbols),
             NEW timeframes \in Request!Options(Timeframes),
             Request!DataArrives(symbols, timeframes)
      PROVE  Rest
  <2>1. Request!LoadingIsEmpty' /\ Request!BusyWasSent' /\ Request!NoEarlyChoice'
    BY <1>0, <1>3, <1>f, <1>k DEF Request!DataArrives, Request!LoadingIsEmpty, Request!BusyWasSent,
       Request!NoEarlyChoice, Request!Form
  <2>2. \A f \in Request!Fields : form[f] # None => form'[f] = form[f]
    BY <1>3, <1>f DEF Request!DataArrives, Request!Form, Request!Fields, Request!FirstIfNone
  <2>3. Request!ChoicesSurvive'
    BY <1>0, <1>3, <1>k, <2>2
    DEF Request!DataArrives, Request!ChoicesSurvive, Excused, Request!Fields
  <2> QED
    BY <2>1, <2>3
<1>4. ASSUME Request!DataFails PROVE Rest
  <2>1. Request!LoadingIsEmpty' /\ Request!BusyWasSent' /\ Request!NoEarlyChoice'
    BY <1>0, <1>4, <1>f, <1>k DEF Request!DataFails, Request!LoadingIsEmpty, Request!BusyWasSent,
       Request!NoEarlyChoice, Request!Form
  <2> QED
    BY <1>0, <1>4, <1>f, <2>1, FieldsKept DEF Request!DataFails, Request!Form, Request!Fields
<1>5. ASSUME NEW s \in Symbols, Request!ChangeSymbol(s) PROVE Rest
  <2>1. Request!LoadingIsEmpty' /\ Request!BusyWasSent' /\ Request!NoEarlyChoice'
    BY <1>0, <1>5, <1>f, <1>k DEF Request!ChangeSymbol, Request!LoadingIsEmpty, Request!BusyWasSent,
       Request!NoEarlyChoice, Request!Form, Request!Choice
  <2>2. Request!ChoicesSurvive'
    BY <1>0, <1>5, <1>f, <1>k DEF Request!ChangeSymbol, Request!ChoicesSurvive, Excused,
       Request!Form, Request!Choice, Request!Fields
  <2> QED
    BY <2>1, <2>2
<1>6. ASSUME NEW t \in Timeframes, Request!ChangeTimeframe(t) PROVE Rest
  <2>1. Request!LoadingIsEmpty' /\ Request!BusyWasSent' /\ Request!NoEarlyChoice'
    BY <1>0, <1>6, <1>f, <1>k DEF Request!ChangeTimeframe, Request!LoadingIsEmpty,
       Request!BusyWasSent, Request!NoEarlyChoice, Request!Form, Request!Choice
  <2>2. Request!ChoicesSurvive'
    BY <1>0, <1>6, <1>f, <1>k DEF Request!ChangeTimeframe, Request!ChoicesSurvive, Excused,
       Request!Form, Request!Choice, Request!Fields
  <2> QED
    BY <2>1, <2>2
<1>7. ASSUME NEW s \in FormStrategies, Request!HandleStrategyChange(s) PROVE Rest
  <2>1. ~form.strategiesLoading
    BY <1>0, <1>7 DEF Request!HandleStrategyChange, Request!LoadingIsEmpty, Request!NoOptions
  <2>2. Request!LoadingIsEmpty' /\ Request!BusyWasSent' /\ Request!NoEarlyChoice'
    BY <1>0, <1>7, <1>f, <1>k, <2>1 DEF Request!HandleStrategyChange, Request!LoadingIsEmpty,
       Request!BusyWasSent, Request!NoEarlyChoice, Request!Form
  <2>3. Request!ChoicesSurvive'
    BY <1>0, <1>7, <1>f, <1>k DEF Request!HandleStrategyChange, Request!ChoicesSurvive, Excused,
       Request!Form, Request!Choice, Request!Fields
  <2> QED
    BY <2>2, <2>3
<1>8. ASSUME NEW k \in Keys, NEW value \in Request!Values, Request!EditParam(k, value) PROVE Rest
  <2> DEFINE edited == [key \in DOMAIN form.params \cup {k} |->
                           IF key = k THEN value ELSE form.params[key]]
  <2>1. form' = [form EXCEPT !.params = edited] /\ UNCHANGED <<chosen, submission>>
    BY <1>8 DEF Request!EditParam
  <2> HIDE DEF edited
  <2>2. Request!LoadingIsEmpty' /\ Request!BusyWasSent' /\ Request!NoEarlyChoice'
    BY <1>0, <1>f, <1>k, <2>1
    DEF Request!LoadingIsEmpty, Request!BusyWasSent, Request!NoEarlyChoice, Request!Form
  <2> QED
    BY <1>0, <1>f, <2>1, <2>2, FieldsKept DEF Request!Form, Request!Fields
<1>9. ASSUME NEW part, Request!EditSection(part) PROVE Rest
  <2>2. Request!LoadingIsEmpty' /\ Request!BusyWasSent' /\ Request!NoEarlyChoice'
    BY <1>0, <1>f, <1>k, <1>9 DEF Request!EditSection, Request!LoadingIsEmpty, Request!BusyWasSent,
       Request!NoEarlyChoice, Request!Form
  <2> QED
    BY <1>0, <1>f, <1>9, <2>2, FieldsKept DEF Request!EditSection, Request!Form, Request!Fields
<1>10. ASSUME Request!ToggleOos PROVE Rest
  <2>2. Request!LoadingIsEmpty' /\ Request!BusyWasSent' /\ Request!NoEarlyChoice'
    BY <1>0, <1>f, <1>k, <1>10 DEF Request!ToggleOos, Request!LoadingIsEmpty, Request!BusyWasSent,
       Request!NoEarlyChoice, Request!Form
  <2> QED
    BY <1>0, <1>f, <1>10, <2>2, FieldsKept DEF Request!ToggleOos, Request!Form, Request!Fields
<1>11. ASSUME Request!HandleSubmit PROVE Rest
  <2>1. submission' # None
    <3>1. submission' \in Request!Submission
      BY <1>0, <1>11, ShownTypes DEF Request!HandleSubmit
    <3> QED
      BY <3>1, FormAssumption
  <2>2. Request!LoadingIsEmpty' /\ Request!BusyWasSent' /\ Request!NoEarlyChoice'
    BY <1>0, <1>f, <1>k, <1>11, <2>1 DEF Request!HandleSubmit, Request!LoadingIsEmpty,
       Request!BusyWasSent, Request!NoEarlyChoice, Request!Form
  <2> QED
    BY <1>0, <1>f, <1>11, <2>2, FieldsKept DEF Request!HandleSubmit, Request!Form, Request!Fields
<1>12. ASSUME Request!SubmitFails PROVE Rest
  <2>1. UNCHANGED <<chosen, submission>>
    BY <1>12 DEF Request!SubmitFails
  <2>2. CASE kind = "backtest"
    <3>1. form' = Request!Fresh
      BY <1>12, <2>2 DEF Request!SubmitFails
    <3>2. submission # None
      BY <1>0, <1>12 DEF Request!SubmitFails, Request!BusyWasSent
    <3> QED
      BY <1>k, <2>1, <2>2, <3>1, <3>2 DEF Request!LoadingIsEmpty, Request!BusyWasSent,
         Request!NoEarlyChoice, Request!ChoicesSurvive, Request!Fresh
  <2>3. CASE kind # "backtest"
    <3>1. form' = [form EXCEPT !.busy = FALSE]
      BY <1>12, <2>3 DEF Request!SubmitFails
    <3>2. Request!LoadingIsEmpty' /\ Request!BusyWasSent' /\ Request!NoEarlyChoice'
      BY <1>0, <1>f, <1>k, <2>1, <3>1
      DEF Request!LoadingIsEmpty, Request!BusyWasSent, Request!NoEarlyChoice, Request!Form
    <3> QED
      BY <1>0, <1>f, <2>1, <3>1, <3>2, FieldsKept DEF Request!Form, Request!Fields
  <2> QED
    BY <2>2, <2>3
<1>13. ASSUME Request!Close PROVE Rest
  <2>2. Request!LoadingIsEmpty' /\ Request!BusyWasSent' /\ Request!NoEarlyChoice'
    BY <1>0, <1>f, <1>k, <1>13 DEF Request!Close, Request!LoadingIsEmpty, Request!BusyWasSent,
       Request!NoEarlyChoice, Request!Form
  <2> QED
    BY <1>0, <1>f, <1>13, <2>2, FieldsKept DEF Request!Close, Request!Form, Request!Fields
<1>14. ASSUME UNCHANGED Request!vars PROVE Rest
  BY <1>0, <1>14 DEF Request!vars, Request!LoadingIsEmpty, Request!BusyWasSent,
     Request!NoEarlyChoice, Request!ChoicesSurvive, Request!HasPrefill
<1>15. Rest
  BY <1>1, <1>2, <1>3, <1>4, <1>5, <1>6, <1>7, <1>8, <1>9, <1>10, <1>11, <1>12, <1>13, <1>14
  DEF Request!Next, Request!EditExitRules, Request!EditFinance, Request!EditRisk, Request!EditOos
<1> QED
  BY <1>t, <1>15 DEF Request!ChoiceInv

LEMMA KnownInit ==
    ASSUME NEW v, NEW before, v = IF initial = None THEN None ELSE before
    PROVE  Request!Known(v, Request!NoOptions, before)
BY DEF Request!Known

LEMMA KnownArrives ==
    ASSUME NEW S, NEW options \in Request!Options(S), NEW v, NEW before,
           Request!Known(v, Request!NoOptions, before)
    PROVE  Request!Known(Request!FirstIfNone(v, options), options, before)
BY DEF Request!Known, Request!FirstIfNone, Request!NoOptions, Request!Options

LEMMA FreshIsKnown ==
    /\ Request!Known(Request!Fresh.symbol, Request!Fresh.symbols, initial.symbol)
    /\ Request!Known(Request!Fresh.timeframe, Request!Fresh.timeframes, initial.timeframe)
    /\ \/ Request!Fresh.strategyName = None
       \/ /\ initial # None /\ Request!Fresh.strategyName = initial.strategyName
          /\ Request!Fresh.params = initial.params
    /\ Request!Fresh.strategiesLoading => Request!Fresh.catalog = Request!NoOptions
    /\ Request!Fresh.symbols = Request!NoOptions /\ Request!Fresh.timeframes = Request!NoOptions
BY DEF Request!Fresh, Request!Known

LEMMA SubmitInit == Request!Init => Request!SubmitInv
<1> SUFFICES ASSUME Request!Init PROVE Request!SubmitInv
  OBVIOUS
<1>1. Request!TypeOK /\ form = Request!Fresh /\ submission = None
  BY InitTypes DEF Request!Init
<1>2. Request!LoadingIsEmpty /\ Request!ValuesAreKnown
  BY <1>1, FreshIsKnown DEF Request!LoadingIsEmpty, Request!ValuesAreKnown
<1>3. Request!ParamsBelong
  BY <1>1, FreshIsKnown DEF Request!ParamsBelong, Request!ParamsOfPrefill
<1>4. Request!SubmittedIsShown
  BY <1>1 DEF Request!SubmittedIsShown
<1> QED
  BY <1>1, <1>2, <1>3, <1>4 DEF Request!SubmitInv

LEMMA SendsWhatItShows ==
    ASSUME Request!TypeOK, Request!ValuesAreKnown, Request!ParamsBelong, Request!HandleSubmit
    PROVE  Request!SubmittedIsShown'
<1>1. /\ submission'.shown = Request!ShownRequest /\ submission'.sent = Request!SentRequest
      /\ initial' = initial /\ Request!Complete
  BY DEF Request!HandleSubmit, Request!Edits
<1>2. form.strategyName \in FormStrategies /\ form.strategyName \in form.catalog.all
  BY DEF Request!TypeOK, Request!Complete, Request!SelectedStrategy, Request!Form, Request!Options,
     Request!HandleSubmit
<1>3. Request!SentRequest.strategyName = Request!ShownRequest.strategyName
      /\ Request!SentRequest.content = Request!ShownRequest.content
  BY <1>2 DEF Request!SentRequest, Request!ShownRequest, Request!ShownIn
<1>4. \/ Request!SentRequest.symbol = Request!ShownRequest.symbol
      \/ initial # None /\ Request!SentRequest.symbol = initial.symbol
  BY <1>1 DEF Request!SentRequest, Request!ShownRequest, Request!ShownIn, Request!ValuesAreKnown,
     Request!Known, Request!Complete
<1>5. \/ Request!SentRequest.timeframe = Request!ShownRequest.timeframe
      \/ initial # None /\ Request!SentRequest.timeframe = initial.timeframe
  BY <1>1 DEF Request!SentRequest, Request!ShownRequest, Request!ShownIn, Request!ValuesAreKnown,
     Request!Known, Request!Complete
<1>6. Request!SentRequest.params = form.params /\
        Request!SentRequest.strategyName = form.strategyName
  BY DEF Request!SentRequest
<1>7. /\ Request!ShownRequest.params = Request!ShownParams
      /\ DOMAIN Request!ShownParams = Schema[form.strategyName]
      /\ \A k \in DOMAIN Request!ShownParams : k \in DOMAIN form.params =>
           Request!ShownParams[k] = form.params[k]
  BY DEF Request!ShownRequest, Request!ShownParams
<1>8. Request!ParamsOfStrategy \/ Request!ParamsOfPrefill
  BY <1>2, FormAssumption DEF Request!ParamsBelong
<1>9. ASSUME NEW k \in DOMAIN form.params \cup DOMAIN Request!ShownParams
      PROVE  \/ /\ k \in DOMAIN form.params /\ k \in DOMAIN Request!ShownParams
                /\ form.params[k] = Request!ShownParams[k]
             \/ /\ initial # None /\ form.strategyName = initial.strategyName
                /\ (k \in DOMAIN form.params) = (k \in DOMAIN initial.params)
  <2>1. CASE k \in DOMAIN form.params /\ k \in DOMAIN Request!ShownParams
    BY <1>7, <2>1
  <2>2. CASE k \in DOMAIN form.params /\ k \notin DOMAIN Request!ShownParams
    BY <1>7, <1>8, <2>2 DEF Request!ParamsOfStrategy, Request!ParamsOfPrefill
  <2>3. CASE k \notin DOMAIN form.params
    BY <1>7, <1>8, <2>3 DEF Request!ParamsOfStrategy, Request!ParamsOfPrefill
  <2> QED
    BY <2>1, <2>2, <2>3
<1> HIDE DEF Request!ShownParams
<1> QED
  BY <1>1, <1>3, <1>4, <1>5, <1>6, <1>7, <1>9 DEF Request!SubmittedIsShown

(* A step that sends nothing and leaves the fields of the request alone.   *)
LEMMA RequestKept ==
    ASSUME Request!ValuesAreKnown, Request!ParamsBelong, Request!SubmittedIsShown,
           UNCHANGED <<initial, submission>>,
           form'.symbol = form.symbol, form'.symbols = form.symbols,
           form'.timeframe = form.timeframe, form'.timeframes = form.timeframes,
           form'.strategyName = form.strategyName, form'.params = form.params
    PROVE  (Request!ValuesAreKnown /\ Request!ParamsBelong /\ Request!SubmittedIsShown)'
BY DEF Request!ValuesAreKnown, Request!Known, Request!ParamsBelong, Request!ParamsOfStrategy,
   Request!ParamsOfPrefill, Request!SubmittedIsShown

LEMMA SubmitStep ==
    Request!SubmitInv /\ (Request!Next \/ UNCHANGED Request!vars) => Request!SubmitInv'
<1> SUFFICES ASSUME Request!SubmitInv, (Request!Next \/ UNCHANGED Request!vars)
             PROVE Request!SubmitInv'
  OBVIOUS
<1>0. Request!TypeOK /\ Request!LoadingIsEmpty /\ Request!ValuesAreKnown /\ Request!ParamsBelong /\
        Request!SubmittedIsShown
  BY DEF Request!SubmitInv
<1>t. Request!TypeOK'
  BY <1>0, StepTypes
<1>f. form \in Request!Form
  BY <1>0 DEF Request!TypeOK
<1>i. initial' = initial
  BY <1>0, StepKeepsExcuse
<1> DEFINE Rest == (Request!LoadingIsEmpty /\ Request!ValuesAreKnown /\ Request!ParamsBelong /\
             Request!SubmittedIsShown)'
<1>s. submission' = submission => Request!SubmittedIsShown'
  BY <1>0, <1>i DEF Request!SubmittedIsShown
<1>1. ASSUME NEW items \in Request!Options(FormStrategies), Request!CatalogArrives(items) PROVE Rest
  <2>1. Request!LoadingIsEmpty'
    BY <1>0, <1>1, <1>f DEF Request!CatalogArrives, Request!LoadingIsEmpty, Request!Form
  <2>2. CASE ~Request!TakesFirst(items)
    BY <1>0, <1>1, <1>f, <2>1, <2>2, RequestKept DEF Request!CatalogArrives, Request!Form
  <2>3. CASE Request!TakesFirst(items)
    <3>1. Request!ValuesAreKnown'
      BY <1>0, <1>1, <1>f, <1>i, <2>3
      DEF Request!CatalogArrives, Request!ValuesAreKnown, Request!Known, Request!Form
    <3>2. form'.strategyName = items.first /\ form'.params = Request!DefaultsFor(items.first)
      BY <1>1, <1>f, <2>3 DEF Request!CatalogArrives, Request!Form
    <3>3. Request!ParamsBelong'
      BY <3>2 DEF Request!ParamsBelong, Request!ParamsOfStrategy, Request!DefaultsFor
    <3> QED
      BY <1>1, <1>s, <2>1, <3>1, <3>3 DEF Request!CatalogArrives
  <2> QED
    BY <2>2, <2>3
<1>2. ASSUME Request!CatalogFails PROVE Rest
  <2>1. Request!LoadingIsEmpty'
    BY <1>0, <1>2, <1>f DEF Request!CatalogFails, Request!LoadingIsEmpty, Request!Form
  <2> QED
    BY <1>0, <1>2, <1>f, <2>1, RequestKept DEF Request!CatalogFails, Request!Form
<1>3. ASSUME NEW symbols \in Request!Options(Symbols),
             NEW timeframes \in Request!Options(Timeframes),
             Request!DataArrives(symbols, timeframes)
      PROVE  Rest
  <2>1. Request!LoadingIsEmpty'
    BY <1>0, <1>3, <1>f DEF Request!DataArrives, Request!LoadingIsEmpty, Request!Form
  <2>2. /\ form'.symbol = Request!FirstIfNone(form.symbol, symbols) /\ form'.symbols = symbols
        /\ form'.timeframe = Request!FirstIfNone(form.timeframe, timeframes)
        /\ form'.timeframes = timeframes
        /\ form'.strategyName = form.strategyName /\ form'.params = form.params
    BY <1>3, <1>f DEF Request!DataArrives, Request!Form
  <2>3. form.symbols = Request!NoOptions /\ form.timeframes = Request!NoOptions
    BY <1>0, <1>3 DEF Request!DataArrives, Request!LoadingIsEmpty
  <2>4. /\ Request!Known(Request!FirstIfNone(form.symbol, symbols), symbols, initial.symbol)
        /\ Request!Known(Request!FirstIfNone(form.timeframe, timeframes), timeframes,
             initial.timeframe)
    BY <1>0, <2>3, KnownArrives DEF Request!ValuesAreKnown
  <2>5. Request!ValuesAreKnown'
    BY <1>i, <2>2, <2>4 DEF Request!ValuesAreKnown, Request!Known
  <2>6. Request!ParamsBelong'
    BY <1>0, <1>i, <2>2 DEF Request!ParamsBelong, Request!ParamsOfStrategy, Request!ParamsOfPrefill
  <2> QED
    BY <1>3, <1>s, <2>1, <2>5, <2>6 DEF Request!DataArrives
<1>4. ASSUME Request!DataFails PROVE Rest
  <2>1. Request!LoadingIsEmpty'
    BY <1>0, <1>4, <1>f DEF Request!DataFails, Request!LoadingIsEmpty, Request!Form
  <2> QED
    BY <1>0, <1>4, <1>f, <2>1, RequestKept DEF Request!DataFails, Request!Form
<1>5. ASSUME NEW s \in Symbols, Request!ChangeSymbol(s) PROVE Rest
  <2>1. Request!LoadingIsEmpty' /\ Request!ValuesAreKnown'
    BY <1>0, <1>5, <1>f, <1>i DEF Request!ChangeSymbol, Request!LoadingIsEmpty,
       Request!ValuesAreKnown, Request!Known, Request!Form
  <2>2. Request!ParamsBelong'
    BY <1>0, <1>5, <1>f, <1>i DEF Request!ChangeSymbol, Request!ParamsBelong,
       Request!ParamsOfStrategy, Request!ParamsOfPrefill, Request!Form
  <2> QED
    BY <1>5, <1>s, <2>1, <2>2 DEF Request!ChangeSymbol
<1>6. ASSUME NEW t \in Timeframes, Request!ChangeTimeframe(t) PROVE Rest
  <2>1. Request!LoadingIsEmpty' /\ Request!ValuesAreKnown'
    BY <1>0, <1>6, <1>f, <1>i DEF Request!ChangeTimeframe, Request!LoadingIsEmpty,
       Request!ValuesAreKnown, Request!Known, Request!Form
  <2>2. Request!ParamsBelong'
    BY <1>0, <1>6, <1>f, <1>i DEF Request!ChangeTimeframe, Request!ParamsBelong,
       Request!ParamsOfStrategy, Request!ParamsOfPrefill, Request!Form
  <2> QED
    BY <1>6, <1>s, <2>1, <2>2 DEF Request!ChangeTimeframe
<1>7. ASSUME NEW s \in FormStrategies, Request!HandleStrategyChange(s) PROVE Rest
  <2>1. Request!LoadingIsEmpty' /\ Request!ValuesAreKnown'
    BY <1>0, <1>7, <1>f, <1>i DEF Request!HandleStrategyChange, Request!LoadingIsEmpty,
       Request!ValuesAreKnown, Request!Known, Request!Form
  <2>2. form'.strategyName = s /\ form'.params = Request!DefaultsFor(s)
    BY <1>7, <1>f DEF Request!HandleStrategyChange, Request!Form
  <2>3. Request!ParamsBelong'
    BY <2>2 DEF Request!ParamsBelong, Request!ParamsOfStrategy, Request!DefaultsFor
  <2> QED
    BY <1>7, <1>s, <2>1, <2>3 DEF Request!HandleStrategyChange
<1>8. ASSUME NEW k \in Keys, NEW value \in Request!Values, Request!EditParam(k, value) PROVE Rest
  <2> DEFINE edited == [key \in DOMAIN form.params \cup {k} |->
                           IF key = k THEN value ELSE form.params[key]]
  <2>1. /\ form' = [form EXCEPT !.params = edited] /\ UNCHANGED <<chosen, submission>>
        /\ k \in Schema[form.strategyName]
    BY <1>8 DEF Request!EditParam
  <2>2. DOMAIN edited = DOMAIN form.params \cup {k}
    OBVIOUS
  <2> HIDE DEF edited
  <2>3. Request!LoadingIsEmpty' /\ Request!ValuesAreKnown'
    BY <1>0, <1>f, <1>i, <2>1
    DEF Request!LoadingIsEmpty, Request!ValuesAreKnown, Request!Known, Request!Form
  <2>4. form'.strategyName = form.strategyName /\ form'.params = edited
    BY <1>f, <2>1 DEF Request!Form
  <2>5. Request!ParamsBelong'
    BY <1>0, <1>i, <2>1, <2>2, <2>4
    DEF Request!ParamsBelong, Request!ParamsOfStrategy, Request!ParamsOfPrefill
  <2> QED
    BY <1>s, <2>1, <2>3, <2>5
<1>9. ASSUME NEW part, Request!EditSection(part) PROVE Rest
  <2>1. Request!LoadingIsEmpty'
    BY <1>0, <1>f, <1>9 DEF Request!EditSection, Request!LoadingIsEmpty, Request!Form
  <2> QED
    BY <1>0, <1>f, <1>i, <1>9, <2>1, RequestKept DEF Request!EditSection, Request!Form
<1>10. ASSUME Request!ToggleOos PROVE Rest
  <2>1. Request!LoadingIsEmpty'
    BY <1>0, <1>f, <1>10 DEF Request!ToggleOos, Request!LoadingIsEmpty, Request!Form
  <2> QED
    BY <1>0, <1>f, <1>i, <1>10, <2>1, RequestKept DEF Request!ToggleOos, Request!Form
<1>11. ASSUME Request!HandleSubmit PROVE Rest
  <2>1. Request!LoadingIsEmpty' /\ Request!ValuesAreKnown'
    BY <1>0, <1>f, <1>i, <1>11 DEF Request!HandleSubmit, Request!LoadingIsEmpty,
       Request!ValuesAreKnown, Request!Known, Request!Form
  <2>2. Request!ParamsBelong'
    BY <1>0, <1>11, <1>f, <1>i DEF Request!HandleSubmit, Request!ParamsBelong,
       Request!ParamsOfStrategy, Request!ParamsOfPrefill, Request!Form
  <2> QED
    BY <1>0, <1>11, <2>1, <2>2, SendsWhatItShows
<1>12. ASSUME Request!SubmitFails PROVE Rest
  <2>1. CASE kind = "backtest"
    <3>1. form' = Request!Fresh /\ UNCHANGED <<initial, kind>>
      BY <1>12, <2>1 DEF Request!SubmitFails
    <3>2. Request!Fresh' = Request!Fresh
      BY <3>1 DEF Request!Fresh
    <3>3. Request!LoadingIsEmpty' /\ Request!ValuesAreKnown' /\ Request!ParamsBelong'
      BY <3>1, FreshIsKnown DEF Request!LoadingIsEmpty, Request!ValuesAreKnown, Request!Known,
         Request!ParamsBelong, Request!ParamsOfPrefill
    <3> QED
      BY <1>12, <1>s, <3>3 DEF Request!SubmitFails
  <2>2. CASE kind # "backtest"
    <3>1. form' = [form EXCEPT !.busy = FALSE]
      BY <1>12, <2>2 DEF Request!SubmitFails
    <3>2. Request!LoadingIsEmpty'
      BY <1>0, <1>f, <3>1 DEF Request!LoadingIsEmpty, Request!Form
    <3> QED
      BY <1>0, <1>f, <1>12, <3>1, <3>2, RequestKept DEF Request!SubmitFails, Request!Form
  <2> QED
    BY <2>1, <2>2
<1>13. ASSUME Request!Close PROVE Rest
  <2>1. Request!LoadingIsEmpty'
    BY <1>0, <1>f, <1>13 DEF Request!Close, Request!LoadingIsEmpty, Request!Form
  <2> QED
    BY <1>0, <1>f, <1>13, <2>1, RequestKept DEF Request!Close, Request!Form
<1>14. ASSUME UNCHANGED Request!vars PROVE Rest
  BY <1>0, <1>14, RequestKept DEF Request!vars, Request!LoadingIsEmpty
<1>15. Rest
  BY <1>1, <1>2, <1>3, <1>4, <1>5, <1>6, <1>7, <1>8, <1>9, <1>10, <1>11, <1>12, <1>13, <1>14
  DEF Request!Next, Request!EditExitRules, Request!EditFinance, Request!EditRisk, Request!EditOos
<1> QED
  BY <1>t, <1>15 DEF Request!SubmitInv

(* What a form sends is what it showed when it was sent, for any set of    *)
(* strategies and any parameters (StrategyForm.tsx).                       *)
THEOREM FormSendsWhatItShows == Spec => []SubmittedIsShown
<1> DEFINE Inv == route = "form" => Request!SubmitInv
<1>1. Init => Inv
  BY Starts, SubmitInit
<1>2. Inv /\ [Next]_vars => Inv'
  BY Steps, SubmitStep
<1>3. Inv => SubmittedIsShown
  BY DEF Request!SubmitInv, SubmittedIsShown
<1> QED
  BY <1>1, <1>2, <1>3, PTL DEF Spec

(* No answer that comes late, the schema's or the strategies', takes a     *)
(* choice of the user back (StrategyForm.tsx).                             *)
THEOREM LateAnswersKeepChoices == Spec => []ChoicesSurvive
<1> DEFINE Inv == route = "form" => Request!ChoiceInv
<1>1. Init => Inv
  BY Starts, ChoiceInit
<1>2. Inv /\ [Next]_vars => Inv'
  BY Steps, ChoiceStep
<1>3. Inv => ChoicesSurvive
  BY DEF Request!ChoiceInv, ChoicesSurvive
<1> QED
  BY <1>1, <1>2, <1>3, PTL DEF Spec

-----------------------------------------------------------------------------
(***************************************************************************)
(* The list of past runs.                                                  *)
(***************************************************************************)
LEMMA RemovedLast ==
    ASSUME NEW S, NEW s \in Seq(S), NEW i \in DOMAIN s
    PROVE  /\ RemoveAt(s, i) \in Seq(S)
           /\ i # Len(s) => RemoveAt(s, i) # <<>> /\ Last(RemoveAt(s, i)) = Last(s)
           /\ i = 1 /\ i = Len(s) => RemoveAt(s, i) = <<>>
<1>1. /\ RemoveAt(s, i) \in Seq(S) /\ Len(RemoveAt(s, i)) = Len(s) - 1
      /\ \A j \in DOMAIN RemoveAt(s, i) : RemoveAt(s, i)[j] = s[Before(j, i)]
  BY Removed
<1>2. Len(s) \in Nat /\ i \in 1 .. Len(s)
  OBVIOUS
<1> DEFINE t == RemoveAt(s, i)
<1> HIDE DEF t
<1>3. t \in Seq(S) /\ Len(t) = Len(s) - 1 /\ \A j \in DOMAIN t : t[j] = s[Before(j, i)]
  BY <1>1 DEF t
<1>4. ASSUME i # Len(s) PROVE t # <<>> /\ Last(t) = Last(s)
  <2>1. Len(t) \in DOMAIN t /\ Before(Len(t), i) = Len(s)
    BY <1>2, <1>3, <1>4 DEF Before
  <2> QED
    BY <1>3, <2>1 DEF Last
<1>5. i = 1 /\ i = Len(s) => t = <<>>
  BY <1>3
<1> QED
  BY <1>1, <1>4, <1>5 DEF t

LEMMA AppendedLast ==
    ASSUME NEW S, NEW s \in Seq(S), NEW e \in S
    PROVE  Append(s, e) \in Seq(S) /\ Append(s, e) # <<>> /\ Last(Append(s, e)) = e
BY DEF Last

LEMMA HistoryTypes ==
    ASSUME ListTypes, HistoryNext, page.itemToDelete \in OrNone(Runs)
    PROVE  ListTypes'
<1>0. /\ loads \in Seq(Load) /\ details \subseteq Detail /\ deletion \in Deletion
      /\ server \in [Runs -> States] /\ overtaken \in BOOLEAN /\ failures \in 0 .. MaxFailures
  BY DEF ListTypes
<1>b. Clicks \/ Fails \/ Succeeds => failures' \in 0 .. MaxFailures
  BY <1>0, BoundsAssumption DEF Clicks, Fails, Succeeds, bounds
<1>s. Sent \in Load /\ NoDeletion \in Deletion
  BY DEF Sent, Load, NoDeletion, Deletion, OrNone
<1>1. CASE CancelDelete
  BY <1>0, <1>1, <1>b DEF CancelDelete, ListTypes, lists
<1>2. CASE ConfirmDelete
  <2>1. deletion' \in Deletion
    BY <1>2 DEF ConfirmDelete, Deletion
  <2> QED
    BY <1>0, <1>2, <1>b, <2>1 DEF ConfirmDelete, ListTypes
<1>3. CASE DeleteRun
  <2>1. deletion' \in Deletion
    BY <1>0, <1>3 DEF DeleteRun, Deletion
  <2>2. server' \in [Runs -> States]
    BY <1>0, <1>3 DEF DeleteRun, States
  <2> QED
    BY <1>0, <1>3, <1>b, <2>1, <2>2 DEF DeleteRun, ListTypes
<1>4. CASE Deleted
  <2>1. loads' \in Seq(Load)
    BY <1>0, <1>4, <1>s DEF Deleted
  <2> QED
    BY <1>0, <1>4, <1>s, <2>1 DEF Deleted, ListTypes, bounds
<1>5. ASSUME NEW r \in Runs, HandleView(r) \/ HandleRerun(r) \/ AskDelete(r) PROVE ListTypes'
  <2>1. details' \subseteq Detail
    BY <1>0, <1>5 DEF HandleView, HandleRerun, AskDelete, lists, Detail
  <2> QED
    BY <1>0, <1>5, <1>b, <2>1 DEF HandleView, HandleRerun, AskDelete, lists, ListTypes
<1>6. ASSUME NEW i \in DOMAIN loads, ListRuns(i) PROVE ListTypes'
  <2>1. [served |-> TRUE, rows |-> Kept] \in Load
    BY DEF Load, Kept
  <2>2. loads' \in Seq(Load)
    BY <1>0, <1>6, <2>1 DEF ListRuns
  <2> QED
    BY <1>0, <1>6, <2>2 DEF ListRuns, ListTypes, bounds
<1>7. ASSUME NEW i \in DOMAIN loads, HistoryArrives(i) \/ HistoryFails(i) PROVE ListTypes'
  <2>1. loads' \in Seq(Load)
    BY <1>0, <1>7, RemovedLast DEF HistoryArrives, HistoryFails
  <2> QED
    BY <1>0, <1>7, <1>b, <2>1 DEF HistoryArrives, HistoryFails, ListTypes, bounds
<1>8. ASSUME NEW d \in details, DetailArrives(d) \/ DetailFails(d) PROVE ListTypes'
  <2>1. details' \subseteq Detail
    BY <1>0, <1>8 DEF DetailArrives, DetailFails
  <2> QED
    BY <1>0, <1>8, <1>b, <2>1 DEF DetailArrives, DetailFails, ListTypes, bounds
<1> QED
  BY <1>1, <1>2, <1>3, <1>4, <1>5, <1>6, <1>7, <1>8 DEF HistoryNext

(* Rows that no deletion took away stay so while the server deletes nothing*)
(* else.                                                                   *)
LEMMA FreshKept ==
    ASSUME loads \in Seq(Load), page.runs \subseteq Runs, LastLoadIsFresh, loads' = loads,
           page'.runs = page.runs, page'.historyError = page.historyError,
           \A r \in Runs : server'[r] = "deleted" => server[r] = "deleted"
    PROVE  LastLoadIsFresh'
<1>1. CASE loads = <<>>
  <2>1. NoneDeleted(page.runs) => NoneDeleted(page.runs)'
    BY DEF NoneDeleted
  <2> QED
    BY <1>1, <2>1 DEF LastLoadIsFresh
<1>2. CASE loads # <<>>
  <2>1. Last(loads) \in Load
    BY <1>2 DEF Last
  <2>2. NoneDeleted(Last(loads).rows) => NoneDeleted(Last(loads).rows)'
    BY <1>2, <2>1 DEF NoneDeleted, Load
  <2> QED
    BY <1>2, <2>2 DEF LastLoadIsFresh
<1> QED
  BY <1>1, <1>2

(* A page that leaves rows, error and deletion alone, a server that deletes*)
(* nothing and a list that is left as it was, or loaded again.             *)
LEMMA DeletionKept ==
    ASSUME ListTypes, DeletionInv, ListTypes',
           page.runs \subseteq Runs, UNCHANGED <<deletion, overtaken>>,
           loads' \in {loads, Append(loads, Sent)},
           page'.runs = page.runs, page'.historyError = page.historyError,
           page'.deleteLoading = page.deleteLoading,
           \A r \in Runs : server'[r] = "deleted" => server[r] = "deleted"
    PROVE  DeletionInv'
<1>1. Sent \in Load /\ ~Sent.served /\ loads \in Seq(Load) /\ loads' \in Seq(Load)
  BY DEF ListTypes, Sent, Load
<1>2. LastLoadIsFresh => LastLoadIsFresh'
  <2> SUFFICES ASSUME LastLoadIsFresh PROVE LastLoadIsFresh'
    OBVIOUS
  <2>1. CASE loads' = Append(loads, Sent)
    <3>1. loads' # <<>> /\ Last(loads') = Sent
      BY <1>1, <2>1, AppendedLast
    <3> QED
      BY <1>1, <3>1 DEF LastLoadIsFresh
  <2>2. CASE loads' = loads
    BY <1>1, <2>2, FreshKept
  <2> QED
    BY <2>1, <2>2
<1> QED
  BY <1>2 DEF DeletionInv, DeletionWaits, DoneIsOfARun

PageFields == {"view", "runs", "historyLoading", "historyError", "selectedDetail", "pendingRequest",
               "running", "runError", "itemToDelete", "deleteLoading"}

LEMMA DeletionStep ==
    ASSUME ListTypes, DeletionInv, HistoryNext, ListTypes',
           PageFields \subseteq DOMAIN page, page.runs \subseteq Runs,
           page.itemToDelete \in OrNone(Runs)
    PROVE  DeletionInv'
<1>0. /\ loads \in Seq(Load) /\ details \subseteq Detail /\ deletion \in Deletion
      /\ server \in [Runs -> States] /\ overtaken \in BOOLEAN
      /\ loads' \in Seq(Load)
  BY DEF ListTypes
<1>p. {"runs", "historyError", "deleteLoading"} \subseteq DOMAIN page
  BY DEF PageFields
<1>d. DeletionWaits /\ DoneIsOfARun /\ (overtaken \/ deletion.answer = "done" \/ LastLoadIsFresh)
  BY DEF DeletionInv
<1>1. CASE CancelDelete
  BY <1>1, <1>p, DeletionKept DEF CancelDelete, lists
<1>2. CASE ConfirmDelete
  <2>1. deletion.answer # "done"
    BY <1>2, <1>d DEF ConfirmDelete, DeletionWaits, DoneIsOfARun
  <2>2. page'.deleteLoading /\ page'.runs = page.runs /\ page'.historyError = page.historyError
    BY <1>2, <1>p DEF ConfirmDelete
  <2>3. deletion'.answer = "pending" /\ loads' = loads /\ server' = server /\ overtaken' = overtaken
    BY <1>2 DEF ConfirmDelete
  <2>4. LastLoadIsFresh => LastLoadIsFresh'
    BY <2>2, <2>3 DEF LastLoadIsFresh, NoneDeleted
  <2> QED
    BY <1>d, <2>1, <2>2, <2>3, <2>4 DEF DeletionInv, DeletionWaits, DoneIsOfARun
<1>3. CASE DeleteRun
  <2>1. /\ deletion'.run = deletion.run /\ deletion.answer = "pending" /\ deletion.run # None
        /\ UNCHANGED <<page, loads, overtaken>>
    BY <1>0, <1>3 DEF DeleteRun, Deletion
  <2>2. CASE deletion'.answer = "done"
    BY <1>d, <2>1, <2>2 DEF DeletionInv, DeletionWaits, DoneIsOfARun
  <2>3. CASE deletion'.answer # "done"
    <3>1. \A r \in Runs : server'[r] = "deleted" => server[r] = "deleted"
      <4>1. deletion.run \in Runs
        BY <1>0, <2>1 DEF Deletion, OrNone
      <4>2. server' = server \/ server' = [server EXCEPT ![deletion.run] = "gone"]
        BY <1>0, <1>3, <2>3 DEF DeleteRun, Deletion
      <4> QED
        BY <1>0, <4>1, <4>2
    <3>2. LastLoadIsFresh => LastLoadIsFresh'
      BY <1>0, <2>1, <3>1, FreshKept
    <3> QED
      BY <1>d, <2>1, <2>3, <3>2 DEF DeletionInv, DeletionWaits, DoneIsOfARun
  <2> QED
    BY <2>2, <2>3
<1>4. CASE Deleted
  <2>1. deletion' = NoDeletion /\ UNCHANGED <<server, overtaken>>
    BY <1>4 DEF Deleted
  <2>2. DeletionWaits' /\ DoneIsOfARun'
    BY <2>1 DEF NoDeletion, DeletionWaits, DoneIsOfARun
  <2>3. CASE deletion.answer = "done"
    <3>1. loads' = Append(loads, Sent)
      BY <1>4, <2>3 DEF Deleted
    <3>2. Sent \in Load /\ ~Sent.served
      BY DEF Sent, Load
    <3>3. loads' # <<>> /\ Last(loads') = Sent
      BY <1>0, <3>1, <3>2, AppendedLast
    <3>4. LastLoadIsFresh'
      BY <3>2, <3>3 DEF LastLoadIsFresh
    <3> QED
      BY <2>2, <3>4 DEF DeletionInv
  <2>4. CASE deletion.answer # "done"
    <3>1. loads' = loads /\ page'.runs = page.runs /\ page'.historyError = page.historyError
      BY <1>4, <1>p, <2>4 DEF Deleted
    <3>2. LastLoadIsFresh => LastLoadIsFresh'
      BY <2>1, <3>1 DEF LastLoadIsFresh, NoneDeleted
    <3> QED
      BY <1>d, <2>1, <2>2, <2>4, <3>2 DEF DeletionInv
  <2> QED
    BY <2>3, <2>4
<1>5. ASSUME NEW r \in Runs, HandleView(r) \/ HandleRerun(r) \/ AskDelete(r) PROVE DeletionInv'
  BY <1>5, <1>p, DeletionKept DEF HandleView, HandleRerun, AskDelete, lists
<1>6. ASSUME NEW i \in DOMAIN loads, ListRuns(i) PROVE DeletionInv'
  <2> DEFINE answer == [served |-> TRUE, rows |-> Kept]
  <2>1. loads' = [loads EXCEPT ![i] = answer] /\ UNCHANGED <<page, deletion, server, overtaken>>
    BY <1>6 DEF ListRuns
  <2>2. NoneDeleted(answer.rows)
    BY DEF Kept, NoneDeleted
  <2> HIDE DEF answer
  <2>3. loads # <<>> /\ loads' # <<>> /\ Last(loads') = IF i = Len(loads) THEN answer
          ELSE Last(loads)
    BY <1>0, <2>1 DEF Last
  <2>4. LastLoadIsFresh => LastLoadIsFresh'
    <3>1. CASE i = Len(loads)
      BY <2>1, <2>2, <2>3, <3>1 DEF LastLoadIsFresh, NoneDeleted
    <3>2. CASE i # Len(loads)
      BY <2>1, <2>3, <3>2 DEF LastLoadIsFresh, NoneDeleted
    <3> QED
      BY <3>1, <3>2
  <2> QED
    BY <1>d, <2>1, <2>4 DEF DeletionInv, DeletionWaits, DoneIsOfARun
<1>7. ASSUME NEW i \in DOMAIN loads, HistoryArrives(i) \/ HistoryFails(i) PROVE DeletionInv'
  <2>1. /\ loads' = RemoveAt(loads, i) /\ overtaken' = (overtaken \/ i > 1)
        /\ UNCHANGED <<deletion, server>> /\ page'.deleteLoading = page.deleteLoading
    BY <1>7, <1>p DEF HistoryArrives, HistoryFails
  <2>2. DeletionWaits' /\ DoneIsOfARun'
    BY <1>d, <2>1 DEF DeletionWaits, DoneIsOfARun
  <2>o. (overtaken => overtaken') /\ (i > 1 => overtaken')
    BY <2>1
  <2>3. CASE i # Len(loads)
    <3>1. loads # <<>> /\ loads' # <<>> /\ Last(loads') = Last(loads)
      BY <1>0, <2>1, <2>3, RemovedLast
    <3>2. LastLoadIsFresh => LastLoadIsFresh'
      BY <2>1, <3>1 DEF LastLoadIsFresh, NoneDeleted
    <3> QED
      BY <1>d, <2>1, <2>2, <2>o, <3>2 DEF DeletionInv
  <2>4. CASE i = Len(loads) /\ i # 1
    <3>1. i > 1
      BY <1>0, <2>4
    <3>2. overtaken'
      BY <2>o, <3>1
    <3> QED
      BY <2>2, <3>2 DEF DeletionInv
  <2>5. CASE i = Len(loads) /\ i = 1
    <3>1. loads # <<>> /\ Last(loads) = loads[i]
      BY <1>0, <2>5 DEF Last
    <3>3. loads' = <<>>
      BY <1>0, <2>1, <2>5, RemovedLast
    <3>2. LastLoadIsFresh => LastLoadIsFresh'
      <4>1. CASE HistoryArrives(i)
        <5>1. page'.runs = loads[i].rows /\ loads[i].served
          BY <1>p, <4>1 DEF HistoryArrives
        <5> QED
          BY <2>1, <3>1, <3>3, <5>1 DEF LastLoadIsFresh, NoneDeleted
      <4>2. CASE HistoryFails(i)
        <5>1. page'.historyError
          BY <1>p, <4>2 DEF HistoryFails
        <5> QED
          BY <2>1, <3>1, <3>3, <5>1 DEF LastLoadIsFresh
      <4> QED
        BY <1>7, <4>1, <4>2
    <3> QED
      BY <1>d, <2>1, <2>2, <2>o, <3>2 DEF DeletionInv
  <2> QED
    BY <2>3, <2>4, <2>5
<1>8. ASSUME NEW d \in details, DetailArrives(d) \/ DetailFails(d) PROVE DeletionInv'
  <2>1. CASE DetailFails(d)
    BY <1>p, <2>1, DeletionKept DEF DetailFails
  <2>2. CASE DetailArrives(d)
    <3>1. page'.runs = page.runs /\ page'.historyError = page.historyError
          /\ page'.deleteLoading = page.deleteLoading
      BY <1>p, <2>2 DEF DetailArrives
    <3> QED
      BY <2>2, <3>1, DeletionKept DEF DetailArrives
  <2> QED
    BY <1>8, <2>1, <2>2
<1> QED
  BY <1>1, <1>2, <1>3, <1>4, <1>5, <1>6, <1>7, <1>8 DEF HistoryNext

LEMMA DeletionInvHolds ==
    ASSUME ListTypes, DeletionInv
    PROVE  NoDeletedRowIsShown
BY DEF DeletionInv, LastLoadIsFresh, NoneDeleted, NoDeletedRowIsShown, NoDeletion

-----------------------------------------------------------------------------
(***************************************************************************)
(* The page of the backtests.                                              *)
(***************************************************************************)
LEMMA BacktestSequences ==
    /\ \A s, i : Backtest!RemoveAt(s, i) = RemoveAt(s, i)
    /\ \A s : Backtest!Last(s) = Last(s)
BY DEF Backtest!RemoveAt, RemoveAt, Backtest!Last, Last

LEMMA BacktestSame ==
    /\ Backtest!ListTypes <=> ListTypes
    /\ Backtest!ListTypes' <=> ListTypes'
    /\ Backtest!DeletionInv <=> DeletionInv
    /\ Backtest!DeletionInv' <=> DeletionInv'
    /\ Backtest!Sent = Sent
    /\ \A values : Backtest!OrNone(values) = OrNone(values)
<1>1. \A values : Backtest!OrNone(values) = OrNone(values)
  BY DEF Backtest!OrNone, OrNone
<1>2. Backtest!Sent = Sent /\ Backtest!NoDeletion = NoDeletion /\ Backtest!Load = Load /\
        Backtest!Detail = Detail
  BY DEF Backtest!Sent, Sent, Backtest!NoDeletion, NoDeletion, Backtest!Load, Load, Backtest!Detail,
     Detail
<1>3. Backtest!Deletion = Deletion /\ Backtest!States = States
  BY DEF Backtest!Deletion, Deletion, Backtest!OrNone, OrNone, Backtest!States, States
<1>4. (Backtest!ListTypes <=> ListTypes) /\ (Backtest!ListTypes' <=> ListTypes')
  BY <1>2, <1>3 DEF Backtest!ListTypes, ListTypes
<1>5. (Backtest!DeletionInv <=> DeletionInv) /\ (Backtest!DeletionInv' <=> DeletionInv')
  BY DEF Backtest!DeletionInv, DeletionInv, Backtest!DeletionWaits, DeletionWaits,
     Backtest!DoneIsOfARun, DoneIsOfARun, Backtest!LastLoadIsFresh, LastLoadIsFresh,
     Backtest!NoneDeleted, NoneDeleted, Backtest!Last, Last
<1> QED
  BY <1>1, <1>2, <1>4, <1>5

LEMMA BacktestHistory == Backtest!HistoryNext => HistoryNext
<1> USE DEF Backtest!Clicks, Clicks, Backtest!Fails, Fails, Backtest!Succeeds, Succeeds,
      Backtest!bounds, bounds, Backtest!lists, lists, Backtest!Clickable, Clickable,
      Backtest!RowShown, RowShown, Backtest!Sent, Sent, Backtest!NoDeletion, NoDeletion,
      Backtest!Kept, Kept
<1>1. Backtest!CancelDelete \/ Backtest!ConfirmDelete \/ Backtest!DeleteRun \/ Backtest!Deleted =>
        CancelDelete \/ ConfirmDelete \/ DeleteRun \/ Deleted
  BY DEF Backtest!CancelDelete, CancelDelete, Backtest!ConfirmDelete, ConfirmDelete,
     Backtest!DeleteRun, DeleteRun, Backtest!Deleted, Deleted
<1>2. \A r \in Runs : Backtest!HandleView(r) \/ Backtest!HandleRerun(r) \/ Backtest!AskDelete(r) =>
        HandleView(r) \/ HandleRerun(r) \/ AskDelete(r)
  BY DEF Backtest!HandleView, HandleView, Backtest!HandleRerun, HandleRerun, Backtest!AskDelete,
     AskDelete
<1>3. \A i \in DOMAIN loads : Backtest!ListRuns(i) \/ Backtest!HistoryArrives(i) \/
        Backtest!HistoryFails(i) =>
        ListRuns(i) \/ HistoryArrives(i) \/ HistoryFails(i)
  BY BacktestSequences DEF Backtest!ListRuns, ListRuns, Backtest!HistoryArrives, HistoryArrives,
     Backtest!HistoryFails, HistoryFails
<1>4. \A d \in details : Backtest!DetailArrives(d) \/ Backtest!DetailFails(d) =>
        DetailArrives(d) \/ DetailFails(d)
  BY DEF Backtest!DetailArrives, DetailArrives, Backtest!DetailFails, DetailFails
<1> QED
  BY <1>1, <1>2, <1>3, <1>4 DEF Backtest!HistoryNext, HistoryNext

LEMMA BtInit == Backtest!Init => Backtest!FollowInv /\ Backtest!DeletionInv
<1> SUFFICES ASSUME Backtest!Init PROVE Backtest!FollowInv /\ Backtest!DeletionInv
  OBVIOUS
<1>1. page \in Backtest!Page
  BY DEF Backtest!Init, Backtest!Mounted, Backtest!Page, Backtest!OrNone
<1>2. chain \in [Runs -> Backtest!Chain] /\ {timer, asked} \subseteq Backtest!OrNone(Runs) /\
        left \in BOOLEAN
  BY DEF Backtest!Init, Backtest!Chain, Backtest!OrNone
<1>3. Backtest!Sent \in Backtest!Load /\ loads = <<Backtest!Sent>>
  BY DEF Backtest!Sent, Backtest!Load, Backtest!Init, Backtest!HistoryInit
<1>4. Backtest!ListTypes
  <2>1. loads \in Seq(Backtest!Load)
    BY <1>3
  <2>2. deletion \in Backtest!Deletion /\ details \subseteq Backtest!Detail /\ overtaken \in BOOLEAN
    BY DEF Backtest!Init, Backtest!HistoryInit, Backtest!NoDeletion, Backtest!Deletion,
       Backtest!OrNone
  <2>3. server \in [Runs -> Backtest!States]
    BY DEF Backtest!Init, Backtest!HistoryInit, Backtest!States
  <2>4. failures \in 0 .. MaxFailures
    BY BoundsAssumption DEF Backtest!Init, Backtest!HistoryInit
  <2> QED
    BY <2>1, <2>2, <2>3, <2>4 DEF Backtest!ListTypes
<1>5. clicks \in 0 .. MaxClicks
  BY BoundsAssumption DEF Backtest!Init, Backtest!HistoryInit
<1>6. Backtest!TypeOK
  BY <1>1, <1>2, <1>4, <1>5 DEF Backtest!TypeOK
<1>7. Backtest!AskedHasBegun /\ Backtest!RunsElsewhere /\ Backtest!TimerIsKnown /\
        Backtest!OnlyTheAwaitedRunIsFollowed
  BY DEF Backtest!Init, Backtest!HistoryInit, Backtest!Mounted, Backtest!AskedHasBegun,
     Backtest!RunsElsewhere, Backtest!TimerIsKnown, Backtest!OnlyTheAwaitedRunIsFollowed,
     Backtest!Alive
<1>8. Backtest!DeletionInv
  BY <1>3 DEF Backtest!Init, Backtest!HistoryInit, Backtest!DeletionInv, Backtest!DeletionWaits,
     Backtest!DoneIsOfARun, Backtest!NoDeletion, Backtest!LastLoadIsFresh, Backtest!Last,
     Backtest!Sent
<1> QED
  BY <1>6, <1>7, <1>8 DEF Backtest!FollowInv

(* The fields that the list changes.                                       *)
LEMMA BtListPage ==
    ASSUME page \in Backtest!Page, Backtest!ListTypes, Backtest!HistoryNext
    PROVE  /\ page' \in Backtest!Page /\ page'.running = page.running
           /\ page'.view = "history" => page.view = "history"
           /\ clicks \in 0 .. MaxClicks => clicks' \in 0 .. MaxClicks
<1>0. /\ loads \in Seq(Backtest!Load) /\ details \subseteq Backtest!Detail
      /\ deletion \in Backtest!Deletion
  BY DEF Backtest!ListTypes
<1> DEFINE Kept1 == /\ page' \in Backtest!Page /\ page'.running = page.running
                    /\ page'.view = "history" => page.view = "history"
<1>1. ASSUME Backtest!CancelDelete PROVE Kept1
  BY <1>1 DEF Backtest!CancelDelete, Backtest!Page, Backtest!OrNone
<1>2. ASSUME Backtest!ConfirmDelete PROVE Kept1
  BY <1>2 DEF Backtest!ConfirmDelete, Backtest!Page
<1>3. ASSUME Backtest!DeleteRun PROVE Kept1
  BY <1>3 DEF Backtest!DeleteRun
<1>4. ASSUME Backtest!Deleted PROVE Kept1
  <2>1. CASE deletion.answer = "done"
    BY <1>4, <2>1 DEF Backtest!Deleted, Backtest!Page, Backtest!OrNone
  <2>2. CASE deletion.answer # "done"
    BY <1>4, <2>2 DEF Backtest!Deleted, Backtest!Page, Backtest!OrNone
  <2> QED
    BY <2>1, <2>2
<1>5. ASSUME NEW r \in Runs, Backtest!HandleView(r) \/ Backtest!HandleRerun(r) \/
               Backtest!AskDelete(r) PROVE Kept1
  BY <1>5
  DEF Backtest!HandleView, Backtest!HandleRerun, Backtest!AskDelete, Backtest!Page, Backtest!OrNone
<1>6. ASSUME NEW i \in DOMAIN loads, Backtest!ListRuns(i) PROVE Kept1
  BY <1>6 DEF Backtest!ListRuns
<1>7. ASSUME NEW i \in DOMAIN loads, Backtest!HistoryArrives(i) \/ Backtest!HistoryFails(i)
      PROVE Kept1
  <2>0. loads[i] \in Backtest!Load
    BY <1>0
  <2>1. loads[i].rows \in SUBSET Runs
    BY <2>0 DEF Backtest!Load
  <2>2. CASE Backtest!HistoryArrives(i)
    <3>1. page' = [page EXCEPT !.runs = loads[i].rows, !.historyError = FALSE,
                               !.historyLoading = FALSE]
      BY <2>2 DEF Backtest!HistoryArrives
    <3> QED
      BY <2>1, <3>1 DEF Backtest!Page
  <2>3. CASE Backtest!HistoryFails(i)
    BY <2>3 DEF Backtest!HistoryFails, Backtest!Page
  <2> QED
    BY <1>7, <2>2, <2>3
<1>8. ASSUME NEW d \in details, Backtest!DetailArrives(d) \/ Backtest!DetailFails(d) PROVE Kept1
  <2>1. d.run \in Runs
    BY <1>0 DEF Backtest!Detail
  <2>2. CASE Backtest!DetailFails(d)
    BY <2>2 DEF Backtest!DetailFails, Backtest!Page
  <2>3. CASE Backtest!DetailArrives(d) /\ d.goal = "view"
    <3>1. [id |-> d.run, request |-> d.run] \in Backtest!OrNone(Backtest!RunDetail)
      BY <2>1 DEF Backtest!OrNone, Backtest!RunDetail
    <3>2. page' = [page EXCEPT !.selectedDetail = [id |-> d.run, request |-> d.run],
                               !.view = "detail"]
      BY <2>3 DEF Backtest!DetailArrives
    <3> QED
      BY <3>1, <3>2 DEF Backtest!Page
  <2>4. CASE Backtest!DetailArrives(d) /\ d.goal # "view"
    BY <2>1, <2>4 DEF Backtest!DetailArrives, Backtest!Page, Backtest!OrNone
  <2> QED
    BY <1>8, <2>2, <2>3, <2>4
<1>9. Kept1
  BY <1>1, <1>2, <1>3, <1>4, <1>5, <1>6, <1>7, <1>8 DEF Backtest!HistoryNext
<1>10. Backtest!Clicks \/ Backtest!Succeeds \/ Backtest!Fails
  BY DEF Backtest!HistoryNext, Backtest!CancelDelete, Backtest!ConfirmDelete, Backtest!DeleteRun,
     Backtest!Deleted, Backtest!HandleView, Backtest!HandleRerun, Backtest!AskDelete,
     Backtest!ListRuns, Backtest!HistoryArrives, Backtest!HistoryFails, Backtest!DetailArrives,
     Backtest!DetailFails, Backtest!Succeeds
<1>11. clicks \in 0 .. MaxClicks => clicks' \in 0 .. MaxClicks
  BY <1>10, BoundsAssumption DEF Backtest!Clicks, Backtest!Succeeds, Backtest!Fails, Backtest!bounds
<1> QED
  BY <1>9, <1>11

LEMMA ChainTypes ==
    ASSUME NEW c \in [Runs -> Backtest!Chain], NEW r \in Runs,
           NEW stage \in {"none", "starting", "asking", "answered", "waiting", "ended"}
    PROVE  /\ Backtest!At(c, r, stage) \in [Runs -> Backtest!Chain]
           /\ Backtest!At(c, r, stage)[r].stage = stage
           /\ Backtest!At(c, r, stage)[r].answer = "pending"
           /\ \A o \in Runs \ {r} : Backtest!At(c, r, stage)[o] = c[o]
BY DEF Backtest!At, Backtest!Chain

LEMMA StopTypes ==
    ASSUME Backtest!TypeOK
    PROVE  /\ Backtest!StopPolling(chain) \in [Runs -> Backtest!Chain]
           /\ \A r \in Runs :
                 \/ Backtest!StopPolling(chain)[r] = chain[r]
                 \/ /\ Backtest!StopPolling(chain)[r] = [stage |-> "ended", answer |-> "pending"]
                    /\ chain[r].stage = "waiting"
           /\ timer # None /\ chain[timer].stage = "waiting" =>
                 Backtest!StopPolling(chain)[timer].stage = "ended"
<1>1. chain \in [Runs -> Backtest!Chain] /\ (timer # None => timer \in Runs)
  BY DEF Backtest!TypeOK, Backtest!OrNone
<1>2. CASE timer # None /\ chain[timer].stage = "waiting"
  <2>1. Backtest!StopPolling(chain) = Backtest!At(chain, timer, "ended") /\ timer \in Runs
    BY <1>1, <1>2 DEF Backtest!StopPolling
  <2>2. Backtest!At(chain, timer, "ended")[timer] = [stage |-> "ended", answer |-> "pending"]
    BY <1>1, <2>1 DEF Backtest!At
  <2>3. Backtest!StopPolling(chain) \in [Runs -> Backtest!Chain]
    BY <1>1, <2>1, ChainTypes
  <2>4. \A o \in Runs \ {timer} : Backtest!StopPolling(chain)[o] = chain[o]
    BY <1>1, <2>1 DEF Backtest!At
  <2> QED
    BY <1>2, <2>1, <2>2, <2>3, <2>4
<1>3. CASE ~(timer # None /\ chain[timer].stage = "waiting")
  BY <1>1, <1>3 DEF Backtest!StopPolling
<1> QED
  BY <1>2, <1>3

LEMMA BtBounds ==
    ASSUME Backtest!TypeOK, Backtest!Clicks \/ Backtest!Fails \/ Backtest!Succeeds
    PROVE  clicks' \in 0 .. MaxClicks /\ failures' \in 0 .. MaxFailures
BY BoundsAssumption DEF Backtest!TypeOK, Backtest!ListTypes, Backtest!Clicks, Backtest!Fails,
   Backtest!Succeeds, Backtest!bounds

(* A step that keeps the list but for the server and the bounds, or loads  *)
(* it once more.                                                           *)
LEMMA BtTypesFrom ==
    ASSUME Backtest!TypeOK, Backtest!Clicks \/ Backtest!Fails \/ Backtest!Succeeds,
           UNCHANGED <<details, deletion, overtaken>>,
           loads' \in {loads, Append(loads, Backtest!Sent)},
           page' \in Backtest!Page, chain' \in [Runs -> Backtest!Chain],
           {timer', asked'} \subseteq Backtest!OrNone(Runs),
           server' \in [Runs -> Backtest!States], left' \in BOOLEAN
    PROVE  Backtest!TypeOK'
<1>1. Backtest!Sent \in Backtest!Load
  BY DEF Backtest!Sent, Backtest!Load
<1>2. loads' \in Seq(Backtest!Load)
  BY <1>1 DEF Backtest!TypeOK, Backtest!ListTypes
<1> QED
  BY <1>2, BtBounds DEF Backtest!TypeOK, Backtest!ListTypes

(* A run whose poll has been served is one the server had begun.           *)
LEMMA BtAnswerTypes ==
    ASSUME Backtest!TypeOK, Backtest!AskedHasBegun, NEW r \in Runs, Backtest!GetBacktestResults(r)
    PROVE  /\ chain' \in [Runs -> Backtest!Chain]
           /\ chain'[r].stage = "answered" /\ server[r] # "unborn"
           /\ \A o \in Runs \ {r} : chain'[o] = chain[o]
<1>1. server[r] \in {"running", "completed", "kept", "lost", "error", "deleted", "gone"}
  BY DEF Backtest!TypeOK, Backtest!ListTypes, Backtest!States, Backtest!AskedHasBegun,
     Backtest!GetBacktestResults
<1>2. chain \in [Runs -> Backtest!Chain]
  BY DEF Backtest!TypeOK
<1>3. CASE Backtest!Fails /\
             chain' = [chain EXCEPT ![r] = [stage |-> "answered", answer |-> "failed"]]
  BY <1>1, <1>2, <1>3 DEF Backtest!Chain
<1> DEFINE served == CASE server[r] \in {"completed", "kept", "lost"} -> "completed"
                       [] server[r] \in {"deleted", "gone"} -> "failed"
                       [] OTHER -> server[r]
<1>4. CASE chain' = [chain EXCEPT ![r] = [stage |-> "answered", answer |-> served]]
  <2>1. served \in {"running", "completed", "error", "failed"}
    BY <1>1
  <2> HIDE DEF served
  <2> QED
    BY <1>1, <1>2, <1>4, <2>1 DEF Backtest!Chain
<1> QED
  BY <1>3, <1>4 DEF Backtest!GetBacktestResults

(* What the invariant asks of a step that concerns one run.                *)
LEMMA BtPollEnds ==
    ASSUME Backtest!FollowInv, NEW r \in Runs, chain[r].stage \in {"starting", "waiting"},
           Backtest!Poll(r)
    PROVE  /\ chain' \in [Runs -> Backtest!Chain]
           /\ \A o \in Runs \ {r} : chain'[o] = chain[o]
           /\ chain'[r].stage \in {"ended", "asking"} /\ chain'[r].answer = "pending"
           /\ left \/ chain'[r].stage = "asking"
<1>1. chain \in [Runs -> Backtest!Chain]
  BY DEF Backtest!FollowInv, Backtest!TypeOK
<1>2. ASSUME ~left PROVE ~Backtest!PollInFlight
  <2>1. \A o \in Runs : Backtest!Alive(o) => page.running /\ asked = o
    BY <1>2 DEF Backtest!FollowInv, Backtest!OnlyTheAwaitedRunIsFollowed
  <2>2. Backtest!Alive(r)
    BY DEF Backtest!Alive
  <2>3. \A o \in Runs : chain[o].stage \in {"asking", "answered"} => Backtest!Alive(o)
    BY DEF Backtest!Alive
  <2> QED
    BY <2>1, <2>2, <2>3 DEF Backtest!PollInFlight
<1>3. chain' = Backtest!At(chain, r, IF Backtest!PollInFlight THEN "ended" ELSE "asking")
  BY DEF Backtest!Poll
<1>4. CASE Backtest!PollInFlight
  BY <1>1, <1>2, <1>3, <1>4, ChainTypes
<1>5. CASE ~Backtest!PollInFlight
  BY <1>1, <1>2, <1>3, <1>5, ChainTypes
<1> QED
  BY <1>4, <1>5

LEMMA BtStep ==
    Backtest!FollowInv /\ (Backtest!Next \/ UNCHANGED Backtest!vars) => Backtest!FollowInv'
<1> SUFFICES ASSUME Backtest!FollowInv, (Backtest!Next \/ UNCHANGED Backtest!vars)
             PROVE Backtest!FollowInv'
  OBVIOUS
<1>0. /\ Backtest!TypeOK /\ Backtest!AskedHasBegun /\ Backtest!RunsElsewhere /\
           (left \/ Backtest!TimerIsKnown)
      /\ Backtest!OnlyTheAwaitedRunIsFollowed
  BY DEF Backtest!FollowInv
<1>t. /\ page \in Backtest!Page /\ chain \in [Runs -> Backtest!Chain]
      /\ {timer, asked} \subseteq Backtest!OrNone(Runs)
      /\ Backtest!ListTypes /\ server \in [Runs -> Backtest!States] /\ left \in BOOLEAN
  BY <1>0 DEF Backtest!TypeOK, Backtest!ListTypes
<1>p. Backtest!Clicks \/ Backtest!Fails \/ Backtest!Succeeds =>
         clicks' \in 0 .. MaxClicks /\ failures' \in 0 .. MaxFailures
  BY <1>0, BtBounds
<1>1. ASSUME NEW r \in Runs, Backtest!HandleRun(r) PROVE Backtest!FollowInv'
  <2>1. /\ chain' = Backtest!At(Backtest!StopPolling(chain), r, "starting") /\ timer' = None
        /\ asked' = r
        /\ UNCHANGED <<Backtest!lists, server, overtaken, left>>
        /\ page' = [page EXCEPT !.running = TRUE, !.runError = FALSE] /\ Backtest!Clicks
        /\ page.view = "form" /\ ~page.running /\ server[r] = "unborn"
    BY <1>1 DEF Backtest!HandleRun, Backtest!Clickable
  <2>2. page' \in Backtest!Page /\ page'.running /\ page'.view = "form"
    BY <1>t, <2>1 DEF Backtest!Page
  <2>3. /\ chain' \in [Runs -> Backtest!Chain] /\ chain'[r].stage = "starting"
        /\ chain'[r].answer = "pending"
        /\ \A o \in Runs \ {r} : chain'[o] = Backtest!StopPolling(chain)[o]
    BY <1>0, <2>1, ChainTypes, StopTypes
  <2>4. Backtest!TypeOK'
    BY <1>0, <1>t, <2>1, <2>2, <2>3, BtTypesFrom DEF Backtest!lists, Backtest!OrNone
  <2>5. Backtest!AskedHasBegun'
    BY <1>0, <2>1, <2>3, StopTypes DEF Backtest!AskedHasBegun
  <2>6. ASSUME ~left PROVE Backtest!TimerIsKnown' /\ Backtest!OnlyTheAwaitedRunIsFollowed'
    <3>1. \A o \in Runs : ~Backtest!Alive(o)
      BY <1>0, <2>1, <2>6 DEF Backtest!OnlyTheAwaitedRunIsFollowed
    <3>2. \A o \in Runs \ {r} : ~(Backtest!Alive(o))'
      BY <1>0, <2>3, <3>1, StopTypes DEF Backtest!Alive
    <3> QED
      BY <2>1, <2>2, <2>3, <3>2
      DEF Backtest!Alive, Backtest!TimerIsKnown, Backtest!OnlyTheAwaitedRunIsFollowed
  <2> QED
    BY <1>t, <2>1, <2>2, <2>4, <2>5, <2>6
    DEF Backtest!FollowInv, Backtest!RunsElsewhere, Backtest!OnlyTheAwaitedRunIsFollowed
<1>2. ASSUME NEW r \in Runs, Backtest!RunEndpoint(r) PROVE Backtest!FollowInv'
  <2>1. /\ UNCHANGED <<page, timer, Backtest!lists, overtaken, Backtest!observed>> /\
             (Backtest!Succeeds \/ Backtest!Fails)
        /\ chain[r].stage = "starting"
        /\ \/ /\ chain' = [chain EXCEPT ![r].answer = "running"]
              /\ server' = [server EXCEPT ![r] = "running"]
           \/ /\ chain' = [chain EXCEPT ![r].answer = "failed"]
              /\ server' \in {server, [server EXCEPT ![r] = "running"]}
    BY <1>2 DEF Backtest!RunEndpoint
  <2>2. /\ chain' \in [Runs -> Backtest!Chain] /\ server' \in [Runs -> Backtest!States]
        /\ \A o \in Runs : chain'[o].stage = chain[o].stage
    BY <1>t, <2>1 DEF Backtest!Chain, Backtest!States
  <2>3. Backtest!TypeOK'
    BY <1>0, <1>t, <2>1, <2>2, BtTypesFrom DEF Backtest!lists, Backtest!observed
  <2>4. Backtest!AskedHasBegun'
    BY <1>0, <1>t, <2>1 DEF Backtest!AskedHasBegun, Backtest!Chain
  <2>5. Backtest!RunsElsewhere' /\ (left \/ Backtest!TimerIsKnown)' /\
          Backtest!OnlyTheAwaitedRunIsFollowed'
    BY <1>0, <2>1, <2>2 DEF Backtest!RunsElsewhere, Backtest!TimerIsKnown,
       Backtest!OnlyTheAwaitedRunIsFollowed, Backtest!Alive, Backtest!observed
  <2> QED
    BY <2>3, <2>4, <2>5 DEF Backtest!FollowInv
<1>3. ASSUME NEW r \in Runs, chain[r].stage \in {"starting", "waiting"}, Backtest!Poll(r),
             chain[r].stage = "starting" => chain[r].answer = "running",
             UNCHANGED <<page, timer, Backtest!lists, server, overtaken, Backtest!observed,
             Backtest!bounds>>
      PROVE  Backtest!FollowInv'
  <2>1. /\ chain' \in [Runs -> Backtest!Chain] /\ \A o \in Runs \ {r} : chain'[o] = chain[o]
        /\ chain'[r].stage \in {"ended", "asking"} /\ chain'[r].answer = "pending"
        /\ left \/ chain'[r].stage = "asking"
    BY <1>3, BtPollEnds
  <2>2. Backtest!TypeOK'
    BY <1>0, <1>t, <1>3, <2>1, BtTypesFrom DEF Backtest!lists, Backtest!observed, Backtest!Succeeds
  <2>3. server[r] # "unborn"
    BY <1>0, <1>3 DEF Backtest!AskedHasBegun
  <2>4. Backtest!AskedHasBegun'
    BY <1>0, <1>3, <2>1, <2>3 DEF Backtest!AskedHasBegun
  <2>5. Backtest!RunsElsewhere' /\ (left \/ Backtest!TimerIsKnown)' /\
          Backtest!OnlyTheAwaitedRunIsFollowed'
    BY <1>0, <1>3, <2>1 DEF Backtest!RunsElsewhere, Backtest!TimerIsKnown,
       Backtest!OnlyTheAwaitedRunIsFollowed, Backtest!Alive, Backtest!observed
  <2> QED
    BY <2>2, <2>4, <2>5 DEF Backtest!FollowInv
<1>4. ASSUME NEW r \in Runs, Backtest!GetBacktestResults(r) PROVE Backtest!FollowInv'
  <2>1. UNCHANGED <<page, timer, Backtest!lists, server, overtaken, Backtest!observed>> /\
          (Backtest!Succeeds \/ Backtest!Fails)
        /\ chain[r].stage = "asking"
    BY <1>4 DEF Backtest!GetBacktestResults
  <2>2. /\ chain' \in [Runs -> Backtest!Chain] /\ chain'[r].stage = "answered"
        /\ server[r] # "unborn"
        /\ \A o \in Runs \ {r} : chain'[o] = chain[o]
    BY <1>0, <1>4, BtAnswerTypes
  <2>3. Backtest!TypeOK'
    BY <1>0, <1>t, <2>1, <2>2, BtTypesFrom DEF Backtest!lists, Backtest!observed
  <2>4. Backtest!AskedHasBegun'
    BY <1>0, <2>1, <2>2 DEF Backtest!AskedHasBegun
  <2>5. Backtest!RunsElsewhere' /\ (left \/ Backtest!TimerIsKnown)' /\
          Backtest!OnlyTheAwaitedRunIsFollowed'
    BY <1>0, <2>1, <2>2 DEF Backtest!RunsElsewhere, Backtest!TimerIsKnown,
       Backtest!OnlyTheAwaitedRunIsFollowed, Backtest!Alive, Backtest!observed
  <2> QED
    BY <2>3, <2>4, <2>5 DEF Backtest!FollowInv
<1>5. ASSUME NEW r \in Runs, chain[r].stage \in {"starting", "answered"},
             chain' = Backtest!At(chain, r, "ended"), page' \in Backtest!Page, ~page'.running,
             UNCHANGED <<timer, details, deletion, server, overtaken, Backtest!observed,
             Backtest!bounds>>,
             loads' \in {loads, Append(loads, Backtest!Sent)}
      PROVE  Backtest!FollowInv'
  <2>1. /\ chain' \in [Runs -> Backtest!Chain] /\ chain'[r].stage = "ended"
        /\ chain'[r].answer = "pending"
        /\ \A o \in Runs \ {r} : chain'[o] = chain[o]
    BY <1>t, <1>5, ChainTypes
  <2>2. Backtest!TypeOK'
    BY <1>0, <1>t, <1>5, <2>1, BtTypesFrom DEF Backtest!observed, Backtest!Succeeds
  <2>3. Backtest!AskedHasBegun'
    BY <1>0, <1>5, <2>1 DEF Backtest!AskedHasBegun
  <2>4. left \/ \A o \in Runs : Backtest!Alive(o) => o = r
    BY <1>0, <1>5 DEF Backtest!OnlyTheAwaitedRunIsFollowed, Backtest!Alive
  <2>5. Backtest!RunsElsewhere' /\ (left \/ Backtest!TimerIsKnown)' /\
          Backtest!OnlyTheAwaitedRunIsFollowed'
    BY <1>0, <1>5, <2>1, <2>4 DEF Backtest!RunsElsewhere, Backtest!TimerIsKnown,
       Backtest!OnlyTheAwaitedRunIsFollowed, Backtest!Alive, Backtest!observed
  <2> QED
    BY <2>2, <2>3, <2>5 DEF Backtest!FollowInv
<1>6. ASSUME NEW r \in Runs, Backtest!Started(r) \/ Backtest!ResultArrives(r) \/
               Backtest!ErrorArrives(r) \/ Backtest!TimerFires(r)
      PROVE  Backtest!FollowInv'
  <2>1. CASE Backtest!TimerFires(r)
    BY <1>3, <2>1 DEF Backtest!TimerFires
  <2>2. CASE Backtest!Started(r) /\ chain[r].answer = "running"
    BY <1>3, <2>2 DEF Backtest!Started
  <2>3. CASE Backtest!ErrorArrives(r) \/ (Backtest!Started(r) /\ chain[r].answer # "running")
    <3>1. /\ page' = [page EXCEPT !.running = FALSE, !.runError = TRUE]
          /\ chain' = Backtest!At(chain, r, "ended") /\ chain[r].stage \in {"starting", "answered"}
          /\ UNCHANGED <<timer, Backtest!lists, server, overtaken, Backtest!observed,
               Backtest!bounds>>
      BY <2>3 DEF Backtest!ErrorArrives, Backtest!Started
    <3>2. page' \in Backtest!Page /\ ~page'.running
      BY <1>t, <3>1 DEF Backtest!Page
    <3> QED
      BY <1>5, <3>1, <3>2 DEF Backtest!lists
  <2>4. CASE Backtest!ResultArrives(r)
    <3>1. /\ page' = [page EXCEPT !.selectedDetail = [id |-> r, request |-> r],
                         !.running = FALSE, !.view = "detail", !.historyLoading = TRUE]
          /\ chain' = Backtest!At(chain, r, "ended") /\ chain[r].stage = "answered"
          /\ loads' = Append(loads, Backtest!Sent)
          /\ UNCHANGED <<timer, details, deletion, server, overtaken, Backtest!observed,
               Backtest!bounds>>
      BY <2>4 DEF Backtest!ResultArrives
    <3>2. [id |-> r, request |-> r] \in Backtest!OrNone(Backtest!RunDetail)
      BY DEF Backtest!OrNone, Backtest!RunDetail
    <3>3. page' \in Backtest!Page /\ ~page'.running
      BY <1>t, <3>1, <3>2 DEF Backtest!Page
    <3> QED
      BY <1>5, <3>1, <3>3
  <2> QED
    BY <1>6, <2>1, <2>2, <2>3, <2>4
<1>7. ASSUME NEW r \in Runs, Backtest!StillRunning(r) PROVE Backtest!FollowInv'
  <2>1. /\ chain' = Backtest!At(chain, r, "waiting") /\ timer' = r /\ chain[r].stage = "answered"
        /\ UNCHANGED <<page, Backtest!lists, server, overtaken, Backtest!observed, Backtest!bounds>>
    BY <1>7 DEF Backtest!StillRunning
  <2>2. /\ chain' \in [Runs -> Backtest!Chain] /\ chain'[r].stage = "waiting"
        /\ \A o \in Runs \ {r} : chain'[o] = chain[o]
    BY <1>t, <2>1, ChainTypes
  <2>3. Backtest!TypeOK'
    BY <1>0, <1>t, <2>1, <2>2, BtTypesFrom
    DEF Backtest!lists, Backtest!observed, Backtest!Succeeds, Backtest!OrNone
  <2>4. Backtest!AskedHasBegun'
    BY <1>0, <2>1, <2>2 DEF Backtest!AskedHasBegun
  <2>5. left \/ \A o \in Runs : Backtest!Alive(o) => o = r
    BY <1>0, <2>1 DEF Backtest!OnlyTheAwaitedRunIsFollowed, Backtest!Alive
  <2>6. Backtest!RunsElsewhere' /\ (left \/ Backtest!TimerIsKnown)' /\
          Backtest!OnlyTheAwaitedRunIsFollowed'
    BY <1>0, <2>1, <2>2, <2>5 DEF Backtest!RunsElsewhere, Backtest!TimerIsKnown,
       Backtest!OnlyTheAwaitedRunIsFollowed, Backtest!Alive, Backtest!observed
  <2> QED
    BY <2>3, <2>4, <2>6 DEF Backtest!FollowInv
<1>8. ASSUME chain' = Backtest!StopPolling(chain), timer' = None, page' \in Backtest!Page,
             ~page'.running, Backtest!Clicks,
             UNCHANGED <<Backtest!lists, server, overtaken, asked>>, left' \in BOOLEAN, left =>
               left',
             left' \/ \A o \in Runs : Backtest!Alive(o) => chain[o].stage = "waiting"
      PROVE  Backtest!FollowInv'
  <2>1. chain' \in [Runs -> Backtest!Chain]
    BY <1>0, <1>8, StopTypes
  <2>2. Backtest!TypeOK'
    BY <1>0, <1>t, <1>8, <2>1, BtTypesFrom DEF Backtest!lists, Backtest!OrNone
  <2>3. Backtest!AskedHasBegun'
    BY <1>0, <1>8, StopTypes DEF Backtest!AskedHasBegun
  <2>4. ASSUME ~left' PROVE \A o \in Runs : ~(Backtest!Alive(o))'
    <3> SUFFICES ASSUME NEW o \in Runs, (Backtest!Alive(o))' PROVE FALSE
      OBVIOUS
    <3>1. chain'[o] = chain[o] /\ chain[o].stage = "waiting"
      BY <1>0, <1>8, <2>4, StopTypes DEF Backtest!Alive
    <3>2. timer = o
      BY <1>0, <1>8, <2>4, <3>1 DEF Backtest!TimerIsKnown
    <3>3. chain'[o].stage = "ended"
      BY <1>0, <1>8, <3>1, <3>2, StopTypes, RunsAssumption
    <3> QED
      BY <3>1, <3>3
  <2>5. Backtest!RunsElsewhere' /\ (left \/ Backtest!TimerIsKnown)' /\
          Backtest!OnlyTheAwaitedRunIsFollowed'
    BY <1>8, <2>4 DEF Backtest!RunsElsewhere, Backtest!TimerIsKnown,
       Backtest!OnlyTheAwaitedRunIsFollowed, Backtest!Alive
  <2> QED
    BY <2>2, <2>3, <2>5 DEF Backtest!FollowInv
<1>9. ASSUME Backtest!HandleNew PROVE Backtest!FollowInv'
  <2>1. /\ page' = [page EXCEPT !.selectedDetail = None, !.pendingRequest = None,
                                !.runError = FALSE, !.view = "form"]
        /\ page.view = "history"
        /\ chain' = Backtest!StopPolling(chain) /\ timer' = None /\ Backtest!Clicks
        /\ UNCHANGED <<Backtest!lists, server, overtaken, Backtest!observed>>
    BY <1>9 DEF Backtest!HandleNew, Backtest!Clickable
  <2>2. page' \in Backtest!Page /\ ~page'.running
    BY <1>0, <1>t, <2>1 DEF Backtest!Page, Backtest!OrNone, Backtest!RunsElsewhere
  <2>3. left \/ \A o \in Runs : ~Backtest!Alive(o)
    BY <1>0, <2>1 DEF Backtest!RunsElsewhere, Backtest!OnlyTheAwaitedRunIsFollowed
  <2> QED
    BY <1>8, <1>t, <2>1, <2>2, <2>3 DEF Backtest!observed
<1>10. ASSUME Backtest!HandleBack PROVE Backtest!FollowInv'
  <2>1. /\ page' = [page EXCEPT !.running = FALSE, !.pendingRequest = None,
                                !.selectedDetail = None, !.runError = FALSE, !.view = "history"]
        /\ chain' = Backtest!StopPolling(chain) /\ timer' = None /\ Backtest!Clicks
        /\ left' = (left \/ \E r \in Runs : Backtest!InFlight(r))
        /\ UNCHANGED <<Backtest!lists, server, overtaken, asked>>
    BY <1>10 DEF Backtest!HandleBack
  <2>2. page' \in Backtest!Page /\ ~page'.running
    BY <1>t, <2>1 DEF Backtest!Page, Backtest!OrNone
  <2>3. left' \/ \A o \in Runs : Backtest!Alive(o) => chain[o].stage = "waiting"
    BY <1>t, <2>1 DEF Backtest!Alive, Backtest!InFlight, Backtest!Chain
  <2>4. left' \in BOOLEAN /\ (left => left')
    BY <1>t, <2>1
  <2> QED
    BY <1>8, <2>1, <2>2, <2>3, <2>4
<1>11. ASSUME NEW r \in Runs, Backtest!Thread(r) PROVE Backtest!FollowInv'
  <2>1. /\ UNCHANGED <<page, Backtest!lists, Backtest!following, overtaken, Backtest!observed>> /\
             (Backtest!Succeeds \/ Backtest!Fails)
        /\ server' \in [Runs -> Backtest!States]
        /\ \A o \in Runs : server'[o] = server[o] \/ server'[o] \notin {"unborn", "cancelled"}
    BY <1>t, <1>11 DEF Backtest!Thread, Backtest!ExecuteBacktest, Backtest!Persist, Backtest!States
  <2>2. Backtest!TypeOK'
    BY <1>0, <1>t, <2>1, BtTypesFrom DEF Backtest!lists, Backtest!observed, Backtest!following
  <2>3. Backtest!AskedHasBegun' /\ Backtest!RunsElsewhere' /\ (left \/ Backtest!TimerIsKnown)'
        /\ Backtest!OnlyTheAwaitedRunIsFollowed'
    BY <1>0, <2>1 DEF Backtest!AskedHasBegun, Backtest!RunsElsewhere, Backtest!TimerIsKnown,
       Backtest!OnlyTheAwaitedRunIsFollowed, Backtest!Alive, Backtest!observed, Backtest!following
  <2> QED
    BY <2>2, <2>3 DEF Backtest!FollowInv
<1>12. ASSUME Backtest!HistoryNext, UNCHANGED <<Backtest!following, Backtest!observed>>
       PROVE Backtest!FollowInv'
  <2>1. /\ page' \in Backtest!Page /\ page'.running = page.running
        /\ page'.view = "history" => page.view = "history"
        /\ clicks' \in 0 .. MaxClicks
    BY <1>0, <1>t, <1>12, BtListPage DEF Backtest!TypeOK
  <2>2. Backtest!ListTypes'
    BY <1>t, <1>12, HistoryTypes, BacktestSame, BacktestHistory DEF Backtest!Page
  <2>3. Backtest!TypeOK'
    BY <1>t, <1>12, <2>1, <2>2 DEF Backtest!TypeOK, Backtest!following, Backtest!observed
  <2>4. \A r \in Runs : server'[r] = server[r] \/ server'[r] \in {"deleted", "gone"}
    BY <1>t, <1>12 DEF Backtest!HistoryNext, Backtest!CancelDelete, Backtest!ConfirmDelete,
       Backtest!DeleteRun, Backtest!Deleted, Backtest!HandleView, Backtest!HandleRerun,
       Backtest!AskDelete, Backtest!ListRuns, Backtest!HistoryArrives, Backtest!HistoryFails,
       Backtest!DetailArrives, Backtest!DetailFails
  <2>5. Backtest!AskedHasBegun' /\ Backtest!RunsElsewhere' /\ (left \/ Backtest!TimerIsKnown)'
        /\ Backtest!OnlyTheAwaitedRunIsFollowed'
    BY <1>0, <1>12, <2>1, <2>4 DEF Backtest!AskedHasBegun, Backtest!RunsElsewhere,
       Backtest!TimerIsKnown, Backtest!OnlyTheAwaitedRunIsFollowed, Backtest!Alive,
       Backtest!observed, Backtest!following
  <2> QED
    BY <2>3, <2>5 DEF Backtest!FollowInv
<1>13. ASSUME UNCHANGED Backtest!vars PROVE Backtest!FollowInv'
  BY <1>0, <1>13 DEF Backtest!vars, Backtest!lists, Backtest!following, Backtest!observed,
     Backtest!bounds, Backtest!FollowInv, Backtest!TypeOK, Backtest!ListTypes,
     Backtest!AskedHasBegun, Backtest!RunsElsewhere, Backtest!TimerIsKnown,
     Backtest!OnlyTheAwaitedRunIsFollowed, Backtest!Alive
<1> QED
  BY <1>1, <1>2, <1>4, <1>6, <1>7, <1>9, <1>10, <1>11, <1>12, <1>13
  DEF Backtest!Next, Backtest!Follow

LEMMA BtDeletion ==
    Backtest!FollowInv /\ Backtest!DeletionInv /\ (Backtest!Next \/ UNCHANGED Backtest!vars) =>
      Backtest!DeletionInv'
<1> SUFFICES ASSUME Backtest!FollowInv, Backtest!DeletionInv,
                    (Backtest!Next \/ UNCHANGED Backtest!vars) PROVE Backtest!DeletionInv'
  OBVIOUS
<1>0. Backtest!FollowInv'
  BY BtStep
<1>1. Backtest!ListTypes /\ Backtest!ListTypes' /\ page \in Backtest!Page
  BY <1>0 DEF Backtest!FollowInv, Backtest!TypeOK
<1>2. PageFields \subseteq DOMAIN page /\ page.runs \subseteq Runs /\
        page.itemToDelete \in Backtest!OrNone(Runs)
  BY <1>1 DEF PageFields, Backtest!Page
<1>3. server \in [Runs -> Backtest!States]
  BY <1>1 DEF Backtest!ListTypes
<1>4. CASE Backtest!HistoryNext
  BY <1>1, <1>2, <1>4, DeletionStep, BacktestSame, BacktestHistory
<1>5. ASSUME NEW r \in Runs, Backtest!HandleRun(r) \/ Backtest!Follow(r) \/ Backtest!Thread(r)
      PROVE  /\ UNCHANGED <<deletion, overtaken>>
             /\ loads' \in {loads, Append(loads, Backtest!Sent)}
             /\ \A o \in Runs : server'[o] = "deleted" => server[o] = "deleted"
  BY <1>3, <1>5 DEF Backtest!HandleRun, Backtest!Follow, Backtest!RunEndpoint, Backtest!Started,
     Backtest!GetBacktestResults, Backtest!ResultArrives, Backtest!ErrorArrives,
     Backtest!StillRunning, Backtest!TimerFires, Backtest!Thread, Backtest!ExecuteBacktest,
     Backtest!Persist, Backtest!lists
<1>6. Backtest!HandleNew \/ Backtest!HandleBack \/ UNCHANGED Backtest!vars =>
        UNCHANGED <<deletion, overtaken, loads, server>>
  BY DEF Backtest!HandleNew, Backtest!HandleBack, Backtest!vars, Backtest!lists
<1>7. ASSUME ~Backtest!HistoryNext
      PROVE  /\ page'.runs = page.runs /\ page'.historyError = page.historyError
             /\ page'.deleteLoading = page.deleteLoading
  BY <1>1, <1>7 DEF Backtest!Next, Backtest!HandleNew, Backtest!HandleBack, Backtest!HandleRun,
     Backtest!Follow, Backtest!RunEndpoint, Backtest!Started, Backtest!GetBacktestResults,
     Backtest!ResultArrives, Backtest!ErrorArrives, Backtest!StillRunning, Backtest!TimerFires,
     Backtest!Thread, Backtest!ExecuteBacktest, Backtest!Persist, Backtest!vars, Backtest!Page
<1> QED
  BY <1>1, <1>2, <1>4, <1>5, <1>6, <1>7, DeletionKept, BacktestSame DEF Backtest!Next

(* Until a run is left with a call in flight, the page of the backtests    *)
(* follows the run it shows a spinner for and no other.                    *)
THEOREM FollowsTheAwaitedRun == Spec => []OnlyTheAwaitedRunIsFollowed
<1> DEFINE Inv == route = "backtest" => Backtest!FollowInv
<1>1. Init => Inv
  BY Starts, BtInit
<1>2. Inv /\ [Next]_vars => Inv'
  BY Steps, BtStep
<1>3. Inv => OnlyTheAwaitedRunIsFollowed
  BY DEF Backtest!FollowInv, OnlyTheAwaitedRunIsFollowed
<1> QED
  BY <1>1, <1>2, <1>3, PTL DEF Spec

-----------------------------------------------------------------------------
(***************************************************************************)
(* The page of the optimizations.                                          *)
(***************************************************************************)
LEMMA OptimizerSequences ==
    /\ \A s, i : Optimizer!RemoveAt(s, i) = RemoveAt(s, i)
    /\ \A s : Optimizer!Last(s) = Last(s)
BY DEF Optimizer!RemoveAt, RemoveAt, Optimizer!Last, Last

LEMMA OptimizerSame ==
    /\ Optimizer!ListTypes <=> ListTypes
    /\ Optimizer!ListTypes' <=> ListTypes'
    /\ Optimizer!DeletionInv <=> DeletionInv
    /\ Optimizer!DeletionInv' <=> DeletionInv'
    /\ Optimizer!Sent = Sent
    /\ \A values : Optimizer!OrNone(values) = OrNone(values)
<1>1. \A values : Optimizer!OrNone(values) = OrNone(values)
  BY DEF Optimizer!OrNone, OrNone
<1>2. Optimizer!Sent = Sent /\ Optimizer!NoDeletion = NoDeletion /\ Optimizer!Load = Load /\
        Optimizer!Detail = Detail
  BY DEF Optimizer!Sent, Sent, Optimizer!NoDeletion, NoDeletion, Optimizer!Load, Load,
     Optimizer!Detail, Detail
<1>3. Optimizer!Deletion = Deletion /\ Optimizer!States = States
  BY DEF Optimizer!Deletion, Deletion, Optimizer!OrNone, OrNone, Optimizer!States, States
<1>4. (Optimizer!ListTypes <=> ListTypes) /\ (Optimizer!ListTypes' <=> ListTypes')
  BY <1>2, <1>3 DEF Optimizer!ListTypes, ListTypes
<1>5. (Optimizer!DeletionInv <=> DeletionInv) /\ (Optimizer!DeletionInv' <=> DeletionInv')
  BY DEF Optimizer!DeletionInv, DeletionInv, Optimizer!DeletionWaits, DeletionWaits,
     Optimizer!DoneIsOfARun, DoneIsOfARun, Optimizer!LastLoadIsFresh, LastLoadIsFresh,
     Optimizer!NoneDeleted, NoneDeleted, Optimizer!Last, Last
<1> QED
  BY <1>1, <1>2, <1>4, <1>5

LEMMA OptimizerHistory == clicks \in 0 .. OptimizerClicks /\ Optimizer!HistoryNext => HistoryNext
<1> SUFFICES ASSUME clicks \in 0 .. OptimizerClicks, Optimizer!HistoryNext
             PROVE  HistoryNext
  OBVIOUS
<1>0. OptimizerClicks \in 0 .. MaxClicks /\ MaxClicks \in Nat
  BY TasksAssumption, BoundsAssumption
<1>a. clicks \in Nat
  BY <1>0
<1> USE DEF Optimizer!Clicks, Clicks, Optimizer!Fails, Fails, Optimizer!Succeeds, Succeeds,
      Optimizer!bounds, bounds, Optimizer!lists, lists, Optimizer!Clickable, Clickable,
      Optimizer!RowShown, RowShown, Optimizer!Sent, Sent, Optimizer!NoDeletion, NoDeletion,
      Optimizer!Kept, Kept
<1>1. Optimizer!CancelDelete \/ Optimizer!ConfirmDelete \/ Optimizer!DeleteRun \/
        Optimizer!Deleted =>
        CancelDelete \/ ConfirmDelete \/ DeleteRun \/ Deleted
  BY <1>0, <1>a DEF Optimizer!CancelDelete, CancelDelete, Optimizer!ConfirmDelete, ConfirmDelete,
     Optimizer!DeleteRun, DeleteRun, Optimizer!Deleted, Deleted
<1>2. \A r \in Runs : Optimizer!HandleView(r) \/ Optimizer!HandleRerun(r) \/
        Optimizer!AskDelete(r) =>
        HandleView(r) \/ HandleRerun(r) \/ AskDelete(r)
  BY <1>0, <1>a DEF Optimizer!HandleView, HandleView, Optimizer!HandleRerun, HandleRerun,
     Optimizer!AskDelete, AskDelete
<1>3. \A i \in DOMAIN loads : Optimizer!ListRuns(i) \/ Optimizer!HistoryArrives(i) \/
        Optimizer!HistoryFails(i) =>
        ListRuns(i) \/ HistoryArrives(i) \/ HistoryFails(i)
  BY OptimizerSequences DEF Optimizer!ListRuns, ListRuns, Optimizer!HistoryArrives, HistoryArrives,
     Optimizer!HistoryFails, HistoryFails
<1>4. \A d \in details : Optimizer!DetailArrives(d) \/ Optimizer!DetailFails(d) =>
        DetailArrives(d) \/ DetailFails(d)
  BY DEF Optimizer!DetailArrives, DetailArrives, Optimizer!DetailFails, DetailFails
<1> QED
  BY <1>1, <1>2, <1>3, <1>4 DEF Optimizer!HistoryNext, HistoryNext

LEMMA PutTypes ==
    ASSUME NEW F, NEW s \in Seq(F), NEW k \in DOMAIN s, NEW i \in F
    PROVE  Optimizer!Put(s, k, i) \in Seq(F)
<1>1. [s EXCEPT ![k] = i] \in Seq(F)
  OBVIOUS
<1> QED
  BY <1>1, RemovedLast, OptimizerSequences DEF Optimizer!Put

(* Of a component that is not the last, whatever becomes of it.            *)
LEMMA PutElsewhere ==
    ASSUME NEW F, NEW s \in Seq(F), NEW k \in DOMAIN s, k # Len(s), NEW i
    PROVE  Optimizer!Put(s, k, i) # <<>> /\
             Optimizer!Last(Optimizer!Put(s, k, i)) = Optimizer!Last(s) /\ s # <<>>
<1>1. s # <<>>
  OBVIOUS
<1>2. CASE Optimizer!MayAct(i)
  <2>1. Optimizer!Put(s, k, i) = [s EXCEPT ![k] = i]
    BY <1>2 DEF Optimizer!Put
  <2>2. Len([s EXCEPT ![k] = i]) = Len(s) /\ [s EXCEPT ![k] = i][Len(s)] = s[Len(s)]
        /\ [s EXCEPT ![k] = i] # <<>>
    OBVIOUS
  <2> QED
    BY <1>1, <2>1, <2>2 DEF Optimizer!Last
<1>3. CASE ~Optimizer!MayAct(i)
  BY <1>1, <1>3, RemovedLast, OptimizerSequences DEF Optimizer!Put
<1> QED
  BY <1>2, <1>3

(* Of the last one.                                                        *)
LEMMA PutLast ==
    ASSUME NEW F, NEW s \in Seq(F), s # <<>>, NEW i \in F, Optimizer!MayAct(i)
    PROVE  /\ Optimizer!Put(s, Len(s), i) \in Seq(F) /\ Optimizer!Put(s, Len(s), i) # <<>>
           /\ Optimizer!Last(Optimizer!Put(s, Len(s), i)) = i
<1>1. Len(s) \in DOMAIN s
  OBVIOUS
<1>2. Optimizer!Put(s, Len(s), i) = [s EXCEPT ![Len(s)] = i]
  BY DEF Optimizer!Put
<1>3. Len([s EXCEPT ![Len(s)] = i]) = Len(s) /\ [s EXCEPT ![Len(s)] = i][Len(s)] = i
      /\ [s EXCEPT ![Len(s)] = i] # <<>> /\ [s EXCEPT ![Len(s)] = i] \in Seq(F)
  BY <1>1
<1> QED
  BY <1>2, <1>3 DEF Optimizer!Last

(* A component keeps its place on the screen.                              *)
LEMMA PutOnScreen ==
    ASSUME NEW F, NEW s \in Seq(F), Optimizer!OneOnScreen(s), NEW k \in DOMAIN s, NEW i,
           i.onScreen => s[k].onScreen
    PROVE  Optimizer!OneOnScreen(Optimizer!Put(s, k, i))
<1>1. CASE Optimizer!MayAct(i)
  <2>1. Optimizer!Put(s, k, i) = [s EXCEPT ![k] = i]
    BY <1>1 DEF Optimizer!Put
  <2>2. Len([s EXCEPT ![k] = i]) = Len(s) /\ DOMAIN [s EXCEPT ![k] = i] = DOMAIN s
    OBVIOUS
  <2> QED
    BY <2>1, <2>2 DEF Optimizer!OneOnScreen
<1>2. CASE ~Optimizer!MayAct(i)
  <2>1. Optimizer!Put(s, k, i) = Optimizer!RemoveAt(s, k)
    BY <1>2 DEF Optimizer!Put
  <2>2. /\ Optimizer!RemoveAt(s, k) \in Seq(F) /\ Len(Optimizer!RemoveAt(s, k)) = Len(s) - 1
        /\ \A j \in DOMAIN Optimizer!RemoveAt(s, k) : /\ Before(j, k) \in DOMAIN s
                                                      /\ Optimizer!RemoveAt(s, k)[j] =
                                                           s[Before(j, k)]
    BY Removed, OptimizerSequences
  <2>3. ASSUME NEW j \in DOMAIN Optimizer!RemoveAt(s, k), Optimizer!RemoveAt(s, k)[j].onScreen
        PROVE  j = Len(Optimizer!RemoveAt(s, k))
    <3>1. Before(j, k) = Len(s) /\ j \in 1 .. Len(s) - 1 /\ Len(s) \in Nat /\ k \in 1 .. Len(s)
      BY <2>2, <2>3 DEF Optimizer!OneOnScreen
    <3> QED
      BY <2>2, <3>1 DEF Before
  <2> QED
    BY <2>1, <2>3 DEF Optimizer!OneOnScreen
<1> QED
  BY <1>1, <1>2

LEMMA ActsOnScreen == \A i : i.onScreen => Optimizer!MayAct(i)
BY DEF Optimizer!MayAct

LEMMA EffectTypes ==
    ASSUME NEW p, Optimizer!Closure(p) \in Optimizer!Begun, NEW i \in Optimizer!Followers
    PROVE  /\ Optimizer!Effect(i, p) \in Optimizer!Followers
           /\ Optimizer!Effect(i, p).onScreen = i.onScreen
           /\ Optimizer!Effect(i, p).terminal = i.terminal /\ Optimizer!Effect(i, p).error = i.error
           /\ Optimizer!NewProgress(p) \in Optimizer!Followers /\ Optimizer!NewProgress(p).onScreen
           /\ Optimizer!NewProgress(p).poll = Optimizer!Closure(p)
           /\ Optimizer!NewProgress(p).timer = None
           /\ Optimizer!Effect(i, p).timer = None
           /\ \/ Optimizer!Effect(i, p).poll = i.poll /\ (i.poll # None \/ i.terminal)
              \/ Optimizer!Effect(i, p).poll = Optimizer!Closure(p)
<1>1. i \in Optimizer!Progress /\ Optimizer!Begun \subseteq Optimizer!Closures /\
        None \in Optimizer!OrNone(Optimizer!Begun)
  BY DEF Optimizer!Followers, Optimizer!Begun, Optimizer!OrNone
<1>2. Optimizer!NewProgress(p) \in Optimizer!Progress
  BY <1>1 DEF Optimizer!NewProgress, Optimizer!Progress, Optimizer!OrNone, Optimizer!Answers
<1>3. Optimizer!NewProgress(p) \in Optimizer!Followers
  BY <1>2 DEF Optimizer!Followers, Optimizer!NewProgress, Optimizer!OrNone
<1> DEFINE j == [i EXCEPT !.timer = None]
<1>4. j \in Optimizer!Followers /\ j.timer = None /\ j.poll = i.poll /\ j.terminal = i.terminal
      /\ j.onScreen = i.onScreen /\ j.error = i.error
  <2>1. j \in Optimizer!Progress /\ j.timer = None /\ j.poll = i.poll /\ j.terminal = i.terminal
        /\ j.onScreen = i.onScreen /\ j.error = i.error /\ j.answer = i.answer
    BY <1>1 DEF Optimizer!Progress, Optimizer!OrNone
  <2> HIDE DEF j
  <2> QED
    BY <2>1, <1>1 DEF Optimizer!Followers
<1>5. Optimizer!Effect(i, p) = Optimizer!Asking(j, Optimizer!Closure(p))
  BY DEF Optimizer!Effect
<1> HIDE DEF j
<1>6. CASE j.poll # None \/ j.terminal
  BY <1>3, <1>4, <1>5, <1>6 DEF Optimizer!Asking, Optimizer!NewProgress
<1>7. CASE ~(j.poll # None \/ j.terminal)
  <2>1. Optimizer!Effect(i, p) = [j EXCEPT !.poll = Optimizer!Closure(p), !.answer = "pending"] /\
          j \in Optimizer!Progress
    BY <1>4, <1>5, <1>7 DEF Optimizer!Asking, Optimizer!Followers
  <2>2. Optimizer!Effect(i, p) \in Optimizer!Progress /\
          Optimizer!Effect(i, p).poll = Optimizer!Closure(p) /\ Optimizer!Effect(i, p).timer = None
        /\ Optimizer!Effect(i, p).answer = "pending" /\ Optimizer!Effect(i, p).onScreen = j.onScreen
        /\ Optimizer!Effect(i, p).terminal = j.terminal /\ Optimizer!Effect(i, p).error = j.error
    BY <1>1, <1>4, <2>1 DEF Optimizer!Progress, Optimizer!OrNone, Optimizer!Answers
  <2> QED
    BY <1>1, <1>3, <1>4, <2>2 DEF Optimizer!Followers, Optimizer!OrNone, Optimizer!NewProgress
<1> QED
  BY <1>6, <1>7

LEMMA UnmountTypes ==
    ASSUME NEW i \in Optimizer!Followers
    PROVE  Optimizer!Unmount(i) \in Optimizer!Followers /\ ~Optimizer!Unmount(i).onScreen
<1>1. i \in Optimizer!Progress
  BY DEF Optimizer!Followers
<1>2. Optimizer!Unmount(i) \in Optimizer!Progress /\ Optimizer!Unmount(i).poll = i.poll /\
        Optimizer!Unmount(i).timer = None
      /\ Optimizer!Unmount(i).answer = i.answer /\ ~Optimizer!Unmount(i).onScreen
  BY <1>1 DEF Optimizer!Unmount, Optimizer!Progress, Optimizer!OrNone
<1> QED
  BY <1>2 DEF Optimizer!Followers, Optimizer!OrNone

LEMMA RenderedTypes ==
    ASSUME NEW p, NEW s \in Seq(Optimizer!Followers), Optimizer!OneOnScreen(s),
           Optimizer!Shown(p) => Optimizer!Closure(p) \in Optimizer!Begun
    PROVE  /\ Optimizer!Rendered(s, p) \in Seq(Optimizer!Followers)
           /\ Optimizer!OneOnScreen(Optimizer!Rendered(s, p))
           /\ Optimizer!OnScreen(Optimizer!Rendered(s, p)) <=> Optimizer!Shown(p)
           /\ Optimizer!Shown(p) => /\ Optimizer!OnScreen(s) =>
                                         Optimizer!Last(Optimizer!Rendered(s, p)) =
                                           Optimizer!Effect(Optimizer!Last(s), p)
                                    /\ ~Optimizer!OnScreen(s) =>
                                         Optimizer!Last(Optimizer!Rendered(s, p)) =
                                           Optimizer!NewProgress(p)
<1>1. CASE Optimizer!Shown(p) /\ Optimizer!OnScreen(s)
  <2>1. s # <<>> /\ Optimizer!Last(s) = s[Len(s)] /\ Len(s) \in DOMAIN s /\
          Optimizer!Last(s).onScreen
        /\ Optimizer!Last(s) \in Optimizer!Followers
    BY <1>1 DEF Optimizer!OnScreen, Optimizer!Last
  <2>2. Optimizer!Effect(Optimizer!Last(s), p) \in Optimizer!Followers /\
          Optimizer!Effect(Optimizer!Last(s), p).onScreen
    BY <1>1, <2>1, EffectTypes
  <2>3. Optimizer!Rendered(s, p) = [s EXCEPT ![Len(s)] = Optimizer!Effect(Optimizer!Last(s), p)]
    BY <1>1, <2>1 DEF Optimizer!Rendered
  <2>4. /\ Optimizer!Rendered(s, p) \in Seq(Optimizer!Followers) /\ Optimizer!Rendered(s, p) # <<>>
        /\ Len(Optimizer!Rendered(s, p)) = Len(s)
        /\ Optimizer!Rendered(s, p)[Len(s)] = Optimizer!Effect(Optimizer!Last(s), p)
        /\ DOMAIN Optimizer!Rendered(s, p) = DOMAIN s
        /\ \A k \in DOMAIN s : k # Len(s) => Optimizer!Rendered(s, p)[k] = s[k]
    BY <2>1, <2>2, <2>3
  <2> QED
    BY <1>1, <2>2, <2>4 DEF Optimizer!OnScreen, Optimizer!OneOnScreen, Optimizer!Last
<1>2. CASE Optimizer!Shown(p) /\ ~Optimizer!OnScreen(s)
  <2>1. Optimizer!NewProgress(p) \in Optimizer!Followers /\ Optimizer!NewProgress(p).onScreen
    <3>1. Optimizer!Closure(p) \in Optimizer!Closures
      BY <1>2 DEF Optimizer!Begun
    <3>2. Optimizer!NewProgress(p) \in Optimizer!Progress /\
            Optimizer!NewProgress(p).poll = Optimizer!Closure(p)
          /\ Optimizer!NewProgress(p).timer = None /\ Optimizer!NewProgress(p).answer = "pending"
          /\ Optimizer!NewProgress(p).onScreen
      BY <3>1 DEF Optimizer!NewProgress, Optimizer!Progress, Optimizer!OrNone, Optimizer!Answers
    <3> QED
      BY <1>2, <3>2 DEF Optimizer!Followers, Optimizer!OrNone
  <2>2. Optimizer!Rendered(s, p) = Append(s, Optimizer!NewProgress(p))
    BY <1>2 DEF Optimizer!Rendered
  <2>3. /\ Optimizer!Rendered(s, p) \in Seq(Optimizer!Followers) /\ Optimizer!Rendered(s, p) # <<>>
        /\ Optimizer!Last(Optimizer!Rendered(s, p)) = Optimizer!NewProgress(p)
    BY <2>1, <2>2, AppendedLast, OptimizerSequences
  <2>4. /\ Len(Optimizer!Rendered(s, p)) = Len(s) + 1 /\ DOMAIN s = 1 .. Len(s) /\ Len(s) \in Nat
        /\ \A k \in DOMAIN s : Optimizer!Rendered(s, p)[k] = s[k]
    BY <2>1, <2>2
  <2>5. \A k \in DOMAIN s : ~s[k].onScreen
    BY <1>2 DEF Optimizer!OneOnScreen, Optimizer!OnScreen, Optimizer!Last
  <2>6. Optimizer!OneOnScreen(Optimizer!Rendered(s, p))
    BY <2>3, <2>4, <2>5 DEF Optimizer!OneOnScreen
  <2> QED
    BY <1>2, <2>1, <2>3, <2>6 DEF Optimizer!OnScreen
<1>3. CASE ~Optimizer!Shown(p) /\ Optimizer!OnScreen(s)
  <2>1. s # <<>> /\ Optimizer!Last(s) = s[Len(s)] /\ Len(s) \in DOMAIN s /\
          Optimizer!Last(s) \in Optimizer!Followers
    BY <1>3 DEF Optimizer!OnScreen, Optimizer!Last
  <2> DEFINE u == Optimizer!Unmount(Optimizer!Last(s))
  <2>2. u \in Optimizer!Followers /\ ~u.onScreen
    BY <2>1, UnmountTypes
  <2> HIDE DEF u
  <2>3. Optimizer!Rendered(s, p) = Optimizer!Put(s, Len(s), u)
    BY <1>3 DEF Optimizer!Rendered, u
  <2>4. Optimizer!Put(s, Len(s), u) \in Seq(Optimizer!Followers) /\
          Optimizer!OneOnScreen(Optimizer!Put(s, Len(s), u))
    BY <2>1, <2>2, PutTypes, PutOnScreen
  <2>5. ~Optimizer!OnScreen(Optimizer!Put(s, Len(s), u))
    <3>1. CASE Optimizer!MayAct(u)
      BY <2>1, <2>2, <3>1, PutLast DEF Optimizer!OnScreen
    <3>2. CASE ~Optimizer!MayAct(u)
      <4>1. /\ Optimizer!Put(s, Len(s), u) = Optimizer!RemoveAt(s, Len(s))
            /\ Optimizer!RemoveAt(s, Len(s)) \in Seq(Optimizer!Followers)
            /\ Len(Optimizer!RemoveAt(s, Len(s))) = Len(s) - 1
            /\ \A j \in DOMAIN Optimizer!RemoveAt(s, Len(s)) :
                  /\ Before(j, Len(s)) \in DOMAIN s
                  /\ Optimizer!RemoveAt(s, Len(s))[j] = s[Before(j, Len(s))]
        BY <2>1, <3>2, Removed, OptimizerSequences DEF Optimizer!Put
      <4> DEFINE t == Optimizer!RemoveAt(s, Len(s))
      <4> HIDE DEF t
      <4>2. ASSUME t # <<>> PROVE ~Optimizer!Last(t).onScreen
        <5>1. t \in Seq(Optimizer!Followers) /\ Len(t) \in DOMAIN t /\ Optimizer!Last(t) = t[Len(t)]
              /\ Len(t) = Len(s) - 1 /\ Len(s) \in Nat
          BY <2>1, <4>1, <4>2 DEF Optimizer!Last, t
        <5>2. Optimizer!Last(t) = s[Before(Len(t), Len(s))] /\ Before(Len(t), Len(s)) = Len(s) - 1
          BY <4>1, <5>1 DEF t, Before
        <5>3. Len(s) - 1 \in DOMAIN s /\ Len(s) - 1 # Len(s)
          BY <4>1, <5>1, <5>2 DEF t
        <5> QED
          BY <5>2, <5>3 DEF Optimizer!OneOnScreen
      <4> QED
        BY <4>1, <4>2 DEF t, Optimizer!OnScreen
    <3> QED
      BY <3>1, <3>2
  <2> QED
    BY <1>3, <2>3, <2>4, <2>5
<1>4. CASE ~Optimizer!Shown(p) /\ ~Optimizer!OnScreen(s)
  BY <1>4 DEF Optimizer!Rendered
<1> QED
  BY <1>1, <1>2, <1>3, <1>4

(***************************************************************************)
(* The components after one of them changed.                               *)
(***************************************************************************)
Sound(u) ==
    /\ u \in Seq(Optimizer!Followers) /\ Optimizer!OneOnScreen(u)
    /\ Optimizer!OnScreen(u) <=> Optimizer!Shown(page)
    /\ doubled \/ (Optimizer!OnScreen(u) => Optimizer!Follows(Optimizer!Last(u), page.taskId))

LEMMA SoundBefore == ASSUME Optimizer!ProgressInv PROVE Sound(progress)
BY DEF Optimizer!ProgressInv, Optimizer!PollsAreLabelled, Optimizer!ScreenShowsPage,
   Optimizer!ScreenFollows, Sound

LEMMA SoundUpdate ==
    ASSUME Optimizer!ProgressInv, NEW k \in DOMAIN progress, NEW j \in Optimizer!Followers,
           j.onScreen = progress[k].onScreen,
           \A t : Optimizer!Follows(progress[k], t) => Optimizer!Follows(j, t)
    PROVE  Sound(Optimizer!Update(k, j)) /\ Sound([progress EXCEPT ![k] = j])
<1>0. /\ progress \in Seq(Optimizer!Followers) /\ Optimizer!OneOnScreen(progress)
      /\ Optimizer!OnScreen(progress) <=> Optimizer!Shown(page)
      /\ doubled \/ (Optimizer!OnScreen(progress) =>
           Optimizer!Follows(Optimizer!Last(progress), page.taskId))
  BY SoundBefore DEF Sound
<1>1. progress # <<>> /\ Optimizer!Last(progress) = progress[Len(progress)] /\
        Len(progress) \in DOMAIN progress
      /\ Len(progress) \in Nat /\ k \in 1 .. Len(progress)
  BY <1>0 DEF Optimizer!Last
<1>2. Sound([progress EXCEPT ![k] = j])
  <2> DEFINE u == [progress EXCEPT ![k] = j]
  <2>1. u \in Seq(Optimizer!Followers) /\ Len(u) = Len(progress) /\ u # <<>> /\
          DOMAIN u = DOMAIN progress
        /\ u[k] = j /\ \A o \in DOMAIN progress : o # k => u[o] = progress[o]
    BY <1>0
  <2> HIDE DEF u
  <2>2. Optimizer!OneOnScreen(u)
    BY <1>0, <2>1 DEF Optimizer!OneOnScreen
  <2>3. Optimizer!Last(u) = u[Len(progress)]
    BY <2>1 DEF Optimizer!Last
  <2>4. Optimizer!Last(u).onScreen = Optimizer!Last(progress).onScreen
        /\ (Optimizer!Follows(Optimizer!Last(progress), page.taskId) =>
             Optimizer!Follows(Optimizer!Last(u), page.taskId))
    <3>1. CASE k = Len(progress)
      BY <1>1, <2>1, <2>3, <3>1
    <3>2. CASE k # Len(progress)
      BY <1>1, <2>1, <2>3, <3>2
    <3> QED
      BY <3>1, <3>2
  <2>5. Sound(u)
    BY <1>0, <1>1, <2>1, <2>2, <2>4 DEF Sound, Optimizer!OnScreen
  <2> QED
    BY <2>5 DEF u
<1>3. CASE Optimizer!MayAct(j)
  BY <1>2, <1>3 DEF Optimizer!Update, Optimizer!Put
<1>4. CASE ~Optimizer!MayAct(j)
  <2> DEFINE u == Optimizer!RemoveAt(progress, k)
  <2>0. /\ u \in Seq(Optimizer!Followers) /\ Len(u) = Len(progress) - 1
        /\ \A o \in DOMAIN u : /\ Before(o, k) \in DOMAIN progress
                               /\ u[o] = progress[Before(o, k)]
    BY <1>0, Removed, OptimizerSequences
  <2>1. Optimizer!Update(k, j) = u
    BY <1>4 DEF Optimizer!Update, Optimizer!Put
  <2>2. k # Len(progress) => u # <<>> /\ Optimizer!Last(u) = Optimizer!Last(progress)
    BY <1>0, RemovedLast, OptimizerSequences
  <2> HIDE DEF u
  <2>3. ~progress[k].onScreen
    BY <1>4, ActsOnScreen
  <2>4. Optimizer!OneOnScreen(u)
    BY <1>0, <2>1, PutOnScreen DEF Optimizer!Update
  <2>5. CASE k # Len(progress)
    BY <1>0, <1>1, <1>2, <2>0, <2>1, <2>2, <2>4, <2>5 DEF Sound, Optimizer!OnScreen
  <2>6. CASE k = Len(progress)
    <3>1. ~Optimizer!OnScreen(progress)
      BY <1>1, <2>3, <2>6 DEF Optimizer!OnScreen
    <3>2. ASSUME u # <<>> PROVE ~Optimizer!Last(u).onScreen
      <4>1. Len(u) \in DOMAIN u /\ Optimizer!Last(u) = u[Len(u)] /\
              Before(Len(u), k) = Len(progress) - 1
        BY <1>1, <2>0, <2>6, <3>2 DEF Optimizer!Last, Before
      <4>2. Len(progress) - 1 \in DOMAIN progress /\ Optimizer!Last(u) = progress[Len(progress) - 1]
        BY <2>0, <4>1
      <4> QED
        BY <1>0, <1>1, <4>2 DEF Optimizer!OneOnScreen
    <3> QED
      BY <1>0, <1>2, <2>0, <2>1, <2>4, <3>1, <3>2 DEF Sound, Optimizer!OnScreen
  <2> QED
    BY <2>5, <2>6
<1> QED
  BY <1>2, <1>3, <1>4

(* What has begun stays so, whatever else the server does.                 *)
LEMMA StillBegun ==
    ASSUME \A r \in Runs : server[r] # "unborn" => server'[r] # "unborn"
    PROVE  Optimizer!Begun \subseteq Optimizer!Begun' /\
             Optimizer!Followers \subseteq Optimizer!Followers' /\
               Seq(Optimizer!Followers) \subseteq Seq(Optimizer!Followers')
<1>1. Optimizer!Begun \subseteq Optimizer!Begun'
  BY DEF Optimizer!Begun, Optimizer!Closures
<1>2. Optimizer!Followers \subseteq Optimizer!Followers'
  BY <1>1 DEF Optimizer!Followers, Optimizer!OrNone
<1> QED
  BY <1>1, <1>2

(* The screen once the page has rendered.                                  *)
LEMMA ScreenRendered ==
    ASSUME NEW u, Sound(u), page' \in Optimizer!Page, progress' = Optimizer!Rendered(u, page'),
           Optimizer!Shown(page') => Optimizer!Closure(page') \in Optimizer!Begun,
           doubled => doubled', doubled' \in BOOLEAN,
           Optimizer!Shown(page') /\ Optimizer!OnScreen(u) => doubled' \/
             page'.taskId = page.taskId,
           \A r \in Runs : server[r] # "unborn" => server'[r] # "unborn"
    PROVE  progress' \in Seq(Optimizer!Followers') /\ Optimizer!ScreenShowsPage' /\
             Optimizer!ScreenFollows'
<1>1. /\ progress' \in Seq(Optimizer!Followers) /\ Optimizer!OneOnScreen(progress')
      /\ Optimizer!OnScreen(progress') <=> Optimizer!Shown(page')
      /\ Optimizer!Shown(page') => /\ Optimizer!OnScreen(u) =>
                                        Optimizer!Last(progress') =
                                          Optimizer!Effect(Optimizer!Last(u), page')
                                   /\ ~Optimizer!OnScreen(u) =>
                                        Optimizer!Last(progress') = Optimizer!NewProgress(page')
  BY RenderedTypes DEF Sound
<1>2. ASSUME ~doubled', Optimizer!Shown(page')
      PROVE Optimizer!Follows(Optimizer!Last(progress'), page'.taskId)
  <2>1. Optimizer!Closure(page') \in Optimizer!Begun /\
          Optimizer!Closure(page').task = page'.taskId /\ Optimizer!Closure(page') # None
    BY <1>2, ClosuresAssumption DEF Optimizer!Closure, Optimizer!Begun
  <2>2. CASE Optimizer!OnScreen(u)
    <3>1. Optimizer!Last(u) \in Optimizer!Followers
      BY <2>2 DEF Sound, Optimizer!OnScreen, Optimizer!Last
    <3>2. Optimizer!Follows(Optimizer!Last(u), page'.taskId)
      BY <1>2, <2>2 DEF Sound
    <3> QED
      BY <1>1, <1>2, <2>1, <2>2, <3>1, <3>2, EffectTypes DEF Optimizer!Follows
  <2>3. CASE ~Optimizer!OnScreen(u)
    <3>1. Optimizer!Last(progress') = Optimizer!NewProgress(page')
      BY <1>1, <1>2, <2>3
    <3> QED
      BY <2>1, <3>1 DEF Optimizer!NewProgress, Optimizer!Follows
  <2> QED
    BY <2>2, <2>3
<1> QED
  BY <1>1, <1>2, StillBegun DEF Optimizer!ScreenShowsPage, Optimizer!ScreenFollows,
     Optimizer!OneOnScreen, Optimizer!OnScreen, Optimizer!Shown

(* The screen when the page has not changed.                               *)
LEMMA ScreenKept ==
    ASSUME NEW u, Sound(u), progress' = u, UNCHANGED <<page, doubled>>,
           \A r \in Runs : server[r] # "unborn" => server'[r] # "unborn"
    PROVE  progress' \in Seq(Optimizer!Followers') /\ Optimizer!ScreenShowsPage' /\
             Optimizer!ScreenFollows'
<1>1. Seq(Optimizer!Followers) \subseteq Seq(Optimizer!Followers')
  BY StillBegun
<1> QED
  BY <1>1 DEF Sound, Optimizer!ScreenShowsPage, Optimizer!ScreenFollows, Optimizer!OneOnScreen,
     Optimizer!OnScreen, Optimizer!Shown, Optimizer!Follows

LEMMA OpInit == Optimizer!Init => Optimizer!ProgressInv /\ Optimizer!DeletionInv
<1> SUFFICES ASSUME Optimizer!Init PROVE Optimizer!ProgressInv /\ Optimizer!DeletionInv
  OBVIOUS
<1>1. page \in Optimizer!Page /\ page.view = "history" /\ page.taskId = None /\
        page.selectedDetail = None
  BY DEF Optimizer!Init, Optimizer!Mounted, Optimizer!Page, Optimizer!OrNone
<1>2. Optimizer!Sent \in Optimizer!Load /\ loads = <<Optimizer!Sent>> /\ progress = <<>>
  BY DEF Optimizer!Sent, Optimizer!Load, Optimizer!Init, Optimizer!HistoryInit
<1>3. Optimizer!ListTypes
  <2>1. loads \in Seq(Optimizer!Load)
    BY <1>2
  <2>2. deletion \in Optimizer!Deletion /\ details \subseteq Optimizer!Detail /\
          overtaken \in BOOLEAN
    BY DEF Optimizer!Init, Optimizer!HistoryInit, Optimizer!NoDeletion, Optimizer!Deletion,
       Optimizer!OrNone
  <2>3. server \in [Runs -> Optimizer!States]
    BY DEF Optimizer!Init, Optimizer!HistoryInit, Optimizer!States
  <2>4. failures \in 0 .. MaxFailures
    BY OptimizerBounds DEF Optimizer!Init, Optimizer!HistoryInit
  <2> QED
    BY <2>1, <2>2, <2>3, <2>4 DEF Optimizer!ListTypes
<1>4. clicks \in 0 .. OptimizerClicks
  BY OptimizerBounds DEF Optimizer!Init, Optimizer!HistoryInit
<1>t. progress \in Seq(Optimizer!Progress) /\ doubled \in BOOLEAN /\
        results \subseteq Optimizer!Results
      /\ posts \in [Runs -> {"none", "pending", "queued", "failed", "ended"}]
  <2>1. progress \in Seq(Optimizer!Progress)
    BY <1>2
  <2>2. doubled \in BOOLEAN /\ results \subseteq Optimizer!Results
    BY DEF Optimizer!Init
  <2>3. posts \in [Runs -> {"none", "pending", "queued", "failed", "ended"}]
    BY DEF Optimizer!Init
  <2> QED
    BY <2>1, <2>2, <2>3
<1>5. Optimizer!TypeOK
  BY <1>1, <1>3, <1>4, <1>t DEF Optimizer!TypeOK
<1>6. Optimizer!PollsAreLabelled
  BY <1>1, <1>2 DEF Optimizer!PollsAreLabelled, Optimizer!Init
<1>7. Optimizer!ScreenShowsPage /\ Optimizer!ScreenFollows
  BY <1>1, <1>2 DEF Optimizer!ScreenShowsPage, Optimizer!ScreenFollows, Optimizer!OneOnScreen,
     Optimizer!OnScreen, Optimizer!Shown
<1>8. Optimizer!OneIsAsked /\ Optimizer!DetailIsLabelledRight
  BY <1>1
  DEF Optimizer!OneIsAsked, Optimizer!DetailIsLabelledRight, Optimizer!Active, Optimizer!Init
<1>9. Optimizer!DeletionInv
  BY <1>2 DEF Optimizer!Init, Optimizer!HistoryInit, Optimizer!DeletionInv, Optimizer!DeletionWaits,
     Optimizer!DoneIsOfARun, Optimizer!NoDeletion, Optimizer!LastLoadIsFresh, Optimizer!Last,
     Optimizer!Sent
<1> QED
  BY <1>5, <1>6, <1>7, <1>8, <1>9 DEF Optimizer!ProgressInv

(* The fields that the list changes.                                       *)
LEMMA OpListPage ==
    ASSUME page \in Optimizer!Page, Optimizer!ListTypes, Optimizer!HistoryNext
    PROVE  /\ page' \in Optimizer!Page /\ page'.taskId = page.taskId
           /\ page'.view = "progress" => /\ page.view = "progress"
                                         /\ page'.pendingRequest = page.pendingRequest
           /\ \/ page'.selectedDetail \in {page.selectedDetail, None}
              \/ page'.selectedDetail.id = page'.selectedDetail.request
           /\ clicks \in 0 .. OptimizerClicks => clicks' \in 0 .. OptimizerClicks
<1>0. /\ loads \in Seq(Optimizer!Load) /\ details \subseteq Optimizer!Detail
      /\ deletion \in Optimizer!Deletion
  BY DEF Optimizer!ListTypes
<1> DEFINE Kept1 == /\ page' \in Optimizer!Page /\ page'.taskId = page.taskId
                    /\ page'.view = "progress" => /\ page.view = "progress"
                                                  /\ page'.pendingRequest = page.pendingRequest
                    /\ \/ page'.selectedDetail \in {page.selectedDetail, None}
                       \/ page'.selectedDetail.id = page'.selectedDetail.request
<1>1. ASSUME Optimizer!CancelDelete PROVE Kept1
  BY <1>1 DEF Optimizer!CancelDelete, Optimizer!Page, Optimizer!OrNone
<1>2. ASSUME Optimizer!ConfirmDelete PROVE Kept1
  BY <1>2 DEF Optimizer!ConfirmDelete, Optimizer!Page
<1>3. ASSUME Optimizer!DeleteRun PROVE Kept1
  BY <1>3 DEF Optimizer!DeleteRun
<1>4. ASSUME Optimizer!Deleted PROVE Kept1
  <2>1. CASE deletion.answer = "done"
    BY <1>4, <2>1 DEF Optimizer!Deleted, Optimizer!Page, Optimizer!OrNone
  <2>2. CASE deletion.answer # "done"
    BY <1>4, <2>2 DEF Optimizer!Deleted, Optimizer!Page, Optimizer!OrNone
  <2> QED
    BY <2>1, <2>2
<1>5. ASSUME NEW r \in Runs, Optimizer!HandleView(r) \/ Optimizer!HandleRerun(r) \/
               Optimizer!AskDelete(r) PROVE Kept1
  BY <1>5 DEF Optimizer!HandleView, Optimizer!HandleRerun, Optimizer!AskDelete, Optimizer!Page,
     Optimizer!OrNone
<1>6. ASSUME NEW i \in DOMAIN loads, Optimizer!ListRuns(i) PROVE Kept1
  BY <1>6 DEF Optimizer!ListRuns
<1>7. ASSUME NEW i \in DOMAIN loads, Optimizer!HistoryArrives(i) \/ Optimizer!HistoryFails(i)
      PROVE Kept1
  <2>0. loads[i] \in Optimizer!Load
    BY <1>0
  <2>1. loads[i].rows \in SUBSET Runs
    BY <2>0 DEF Optimizer!Load
  <2>2. CASE Optimizer!HistoryArrives(i)
    <3>1. page' = [page EXCEPT !.runs = loads[i].rows, !.historyError = FALSE,
                               !.historyLoading = FALSE]
      BY <2>2 DEF Optimizer!HistoryArrives
    <3> QED
      BY <2>1, <3>1 DEF Optimizer!Page
  <2>3. CASE Optimizer!HistoryFails(i)
    BY <2>3 DEF Optimizer!HistoryFails, Optimizer!Page
  <2> QED
    BY <1>7, <2>2, <2>3
<1>8. ASSUME NEW d \in details, Optimizer!DetailArrives(d) \/ Optimizer!DetailFails(d) PROVE Kept1
  <2>1. d.run \in Runs
    BY <1>0 DEF Optimizer!Detail
  <2>2. CASE Optimizer!DetailFails(d)
    BY <2>2 DEF Optimizer!DetailFails, Optimizer!Page
  <2>3. CASE Optimizer!DetailArrives(d) /\ d.goal = "view"
    <3> DEFINE shown == [id |-> d.run, request |-> d.run]
    <3>1. shown \in Optimizer!OrNone(Optimizer!RunDetail) /\ shown.id = shown.request
      BY <2>1 DEF Optimizer!OrNone, Optimizer!RunDetail
    <3>2. page' = [page EXCEPT !.selectedDetail = shown, !.view = "detail"]
      BY <2>3 DEF Optimizer!DetailArrives
    <3> HIDE DEF shown
    <3> QED
      BY <3>1, <3>2 DEF Optimizer!Page
  <2>4. CASE Optimizer!DetailArrives(d) /\ d.goal # "view"
    BY <2>1, <2>4 DEF Optimizer!DetailArrives, Optimizer!Page, Optimizer!OrNone
  <2> QED
    BY <1>8, <2>2, <2>3, <2>4
<1>9. Kept1
  BY <1>1, <1>2, <1>3, <1>4, <1>5, <1>6, <1>7, <1>8 DEF Optimizer!HistoryNext
<1>10. Optimizer!Clicks \/ Optimizer!Succeeds \/ Optimizer!Fails
  BY DEF Optimizer!HistoryNext, Optimizer!CancelDelete, Optimizer!ConfirmDelete,
     Optimizer!DeleteRun, Optimizer!Deleted, Optimizer!HandleView, Optimizer!HandleRerun,
     Optimizer!AskDelete, Optimizer!ListRuns, Optimizer!HistoryArrives, Optimizer!HistoryFails,
     Optimizer!DetailArrives, Optimizer!DetailFails, Optimizer!Succeeds
<1>11. clicks \in 0 .. OptimizerClicks => clicks' \in 0 .. OptimizerClicks
  BY <1>10, OptimizerBounds
  DEF Optimizer!Clicks, Optimizer!Succeeds, Optimizer!Fails, Optimizer!bounds
<1> QED
  BY <1>9, <1>11

PostTypes == [Runs -> {"none", "pending", "queued", "failed", "ended"}]

LEMMA OpTypesFrom ==
    ASSUME Optimizer!TypeOK, Optimizer!Clicks \/ Optimizer!Fails \/ Optimizer!Succeeds,
           UNCHANGED <<details, deletion, overtaken>>,
           loads' \in {loads, Append(loads, Optimizer!Sent)},
           page' \in Optimizer!Page, progress' \in Seq(Optimizer!Followers'), posts' \in PostTypes,
           results' \subseteq Optimizer!Results, server' \in [Runs -> Optimizer!States],
           doubled' \in BOOLEAN
    PROVE  Optimizer!TypeOK'
<1>1. Optimizer!Sent \in Optimizer!Load
  BY DEF Optimizer!Sent, Optimizer!Load
<1>2. loads' \in Seq(Optimizer!Load)
  <2>1. loads \in Seq(Optimizer!Load)
    BY DEF Optimizer!TypeOK, Optimizer!ListTypes
  <2>2. Append(loads, Optimizer!Sent) \in Seq(Optimizer!Load)
    BY <1>1, <2>1, AppendedLast, OptimizerSequences
  <2> QED
    BY <2>1, <2>2
<1>3. clicks' \in 0 .. OptimizerClicks /\ failures' \in 0 .. MaxFailures
  <2>1. clicks \in 0 .. OptimizerClicks /\ failures \in 0 .. MaxFailures
    BY DEF Optimizer!TypeOK, Optimizer!ListTypes
  <2>2. OptimizerClicks \in Nat /\ MaxFailures \in Nat
    BY OptimizerBounds
  <2>3. CASE Optimizer!Clicks
    BY <2>1, <2>2, <2>3 DEF Optimizer!Clicks
  <2>4. CASE Optimizer!Fails
    BY <2>1, <2>2, <2>4 DEF Optimizer!Fails
  <2>5. CASE Optimizer!Succeeds
    BY <2>1, <2>5 DEF Optimizer!Succeeds, Optimizer!bounds
  <2> QED
    BY <2>3, <2>4, <2>5
<1>4. Optimizer!Followers' \subseteq Optimizer!Progress
  BY DEF Optimizer!Followers
<1>5. progress' \in Seq(Optimizer!Progress)
  <2>1. Seq(Optimizer!Followers') \subseteq Seq(Optimizer!Progress)
    BY <1>4
  <2> QED
    BY <2>1
<1> QED
  BY <1>2, <1>3, <1>5 DEF Optimizer!TypeOK, Optimizer!ListTypes, PostTypes

LEMMA StatusTypes ==
    ASSUME server \in [Runs -> Optimizer!States], NEW r \in Runs, server[r] # "unborn"
    PROVE  Optimizer!StatusOf(r) \in Optimizer!Answers
BY DEF Optimizer!StatusOf, Optimizer!Answers, Optimizer!States

(* What a step must show of the variables other than the components.       *)
Quiet ==
    /\ Optimizer!Clicks \/ Optimizer!Fails \/ Optimizer!Succeeds
    /\ UNCHANGED <<details, deletion, overtaken>>
    /\ loads' \in {loads, Append(loads, Optimizer!Sent)}

(* The page goes to no task and shows no other label.                      *)
PageKeepsTask ==
    /\ page' \in Optimizer!Page
    /\ page'.taskId = page.taskId
    /\ page'.view = "progress" => /\ page.view = "progress"
                                  /\ page'.pendingRequest = page.pendingRequest
    /\ \/ page'.selectedDetail \in {page.selectedDetail, None}
       \/ page'.selectedDetail.id = page'.selectedDetail.request

ServerGoesOn ==
    /\ server' \in [Runs -> Optimizer!States]
    /\ \A r \in Runs : server[r] # "unborn" => server'[r] # "unborn"

LEMMA ShownIsBegun ==
    ASSUME Optimizer!ProgressInv, PageKeepsTask, Optimizer!Shown(page')
    PROVE  Optimizer!Closure(page') \in Optimizer!Begun
<1>1. /\ page'.taskId # None /\ page'.taskId = page.taskId /\ page'.pendingRequest = page.taskId
      /\ page'.taskId \in Runs
  BY DEF Optimizer!ProgressInv, Optimizer!PollsAreLabelled, PageKeepsTask, Optimizer!Shown,
     Optimizer!Page, Optimizer!OrNone
<1>2. server[page'.taskId] # "unborn"
  BY <1>1 DEF Optimizer!ProgressInv, Optimizer!PollsAreLabelled
<1>3. Optimizer!Closure(page') = [task |-> page'.taskId, request |-> page'.taskId]
  BY <1>1 DEF Optimizer!Closure
<1> QED
  BY <1>1, <1>2, <1>3 DEF Optimizer!Begun, Optimizer!Closures, Optimizer!OrNone

(* A step that asks for no task.                                           *)
LEMMA StepFrom ==
    ASSUME Optimizer!ProgressInv, Optimizer!ListTypes', clicks' \in 0 .. OptimizerClicks,
           PageKeepsTask, ServerGoesOn,
           results' \subseteq Optimizer!Results, \A q \in results' : q.closure \in Optimizer!Begun,
           UNCHANGED <<posts, doubled>>,
           progress' \in Seq(Optimizer!Followers'), Optimizer!ScreenShowsPage',
           Optimizer!ScreenFollows'
    PROVE  Optimizer!ProgressInv'
<1>0. Optimizer!TypeOK /\ Optimizer!PollsAreLabelled /\ Optimizer!OneIsAsked /\
        Optimizer!DetailIsLabelledRight
  BY DEF Optimizer!ProgressInv
<1>1. Optimizer!Followers' \subseteq Optimizer!Progress
  BY DEF Optimizer!Followers
<1>2. progress' \in Seq(Optimizer!Progress)
  <2>1. Seq(Optimizer!Followers') \subseteq Seq(Optimizer!Progress)
    BY <1>1
  <2> QED
    BY <2>1
<1>3. Optimizer!TypeOK'
  BY <1>0, <1>2 DEF Optimizer!TypeOK, PageKeepsTask
<1>4. Optimizer!Begun \subseteq Optimizer!Begun'
  BY StillBegun DEF ServerGoesOn
<1>5. page.taskId \in Optimizer!OrNone(Runs) /\ page'.taskId = page.taskId
  BY <1>0 DEF Optimizer!TypeOK, Optimizer!Page, PageKeepsTask
<1>6. Optimizer!PollsAreLabelled'
  <2>1. \A q \in results' : q.closure \in Optimizer!Begun'
    BY <1>4
  <2>2. \A r \in Runs : posts'[r] = "queued" => server'[r] # "unborn"
    BY <1>0 DEF Optimizer!PollsAreLabelled, ServerGoesOn
  <2>3. page'.taskId # None => server'[page'.taskId] # "unborn"
    BY <1>0, <1>5 DEF Optimizer!PollsAreLabelled, ServerGoesOn, Optimizer!OrNone
  <2>4. page'.view = "progress" => page'.taskId # None /\ page'.pendingRequest = page'.taskId
    BY <1>0, <1>5 DEF Optimizer!PollsAreLabelled, PageKeepsTask
  <2> QED
    BY <2>1, <2>2, <2>3, <2>4 DEF Optimizer!PollsAreLabelled
<1>7. Optimizer!OneIsAsked'
  BY <1>0 DEF Optimizer!OneIsAsked, Optimizer!Active, PageKeepsTask
<1>8. Optimizer!DetailIsLabelledRight'
  BY <1>0 DEF Optimizer!DetailIsLabelledRight, PageKeepsTask
<1> QED
  BY <1>3, <1>6, <1>7, <1>8 DEF Optimizer!ProgressInv

(* One that changes a component, and renders the page, or does not.        *)
LEMMA ComponentStep ==
    ASSUME Optimizer!ProgressInv, Quiet, PageKeepsTask, ServerGoesOn,
           results' \subseteq Optimizer!Results, \A q \in results' : q.closure \in Optimizer!Begun,
           UNCHANGED <<posts, doubled>>, NEW u, Sound(u),
           progress' = Optimizer!Rendered(u, page') \/ (progress' = u /\ page' = page)
    PROVE  Optimizer!ProgressInv'
<1>1. progress' \in Seq(Optimizer!Followers') /\ Optimizer!ScreenShowsPage' /\
        Optimizer!ScreenFollows'
  <2>1. CASE progress' = Optimizer!Rendered(u, page')
    <3>1. Optimizer!Shown(page') => Optimizer!Closure(page') \in Optimizer!Begun
      BY ShownIsBegun
    <3>2. doubled \in BOOLEAN
      BY DEF Optimizer!ProgressInv, Optimizer!TypeOK
    <3> QED
      BY <2>1, <3>1, <3>2, ScreenRendered DEF PageKeepsTask, ServerGoesOn
  <2>2. CASE progress' = u /\ page' = page
    BY <2>2, ScreenKept DEF ServerGoesOn
  <2> QED
    BY <2>1, <2>2
<1>2. Optimizer!TypeOK'
  <2>1. Optimizer!TypeOK /\ posts' \in PostTypes /\ doubled' \in BOOLEAN
    BY DEF Optimizer!ProgressInv, Optimizer!TypeOK, PostTypes
  <2> QED
    BY <1>1, <2>1, OpTypesFrom DEF Quiet, PageKeepsTask, ServerGoesOn
<1> QED
  BY <1>1, <1>2, StepFrom DEF Optimizer!TypeOK

LEMMA OpStepAsk ==
    ASSUME Optimizer!ProgressInv, NEW r \in Runs, Optimizer!HandleRun(r) \/
             Optimizer!RunOptimization(r) \/ Optimizer!Started(r)
    PROVE  Optimizer!ProgressInv'
<1>0. /\ Optimizer!TypeOK /\ Optimizer!PollsAreLabelled /\ Optimizer!OneIsAsked
      /\ Optimizer!DetailIsLabelledRight /\ Sound(progress)
      /\ page \in Optimizer!Page /\ posts \in PostTypes /\ server \in [Runs -> Optimizer!States]
      /\ doubled \in BOOLEAN /\ results \subseteq Optimizer!Results
  BY SoundBefore DEF Optimizer!ProgressInv, Optimizer!TypeOK, Optimizer!ListTypes, PostTypes
<1> DEFINE Others == Optimizer!OneIsAsked' /\ Optimizer!DetailIsLabelledRight' /\
             Optimizer!PollsAreLabelled'
<1>1. CASE Optimizer!HandleRun(r)
  <2>1. /\ page' = [page EXCEPT !.runError = FALSE, !.selectedDetail = None]
        /\ posts' = [posts EXCEPT ![r] = "pending"] /\ page.view = "form" /\ posts[r] = "none"
        /\ doubled' = (doubled \/ \E o \in Runs : posts[o] \in {"pending", "queued", "failed"})
        /\ progress' = Optimizer!Rendered(progress, page') /\ Optimizer!Clicks
        /\ UNCHANGED <<Optimizer!lists, results, server, overtaken>>
    BY <1>1 DEF Optimizer!HandleRun, Optimizer!Renders, Optimizer!Clickable
  <2>2. page' \in Optimizer!Page /\ page'.view = "form" /\ page'.taskId = page.taskId
        /\ page'.selectedDetail = None /\ ~Optimizer!Shown(page')
    BY <1>0, <2>1 DEF Optimizer!Page, Optimizer!OrNone, Optimizer!Shown
  <2>3. doubled' \in BOOLEAN /\ (doubled => doubled')
        /\ (~doubled' => ~doubled /\ \A o \in Runs : ~Optimizer!Active(o))
    BY <1>0, <2>1 DEF Optimizer!Active
  <2>4. progress' \in Seq(Optimizer!Followers') /\ Optimizer!ScreenShowsPage' /\
          Optimizer!ScreenFollows'
    BY <1>0, <2>1, <2>2, <2>3, ScreenRendered
  <2>5. posts' \in PostTypes /\ posts'[r] = "pending"
        /\ \A o \in Runs : o # r => posts'[o] = posts[o]
    BY <1>0, <2>1 DEF PostTypes
  <2>6. Optimizer!TypeOK'
    BY <1>0, <2>1, <2>2, <2>3, <2>4, <2>5, OpTypesFrom DEF Optimizer!lists
  <2>7. Optimizer!OneIsAsked'
    BY <2>2, <2>3, <2>5 DEF Optimizer!OneIsAsked, Optimizer!Active
  <2>8. Optimizer!DetailIsLabelledRight'
    BY <2>2 DEF Optimizer!DetailIsLabelledRight
  <2>9. Optimizer!PollsAreLabelled'
    BY <1>0, <2>1, <2>2, <2>4, <2>5 DEF Optimizer!PollsAreLabelled, Optimizer!Begun
  <2> QED
    BY <2>4, <2>6, <2>7, <2>8, <2>9 DEF Optimizer!ProgressInv
<1>2. CASE Optimizer!RunOptimization(r)
  <2>1. /\ posts[r] = "pending" /\ (Optimizer!Succeeds \/ Optimizer!Fails)
        /\ posts' \in {[posts EXCEPT ![r] = "queued"], [posts EXCEPT ![r] = "failed"]}
        /\ server' \in {server, [server EXCEPT ![r] = "running"]}
        /\ posts' = [posts EXCEPT ![r] = "queued"] => server' = [server EXCEPT ![r] = "running"]
        /\ UNCHANGED <<page, Optimizer!lists, progress, results, overtaken, doubled>>
    <3>1. CASE Optimizer!Succeeds /\ posts' = [posts EXCEPT ![r] = "queued"]
               /\ server' = [server EXCEPT ![r] = "running"]
      BY <1>2, <3>1 DEF Optimizer!RunOptimization
    <3>2. CASE Optimizer!Fails /\ posts' = [posts EXCEPT ![r] = "failed"]
               /\ server' \in {server, [server EXCEPT ![r] = "running"]}
      <4>1. posts'[r] = "failed"
        BY <1>0, <3>2 DEF PostTypes
      <4>2. posts' # [posts EXCEPT ![r] = "queued"]
        BY <1>0, <4>1 DEF PostTypes
      <4> QED
        BY <1>2, <3>2, <4>2 DEF Optimizer!RunOptimization
    <3> QED
      BY <1>2, <3>1, <3>2 DEF Optimizer!RunOptimization
  <2>2. ServerGoesOn
    BY <1>0, <2>1 DEF ServerGoesOn, Optimizer!States
  <2>3. /\ posts' \in PostTypes /\ posts'[r] \in {"queued", "failed"}
        /\ \A o \in Runs : o # r => posts'[o] = posts[o]
        /\ posts'[r] = "queued" => server'[r] # "unborn"
    BY <1>0, <2>1 DEF PostTypes
  <2>4. progress' \in Seq(Optimizer!Followers') /\ Optimizer!ScreenShowsPage' /\
          Optimizer!ScreenFollows'
    BY <1>0, <2>1, <2>2, ScreenKept DEF ServerGoesOn
  <2>5. Optimizer!TypeOK'
    BY <1>0, <2>1, <2>2, <2>3, <2>4, OpTypesFrom DEF Optimizer!lists, ServerGoesOn
  <2>6. Optimizer!OneIsAsked'
    BY <1>0, <2>1, <2>3 DEF Optimizer!OneIsAsked, Optimizer!Active
  <2>7. Optimizer!Begun \subseteq Optimizer!Begun'
    BY <2>2, StillBegun DEF ServerGoesOn
  <2>8. page.taskId # None => page.taskId \in Runs
    BY <1>0 DEF Optimizer!Page, Optimizer!OrNone
  <2>9. Optimizer!PollsAreLabelled'
    BY <1>0, <2>1, <2>2, <2>3, <2>4, <2>7, <2>8 DEF Optimizer!PollsAreLabelled, ServerGoesOn
  <2> QED
    BY <1>0, <2>1, <2>4, <2>5, <2>6, <2>9 DEF Optimizer!ProgressInv, Optimizer!DetailIsLabelledRight
<1>3. CASE Optimizer!Started(r)
  <2>1. /\ posts[r] \in {"queued", "failed"} /\ posts' = [posts EXCEPT ![r] = "ended"]
        /\ posts[r] = "queued" => page' = [page EXCEPT !.taskId = r, !.pendingRequest = r,
                                             !.running = TRUE, !.view = "progress"]
        /\ posts[r] # "queued" => page' = [page EXCEPT !.runError = TRUE]
        /\ progress' = Optimizer!Rendered(progress, page') /\ Optimizer!Succeeds
        /\ UNCHANGED <<Optimizer!lists, results, server, overtaken, doubled>>
    BY <1>3 DEF Optimizer!Started, Optimizer!Renders, Optimizer!Succeeds
  <2>2. /\ posts' \in PostTypes /\ posts'[r] = "ended"
        /\ \A o \in Runs : o # r => posts'[o] = posts[o]
    BY <1>0, <2>1 DEF PostTypes
  <2>3. doubled \/ \A o \in Runs : posts'[o] \notin {"pending", "queued", "failed"}
    BY <1>0, <2>1, <2>2 DEF Optimizer!OneIsAsked, Optimizer!Active
  <2>4. doubled \/ ~Optimizer!OnScreen(progress)
    BY <1>0, <2>1 DEF Optimizer!OneIsAsked, Optimizer!Active, Sound, Optimizer!Shown
  <2>5. CASE posts[r] = "queued"
    <3>1. /\ page' \in Optimizer!Page /\ page'.taskId = r /\ page'.pendingRequest = r
          /\ page'.selectedDetail = page.selectedDetail
      BY <1>0, <2>1, <2>5 DEF Optimizer!Page, Optimizer!OrNone
    <3>2. server[r] # "unborn"
      BY <1>0, <2>5 DEF Optimizer!PollsAreLabelled
    <3>3. Optimizer!Closure(page') \in Optimizer!Begun
      BY <3>1, <3>2 DEF Optimizer!Closure, Optimizer!Begun, Optimizer!Closures, Optimizer!OrNone
    <3>4. progress' \in Seq(Optimizer!Followers') /\ Optimizer!ScreenShowsPage' /\
            Optimizer!ScreenFollows'
      BY <1>0, <2>1, <2>4, <3>1, <3>3, ScreenRendered
    <3>5. Optimizer!TypeOK'
      BY <1>0, <2>1, <2>2, <3>1, <3>4, OpTypesFrom DEF Optimizer!lists
    <3>6. Optimizer!OneIsAsked'
      BY <2>1, <2>3 DEF Optimizer!OneIsAsked, Optimizer!Active
    <3>7. Optimizer!PollsAreLabelled'
      BY <1>0, <2>1, <2>2, <3>1, <3>2, <3>4, RunsAssumption
      DEF Optimizer!PollsAreLabelled, Optimizer!Begun
    <3>8. Optimizer!DetailIsLabelledRight'
      BY <1>0, <3>1 DEF Optimizer!DetailIsLabelledRight
    <3> QED
      BY <3>4, <3>5, <3>6, <3>7, <3>8 DEF Optimizer!ProgressInv
  <2>6. CASE posts[r] # "queued"
    <3>1. /\ page' \in Optimizer!Page /\ page'.taskId = page.taskId /\ ~Optimizer!Shown(page')
          /\ page'.pendingRequest = page.pendingRequest /\ page'.view = page.view
          /\ page'.selectedDetail = page.selectedDetail
      BY <1>0, <2>1, <2>6 DEF Optimizer!Page, Optimizer!Shown
    <3>4. progress' \in Seq(Optimizer!Followers') /\ Optimizer!ScreenShowsPage' /\
            Optimizer!ScreenFollows'
      BY <1>0, <2>1, <3>1, ScreenRendered
    <3>5. Optimizer!TypeOK'
      BY <1>0, <2>1, <2>2, <3>1, <3>4, OpTypesFrom DEF Optimizer!lists
    <3>6. Optimizer!OneIsAsked'
      BY <2>1, <2>3 DEF Optimizer!OneIsAsked, Optimizer!Active
    <3>7. Optimizer!PollsAreLabelled'
      BY <1>0, <2>1, <2>2, <3>1, <3>4 DEF Optimizer!PollsAreLabelled, Optimizer!Begun
    <3>8. Optimizer!DetailIsLabelledRight'
      BY <1>0, <3>1 DEF Optimizer!DetailIsLabelledRight
    <3> QED
      BY <3>4, <3>5, <3>6, <3>7, <3>8 DEF Optimizer!ProgressInv
  <2> QED
    BY <2>5, <2>6
<1> QED
  BY <1>1, <1>2, <1>3

LEMMA OpStepLeave ==
    ASSUME Optimizer!ProgressInv, Optimizer!HandleNew \/ Optimizer!HandleBack
    PROVE  Optimizer!ProgressInv'
<1>0. /\ Optimizer!TypeOK /\ Optimizer!PollsAreLabelled /\ Optimizer!OneIsAsked
      /\ Optimizer!DetailIsLabelledRight /\ Sound(progress)
      /\ page \in Optimizer!Page /\ posts \in PostTypes /\ server \in [Runs -> Optimizer!States]
      /\ doubled \in BOOLEAN /\ results \subseteq Optimizer!Results
  BY SoundBefore DEF Optimizer!ProgressInv, Optimizer!TypeOK, Optimizer!ListTypes, PostTypes
<1>1. /\ progress' = Optimizer!Rendered(progress, page') /\ Optimizer!Clicks
      /\ UNCHANGED <<Optimizer!lists, posts, results, server, overtaken, doubled>>
  BY DEF Optimizer!HandleNew, Optimizer!HandleBack, Optimizer!Renders
<1>2. /\ page' \in Optimizer!Page /\ page'.taskId \in {page.taskId, None}
      /\ page'.view \in {"form", "history"}
      /\ page'.selectedDetail = None
  <2>1. CASE Optimizer!HandleNew
    BY <1>0, <2>1 DEF Optimizer!HandleNew, Optimizer!Page, Optimizer!OrNone
  <2>2. CASE Optimizer!HandleBack
    BY <1>0, <2>2 DEF Optimizer!HandleBack, Optimizer!Page, Optimizer!OrNone
  <2> QED
    BY <2>1, <2>2
<1>3. ~Optimizer!Shown(page')
  BY <1>2 DEF Optimizer!Shown
<1>4. progress' \in Seq(Optimizer!Followers') /\ Optimizer!ScreenShowsPage' /\
        Optimizer!ScreenFollows'
  BY <1>0, <1>1, <1>2, <1>3, ScreenRendered
<1>5. Optimizer!TypeOK'
  BY <1>0, <1>1, <1>2, <1>4, OpTypesFrom DEF Optimizer!lists
<1>6. Optimizer!OneIsAsked' /\ Optimizer!DetailIsLabelledRight'
  BY <1>0, <1>1, <1>2 DEF Optimizer!OneIsAsked, Optimizer!Active, Optimizer!DetailIsLabelledRight
<1>7. Optimizer!PollsAreLabelled'
  BY <1>0, <1>1, <1>2, <1>4 DEF Optimizer!PollsAreLabelled, Optimizer!Begun
<1> QED
  BY <1>4, <1>5, <1>6, <1>7 DEF Optimizer!ProgressInv

LEMMA ServerKept == server \in [Runs -> Optimizer!States] /\ server' = server => ServerGoesOn
BY DEF ServerGoesOn

LEMMA PageKept == page \in Optimizer!Page /\ page' = page => PageKeepsTask
BY DEF PageKeepsTask

(* A component of the page, and what a poll of it may become.              *)
LEMMA OpStepFollow ==
    ASSUME Optimizer!ProgressInv, NEW k \in DOMAIN progress,
           \/ Optimizer!GetOptimizationStatus(k) \/ Optimizer!StillRunning(k) \/
                Optimizer!TimerFires(k)
           \/ Optimizer!HandleProgressComplete(k) \/ Optimizer!HandleProgressDone(k) \/
                Optimizer!PollFails(k)
           \/ Optimizer!CancelOptimization(k)
    PROVE  Optimizer!ProgressInv'
<1>0. /\ Optimizer!TypeOK /\ Optimizer!PollsAreLabelled /\ page \in Optimizer!Page
      /\ server \in [Runs -> Optimizer!States]
      /\ results \subseteq Optimizer!Results /\ progress \in Seq(Optimizer!Followers)
      /\ \A q \in results : q.closure \in Optimizer!Begun
  BY DEF Optimizer!ProgressInv, Optimizer!TypeOK, Optimizer!ListTypes, Optimizer!PollsAreLabelled
<1> DEFINE i == progress[k]
<1>i. /\ i \in Optimizer!Followers /\ i \in Optimizer!Progress
      /\ i.poll \in Optimizer!OrNone(Optimizer!Begun)
      /\ i.timer \in Optimizer!OrNone(Optimizer!Begun)
      /\ i.answer # "pending" => i.poll # None
      /\ i.answer \in Optimizer!Answers /\ i.terminal \in BOOLEAN /\ i.error \in BOOLEAN
      /\ i.cancel \in Optimizer!OrNone(Runs) /\ i.cancelled \in BOOLEAN
  <2>1. i \in Optimizer!Followers
    BY <1>0
  <2> HIDE DEF i
  <2> QED
    BY <2>1 DEF Optimizer!Followers, Optimizer!Progress
<1>n. None \in Optimizer!OrNone(Optimizer!Begun) /\ None \in Optimizer!OrNone(Runs) /\
        {"pending", "lost"} \subseteq Optimizer!Answers
  BY DEF Optimizer!OrNone, Optimizer!Answers
<1>1. CASE Optimizer!GetOptimizationStatus(k)
  <2>1. PICK answer \in Optimizer!Answers :
           /\ progress' = [progress EXCEPT ![k].answer = answer]
           /\ Optimizer!Succeeds \/ Optimizer!Fails
           /\ UNCHANGED <<page, Optimizer!lists, posts, results, server, overtaken, doubled>>
           /\ i.poll # None
    <3>1. i.poll # None => Optimizer!StatusOf(i.poll.task) \in Optimizer!Answers
      <4> SUFFICES ASSUME i.poll # None PROVE Optimizer!StatusOf(i.poll.task) \in Optimizer!Answers
        OBVIOUS
      <4>1. i.poll \in Optimizer!Begun
        BY <1>i DEF Optimizer!OrNone
      <4> HIDE DEF i
      <4>2. i.poll.task \in Runs /\ server[i.poll.task] # "unborn"
        BY <4>1 DEF Optimizer!Begun, Optimizer!Closures
      <4> QED
        BY <1>0, <4>2, StatusTypes
    <3> QED
      BY <1>1, <1>n, <3>1 DEF Optimizer!GetOptimizationStatus
  <2> DEFINE j == [i EXCEPT !.answer = answer]
  <2>2. /\ j \in Optimizer!Followers /\ j.onScreen = i.onScreen
        /\ j.poll = i.poll /\ j.timer = i.timer /\ j.terminal = i.terminal /\ j.error = i.error
    <3> HIDE DEF i
    <3>1. j \in Optimizer!Progress /\ j.onScreen = i.onScreen /\ j.answer = answer
          /\ j.poll = i.poll /\ j.timer = i.timer /\ j.terminal = i.terminal /\ j.error = i.error
      BY <1>i DEF Optimizer!Progress
    <3> HIDE DEF j
    <3> QED
      BY <1>i, <2>1, <3>1 DEF Optimizer!Followers
  <2>3. progress' = [progress EXCEPT ![k] = j]
    BY <2>1
  <2> HIDE DEF j
  <2>4. Sound([progress EXCEPT ![k] = j])
    BY <2>2, SoundUpdate DEF Optimizer!Follows
  <2> QED
    BY <1>0, <2>1, <2>3, <2>4, ComponentStep, ServerKept, PageKept DEF Quiet, Optimizer!lists
<1>2. CASE Optimizer!StillRunning(k)
  <2> DEFINE j == [i EXCEPT !.poll = None, !.answer = "pending", !.timer = i.poll]
  <2>1. /\ progress' = [progress EXCEPT ![k] = j] /\ i.answer = "running"
        /\ UNCHANGED <<page, Optimizer!lists, posts, results, server, overtaken, doubled,
             Optimizer!bounds>>
    BY <1>2 DEF Optimizer!StillRunning
  <2>2. /\ j \in Optimizer!Followers /\ j.onScreen = i.onScreen
        /\ j.poll = None /\ j.timer = i.poll /\ j.terminal = i.terminal /\ j.error = i.error
    <3> HIDE DEF i
    <3>1. j \in Optimizer!Progress /\ j.onScreen = i.onScreen /\ j.answer = "pending"
          /\ j.poll = None /\ j.timer = i.poll /\ j.terminal = i.terminal /\ j.error = i.error
      BY <1>i, <1>n DEF Optimizer!Progress, Optimizer!Followers, Optimizer!OrNone
    <3> HIDE DEF j
    <3> QED
      BY <1>i, <1>n, <3>1 DEF Optimizer!Followers
  <2>3. i.poll # None
    BY <1>i, <2>1
  <2> HIDE DEF j
  <2>4. Sound([progress EXCEPT ![k] = j])
    BY <2>2, <2>3, SoundUpdate DEF Optimizer!Follows
  <2> QED
    BY <1>0, <2>1, <2>4, ComponentStep, ServerKept, PageKept
    DEF Quiet, Optimizer!lists, Optimizer!Succeeds
<1>3. CASE Optimizer!TimerFires(k)
  <2> DEFINE j == Optimizer!Asking([i EXCEPT !.timer = None], i.timer)
  <2>1. /\ progress' = Optimizer!Update(k, j) /\ i.timer # None
        /\ UNCHANGED <<page, Optimizer!lists, posts, results, server, overtaken, doubled,
             Optimizer!bounds>>
    BY <1>3 DEF Optimizer!TimerFires
  <2>2. /\ j \in Optimizer!Followers /\ j.onScreen = i.onScreen
        /\ j.timer = None /\ j.terminal = i.terminal /\ j.error = i.error
        /\ \/ j.poll = i.poll /\ (i.poll # None \/ i.terminal)
           \/ j.poll = i.timer
    <3> DEFINE h == [i EXCEPT !.timer = None]
    <3>1. /\ h \in Optimizer!Progress /\ h.onScreen = i.onScreen /\ h.answer = i.answer
          /\ h.poll = i.poll /\ h.timer = None /\ h.terminal = i.terminal /\ h.error = i.error
      <4> HIDE DEF i
      <4> QED
        BY <1>i DEF Optimizer!Progress, Optimizer!OrNone
    <3>2. j = Optimizer!Asking(h, i.timer)
      OBVIOUS
    <3>3. i.timer \in Optimizer!OrNone(Optimizer!Closures)
      BY <1>i DEF Optimizer!Begun, Optimizer!OrNone
    <3> HIDE DEF h, j
    <3>4. CASE h.poll # None \/ h.terminal
      BY <1>i, <1>n, <3>1, <3>2, <3>4 DEF Optimizer!Asking, Optimizer!Followers
    <3>5. CASE ~(h.poll # None \/ h.terminal)
      <4>1. j = [h EXCEPT !.poll = i.timer, !.answer = "pending"]
        BY <3>2, <3>5 DEF Optimizer!Asking
      <4> HIDE DEF i
      <4>2. /\ j \in Optimizer!Progress /\ j.onScreen = h.onScreen /\ j.answer = "pending"
            /\ j.poll = i.timer /\ j.timer = h.timer /\ j.terminal = h.terminal
            /\ j.error = h.error
        BY <1>n, <3>1, <3>3, <4>1 DEF Optimizer!Progress
      <4> QED
        BY <1>i, <1>n, <3>1, <4>2 DEF Optimizer!Followers
    <3> QED
      BY <3>4, <3>5
  <2> HIDE DEF j
  <2>4. Sound(Optimizer!Update(k, j))
    BY <2>1, <2>2, SoundUpdate DEF Optimizer!Follows
  <2> QED
    BY <1>0, <2>1, <2>4, ComponentStep, ServerKept, PageKept
    DEF Quiet, Optimizer!lists, Optimizer!Succeeds
<1>e. /\ Optimizer!Ended(k) \in Optimizer!Followers /\ Optimizer!Ended(k).onScreen = i.onScreen
      /\ Sound(Optimizer!Update(k, Optimizer!Ended(k)))
  <2> DEFINE b == IF i.answer = "completed" THEN i.cancelled ELSE i.answer = "cancelled"
             j == [i EXCEPT !.poll = None, !.answer = "pending", !.timer = None, !.terminal = TRUE,
                            !.cancelled = b]
  <2>1. Optimizer!Ended(k) = j
    BY DEF Optimizer!Ended
  <2>b. b \in BOOLEAN
    BY <1>i
  <2> HIDE DEF b
  <2>2. /\ j \in Optimizer!Followers /\ j.onScreen = i.onScreen
        /\ j.poll = None /\ j.timer = None /\ j.terminal /\ j.error = i.error
    <3> HIDE DEF i
    <3>1. j \in Optimizer!Progress /\ j.onScreen = i.onScreen /\ j.answer = "pending"
          /\ j.poll = None /\ j.timer = None /\ j.terminal /\ j.error = i.error
      BY <1>i, <1>n, <2>b DEF Optimizer!Progress, Optimizer!OrNone
    <3> HIDE DEF j
    <3> QED
      BY <1>n, <3>1 DEF Optimizer!Followers
  <2> HIDE DEF j
  <2>3. Sound(Optimizer!Update(k, j))
    BY <2>2, SoundUpdate DEF Optimizer!Follows
  <2> QED
    BY <2>1, <2>2, <2>3
<1>4. CASE Optimizer!HandleProgressComplete(k)
  <2>1. /\ progress' = Optimizer!Rendered(Optimizer!Update(k, Optimizer!Ended(k)), page')
        /\ i.answer = "completed"
        /\ page' \in {[page EXCEPT !.running = FALSE],
                      [page EXCEPT !.runError = FALSE, !.running = FALSE]}
        /\ results' \in {results, results \cup {[closure |-> i.poll, answer |-> "pending"]}}
        /\ UNCHANGED <<Optimizer!lists, posts, server, overtaken, doubled, Optimizer!bounds>>
    BY <1>4 DEF Optimizer!HandleProgressComplete
  <2>2. PageKeepsTask
    BY <1>0, <2>1 DEF PageKeepsTask, Optimizer!Page
  <2>3. i.poll \in Optimizer!Begun
    BY <1>i, <2>1 DEF Optimizer!OrNone
  <2> HIDE DEF i
  <2>4. results' \subseteq Optimizer!Results /\ \A q \in results' : q.closure \in Optimizer!Begun
    BY <1>0, <2>1, <2>3 DEF Optimizer!Results, Optimizer!Begun
  <2> QED
    BY <1>0, <1>e, <2>1, <2>2, <2>4, ComponentStep, ServerKept
    DEF Quiet, Optimizer!lists, Optimizer!Succeeds
<1>5. CASE Optimizer!HandleProgressDone(k)
  <2>1. /\ progress' = Optimizer!Rendered(Optimizer!Update(k, Optimizer!Ended(k)), page')
        /\ page' = [page EXCEPT !.running = FALSE]
        /\ UNCHANGED <<Optimizer!lists, posts, results, server, overtaken, doubled,
             Optimizer!bounds>>
    BY <1>5 DEF Optimizer!HandleProgressDone
  <2>2. PageKeepsTask
    BY <1>0, <2>1 DEF PageKeepsTask, Optimizer!Page
  <2> QED
    BY <1>0, <1>e, <2>1, <2>2, ComponentStep, ServerKept
    DEF Quiet, Optimizer!lists, Optimizer!Succeeds
<1>6. CASE Optimizer!PollFails(k)
  <2> DEFINE j == [i EXCEPT !.poll = None, !.answer = "pending", !.timer = None, !.error = TRUE]
  <2>1. /\ progress' = Optimizer!Update(k, j)
        /\ UNCHANGED <<page, Optimizer!lists, posts, results, server, overtaken, doubled,
             Optimizer!bounds>>
    BY <1>6 DEF Optimizer!PollFails
  <2>2. /\ j \in Optimizer!Followers /\ j.onScreen = i.onScreen
        /\ j.poll = None /\ j.timer = None /\ j.error
    <3> HIDE DEF i
    <3>1. j \in Optimizer!Progress /\ j.onScreen = i.onScreen /\ j.answer = "pending"
          /\ j.poll = None /\ j.timer = None /\ j.error
      BY <1>i, <1>n DEF Optimizer!Progress, Optimizer!OrNone
    <3> HIDE DEF j
    <3> QED
      BY <1>n, <3>1 DEF Optimizer!Followers
  <2> HIDE DEF j
  <2>3. Sound(Optimizer!Update(k, j))
    BY <2>2, SoundUpdate DEF Optimizer!Follows
  <2> QED
    BY <1>0, <2>1, <2>3, ComponentStep, ServerKept, PageKept
    DEF Quiet, Optimizer!lists, Optimizer!Succeeds
<1>7. CASE Optimizer!CancelOptimization(k)
  <2>1. CASE /\ Optimizer!Succeeds
             /\ server[i.cancel] = "running"
             /\ server' = [server EXCEPT ![i.cancel] = "cancelled"]
             /\ page' = [page EXCEPT !.running = FALSE]
             /\ progress' = Optimizer!Rendered(Optimizer!Update(k, [i EXCEPT !.cancel = None,
                                                    !.cancelled = TRUE, !.terminal = TRUE,
                                                    !.timer = None]), page')
    <3> DEFINE j == [i EXCEPT !.cancel = None, !.cancelled = TRUE, !.terminal = TRUE,
                              !.timer = None]
    <3>1. /\ j \in Optimizer!Followers /\ j.onScreen = i.onScreen
          /\ j.poll = i.poll /\ j.timer = None /\ j.terminal
      <4> HIDE DEF i
      <4>1. j \in Optimizer!Progress /\ j.onScreen = i.onScreen /\ j.answer = i.answer
            /\ j.poll = i.poll /\ j.timer = None /\ j.terminal
        BY <1>i, <1>n DEF Optimizer!Progress, Optimizer!OrNone
      <4> HIDE DEF j
      <4> QED
        BY <1>i, <1>n, <4>1 DEF Optimizer!Followers
    <3>2. progress' = Optimizer!Rendered(Optimizer!Update(k, j), page')
      BY <2>1
    <3> HIDE DEF j
    <3>3. Sound(Optimizer!Update(k, j))
      BY <3>1, SoundUpdate DEF Optimizer!Follows
    <3>4. PageKeepsTask
      BY <1>0, <2>1 DEF PageKeepsTask, Optimizer!Page
    <3>5. ServerGoesOn
      BY <1>0, <2>1 DEF ServerGoesOn, Optimizer!States
    <3>6. UNCHANGED <<Optimizer!lists, posts, results, overtaken, doubled>>
      BY <1>7 DEF Optimizer!CancelOptimization
    <3> QED
      BY <1>0, <2>1, <3>2, <3>3, <3>4, <3>5, <3>6, ComponentStep DEF Quiet, Optimizer!lists
  <2>2. CASE /\ Optimizer!Fails \/ Optimizer!Succeeds
             /\ progress' = Optimizer!Update(k, [i EXCEPT !.cancel = None, !.error = TRUE])
             /\ \/ UNCHANGED server
                \/ /\ server[i.cancel] = "running"
                   /\ server' = [server EXCEPT ![i.cancel] = "cancelled"]
             /\ UNCHANGED page
    <3> DEFINE j == [i EXCEPT !.cancel = None, !.error = TRUE]
    <3>1. /\ j \in Optimizer!Followers /\ j.onScreen = i.onScreen
          /\ j.poll = i.poll /\ j.timer = i.timer /\ j.error
      <4> HIDE DEF i
      <4>1. j \in Optimizer!Progress /\ j.onScreen = i.onScreen /\ j.answer = i.answer
            /\ j.poll = i.poll /\ j.timer = i.timer /\ j.error
        BY <1>i, <1>n DEF Optimizer!Progress, Optimizer!OrNone
      <4> HIDE DEF j
      <4> QED
        BY <1>i, <1>n, <4>1 DEF Optimizer!Followers
    <3>2. progress' = Optimizer!Update(k, j)
      BY <2>2
    <3> HIDE DEF j
    <3>3. Sound(Optimizer!Update(k, j))
      BY <3>1, SoundUpdate DEF Optimizer!Follows
    <3>4. ServerGoesOn
      BY <1>0, <2>2 DEF ServerGoesOn, Optimizer!States
    <3>6. UNCHANGED <<Optimizer!lists, posts, results, overtaken, doubled>>
      BY <1>7 DEF Optimizer!CancelOptimization
    <3> QED
      BY <1>0, <2>2, <3>2, <3>3, <3>4, <3>6, ComponentStep, PageKept DEF Quiet, Optimizer!lists
  <2> QED
    BY <1>7, <2>1, <2>2 DEF Optimizer!CancelOptimization
<1> QED
  BY <1>1, <1>2, <1>3, <1>4, <1>5, <1>6, <1>7

LEMMA OpStepCancel == Optimizer!ProgressInv /\ Optimizer!HandleCancel => Optimizer!ProgressInv'
<1> SUFFICES ASSUME Optimizer!ProgressInv, Optimizer!HandleCancel PROVE Optimizer!ProgressInv'
  OBVIOUS
<1>0. /\ page \in Optimizer!Page /\ server \in [Runs -> Optimizer!States]
      /\ results \subseteq Optimizer!Results
      /\ progress \in Seq(Optimizer!Followers) /\ \A q \in results : q.closure \in Optimizer!Begun
  BY DEF Optimizer!ProgressInv, Optimizer!TypeOK, Optimizer!ListTypes, Optimizer!PollsAreLabelled
<1> DEFINE k == Len(progress)
           i == progress[k]
           j == [i EXCEPT !.cancel = page.taskId]
<1>1. /\ progress' = [progress EXCEPT ![k] = j] /\ progress # <<>> /\ Optimizer!Clicks
      /\ UNCHANGED <<page, Optimizer!lists, posts, results, server, overtaken, doubled>>
  BY DEF Optimizer!HandleCancel, Optimizer!OnScreen
<1>2. k \in DOMAIN progress /\ i \in Optimizer!Followers
  BY <1>0, <1>1
<1>3. page.taskId \in Optimizer!OrNone(Runs)
  BY <1>0 DEF Optimizer!Page
<1> HIDE DEF i, k
<1>4. /\ j \in Optimizer!Progress /\ j.onScreen = i.onScreen /\ j.answer = i.answer
      /\ j.poll = i.poll /\ j.timer = i.timer /\ j.terminal = i.terminal /\ j.error = i.error
  BY <1>2, <1>3 DEF Optimizer!Progress, Optimizer!Followers
<1> HIDE DEF j
<1>5. j \in Optimizer!Followers
  BY <1>2, <1>4 DEF Optimizer!Followers
<1>6. Sound([progress EXCEPT ![k] = j])
  BY <1>2, <1>4, <1>5, SoundUpdate DEF Optimizer!Follows, i
<1> QED
  BY <1>0, <1>1, <1>6, ComponentStep, ServerKept, PageKept DEF Quiet, Optimizer!lists

LEMMA OpStepResults ==
    ASSUME Optimizer!ProgressInv, NEW q \in results,
           Optimizer!GetOptimizationResults(q) \/ Optimizer!ResultsArrive(q) \/
             Optimizer!ResultsFail(q)
    PROVE  Optimizer!ProgressInv'
<1>0. /\ page \in Optimizer!Page /\ server \in [Runs -> Optimizer!States]
      /\ results \subseteq Optimizer!Results
      /\ \A o \in results : o.closure \in Optimizer!Begun
      /\ q \in Optimizer!Results /\ q.closure \in Optimizer!Begun /\ Sound(progress)
  BY SoundBefore
  DEF Optimizer!ProgressInv, Optimizer!TypeOK, Optimizer!ListTypes, Optimizer!PollsAreLabelled
<1>1. CASE Optimizer!GetOptimizationResults(q)
  <2>1. PICK answer \in {"done", "failed"} :
           /\ results' = (results \ {q}) \cup {[q EXCEPT !.answer = answer]}
           /\ Optimizer!Succeeds \/ Optimizer!Fails
    BY <1>1 DEF Optimizer!GetOptimizationResults
  <2>2. UNCHANGED <<page, Optimizer!lists, posts, progress, server, overtaken, doubled>>
    BY <1>1 DEF Optimizer!GetOptimizationResults
  <2> DEFINE o == [q EXCEPT !.answer = answer]
  <2>3. o \in Optimizer!Results /\ o.closure = q.closure
    BY <1>0 DEF Optimizer!Results
  <2> HIDE DEF o
  <2>4. results' = (results \ {q}) \cup {o}
    BY <2>1 DEF o
  <2>5. results' \subseteq Optimizer!Results /\ \A w \in results' : w.closure \in Optimizer!Begun
    BY <1>0, <2>3, <2>4
  <2> QED
    BY <1>0, <2>1, <2>2, <2>5, ComponentStep, ServerKept, PageKept DEF Quiet, Optimizer!lists
<1>2. CASE Optimizer!ResultsArrive(q)
  <2>1. /\ page' = [page EXCEPT !.selectedDetail = [id |-> q.closure.task,
                                                   request |-> q.closure.request],
                               !.view = "detail", !.historyLoading = TRUE]
        /\ results' = results \ {q} /\ loads' = Append(loads, Optimizer!Sent)
        /\ progress' = Optimizer!Rendered(progress, page')
        /\ UNCHANGED <<details, deletion, posts, server, overtaken, doubled, Optimizer!bounds>>
    BY <1>2 DEF Optimizer!ResultsArrive, Optimizer!Renders
  <2> DEFINE d == [id |-> q.closure.task, request |-> q.closure.request]
  <2>2. q.closure.task \in Runs /\ q.closure.request = q.closure.task
    BY <1>0 DEF Optimizer!Begun, Optimizer!Closures
  <2>3. d \in Optimizer!OrNone(Optimizer!RunDetail) /\ d.id = d.request
    BY <2>2 DEF Optimizer!OrNone, Optimizer!RunDetail
  <2>4. page' = [page EXCEPT !.selectedDetail = d, !.view = "detail", !.historyLoading = TRUE]
    BY <2>1
  <2> HIDE DEF d
  <2>5. PageKeepsTask
    <3>1. page' \in Optimizer!Page
      BY <1>0, <2>3, <2>4 DEF Optimizer!Page
    <3>2. page'.taskId = page.taskId /\ page'.view = "detail" /\ page'.selectedDetail = d
      BY <1>0, <2>4 DEF Optimizer!Page
    <3> QED
      BY <2>3, <3>1, <3>2 DEF PageKeepsTask
  <2>6. results' \subseteq Optimizer!Results /\ \A o \in results' : o.closure \in Optimizer!Begun
    BY <1>0, <2>1
  <2> QED
    BY <1>0, <2>1, <2>5, <2>6, ComponentStep, ServerKept DEF Quiet, Optimizer!Succeeds
<1>3. CASE Optimizer!ResultsFail(q)
  <2>1. /\ page' = [page EXCEPT !.runError = TRUE] /\ results' = results \ {q}
        /\ progress' = Optimizer!Rendered(progress, page')
        /\ UNCHANGED <<Optimizer!lists, posts, server, overtaken, doubled, Optimizer!bounds>>
    BY <1>3 DEF Optimizer!ResultsFail, Optimizer!Renders
  <2>2. PageKeepsTask
    BY <1>0, <2>1 DEF PageKeepsTask, Optimizer!Page
  <2>3. results' \subseteq Optimizer!Results /\ \A o \in results' : o.closure \in Optimizer!Begun
    BY <1>0, <2>1
  <2> QED
    BY <1>0, <2>1, <2>2, <2>3, ComponentStep, ServerKept
    DEF Quiet, Optimizer!lists, Optimizer!Succeeds
<1> QED
  BY <1>1, <1>2, <1>3

(* The list and the thread of a task.                                      *)
LEMMA OpStepList ==
    ASSUME Optimizer!ProgressInv, Optimizer!HistoryNext, Optimizer!Renders, UNCHANGED <<posts,
           results, doubled>>
    PROVE  Optimizer!ProgressInv'
<1>0. /\ Optimizer!TypeOK /\ Optimizer!ListTypes /\ page \in Optimizer!Page
      /\ server \in [Runs -> Optimizer!States] /\ results \subseteq Optimizer!Results
      /\ Sound(progress) /\ \A o \in results : o.closure \in Optimizer!Begun
      /\ doubled \in BOOLEAN /\ clicks \in 0 .. OptimizerClicks
  BY SoundBefore
  DEF Optimizer!ProgressInv, Optimizer!TypeOK, Optimizer!ListTypes, Optimizer!PollsAreLabelled
<1>1. PageKeepsTask /\ clicks' \in 0 .. OptimizerClicks
  BY <1>0, OpListPage DEF PageKeepsTask
<1>2. Optimizer!ListTypes'
  BY <1>0, HistoryTypes, OptimizerSame, OptimizerHistory DEF Optimizer!Page
<1>3. \A r \in Runs : server'[r] = server[r] \/ server'[r] \in {"deleted", "gone"}
  BY <1>0 DEF Optimizer!HistoryNext, Optimizer!CancelDelete, Optimizer!ConfirmDelete,
     Optimizer!DeleteRun, Optimizer!Deleted, Optimizer!HandleView, Optimizer!HandleRerun,
     Optimizer!AskDelete, Optimizer!ListRuns, Optimizer!HistoryArrives, Optimizer!HistoryFails,
     Optimizer!DetailArrives, Optimizer!DetailFails
<1>4. ServerGoesOn
  BY <1>2, <1>3 DEF ServerGoesOn, Optimizer!ListTypes
<1>5. Optimizer!Shown(page') => Optimizer!Closure(page') \in Optimizer!Begun
  BY <1>1, ShownIsBegun
<1>6. progress' \in Seq(Optimizer!Followers') /\ Optimizer!ScreenShowsPage' /\
        Optimizer!ScreenFollows'
  <2>1. page' \in Optimizer!Page /\ page'.taskId = page.taskId /\
          progress' = Optimizer!Rendered(progress, page')
    BY <1>1 DEF PageKeepsTask, Optimizer!Renders
  <2>4. \A r \in Runs : server[r] # "unborn" => server'[r] # "unborn"
    BY <1>4 DEF ServerGoesOn
  <2>2. doubled' \in BOOLEAN /\ (doubled => doubled')
    BY <1>0
  <2>3. Sound(progress) /\
          (Optimizer!Shown(page') /\ Optimizer!OnScreen(progress) => doubled' \/
            page'.taskId = page.taskId)
    BY <1>0, <2>1
  <2> QED
    BY <1>5, <2>1, <2>2, <2>3, <2>4, ScreenRendered
<1> QED
  BY <1>0, <1>1, <1>2, <1>4, <1>6, StepFrom

LEMMA OpStepThread ==
    ASSUME Optimizer!ProgressInv, NEW r \in Runs, Optimizer!Thread(r)
    PROVE  Optimizer!ProgressInv'
<1>0. /\ page \in Optimizer!Page /\ server \in [Runs -> Optimizer!States]
      /\ results \subseteq Optimizer!Results
      /\ Sound(progress)
      /\ \A q \in results : q.closure \in Optimizer!Begun
  BY SoundBefore
  DEF Optimizer!ProgressInv, Optimizer!TypeOK, Optimizer!ListTypes, Optimizer!PollsAreLabelled
<1>1. UNCHANGED <<page, Optimizer!lists, Optimizer!following, overtaken, doubled>> /\
        (Optimizer!Succeeds \/ Optimizer!Fails)
  BY DEF Optimizer!Thread
<1>2. ServerGoesOn
  BY <1>0 DEF Optimizer!Thread, ServerGoesOn, Optimizer!States
<1>3. Quiet /\ PageKeepsTask
  BY <1>0, <1>1, PageKept DEF Quiet, Optimizer!lists
<1>4. UNCHANGED <<page, posts, progress, results, doubled>>
  BY <1>1 DEF Optimizer!following
<1> QED
  BY <1>0, <1>2, <1>3, <1>4, ComponentStep

LEMMA OpStep ==
    Optimizer!ProgressInv /\ (Optimizer!Next \/ UNCHANGED Optimizer!vars) => Optimizer!ProgressInv'
<1> SUFFICES ASSUME Optimizer!ProgressInv, (Optimizer!Next \/ UNCHANGED Optimizer!vars)
             PROVE Optimizer!ProgressInv'
  OBVIOUS
<1>1. CASE Optimizer!HandleNew \/ Optimizer!HandleBack
  BY <1>1, OpStepLeave
<1>2. CASE Optimizer!HandleCancel
  BY <1>2, OpStepCancel
<1>3. ASSUME NEW r \in Runs, Optimizer!HandleRun(r) \/ Optimizer!Thread(r)
      PROVE Optimizer!ProgressInv'
  BY <1>3, OpStepAsk, OpStepThread
<1>4. CASE Optimizer!Follow
  BY <1>4, OpStepAsk, OpStepFollow, OpStepResults DEF Optimizer!Follow
<1>5. CASE Optimizer!HistoryNext /\ Optimizer!Renders /\ UNCHANGED <<posts, results, doubled>>
  BY <1>5, OpStepList
<1>6. CASE UNCHANGED Optimizer!vars
  BY <1>6 DEF Optimizer!vars, Optimizer!lists, Optimizer!following, Optimizer!bounds,
     Optimizer!ProgressInv, Optimizer!TypeOK, Optimizer!ListTypes, Optimizer!PollsAreLabelled,
     Optimizer!Followers, Optimizer!Begun, Optimizer!ScreenShowsPage, Optimizer!OneOnScreen,
     Optimizer!OnScreen, Optimizer!Shown, Optimizer!OneIsAsked, Optimizer!Active,
     Optimizer!ScreenFollows, Optimizer!Follows, Optimizer!DetailIsLabelledRight
<1> QED
  BY <1>1, <1>2, <1>3, <1>4, <1>5, <1>6 DEF Optimizer!Next

LEMMA OpDeletion ==
    Optimizer!ProgressInv /\ Optimizer!DeletionInv /\
      (Optimizer!Next \/ UNCHANGED Optimizer!vars) => Optimizer!DeletionInv'
<1> SUFFICES ASSUME Optimizer!ProgressInv, Optimizer!DeletionInv,
                    (Optimizer!Next \/ UNCHANGED Optimizer!vars) PROVE Optimizer!DeletionInv'
  OBVIOUS
<1>0. Optimizer!ProgressInv'
  BY OpStep
<1>1. Optimizer!ListTypes /\ Optimizer!ListTypes' /\ page \in Optimizer!Page /\
        clicks \in 0 .. OptimizerClicks
  BY <1>0 DEF Optimizer!ProgressInv, Optimizer!TypeOK
<1>2. PageFields \subseteq DOMAIN page /\ page.runs \subseteq Runs /\
        page.itemToDelete \in Optimizer!OrNone(Runs)
  BY <1>1 DEF PageFields, Optimizer!Page
<1>3. server \in [Runs -> Optimizer!States]
  BY <1>1 DEF Optimizer!ListTypes
<1> DEFINE Kept2 == /\ UNCHANGED <<deletion, overtaken>> /\
                         loads' \in {loads, Append(loads, Optimizer!Sent)}
                    /\ \A o \in Runs : server'[o] = "deleted" => server[o] = "deleted"
                    /\ page'.runs = page.runs /\ page'.historyError = page.historyError
                    /\ page'.deleteLoading = page.deleteLoading
<1>4. CASE Optimizer!HistoryNext
  BY <1>1, <1>2, <1>4, DeletionStep, OptimizerSame, OptimizerHistory
<1>5. ASSUME NEW r \in Runs, Optimizer!HandleRun(r) \/ Optimizer!RunOptimization(r) \/
               Optimizer!Started(r) \/ Optimizer!Thread(r)
      PROVE  Kept2
  BY <1>1, <1>3, <1>5 DEF Optimizer!HandleRun, Optimizer!RunOptimization, Optimizer!Started,
     Optimizer!Thread, Optimizer!lists, Optimizer!Page
<1>6. ASSUME NEW k \in DOMAIN progress,
             \/ Optimizer!GetOptimizationStatus(k) \/ Optimizer!StillRunning(k) \/
                  Optimizer!TimerFires(k)
             \/ Optimizer!HandleProgressComplete(k) \/ Optimizer!HandleProgressDone(k) \/
                  Optimizer!PollFails(k)
             \/ Optimizer!CancelOptimization(k)
      PROVE  Kept2
  BY <1>1, <1>3, <1>6 DEF Optimizer!GetOptimizationStatus, Optimizer!StillRunning,
     Optimizer!TimerFires, Optimizer!HandleProgressComplete, Optimizer!HandleProgressDone,
     Optimizer!PollFails, Optimizer!CancelOptimization, Optimizer!lists, Optimizer!Page
<1>7. ASSUME NEW q \in results, Optimizer!GetOptimizationResults(q) \/
               Optimizer!ResultsArrive(q) \/ Optimizer!ResultsFail(q)
      PROVE  Kept2
  BY <1>1, <1>3, <1>7 DEF Optimizer!GetOptimizationResults, Optimizer!ResultsArrive,
     Optimizer!ResultsFail, Optimizer!lists, Optimizer!Page
<1>8. Optimizer!HandleNew \/ Optimizer!HandleBack \/ Optimizer!HandleCancel \/
        UNCHANGED Optimizer!vars => Kept2
  BY <1>1 DEF Optimizer!HandleNew, Optimizer!HandleBack, Optimizer!HandleCancel, Optimizer!vars,
     Optimizer!lists, Optimizer!Page
<1> HIDE DEF Kept2
<1>9. CASE Kept2
  BY <1>1, <1>2, <1>9, DeletionKept, OptimizerSame DEF Kept2
<1> QED
  BY <1>4, <1>5, <1>6, <1>7, <1>8, <1>9 DEF Optimizer!Next, Optimizer!Follow

LEMMA OpShows ==
    Optimizer!ProgressInv => Optimizer!ShownTaskIsFollowed /\ Optimizer!DetailIsLabelledRight
BY DEF Optimizer!ProgressInv, Optimizer!ScreenFollows, Optimizer!Follows,
   Optimizer!ShownTaskIsFollowed

(* The component that shows the progress asks about the task the page      *)
(* names, whichever task it was mounted for and whatever was asked before. *)
THEOREM FollowsTheShownTask == Spec => []ShownTaskIsFollowed
<1> DEFINE Inv == route = "optimizer" => Optimizer!ProgressInv
<1>1. Init => Inv
  BY Starts, OpInit
<1>2. Inv /\ [Next]_vars => Inv'
  BY Steps, OpStep
<1>3. Inv => ShownTaskIsFollowed
  BY OpShows DEF ShownTaskIsFollowed
<1> QED
  BY <1>1, <1>2, <1>3, PTL DEF Spec

(* Results are shown under the request they answer, although the component *)
(* acts with the closures of an earlier rendering.                         *)
THEOREM LabelsAreRight == Spec => []DetailIsLabelledRight
<1> DEFINE Inv == route = "optimizer" => Optimizer!ProgressInv
<1>1. Init => Inv
  BY Starts, OpInit
<1>2. Inv /\ [Next]_vars => Inv'
  BY Steps, OpStep
<1>3. Inv => DetailIsLabelledRight
  BY OpShows DEF DetailIsLabelledRight
<1> QED
  BY <1>1, <1>2, <1>3, PTL DEF Spec

-----------------------------------------------------------------------------
(***************************************************************************)
(* The rows of both pages.                                                 *)
(***************************************************************************)

(* On either page a row that was deleted leaves the table, and no list that*)
(* is still on its way brings it back.                                     *)
THEOREM DeletedRowsStayAway == Spec => []NoDeletedRow
<1> DEFINE Follows == /\ route = "backtest" => Backtest!FollowInv
                      /\ route = "optimizer" => Optimizer!ProgressInv
           Deletes == /\ route = "backtest" => Backtest!DeletionInv
                      /\ route = "optimizer" => Optimizer!DeletionInv
           Inv == Follows /\ Deletes
<1>1. Init => Inv
  BY Starts, BtInit, OpInit
<1>2. Inv /\ [Next]_vars => Follows'
  BY Steps, BtStep, OpStep
<1>3. Inv /\ [Next]_vars => Deletes'
  BY Steps, BtDeletion, OpDeletion
<1>4. Inv => NoDeletedRow
  <2>1. Backtest!FollowInv /\ Backtest!DeletionInv => ListTypes /\ DeletionInv
    BY BacktestSame DEF Backtest!FollowInv, Backtest!TypeOK
  <2>2. Optimizer!ProgressInv /\ Optimizer!DeletionInv => ListTypes /\ DeletionInv
    BY OptimizerSame DEF Optimizer!ProgressInv, Optimizer!TypeOK
  <2> QED
    BY <2>1, <2>2, DeletionInvHolds DEF NoDeletedRow
<1> QED
  BY <1>1, <1>2, <1>3, <1>4, PTL DEF Spec

-----------------------------------------------------------------------------
(***************************************************************************)
(* The page of the sweeps.                                                 *)
(***************************************************************************)
LEMMA SweepSequences ==
    /\ \A s, i : Sweep!RemoveAt(s, i) = RemoveAt(s, i)
    /\ \A s : Sweep!Last(s) = Last(s)
BY DEF Sweep!RemoveAt, RemoveAt, Sweep!Last, Last

LEMMA SwInit == Sweep!Init => Sweep!SweepInv
<1> SUFFICES ASSUME Sweep!Init PROVE Sweep!SweepInv
  OBVIOUS
<1>1. Sweep!Nothing \in Sweep!Results /\ Sweep!Idle \in Sweep!State
  BY DEF Sweep!Nothing, Sweep!Results, Sweep!Idle, Sweep!State, Sweep!Statuses
<1>2. page \in Sweep!Page
  BY <1>1 DEF Sweep!Init, Sweep!Page, Sweep!Statuses
<1>3. polls \in Seq(Sweep!Poll) /\ loads \in Seq(Sweep!Load) /\ rows \in Seq(Sweep!Row)
  BY DEF Sweep!Init
<1>4. clicks \in 0 .. FewClicks /\ failures \in 0 .. MaxFailures
  BY SweepBounds DEF Sweep!Init
<1>5. Sweep!TypeOK
  BY <1>1, <1>2, <1>3, <1>4 DEF Sweep!TypeOK, Sweep!Init, Sweep!Stages
<1>6. Sweep!ServerIsSound /\ Sweep!OneIsAwaited
  BY DEF Sweep!Init, Sweep!ServerIsSound, Sweep!HasRow, Sweep!OneIsAwaited, Sweep!Idle
<1>7. Sweep!SweepsAreApart
  BY DEF Sweep!Init, Sweep!SweepsAreApart, Sweep!Idle, Sweep!Working
<1>8. Sweep!PollsTell /\ Sweep!LoadsBring
  BY DEF Sweep!Init, Sweep!PollsTell, Sweep!LoadsBring
<1> QED
  BY <1>5, <1>6, <1>7, <1>8 DEF Sweep!SweepInv

(* Types.                                                                  *)
LEMMA SwBounds ==
    ASSUME clicks \in 0 .. FewClicks, failures \in 0 .. MaxFailures,
           Sweep!Succeeds \/ Sweep!Fails \/ Sweep!Clicks
    PROVE  clicks' \in 0 .. FewClicks /\ failures' \in 0 .. MaxFailures
BY SweepBounds DEF Sweep!Succeeds, Sweep!Fails, Sweep!Clicks, Sweep!bounds

LEMMA SwMoves == Sweep!Next => Sweep!Succeeds \/ Sweep!Fails \/ Sweep!Clicks
BY DEF Sweep!Next, Sweep!Tick, Sweep!Reload, Sweep!HandleRun, Sweep!RunSweep, Sweep!Started,
   Sweep!Restart, Sweep!GetStatus, Sweep!PollArrives, Sweep!GetLoad, Sweep!LoadArrives,
   Sweep!RunPipeline, Sweep!Begin, Sweep!Scan, Sweep!Persist, Sweep!Complete, Sweep!Fail,
   Sweep!PublishFailure, Sweep!Succeeds, Sweep!bounds

LEMMA NewCalls ==
    ASSUME NEW awaited \in BOOLEAN
    PROVE  /\ Sweep!NewPoll(awaited) \in Sweep!Poll
           /\ Sweep!NewLoad("results", awaited) \in Sweep!Load
           /\ Sweep!NewLoad("history", awaited) \in Sweep!Load
<1>1. Sweep!Nothing \in Sweep!Results
  BY DEF Sweep!Results, Sweep!Nothing
<1>2. Sweep!NewPoll(awaited) \in Sweep!Poll
  BY DEF Sweep!NewPoll, Sweep!Poll
<1>3. \A k \in {"results", "history"} : Sweep!NewLoad(k, awaited) \in Sweep!Load
  BY <1>1 DEF Sweep!NewLoad, Sweep!Load
<1> QED
  BY <1>2, <1>3

LEMMA NextIsBorn ==
    ASSUME Sweep!TypeOK, Sweep!Unborn # {}
    PROVE  /\ Sweep!NextSweep \in Sweep!Sweeps /\ threads[Sweep!NextSweep] = "unborn"
           /\ \A o \in Sweep!Unborn : Sweep!NextSweep <= o
<1>1. Sweep!Unborn \subseteq Sweep!Sweeps /\ Sweep!Unborn \subseteq Nat
  BY SweepsAssumption DEF Sweep!Unborn, Sweep!Sweeps
<1> DEFINE less == {ss \in Nat \X Nat : ss[1] < ss[2]}
<1>2. IsWellFoundedOn(less, Nat)
  BY NatLessThanWellFounded, Zenon DEF OpToRel
<1>3. \A m, n \in Nat : m < n => <<m, n>> \in less
  OBVIOUS
<1> HIDE DEF less
<1>4. PICK s \in Sweep!Unborn : \A o \in Sweep!Unborn : <<o, s>> \notin less
  BY <1>1, <1>2, WFMin
<1>5. \A o \in Sweep!Unborn : s <= o
  <2> TAKE o \in Sweep!Unborn
  <2>1. s \in Nat /\ o \in Nat
    BY <1>1
  <2>2. ~(o < s)
    BY <1>3, <1>4, <2>1
  <2> QED
    BY <2>1, <2>2
<1>6. Sweep!NextSweep \in Sweep!Unborn /\ \A o \in Sweep!Unborn : Sweep!NextSweep <= o
  BY <1>5 DEF Sweep!NextSweep
<1> QED
  BY <1>1, <1>6 DEF Sweep!Unborn

LEMMA SwRowsLast ==
    ASSUME Sweep!TypeOK
    PROVE  /\ \A i \in DOMAIN rows : rows[i] \in Sweep!Row
           /\ rows # <<>> => Sweep!Last(rows) \in Sweep!Row
           /\ \A s : Sweep!HasRow(s) => rows # <<>>
BY DEF Sweep!TypeOK, Sweep!Last, Sweep!HasRow

LEMMA SwResultsTypes ==
    Sweep!TypeOK => Sweep!GetResults \in Sweep!Results /\
      Sweep!ListSweepHistory \subseteq Sweep!Sweeps
<1> SUFFICES ASSUME Sweep!TypeOK
             PROVE Sweep!GetResults \in Sweep!Results /\
                     Sweep!ListSweepHistory \subseteq Sweep!Sweeps
  OBVIOUS
<1>1. state.results \in Sweep!Results /\ Sweep!Nothing \in Sweep!Results
  BY DEF Sweep!TypeOK, Sweep!State, Sweep!Results, Sweep!Nothing
<1>2. ASSUME rows # <<>>
      PROVE  [sweep |-> Sweep!Last(rows).sweep,
              part |-> IF Sweep!Last(rows).status = "completed" THEN "all" ELSE "none"] \in
                Sweep!Results
  BY <1>2, SwRowsLast DEF Sweep!Row, Sweep!Results
<1>3. Sweep!GetResults \in Sweep!Results
  BY <1>1, <1>2 DEF Sweep!GetResults
<1>4. Sweep!ListSweepHistory \subseteq Sweep!Sweeps
  BY SwRowsLast DEF Sweep!ListSweepHistory, Sweep!Row
<1> QED
  BY <1>3, <1>4

LEMMA SwRunningIsState == \A s \in Sweep!Sweeps : Sweep!Running(s) \in Sweep!State
BY DEF Sweep!Running, Sweep!State, Sweep!Statuses, Sweep!Results

LEMMA SwServerTypes ==
    ASSUME Sweep!TypeOK, Sweep!Next
    PROVE  /\ state' \in Sweep!State
           /\ threads' \in [Sweep!Sweeps -> Sweep!Stages]
           /\ rows' \in Seq(Sweep!Row)
<1> DEFINE T == Sweep!Stages
           Goal == state' \in Sweep!State /\ threads' \in [Sweep!Sweeps -> T] /\
             rows' \in Seq(Sweep!Row)
<1>0. state \in Sweep!State /\ threads \in [Sweep!Sweeps -> T] /\ rows \in Seq(Sweep!Row)
  BY DEF Sweep!TypeOK
<1>w. {"unborn", "started", "running", "scanned", "persisted", "failing", "ended"} = T
  BY DEF Sweep!Stages, Sweep!Working
<1>1. ASSUME UNCHANGED Sweep!server PROVE Goal
  BY <1>0, <1>1 DEF Sweep!server
<1>2. ASSUME Sweep!RunSweep PROVE Goal
  <2>1. rows' = rows
    BY <1>2 DEF Sweep!RunSweep
  <2>2. threads' = threads \/
          (Sweep!Unborn # {} /\ threads' = [threads EXCEPT ![Sweep!NextSweep] = "started"])
          \/ (Sweep!Unborn # {} /\ threads' = [threads EXCEPT ![Sweep!NextSweep] = "running"])
    BY <1>2 DEF Sweep!RunSweep
  <2>3. state' = state \/ (Sweep!Unborn # {} /\ state' = Sweep!Running(Sweep!NextSweep))
    BY <1>2 DEF Sweep!RunSweep
  <2>4. threads' \in [Sweep!Sweeps -> T]
    BY <1>0, <1>w, <2>2, NextIsBorn
  <2>5. state' \in Sweep!State
    BY <1>0, <2>3, NextIsBorn, SwRunningIsState
  <2> QED
    BY <1>0, <2>1, <2>4, <2>5
<1>3. ASSUME Sweep!Restart PROVE Goal
  <2>1. Sweep!Idle \in Sweep!State
    BY DEF Sweep!Idle, Sweep!State, Sweep!Statuses, Sweep!Results, Sweep!Nothing
  <2>2. threads' \in [Sweep!Sweeps -> T]
    BY <1>3, <1>w DEF Sweep!Restart
  <2> QED
    BY <1>0, <1>3, <2>1, <2>2 DEF Sweep!Restart
<1>4. ASSUME NEW s \in Sweep!Sweeps, Sweep!RunPipeline(s) PROVE Goal
  <2>1. \A status \in {"completed", "failed"} : [sweep |-> s, status |-> status] \in Sweep!Row
    BY DEF Sweep!Row
  <2>2. rows' \in Seq(Sweep!Row)
    <3>1. \/ rows' = rows
          \/ \E status \in {"completed", "failed"} :
                rows' = Append(rows, [sweep |-> s, status |-> status])
      BY <1>4
      DEF Sweep!RunPipeline, Sweep!Begin, Sweep!Scan, Sweep!Persist, Sweep!Complete, Sweep!Fail,
          Sweep!PublishFailure
    <3> QED
      BY <1>0, <2>1, <3>1
  <2>3. threads' \in [Sweep!Sweeps -> T]
    <3>1. \E stage \in T : threads' = [threads EXCEPT ![s] = stage]
      BY <1>4, <1>w
      DEF Sweep!RunPipeline, Sweep!Begin, Sweep!Scan, Sweep!Persist, Sweep!Complete, Sweep!Fail,
          Sweep!PublishFailure
    <3> QED
      BY <1>0, <3>1
  <2>4. state' \in Sweep!State
    <3>1. \A part \in {"some", "all"} : [sweep |-> s, part |-> part] \in Sweep!Results
      BY DEF Sweep!Results
    <3>2. CASE state' = Sweep!Running(s) \/ state' = state
      BY <1>0, <3>2, SwRunningIsState
    <3>3. CASE state' = [state EXCEPT !.status = "failed"]
      BY <1>0, <3>3 DEF Sweep!State, Sweep!Statuses
    <3>4. CASE state' = [state EXCEPT !.results = [sweep |-> s, part |-> "some"]]
      BY <1>0, <3>1, <3>4 DEF Sweep!State
    <3>5. CASE state' = [state EXCEPT !.status = "completed",
                                      !.results = [sweep |-> s, part |-> "all"]]
      BY <1>0, <3>1, <3>5 DEF Sweep!State, Sweep!Statuses
    <3> QED
      BY <1>4, <3>2, <3>3, <3>4, <3>5
      DEF Sweep!RunPipeline, Sweep!Begin, Sweep!Scan, Sweep!Persist, Sweep!Complete, Sweep!Fail,
          Sweep!PublishFailure
  <2> QED
    BY <2>2, <2>3, <2>4
<1>5. UNCHANGED Sweep!server \/ Sweep!RunSweep \/ Sweep!Restart \/
        \E s \in Sweep!Sweeps : Sweep!RunPipeline(s)
  BY DEF Sweep!Next, Sweep!Tick, Sweep!Reload, Sweep!HandleRun, Sweep!Started, Sweep!GetStatus,
     Sweep!PollArrives, Sweep!GetLoad, Sweep!LoadArrives, Sweep!server
<1> QED
  BY <1>1, <1>2, <1>3, <1>4, <1>5

(* What a call keeps when it is served.                                    *)
LEMMA SwPollTypes ==
    ASSUME Sweep!TypeOK, Sweep!Next
    PROVE  polls' \in Seq(Sweep!Poll)
<1>0. polls \in Seq(Sweep!Poll) /\ state.status \in Sweep!Statuses
  BY DEF Sweep!TypeOK, Sweep!State
<1>1. ASSUME NEW i \in DOMAIN polls, Sweep!GetStatus(i) PROVE polls' \in Seq(Sweep!Poll)
  <2>1. PICK answer \in Sweep!Statuses \cup {"lost"} : polls' = [polls EXCEPT ![i].answer = answer]
    <3>1. CASE polls' = [polls EXCEPT ![i].answer = state.status]
      BY <1>0, <3>1
    <3>2. CASE polls' = [polls EXCEPT ![i].answer = "lost"]
      BY <3>2
    <3> QED
      BY <1>1, <3>1, <3>2 DEF Sweep!GetStatus
  <2>0. polls[i] \in Sweep!Poll
    BY <1>0
  <2>2. [polls[i] EXCEPT !.answer = answer] \in Sweep!Poll
    BY <2>0 DEF Sweep!Poll
  <2>3. polls' = [polls EXCEPT ![i] = [polls[i] EXCEPT !.answer = answer]]
    BY <2>1
  <2> QED
    BY <1>0, <2>2, <2>3
<1>2. ASSUME NEW i \in DOMAIN polls, Sweep!PollArrives(i) PROVE polls' \in Seq(Sweep!Poll)
  BY <1>0, <1>2, Removed, SweepSequences DEF Sweep!PollArrives
<1>3. ASSUME Sweep!Tick \/ Sweep!Started PROVE polls' \in Seq(Sweep!Poll)
  <2>1. Sweep!NewPoll(TRUE) \in Sweep!Poll /\ Sweep!NewPoll(FALSE) \in Sweep!Poll
    BY NewCalls
  <2>2. \A e \in Sweep!Poll : Append(polls, e) \in Seq(Sweep!Poll)
    BY <1>0
  <2> QED
    BY <1>0, <1>3, <2>1, <2>2 DEF Sweep!Tick, Sweep!Started
<1>4. ASSUME UNCHANGED polls PROVE polls' \in Seq(Sweep!Poll)
  BY <1>0, <1>4
<1> QED
  BY <1>1, <1>2, <1>3, <1>4 DEF Sweep!Next, Sweep!Reload, Sweep!HandleRun, Sweep!RunSweep,
     Sweep!Restart, Sweep!GetLoad, Sweep!LoadArrives, Sweep!RunPipeline, Sweep!calls

LEMMA SwLoadTypes ==
    ASSUME Sweep!TypeOK, Sweep!Next
    PROVE  loads' \in Seq(Sweep!Load)
<1>0. loads \in Seq(Sweep!Load)
  BY DEF Sweep!TypeOK
<1>1. ASSUME NEW i \in DOMAIN loads, Sweep!GetLoad(i) PROVE loads' \in Seq(Sweep!Load)
  <2>0. loads[i] \in Sweep!Load
    BY <1>0
  <2>1. CASE loads' = [loads EXCEPT ![i].answer = "lost"]
    <3>1. [loads[i] EXCEPT !.answer = "lost"] \in Sweep!Load
      BY <2>0 DEF Sweep!Load
    <3> QED
      BY <1>0, <2>1, <3>1
  <2>2. CASE loads' # [loads EXCEPT ![i].answer = "lost"]
    <3>1. PICK r \in {Sweep!GetResults, loads[i].results},
               h \in {Sweep!ListSweepHistory, loads[i].history} :
             loads' = [loads EXCEPT ![i].answer = "done", ![i].results = r, ![i].history = h]
      BY <1>1, <2>2 DEF Sweep!GetLoad
    <3>2. r \in Sweep!Results /\ h \in SUBSET Sweep!Sweeps
      BY <2>0, <3>1, SwResultsTypes DEF Sweep!Load
    <3>3. [loads[i] EXCEPT !.answer = "done", !.results = r, !.history = h] \in Sweep!Load
      BY <2>0, <3>2 DEF Sweep!Load
    <3>4. loads' = [loads EXCEPT ![i] =
                       [loads[i] EXCEPT !.answer = "done", !.results = r, !.history = h]]
      BY <1>0, <3>1
    <3> QED
      BY <1>0, <3>3, <3>4
  <2> QED
    BY <2>1, <2>2
<1>2. ASSUME NEW i \in DOMAIN loads, Sweep!LoadArrives(i) PROVE loads' \in Seq(Sweep!Load)
  BY <1>0, <1>2, Removed, SweepSequences DEF Sweep!LoadArrives
<1>3. ASSUME Sweep!Reload PROVE loads' \in Seq(Sweep!Load)
  <2>1. \A d, e \in Sweep!Load : loads \o <<d, e>> \in Seq(Sweep!Load)
    BY <1>0
  <2> QED
    BY <1>3, <2>1, NewCalls, Zenon DEF Sweep!Reload
<1>4. ASSUME NEW i \in DOMAIN polls, Sweep!PollArrives(i) PROVE loads' \in Seq(Sweep!Load)
  <2>1. \A e \in Sweep!Load : Append(loads, e) \in Seq(Sweep!Load)
    BY <1>0
  <2> QED
    BY <1>0, <1>4, <2>1, NewCalls, Zenon DEF Sweep!PollArrives
<1>5. ASSUME UNCHANGED loads PROVE loads' \in Seq(Sweep!Load)
  BY <1>0, <1>5
<1> QED
  BY <1>1, <1>2, <1>3, <1>4, <1>5 DEF Sweep!Next, Sweep!Tick, Sweep!Started, Sweep!HandleRun,
     Sweep!RunSweep, Sweep!Restart, Sweep!GetStatus, Sweep!RunPipeline, Sweep!calls

LEMMA SwPageTypes ==
    ASSUME Sweep!TypeOK, Sweep!Next
    PROVE  page' \in Sweep!Page
<1>0. page \in Sweep!Page /\ polls \in Seq(Sweep!Poll) /\ loads \in Seq(Sweep!Load)
  BY DEF Sweep!TypeOK
<1>1. ASSUME Sweep!Reload \/ Sweep!HandleRun \/ Sweep!Started PROVE page' \in Sweep!Page
  BY <1>0, <1>1 DEF Sweep!Reload, Sweep!HandleRun, Sweep!Started, Sweep!Page
<1>2. ASSUME NEW i \in DOMAIN polls, Sweep!PollArrives(i) PROVE page' \in Sweep!Page
  <2>0. polls[i] \in Sweep!Poll /\ polls[i].answer # "pending"
    BY <1>0, <1>2 DEF Sweep!PollArrives
  <2>1. polls[i].answer \in Sweep!Statuses \/ polls[i].answer = "lost"
    BY <2>0 DEF Sweep!Poll
  <2>2. ASSUME NEW status \in Sweep!Statuses PROVE Sweep!WithStatus(page, status) \in Sweep!Page
    <3>1. PICK b \in BOOLEAN, c \in BOOLEAN :
             Sweep!WithStatus(page, status) =
                 [page EXCEPT !.status = status, !.interval = b, !.reload = c]
      <4>1. (status = "running") \in BOOLEAN
        OBVIOUS
      <4>2. (IF status = page.status THEN page.reload ELSE status = "completed") \in BOOLEAN
        BY <1>0 DEF Sweep!Page
      <4> QED
        BY <4>1, <4>2 DEF Sweep!WithStatus
    <3> QED
      BY <1>0, <3>1 DEF Sweep!Page
  <2> QED
    BY <1>0, <1>2, <2>1, <2>2 DEF Sweep!PollArrives
<1>3. ASSUME NEW i \in DOMAIN loads, Sweep!LoadArrives(i) PROVE page' \in Sweep!Page
  <2>0. loads[i] \in Sweep!Load
    BY <1>0
  <2>1. PICK r \in {loads[i].results, page.results}, h \in {loads[i].history, page.history},
             b \in {page.starting /\ ~loads[i].awaited} :
           page' = [page EXCEPT !.results = r, !.history = h, !.starting = b]
    BY <1>3 DEF Sweep!LoadArrives
  <2>2. r \in Sweep!Results /\ h \in SUBSET Sweep!Sweeps /\ b \in BOOLEAN
    BY <1>0, <2>0 DEF Sweep!Load, Sweep!Page
  <2> QED
    BY <1>0, <2>1, <2>2 DEF Sweep!Page
<1>4. ASSUME UNCHANGED page PROVE page' \in Sweep!Page
  BY <1>0, <1>4
<1> QED
  BY <1>1, <1>2, <1>3, <1>4 DEF Sweep!Next, Sweep!Tick, Sweep!RunSweep, Sweep!Restart,
     Sweep!GetStatus, Sweep!GetLoad, Sweep!RunPipeline

LEMMA SwTypes ==
    ASSUME Sweep!TypeOK, Sweep!Next
    PROVE  Sweep!TypeOK'
<1>1. run' \in {"none", "post", "accepted", "refused", "status", "history"}
  <2>1. UNCHANGED run \/ run' \in {"none", "post", "accepted", "refused", "status", "history"}
    BY DEF Sweep!Next, Sweep!Tick, Sweep!Reload, Sweep!HandleRun, Sweep!RunSweep, Sweep!Started,
       Sweep!Restart, Sweep!GetStatus, Sweep!PollArrives, Sweep!GetLoad, Sweep!LoadArrives,
       Sweep!RunPipeline, Sweep!calls
  <2> QED
    BY <2>1 DEF Sweep!TypeOK
<1>2. {unseen', disturbed'} \subseteq BOOLEAN
  <2>1. unseen' \in BOOLEAN
    BY DEF Sweep!TypeOK, Sweep!Next, Sweep!Tick, Sweep!Reload, Sweep!HandleRun, Sweep!RunSweep,
       Sweep!Started, Sweep!Restart, Sweep!GetStatus, Sweep!PollArrives, Sweep!GetLoad,
       Sweep!LoadArrives, Sweep!RunPipeline, Sweep!observed
  <2>2. disturbed' \in BOOLEAN
    BY DEF Sweep!TypeOK, Sweep!Next, Sweep!Tick, Sweep!Reload, Sweep!HandleRun, Sweep!RunSweep,
       Sweep!Started, Sweep!Restart, Sweep!GetStatus, Sweep!PollArrives, Sweep!GetLoad,
       Sweep!LoadArrives, Sweep!RunPipeline, Sweep!observed
  <2> QED
    BY <2>1, <2>2
<1>3. clicks' \in 0 .. FewClicks /\ failures' \in 0 .. MaxFailures
  BY SwMoves, SwBounds DEF Sweep!TypeOK
<1> QED
  BY <1>1, <1>2, <1>3, SwServerTypes, SwPollTypes, SwLoadTypes, SwPageTypes DEF Sweep!TypeOK

(* What the server does.                                                   *)
LEMMA RowsAdded ==
    ASSUME Sweep!TypeOK, NEW s \in Sweep!Sweeps, NEW status \in {"completed", "failed"},
           rows' = Append(rows, [sweep |-> s, status |-> status])
    PROVE  /\ \A o : Sweep!HasRow(o)' <=> Sweep!HasRow(o) \/ o = s
           /\ Sweep!Last(rows') = [sweep |-> s, status |-> status]
<1> DEFINE row == [sweep |-> s, status |-> status]
<1>1. rows \in Seq(Sweep!Row) /\ row \in Sweep!Row
  BY DEF Sweep!TypeOK, Sweep!Row
<1>2. row.sweep = s
  OBVIOUS
<1> HIDE DEF row
<1>3. /\ DOMAIN rows' = DOMAIN rows \cup {Len(rows) + 1} /\ rows'[Len(rows) + 1] = row
      /\ \A j \in DOMAIN rows : rows'[j] = rows[j]
  BY <1>1, Added DEF row
<1>4. \A o : Sweep!HasRow(o)' <=> Sweep!HasRow(o) \/ o = s
  BY <1>2, <1>3 DEF Sweep!HasRow
<1>5. Sweep!Last(rows') = row
  <2>1. rows' \in Seq(Sweep!Row) /\ Len(rows') = Len(rows) + 1
    BY <1>1 DEF row
  <2> QED
    BY <1>3, <2>1 DEF Sweep!Last
<1> QED
  BY <1>4, <1>5 DEF row

LEMMA SwBirth ==
    ASSUME Sweep!TypeOK, Sweep!RunSweep
    PROVE  /\ rows' = rows
           /\ \/ threads' = threads /\ state' = state
              \/ /\ Sweep!Unborn # {} /\ state.status # "running"
                 /\ Sweep!NextSweep \in Sweep!Sweeps /\ threads[Sweep!NextSweep] = "unborn"
                 /\ \A o \in Sweep!Unborn : Sweep!NextSweep <= o
                 /\ \/ /\ threads' = [threads EXCEPT ![Sweep!NextSweep] = "started"]
                       /\ state' = state
                    \/ /\ threads' = [threads EXCEPT ![Sweep!NextSweep] = "running"]
                       /\ state' = Sweep!Running(Sweep!NextSweep)
BY NextIsBorn DEF Sweep!RunSweep

LEMMA SwPipe ==
    ASSUME Sweep!TypeOK, NEW s \in Sweep!Sweeps, Sweep!RunPipeline(s)
    PROVE  /\ threads[s] \notin {"unborn", "ended"} /\ threads'[s] # "unborn"
           /\ \A o \in Sweep!Sweeps : o # s => threads'[o] = threads[o]
           /\ UNCHANGED <<page, Sweep!calls, Sweep!observed>>
<1>0. threads \in [Sweep!Sweeps -> Sweep!Stages]
  BY DEF Sweep!TypeOK
<1>1. PICK stage \in {"started", "running", "scanned", "persisted", "failing", "ended"} :
         threads' = [threads EXCEPT ![s] = stage]
  BY DEF Sweep!RunPipeline, Sweep!Begin, Sweep!Scan, Sweep!Persist, Sweep!Complete, Sweep!Fail,
     Sweep!PublishFailure
<1>2. threads[s] \notin {"unborn", "ended"}
  BY DEF Sweep!RunPipeline, Sweep!Begin, Sweep!Scan, Sweep!Persist, Sweep!Complete, Sweep!Fail,
     Sweep!PublishFailure
<1>3. UNCHANGED <<page, Sweep!calls, Sweep!observed>>
  BY DEF Sweep!RunPipeline
<1> QED
  BY <1>0, <1>1, <1>2, <1>3

LEMMA SwServerSteps ==
    Sweep!Next => UNCHANGED Sweep!server \/ Sweep!RunSweep \/ Sweep!Restart \/
      \E s \in Sweep!Sweeps : Sweep!RunPipeline(s)
BY DEF Sweep!Next, Sweep!Tick, Sweep!Reload, Sweep!HandleRun, Sweep!Started, Sweep!GetStatus,
   Sweep!PollArrives, Sweep!GetLoad, Sweep!LoadArrives, Sweep!server

LEMMA SwServerIsSound ==
    ASSUME Sweep!TypeOK, Sweep!ServerIsSound, Sweep!Next
    PROVE  Sweep!ServerIsSound'
<1>0. /\ Sweep!Sweeps \subseteq Nat /\ state \in Sweep!State
      /\ threads \in [Sweep!Sweeps -> Sweep!Stages]
  BY SweepsAssumption DEF Sweep!TypeOK, Sweep!Sweeps
<1>1. ASSUME UNCHANGED Sweep!server PROVE Sweep!ServerIsSound'
  BY <1>1 DEF Sweep!server, Sweep!ServerIsSound, Sweep!HasRow
<1>2. ASSUME Sweep!RunSweep PROVE Sweep!ServerIsSound'
  <2>1. CASE threads' = threads /\ state' = state
    BY <2>1, <1>2, SwBirth DEF Sweep!ServerIsSound, Sweep!HasRow
  <2>2. CASE ~(threads' = threads /\ state' = state)
    <3> DEFINE n == Sweep!NextSweep
    <3>1. /\ n \in Sweep!Sweeps /\ threads[n] = "unborn" /\ \A o \in Sweep!Unborn : n <= o
          /\ state.status # "running" /\ rows' = rows
      BY <1>2, <2>2, SwBirth
    <3>2. PICK stage \in {"started", "running"} :
             /\ threads' = [threads EXCEPT ![n] = stage]
             /\ stage = "started" => state' = state
             /\ stage = "running" => state' = Sweep!Running(n)
      BY <1>2, <2>2, SwBirth
    <3> HIDE DEF n
    <3>3. threads'[n] = stage /\ \A o \in Sweep!Sweeps \ {n} : threads'[o] = threads[o]
      BY <1>0, <3>1, <3>2
    <3>4. \A s, o \in Sweep!Sweeps : o < s /\ threads'[s] # "unborn" => threads'[o] # "unborn"
      <4> SUFFICES ASSUME NEW s \in Sweep!Sweeps, NEW o \in Sweep!Sweeps, o < s,
                          threads'[s] # "unborn",
                          o # n
                   PROVE  threads[o] # "unborn"
        BY <3>2, <3>3
      <4>1. CASE s = n
        BY <1>0, <3>1, <4>1 DEF Sweep!Unborn
      <4>2. CASE s # n
        BY <3>3, <4>2 DEF Sweep!ServerIsSound
      <4> QED
        BY <4>1, <4>2
    <3>5. \A s \in Sweep!Sweeps :
             threads'[s] \in {"unborn", "started", "running", "scanned"} => ~Sweep!HasRow(s)'
      BY <3>1, <3>3 DEF Sweep!ServerIsSound, Sweep!HasRow
    <3>6. state'.status = "running" =>
             state'.sweep \in Sweep!Sweeps /\
               threads'[state'.sweep] \in Sweep!Working
      BY <3>1, <3>2, <3>3 DEF Sweep!Running, Sweep!ServerIsSound, Sweep!Working
    <3> QED
      BY <3>4, <3>5, <3>6 DEF Sweep!ServerIsSound
  <2> QED
    BY <2>1, <2>2
<1>3. ASSUME Sweep!Restart PROVE Sweep!ServerIsSound'
  <2>1. \A s \in Sweep!Sweeps : threads'[s] = "unborn" <=> threads[s] = "unborn"
    BY <1>0, <1>3 DEF Sweep!Restart
  <2>2. \A s \in Sweep!Sweeps : threads'[s] \in {"unborn", "ended"}
    BY <1>0, <1>3 DEF Sweep!Restart
  <2>3. rows' = rows /\ state'.status = "idle"
    BY <1>3 DEF Sweep!Restart, Sweep!Idle
  <2> QED
    BY <2>1, <2>2, <2>3 DEF Sweep!ServerIsSound, Sweep!HasRow
<1>4. ASSUME NEW s \in Sweep!Sweeps, Sweep!RunPipeline(s) PROVE Sweep!ServerIsSound'
  <2>0. /\ threads[s] \notin {"unborn", "ended"} /\ threads'[s] # "unborn"
        /\ \A o \in Sweep!Sweeps : o # s => threads'[o] = threads[o]
    BY <1>4, SwPipe
  <2>1. \A r, o \in Sweep!Sweeps : o < r /\ threads'[r] # "unborn" => threads'[o] # "unborn"
    BY <2>0 DEF Sweep!ServerIsSound
  <2>2. \A o \in Sweep!Sweeps :
           threads'[o] \in {"unborn", "started", "running", "scanned"} => ~Sweep!HasRow(o)'
    <3>1. CASE rows' = rows /\ threads[s] \in {"started", "running", "scanned"}
      BY <2>0, <3>1 DEF Sweep!ServerIsSound, Sweep!HasRow
    <3>2. CASE threads'[s] \in {"persisted", "failing", "ended"}
      <4>1. \A o : Sweep!HasRow(o)' => Sweep!HasRow(o) \/ o = s
        <5>1. CASE rows' = rows
          BY <5>1 DEF Sweep!HasRow
        <5>2. CASE rows' # rows
          BY <1>4, <5>2, RowsAdded
          DEF Sweep!RunPipeline, Sweep!Begin, Sweep!Scan, Sweep!Persist, Sweep!Complete, Sweep!Fail,
          Sweep!PublishFailure
        <5> QED
          BY <5>1, <5>2
      <4> QED
        BY <2>0, <3>2, <4>1 DEF Sweep!ServerIsSound
    <3> QED
      BY <1>0, <1>4, <3>1, <3>2
      DEF Sweep!RunPipeline, Sweep!Begin, Sweep!Scan, Sweep!Persist, Sweep!Complete, Sweep!Fail,
          Sweep!PublishFailure
  <2>3. state'.status = "running" =>
           state'.sweep \in Sweep!Sweeps /\
             threads'[state'.sweep] \in Sweep!Working
    <3>w. {"running", "scanned", "persisted", "failing"} = Sweep!Working
      BY DEF Sweep!Working
    <3>1. CASE Sweep!Begin(s)
      BY <1>0, <3>1, <3>w DEF Sweep!Begin, Sweep!Running
    <3>2. CASE Sweep!Scan(s)
      <4>1. threads'[s] = "scanned" /\ state'.status = state.status /\ state'.sweep = state.sweep
        BY <1>0, <3>2 DEF Sweep!Scan, Sweep!State
      <4> QED
        BY <2>0, <3>w, <4>1 DEF Sweep!ServerIsSound
    <3>3. CASE Sweep!Persist(s) \/ Sweep!Fail(s)
      <4>1. threads'[s] \in {"persisted", "failing"} /\ state' = state
        BY <1>0, <3>3 DEF Sweep!Persist, Sweep!Fail
      <4> QED
        BY <2>0, <3>w, <4>1 DEF Sweep!ServerIsSound
    <3>4. CASE Sweep!Complete(s) \/ Sweep!PublishFailure(s)
      <4>1. state'.status # "running"
        BY <1>0, <3>4 DEF Sweep!Complete, Sweep!PublishFailure, Sweep!State
      <4> QED
        BY <4>1
    <3> QED
      BY <1>4, <3>1, <3>2, <3>3, <3>4 DEF Sweep!RunPipeline
  <2> QED
    BY <2>1, <2>2, <2>3 DEF Sweep!ServerIsSound
<1> QED
  BY <1>1, <1>2, <1>3, <1>4, SwServerSteps

(* What a step does with the calls.                                        *)
LEMMA NewPollFields ==
    /\ \E e \in Sweep!Poll : e = Sweep!NewPoll(TRUE) /\ e.awaited /\ e.answer = "pending"
    /\ \E e \in Sweep!Poll : e = Sweep!NewPoll(FALSE) /\ ~e.awaited /\ e.answer = "pending"
<1>1. \A b \in BOOLEAN : Sweep!NewPoll(b).awaited = b /\ Sweep!NewPoll(b).answer = "pending"
  BY DEF Sweep!NewPoll
<1>2. Sweep!NewPoll(TRUE) \in Sweep!Poll /\ Sweep!NewPoll(TRUE).awaited /\
        Sweep!NewPoll(TRUE).answer = "pending"
  BY <1>1, NewCalls, Zenon
<1>3. Sweep!NewPoll(FALSE) \in Sweep!Poll /\ ~Sweep!NewPoll(FALSE).awaited /\
        Sweep!NewPoll(FALSE).answer = "pending"
  BY <1>1, NewCalls, Zenon
<1> QED
  BY <1>2, <1>3, Zenon

LEMMA NewLoadFields ==
    /\ \E e \in Sweep!Load : /\ e = Sweep!NewLoad("history", TRUE)
                             /\ e.awaited /\ e.answer = "pending" /\ e.kind = "history"
    /\ \A k \in {"results", "history"} : \E e \in Sweep!Load :
          e = Sweep!NewLoad(k, FALSE) /\ ~e.awaited /\ e.answer = "pending" /\ e.kind = k
<1>1. \A k \in {"results", "history"}, b \in BOOLEAN :
         Sweep!NewLoad(k, b).awaited = b /\ Sweep!NewLoad(k, b).answer = "pending" /\
           Sweep!NewLoad(k, b).kind = k
  BY DEF Sweep!NewLoad
<1>2. \A k \in {"results", "history"}, b \in BOOLEAN : Sweep!NewLoad(k, b) \in Sweep!Load
  BY NewCalls, Zenon
<1>3. \A k \in {"results", "history"} :
         Sweep!NewLoad(k, FALSE) \in Sweep!Load /\ ~Sweep!NewLoad(k, FALSE).awaited
  BY <1>1, <1>2, Zenon
<1>4. Sweep!NewLoad("history", TRUE) \in Sweep!Load /\ Sweep!NewLoad("history", TRUE).awaited
  BY <1>1, <1>2, Zenon
<1>5. /\ Sweep!NewLoad("history", TRUE).answer = "pending"
      /\ Sweep!NewLoad("history", TRUE).kind = "history"
      /\ \A k \in {"results", "history"} :
            Sweep!NewLoad(k, FALSE).answer = "pending" /\ Sweep!NewLoad(k, FALSE).kind = k
  BY <1>1, Zenon
<1> QED
  BY <1>3, <1>4, <1>5, Zenon

LEMMA SwTick ==
    ASSUME Sweep!TypeOK, Sweep!Tick
    PROVE  /\ UNCHANGED <<page, loads, run, Sweep!server, Sweep!observed, Sweep!bounds>>
           /\ DOMAIN polls' = DOMAIN polls \cup {Len(polls) + 1}
           /\ Len(polls) + 1 \notin DOMAIN polls
           /\ \A k \in DOMAIN polls : polls'[k] = polls[k]
           /\ ~polls'[Len(polls) + 1].awaited /\ polls'[Len(polls) + 1].answer = "pending"
<1>1. PICK e \in Sweep!Poll : polls' = Append(polls, e) /\ ~e.awaited /\ e.answer = "pending"
  BY NewPollFields, Zenon DEF Sweep!Tick
<1>2. polls \in Seq(Sweep!Poll)
  BY DEF Sweep!TypeOK
<1>3. UNCHANGED <<page, loads, run, Sweep!server, Sweep!observed, Sweep!bounds>>
  BY DEF Sweep!Tick
<1> QED
  BY <1>1, <1>2, <1>3, Added

LEMMA SwStarted ==
    ASSUME Sweep!TypeOK, Sweep!Started, run = "accepted"
    PROVE  /\ run' = "status"
           /\ UNCHANGED <<page, loads, Sweep!server, Sweep!observed, Sweep!bounds>>
           /\ DOMAIN polls' = DOMAIN polls \cup {Len(polls) + 1}
           /\ Len(polls) + 1 \notin DOMAIN polls
           /\ \A k \in DOMAIN polls : polls'[k] = polls[k] /\ k <= Len(polls) + 1
           /\ polls'[Len(polls) + 1].awaited /\ polls'[Len(polls) + 1].answer = "pending"
<1>1. PICK e \in Sweep!Poll : polls' = Append(polls, e) /\ e.awaited /\ e.answer = "pending"
  BY NewPollFields, Zenon DEF Sweep!Started
<1>2. polls \in Seq(Sweep!Poll)
  BY DEF Sweep!TypeOK
<1>3. run' = "status" /\ UNCHANGED <<page, loads, Sweep!server, Sweep!observed, Sweep!bounds>>
  BY DEF Sweep!Started, Sweep!observed
<1> QED
  BY <1>1, <1>2, <1>3, Added

LEMMA SwServed ==
    ASSUME Sweep!TypeOK, NEW i \in DOMAIN polls, Sweep!GetStatus(i)
    PROVE  /\ UNCHANGED <<page, loads, run, Sweep!server, unseen>>
           /\ DOMAIN polls' = DOMAIN polls /\ polls[i].answer = "pending"
           /\ \A k \in DOMAIN polls : polls'[k].awaited = polls[k].awaited
           /\ \A k \in DOMAIN polls : k # i => polls'[k] = polls[k]
           /\ polls'[i].answer \in {state.status, "lost"}
<1>1. polls \in Seq(Sweep!Poll) /\ polls[i] \in Sweep!Poll
  BY DEF Sweep!TypeOK
<1>2. PICK answer \in {state.status, "lost"} : polls' = [polls EXCEPT ![i].answer = answer]
  BY DEF Sweep!GetStatus
<1>3. UNCHANGED <<page, loads, run, Sweep!server, unseen>> /\ polls[i].answer = "pending"
  BY DEF Sweep!GetStatus
<1>4. DOMAIN polls' = DOMAIN polls /\ \A k \in DOMAIN polls : k # i => polls'[k] = polls[k]
  BY <1>1, <1>2
<1>5. polls'[i] = [polls[i] EXCEPT !.answer = answer]
  BY <1>1, <1>2
<1>6. polls'[i].awaited = polls[i].awaited /\ polls'[i].answer = answer
  BY <1>1, <1>5 DEF Sweep!Poll
<1> QED
  BY <1>2, <1>3, <1>4, <1>6

LEMMA SwArrives ==
    ASSUME Sweep!TypeOK, NEW i \in DOMAIN polls, Sweep!PollArrives(i)
    PROVE  /\ polls[i].answer # "pending" /\ UNCHANGED Sweep!server
           /\ \A k \in DOMAIN polls' : /\ Before(k, i) \in DOMAIN polls /\ Before(k, i) # i
                                       /\ polls'[k] = polls[Before(k, i)]
           /\ \A k \in DOMAIN polls : k # i =>
                 \E j \in DOMAIN polls' : Before(j, i) = k /\ polls'[j] = polls[k]
           /\ ~polls[i].awaited => run' = run /\ loads' = loads
<1>1. polls \in Seq(Sweep!Poll) /\ i \in 1 .. Len(polls) /\ Len(polls) \in Nat
  BY DEF Sweep!TypeOK
<1>2. /\ polls' = Sweep!RemoveAt(polls, i) /\ polls[i].answer # "pending" /\ UNCHANGED Sweep!server
      /\ ~polls[i].awaited => run' = run /\ loads' = loads
  BY DEF Sweep!PollArrives
<1>3. /\ polls' \in Seq(Sweep!Poll) /\ Len(polls') = Len(polls) - 1
      /\ \A k \in DOMAIN polls' : /\ Before(k, i) \in DOMAIN polls /\ Before(k, i) # i
                                  /\ polls'[k] = polls[Before(k, i)]
  BY <1>1, <1>2, Removed, SweepSequences
<1>4. ASSUME NEW k \in DOMAIN polls, k # i
      PROVE  \E j \in DOMAIN polls' : Before(j, i) = k /\ polls'[j] = polls[k]
  <2>1. CASE k < i
    <3>1. k \in DOMAIN polls' /\ Before(k, i) = k
      BY <1>1, <1>3, <2>1 DEF Before
    <3> QED
      BY <1>3, <3>1
  <2>2. CASE ~(k < i)
    <3>1. k - 1 \in DOMAIN polls' /\ Before(k - 1, i) = k
      BY <1>1, <1>3, <1>4, <2>2 DEF Before
    <3> QED
      BY <1>3, <3>1
  <2> QED
    BY <2>1, <2>2
<1> QED
  BY <1>2, <1>3, <1>4

LEMMA SwGoesOn ==
    ASSUME Sweep!TypeOK, NEW i \in DOMAIN polls, Sweep!PollArrives(i), polls[i].awaited
    PROVE  /\ run' = "history" /\ page'.starting = page.starting
           /\ DOMAIN loads' = DOMAIN loads \cup {Len(loads) + 1}
           /\ Len(loads) + 1 \notin DOMAIN loads
           /\ \A k \in DOMAIN loads : loads'[k] = loads[k]
           /\ loads'[Len(loads) + 1].awaited
<1>1. PICK e \in Sweep!Load : loads' = Append(loads, e) /\ e.awaited
  BY NewLoadFields, Zenon DEF Sweep!PollArrives
<1>2. loads \in Seq(Sweep!Load) /\ page \in Sweep!Page
  BY DEF Sweep!TypeOK
<1>3. run' = "history"
  BY DEF Sweep!PollArrives
<1>4. page'.starting = page.starting
  BY <1>2 DEF Sweep!PollArrives, Sweep!WithStatus, Sweep!Page
<1> QED
  BY <1>1, <1>2, <1>3, <1>4, Added

LEMMA SwReload ==
    ASSUME Sweep!TypeOK, Sweep!Reload
    PROVE  /\ UNCHANGED <<polls, run, Sweep!server, Sweep!observed, Sweep!bounds>>
           /\ page.reload /\ page' = [page EXCEPT !.reload = FALSE]
           /\ DOMAIN loads' = DOMAIN loads \cup {Len(loads) + 1, Len(loads) + 2}
           /\ \A k \in DOMAIN loads : loads'[k] = loads[k] /\ k < Len(loads) + 1
           /\ Len(loads) \in Nat
           /\ \A k \in {Len(loads) + 1, Len(loads) + 2} :
                 ~loads'[k].awaited /\ loads'[k].answer = "pending"
           /\ loads'[Len(loads) + 1].kind = "results"
           /\ loads'[Len(loads) + 2].kind = "history"
<1>1. PICK d \in Sweep!Load, e \in Sweep!Load :
         /\ loads' = loads \o <<d, e>>
         /\ ~d.awaited /\ d.answer = "pending" /\ d.kind = "results"
         /\ ~e.awaited /\ e.answer = "pending" /\ e.kind = "history"
  BY NewLoadFields, Zenon DEF Sweep!Reload
<1>2. loads \in Seq(Sweep!Load)
  BY DEF Sweep!TypeOK
<1>3. /\ UNCHANGED <<polls, run, Sweep!server, Sweep!observed, Sweep!bounds>>
      /\ page.reload /\ page' = [page EXCEPT !.reload = FALSE]
  BY DEF Sweep!Reload
<1>4. /\ Len(loads) \in Nat /\ Len(loads') = Len(loads) + 2 /\ loads' \in Seq(Sweep!Load)
      /\ \A k \in DOMAIN loads : loads'[k] = loads[k] /\ k < Len(loads) + 1
      /\ loads'[Len(loads) + 1] = d /\ loads'[Len(loads) + 2] = e
  BY <1>1, <1>2
<1>5. DOMAIN loads' = DOMAIN loads \cup {Len(loads) + 1, Len(loads) + 2}
  BY <1>2, <1>4
<1> QED
  BY <1>1, <1>3, <1>4, <1>5

LEMMA SwLoadServed ==
    ASSUME Sweep!TypeOK, NEW i \in DOMAIN loads, Sweep!GetLoad(i)
    PROVE  /\ UNCHANGED <<page, polls, run, Sweep!server, unseen>>
           /\ DOMAIN loads' = DOMAIN loads
           /\ \A k \in DOMAIN loads :
                 loads'[k].awaited = loads[k].awaited /\ loads'[k].kind = loads[k].kind
           /\ \A k \in DOMAIN loads : k # i => loads'[k] = loads[k]
           /\ loads'[i].answer = "done" =>
                 /\ loads[i].kind = "results" => loads'[i].results = Sweep!GetResults
                 /\ loads[i].kind = "history" => loads'[i].history = Sweep!ListSweepHistory
<1>1. loads \in Seq(Sweep!Load) /\ loads[i] \in Sweep!Load
  BY DEF Sweep!TypeOK
<1>2. UNCHANGED <<page, polls, run, Sweep!server, unseen>>
  BY DEF Sweep!GetLoad
<1> DEFINE lost == [loads[i] EXCEPT !.answer = "lost"]
           done == [loads[i] EXCEPT !.answer = "done",
                       !.results = IF loads[i].kind = "results" THEN Sweep!GetResults ELSE @,
                       !.history = IF loads[i].kind = "history" THEN Sweep!ListSweepHistory ELSE @]
<1>3. \E e \in {lost, done} : loads' = [loads EXCEPT ![i] = e]
  BY <1>1 DEF Sweep!GetLoad
<1>4. lost.answer = "lost" /\ lost.awaited = loads[i].awaited /\ lost.kind = loads[i].kind
  BY <1>1 DEF Sweep!Load
<1>5. done.awaited = loads[i].awaited /\ done.kind = loads[i].kind
  BY <1>1 DEF Sweep!Load
<1>6. loads[i].kind = "results" => done.results = Sweep!GetResults
  BY <1>1 DEF Sweep!Load
<1>7. loads[i].kind = "history" => done.history = Sweep!ListSweepHistory
  BY <1>1 DEF Sweep!Load
<1> HIDE DEF lost, done
<1> QED
  BY <1>1, <1>2, <1>3, <1>4, <1>5, <1>6, <1>7

LEMMA SwLoadArrives ==
    ASSUME Sweep!TypeOK, NEW i \in DOMAIN loads, Sweep!LoadArrives(i)
    PROVE  /\ UNCHANGED <<polls, Sweep!server, unseen>>
           /\ loads[i].awaited => run' = "none"
           /\ ~loads[i].awaited => run' = run /\ page'.starting = page.starting
           /\ page'.status = page.status /\ page'.reload = page.reload
           /\ page'.results = IF loads[i].kind = "results" /\ loads[i].answer = "done"
                              THEN loads[i].results ELSE page.results
           /\ page'.history = IF loads[i].kind = "history" /\ loads[i].answer = "done"
                              THEN loads[i].history ELSE page.history
           /\ \A k \in DOMAIN loads' : /\ Before(k, i) \in DOMAIN loads /\ Before(k, i) # i
                                       /\ loads'[k] = loads[Before(k, i)]
           /\ \A k \in DOMAIN loads : k # i =>
                 \E j \in DOMAIN loads' : Before(j, i) = k /\ loads'[j] = loads[k]
<1>1. loads \in Seq(Sweep!Load) /\ i \in 1 .. Len(loads) /\ Len(loads) \in Nat /\
        page \in Sweep!Page
  BY DEF Sweep!TypeOK
<1>2. /\ UNCHANGED <<polls, Sweep!server, unseen>>
      /\ loads' = Sweep!RemoveAt(loads, i)
      /\ run' = IF loads[i].awaited THEN "none" ELSE run
  BY DEF Sweep!LoadArrives
<1>3. /\ page'.status = page.status /\ page'.reload = page.reload
      /\ page'.results = IF loads[i].kind = "results" /\ loads[i].answer = "done"
                         THEN loads[i].results ELSE page.results
      /\ page'.history = IF loads[i].kind = "history" /\ loads[i].answer = "done"
                         THEN loads[i].history ELSE page.history
  <2>1. PICK r \in {IF loads[i].kind = "results" /\ loads[i].answer = "done"
                    THEN loads[i].results ELSE page.results},
             h \in {IF loads[i].kind = "history" /\ loads[i].answer = "done"
                    THEN loads[i].history ELSE page.history},
             b \in {page.starting /\ ~loads[i].awaited} :
           page' = [page EXCEPT !.results = r, !.history = h, !.starting = b]
    BY DEF Sweep!LoadArrives
  <2>2. page'.status = page.status /\ page'.reload = page.reload
    BY <1>1, <2>1 DEF Sweep!Page
  <2>3. page'.results = r /\ page'.history = h
    BY <1>1, <2>1 DEF Sweep!Page
  <2> QED
    BY <2>2, <2>3
<1>4. ~loads[i].awaited => page'.starting = page.starting
  <2>1. page'.starting = (page.starting /\ ~loads[i].awaited)
    BY <1>1 DEF Sweep!LoadArrives, Sweep!Page
  <2>2. page.starting \in BOOLEAN
    BY <1>1 DEF Sweep!Page
  <2> QED
    BY <2>1, <2>2
<1>5. /\ loads' \in Seq(Sweep!Load) /\ Len(loads') = Len(loads) - 1
      /\ \A k \in DOMAIN loads' : /\ Before(k, i) \in DOMAIN loads /\ Before(k, i) # i
                                  /\ loads'[k] = loads[Before(k, i)]
  BY <1>1, <1>2, Removed, SweepSequences
<1>6. ASSUME NEW k \in DOMAIN loads, k # i
      PROVE  \E j \in DOMAIN loads' : Before(j, i) = k /\ loads'[j] = loads[k]
  <2>1. CASE k < i
    <3>1. k \in DOMAIN loads' /\ Before(k, i) = k
      BY <1>1, <1>5, <2>1 DEF Before
    <3> QED
      BY <1>5, <3>1
  <2>2. CASE ~(k < i)
    <3>1. k - 1 \in DOMAIN loads' /\ Before(k - 1, i) = k
      BY <1>1, <1>5, <1>6, <2>2 DEF Before
    <3> QED
      BY <1>5, <3>1
  <2> QED
    BY <2>1, <2>2
<1> QED
  BY <1>2, <1>3, <1>4, <1>5, <1>6

(* handleRun awaits one call at a time.                                    *)
LEMMA SwRunOnly ==
    ASSUME Sweep!TypeOK, Sweep!OneIsAwaited, Sweep!RunSweep \/ Sweep!HandleRun
    PROVE  /\ polls' = polls /\ loads' = loads
           /\ \A k \in DOMAIN polls : ~polls[k].awaited
           /\ \A k \in DOMAIN loads : ~loads[k].awaited
           /\ Sweep!RunSweep => run = "post" /\ run' \in {"accepted", "refused"} /\ page' = page
           /\ Sweep!HandleRun => /\ run = "none" /\ run' = "post"
                                 /\ page' = [page EXCEPT !.starting = TRUE]
<1>1. Sweep!RunSweep => run = "post" /\ run' \in {"accepted", "refused"} /\ page' = page
  BY DEF Sweep!RunSweep
<1>2. Sweep!HandleRun => ~page.starting /\ run' = "post" /\ page' = [page EXCEPT !.starting = TRUE]
  BY DEF Sweep!HandleRun
<1>3. run \in {"none", "post"} /\ (Sweep!HandleRun => run = "none")
  BY <1>1, <1>2 DEF Sweep!OneIsAwaited
<1>4. polls' = polls /\ loads' = loads
  BY DEF Sweep!RunSweep, Sweep!HandleRun
<1>5. /\ \A k \in DOMAIN polls : ~polls[k].awaited
      /\ \A k \in DOMAIN loads : ~loads[k].awaited
  BY <1>3 DEF Sweep!OneIsAwaited
<1> QED
  BY <1>1, <1>2, <1>3, <1>4, <1>5

LEMMA SwOneIsAwaited ==
    ASSUME Sweep!TypeOK, Sweep!OneIsAwaited, Sweep!Next
    PROVE  Sweep!OneIsAwaited'
<1>0. page \in Sweep!Page /\ polls \in Seq(Sweep!Poll) /\ loads \in Seq(Sweep!Load)
  BY DEF Sweep!TypeOK
<1>1. ASSUME UNCHANGED <<page, Sweep!calls>> PROVE Sweep!OneIsAwaited'
  BY <1>1 DEF Sweep!calls, Sweep!OneIsAwaited
<1>2. ASSUME Sweep!RunSweep \/ Sweep!HandleRun PROVE Sweep!OneIsAwaited'
  <2>1. Sweep!HandleRun => page'.starting
    BY <1>0, SwRunOnly, <1>2 DEF Sweep!Page
  <2> QED
    BY <1>2, <2>1, SwRunOnly DEF Sweep!OneIsAwaited
<1>3. ASSUME Sweep!Tick PROVE Sweep!OneIsAwaited'
  BY <1>3, SwTick DEF Sweep!OneIsAwaited
<1>4. ASSUME NEW i \in DOMAIN polls, Sweep!GetStatus(i) PROVE Sweep!OneIsAwaited'
  BY <1>4, SwServed DEF Sweep!OneIsAwaited
<1>5. ASSUME NEW i \in DOMAIN loads, Sweep!GetLoad(i) PROVE Sweep!OneIsAwaited'
  BY <1>5, SwLoadServed DEF Sweep!OneIsAwaited
<1>6. ASSUME Sweep!Reload PROVE Sweep!OneIsAwaited'
  <2>1. page'.starting = page.starting
    BY <1>0, <1>6, SwReload DEF Sweep!Page
  <2> QED
    BY <1>6, <2>1, SwReload DEF Sweep!OneIsAwaited
<1>7. ASSUME Sweep!Started PROVE Sweep!OneIsAwaited'
  <2>1. CASE run = "accepted"
    <3>1. \A k \in DOMAIN polls : ~polls[k].awaited
      BY <2>1 DEF Sweep!OneIsAwaited
    <3> QED
      BY <1>7, <2>1, <3>1, SwStarted DEF Sweep!OneIsAwaited
  <2>2. CASE run # "accepted"
    <3>1. run = "refused" /\ run' = "none" /\ polls' = polls /\ loads' = loads
      BY <1>7, <2>2 DEF Sweep!Started
    <3> QED
      BY <3>1 DEF Sweep!OneIsAwaited
  <2> QED
    BY <2>1, <2>2
<1>8. ASSUME NEW i \in DOMAIN polls, Sweep!PollArrives(i) PROVE Sweep!OneIsAwaited'
  <2>1. CASE polls[i].awaited
    <3>1. run = "status" /\ \A j \in DOMAIN polls : polls[j].awaited => j = i
      BY <2>1 DEF Sweep!OneIsAwaited
    <3>2. \A k \in DOMAIN polls' : ~polls'[k].awaited
      BY <1>8, <3>1, SwArrives
    <3>3. \A k \in DOMAIN loads : ~loads[k].awaited
      BY <3>1 DEF Sweep!OneIsAwaited
    <3>4. page.starting
      BY <3>1 DEF Sweep!OneIsAwaited
    <3> QED
      BY <1>8, <2>1, <3>2, <3>3, <3>4, SwGoesOn DEF Sweep!OneIsAwaited
  <2>2. CASE ~polls[i].awaited
    <3>1. page'.starting = page.starting /\ run' = run /\ loads' = loads
      <4>1. page'.starting = page.starting
        BY <1>0, <1>8 DEF Sweep!PollArrives, Sweep!WithStatus, Sweep!Page
      <4> QED
        BY <1>8, <2>2, <4>1, SwArrives
    <3>2. run = "status" => \E k \in DOMAIN polls' : polls'[k].awaited
      BY <1>8, <2>2, SwArrives DEF Sweep!OneIsAwaited
    <3>3. \A k \in DOMAIN polls' : polls'[k].awaited =>
             run = "status" /\ \A j \in DOMAIN polls' : polls'[j].awaited => j = k
      <4> SUFFICES ASSUME NEW k \in DOMAIN polls', polls'[k].awaited
                   PROVE  run = "status" /\ \A j \in DOMAIN polls' : polls'[j].awaited => j = k
        OBVIOUS
      <4>1. /\ Before(k, i) \in DOMAIN polls /\ polls[Before(k, i)].awaited
            /\ \A j \in DOMAIN polls' : polls'[j].awaited =>
                  Before(j, i) \in DOMAIN polls /\ polls[Before(j, i)].awaited
        BY <1>8, SwArrives
      <4>2. /\ run = "status"
            /\ \A j \in DOMAIN polls' : polls'[j].awaited => Before(j, i) = Before(k, i)
        BY <4>1 DEF Sweep!OneIsAwaited
      <4>3. DOMAIN polls' \subseteq Nat /\ i \in Nat
        BY <1>0, SwPollTypes
      <4> QED
        BY <4>2, <4>3, BeforeIsInjective
    <3> QED
      BY <3>1, <3>2, <3>3 DEF Sweep!OneIsAwaited
  <2> QED
    BY <2>1, <2>2
<1>9. ASSUME NEW i \in DOMAIN loads, Sweep!LoadArrives(i) PROVE Sweep!OneIsAwaited'
  <2>1. CASE loads[i].awaited
    <3>1. run = "history" /\ \A j \in DOMAIN loads : loads[j].awaited => j = i
      BY <2>1 DEF Sweep!OneIsAwaited
    <3>2. \A k \in DOMAIN loads' : ~loads'[k].awaited
      BY <1>9, <3>1, SwLoadArrives
    <3>3. \A k \in DOMAIN polls : ~polls[k].awaited
      BY <3>1 DEF Sweep!OneIsAwaited
    <3> QED
      BY <1>9, <2>1, <3>2, <3>3, SwLoadArrives DEF Sweep!OneIsAwaited
  <2>2. CASE ~loads[i].awaited
    <3>1. page'.starting = page.starting /\ run' = run /\ polls' = polls
      BY <1>9, <2>2, SwLoadArrives
    <3>2. \A k \in DOMAIN loads' : loads'[k].awaited =>
             run = "history" /\ \A j \in DOMAIN loads' : loads'[j].awaited => j = k
      <4> SUFFICES ASSUME NEW k \in DOMAIN loads', loads'[k].awaited
                   PROVE  run = "history" /\ \A j \in DOMAIN loads' : loads'[j].awaited => j = k
        OBVIOUS
      <4>1. /\ Before(k, i) \in DOMAIN loads /\ loads[Before(k, i)].awaited
            /\ \A j \in DOMAIN loads' : loads'[j].awaited =>
                  Before(j, i) \in DOMAIN loads /\ loads[Before(j, i)].awaited
        BY <1>9, SwLoadArrives
      <4>2. /\ run = "history"
            /\ \A j \in DOMAIN loads' : loads'[j].awaited => Before(j, i) = Before(k, i)
        BY <4>1 DEF Sweep!OneIsAwaited
      <4>3. DOMAIN loads' \subseteq Nat /\ i \in Nat
        BY <1>0, SwLoadTypes
      <4> QED
        BY <4>2, <4>3, BeforeIsInjective
    <3> QED
      BY <3>1, <3>2 DEF Sweep!OneIsAwaited
  <2> QED
    BY <2>1, <2>2
<1>10. ASSUME Sweep!Restart \/ \E s \in Sweep!Sweeps : Sweep!RunPipeline(s)
       PROVE UNCHANGED <<page, Sweep!calls>>
  BY <1>10 DEF Sweep!Restart, Sweep!RunPipeline
<1> QED
  BY <1>1, <1>2, <1>3, <1>4, <1>5, <1>6, <1>7, <1>8, <1>9, <1>10 DEF Sweep!Next

(* One sweep at a time, the last.                                          *)
LEMMA LastIsUnique ==
    ASSUME Sweep!TypeOK, NEW s \in Sweep!Sweeps, NEW o \in Sweep!Sweeps, Sweep!IsLast(s),
           threads[o] # "unborn"
    PROVE  o <= s /\ (Sweep!IsLast(o) => o = s)
<1>1. Sweep!Sweeps \subseteq Nat
  BY SweepsAssumption DEF Sweep!Sweeps
<1>2. ~(o > s)
  BY DEF Sweep!IsLast
<1>3. Sweep!IsLast(o) => ~(s > o)
  BY DEF Sweep!IsLast
<1> QED
  BY <1>1, <1>2, <1>3

LEMMA OneRuns ==
    ASSUME Sweep!TypeOK, Sweep!SweepsAreApart, NEW s \in Sweep!Sweeps,
           threads[s] \notin {"unborn", "ended"}
    PROVE  /\ Sweep!IsLast(s) /\ ~Sweep!Finished
           /\ \A o \in Sweep!Sweeps : o # s => threads[o] \in {"unborn", "ended"}
<1>1. \A o \in Sweep!Sweeps : threads[o] \notin {"unborn", "ended"} => Sweep!IsLast(o)
  BY DEF Sweep!SweepsAreApart
<1>2. \A o \in Sweep!Sweeps : Sweep!IsLast(o) => o = s
  BY <1>1, LastIsUnique DEF Sweep!IsLast
<1>3. ~Sweep!Finished
  BY <1>2 DEF Sweep!Finished, Sweep!IsOver
<1> QED
  BY <1>1, <1>2, <1>3

LEMMA FinishedStays ==
    ASSUME Sweep!TypeOK, Sweep!SweepsAreApart, Sweep!Next, Sweep!Finished, ~Sweep!RunSweep
    PROVE  /\ Sweep!Finished' /\ rows' = rows
           /\ \A s \in Sweep!Sweeps : Sweep!IsLast(s)' <=> Sweep!IsLast(s)
<1>1. \A s \in Sweep!Sweeps : ~Sweep!RunPipeline(s)
  BY SwPipe, OneRuns
<1>2. CASE UNCHANGED Sweep!server
  BY <1>2
  DEF Sweep!server, Sweep!Finished, Sweep!IsOver, Sweep!IsLast, Sweep!RowIsLast, Sweep!HasRow
<1>3. CASE Sweep!Restart
  <2>1. /\ \A s \in Sweep!Sweeps : threads'[s] = IF threads[s] = "unborn" THEN "unborn" ELSE "ended"
        /\ state' = Sweep!Idle /\ rows' = rows
    BY <1>3 DEF Sweep!Restart
  <2>2. \A s \in Sweep!Sweeps : Sweep!IsLast(s)' <=> Sweep!IsLast(s)
    BY <2>1 DEF Sweep!IsLast
  <2>3. \A s \in Sweep!Sweeps : Sweep!IsOver(s) => Sweep!IsOver(s)'
    BY <2>1, <2>2 DEF Sweep!IsOver, Sweep!RowIsLast, Sweep!HasRow
  <2> QED
    BY <2>1, <2>2, <2>3 DEF Sweep!Finished
<1> QED
  BY <1>1, <1>2, <1>3, SwServerSteps

LEMMA SwApart ==
    ASSUME Sweep!TypeOK, Sweep!ServerIsSound, Sweep!OneIsAwaited, Sweep!SweepsAreApart,
           Sweep!Next, ~unseen'
    PROVE  Sweep!SweepsAreApart'
<1> DEFINE Active(s) == threads[s] \in Sweep!Working
           Waits == \/ run \in {"accepted", "refused"}
                    \/ /\ run = "status"
                       /\ \A k \in DOMAIN polls : polls[k].awaited => polls[k].answer # "running"
           NoneWaits == \A s \in Sweep!Sweeps : threads[s] # "started"
<1>0. /\ Sweep!Sweeps \subseteq Nat /\ state \in Sweep!State
      /\ threads \in [Sweep!Sweeps -> Sweep!Stages]
  BY SweepsAssumption DEF Sweep!TypeOK, Sweep!Sweeps
<1>a. /\ \A s \in Sweep!Sweeps : threads[s] \notin {"unborn", "ended"} => Sweep!IsLast(s)
      /\ \A s \in Sweep!Sweeps : Active(s) => state.status = "running" /\ state.sweep = s
      /\ \A s \in Sweep!Sweeps : threads[s] = "persisted" => Sweep!RowIsLast(s)
      /\ \A s \in Sweep!Sweeps : threads[s] = "started" => Waits
      /\ state.status = "completed" /\ NoneWaits => Sweep!Finished
  BY DEF Sweep!SweepsAreApart
(* The steps of the page: only what a sweep that waits is waiting for.     *)
<1>1. ASSUME UNCHANGED Sweep!server, Waits => Waits' \/ NoneWaits PROVE Sweep!SweepsAreApart'
  <2>1. \A s \in Sweep!Sweeps : (Sweep!IsLast(s)' <=> Sweep!IsLast(s)) /\
          (Sweep!RowIsLast(s)' <=> Sweep!RowIsLast(s))
    BY <1>1 DEF Sweep!server, Sweep!IsLast, Sweep!RowIsLast, Sweep!HasRow
  <2>2. Sweep!Finished' <=> Sweep!Finished
    BY <1>1
    DEF Sweep!server, Sweep!Finished, Sweep!IsOver, Sweep!IsLast, Sweep!RowIsLast, Sweep!HasRow
  <2>3. threads' = threads /\ state' = state
    BY <1>1 DEF Sweep!server
  <2> QED
    BY <1>1, <1>a, <2>1, <2>2, <2>3 DEF Sweep!SweepsAreApart
<1>2. ASSUME Sweep!Tick \/ Sweep!Reload \/ Sweep!HandleRun \/ Sweep!Started
      PROVE Sweep!SweepsAreApart'
  <2>1. UNCHANGED Sweep!server
    BY <1>2 DEF Sweep!Tick, Sweep!Reload, Sweep!HandleRun, Sweep!Started
  <2>2. CASE Sweep!Tick
    BY <1>1, <2>1, <2>2, SwTick
  <2>3. CASE Sweep!Reload
    BY <1>1, <2>1, <2>3, SwReload
  <2>4. CASE Sweep!HandleRun
    BY <1>1, <2>1, <2>4, SwRunOnly
  <2>5. CASE Sweep!Started
    <3>1. run = "accepted"
      BY <2>5 DEF Sweep!Started
    <3>2. \A k \in DOMAIN polls : ~polls[k].awaited
      BY <3>1 DEF Sweep!OneIsAwaited
    <3> QED
      BY <1>1, <2>1, <2>5, <3>1, <3>2, SwStarted
  <2> QED
    BY <1>2, <2>2, <2>3, <2>4, <2>5
<1>3. ASSUME NEW i \in DOMAIN polls, Sweep!GetStatus(i) PROVE Sweep!SweepsAreApart'
  <2>1. UNCHANGED Sweep!server /\ run' = run
    BY <1>3, SwServed
  <2>2. state.status = "running" => NoneWaits
    <3> SUFFICES ASSUME state.status = "running", NEW s \in Sweep!Sweeps, threads[s] = "started"
                 PROVE  FALSE
      OBVIOUS
    <3>1. state.sweep \in Sweep!Sweeps /\ Active(state.sweep)
      BY DEF Sweep!ServerIsSound
    <3> QED
      BY <3>1, OneRuns DEF Sweep!Working
  <2>3. state.status # "running" /\ Waits => Waits'
    BY <1>3, <2>1, SwServed
  <2> QED
    BY <1>1, <2>1, <2>2, <2>3
<1>4. ASSUME NEW i \in DOMAIN polls, Sweep!PollArrives(i) PROVE Sweep!SweepsAreApart'
  <2>1. UNCHANGED Sweep!server
    BY <1>4, SwArrives
  <2>2. CASE polls[i].awaited
    <3>1. polls[i].answer = "running" /\ run = "status"
      BY <1>4, <2>2 DEF Sweep!PollArrives, Sweep!OneIsAwaited
    <3>2. ~Waits
      BY <2>2, <3>1
    <3> QED
      BY <1>1, <2>1, <3>2
  <2>3. CASE ~polls[i].awaited
    <3>1. run' = run /\ \A k \in DOMAIN polls' : Before(k, i) \in DOMAIN polls
                                                   /\ polls'[k] = polls[Before(k, i)]
      BY <1>4, <2>3, SwArrives
    <3> QED
      BY <1>1, <2>1, <3>1
  <2> QED
    BY <2>2, <2>3
<1>5. ASSUME NEW i \in DOMAIN loads, Sweep!GetLoad(i) \/ Sweep!LoadArrives(i)
      PROVE Sweep!SweepsAreApart'
  <2>1. CASE Sweep!GetLoad(i)
    BY <1>1, <2>1, SwLoadServed
  <2>2. CASE Sweep!LoadArrives(i)
    <3>1. UNCHANGED Sweep!server /\ polls' = polls
      BY <2>2, SwLoadArrives
    <3>2. run' = run \/ run = "history"
      BY <2>2, SwLoadArrives DEF Sweep!OneIsAwaited
    <3> QED
      BY <1>1, <3>1, <3>2
  <2> QED
    BY <1>5, <2>1, <2>2
(* A sweep is born when none runs.                                         *)
<1>6. ASSUME Sweep!RunSweep PROVE Sweep!SweepsAreApart'
  <2>0. run' \in {"accepted", "refused"} /\ rows' = rows
    BY <1>6, SwRunOnly, SwBirth
  <2>1. CASE threads' = threads /\ state' = state
    BY <1>1, <2>0, <2>1 DEF Sweep!server
  <2>2. CASE ~(threads' = threads /\ state' = state)
    <3>0. PICK n \in Sweep!Sweeps : n = Sweep!NextSweep
      BY <1>6, <2>2, SwBirth
    <3>1. /\ threads[n] = "unborn" /\ \A o \in Sweep!Unborn : n <= o
          /\ state.status # "running"
      BY <1>6, <2>2, <3>0, SwBirth
    <3>2. PICK stage \in {"started", "running"} :
             /\ threads' = [threads EXCEPT ![n] = stage]
             /\ stage = "started" => state' = state
             /\ stage = "running" => state' = Sweep!Running(n)
      BY <1>6, <2>2, <3>0, SwBirth
    <3>3. threads'[n] = stage /\ \A o \in Sweep!Sweeps \ {n} : threads'[o] = threads[o]
      BY <1>0, <3>1, <3>2
    <3>4. run = "post"
      BY <1>6, SwRunOnly
    <3>5. \A o \in Sweep!Sweeps : threads[o] \in {"unborn", "ended"}
      BY <1>0, <1>a, <3>1, <3>4 DEF Sweep!Stages
    <3>6. Sweep!IsLast(n)'
      <4>1. \A o \in Sweep!Sweeps : o > n => threads[o] = "unborn"
        BY <3>1 DEF Sweep!ServerIsSound
      <4> QED
        BY <1>0, <3>1, <3>3, <4>1 DEF Sweep!IsLast
    <3>7. \A o \in Sweep!Sweeps : threads'[o] \notin {"unborn", "ended"} => o = n
      BY <3>3, <3>5
    <3>8. stage = "running" => state'.status = "running" /\ state'.sweep = n
      BY <3>2 DEF Sweep!Running
    <3>9. /\ \A s \in Sweep!Sweeps : threads'[s] \notin {"unborn", "ended"} => Sweep!IsLast(s)'
          /\ \A s \in Sweep!Sweeps : Active(s)' => state'.status = "running" /\ state'.sweep = s
          /\ \A s \in Sweep!Sweeps : threads'[s] = "persisted" => Sweep!RowIsLast(s)'
          /\ Waits'
          /\ ~(state'.status = "completed" /\ NoneWaits')
      <4>1. \A s \in Sweep!Sweeps : threads'[s] \notin {"unborn", "ended"} => Sweep!IsLast(s)'
        BY <3>6, <3>7
      <4>2. \A s \in Sweep!Sweeps : Active(s)' => state'.status = "running" /\ state'.sweep = s
        BY <3>3, <3>7, <3>8 DEF Sweep!Working
      <4>3. \A s \in Sweep!Sweeps : threads'[s] # "persisted"
        BY <3>3, <3>7
      <4>4. ~(state'.status = "completed" /\ NoneWaits')
        BY <3>1, <3>3, <3>8
      <4> QED
        BY <2>0, <4>1, <4>2, <4>3, <4>4
    <3> QED
      BY <3>9 DEF Sweep!SweepsAreApart
  <2> QED
    BY <2>1, <2>2
<1>7. ASSUME Sweep!Restart PROVE Sweep!SweepsAreApart'
  <2>1. \A s \in Sweep!Sweeps : threads'[s] \in {"unborn", "ended"}
    BY <1>0, <1>7 DEF Sweep!Restart
  <2>2. state'.status = "idle"
    BY <1>7 DEF Sweep!Restart, Sweep!Idle
  <2> QED
    BY <2>1, <2>2 DEF Sweep!SweepsAreApart, Sweep!Working
(* The one that runs goes on.                                              *)
<1>8. ASSUME NEW s \in Sweep!Sweeps, Sweep!RunPipeline(s) PROVE Sweep!SweepsAreApart'
  <2>0. /\ threads[s] \notin {"unborn", "ended"} /\ threads'[s] # "unborn"
        /\ \A o \in Sweep!Sweeps : o # s => threads'[o] = threads[o] /\
             threads[o] \in {"unborn", "ended"}
        /\ Sweep!IsLast(s)
    BY <1>8, SwPipe, OneRuns
  <2>1. Sweep!IsLast(s)'
    BY <1>0, <2>0 DEF Sweep!IsLast
  <2>2. ASSUME threads'[s] # "started",
               threads'[s] \in Sweep!Working =>
                   state'.status = "running" /\ state'.sweep = s,
               threads'[s] = "persisted" => Sweep!RowIsLast(s)',
               state'.status = "completed" => Sweep!Finished'
        PROVE  Sweep!SweepsAreApart'
    <3>1. \A o \in Sweep!Sweeps : threads'[o] \notin {"unborn", "ended"} => o = s
      BY <2>0
    <3>2. \A o \in Sweep!Sweeps : threads'[o] \in Sweep!Working \cup {"persisted", "started"} =>
             threads'[o] \notin {"unborn", "ended"}
      BY DEF Sweep!Working
    <3> QED
      BY <2>1, <2>2, <3>1, <3>2 DEF Sweep!SweepsAreApart
  <2>3. CASE Sweep!Begin(s)
    BY <1>0, <2>2, <2>3 DEF Sweep!Begin, Sweep!Running
  <2>4. CASE Sweep!Scan(s)
    <3>1. threads'[s] = "scanned" /\ state'.status = state.status /\ state'.sweep = state.sweep
      BY <1>0, <2>4 DEF Sweep!Scan, Sweep!State
    <3> QED
      BY <1>a, <2>2, <2>4, <3>1 DEF Sweep!Scan, Sweep!Working
  <2>5. CASE Sweep!Persist(s)
    <3>1. threads'[s] = "persisted" /\ state' = state /\ threads[s] = "scanned"
      BY <1>0, <2>5 DEF Sweep!Persist
    <3>2. ~Sweep!HasRow(s)
      BY <3>1 DEF Sweep!ServerIsSound
    <3>3. Sweep!RowIsLast(s)'
      <4>1. CASE rows' = rows
        BY <3>2, <4>1 DEF Sweep!RowIsLast, Sweep!HasRow
      <4>2. CASE rows' = Append(rows, [sweep |-> s, status |-> "completed"])
        BY <4>2, RowsAdded DEF Sweep!RowIsLast
      <4> QED
        BY <2>5, <4>1, <4>2 DEF Sweep!Persist
    <3> QED
      BY <1>a, <2>2, <3>1, <3>3 DEF Sweep!Working
  <2>6. CASE Sweep!Complete(s)
    <3>1. threads'[s] = "ended" /\ threads[s] = "persisted" /\ rows' = rows
      BY <1>0, <2>6 DEF Sweep!Complete
    <3>2. state.sweep = s /\ Sweep!RowIsLast(s)
      BY <1>a, <3>1 DEF Sweep!Working
    <3>3. state' = [status |-> "completed", sweep |-> s, results |-> [sweep |-> s, part |-> "all"]]
      BY <1>0, <2>6, <3>2 DEF Sweep!Complete, Sweep!State
    <3>4. Sweep!IsOver(s)'
      BY <2>1, <3>1, <3>2, <3>3 DEF Sweep!IsOver, Sweep!RowIsLast, Sweep!HasRow
    <3> QED
      BY <2>2, <3>1, <3>4 DEF Sweep!Finished, Sweep!Working
  <2>7. CASE Sweep!Fail(s)
    <3>1. threads'[s] = "failing" /\ state' = state /\ threads[s] \in Sweep!Working
      BY <1>0, <2>7 DEF Sweep!Fail, Sweep!Working
    <3> QED
      BY <1>a, <2>2, <3>1
  <2>8. CASE Sweep!PublishFailure(s)
    <3>1. threads'[s] = "ended" /\ state'.status = "failed"
      BY <1>0, <2>8 DEF Sweep!PublishFailure, Sweep!State
    <3>2. threads'[s] \notin Sweep!Working
      BY <3>1 DEF Sweep!Working
    <3> QED
      BY <2>2, <3>1, <3>2
  <2> QED
    BY <1>8, <2>3, <2>4, <2>5, <2>6, <2>7, <2>8 DEF Sweep!RunPipeline
<1> QED
  BY <1>2, <1>3, <1>4, <1>5, <1>6, <1>7, <1>8 DEF Sweep!Next

(* What "completed" tells the page.                                        *)
LEMMA SwPollsTell ==
    ASSUME Sweep!TypeOK, Sweep!ServerIsSound, Sweep!OneIsAwaited, Sweep!SweepsAreApart,
           Sweep!PollsTell, Sweep!Next,
           ~unseen', ~disturbed'
    PROVE  Sweep!PollsTell'
<1>0. polls \in Seq(Sweep!Poll) /\ polls' \in Seq(Sweep!Poll)
  BY SwPollTypes DEF Sweep!TypeOK
<1>1. ASSUME Sweep!RunSweep PROVE Sweep!PollsTell'
  BY <1>1, SwRunOnly DEF Sweep!PollsTell, Sweep!WillBeUnseen, Sweep!IsBefore
<1>2. ~Sweep!RunSweep /\ Sweep!Finished => Sweep!Finished'
  BY FinishedStays
<1>3. ASSUME ~Sweep!RunSweep, UNCHANGED polls, run \in {"accepted", "refused"} => run' = run
      PROVE  Sweep!PollsTell'
  BY <1>2, <1>3 DEF Sweep!PollsTell, Sweep!WillBeUnseen, Sweep!IsBefore
<1>4. ASSUME Sweep!HandleRun PROVE Sweep!PollsTell'
  <2>1. \A k \in DOMAIN polls : polls[k].answer = "completed" => Sweep!Finished
    BY <1>4, SwRunOnly DEF Sweep!PollsTell, Sweep!WillBeUnseen, Sweep!IsBefore
  <2>2. polls' = polls /\ (Sweep!Finished => Sweep!Finished')
    BY <1>4 DEF Sweep!HandleRun, Sweep!server, Sweep!Finished, Sweep!IsOver, Sweep!IsLast,
       Sweep!RowIsLast, Sweep!HasRow
  <2> QED
    BY <2>1, <2>2 DEF Sweep!PollsTell
<1>5. ASSUME Sweep!Reload \/ Sweep!Restart \/ \E s \in Sweep!Sweeps : Sweep!RunPipeline(s)
      PROVE Sweep!PollsTell'
  <2>1. polls' = polls /\ run' = run
    BY <1>5 DEF Sweep!Reload, Sweep!Restart, Sweep!RunPipeline, Sweep!calls
  <2> QED
    BY <1>1, <1>3, <2>1
<1>6. ASSUME NEW i \in DOMAIN loads, Sweep!GetLoad(i) \/ Sweep!LoadArrives(i) PROVE Sweep!PollsTell'
  <2>1. CASE Sweep!GetLoad(i)
    BY <1>1, <1>3, <2>1, SwLoadServed
  <2>2. CASE Sweep!LoadArrives(i)
    <3>1. polls' = polls /\ (run' = run \/ run = "history")
      BY <2>2, SwLoadArrives DEF Sweep!OneIsAwaited
    <3> QED
      BY <1>1, <1>3, <3>1
  <2> QED
    BY <1>6, <2>1, <2>2
<1>7. ASSUME Sweep!Tick PROVE Sweep!PollsTell'
  <2>1. Sweep!Finished => Sweep!Finished'
    BY <1>7, SwTick
    DEF Sweep!server, Sweep!Finished, Sweep!IsOver, Sweep!IsLast, Sweep!RowIsLast, Sweep!HasRow
  <2>2. Sweep!WillBeUnseen => Sweep!WillBeUnseen'
    BY <1>7, SwTick DEF Sweep!WillBeUnseen
  <2>3. \A k \in DOMAIN polls : Sweep!IsBefore(k) => Sweep!IsBefore(k)'
    BY <1>7, SwTick DEF Sweep!IsBefore
  <2> QED
    BY <1>7, <2>1, <2>2, <2>3, SwTick DEF Sweep!PollsTell
<1>8. ASSUME Sweep!Started PROVE Sweep!PollsTell'
  <2>1. run = "accepted"
    BY <1>8 DEF Sweep!Started
  <2>2. \A k \in DOMAIN polls' : Sweep!IsBefore(k)'
    <3>1. /\ Len(polls) + 1 \in DOMAIN polls' /\ polls'[Len(polls) + 1].awaited
          /\ \A k \in DOMAIN polls' : k <= Len(polls) + 1
      BY <1>0, <1>8, <2>1, SwStarted
    <3> QED
      BY <3>1 DEF Sweep!IsBefore
  <2> QED
    BY <2>2 DEF Sweep!PollsTell
(* An answer is true: the sweep is over, or it comes before the awaited one*)
(* and the sweep waits.                                                    *)
<1>9. ASSUME NEW i \in DOMAIN polls, Sweep!GetStatus(i) PROVE Sweep!PollsTell'
  <2>1. Sweep!Finished => Sweep!Finished'
    BY <1>9, SwServed
    DEF Sweep!server, Sweep!Finished, Sweep!IsOver, Sweep!IsLast, Sweep!RowIsLast, Sweep!HasRow
  <2>2. Sweep!WillBeUnseen => Sweep!WillBeUnseen'
    BY <1>9, SwServed DEF Sweep!WillBeUnseen
  <2>3. \A k \in DOMAIN polls : Sweep!IsBefore(k) => Sweep!IsBefore(k)'
    BY <1>9, SwServed DEF Sweep!IsBefore
  <2>4. ASSUME polls'[i].answer = "completed"
        PROVE  Sweep!WillBeUnseen' \/ Sweep!IsBefore(i)' \/ Sweep!Finished'
    <3>1. state.status = "completed"
      BY <1>9, <2>4, SwServed
    <3>2. CASE \A s \in Sweep!Sweeps : threads[s] # "started"
      BY <2>1, <3>1, <3>2 DEF Sweep!SweepsAreApart
    <3>3. ASSUME NEW s \in Sweep!Sweeps, threads[s] = "started"
          PROVE  Sweep!WillBeUnseen' \/ Sweep!IsBefore(i)' \/ Sweep!Finished'
      <4>1. \/ run \in {"accepted", "refused"}
            \/ /\ run = "status"
               /\ \A k \in DOMAIN polls : polls[k].awaited => polls[k].answer # "running"
        BY <3>3 DEF Sweep!SweepsAreApart
      <4>2. CASE run \in {"accepted", "refused"}
        BY <2>2, <2>3, <4>2 DEF Sweep!WillBeUnseen, Sweep!IsBefore
      <4>3. CASE run = "status"
        <5>1. PICK k \in DOMAIN polls : polls[k].awaited /\ polls[k].answer # "running"
          BY <4>1, <4>3 DEF Sweep!OneIsAwaited
        <5>2. CASE k = i
          <6>1. polls'[i].awaited
            BY <1>9, <5>1, <5>2, SwServed
          <6>2. i \in DOMAIN polls'
            BY <1>9, SwServed
          <6> QED
            BY <2>4, <6>1, <6>2 DEF Sweep!WillBeUnseen
        <5>3. CASE k # i /\ polls[k].answer # "pending"
          BY <2>2, <5>1, <5>3 DEF Sweep!WillBeUnseen
        <5>4. CASE k # i /\ polls[k].answer = "pending"
          <6>1. ~\E o \in 1 .. i - 1 : polls[o].answer = "pending"
            BY <1>9 DEF Sweep!GetStatus
          <6>2. k \in Nat /\ i \in Nat /\ k >= 1
            BY <1>0
          <6>3. i <= k
            BY <5>4, <6>1, <6>2
          <6> QED
            BY <2>3, <5>1, <6>3 DEF Sweep!IsBefore
        <5> QED
          BY <5>2, <5>3, <5>4
      <4> QED
        BY <4>1, <4>2, <4>3
    <3> QED
      BY <3>2, <3>3
  <2> QED
    BY <1>9, <2>1, <2>2, <2>3, <2>4, SwServed DEF Sweep!PollsTell
<1>10. ASSUME NEW i \in DOMAIN polls, Sweep!PollArrives(i) PROVE Sweep!PollsTell'
  <2>0. i = 1 /\ (polls[i].awaited => polls[i].answer = "running")
    <3>1. ~(i > 1) /\ ~(polls[i].awaited /\ polls[i].answer # "running")
      BY <1>10 DEF Sweep!PollArrives
    <3> QED
      BY <1>0, <3>1
  <2>1. Sweep!Finished => Sweep!Finished'
    BY <1>10, SwArrives
    DEF Sweep!server, Sweep!Finished, Sweep!IsOver, Sweep!IsLast, Sweep!RowIsLast, Sweep!HasRow
  <2>2. DOMAIN polls' \subseteq Nat /\ DOMAIN polls \subseteq Nat \ {0}
    BY <1>0
  <2> SUFFICES ASSUME NEW k \in DOMAIN polls', polls'[k].answer = "completed"
               PROVE  Sweep!WillBeUnseen' \/ Sweep!IsBefore(k)' \/ Sweep!Finished'
    BY DEF Sweep!PollsTell
  <2>3. /\ Before(k, i) \in DOMAIN polls /\ Before(k, i) # i
        /\ polls[Before(k, i)].answer = "completed"
    BY <1>10, SwArrives
  <2>4. CASE polls[i].awaited
    <3>1. run = "status" /\ \A j \in DOMAIN polls : polls[j].awaited => j = i
      BY <2>4 DEF Sweep!OneIsAwaited
    <3>2. ~Sweep!WillBeUnseen
      BY <2>0, <2>4, <3>1 DEF Sweep!WillBeUnseen
    <3>3. ~Sweep!IsBefore(Before(k, i))
      BY <2>0, <2>2, <2>3, <3>1 DEF Sweep!IsBefore
    <3> QED
      BY <2>1, <2>3, <3>2, <3>3 DEF Sweep!PollsTell
  <2>5. CASE ~polls[i].awaited
    <3>0. run' = run
      BY <1>10, <2>5, SwArrives
    <3>1. Sweep!WillBeUnseen => Sweep!WillBeUnseen'
      BY <1>10, <2>5, <3>0, SwArrives DEF Sweep!WillBeUnseen
    <3>2. Sweep!IsBefore(Before(k, i)) => Sweep!IsBefore(k)'
      <4>1. CASE run = "accepted"
        BY <3>0, <4>1 DEF Sweep!IsBefore
      <4>2. ASSUME NEW j \in DOMAIN polls, polls[j].awaited, Before(k, i) <= j
            PROVE  Sweep!IsBefore(k)'
        <5>1. PICK l \in DOMAIN polls' : Before(l, i) = j /\ polls'[l] = polls[j]
          BY <1>10, <2>5, <4>2, SwArrives
        <5>2. k <= l
          BY <2>2, <4>2, <5>1, BeforeIsInjective
        <5> QED
          BY <4>2, <5>1, <5>2 DEF Sweep!IsBefore
      <4> QED
        BY <4>1, <4>2 DEF Sweep!IsBefore
    <3> QED
      BY <2>1, <2>3, <3>1, <3>2 DEF Sweep!PollsTell
  <2> QED
    BY <2>4, <2>5
<1> QED
  BY <1>1, <1>4, <1>5, <1>6, <1>7, <1>8, <1>9, <1>10 DEF Sweep!Next

(* What the loads bring.                                                   *)
LEMMA FreshLoads ==
    ASSUME Sweep!TypeOK, NEW s \in Sweep!Sweeps, Sweep!IsOver(s), Sweep!HasRow(s)
    PROVE  Sweep!GetResults = [sweep |-> s, part |-> "all"] /\ s \in Sweep!ListSweepHistory
<1>1. Sweep!Last(rows) = [sweep |-> s, status |-> "completed"] /\ rows # <<>>
  BY SwRowsLast DEF Sweep!IsOver, Sweep!RowIsLast
<1>2. CASE state = Sweep!Idle
  <2>1. state.results.part = "none"
    BY <1>2 DEF Sweep!Idle, Sweep!Nothing
  <2>2. Sweep!GetResults = [sweep |-> Sweep!Last(rows).sweep,
                            part |-> IF Sweep!Last(rows).status = "completed" THEN "all"
                              ELSE "none"]
    BY <1>1, <2>1 DEF Sweep!GetResults
  <2> QED
    BY <1>1, <2>2 DEF Sweep!HasRow, Sweep!ListSweepHistory
<1>3. CASE state # Sweep!Idle
  <2>1. state.results = [sweep |-> s, part |-> "all"]
    BY <1>3 DEF Sweep!IsOver
  <2>2. Sweep!GetResults = state.results
    BY <2>1 DEF Sweep!GetResults
  <2> QED
    BY <2>1, <2>2 DEF Sweep!HasRow, Sweep!ListSweepHistory
<1> QED
  BY <1>2, <1>3

LEMMA SwLoadsBring ==
    ASSUME Sweep!TypeOK, Sweep!OneIsAwaited, Sweep!SweepsAreApart, Sweep!PollsTell,
           Sweep!LoadsBring, Sweep!Next,
           ~unseen', ~disturbed'
    PROVE  Sweep!LoadsBring'
<1> DEFINE Rests == run \in {"none", "post", "history"}
           Brings(s) == Sweep!ResultsCome(s) /\ Sweep!RowComes(s)
<1>0. /\ page \in Sweep!Page /\ loads \in Seq(Sweep!Load) /\ loads' \in Seq(Sweep!Load)
      /\ polls \in Seq(Sweep!Poll)
  BY SwLoadTypes DEF Sweep!TypeOK
<1>1. ASSUME Sweep!RunSweep PROVE Sweep!LoadsBring'
  BY <1>1, SwRunOnly DEF Sweep!LoadsBring
<1>2. ASSUME Sweep!Started PROVE Sweep!LoadsBring'
  <2>1. run' = "status"
    BY <1>2 DEF Sweep!Started
  <2> QED
    BY <2>1 DEF Sweep!LoadsBring
<1>3. /\ ~Sweep!RunSweep /\ Sweep!Finished => Sweep!Finished'
      /\ ~Sweep!RunSweep /\ Sweep!Finished => rows' = rows /\
           \A s \in Sweep!Sweeps : Sweep!IsLast(s)' <=> Sweep!IsLast(s)
  BY FinishedStays
(* Where the loads and the page stay as they are, nothing is lost.         *)
<1>4. ASSUME ~Sweep!RunSweep, UNCHANGED loads, Rests' => Rests,
             page'.status = page.status, page'.reload = page.reload,
             page'.results = page.results, page'.history = page.history
      PROVE  Sweep!LoadsBring'
  <2>1. \A s : Brings(s) => Brings(s)'
    BY <1>4 DEF Sweep!ResultsCome, Sweep!RowComes, Sweep!LastOf
  <2> QED
    BY <1>3, <1>4, <2>1 DEF Sweep!LoadsBring, Sweep!HasRow
<1>5. ASSUME Sweep!HandleRun PROVE Sweep!LoadsBring'
  <2>1. /\ page'.status = page.status /\ page'.reload = page.reload
        /\ page'.results = page.results /\ page'.history = page.history
    BY <1>0, <1>5, SwRunOnly DEF Sweep!Page
  <2> QED
    BY <1>1, <1>4, <1>5, <2>1, SwRunOnly
<1>6. ASSUME Sweep!Tick \/ Sweep!Restart \/ \E s \in Sweep!Sweeps : Sweep!RunPipeline(s)
      PROVE Sweep!LoadsBring'
  <2>1. page' = page /\ loads' = loads /\ run' = run
    BY <1>6 DEF Sweep!Tick, Sweep!Restart, Sweep!RunPipeline, Sweep!calls
  <2> QED
    BY <1>1, <1>4, <2>1
<1>7. ASSUME NEW i \in DOMAIN polls, Sweep!GetStatus(i) PROVE Sweep!LoadsBring'
  BY <1>1, <1>4, <1>7, SwServed
(* "completed" comes to a page that did not show it: it loads again.       *)
<1>8. ASSUME NEW i \in DOMAIN polls, Sweep!PollArrives(i) PROVE Sweep!LoadsBring'
  <2> SUFFICES ASSUME page'.status = "completed", Rests' PROVE Sweep!LoadsBring'
    BY DEF Sweep!LoadsBring
  <2>1. polls[i].awaited => polls[i].answer = "running"
    BY <1>8 DEF Sweep!PollArrives
  <2>2. page' = IF polls[i].answer = "lost" THEN page ELSE Sweep!WithStatus(page, polls[i].answer)
    BY <1>8 DEF Sweep!PollArrives
  <2>3. polls[i].answer \in {"lost", "completed"}
    <3>1. polls[i].answer # "lost" => page'.status = polls[i].answer
      BY <1>0, <2>2 DEF Sweep!WithStatus, Sweep!Page
    <3> QED
      BY <3>1
  <2>4. ~polls[i].awaited /\ run' = run /\ loads' = loads
    BY <1>8, <2>1, <2>3, SwArrives
  <2>5. CASE page' = page
    BY <1>1, <1>4, <2>4, <2>5
  <2>6. CASE polls[i].answer = "completed"
    <3>1. /\ page'.results = page.results /\ page'.history = page.history
          /\ page'.reload = IF page.status = "completed" THEN page.reload ELSE TRUE
      BY <1>0, <2>2, <2>6 DEF Sweep!WithStatus, Sweep!Page
    <3>2. CASE page.status = "completed"
      BY <1>1, <1>4, <2>4, <3>1, <3>2
    <3>3. CASE page.status # "completed"
      <4>1. \A k \in DOMAIN polls : ~polls[k].awaited
        BY <2>4 DEF Sweep!OneIsAwaited
      <4>2. ~Sweep!WillBeUnseen /\ ~Sweep!IsBefore(i)
        BY <2>4, <4>1 DEF Sweep!WillBeUnseen, Sweep!IsBefore
      <4>3. Sweep!Finished
        BY <2>6, <4>2 DEF Sweep!PollsTell
      <4>4. Sweep!Finished'
        BY <1>3, <4>3, SwRunOnly
      <4>5. page'.reload
        BY <3>1, <3>3
      <4> QED
        BY <4>4, <4>5 DEF Sweep!LoadsBring
    <3> QED
      BY <3>2, <3>3
  <2> QED
    BY <2>2, <2>3, <2>5, <2>6
<1>9. ASSUME Sweep!Reload PROVE Sweep!LoadsBring'
  <2> SUFFICES ASSUME page'.status = "completed", Rests' PROVE Sweep!LoadsBring'
    BY DEF Sweep!LoadsBring
  <2>1. run' = run /\ page'.status = page.status
    BY <1>0, <1>9, SwReload DEF Sweep!Page
  <2>2. Sweep!Finished
    BY <2>1 DEF Sweep!LoadsBring
  <2>3. ASSUME NEW s PROVE Brings(s)'
    <3>1. /\ Len(loads) + 1 \in DOMAIN loads' /\ Len(loads) + 2 \in DOMAIN loads'
          /\ loads'[Len(loads) + 1].kind = "results" /\ loads'[Len(loads) + 2].kind = "history"
      BY <1>9, SwReload
    <3>2. \A k \in DOMAIN loads' : loads'[k].answer = "done" =>
             k \in DOMAIN loads /\ k < Len(loads) + 1 /\ k \in Nat /\ Len(loads) \in Nat
      BY <1>0, <1>9, SwReload
    <3>3. \A k \in DOMAIN loads' : loads'[k].answer = "done" =>
             ~Sweep!LastOf("results", k)' /\ ~Sweep!LastOf("history", k)'
      BY <3>1, <3>2 DEF Sweep!LastOf
    <3> QED
      BY <3>1, <3>3 DEF Sweep!ResultsCome, Sweep!RowComes
  <2> QED
    BY <1>1, <1>3, <2>2, <2>3 DEF Sweep!LoadsBring
(* The last load is answered with all there is.                            *)
<1>10. ASSUME NEW i \in DOMAIN loads, Sweep!GetLoad(i) PROVE Sweep!LoadsBring'
  <2> SUFFICES ASSUME page'.status = "completed", Rests' PROVE Sweep!LoadsBring'
    BY DEF Sweep!LoadsBring
  <2>1. page' = page /\ run' = run /\ UNCHANGED Sweep!server
    BY <1>10, SwLoadServed
  <2>2. PICK o \in Sweep!Sweeps : Sweep!IsOver(o)
    BY <2>1 DEF Sweep!LoadsBring, Sweep!Finished
  <2>3. Sweep!Finished'
    BY <2>1, <2>2
    DEF Sweep!server, Sweep!Finished, Sweep!IsOver, Sweep!IsLast, Sweep!RowIsLast, Sweep!HasRow
  <2>4. CASE page.reload
    BY <2>1, <2>3, <2>4 DEF Sweep!LoadsBring
  <2>5. CASE ~page.reload
    <3>1. ASSUME NEW s \in Sweep!Sweeps, Sweep!IsLast(s), Sweep!HasRow(s) PROVE Brings(s)'
      <4>1. s = o
        BY <2>2, <3>1, LastIsUnique DEF Sweep!IsOver, Sweep!IsLast
      <4>2. Sweep!GetResults = [sweep |-> s, part |-> "all"] /\ s \in Sweep!ListSweepHistory
        BY <2>2, <3>1, <4>1, FreshLoads
      <4>3. Brings(s)
        BY <2>1, <2>5, <3>1 DEF Sweep!LoadsBring
      <4>4. \A d : \A k \in DOMAIN loads : Sweep!LastOf(d, k)' <=> Sweep!LastOf(d, k)
        BY <1>10, SwLoadServed DEF Sweep!LastOf
      <4>5. Sweep!ResultsCome(s)'
        <5>1. \A k \in DOMAIN loads : Sweep!LastOf("results", k) /\ loads'[k].answer = "done" =>
                 loads'[k].results = [sweep |-> s, part |-> "all"]
          BY <1>10, <4>2, <4>3, SwLoadServed DEF Sweep!ResultsCome, Sweep!LastOf
        <5>2. (\A k \in DOMAIN loads' : loads'[k].kind # "results") =>
                 page'.results = [sweep |-> s, part |-> "all"]
          BY <1>10, <2>1, <4>3, SwLoadServed DEF Sweep!ResultsCome
        <5> QED
          BY <1>10, <4>4, <5>1, <5>2, SwLoadServed DEF Sweep!ResultsCome
      <4>6. Sweep!RowComes(s)'
        <5>1. \A k \in DOMAIN loads : Sweep!LastOf("history", k) /\ loads'[k].answer = "done" =>
                 s \in loads'[k].history
          BY <1>10, <4>2, <4>3, SwLoadServed DEF Sweep!RowComes, Sweep!LastOf
        <5>2. (\A k \in DOMAIN loads' : loads'[k].kind # "history") => s \in page'.history
          BY <1>10, <2>1, <4>3, SwLoadServed DEF Sweep!RowComes
        <5> QED
          BY <1>10, <4>4, <5>1, <5>2, SwLoadServed DEF Sweep!RowComes
      <4> QED
        BY <4>5, <4>6
    <3>2. \A s \in Sweep!Sweeps : (Sweep!IsLast(s)' <=> Sweep!IsLast(s)) /\
            (Sweep!HasRow(s)' <=> Sweep!HasRow(s))
      BY <2>1 DEF Sweep!server, Sweep!IsLast, Sweep!HasRow
    <3> QED
      BY <2>3, <3>1, <3>2 DEF Sweep!LoadsBring
  <2> QED
    BY <2>4, <2>5
(* It arrives last.                                                        *)
<1>11. ASSUME NEW i \in DOMAIN loads, Sweep!LoadArrives(i) PROVE Sweep!LoadsBring'
  <2> SUFFICES ASSUME page'.status = "completed", Rests' PROVE Sweep!LoadsBring'
    BY DEF Sweep!LoadsBring
  <2>1. page'.status = page.status /\ page'.reload = page.reload /\ UNCHANGED Sweep!server
    BY <1>11, SwLoadArrives
  <2>2. Rests
    BY <1>11, SwLoadArrives DEF Sweep!OneIsAwaited
  <2>3. Sweep!Finished
    BY <2>1, <2>2 DEF Sweep!LoadsBring
  <2>4. Sweep!Finished' /\ \A s \in Sweep!Sweeps : (Sweep!IsLast(s)' <=> Sweep!IsLast(s)) /\
          (Sweep!HasRow(s)' <=> Sweep!HasRow(s))
    BY <2>1, <2>3
    DEF Sweep!server, Sweep!Finished, Sweep!IsOver, Sweep!IsLast, Sweep!RowIsLast, Sweep!HasRow
  <2>5. CASE page.reload
    BY <2>1, <2>4, <2>5 DEF Sweep!LoadsBring
  <2>6. CASE ~page.reload
    <3>0. /\ loads[i].answer = "done" /\ DOMAIN loads' \subseteq Nat
          /\ DOMAIN loads \subseteq Nat \ {0}
          /\ \A o \in DOMAIN loads : o < i => loads[o].kind # loads[i].kind
      <4>1. /\ loads[i].answer \notin {"lost", "pending"} /\ loads[i] \in Sweep!Load
            /\ ~\E o \in 1 .. i - 1 : loads[o].kind = loads[i].kind
        BY <1>0, <1>11 DEF Sweep!LoadArrives
      <4>2. loads[i].answer = "done"
        BY <4>1 DEF Sweep!Load
      <4> QED
        BY <1>0, <4>1, <4>2
    <3>1. /\ loads[i].kind = "results" => page'.results = loads[i].results
          /\ loads[i].kind # "results" => page'.results = page.results
          /\ loads[i].kind = "history" => page'.history = loads[i].history
          /\ loads[i].kind # "history" => page'.history = page.history
      BY <1>11, <3>0, SwLoadArrives
    <3>2. ASSUME NEW d, NEW k \in DOMAIN loads', Sweep!LastOf(d, k)'
          PROVE  /\ Sweep!LastOf(d, Before(k, i)) /\ Before(k, i) \in DOMAIN loads
                 /\ loads'[k] = loads[Before(k, i)]
      <4>1. /\ Before(k, i) \in DOMAIN loads /\ loads'[k] = loads[Before(k, i)]
            /\ loads'[k].kind = d
        BY <1>11, <3>2, SwLoadArrives DEF Sweep!LastOf
      <4>2. ASSUME NEW j \in DOMAIN loads, loads[j].kind = d PROVE j <= Before(k, i)
        <5>1. CASE j = i
          <6>1. ~(Before(k, i) < i)
            BY <3>0, <4>1, <4>2, <5>1
          <6> QED
            BY <3>0, <4>1, <5>1, <6>1
        <5>2. CASE j # i
          <6>1. PICK l \in DOMAIN loads' : Before(l, i) = j /\ loads'[l] = loads[j]
            BY <1>11, <5>2, SwLoadArrives
          <6>2. l <= k
            BY <3>2, <4>2, <6>1 DEF Sweep!LastOf
          <6> QED
            BY <3>0, <6>1, <6>2, BeforeIsInjective
        <5> QED
          BY <5>1, <5>2
      <4> QED
        BY <4>1, <4>2 DEF Sweep!LastOf
    <3>3. ASSUME NEW d, loads[i].kind = d, \A k \in DOMAIN loads' : loads'[k].kind # d
          PROVE  Sweep!LastOf(d, i)
      <4>1. \A j \in DOMAIN loads : loads[j].kind = d => j = i
        BY <1>11, <3>3, SwLoadArrives
      <4> QED
        BY <3>0, <3>3, <4>1 DEF Sweep!LastOf
    <3>4. ASSUME NEW d, loads[i].kind # d, \A k \in DOMAIN loads' : loads'[k].kind # d
          PROVE  \A k \in DOMAIN loads : loads[k].kind # d
      BY <1>11, <3>4, SwLoadArrives
    <3>5. ASSUME NEW s \in Sweep!Sweeps, Sweep!IsLast(s), Sweep!HasRow(s) PROVE Brings(s)'
      <4>1. Sweep!ResultsCome(s) /\ Sweep!RowComes(s)
        BY <2>1, <2>2, <2>6, <3>5 DEF Sweep!LoadsBring
      <4>2. Sweep!ResultsCome(s)'
        <5>1. \A k \in DOMAIN loads' : Sweep!LastOf("results", k)' /\ loads'[k].answer = "done" =>
                 loads'[k].results = [sweep |-> s, part |-> "all"]
          BY <3>2, <4>1 DEF Sweep!ResultsCome
        <5>2. (\A k \in DOMAIN loads' : loads'[k].kind # "results") =>
                 page'.results = [sweep |-> s, part |-> "all"]
          BY <3>0, <3>1, <3>3, <3>4, <4>1 DEF Sweep!ResultsCome
        <5> QED
          BY <5>1, <5>2 DEF Sweep!ResultsCome
      <4>3. Sweep!RowComes(s)'
        <5>1. \A k \in DOMAIN loads' : Sweep!LastOf("history", k)' /\ loads'[k].answer = "done" =>
                 s \in loads'[k].history
          BY <3>2, <4>1 DEF Sweep!RowComes
        <5>2. (\A k \in DOMAIN loads' : loads'[k].kind # "history") => s \in page'.history
          BY <3>0, <3>1, <3>3, <3>4, <4>1 DEF Sweep!RowComes
        <5> QED
          BY <5>1, <5>2 DEF Sweep!RowComes
      <4> QED
        BY <4>2, <4>3
    <3> QED
      BY <2>4, <3>5 DEF Sweep!LoadsBring
  <2> QED
    BY <2>5, <2>6
<1> QED
  BY <1>1, <1>2, <1>5, <1>6, <1>7, <1>8, <1>9, <1>10, <1>11 DEF Sweep!Next

LEMMA SwStep == Sweep!SweepInv /\ (Sweep!Next \/ UNCHANGED Sweep!vars) => Sweep!SweepInv'
<1> SUFFICES ASSUME Sweep!SweepInv, (Sweep!Next \/ UNCHANGED Sweep!vars) PROVE Sweep!SweepInv'
  OBVIOUS
<1>1. CASE UNCHANGED Sweep!vars
  BY <1>1 DEF Sweep!vars, Sweep!calls, Sweep!server, Sweep!observed, Sweep!bounds, Sweep!SweepInv,
     Sweep!TypeOK, Sweep!ServerIsSound, Sweep!OneIsAwaited, Sweep!SweepsAreApart, Sweep!PollsTell,
     Sweep!LoadsBring, Sweep!HasRow, Sweep!IsLast, Sweep!RowIsLast, Sweep!Finished, Sweep!IsOver,
     Sweep!WillBeUnseen, Sweep!IsBefore, Sweep!ResultsCome, Sweep!RowComes, Sweep!LastOf
<1>2. CASE Sweep!Next
  <2>1. Sweep!TypeOK' /\ Sweep!ServerIsSound' /\ Sweep!OneIsAwaited'
    BY <1>2, SwTypes, SwServerIsSound, SwOneIsAwaited DEF Sweep!SweepInv
  <2>2. (unseen => unseen') /\ (disturbed => disturbed')
    <3>1. unseen => unseen'
      BY <1>2 DEF Sweep!Next, Sweep!Tick, Sweep!Reload, Sweep!HandleRun, Sweep!RunSweep,
         Sweep!Started, Sweep!Restart, Sweep!GetStatus, Sweep!PollArrives, Sweep!GetLoad,
         Sweep!LoadArrives, Sweep!RunPipeline, Sweep!observed
    <3>2. disturbed => disturbed'
      BY <1>2 DEF Sweep!Next, Sweep!Tick, Sweep!Reload, Sweep!HandleRun, Sweep!RunSweep,
         Sweep!Started, Sweep!Restart, Sweep!GetStatus, Sweep!PollArrives, Sweep!GetLoad,
         Sweep!LoadArrives, Sweep!RunPipeline, Sweep!observed
    <3> QED
      BY <3>1, <3>2
  <2>3. unseen' \/ Sweep!SweepsAreApart'
    BY <1>2, <2>2, SwApart DEF Sweep!SweepInv
  <2>4. unseen' \/ disturbed' \/ (Sweep!PollsTell' /\ Sweep!LoadsBring')
    BY <1>2, <2>2, SwPollsTell, SwLoadsBring DEF Sweep!SweepInv
  <2> QED
    BY <2>1, <2>3, <2>4 DEF Sweep!SweepInv
<1> QED
  BY <1>1, <1>2

LEMMA SwShows == Sweep!SweepInv => Sweep!CompletedShowsAll
<1> SUFFICES ASSUME Sweep!SweepInv, page.status = "completed", Sweep!Quiet, ~disturbed, ~unseen
             PROVE  Sweep!LastSweepIsShown
  BY DEF Sweep!CompletedShowsAll
<1>1. Sweep!Sweeps \subseteq Nat
  BY SweepsAssumption DEF Sweep!Sweeps
<1>2. Sweep!Finished /\ \A s \in Sweep!Sweeps : Sweep!IsLast(s) /\ Sweep!HasRow(s) =>
        Sweep!ResultsCome(s) /\ Sweep!RowComes(s)
  BY DEF Sweep!SweepInv, Sweep!Quiet, Sweep!LoadsBring
<1>3. PICK s \in Sweep!Sweeps : Sweep!IsLast(s)
  BY <1>2 DEF Sweep!Finished, Sweep!IsOver
<1>4. s \in Sweep!Sweeps \ Sweep!Unborn /\ \A o \in Sweep!Sweeps \ Sweep!Unborn : o <= s
  BY <1>1, <1>3 DEF Sweep!IsLast, Sweep!Unborn
<1>5. Sweep!HasRow(s) => page.results = [sweep |-> s, part |-> "all"] /\ s \in page.history
  BY <1>2, <1>3 DEF Sweep!Quiet, Sweep!ResultsCome, Sweep!RowComes
<1> QED
  BY <1>4, <1>5 DEF Sweep!LastSweepIsShown, Sweep!HasRow

(* Once the page says that a sweep completed and waits for nothing, it     *)
(* shows the last sweep, whole, and its row: while every sweep was seen to *)
(* run and no answer overtook another, "completed" is said of the last     *)
(* sweep alone, and the last load of each kind brings all of it.           *)
THEOREM CompletedShowsTheLastSweep == Spec => []CompletedShowsAll
<1> DEFINE Inv == route = "sweep" => Sweep!SweepInv
<1>1. Init => Inv
  BY Starts, SwInit
<1>2. Inv /\ [Next]_vars => Inv'
  BY Steps, SwStep
<1>3. Inv => CompletedShowsAll
  BY SwShows DEF CompletedShowsAll
<1> QED
  BY <1>1, <1>2, <1>3, PTL DEF Spec

-----------------------------------------------------------------------------
(* The pages, their calls, the forms and what the server keeps have their  *)
(* types.                                                                  *)
THEOREM TasksTypeCorrect == Spec => []TypeOK
<1> DEFINE Inv == /\ route = "backtest" => Backtest!FollowInv
                  /\ route = "optimizer" => Optimizer!ProgressInv
                  /\ route = "sweep" => Sweep!SweepInv
                  /\ route = "form" => Request!SubmitInv
<1>1. Init => Inv
  BY Starts, BtInit, OpInit, SwInit, SubmitInit
<1>2. Inv /\ [Next]_vars => Inv'
  BY Steps, BtStep, OpStep, SwStep, SubmitStep
<1>3. Inv => TypeOK
  BY DEF TypeOK, Backtest!FollowInv, Optimizer!ProgressInv, Sweep!SweepInv, Request!SubmitInv
<1> QED
  BY <1>1, <1>2, <1>3, PTL DEF Spec

=============================================================================

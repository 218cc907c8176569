---------------------------- MODULE SweepProofs ----------------------------
(***************************************************************************)
(* Theorems about SweepEngine for every set of threads, jobs and requests, *)
(* every size of the pool and every bound.                                 *)
(***************************************************************************)
EXTENDS SweepEngine, FiniteSetTheorems, TLAPS

PipelineRow == [pc: Places, run_id: Times, futures: [Jobs -> FutureStates],
                rows: SUBSET Jobs, waiting: SUBSET Jobs, generalized: SUBSET Jobs]

LEMMA FuturesFinite ==
    ASSUME NEW p \in Pipelines, NEW places
    PROVE  /\ IsFiniteSet(Futures(p, places))
           /\ Cardinality(Futures(p, places)) \in Nat
BY SweepAssumption, FS_Subset, FS_CardinalityType DEF Futures

LEMMA InitTypes == Init => TypeOK
<1> SUFFICES ASSUME Init PROVE TypeOK
  OBVIOUS
<1>1. \A p \in Pipelines : Futures(p, {"running"}) = {}
  BY DEF Init, Futures, Unborn
<1>2. \A p \in Pipelines : Cardinality(Futures(p, {"running"})) <= Concurrency
  BY <1>1, SweepAssumption, FS_EmptySet
<1>3. 0 \in Times /\ 1 \in Times
  BY SweepAssumption DEF Times
<1>4. Unborn \in PipelineRow
  BY <1>3 DEF Unborn, PipelineRow, Places, FutureStates
<1>5. state \in [status: {"idle", "running", "completed", "cancelled", "failed"},
                 run_id: Times, cancelled: BOOLEAN, results: SUBSET Found]
  BY <1>3 DEF Init, Idle
<1> QED
  BY <1>2, <1>3, <1>4, <1>5 DEF Init, TypeOK, PipelineRow, NoRequest

-----------------------------------------------------------------------------
(***************************************************************************)
(* The steps by what they do to the threads.                               *)
(***************************************************************************)

(* The thread p moves on; its futures and every other thread stay.         *)
MovesOn(p) ==
    \E row \in PipelineRow :
        /\ row.futures = pipelines[p].futures
        /\ pipelines' = [pipelines EXCEPT ![p] = row]

LEMMA MovesOnTypes ==
    ASSUME TypeOK, NEW p \in Pipelines, MovesOn(p)
    PROVE  /\ pipelines' \in [Pipelines -> PipelineRow]
           /\ \A q \in Pipelines : \A places : Futures(q, places)' = Futures(q, places)
           /\ \A q \in Pipelines : Cardinality(Futures(q, {"running"}))' <= Concurrency
<1>1. PICK row \in PipelineRow : /\ row.futures = pipelines[p].futures
                                 /\ pipelines' = [pipelines EXCEPT ![p] = row]
  BY DEF MovesOn
<1>2. pipelines \in [Pipelines -> PipelineRow]
  BY DEF TypeOK, PipelineRow
<1>3. \A q \in Pipelines : pipelines'[q].futures = pipelines[q].futures
  BY <1>1, <1>2
<1>4. \A q \in Pipelines : \A places : Futures(q, places)' = Futures(q, places)
  BY <1>3 DEF Futures
<1> QED
  BY <1>1, <1>2, <1>4 DEF TypeOK

LEMMA QuietThreads ==
    ASSUME TypeOK, NEW p \in Pipelines,
           \/ \E r \in Requests : StartSweep(r, p)
           \/ Begin(p) \/ EndScan(p) \/ PublishCancelled(p) \/ Drain(p)
           \/ \E j \in Jobs : InsertStrategy(p, j)
           \/ \E j \in Jobs, yes \in BOOLEAN : ValidateHoldout(p, j, yes)
           \/ \E winners \in SUBSET pipelines[p].rows : BeginHoldout(p, winners)
           \/ \E top \in SUBSET pipelines[p].generalized : EndHoldout(p, top)
           \/ PickRow(p) \/ EndRegister(p) \/ Raise(p)
           \/ Persist(p) \/ PersistFails(p) \/ PublishCompleted(p) \/ PublishFailed(p)
    PROVE  MovesOn(p)
<1>0. pipelines[p] \in PipelineRow /\ pipelines \in [Pipelines -> PipelineRow] /\ now \in Times
  BY DEF TypeOK, PipelineRow
<1>1. ASSUME NEW pc \in Places, Goto(p, pc) PROVE MovesOn(p)
  <2> DEFINE row == [pipelines[p] EXCEPT !.pc = pc]
  <2>1. row \in PipelineRow /\ row.futures = pipelines[p].futures
    BY <1>0 DEF PipelineRow
  <2>2. pipelines' = [pipelines EXCEPT ![p] = row]
    BY <1>1 DEF Goto
  <2> HIDE DEF row
  <2> QED
    BY <2>1, <2>2 DEF MovesOn
<1>2. CASE \E r \in Requests : StartSweep(r, p)
  BY <1>1, <1>2 DEF StartSweep, Places
<1>3. CASE \/ EndScan(p) \/ PublishCancelled(p) \/ Drain(p) \/ PickRow(p) \/ EndRegister(p)
           \/ Raise(p) \/ PublishCompleted(p) \/ PublishFailed(p)
  BY <1>1, <1>3 DEF EndScan, PublishCancelled, Drain, PickRow, EndRegister, Raise,
                    PublishCompleted, PublishFailed, Places, Ended
<1>4. CASE Persist(p) \/ PersistFails(p)
  <2>1. AfterPersist(p) \in Places
    BY DEF AfterPersist, Places
  <2> QED
    BY <1>1, <1>4, <2>1 DEF Persist, PersistFails
<1>5. CASE Begin(p)
  <2> DEFINE row == [pipelines[p] EXCEPT !.pc = "importing", !.run_id = now]
  <2>1. row \in PipelineRow /\ row.futures = pipelines[p].futures
    BY <1>0 DEF PipelineRow, Places
  <2>2. pipelines' = [pipelines EXCEPT ![p] = row]
    BY <1>5 DEF Begin
  <2> HIDE DEF row
  <2> QED
    BY <2>1, <2>2 DEF MovesOn
<1>6. ASSUME NEW j \in Jobs, InsertStrategy(p, j) PROVE MovesOn(p)
  <2> DEFINE row == [pipelines[p] EXCEPT !.pc = "registering",
                                         !.waiting = pipelines[p].waiting \ {j}]
  <2>1. row \in PipelineRow /\ row.futures = pipelines[p].futures
    BY <1>0 DEF PipelineRow, Places
  <2>2. pipelines' = [pipelines EXCEPT ![p] = row]
    BY <1>6 DEF InsertStrategy
  <2> HIDE DEF row
  <2> QED
    BY <2>1, <2>2 DEF MovesOn
<1>7. ASSUME NEW j \in Jobs, NEW yes \in BOOLEAN, ValidateHoldout(p, j, yes) PROVE MovesOn(p)
  <2> DEFINE row == [pipelines[p] EXCEPT !.waiting = pipelines[p].waiting \ {j},
          !.generalized = pipelines[p].generalized \cup (IF yes THEN {j} ELSE {})]
  <2>1. row \in PipelineRow /\ row.futures = pipelines[p].futures
    BY <1>0 DEF PipelineRow, Places
  <2>2. pipelines' = [pipelines EXCEPT ![p] = row]
    BY <1>7 DEF ValidateHoldout
  <2> HIDE DEF row
  <2> QED
    BY <2>1, <2>2 DEF MovesOn
<1>8. ASSUME NEW jobs \in SUBSET Jobs, NEW pc \in Places,
             pipelines' = [pipelines EXCEPT ![p].pc = pc, ![p].waiting = jobs]
      PROVE  MovesOn(p)
  <2> DEFINE row == [pipelines[p] EXCEPT !.pc = pc, !.waiting = jobs]
  <2>1. row \in PipelineRow /\ row.futures = pipelines[p].futures
    BY <1>0 DEF PipelineRow
  <2>2. pipelines' = [pipelines EXCEPT ![p] = row]
    BY <1>8
  <2> HIDE DEF row
  <2> QED
    BY <2>1, <2>2 DEF MovesOn
<1>9. CASE \E winners \in SUBSET pipelines[p].rows : BeginHoldout(p, winners)
  BY <1>0, <1>8, <1>9 DEF BeginHoldout, PipelineRow, Places
<1>10. CASE \E top \in SUBSET pipelines[p].generalized : EndHoldout(p, top)
  BY <1>0, <1>8, <1>10 DEF EndHoldout, PipelineRow, Places
<1> QED
  BY <1>2, <1>3, <1>4, <1>5, <1>6, <1>7, <1>9, <1>10

(* The steps that change the futures of p, one field of its record aside.  *)
FuturesMove(p) ==
    \E row \in PipelineRow :
        /\ pipelines' = [pipelines EXCEPT ![p] = row]
        /\ {j \in Jobs : row.futures[j] = "running"} \subseteq Futures(p, {"running"})

LEMMA FuturesMoveTypes ==
    ASSUME TypeOK, NEW p \in Pipelines, FuturesMove(p)
    PROVE  /\ pipelines' \in [Pipelines -> PipelineRow]
           /\ \A q \in Pipelines : Cardinality(Futures(q, {"running"}))' <= Concurrency
<1>1. PICK row \in PipelineRow :
          /\ pipelines' = [pipelines EXCEPT ![p] = row]
          /\ {j \in Jobs : row.futures[j] = "running"} \subseteq Futures(p, {"running"})
  BY DEF FuturesMove
<1>2. pipelines \in [Pipelines -> PipelineRow]
  BY DEF TypeOK, PipelineRow
<1>3. ASSUME NEW q \in Pipelines
      PROVE  Cardinality(Futures(q, {"running"}))' <= Concurrency
  <2>1. Futures(q, {"running"})' \subseteq Futures(q, {"running"})
    BY <1>1, <1>2 DEF Futures
  <2>2. /\ Cardinality(Futures(q, {"running"}))' <= Cardinality(Futures(q, {"running"}))
        /\ Cardinality(Futures(q, {"running"}))' \in Nat
    BY <2>1, FuturesFinite, FS_Subset, FS_CardinalityType
  <2>3. Cardinality(Futures(q, {"running"})) <= Concurrency
    BY DEF TypeOK
  <2> QED
    BY <2>2, <2>3, FuturesFinite, SweepAssumption
<1> QED
  BY <1>1, <1>2, <1>3

LEMMA ScanThreads ==
    ASSUME TypeOK, NEW p \in Pipelines,
           \/ \E jobs \in SUBSET Jobs : EndImport(p, jobs)
           \/ \E j \in Jobs : ConsumeRaised(p, j)
           \/ \E j \in Jobs, keep \in BOOLEAN : Consume(p, j, keep)
           \/ SeeCancel(p)
    PROVE  FuturesMove(p)
<1>0. pipelines[p] \in PipelineRow /\ pipelines \in [Pipelines -> PipelineRow]
  BY DEF TypeOK, PipelineRow
<1>1. ASSUME NEW jobs \in SUBSET Jobs, EndImport(p, jobs) PROVE FuturesMove(p)
  <2> DEFINE row == [pipelines[p] EXCEPT !.pc = "sweeping",
                        !.futures = [j \in Jobs |-> IF j \in jobs THEN "queued" ELSE "none"]]
  <2>1. row \in PipelineRow /\ \A j \in Jobs : row.futures[j] # "running"
    BY <1>0 DEF PipelineRow, Places, FutureStates
  <2>2. pipelines' = [pipelines EXCEPT ![p] = row]
    BY <1>1 DEF EndImport
  <2> HIDE DEF row
  <2> QED
    BY <2>1, <2>2 DEF FuturesMove
<1>2. ASSUME NEW j \in Jobs, NEW rows \in SUBSET Jobs, pipelines[p].futures[j] = "finished",
             pipelines' = [pipelines EXCEPT ![p].futures[j] = "consumed", ![p].rows = rows]
      PROVE  FuturesMove(p)
  <2> DEFINE row == [pipelines[p] EXCEPT
                        !.futures = [pipelines[p].futures EXCEPT ![j] = "consumed"],
                        !.rows = rows]
  <2>1. row \in PipelineRow
    BY <1>0 DEF PipelineRow, FutureStates
  <2>2. {i \in Jobs : row.futures[i] = "running"} \subseteq Futures(p, {"running"})
    BY <1>0 DEF PipelineRow, Futures
  <2>3. pipelines' = [pipelines EXCEPT ![p] = row]
    BY <1>2
  <2> HIDE DEF row
  <2> QED
    BY <2>1, <2>2, <2>3 DEF FuturesMove
<1>3. ASSUME NEW j \in Jobs, NEW keep \in BOOLEAN, Consume(p, j, keep) PROVE FuturesMove(p)
  <2> DEFINE rows == pipelines[p].rows \cup (IF keep THEN {j} ELSE {})
  <2>1. rows \in SUBSET Jobs
    BY <1>0 DEF PipelineRow
  <2>2. /\ pipelines[p].futures[j] = "finished"
        /\ pipelines' = [pipelines EXCEPT ![p].futures[j] = "consumed", ![p].rows = rows]
    BY <1>3 DEF Consume
  <2> HIDE DEF rows
  <2> QED
    BY <1>2, <2>1, <2>2
<1>4. ASSUME NEW j \in Jobs, ConsumeRaised(p, j) PROVE FuturesMove(p)
  <2> DEFINE row == [pipelines[p] EXCEPT
                        !.futures = [pipelines[p].futures EXCEPT ![j] = "consumed"]]
  <2>1. row \in PipelineRow
    BY <1>0 DEF PipelineRow, FutureStates
  <2>2. {i \in Jobs : row.futures[i] = "running"} \subseteq Futures(p, {"running"})
    BY <1>0 DEF PipelineRow, Futures
  <2>3. pipelines' = [pipelines EXCEPT ![p] = row]
    BY <1>4 DEF ConsumeRaised
  <2> HIDE DEF row
  <2> QED
    BY <2>1, <2>2, <2>3 DEF FuturesMove
<1>5. CASE SeeCancel(p)
  <2> DEFINE futures == [j \in Jobs |-> IF pipelines[p].futures[j] \in {"queued", "finished"}
                                        THEN "dropped" ELSE pipelines[p].futures[j]]
             row == [pipelines[p] EXCEPT !.pc = "cancelling", !.futures = futures]
  <2>1. row \in PipelineRow
    BY <1>0 DEF PipelineRow, FutureStates, Places
  <2>2. {i \in Jobs : row.futures[i] = "running"} \subseteq Futures(p, {"running"})
    BY <1>0 DEF PipelineRow, Futures
  <2>3. pipelines' = [pipelines EXCEPT ![p] = row]
    BY <1>5 DEF SeeCancel
  <2> HIDE DEF row
  <2> QED
    BY <2>1, <2>2, <2>3 DEF FuturesMove
<1> QED
  BY <1>1, <1>3, <1>4, <1>5

LEMMA WorkTypes ==
    ASSUME TypeOK, NEW p \in Pipelines, Work(p)
    PROVE  /\ pipelines' \in [Pipelines -> PipelineRow]
           /\ \A q \in Pipelines : Cardinality(Futures(q, {"running"}))' <= Concurrency
<1>0. pipelines[p] \in PipelineRow /\ pipelines \in [Pipelines -> PipelineRow]
  BY DEF TypeOK, PipelineRow
<1>1. PICK j \in Jobs, to \in FutureStates :
          /\ \/ /\ to = "running"
                /\ Cardinality(Futures(p, {"running"})) < Concurrency
             \/ to = "finished"
          /\ pipelines' = [pipelines EXCEPT ![p].futures[j] = to]
  BY DEF Work, FutureStates
<1>2. [pipelines[p] EXCEPT !.futures = [pipelines[p].futures EXCEPT ![j] = to]] \in PipelineRow
  BY <1>0 DEF PipelineRow
<1>3. pipelines' \in [Pipelines -> PipelineRow]
  BY <1>0, <1>1, <1>2
<1>4. ASSUME NEW q \in Pipelines
      PROVE  Cardinality(Futures(q, {"running"}))' <= Concurrency
  <2>0. /\ Cardinality(Futures(q, {"running"})) <= Concurrency
        /\ Cardinality(Futures(q, {"running"})) \in Nat
    BY FuturesFinite DEF TypeOK
  <2>1. CASE Futures(q, {"running"})' \subseteq Futures(q, {"running"})
    <3>1. /\ Cardinality(Futures(q, {"running"}))' <= Cardinality(Futures(q, {"running"}))
          /\ Cardinality(Futures(q, {"running"}))' \in Nat
      BY <2>1, FuturesFinite, FS_Subset, FS_CardinalityType
    <3> QED
      BY <2>0, <3>1, SweepAssumption
  <2>2. CASE q = p /\ to = "running"
    <3>1. Futures(q, {"running"})' = Futures(q, {"running"}) \cup {j}
      BY <1>0, <1>1, <2>2 DEF Futures, PipelineRow
    <3>2. \/ Cardinality(Futures(q, {"running"}))' = Cardinality(Futures(q, {"running"})) + 1
          \/ Cardinality(Futures(q, {"running"}))' = Cardinality(Futures(q, {"running"}))
      BY <3>1, FuturesFinite, FS_AddElement
    <3>3. Cardinality(Futures(p, {"running"})) < Concurrency
      BY <1>1, <2>2
    <3> QED
      BY <2>0, <2>2, <3>2, <3>3, SweepAssumption
  <2>3. CASE q # p \/ to = "finished"
    <3>1. Futures(q, {"running"})' \subseteq Futures(q, {"running"})
      BY <1>0, <1>1, <2>3 DEF Futures, PipelineRow
    <3> QED
      BY <2>1, <3>1
  <2> QED
    BY <1>1, <2>2, <2>3
<1> QED
  BY <1>3, <1>4

LEMMA CrashTypes ==
    ASSUME TypeOK, Crash
    PROVE  /\ pipelines' \in [Pipelines -> PipelineRow]
           /\ \A q \in Pipelines : Cardinality(Futures(q, {"running"}))' <= Concurrency
<1>1. Unborn \in PipelineRow
  BY SweepAssumption DEF Unborn, PipelineRow, Places, FutureStates, Times
<1>2. \A q \in Pipelines : [pipelines[q] EXCEPT !.pc = "lost"] \in PipelineRow
  <2>1. pipelines \in [Pipelines -> PipelineRow] /\ "lost" \in Places
    BY DEF TypeOK, PipelineRow, Places, Ended
  <2> QED
    BY <2>1 DEF PipelineRow
<1>3. ASSUME NEW q \in Pipelines
      PROVE  Cardinality(Futures(q, {"running"}))' <= Concurrency
  <2>1. CASE At(q, "unborn")
    <3>1. Futures(q, {"running"})' = {}
      BY <2>1 DEF Crash, Futures, Unborn
    <3> QED
      BY <3>1, FS_EmptySet, SweepAssumption
  <2>2. CASE ~At(q, "unborn")
    <3>1. pipelines'[q].futures = pipelines[q].futures
      BY <2>2 DEF Crash, TypeOK
    <3>2. Futures(q, {"running"})' = Futures(q, {"running"})
      BY <3>1 DEF Futures
    <3> QED
      BY <3>2 DEF TypeOK
  <2> QED
    BY <2>1, <2>2
<1>4. pipelines' \in [Pipelines -> PipelineRow]
  BY <1>1, <1>2 DEF Crash
<1> QED
  BY <1>3, <1>4

LEMMA ThreadTypes ==
    ASSUME TypeOK, [Next]_vars
    PROVE  /\ pipelines' \in [Pipelines -> PipelineRow]
           /\ \A q \in Pipelines : Cardinality(Futures(q, {"running"}))' <= Concurrency
<1>1. CASE UNCHANGED pipelines
  BY <1>1 DEF TypeOK, PipelineRow, Futures
<1>2. ASSUME NEW p \in Pipelines, MovesOn(p) \/ FuturesMove(p) \/ Work(p)
      PROVE  /\ pipelines' \in [Pipelines -> PipelineRow]
             /\ \A q \in Pipelines : Cardinality(Futures(q, {"running"}))' <= Concurrency
  BY <1>2, MovesOnTypes, FuturesMoveTypes, WorkTypes
<1>3. ASSUME NEW p \in Pipelines, Run(p) \/ \E r \in Requests : StartSweep(r, p)
      PROVE  MovesOn(p) \/ FuturesMove(p)
  BY <1>3, QuietThreads, ScanThreads DEF Run
<1>4. CASE Crash
  BY <1>4, CrashTypes
<1>5. \/ UNCHANGED pipelines \/ Crash
      \/ \E p \in Pipelines : Run(p) \/ Work(p) \/ \E r \in Requests : StartSweep(r, p)
  BY DEF Next, RefuseSweep, ReadRunId, CancelSweep, Tick, vars
<1> QED
  BY <1>1, <1>2, <1>3, <1>4, <1>5

-----------------------------------------------------------------------------
(* The variables beside the threads.                                       *)
StateRecord == [status: {"idle", "running", "completed", "cancelled", "failed"},
                run_id: Times, cancelled: BOOLEAN, results: SUBSET Found]
RunRecord == [pipeline: Pipelines, status: {"completed", "failed"}, results: SUBSET Jobs]

LEMMA StateSteps ==
    ASSUME [Next]_vars
    PROVE  \/ UNCHANGED state \/ Crash \/ CancelSweep
           \/ \E p \in Pipelines :
                 \/ Begin(p) \/ PublishCancelled(p) \/ PublishFailed(p) \/ PublishCompleted(p)
                 \/ \E r \in Requests : StartSweep(r, p)
                 \/ \E j \in Jobs, keep \in BOOLEAN : Consume(p, j, keep)
BY DEF Next, Run, Work, RefuseSweep, ReadRunId, Tick, vars, EndScan, SeeCancel, Drain,
       EndImport, ConsumeRaised, InsertStrategy, ValidateHoldout, BeginHoldout, EndHoldout,
       PickRow, EndRegister, Raise, Persist, PersistFails

LEMMA StateTypes == ASSUME TypeOK, [Next]_vars PROVE state' \in StateRecord
<1>0. /\ state \in StateRecord /\ Idle \in StateRecord /\ now \in Times
      /\ pipelines \in [Pipelines -> PipelineRow]
  BY SweepAssumption DEF TypeOK, StateRecord, PipelineRow, Idle, Times
<1>1. CASE UNCHANGED state
  BY <1>0, <1>1
<1>2. CASE Crash \/ CancelSweep
  BY <1>0, <1>2 DEF Crash, CancelSweep, StateRecord
<1>3. ASSUME NEW p \in Pipelines,
             \/ Begin(p) \/ PublishCancelled(p) \/ PublishFailed(p)
             \/ \E r \in Requests : StartSweep(r, p)
      PROVE  state' \in StateRecord
  BY <1>0, <1>3 DEF Begin, PublishCancelled, PublishFailed, StartSweep, StateRecord, Idle
<1>4. ASSUME NEW p \in Pipelines, PublishCompleted(p) PROVE state' \in StateRecord
  <2>1. ResultsOf(p, pipelines[p].rows) \in SUBSET Found
    BY <1>0 DEF ResultsOf, Found, PipelineRow
  <2> QED
    BY <1>0, <1>4, <2>1 DEF PublishCompleted, StateRecord
<1>5. ASSUME NEW p \in Pipelines, NEW j \in Jobs, NEW keep \in BOOLEAN, Consume(p, j, keep)
      PROVE  state' \in StateRecord
  <2>1. ResultsOf(p, pipelines[p].rows \cup (IF keep THEN {j} ELSE {})) \in SUBSET Found
    BY <1>0 DEF ResultsOf, Found, PipelineRow
  <2> QED
    BY <1>0, <1>5, <2>1 DEF Consume, StateRecord
<1> QED
  BY <1>1, <1>2, <1>3, <1>4, <1>5, StateSteps

(* Only Persist writes a row, only InsertStrategy registers.               *)
LEMMA TableSteps ==
    ASSUME [Next]_vars
    PROVE  /\ UNCHANGED sweep_runs \/ \E p \in Pipelines : Persist(p)
           /\ UNCHANGED <<portfolio, late>>
              \/ \E p \in Pipelines, j \in Jobs : InsertStrategy(p, j)
<1>1. CASE ~\E p \in Pipelines : Run(p)
  BY <1>1 DEF Next, Work, StartSweep, RefuseSweep, ReadRunId, CancelSweep, Tick, Crash, vars,
              observed
<1>2. ASSUME NEW p \in Pipelines, Run(p)
      PROVE  /\ UNCHANGED sweep_runs \/ Persist(p)
             /\ UNCHANGED <<portfolio, late>> \/ \E j \in Jobs : InsertStrategy(p, j)
  <2>1. CASE Begin(p) \/ EndScan(p) \/ SeeCancel(p) \/ PublishCancelled(p) \/ Drain(p)
    BY <2>1 DEF Begin, EndScan, SeeCancel, PublishCancelled, Drain, observed
  <2>2. ASSUME NEW jobs, EndImport(p, jobs) \/ BeginHoldout(p, jobs) \/ EndHoldout(p, jobs)
        PROVE  UNCHANGED <<sweep_runs, portfolio, late>>
    BY <2>2 DEF EndImport, BeginHoldout, EndHoldout, observed
  <2>3. ASSUME NEW j, NEW yes, ConsumeRaised(p, j) \/ Consume(p, j, yes)
                               \/ ValidateHoldout(p, j, yes)
        PROVE  UNCHANGED <<sweep_runs, portfolio, late>>
    BY <2>3 DEF ConsumeRaised, Consume, ValidateHoldout, observed
  <2>4. CASE PickRow(p) \/ EndRegister(p) \/ Raise(p) \/ PublishCompleted(p) \/ PublishFailed(p)
    BY <2>4 DEF PickRow, EndRegister, Raise, PublishCompleted, PublishFailed, observed
  <2>5. CASE Persist(p) \/ PersistFails(p)
    BY <2>5 DEF Persist, PersistFails, observed
  <2>6. CASE \E j \in Jobs : InsertStrategy(p, j)
    BY <2>6 DEF InsertStrategy
  <2> QED
    BY <1>2, <2>1, <2>2, <2>3, <2>4, <2>5, <2>6 DEF Run
<1> QED
  BY <1>1, <1>2

LEMMA TableTypes ==
    ASSUME TypeOK, [Next]_vars
    PROVE  /\ sweep_runs' \in [Times -> RunRecord \cup {NoRun}]
           /\ portfolio' \subseteq Found
           /\ late' \in [Pipelines -> Nat]
<1>0. /\ sweep_runs \in [Times -> RunRecord \cup {NoRun}]
      /\ pipelines \in [Pipelines -> PipelineRow]
      /\ portfolio \subseteq Found /\ late \in [Pipelines -> Nat]
  BY DEF TypeOK, RunRecord, PipelineRow
<1>1. ASSUME NEW p \in Pipelines, Persist(p)
      PROVE  sweep_runs' \in [Times -> RunRecord \cup {NoRun}]
  <2>1. RunRow(p) \in RunRecord
    BY <1>0 DEF RunRow, RunRecord, PipelineRow
  <2> QED
    BY <1>0, <1>1, <2>1 DEF Persist
<1>2. ASSUME NEW p \in Pipelines, NEW j \in Jobs, InsertStrategy(p, j)
      PROVE  portfolio' \subseteq Found /\ late' \in [Pipelines -> Nat]
  BY <1>0, <1>2 DEF InsertStrategy, Found
<1> QED
  BY <1>0, <1>1, <1>2, TableSteps

LEMMA OutsideTypes ==
    ASSUME TypeOK, [Next]_vars
    PROVE  /\ requests' \in [Requests -> [pc: {"idle", "started", "accepted", "refused"},
                                          pipeline: Pipelines \cup {NoPipeline}, run_id: Times]]
           /\ now' \in Times
           /\ acknowledged' \subseteq Pipelines
           /\ cancels' \in Nat /\ failures' \in Nat /\ faults' \in Nat
<1> DEFINE Asked == [pc: {"idle", "started", "accepted", "refused"},
                     pipeline: Pipelines \cup {NoPipeline}, run_id: Times]
<1>0. /\ requests \in [Requests -> Asked] /\ now \in Times /\ acknowledged \subseteq Pipelines
      /\ cancels \in Nat /\ failures \in Nat /\ faults \in Nat
      /\ state.run_id \in Times
      /\ 0 \in Times
  BY SweepAssumption DEF TypeOK, Times
<1>1. ASSUME NEW p \in Pipelines, Run(p)
      PROVE  /\ UNCHANGED <<requests, now, acknowledged, cancels, faults>>
             /\ failures' \in Nat
  <2>1. CASE Begin(p) \/ EndScan(p) \/ SeeCancel(p) \/ PublishCancelled(p) \/ Drain(p)
    BY <1>0, <2>1 DEF Begin, EndScan, SeeCancel, PublishCancelled, Drain, observed, counts
  <2>2. ASSUME NEW jobs, EndImport(p, jobs) \/ BeginHoldout(p, jobs) \/ EndHoldout(p, jobs)
        PROVE  UNCHANGED <<requests, now, acknowledged, cancels, failures, faults>>
    BY <2>2 DEF EndImport, BeginHoldout, EndHoldout, observed, counts
  <2>3. ASSUME NEW j, NEW yes, ConsumeRaised(p, j) \/ Consume(p, j, yes)
                               \/ ValidateHoldout(p, j, yes) \/ InsertStrategy(p, j)
        PROVE  UNCHANGED <<requests, now, acknowledged, cancels, failures, faults>>
    BY <2>3 DEF ConsumeRaised, Consume, ValidateHoldout, InsertStrategy, observed, counts
  <2>4. CASE PickRow(p) \/ EndRegister(p) \/ PublishCompleted(p) \/ PublishFailed(p) \/ Persist(p)
    BY <1>0, <2>4 DEF PickRow, EndRegister, PublishCompleted, PublishFailed, Persist,
                      observed, counts
  <2>5. CASE Raise(p) \/ PersistFails(p)
    BY <1>0, <2>5 DEF Raise, PersistFails, Fails, observed
  <2> QED
    BY <1>0, <1>1, <2>1, <2>2, <2>3, <2>4, <2>5 DEF Run
<1>2. ASSUME NEW p \in Pipelines, Work(p)
      PROVE  UNCHANGED <<requests, now, acknowledged, cancels, failures, faults>>
  BY <1>2 DEF Work, observed, counts
<1>3. ASSUME NEW r \in Requests,
             RefuseSweep(r) \/ ReadRunId(r) \/ \E p \in Pipelines : StartSweep(r, p)
      PROVE  /\ UNCHANGED <<now, acknowledged, cancels, failures, faults>>
             /\ requests' \in [Requests -> Asked]
  <2>1. UNCHANGED <<now, acknowledged, cancels, failures, faults>>
    BY <1>3 DEF RefuseSweep, ReadRunId, StartSweep, observed, counts
  <2>2. CASE RefuseSweep(r)
    <3>1. [NoRequest EXCEPT !.pc = "refused"] \in Asked
      BY <1>0 DEF NoRequest
    <3> QED
      BY <1>0, <2>2, <2>1, <3>1 DEF RefuseSweep
  <2>3. CASE ReadRunId(r)
    <3>1. \A pc \in {"refused", "accepted"} :
              [requests[r] EXCEPT !.pc = pc, !.run_id = state.run_id] \in Asked
      BY <1>0
    <3>2. PICK pc \in {"refused", "accepted"} :
              requests' = [requests EXCEPT
                  ![r] = [requests[r] EXCEPT !.pc = pc, !.run_id = state.run_id]]
      BY <1>0, <2>3 DEF ReadRunId
    <3> QED
      BY <1>0, <2>1, <3>1, <3>2
  <2>4. ASSUME NEW p \in Pipelines, StartSweep(r, p) PROVE requests' \in [Requests -> Asked]
    <3>1. [NoRequest EXCEPT !.pc = "started", !.pipeline = p] \in Asked
      BY <1>0 DEF NoRequest
    <3> QED
      BY <1>0, <2>4, <3>1 DEF StartSweep
  <2> QED
    BY <1>3, <2>1, <2>2, <2>3, <2>4
<1>4. CASE CancelSweep
  BY <1>0, <1>4 DEF CancelSweep, UnderWay
<1>5. CASE Tick
  BY <1>0, <1>5, SweepAssumption DEF Tick, Times, observed, counts
<1>6. CASE Crash
  BY <1>0, <1>6 DEF Crash, NoRequest, observed
<1>7. CASE UNCHANGED vars
  BY <1>0, <1>7 DEF vars, observed, counts
<1> QED
  BY <1>0, <1>1, <1>2, <1>3, <1>4, <1>5, <1>6, <1>7 DEF Next

LEMMA NextTypes == TypeOK /\ [Next]_vars => TypeOK'
<1> SUFFICES ASSUME TypeOK, [Next]_vars PROVE TypeOK'
  OBVIOUS
<1>1. /\ pipelines' \in [Pipelines -> PipelineRow]
      /\ \A q \in Pipelines : Cardinality(Futures(q, {"running"}))' <= Concurrency
  BY ThreadTypes
<1>2. state' \in StateRecord
  BY StateTypes
<1> QED
  BY <1>1, <1>2, TableTypes, OutsideTypes DEF TypeOK, PipelineRow, StateRecord, RunRecord

(* Every variable keeps its type, and no pool runs more jobs than it has   *)
(* workers.                                                                *)
THEOREM TypeCorrect == Spec => []TypeOK
<1> QED
  BY InitTypes, NextTypes, PTL DEF Spec

-----------------------------------------------------------------------------
(***************************************************************************)
(* What one thread may do in a step, and what it can no longer do once its *)
(* scan is over.                                                           *)
(***************************************************************************)
LEMMA OneThreadSteps ==
    ASSUME TypeOK, [Next]_vars, NEW q \in Pipelines
    PROVE  \/ pipelines'[q] = pipelines[q]
           \/ Crash
           \/ Run(q) \/ Work(q) \/ \E r \in Requests : StartSweep(r, q)
<1>1. CASE UNCHANGED pipelines
  BY <1>1
<1>2. ASSUME NEW p \in Pipelines, p # q,
             Run(p) \/ Work(p) \/ \E r \in Requests : StartSweep(r, p)
      PROVE  pipelines'[q] = pipelines[q]
  <2>1. CASE Work(p)
    BY <1>2, <2>1 DEF Work, TypeOK
  <2>2. CASE Run(p) \/ \E r \in Requests : StartSweep(r, p)
    <3>1. MovesOn(p) \/ FuturesMove(p)
      BY <2>2, QuietThreads, ScanThreads DEF Run
    <3> QED
      BY <1>2, <3>1 DEF MovesOn, FuturesMove, TypeOK
  <2> QED
    BY <1>2, <2>1, <2>2
<1>3. \/ UNCHANGED pipelines \/ Crash
      \/ \E p \in Pipelines : Run(p) \/ Work(p) \/ \E r \in Requests : StartSweep(r, p)
  BY DEF Next, RefuseSweep, ReadRunId, CancelSweep, Tick, vars
<1> QED
  BY <1>1, <1>2, <1>3

(* A thread whose scan is over keeps its futures and its rows; what it has *)
(* generalized is settled once the hold-out is.                            *)
Early == {"unborn", "starting", "importing"}

LEMMA SettledStep ==
    ASSUME TypeOK, [Next]_vars, NEW q \in Pipelines, Whole(q), pipelines[q].pc \notin Early
    PROVE  /\ pipelines'[q].futures = pipelines[q].futures
           /\ Whole(q)'
           /\ pipelines'[q].rows = pipelines[q].rows
           /\ pipelines[q].pc # "validating"
                 => pipelines'[q].generalized = pipelines[q].generalized
<1>0. /\ pipelines \in [Pipelines -> PipelineRow] /\ pipelines[q] \in PipelineRow
      /\ \A j \in Jobs : pipelines[q].futures[j] \notin {"queued", "running", "finished"}
  BY DEF TypeOK, PipelineRow, Whole, Futures
<1>1. ~Work(q) /\ \A r \in Requests : ~StartSweep(r, q)
  BY <1>0 DEF Work, StartSweep, At, Early
<1>2. CASE pipelines'[q] = pipelines[q]
  BY <1>2 DEF Whole, Futures
<1>3. /\ pipelines'[q].futures = pipelines[q].futures
      /\ pipelines'[q].rows = pipelines[q].rows
      /\ pipelines[q].pc # "validating" => pipelines'[q].generalized = pipelines[q].generalized
  <2>1. CASE Crash
    BY <1>0, <2>1 DEF Crash, At, Early
  <2>2. CASE EndScan(q) \/ PublishCancelled(q) \/ Drain(q) \/ PickRow(q) \/ EndRegister(q)
             \/ Raise(q) \/ Persist(q) \/ PersistFails(q) \/ PublishCompleted(q)
             \/ PublishFailed(q)
    BY <1>0, <2>2 DEF PipelineRow, EndScan, PublishCancelled, Drain, PickRow, EndRegister, Raise, Persist,
                      PersistFails, PublishCompleted, PublishFailed, Goto
  <2>3. ASSUME NEW jobs, BeginHoldout(q, jobs) \/ EndHoldout(q, jobs)
        PROVE  /\ pipelines'[q].futures = pipelines[q].futures
               /\ pipelines'[q].rows = pipelines[q].rows
               /\ pipelines'[q].generalized = pipelines[q].generalized
    BY <1>0, <2>3 DEF PipelineRow, BeginHoldout, EndHoldout, At
  <2>4. ASSUME NEW j, NEW yes, InsertStrategy(q, j) \/ ValidateHoldout(q, j, yes)
        PROVE  /\ pipelines'[q].futures = pipelines[q].futures
               /\ pipelines'[q].rows = pipelines[q].rows
               /\ pipelines[q].pc # "validating"
                     => pipelines'[q].generalized = pipelines[q].generalized
    BY <1>0, <2>4 DEF PipelineRow, InsertStrategy, ValidateHoldout, At
  <2>5. CASE SeeCancel(q)
    <3>1. [j \in Jobs |-> IF pipelines[q].futures[j] \in {"queued", "finished"}
                          THEN "dropped" ELSE pipelines[q].futures[j]] = pipelines[q].futures
      BY <1>0 DEF PipelineRow
    <3>2. pipelines' = [pipelines EXCEPT ![q].pc = "cancelling",
                           ![q].futures = pipelines[q].futures]
      BY <2>5, <3>1 DEF SeeCancel
    <3> QED
      BY <1>0, <3>2
  <2>6. ~Begin(q) /\ \A jobs : ~EndImport(q, jobs)
    BY DEF Begin, EndImport, At, Early
  <2>7. \A j \in Jobs, keep \in BOOLEAN : ~Consume(q, j, keep) /\ ~ConsumeRaised(q, j)
    BY <1>0 DEF Consume, ConsumeRaised
  <2> QED
    BY <1>1, <1>2, <2>1, <2>2, <2>3, <2>4, <2>5, <2>6, <2>7, OneThreadSteps DEF Run
<1> QED
  BY <1>3 DEF Whole, Futures

(* The places of a thread whose scan is over, of one that may have         *)
(* registered a strategy and of one that has stored a completed run.       *)
Scanned == {"scanned", "validating", "registering", "inserting", "persisting", "publishing"}
Registered == {"registering", "inserting", "persisting", "failing", "publishing",
               "publishing_failure", "ended", "lost"}
Stored == {"publishing", "ended", "lost"}

LEMMA PlaceStep ==
    ASSUME TypeOK, [Next]_vars, NEW q \in Pipelines
    PROVE  /\ pipelines[q].pc \in Stored => pipelines'[q].pc \in Stored
           /\ pipelines[q].pc \in Registered => pipelines'[q].pc \in Registered
           /\ pipelines'[q].pc \in Scanned => pipelines[q].pc \in Scanned \/ EndScan(q)
           /\ pipelines'[q].pc = "sweeping" =>
                 pipelines[q].pc = "sweeping" \/ \E jobs \in SUBSET Jobs : EndImport(q, jobs)
           /\ pipelines'[q].pc \in {"registering", "inserting"} =>
                 \/ pipelines[q].pc \in {"registering", "inserting"}
                 \/ \E top \in SUBSET pipelines[q].generalized : EndHoldout(q, top)
<1> USE DEF Stored, Registered, Scanned, At, Goto
<1>0. pipelines \in [Pipelines -> PipelineRow] /\ pipelines[q] \in PipelineRow
  BY DEF TypeOK, PipelineRow
<1> DEFINE from == pipelines[q].pc
           to == pipelines'[q].pc
           Leads == /\ from \in Stored => to \in Stored
                    /\ from \in Registered => to \in Registered
                    /\ to \in Scanned => from \in Scanned \/ EndScan(q)
                    /\ to = "sweeping" =>
                          from = "sweeping" \/ \E jobs \in SUBSET Jobs : EndImport(q, jobs)
                    /\ to \in {"registering", "inserting"} =>
                          \/ from \in {"registering", "inserting"}
                          \/ \E top \in SUBSET pipelines[q].generalized : EndHoldout(q, top)
<1> SUFFICES Leads
  OBVIOUS
<1>1. CASE to = from
  BY <1>1
<1>2. CASE Crash
  <2>1. (from = "unborn" /\ to = "unborn") \/ to = "lost"
    BY <1>0, <1>2 DEF Crash, Unborn
  <2> QED
    BY <2>1
<1>3. CASE \E r \in Requests : StartSweep(r, q)
  <2>1. from = "unborn" /\ to = "starting"
    BY <1>0, <1>3 DEF StartSweep
  <2> QED
    BY <2>1
<1>4. CASE Work(q)
  BY <1>0, <1>4, <1>1 DEF PipelineRow, Work
<1>5. CASE Begin(q) \/ PublishCancelled(q) \/ Drain(q) \/ SeeCancel(q)
  <2>1. \/ from = "starting" /\ to = "importing"
        \/ from = "cancelling" /\ to = "draining"
        \/ from = "draining" /\ to = "ended"
        \/ from \in {"importing", "scanned", "sweeping", "validating"} /\ to = "cancelling"
    BY <1>0, <1>5 DEF PipelineRow, Begin, PublishCancelled, Drain, SeeCancel
  <2> QED
    BY <2>1
<1>6. CASE EndScan(q)
  <2>1. from = "sweeping" /\ to = "scanned"
    BY <1>0, <1>6 DEF EndScan
  <2> QED
    BY <1>6, <2>1
<1>7. ASSUME NEW jobs \in SUBSET Jobs, EndImport(q, jobs) PROVE Leads
  <2>1. from = "importing" /\ to = "sweeping"
    BY <1>0, <1>7 DEF EndImport
  <2> QED
    BY <1>7, <2>1
<1>8. ASSUME NEW jobs, BeginHoldout(q, jobs) PROVE Leads
  <2>1. from = "scanned" /\ to = "validating"
    BY <1>0, <1>8 DEF BeginHoldout
  <2> QED
    BY <2>1
<1>9. ASSUME NEW top \in SUBSET pipelines[q].generalized, EndHoldout(q, top) PROVE Leads
  <2>1. from = "validating" /\ to = "registering"
    BY <1>0, <1>9 DEF EndHoldout
  <2> QED
    BY <1>9, <2>1
<1>10. ASSUME NEW j, NEW yes, \/ ConsumeRaised(q, j) \/ Consume(q, j, yes)
                              \/ ValidateHoldout(q, j, yes) \/ InsertStrategy(q, j)
       PROVE  Leads
  <2>1. to = from \/ (from = "inserting" /\ to = "registering")
    BY <1>0, <1>10 DEF PipelineRow, ConsumeRaised, Consume, ValidateHoldout, InsertStrategy
  <2> QED
    BY <1>1, <2>1
<1>11. CASE PickRow(q) \/ EndRegister(q)
  <2>1. from = "registering" /\ to \in {"inserting", "persisting"}
    BY <1>0, <1>11 DEF PipelineRow, PickRow, EndRegister
  <2> QED
    BY <2>1
<1>12. CASE Raise(q) \/ Persist(q) \/ PersistFails(q)
  <2>1. \/ from \in {"importing", "validating", "registering", "inserting", "persisting"}
           /\ to = "failing"
        \/ from = "persisting" /\ to = "publishing"
        \/ from = "failing" /\ to = "publishing_failure"
    BY <1>0, <1>12 DEF PipelineRow, Raise, Persist, PersistFails, AfterPersist
  <2> QED
    BY <2>1
<1>13. CASE PublishCompleted(q) \/ PublishFailed(q)
  <2>1. from \in {"publishing", "publishing_failure"} /\ to = "ended"
    BY <1>0, <1>13 DEF PipelineRow, PublishCompleted, PublishFailed
  <2> QED
    BY <2>1
<1> HIDE DEF Leads
<1>14. CASE Run(q)
  BY <1>5, <1>6, <1>7, <1>8, <1>9, <1>10, <1>11, <1>12, <1>13, <1>14 DEF Run
<1> QED
  BY <1>1, <1>2, <1>3, <1>4, <1>14, OneThreadSteps

-----------------------------------------------------------------------------
LEMMA InitInvariant == Init => SweepInv
BY DEF Init, SweepInv, ScanIsOver, ScanDropsNothing, RegistersTheGeneralized, StoredIsSettled,
       RegisteredIsSettled, Unborn, At

LEMMA ScanStep ==
    ASSUME TypeOK, SweepInv, [Next]_vars PROVE ScanIsOver'
<1> SUFFICES ASSUME NEW q \in Pipelines, pipelines'[q].pc \in Scanned PROVE Whole(q)'
  BY DEF ScanIsOver, Scanned
<1>1. CASE pipelines[q].pc \in Scanned
  <2>1. Whole(q)
    BY <1>1 DEF SweepInv, ScanIsOver, Scanned
  <2> QED
    BY <1>1, <2>1, SettledStep DEF Scanned, Early
<1>2. CASE EndScan(q)
  <2>1. /\ Futures(q, {"queued", "running", "finished"}) = {}
        /\ Futures(q, {"dropped"}) = {}
        /\ pipelines'[q].futures = pipelines[q].futures
    BY <1>2 DEF EndScan, SweepInv, ScanDropsNothing, Goto, TypeOK
  <2> QED
    BY <2>1 DEF Whole, Futures
<1> QED
  BY <1>1, <1>2, PlaceStep

LEMMA DropStep ==
    ASSUME TypeOK, SweepInv, [Next]_vars PROVE ScanDropsNothing'
<1> SUFFICES ASSUME NEW q \in Pipelines, pipelines'[q].pc = "sweeping",
                    NEW j \in Jobs, pipelines'[q].futures[j] = "dropped"
             PROVE  FALSE
  BY DEF ScanDropsNothing, At, Futures
<1>0. pipelines \in [Pipelines -> PipelineRow] /\ pipelines[q] \in PipelineRow
  BY DEF TypeOK, PipelineRow
<1>1. CASE \E jobs \in SUBSET Jobs : EndImport(q, jobs)
  BY <1>0, <1>1 DEF EndImport
<1>2. CASE pipelines[q].pc = "sweeping"
  <2>1. pipelines[q].futures[j] # "dropped"
    BY <1>2 DEF SweepInv, ScanDropsNothing, At, Futures
  <2>2. CASE pipelines'[q] = pipelines[q] \/ Crash
    BY <1>0, <2>1, <2>2, <1>2 DEF PipelineRow, Crash, At
  <2>3. CASE Work(q)
    BY <1>0, <2>1, <2>3 DEF Work, PipelineRow
  <2>4. ASSUME NEW i \in Jobs, NEW keep \in BOOLEAN, ConsumeRaised(q, i) \/ Consume(q, i, keep)
        PROVE  FALSE
    BY <1>0, <2>1, <2>4 DEF ConsumeRaised, Consume, PipelineRow
  <2>5. CASE EndScan(q) \/ SeeCancel(q)
    BY <1>0, <2>5 DEF PipelineRow, EndScan, SeeCancel, Goto
  <2>6. \A r \in Requests : ~StartSweep(r, q)
    BY <1>2 DEF StartSweep, At
  <2>7. ASSUME Run(q) PROVE EndScan(q) \/ SeeCancel(q)
                            \/ \E i \in Jobs, keep \in BOOLEAN : ConsumeRaised(q, i) \/ Consume(q, i, keep)
    BY <1>2, <2>7 DEF Run, Begin, PublishCancelled, Drain, EndImport, InsertStrategy,
           ValidateHoldout, BeginHoldout, EndHoldout, PickRow, EndRegister, Raise, Persist,
           PersistFails, PublishCompleted, PublishFailed, At
  <2> QED
    BY <2>2, <2>3, <2>4, <2>5, <2>6, <2>7, OneThreadSteps
<1> QED
  BY <1>1, <1>2, PlaceStep

LEMMA RegisterStep ==
    ASSUME TypeOK, SweepInv, [Next]_vars PROVE RegistersTheGeneralized'
<1> SUFFICES ASSUME NEW q \in Pipelines, pipelines'[q].pc \in {"registering", "inserting"}
             PROVE  pipelines'[q].waiting \subseteq pipelines'[q].generalized
  BY DEF RegistersTheGeneralized
<1>0. pipelines \in [Pipelines -> PipelineRow] /\ pipelines[q] \in PipelineRow
  BY DEF TypeOK, PipelineRow
<1>1. CASE \E top \in SUBSET pipelines[q].generalized : EndHoldout(q, top)
  BY <1>0, <1>1 DEF EndHoldout, PipelineRow
<1>2. CASE pipelines[q].pc \in {"registering", "inserting"}
  <2>1. pipelines[q].waiting \subseteq pipelines[q].generalized
    BY <1>2 DEF SweepInv, RegistersTheGeneralized
  <2>2. CASE pipelines'[q] = pipelines[q] \/ Crash
    BY <1>0, <1>2, <2>1, <2>2 DEF PipelineRow, Crash, At
  <2>3. CASE Work(q)
    <3>1. /\ pipelines'[q].waiting = pipelines[q].waiting
          /\ pipelines'[q].generalized = pipelines[q].generalized
      BY <1>0, <2>3 DEF PipelineRow, Work
    <3> QED
      BY <2>1, <3>1
  <2>4. ASSUME NEW j \in Jobs, InsertStrategy(q, j)
        PROVE  pipelines'[q].waiting \subseteq pipelines'[q].generalized
    BY <1>0, <2>1, <2>4 DEF InsertStrategy
  <2>5. CASE PickRow(q) \/ EndRegister(q) \/ Raise(q)
    BY <1>0, <2>1, <2>5 DEF PipelineRow, PickRow, EndRegister, Raise, Goto
  <2>6. \A r \in Requests : ~StartSweep(r, q)
    BY <1>2 DEF StartSweep, At
  <2>7. ASSUME Run(q) PROVE PickRow(q) \/ EndRegister(q) \/ Raise(q)
                            \/ \E j \in Jobs : InsertStrategy(q, j)
    BY <1>2, <2>7 DEF Run, Begin, EndScan, SeeCancel, PublishCancelled, Drain, EndImport,
           ConsumeRaised, Consume, ValidateHoldout, BeginHoldout, EndHoldout, Persist,
           PersistFails, PublishCompleted, PublishFailed, At
  <2> QED
    BY <2>2, <2>3, <2>4, <2>5, <2>6, <2>7, OneThreadSteps
<1> QED
  BY <1>1, <1>2, PlaceStep

LEMMA StoreStep ==
    ASSUME TypeOK, SweepInv, [Next]_vars PROVE StoredIsSettled'
<1>0. sweep_runs' \in [Times -> RunRecord \cup {NoRun}]
  BY TableTypes
<1> SUFFICES ASSUME NEW t \in Times, sweep_runs'[t] # NoRun, sweep_runs'[t].status = "completed",
                    NEW q \in Pipelines, q = sweep_runs'[t].pipeline
             PROVE  /\ pipelines'[q].pc \in Stored
                    /\ Whole(q)'
                    /\ sweep_runs'[t].results = pipelines'[q].rows
  BY <1>0 DEF StoredIsSettled, Stored, Whole, Futures, RunRecord
<1>1. CASE sweep_runs'[t] = sweep_runs[t]
  <2>1. /\ pipelines[q].pc \in Stored /\ Whole(q)
        /\ sweep_runs[t].results = pipelines[q].rows
    BY <1>1 DEF SweepInv, StoredIsSettled, Stored
  <2>2. pipelines[q].pc \notin Early
    BY <2>1 DEF Stored, Early
  <2> QED
    BY <1>1, <2>1, <2>2, SettledStep, PlaceStep
<1>2. ASSUME NEW p \in Pipelines, Persist(p), sweep_runs'[t] # sweep_runs[t]
      PROVE  /\ pipelines'[q].pc \in Stored
             /\ Whole(q)'
             /\ sweep_runs'[t].results = pipelines'[q].rows
  <2>1. sweep_runs'[t] = RunRow(p)
    BY <1>2 DEF Persist, TypeOK
  <2>2. pipelines[p].pc = "persisting" /\ q = p /\ sweep_runs'[t].results = pipelines[p].rows
    BY <2>1 DEF RunRow, At
  <2>3. Whole(p) /\ pipelines[p].pc \notin Early
    BY <2>2 DEF SweepInv, ScanIsOver, Early
  <2>4. pipelines'[p].pc = "publishing"
    BY <1>2, <2>2 DEF Persist, Goto, AfterPersist, At, TypeOK
  <2> QED
    BY <2>2, <2>3, <2>4, SettledStep DEF Stored
<1> QED
  BY <1>1, <1>2, TableSteps

LEMMA RegisteredStep ==
    ASSUME TypeOK, SweepInv, [Next]_vars PROVE RegisteredIsSettled'
<1> SUFFICES ASSUME NEW found \in portfolio'
             PROVE  /\ pipelines'[found[1]].pc \in Registered
                    /\ Whole(found[1])'
                    /\ found[2] \in pipelines'[found[1]].generalized
  BY DEF RegisteredIsSettled, Registered, Whole, Futures
<1>1. CASE found \in portfolio
  <2>1. PICK q \in Pipelines : q = found[1]
    BY <1>1 DEF TypeOK, Found
  <2>2. /\ pipelines[q].pc \in Registered /\ Whole(q)
        /\ found[2] \in pipelines[q].generalized
    BY <1>1, <2>1 DEF SweepInv, RegisteredIsSettled, Registered
  <2>3. pipelines[q].pc \notin Early /\ pipelines[q].pc # "validating"
    BY <2>2 DEF Registered, Early
  <2>4. /\ pipelines'[q].pc \in Registered /\ Whole(q)'
        /\ found[2] \in pipelines'[q].generalized
    BY <2>2, <2>3, SettledStep, PlaceStep
  <2> QED
    BY <2>1, <2>4 DEF Whole, Futures
<1>2. ASSUME NEW q \in Pipelines, NEW j \in Jobs, InsertStrategy(q, j), found = <<q, j>>
      PROVE  /\ pipelines'[found[1]].pc \in Registered
             /\ Whole(found[1])'
             /\ found[2] \in pipelines'[found[1]].generalized
  <2>1. pipelines[q].pc = "inserting" /\ j \in pipelines[q].generalized /\ Whole(q)
    BY <1>2 DEF InsertStrategy, SweepInv, RegistersTheGeneralized, ScanIsOver, At
  <2>2. /\ pipelines'[q].pc \in Registered /\ Whole(q)'
        /\ j \in pipelines'[q].generalized
    BY <2>1, SettledStep, PlaceStep DEF Early, Registered
  <2> QED
    BY <1>2, <2>2 DEF Whole, Futures
<1>3. found \in portfolio \/ \E q \in Pipelines, j \in Jobs : InsertStrategy(q, j) /\ found = <<q, j>>
  BY TableSteps DEF InsertStrategy
<1> QED
  BY <1>1, <1>2, <1>3

(* What is stored as completed or registered in the portfolio rests on a   *)
(* scan that took the result of every job it submitted.                    *)
THEOREM WholeSweepsCount == Spec => []OnlyWholeSweepsCount
<1>1. TypeOK /\ SweepInv /\ [Next]_vars => SweepInv'
  BY ScanStep, DropStep, RegisterStep, StoreStep, RegisteredStep DEF SweepInv
<1>2. SweepInv => OnlyWholeSweepsCount
  BY DEF SweepInv, StoredIsSettled, RegisteredIsSettled, OnlyWholeSweepsCount
<1> QED
  BY <1>1, <1>2, InitInvariant, TypeCorrect, PTL DEF Spec

-----------------------------------------------------------------------------
(***************************************************************************)
(* Sweeps that do not meet.                                                *)
(***************************************************************************)
LEMMA BusyStep ==
    ASSUME TypeOK, [Next]_vars, NEW q \in Pipelines
    PROVE  /\ q \in UnderWay' => q \in UnderWay \/ Begin(q)
           /\ q \in Started' => q \in Started \/ \E r \in Requests : StartSweep(r, q)
           /\ pipelines[q].pc \notin {"unborn", "starting"}
                 => pipelines'[q].pc \notin {"unborn", "starting"}
           /\ pipelines'[q].pc = "inserting" => pipelines[q].pc = "inserting" \/ PickRow(q)
<1> USE DEF At, Goto
<1>0. pipelines \in [Pipelines -> PipelineRow] /\ pipelines[q] \in PipelineRow
  BY DEF TypeOK, PipelineRow
<1> DEFINE from == pipelines[q].pc
           to == pipelines'[q].pc
           Quiet == {"unborn", "starting"} \cup Ended
           Leads == /\ to \notin Quiet => from \notin Quiet \/ Begin(q)
                    /\ to = "starting" =>
                          from = "starting" \/ \E r \in Requests : StartSweep(r, q)
                    /\ from \notin {"unborn", "starting"} => to \notin {"unborn", "starting"}
                    /\ to = "inserting" => from = "inserting" \/ PickRow(q)
<1> SUFFICES Leads
  BY DEF UnderWay, Started
<1>1. CASE to = from
  BY <1>1
<1>2. CASE Crash
  <2>1. (from = "unborn" /\ to = "unborn") \/ to = "lost"
    BY <1>0, <1>2 DEF Crash, Unborn
  <2> QED
    BY <2>1 DEF Ended
<1>3. CASE \E r \in Requests : StartSweep(r, q)
  <2>1. from = "unborn" /\ to = "starting"
    BY <1>0, <1>3 DEF StartSweep
  <2> QED
    BY <1>3, <2>1
<1>4. CASE Work(q)
  BY <1>0, <1>4, <1>1 DEF PipelineRow, Work
<1>5. CASE Begin(q)
  <2>1. from = "starting" /\ to = "importing"
    BY <1>0, <1>5 DEF Begin
  <2> QED
    BY <1>5, <2>1
<1>6. CASE PickRow(q)
  <2>1. from = "registering" /\ to = "inserting"
    BY <1>0, <1>6 DEF PickRow
  <2> QED
    BY <1>6, <2>1 DEF Ended
<1>7. CASE PublishCancelled(q) \/ Drain(q) \/ SeeCancel(q) \/ EndScan(q) \/ EndRegister(q)
  <2>1. \/ from = "draining" /\ to = "ended"
        \/ from = "cancelling" /\ to = "draining"
        \/ /\ from \in {"importing", "scanned", "sweeping", "validating", "registering"}
           /\ to \in {"cancelling", "scanned", "persisting"}
    BY <1>0, <1>7 DEF PipelineRow, PublishCancelled, Drain, SeeCancel, EndScan, EndRegister
  <2> QED
    BY <2>1 DEF Ended
<1>8. ASSUME NEW jobs, EndImport(q, jobs) \/ BeginHoldout(q, jobs) \/ EndHoldout(q, jobs)
      PROVE  Leads
  <2>1. EndImport(q, jobs) => from = "importing" /\ to = "sweeping"
    BY <1>0 DEF EndImport
  <2>2. BeginHoldout(q, jobs) => from = "scanned" /\ to = "validating"
    BY <1>0 DEF BeginHoldout
  <2>3. EndHoldout(q, jobs) => from = "validating" /\ to = "registering"
    BY <1>0 DEF EndHoldout
  <2> QED
    BY <1>8, <2>1, <2>2, <2>3 DEF Ended
<1>9. ASSUME NEW j, NEW yes, \/ ConsumeRaised(q, j) \/ Consume(q, j, yes)
                             \/ ValidateHoldout(q, j, yes) \/ InsertStrategy(q, j)
      PROVE  Leads
  <2>1. to = from \/ (from = "inserting" /\ to = "registering")
    BY <1>0, <1>9 DEF PipelineRow, ConsumeRaised, Consume, ValidateHoldout, InsertStrategy
  <2> QED
    BY <1>1, <2>1 DEF Ended
<1>10. CASE Raise(q) \/ Persist(q) \/ PersistFails(q)
  <2>1. /\ from \in {"importing", "validating", "registering", "inserting", "persisting",
                     "failing"}
        /\ to \in {"failing", "publishing", "publishing_failure"}
    BY <1>0, <1>10 DEF PipelineRow, Raise, Persist, PersistFails, AfterPersist
  <2> QED
    BY <2>1 DEF Ended
<1>11. CASE PublishCompleted(q) \/ PublishFailed(q)
  <2>1. from \in {"publishing", "publishing_failure"} /\ to = "ended"
    BY <1>0, <1>11 DEF PipelineRow, PublishCompleted, PublishFailed
  <2> QED
    BY <2>1 DEF Ended
<1> HIDE DEF Leads
<1>12. CASE Run(q)
  BY <1>5, <1>6, <1>7, <1>8, <1>9, <1>10, <1>11, <1>12 DEF Run
<1> QED
  BY <1>1, <1>2, <1>3, <1>4, <1>12, OneThreadSteps

LEMMA CrashEnds ==
    ASSUME TypeOK, Crash, NEW q \in Pipelines PROVE q \notin UnderWay'
<1>1. pipelines[q] \in PipelineRow
  BY DEF TypeOK, PipelineRow
<1>2. pipelines'[q].pc \in {"unborn", "lost"}
  BY <1>1 DEF Crash, Unborn, PipelineRow
<1> QED
  BY <1>2 DEF UnderWay, Ended

LEMMA AcknowledgedSteps == ASSUME [Next]_vars PROVE CancelSweep \/ UNCHANGED acknowledged
<1>1. CASE ~\E p \in Pipelines : Run(p)
  BY <1>1 DEF Next, Work, StartSweep, RefuseSweep, ReadRunId, Tick, Crash, vars, observed
<1>2. ASSUME NEW p \in Pipelines, Run(p) PROVE UNCHANGED acknowledged
  <2>1. CASE Begin(p) \/ EndScan(p) \/ SeeCancel(p) \/ PublishCancelled(p) \/ Drain(p)
    BY <2>1 DEF Begin, EndScan, SeeCancel, PublishCancelled, Drain, observed
  <2>2. ASSUME NEW jobs, EndImport(p, jobs) \/ BeginHoldout(p, jobs) \/ EndHoldout(p, jobs)
        PROVE  UNCHANGED acknowledged
    BY <2>2 DEF EndImport, BeginHoldout, EndHoldout, observed
  <2>3. ASSUME NEW j, NEW yes, \/ ConsumeRaised(p, j) \/ Consume(p, j, yes)
                               \/ ValidateHoldout(p, j, yes) \/ InsertStrategy(p, j)
        PROVE  UNCHANGED acknowledged
    BY <2>3 DEF ConsumeRaised, Consume, ValidateHoldout, InsertStrategy, observed
  <2>4. CASE PickRow(p) \/ EndRegister(p) \/ Raise(p) \/ PublishCompleted(p) \/ PublishFailed(p)
             \/ Persist(p) \/ PersistFails(p)
    BY <2>4 DEF PickRow, EndRegister, Raise, PublishCompleted, PublishFailed, Persist,
                PersistFails, observed
  <2> QED
    BY <1>2, <2>1, <2>2, <2>3, <2>4 DEF Run
<1> QED
  BY <1>1, <1>2

(* The thread that begins or ends is the only one under way.               *)
LEMMA StatusStep ==
    ASSUME TypeOK, SweepsApart, StatusTells, Patient, [Next]_vars PROVE StatusTells'
<1> SUFFICES ASSUME NEW q \in UnderWay' PROVE state'.status = "running"
  BY DEF StatusTells
<1>0. /\ state \in StateRecord /\ pipelines \in [Pipelines -> PipelineRow] /\ q \in Pipelines
      /\ pipelines'[q].pc \notin Ended \cup {"unborn", "starting"}
  BY DEF TypeOK, StateRecord, PipelineRow, UnderWay
<1>1. CASE Begin(q)
  BY <1>1 DEF Begin, Idle
<1>2. CASE ~Begin(q)
  <2>1. q \in UnderWay /\ state.status = "running"
    BY <1>0, <1>2, BusyStep DEF StatusTells
  <2>2. ~Crash
    BY <1>0, CrashEnds
  <2>3. ASSUME NEW p \in Pipelines, p # q
        PROVE  /\ ~Begin(p) /\ ~PublishCancelled(p) /\ ~PublishFailed(p)
               /\ ~PublishCompleted(p)
    <3>1. p \notin Started \cup UnderWay
      BY <2>1, <2>3 DEF SweepsApart
    <3> QED
      BY <3>1 DEF Begin, PublishCancelled, PublishFailed, PublishCompleted, At, Started,
                  UnderWay, Ended
  <2>4. ~PublishCancelled(q) /\ ~PublishFailed(q) /\ ~PublishCompleted(q)
    BY <1>0 DEF PublishCancelled, PublishFailed, PublishCompleted, Goto, Ended, PipelineRow
  <2>5. \A p \in Pipelines, r \in Requests : ~StartSweep(r, p)
    BY <2>1 DEF StartSweep
  <2>6. ASSUME CancelSweep \/ \E p \in Pipelines, j \in Jobs, keep \in BOOLEAN : Consume(p, j, keep)
        PROVE  state'.status = state.status
    BY <1>0, <2>6 DEF CancelSweep, Consume, StateRecord
  <2> QED
    BY <1>2, <2>1, <2>2, <2>3, <2>4, <2>5, <2>6, StateSteps
<1> QED
  BY <1>1, <1>2

LEMMA ApartStep ==
    ASSUME TypeOK, SweepsApart, StatusTells, Patient, [Next]_vars PROVE SweepsApart'
<1> DEFINE Busy == Started \cup UnderWay
<1>1. ASSUME NEW q \in Busy', q \notin Busy
      PROVE  q \in Pipelines /\ \E r \in Requests : StartSweep(r, q)
  <2>1. q \in Pipelines
    BY <1>1 DEF Started, UnderWay
  <2>2. Begin(q) => q \in Started
    BY <2>1 DEF Begin, Started
  <2> QED
    BY <1>1, <2>1, <2>2, BusyStep
<1>2. ASSUME NEW q \in Pipelines, NEW r \in Requests, StartSweep(r, q)
      PROVE  Busy' \subseteq {q}
  <2>1. Busy = {}
    BY <1>2 DEF StartSweep, StatusTells
  <2>2. \A p \in Pipelines : p # q => pipelines'[p] = pipelines[p]
    BY <1>2 DEF StartSweep, Goto, TypeOK
  <2> QED
    BY <2>1, <2>2 DEF Started, UnderWay, At
<1>3. CASE Busy' \subseteq Busy
  BY <1>3 DEF SweepsApart
<1>4. CASE \E q \in Pipelines : Busy' \subseteq {q}
  BY <1>4 DEF SweepsApart
<1> QED
  BY <1>1, <1>2, <1>3, <1>4

(* Sweeps that are asked for one after the other, each once the last one   *)
(* shows in the status, do not overlap: whatever fails, is cancelled or    *)
(* crashes, a thread that has begun shows as running until it ends.        *)
THEOREM PatienceKeepsSweepsApart == ASSUME Patient PROVE Spec => []SweepsApart
<1>1. Init => SweepsApart /\ StatusTells
  BY DEF Init, SweepsApart, StatusTells, Started, UnderWay, At, Unborn
<1>2. TypeOK /\ SweepsApart /\ StatusTells /\ [Next]_vars => (SweepsApart /\ StatusTells)'
  BY ApartStep, StatusStep
<1> QED
  BY <1>1, <1>2, TypeCorrect, PTL DEF Spec

(* A thread keeps the run it began; the run the dictionary names changes   *)
(* only when a thread begins, and its results only with a thread's own.    *)
LEMMA RunIdStep ==
    ASSUME TypeOK, [Next]_vars, ~Crash, NEW q \in Pipelines, ~Begin(q)
    PROVE  pipelines'[q].run_id = pipelines[q].run_id
<1>0. pipelines \in [Pipelines -> PipelineRow] /\ pipelines[q] \in PipelineRow
  BY DEF TypeOK, PipelineRow
<1> USE DEF At, Goto, PipelineRow
<1>1. CASE \/ EndScan(q) \/ PublishCancelled(q) \/ Drain(q) \/ PickRow(q) \/ EndRegister(q)
           \/ Raise(q) \/ Persist(q) \/ PersistFails(q) \/ PublishCompleted(q)
           \/ PublishFailed(q) \/ \E r \in Requests : StartSweep(r, q)
  BY <1>0, <1>1 DEF EndScan, PublishCancelled, Drain, PickRow, EndRegister, Raise, Persist,
                    PersistFails, PublishCompleted, PublishFailed, StartSweep
<1>2. ASSUME NEW jobs, EndImport(q, jobs) \/ BeginHoldout(q, jobs) \/ EndHoldout(q, jobs)
      PROVE  pipelines'[q].run_id = pipelines[q].run_id
  BY <1>0, <1>2 DEF EndImport, BeginHoldout, EndHoldout
<1>3. ASSUME NEW j, NEW yes, \/ ConsumeRaised(q, j) \/ Consume(q, j, yes)
                             \/ ValidateHoldout(q, j, yes) \/ InsertStrategy(q, j)
      PROVE  pipelines'[q].run_id = pipelines[q].run_id
  BY <1>0, <1>3 DEF ConsumeRaised, Consume, ValidateHoldout, InsertStrategy
<1>4. CASE SeeCancel(q) \/ Work(q)
  BY <1>0, <1>4 DEF SeeCancel, Work
<1> QED
  BY <1>1, <1>2, <1>3, <1>4, OneThreadSteps DEF Run

LEMMA NamesStep ==
    ASSUME TypeOK, SweepsApart, SweepsApart', NamesItsRun, [Next]_vars PROVE NamesItsRun'
<1> SUFFICES ASSUME NEW q \in UnderWay' PROVE pipelines'[q].run_id = state'.run_id
  BY DEF NamesItsRun
<1>0. /\ state \in StateRecord /\ pipelines \in [Pipelines -> PipelineRow] /\ q \in Pipelines
      /\ pipelines'[q].pc \notin Ended \cup {"unborn", "starting"}
  BY DEF TypeOK, StateRecord, PipelineRow, UnderWay
<1>1. ~Crash
  BY <1>0, CrashEnds
<1>2. CASE Begin(q)
  BY <1>0, <1>2 DEF Begin, Idle, PipelineRow
<1>3. CASE ~Begin(q)
  <2>1. q \in UnderWay /\ pipelines'[q].run_id = pipelines[q].run_id
    BY <1>0, <1>1, <1>3, BusyStep, RunIdStep
  <2>2. \A p \in Pipelines : ~Begin(p)
    <3> SUFFICES ASSUME NEW p \in Pipelines, Begin(p) PROVE FALSE
      OBVIOUS
    <3>1. p \in Started
      BY DEF Begin, Started
    <3> QED
      BY <1>3, <2>1, <3>1 DEF SweepsApart
  <2>3. state'.run_id = state.run_id
    BY <1>0, <1>1, <2>2, StateSteps DEF CancelSweep, PublishCancelled, PublishFailed,
       PublishCompleted, StartSweep, Consume, StateRecord
  <2> QED
    BY <2>1, <2>3 DEF NamesItsRun
<1> QED
  BY <1>2, <1>3

LEMMA ResultsStep ==
    ASSUME TypeOK, SweepsApart, NamesItsRun, ResultsBelongToRun, [Next]_vars
    PROVE  ResultsBelongToRun'
<1>0. state \in StateRecord /\ pipelines \in [Pipelines -> PipelineRow]
  BY DEF TypeOK, StateRecord, PipelineRow
<1>1. CASE Crash \/ \E p \in Pipelines : Begin(p)
  <2>1. state' = Idle \/ state' = [Idle EXCEPT !.status = "running", !.run_id = now]
    BY <1>1 DEF Crash, Begin
  <2>2. Idle.results = {} /\ [Idle EXCEPT !.status = "running", !.run_id = now].results = {}
    BY DEF Idle
  <2>3. state'.results = {}
    BY <2>1, <2>2
  <2> QED
    BY <2>3 DEF ResultsBelongToRun
<1>2. CASE ~(Crash \/ \E p \in Pipelines : Begin(p))
  <2>1. \A p \in Pipelines : pipelines'[p].run_id = pipelines[p].run_id
    BY <1>2, RunIdStep
  <2>2. state'.run_id = state.run_id
    BY <1>0, <1>2, StateSteps DEF CancelSweep, PublishCancelled, PublishFailed,
       PublishCompleted, StartSweep, Consume, StateRecord
  <2>3. ASSUME NEW p \in Pipelines, NEW rows \in SUBSET Jobs, p \in UnderWay,
               state'.results = ResultsOf(p, rows)
        PROVE  ResultsBelongToRun'
    <3>1. \A found \in state'.results : found[1] = p
      BY <2>3 DEF ResultsOf
    <3> QED
      BY <2>1, <2>2, <2>3, <3>1 DEF ResultsBelongToRun, NamesItsRun
  <2>4. ASSUME NEW p \in Pipelines, NEW j \in Jobs, NEW keep \in BOOLEAN, Consume(p, j, keep)
        PROVE  ResultsBelongToRun'
    <3> DEFINE rows == pipelines[p].rows \cup (IF keep THEN {j} ELSE {})
    <3>1. rows \in SUBSET Jobs /\ p \in UnderWay
      BY <1>0, <2>4 DEF PipelineRow, Consume, At, UnderWay, Ended
    <3>2. state'.results = ResultsOf(p, rows)
      BY <1>0, <2>4 DEF Consume, StateRecord
    <3> HIDE DEF rows
    <3> QED
      BY <2>3, <3>1, <3>2
  <2>5. ASSUME NEW p \in Pipelines, PublishCompleted(p) PROVE ResultsBelongToRun'
    <3>1. pipelines[p].rows \in SUBSET Jobs /\ p \in UnderWay
      BY <1>0, <2>5 DEF PipelineRow, PublishCompleted, At, UnderWay, Ended
    <3>2. state'.results = ResultsOf(p, pipelines[p].rows)
      BY <1>0, <2>5 DEF PublishCompleted, StateRecord
    <3> QED
      BY <2>3, <3>1, <3>2
  <2>6. CASE state'.results = state.results
    <3>1. \A found \in state.results : found[1] \in Pipelines
      BY <1>0 DEF StateRecord, Found
    <3> QED
      BY <2>1, <2>2, <2>6, <3>1 DEF ResultsBelongToRun
  <2>7. ASSUME \/ UNCHANGED state \/ CancelSweep
               \/ \E p \in Pipelines : \/ PublishCancelled(p) \/ PublishFailed(p)
                                       \/ \E r \in Requests : StartSweep(r, p)
        PROVE  state'.results = state.results
    BY <1>0, <2>7 DEF CancelSweep, PublishCancelled, PublishFailed, StartSweep, StateRecord
  <2> QED
    BY <1>2, <2>4, <2>5, <2>6, <2>7, StateSteps
<1> QED
  BY <1>1, <1>2

(* As long as sweeps do not overlap, the results the dictionary shows are  *)
(* those of the run it names, even while the workers of a cancelled sweep  *)
(* still run.                                                              *)
THEOREM ResultsAreOfTheirRun == Spec /\ []SweepsApart => []ResultsBelongToRun
<1>1. Init => NamesItsRun /\ ResultsBelongToRun
  BY DEF Init, NamesItsRun, ResultsBelongToRun, UnderWay, Unborn, Idle
<1>2. /\ TypeOK /\ SweepsApart /\ SweepsApart' /\ NamesItsRun /\ ResultsBelongToRun /\ [Next]_vars
      => (NamesItsRun /\ ResultsBelongToRun)'
  BY NamesStep, ResultsStep
<1> QED
  BY <1>1, <1>2, TypeCorrect, PTL DEF Spec

(* Who is acknowledged, and what resets the flag.                          *)
LEMMA HoldsStep ==
    ASSUME TypeOK, SweepsApart, SweepsApart', CancelHolds, [Next]_vars PROVE CancelHolds'
<1>0. /\ state \in StateRecord /\ pipelines \in [Pipelines -> PipelineRow]
      /\ acknowledged \subseteq Pipelines
  BY DEF TypeOK, StateRecord, PipelineRow
<1>1. CASE CancelSweep
  <2>1. /\ acknowledged' = acknowledged \cup UnderWay
        /\ state'.cancelled /\ pipelines' = pipelines
    BY <1>0, <1>1 DEF CancelSweep, StateRecord
  <2> QED
    BY <2>1 DEF CancelHolds, UnderWay
<1>2. CASE ~CancelSweep
  <2>1. acknowledged' = acknowledged
    BY <1>2, AcknowledgedSteps
  <2>2. \A p \in acknowledged' : pipelines'[p].pc \notin {"unborn", "starting"}
    BY <1>0, <2>1, BusyStep DEF CancelHolds
  <2>3. ASSUME NEW q \in acknowledged' \cap UnderWay' PROVE state'.cancelled
    <3>1. q \in Pipelines /\ ~Begin(q)
      BY <1>0, <2>1, <2>3 DEF CancelHolds, Begin, At
    <3>2. q \in UnderWay /\ state.cancelled
      BY <2>1, <2>3, <3>1, BusyStep DEF CancelHolds
    <3>3. ~Crash
      BY <2>3, <3>1, CrashEnds
    <3>4. ASSUME NEW p \in Pipelines, Begin(p) PROVE FALSE
      <4>1. p \in Started
        BY <3>4 DEF Begin, Started
      <4> QED
        BY <3>1, <3>2, <3>4, <4>1 DEF SweepsApart
    <3>5. ASSUME NEW p \in Pipelines, NEW r \in Requests, StartSweep(r, p) PROVE FALSE
      <4>1. p \in Started' /\ pipelines'[p].pc = "starting"
        BY <1>0, <3>5 DEF StartSweep, Started, At, Goto
      <4>2. p = q
        BY <2>3, <4>1 DEF SweepsApart
      <4> QED
        BY <2>3, <4>1, <4>2 DEF UnderWay
    <3> QED
      BY <1>0, <1>2, <3>2, <3>3, <3>4, <3>5, StateSteps
         DEF PublishCancelled, PublishFailed, PublishCompleted, Consume, StateRecord
  <2> QED
    BY <2>2, <2>3 DEF CancelHolds
<1> QED
  BY <1>1, <1>2

LEMMA LateStep ==
    ASSUME TypeOK, CancelHolds, LateIsLast, [Next]_vars PROVE LateIsLast'
<1>0. /\ pipelines \in [Pipelines -> PipelineRow] /\ late \in [Pipelines -> Nat]
      /\ state \in StateRecord
  BY DEF TypeOK, PipelineRow, StateRecord
<1> SUFFICES ASSUME NEW q \in Pipelines, late'[q] # 0
             PROVE  /\ late'[q] = 1 /\ q \in acknowledged'
                    /\ pipelines'[q].pc \in Registered \ {"inserting"}
  BY DEF LateIsLast, Registered
<1>1. acknowledged \subseteq acknowledged'
  BY AcknowledgedSteps DEF CancelSweep
<1>2. CASE late'[q] = late[q]
  <2>1. /\ late[q] = 1 /\ q \in acknowledged
        /\ pipelines[q].pc \in Registered \ {"inserting"}
    BY <1>2 DEF LateIsLast, Registered
  <2>2. ~PickRow(q)
    <3>1. pipelines[q].pc = "registering" => state.cancelled
      BY <2>1 DEF CancelHolds, UnderWay, Ended
    <3> QED
      BY <3>1 DEF PickRow, At
  <2> QED
    BY <1>1, <1>2, <2>1, <2>2, BusyStep, PlaceStep
<1>3. CASE late'[q] # late[q]
  <2>1. PICK p \in Pipelines, j \in Jobs : InsertStrategy(p, j)
    BY <1>3, TableSteps
  <2>2. /\ p = q /\ q \in acknowledged /\ late'[q] = late[q] + 1
        /\ pipelines[q].pc = "inserting" /\ pipelines'[q].pc = "registering"
        /\ acknowledged' = acknowledged
    BY <1>0, <1>3, <2>1 DEF InsertStrategy, At, PipelineRow
  <2>3. late[q] = 0
    BY <2>2 DEF LateIsLast
  <2> QED
    BY <2>2, <2>3 DEF Registered
<1> QED
  BY <1>2, <1>3

(* As long as sweeps do not overlap, a sweep whose cancellation was        *)
(* accepted registers at most the strategy it was about to.                *)
THEOREM OneLateStrategy == Spec /\ []SweepsApart => []AtMostOneLateStrategy
<1>1. Init => CancelHolds /\ LateIsLast
  BY DEF Init, CancelHolds, LateIsLast
<1>2. /\ TypeOK /\ SweepsApart /\ SweepsApart' /\ CancelHolds /\ LateIsLast /\ [Next]_vars
      => (CancelHolds /\ LateIsLast)'
  BY HoldsStep, LateStep
<1>3. TypeOK /\ LateIsLast => AtMostOneLateStrategy
  BY DEF TypeOK, LateIsLast, AtMostOneLateStrategy
<1> QED
  BY <1>1, <1>2, <1>3, TypeCorrect, PTL DEF Spec
=============================================================================

--------------------------- MODULE BacktestProofs ---------------------------
(***************************************************************************)
(* Theorems about BacktestEngine for frames of every length and every      *)
(* price, and every exit rule.                                             *)
(***************************************************************************)
EXTENDS BacktestEngine, TLAPS

LEMMA PercentIsInt ==
    ASSUME NEW price \in Int, NEW value \in Int
    PROVE  Percent(price, value) \in Int
<1>1. price * value \in Int
  OBVIOUS
<1> QED
  BY <1>1 DEF Percent

LEMMA Signed ==
    ASSUME NEW d \in {1, -1}, NEW x \in Int
    PROVE  d * x \in Int
<1>1. CASE d = 1
  BY <1>1
<1>2. CASE d = -1
  BY <1>2
<1> QED
  BY <1>1, <1>2

(* A position is opened only where there is a next candle.                 *)
LEMMA OpenedType ==
    ASSUME exit_rules \in ExitRules, NEW f \in Seq(Candle), NEW n \in Nat \ {0}, n < Len(f)
    PROVE  /\ Opened(f, n) \in Position
           /\ Opened(f, n) # NoPosition
           /\ Opened(f, n).entry_idx = n + 1
           /\ Opened(f, n).direction = Direction(f[n].signal)
<1> DEFINE d == Direction(f[n].signal)
           entry == Filled(f[n + 1].open, d)
           stop == StopPrice(entry, d, f[n].atr)
<1>1. f[n] \in Candle /\ f[n + 1] \in Candle
  OBVIOUS
<1>2. d \in {1, -1}
  BY DEF Direction
<1> HIDE DEF d
<1>3. entry \in Int
  <2>1. f[n + 1].open \in Int /\ Percent(f[n + 1].open, exit_rules.slippage_pct) \in Int
    BY <1>1, PercentIsInt DEF Candle, ExitRules
  <2> QED
    BY <1>2, <2>1, Signed DEF Filled
<1> HIDE DEF entry
<1>4. stop \in Int \cup {NoPrice}
  <2>1. Percent(entry, exit_rules.stop_loss_value) \in Int
    BY <1>3, PercentIsInt DEF ExitRules
  <2>2. d * Percent(entry, exit_rules.stop_loss_value) \in Int
    BY <1>2, <2>1, Signed
  <2>3. f[n].atr # NoPrice => exit_rules.stop_loss_value * f[n].atr \in Int
    BY <1>1 DEF Candle, ExitRules
  <2>4. f[n].atr # NoPrice => d * (exit_rules.stop_loss_value * f[n].atr) \in Int
    BY <1>2, <2>3, Signed
  <2> QED
    BY <1>3, <2>2, <2>4 DEF StopPrice
<1> HIDE DEF stop
<1>5. TargetPrice(entry, d, stop) \in Int \cup {NoPrice}
  <2>1. Percent(entry, exit_rules.take_profit_value) \in Int
    BY <1>3, PercentIsInt DEF ExitRules
  <2>2. d * Percent(entry, exit_rules.take_profit_value) \in Int
    BY <1>2, <2>1, Signed
  <2>3. stop # NoPrice => (entry - stop) * exit_rules.take_profit_value \in Int
    <3>1. stop # NoPrice => entry - stop \in Int
      BY <1>3, <1>4
    <3>2. exit_rules.take_profit_value \in Int
      BY DEF ExitRules
    <3> QED
      BY <3>1, <3>2
  <2> QED
    BY <1>3, <2>2, <2>3 DEF TargetPrice
<1>6. Opened(f, n) = PositionAt(n + 1, d, entry, stop)
  BY DEF Opened, d, entry, stop
<1>7. Opened(f, n) \in Position /\ Opened(f, n).entry_idx = n + 1 /\ Opened(f, n).direction = d
  BY <1>2, <1>3, <1>4, <1>5, <1>6 DEF PositionAt, Position
<1> QED
  BY <1>7, BacktestAssumption DEF d

LEMMA CloseType ==
    ASSUME NEW s \in State, s.position # NoPosition, NEW n \in Nat, NEW price \in Int,
           NEW reason \in {"stop_loss", "take_profit", "end_of_data"}
    PROVE  Close(s, n, price, reason) \in State
BY DEF Close, State, Position, Trade

(* A price that is touched is one.                                         *)
LEMMA TouchedPrices ==
    ASSUME NEW s \in State, s.position # NoPosition, NEW candle
    PROVE  /\ StopTouched(s.position, candle) => s.position.sl \in Int
           /\ TargetTouched(s.position, candle) => s.position.tp \in Int
BY DEF State, Position, StopTouched, TargetTouched

LEMMA AfterType ==
    ASSUME exit_rules \in ExitRules, NEW f \in Seq(Candle), NEW s \in State,
           NEW n \in 1 .. Len(f)
    PROVE  After(f, s, n) \in State
<1>1. CASE s.position = NoPosition
  <2>1. CASE Enters(f, n)
    <3>1. Opened(f, n) \in Position
      BY <2>1, OpenedType DEF Enters
    <3> QED
      BY <1>1, <2>1, <3>1 DEF After, State
  <2> QED
    BY <1>1, <2>1 DEF After
<1>2. CASE s.position # NoPosition
  BY <1>2, CloseType, TouchedPrices DEF After
<1> QED
  BY <1>1, <1>2

LEMMA FinishedType ==
    ASSUME NEW f \in Seq(Candle), NEW s \in State, s.position # NoPosition => Len(f) > 0
    PROVE  Finished(f, s) \in State
<1>1. Len(f) \in Nat /\ (s.position # NoPosition => Len(f) \in 1 .. Len(f))
  OBVIOUS
<1>2. s.position # NoPosition => f[Len(f)] \in Candle
  BY <1>1
<1>3. s.position # NoPosition => f[Len(f)].close \in Int
  BY <1>2 DEF Candle
<1> QED
  BY <1>1, <1>3, CloseType DEF Finished

LEMMA LoopType ==
    ASSUME TypeOK, NEW f \in Seq(Candle), NEW s \in State, s.position # NoPosition => Len(f) > 0
    PROVE  /\ Loop(f, s) \in State
           /\ Loop(f, s).position # NoPosition => Len(f) > 0
<1>1. i \in Nat \ {0} /\ exit_rules \in ExitRules /\ Len(f) \in Nat
  BY DEF TypeOK
<1>2. CASE i <= Len(f)
  BY <1>1, <1>2, AfterType DEF Loop
<1>3. CASE ~(i <= Len(f))
  BY <1>1, <1>3, FinishedType DEF Loop, Finished, Close
<1> QED
  BY <1>2, <1>3

LEMMA StartType == Start \in State
BY DEF Start, State

(* The twin begins like the frame.                                         *)
LEMMA InitFrames ==
    ASSUME Init
    PROVE  /\ frame \in Seq(Candle) /\ twin \in Seq(Candle)
           /\ SameBeginning
<1>1. frame \in Seq(Candle) /\ common \in 0 .. Len(frame)
  BY BacktestAssumption DEF Init
<1>2. PICK tail \in Seq(Candle) : twin = SubSeq(frame, 1, common) \o tail
  BY BacktestAssumption DEF Init
<1> DEFINE head == SubSeq(frame, 1, common)
<1>3. /\ head \in Seq(Candle) /\ Len(head) = common
      /\ \A n \in 1 .. common : head[n] = frame[n]
  BY <1>1
<1> HIDE DEF head
<1>4. twin = head \o tail
  BY <1>2 DEF head
<1>5. /\ twin \in Seq(Candle) /\ Len(twin) = common + Len(tail)
      /\ \A n \in 1 .. common : twin[n] = head[n]
  <2>1. head \o tail \in Seq(Candle) /\ Len(head \o tail) = Len(head) + Len(tail)
    BY <1>3
  <2>2. \A n \in 1 .. Len(head) : (head \o tail)[n] = head[n]
    BY <1>3
  <2> QED
    BY <1>1, <1>3, <1>4, <2>1, <2>2
<1> QED
  BY <1>1, <1>3, <1>5 DEF SameBeginning

LEMMA InitTypes == Init => TypeOK /\ Grounded
<1> SUFFICES ASSUME Init PROVE TypeOK /\ Grounded
  OBVIOUS
<1>1. frame \in Seq(Candle) /\ common \in 0 .. Len(frame) /\ exit_rules \in ExitRules
  BY BacktestAssumption DEF Init
<1>2. TypeOK
  BY <1>1, InitFrames, StartType DEF Init, TypeOK
<1>3. Grounded
  BY DEF Init, Start, Grounded
<1> QED
  BY <1>2, <1>3

LEMMA StepTypes == TypeOK /\ Grounded /\ [Next]_vars => (TypeOK /\ Grounded)'
<1> SUFFICES ASSUME TypeOK, Grounded, [Next]_vars PROVE (TypeOK /\ Grounded)'
  OBVIOUS
<1>1. CASE NextCandle \/ EndOfData
  <2>1. /\ UNCHANGED <<exit_rules, frame, twin, common>>
        /\ i' = i + 1 /\ i \in Nat \ {0}
        /\ run' = Loop(frame, run) /\ echo' = Loop(twin, echo)
    BY <1>1 DEF NextCandle, EndOfData, Loop, TypeOK
  <2> QED
    BY <2>1, LoopType DEF TypeOK, Grounded, State
<1>2. CASE UNCHANGED vars
  BY <1>2 DEF TypeOK, Grounded, vars, State
<1> QED
  BY <1>1, <1>2 DEF Next

(* Positions, trades and both frames keep their types.                     *)
THEOREM TypeCorrect == Spec => []TypeOK
<1>1. Init => TypeOK /\ Grounded
  BY InitTypes
<1>2. TypeOK /\ Grounded /\ [Next]_vars => (TypeOK /\ Grounded)'
  BY StepTypes
<1> QED
  BY <1>1, <1>2, PTL DEF Spec

-----------------------------------------------------------------------------
(***************************************************************************)
(* No lookahead.                                                           *)
(***************************************************************************)

(* What one turn does to a run depends on the candle and on whether, and   *)
(* how, the next one opens.                                                *)
LEMMA SameTurn ==
    ASSUME NEW f, NEW g, NEW s, NEW n \in Nat,
           f[n] = g[n], n < Len(f), n < Len(g), f[n + 1].open = g[n + 1].open
    PROVE  After(f, s, n) = After(g, s, n)
<1>1. Enters(f, n) <=> Enters(g, n)
  BY DEF Enters
<1>2. Opened(f, n) = Opened(g, n)
  BY DEF Opened
<1> QED
  BY <1>1, <1>2 DEF After

LEMMA SameTrades ==
    ASSUME NEW f, NEW g, NEW s \in State, NEW n \in Nat, f[n] = g[n]
    PROVE  After(f, s, n).trades = After(g, s, n).trades
<1>1. CASE s.position = NoPosition
  BY <1>1 DEF After, State
<1>2. CASE s.position # NoPosition
  BY <1>2 DEF After
<1> QED
  BY <1>1, <1>2

(* Past the common candles the rules add no trade that counts.             *)
LEMMA LaterTurn ==
    ASSUME NEW f, NEW s \in State, common \in Nat, NEW n \in Nat, n > common
    PROVE  ClosedByRules(After(f, s, n)) = ClosedByRules(s)
<1>1. CASE s.position = NoPosition
  BY <1>1 DEF After, State, ClosedByRules
<1>2. \A price, reason : ClosedByRules(Close(s, n, price, reason)) = ClosedByRules(s)
  BY DEF Close, ClosedByRules
<1>3. CASE s.position # NoPosition
  BY <1>2, <1>3 DEF After
<1> QED
  BY <1>1, <1>3

LEMMA EndOfLoop ==
    ASSUME NEW f, NEW s
    PROVE  ClosedByRules(Finished(f, s)) = ClosedByRules(s)
BY DEF Finished, Close, ClosedByRules

LEMMA InitTwin == Init => TwinInv
<1> SUFFICES ASSUME Init PROVE TwinInv
  OBVIOUS
<1>1. run = echo
  BY DEF Init
<1> QED
  BY <1>1, InitTypes, InitFrames DEF TwinInv, LoopsAgree, NoLookahead, SameEntry

LEMMA StepTwin == TwinInv /\ [Next]_vars => TwinInv'
<1> SUFFICES ASSUME TwinInv, [Next]_vars PROVE TwinInv'
  OBVIOUS
<1>0. TypeOK' /\ Grounded'
  BY StepTypes DEF TwinInv
<1> USE DEF TwinInv
<1>1. CASE UNCHANGED vars
  BY <1>0, <1>1 DEF vars, SameBeginning, LoopsAgree, NoLookahead, ClosedByRules, SameEntry
<1>2. CASE NextCandle \/ EndOfData
  <2>1. /\ UNCHANGED <<exit_rules, frame, twin, common>>
        /\ i' = i + 1 /\ i \in Nat \ {0} /\ common \in Nat
        /\ run' = Loop(frame, run) /\ echo' = Loop(twin, echo)
    BY <1>2 DEF NextCandle, EndOfData, Loop, TypeOK
  <2>2. SameBeginning'
    BY <2>1 DEF SameBeginning
  <2>3. CASE i < common
    <3>1. /\ frame[i] = twin[i] /\ frame[i + 1] = twin[i + 1]
          /\ i < Len(frame) /\ i < Len(twin)
      BY <2>1, <2>3 DEF SameBeginning, TypeOK
    <3>2. run' = echo'
      <4>1. Loop(frame, run) = After(frame, run, i) /\ Loop(twin, echo) = After(twin, echo, i)
        BY <2>1, <3>1 DEF Loop, TypeOK
      <4> QED
        BY <2>1, <2>3, <3>1, <4>1, SameTurn DEF LoopsAgree
    <3> QED
      BY <1>0, <2>1, <2>2, <3>2 DEF LoopsAgree, NoLookahead, ClosedByRules, SameEntry
  <2>4. CASE i = common
    <3>1. run = echo /\ frame[i] = twin[i] /\ run \in State
      BY <2>1, <2>4 DEF LoopsAgree, SameBeginning, TypeOK
    <3>2. run' = After(frame, run, i) /\ echo' = After(twin, run, i)
      BY <2>1, <2>4, <3>1 DEF Loop, SameBeginning, TypeOK
    <3>3. run'.trades = echo'.trades
      BY <2>1, <3>1, <3>2, SameTrades
    <3>4. ASSUME i < Len(frame), i < Len(twin)
          PROVE  SameEntry(run.position, echo.position)'
      <4>1. CASE run.position # NoPosition
        BY <3>1, <3>2, <4>1 DEF After, SameEntry
      <4>2. CASE run.position = NoPosition /\ frame[i].signal = 0
        BY <3>1, <3>2, <4>2 DEF After, Enters, SameEntry
      <4>3. CASE run.position = NoPosition /\ frame[i].signal # 0
        <5>1. run' = [run EXCEPT !.position = Opened(frame, i)]
          BY <3>1, <3>2, <3>4, <4>3 DEF After, Enters
        <5>2. echo' = [run EXCEPT !.position = Opened(twin, i)]
          BY <3>1, <3>2, <3>4, <4>3 DEF After, Enters
        <5>3. run'.position = Opened(frame, i) /\ echo'.position = Opened(twin, i)
          BY <3>1, <5>1, <5>2 DEF State
        <5>4. CASE frame[i + 1].open = twin[i + 1].open
          <6>1. Opened(frame, i) = Opened(twin, i)
            BY <3>1, <5>4 DEF Opened
          <6> QED
            BY <5>3, <6>1 DEF SameEntry
        <5>5. CASE frame[i + 1].open # twin[i + 1].open
          <6>1. /\ Opened(frame, i) # NoPosition /\ Opened(twin, i) # NoPosition
                /\ Opened(frame, i).entry_idx = common + 1
                /\ Opened(twin, i).entry_idx = common + 1
                /\ Opened(frame, i).direction = Opened(twin, i).direction
            BY <2>1, <2>4, <3>1, <3>4, OpenedType DEF TypeOK
          <6> QED
            BY <2>1, <2>4, <5>3, <5>5, <6>1 DEF SameEntry
        <5> QED
          BY <5>4, <5>5
      <4> QED
        BY <4>1, <4>2, <4>3
    <3> QED
      BY <1>0, <2>1, <2>2, <2>4, <3>3, <3>4 DEF LoopsAgree, NoLookahead, ClosedByRules
  <2>5. CASE i > common
    <3>1. /\ ClosedByRules(run') = ClosedByRules(run)
          /\ ClosedByRules(echo') = ClosedByRules(echo)
      BY <2>1, <2>5, LaterTurn, EndOfLoop DEF Loop, TypeOK
    <3>2. ClosedByRules(run)' = ClosedByRules(echo)'
      BY <2>1, <3>1 DEF NoLookahead, ClosedByRules
    <3> QED
      BY <1>0, <2>1, <2>2, <2>5, <3>2 DEF LoopsAgree, NoLookahead
  <2> QED
    BY <2>1, <2>3, <2>4, <2>5
<1> QED
  BY <1>1, <1>2 DEF Next

(* What a run has done by a candle does not depend on the later ones.      *)
THEOREM NothingIsSeenAhead == Spec => []NoLookahead
<1>1. TwinInv => NoLookahead
  BY DEF TwinInv
<1> QED
  BY <1>1, InitTwin, StepTwin, PTL DEF Spec

-----------------------------------------------------------------------------
(***************************************************************************)
(* Where the loop is, and the four things a step does to the run: nothing, *)
(* open a position, close it at this candle, close it with the data.       *)
(***************************************************************************)
StaysAlike == run' = run

OpensNext ==
    /\ run.position = NoPosition /\ i <= Len(frame) /\ Enters(frame, i)
    /\ run' = [run EXCEPT !.position = Opened(frame, i)]

ClosesHere(price, reason) ==
    /\ run.position # NoPosition /\ i <= Len(frame)
    /\ run' = Close(run, i, price, reason)

ClosesWithData ==
    /\ run.position # NoPosition /\ i = Len(frame) + 1
    /\ run' = Close(run, Len(frame), frame[Len(frame)].close, "end_of_data")

(* When it does nothing.                                                   *)
NothingToDo ==
    IF i = Len(frame) + 1 THEN run.position = NoPosition
    ELSE IF run.position = NoPosition THEN ~Enters(frame, i)
    ELSE ~StopTouched(run.position, frame[i]) /\ ~TargetTouched(run.position, frame[i])

LEMMA StepCases ==
    ASSUME LoopInv, NextCandle \/ EndOfData
    PROVE  /\ UNCHANGED <<exit_rules, frame>>
           /\ i \in Nat \ {0} /\ i <= Len(frame) + 1 /\ i' = i + 1
           /\ \/ StaysAlike /\ NothingToDo
              \/ OpensNext
              \/ /\ ClosesHere(run.position.sl, "stop_loss")
                 /\ StopTouched(run.position, frame[i])
              \/ /\ ClosesHere(run.position.tp, "take_profit")
                 /\ TargetTouched(run.position, frame[i])
                 /\ ~StopTouched(run.position, frame[i])
              \/ ClosesWithData
<1>1. /\ UNCHANGED <<exit_rules, frame>>
      /\ i \in Nat \ {0} /\ i <= Len(frame) + 1 /\ i' = i + 1
  BY DEF NextCandle, EndOfData, LoopInv, TypeOK
<1>2. CASE NextCandle
  <2>1. i <= Len(frame) /\ i # Len(frame) + 1 /\ run' = After(frame, run, i)
    BY <1>2 DEF NextCandle, LoopInv, TypeOK
  <2>2. CASE run.position = NoPosition
    BY <1>1, <2>1, <2>2 DEF After, StaysAlike, NothingToDo, OpensNext
  <2>3. CASE run.position # NoPosition
    BY <1>1, <2>1, <2>3 DEF After, StaysAlike, NothingToDo, ClosesHere
  <2> QED
    BY <2>2, <2>3
<1>3. CASE EndOfData
  BY <1>1, <1>3 DEF EndOfData, Finished, StaysAlike, NothingToDo, ClosesWithData
<1> QED
  BY <1>1, <1>2, <1>3

LEMMA InitLoop == Init => LoopInv
<1> SUFFICES ASSUME Init PROVE LoopInv
  OBVIOUS
<1>1. TypeOK /\ Grounded
  BY InitTypes
<1>2. i <= Len(frame) + 2 /\ i # Len(frame) + 2
  BY <1>1 DEF Init, TypeOK
<1> QED
  BY <1>1, <1>2 DEF Init, Start, LoopInv, PositionFollows, TradesAreBehind

(* What a turn leaves as position and trades, in terms of what was there.  *)
LEMMA AfterOpening ==
    ASSUME LoopInv, OpensNext, i \in Nat \ {0}
    PROVE  /\ run'.position = Opened(frame, i) /\ run'.trades = run.trades
           /\ run'.position # NoPosition
           /\ run'.position.entry_idx = i + 1 /\ i + 1 <= Len(frame)
<1>1. run \in State /\ frame \in Seq(Candle) /\ exit_rules \in ExitRules /\ i < Len(frame)
  BY DEF LoopInv, TypeOK, OpensNext, Enters
<1>2. run'.position = Opened(frame, i) /\ run'.trades = run.trades
  BY <1>1 DEF OpensNext, State
<1> QED
  BY <1>1, <1>2, OpenedType

Ended(n, price, reason) ==
    [entry_idx |-> run.position.entry_idx, entry_price |-> run.position.entry_price,
     direction |-> run.position.direction,
     exit_idx |-> n, exit_price |-> price, exit_reason |-> reason]

LEMMA AfterClosing ==
    ASSUME NEW n, NEW price, NEW reason, run' = Close(run, n, price, reason)
    PROVE  /\ run'.position = NoPosition
           /\ run'.trades = run.trades \cup {Ended(n, price, reason)}
BY DEF Close, Ended

LEMMA StepLoop == LoopInv /\ [Next]_vars => LoopInv'
<1> SUFFICES ASSUME LoopInv, [Next]_vars PROVE LoopInv'
  OBVIOUS
<1>0. TypeOK' /\ Grounded'
  BY StepTypes DEF LoopInv
<1>1. CASE UNCHANGED vars
  BY <1>0, <1>1 DEF vars, LoopInv, PositionFollows, TradesAreBehind, Opened, Filled,
     StopPrice, TargetPrice, PositionAt
<1>2. CASE NextCandle \/ EndOfData
  <2>1. /\ UNCHANGED <<exit_rules, frame>>
        /\ i \in Nat \ {0} /\ i <= Len(frame) + 1 /\ i' = i + 1
        /\ \A n : Opened(frame, n)' = Opened(frame, n)
    <3>1. /\ UNCHANGED <<exit_rules, frame>>
          /\ i \in Nat \ {0} /\ i <= Len(frame) + 1 /\ i' = i + 1
      BY <1>2, StepCases
    <3> QED
      BY <3>1 DEF Opened, Filled, StopPrice, TargetPrice, PositionAt
  <2>2. /\ run \in State /\ Len(frame) \in Nat /\ PositionFollows /\ TradesAreBehind
        /\ \A t \in run.trades : t.entry_idx \in Nat /\ t.exit_idx \in Nat
        /\ run.position # NoPosition => run.position.entry_idx \in Nat
    BY DEF LoopInv, TypeOK, State, Trade, Position
  <2>3. /\ PositionFollows'
        /\ TradesAreBehind'
        /\ i' = Len(frame)' + 2 => run'.position = NoPosition
    <3>1. CASE StaysAlike /\ NothingToDo
      BY <2>1, <2>2, <3>1 DEF StaysAlike, NothingToDo, PositionFollows, TradesAreBehind
    <3>2. CASE OpensNext
      <4>1. /\ run'.position = Opened(frame, i) /\ run'.trades = run.trades
            /\ run'.position.entry_idx = i + 1 /\ i + 1 <= Len(frame)
        BY <2>1, <3>2, AfterOpening
      <4> QED
        BY <2>1, <2>2, <4>1 DEF PositionFollows, TradesAreBehind
    <3>3. ASSUME NEW price, NEW reason, ClosesHere(price, reason)
          PROVE  PositionFollows' /\ TradesAreBehind' /\ run'.position = NoPosition
      <4>1. /\ run'.position = NoPosition /\ run'.trades = run.trades \cup {Ended(i, price, reason)}
            /\ run.position.entry_idx <= i /\ i <= Len(frame)
        BY <2>2, <3>3, AfterClosing DEF ClosesHere, PositionFollows
      <4> QED
        BY <2>1, <2>2, <4>1 DEF PositionFollows, TradesAreBehind, Ended
    <3>4. CASE ClosesWithData
      <4>1. /\ run'.position = NoPosition
            /\ run'.trades = run.trades \cup
                   {Ended(Len(frame), frame[Len(frame)].close, "end_of_data")}
            /\ run.position.entry_idx <= Len(frame) /\ i = Len(frame) + 1
        BY <2>2, <3>4, AfterClosing DEF ClosesWithData, PositionFollows
      <4> QED
        BY <2>1, <2>2, <4>1 DEF PositionFollows, TradesAreBehind, Ended
    <3> QED
      BY <1>2, <3>1, <3>2, <3>3, <3>4, StepCases
  <2> QED
    BY <1>0, <2>1, <2>2, <2>3 DEF LoopInv
<1> QED
  BY <1>1, <1>2 DEF Next

-----------------------------------------------------------------------------
(***************************************************************************)
(* Exits.                                                                  *)
(***************************************************************************)
LEMMA InitExit == Init => ExitInv
BY InitLoop DEF Init, Start, ExitInv, ExitsAtFirstTouch

(* A closed trade is judged by the rules, the frame and nothing else.      *)
LEMMA JudgedForGood ==
    ASSUME UNCHANGED <<exit_rules, frame>>
    PROVE  \A t : ClosedRightly(t)' = ClosedRightly(t)
BY DEF ClosedRightly, Untouched, StopTouched, TargetTouched, Opened, Filled, StopPrice,
   TargetPrice, PositionAt

LEMMA StepExit == ExitInv /\ [Next]_vars => ExitInv'
<1> SUFFICES ASSUME ExitInv, [Next]_vars PROVE ExitInv'
  OBVIOUS
<1>0. LoopInv'
  BY StepLoop DEF ExitInv
<1>1. CASE UNCHANGED vars
  BY <1>0, <1>1, JudgedForGood DEF vars, ExitInv, ExitsAtFirstTouch, Untouched, StopTouched,
     TargetTouched
<1>2. CASE NextCandle \/ EndOfData
  <2>1. /\ UNCHANGED <<exit_rules, frame>> /\ i \in Nat \ {0} /\ i' = i + 1
        /\ Len(frame) \in Nat /\ run \in State
        /\ run.position # NoPosition =>
              /\ run.position.entry_idx \in Nat /\ run.position.entry_idx <= i
              /\ run.position = Opened(frame, run.position.entry_idx - 1)
    <3>1. LoopInv
      BY DEF ExitInv
    <3> QED
      BY <1>2, <3>1, StepCases DEF LoopInv, TypeOK, State, Position, PositionFollows
  <2>2. /\ \A t \in run.trades : ClosedRightly(t)'
        /\ run.position # NoPosition =>
              Untouched(run.position, run.position.entry_idx, i - 1)
    BY <2>1, JudgedForGood DEF ExitInv, ExitsAtFirstTouch
  <2>3. \A p, first, last : Untouched(p, first, last)' = Untouched(p, first, last)
    BY <2>1 DEF Untouched, StopTouched, TargetTouched
  <2>4. ExitsAtFirstTouch'
    <3>1. CASE StaysAlike /\ NothingToDo
      <4>1. run.position # NoPosition => Untouched(run.position, run.position.entry_idx, i)
        BY <2>1, <2>2, <3>1 DEF NothingToDo, Untouched
      <4> QED
        BY <2>1, <2>2, <2>3, <3>1, <4>1 DEF StaysAlike, ExitsAtFirstTouch
    <3>2. CASE OpensNext
      <4>1. run'.trades = run.trades /\ run'.position.entry_idx = i + 1
        BY <2>1, <3>2, AfterOpening DEF ExitInv
      <4>2. Untouched(run'.position, i + 1, i)
        BY <2>1 DEF Untouched
      <4> QED
        BY <2>1, <2>2, <2>3, <4>1, <4>2 DEF ExitsAtFirstTouch
    <3>3. ASSUME NEW n, NEW price, NEW reason, run.position # NoPosition,
                 run' = Close(run, n, price, reason), ClosedRightly(Ended(n, price, reason))
          PROVE  ExitsAtFirstTouch'
      <4>1. /\ run'.position = NoPosition
            /\ run'.trades = run.trades \cup {Ended(n, price, reason)}
        BY <3>3, AfterClosing
      <4>2. \A t \in {Ended(n, price, reason)} : ClosedRightly(t)'
        BY <2>1, <3>3, JudgedForGood
      <4> QED
        BY <2>2, <4>1, <4>2 DEF ExitsAtFirstTouch
    <3>4. CASE ClosesHere(run.position.sl, "stop_loss") /\ StopTouched(run.position, frame[i])
      <4>1. ClosedRightly(Ended(i, run.position.sl, "stop_loss"))
        BY <2>1, <2>2, <3>4 DEF ClosedRightly, Ended, ClosesHere
      <4> QED
        BY <3>3, <3>4, <4>1 DEF ClosesHere
    <3>5. CASE /\ ClosesHere(run.position.tp, "take_profit")
               /\ TargetTouched(run.position, frame[i])
               /\ ~StopTouched(run.position, frame[i])
      <4>1. ClosedRightly(Ended(i, run.position.tp, "take_profit"))
        BY <2>1, <2>2, <3>5 DEF ClosedRightly, Ended, ClosesHere
      <4> QED
        BY <3>3, <3>5, <4>1 DEF ClosesHere
    <3>6. CASE ClosesWithData
      <4>1. Untouched(run.position, run.position.entry_idx, Len(frame))
        BY <2>1, <2>2, <3>6 DEF ClosesWithData
      <4>2. /\ Untouched(run.position, run.position.entry_idx, Len(frame) - 1)
            /\ run.position.entry_idx <= Len(frame)
        BY <2>1, <3>6, <4>1 DEF Untouched, ClosesWithData, ExitInv, LoopInv, PositionFollows
      <4>3. Untouched(run.position, Len(frame), Len(frame))
        BY <2>1, <4>1, <4>2 DEF Untouched
      <4>4. ClosedRightly(Ended(Len(frame), frame[Len(frame)].close, "end_of_data"))
        BY <2>1, <3>6, <4>2, <4>3 DEF ClosedRightly, Ended, ClosesWithData
      <4> QED
        BY <3>3, <3>6, <4>4 DEF ClosesWithData
    <3> QED
      BY <1>2, <3>1, <3>2, <3>4, <3>5, <3>6, StepCases DEF ExitInv
  <2> QED
    BY <1>0, <2>4 DEF ExitInv
<1> QED
  BY <1>1, <1>2 DEF Next

(* A position is closed by the first candle that touches one of its prices, *)
(* at the stop when it touches both, and otherwise with the data.          *)
THEOREM FirstTouchCloses == Spec => []ExitsAtFirstTouch
<1>1. ExitInv => ExitsAtFirstTouch
  BY DEF ExitInv
<1> QED
  BY <1>1, InitExit, StepExit, PTL DEF Spec

-----------------------------------------------------------------------------
(***************************************************************************)
(* Entries.                                                                *)
(***************************************************************************)
LEMMA InitEntry == Init => EntryInv
<1> SUFFICES ASSUME Init PROVE EntryInv
  OBVIOUS
<1>1. i = 1 /\ 1 .. i - 1 = {}
  BY DEF Init
<1> QED
  BY <1>1, InitLoop DEF EntryInv, SignalsAreTaken

LEMMA StepEntry == EntryInv /\ [Next]_vars => EntryInv'
<1> SUFFICES ASSUME EntryInv, [Next]_vars PROVE EntryInv'
  OBVIOUS
<1>0. LoopInv /\ LoopInv'
  BY StepLoop DEF EntryInv
<1>1. CASE UNCHANGED vars
  BY <1>0, <1>1 DEF vars, EntryInv, SignalsAreTaken, EnteredAt, Held
<1>2. CASE NextCandle \/ EndOfData
  <2>1. /\ UNCHANGED <<exit_rules, frame>> /\ i \in Nat \ {0} /\ i' = i + 1
        /\ i <= Len(frame) + 1 /\ Len(frame) \in Nat
    BY <1>0, <1>2, StepCases DEF LoopInv, TypeOK
  <2>2. /\ \A t \in run.trades : /\ t.entry_idx \in Nat /\ t.exit_idx \in Nat
                                 /\ t.entry_idx <= t.exit_idx /\ t.exit_idx < i
        /\ run.position # NoPosition => /\ run.position.entry_idx \in Nat
                                        /\ run.position.entry_idx <= i
    BY <1>0 DEF LoopInv, TypeOK, State, Trade, Position, PositionFollows, TradesAreBehind
  (* The candles before this one keep what was said of them.               *)
  <2>3. \A n \in 1 .. i - 1 :
            n < Len(frame) => (EnteredAt(n + 1) <=> frame[n].signal # 0 /\ ~Held(n))
    BY DEF EntryInv, SignalsAreTaken
  <2>4. ASSUME NEW n \in 1 .. i, n < Len(frame)
        PROVE  EnteredAt(n + 1)' <=> frame[n].signal # 0 /\ ~Held(n)'
    <3>1. n = i => ~EnteredAt(n + 1)
      BY <2>1, <2>2 DEF EnteredAt
    <3>2. CASE StaysAlike /\ NothingToDo
      <4>1. (EnteredAt(n + 1)' <=> EnteredAt(n + 1)) /\ (Held(n)' <=> Held(n))
        BY <3>2 DEF StaysAlike, EnteredAt, Held
      <4>2. n = i => frame[n].signal = 0 \/ Held(n)
        BY <2>1, <2>2, <2>4, <3>2 DEF NothingToDo, Enters, Held
      <4> QED
        BY <2>1, <2>3, <2>4, <3>1, <4>1, <4>2
    <3>3. CASE OpensNext
      <4>1. /\ run'.position # NoPosition /\ run'.trades = run.trades
            /\ run'.position.entry_idx = i + 1 /\ run.position = NoPosition
            /\ frame[i].signal # 0
        BY <1>0, <2>1, <3>3, AfterOpening DEF OpensNext, Enters
      <4>2. /\ n < i => (EnteredAt(n + 1)' <=> EnteredAt(n + 1))
            /\ Held(n)' <=> Held(n)
        BY <2>1, <2>4, <4>1 DEF EnteredAt, Held
      <4>3. n = i => EnteredAt(n + 1)' /\ ~Held(n)'
        BY <2>1, <2>2, <4>1 DEF EnteredAt, Held
      <4> QED
        BY <2>1, <2>3, <2>4, <4>1, <4>2, <4>3
    <3>4. ASSUME NEW m, NEW price, NEW reason, run.position # NoPosition,
                 m \in Nat, n <= m, run' = Close(run, m, price, reason)
          PROVE  EnteredAt(n + 1)' <=> frame[n].signal # 0 /\ ~Held(n)'
      <4>1. /\ run'.position = NoPosition
            /\ run'.trades = run.trades \cup {Ended(m, price, reason)}
            /\ Ended(m, price, reason).entry_idx = run.position.entry_idx
            /\ Ended(m, price, reason).exit_idx = m
        BY <3>4, AfterClosing DEF Ended
      <4>2. (EnteredAt(n + 1)' <=> EnteredAt(n + 1)) /\ (Held(n)' <=> Held(n))
        BY <2>1, <2>2, <3>4, <4>1 DEF EnteredAt, Held
      <4>3. n = i => Held(n)
        BY <2>2, <3>4 DEF Held
      <4> QED
        BY <2>1, <2>3, <2>4, <3>1, <4>2, <4>3
    <3>5. CASE \E price, reason : ClosesHere(price, reason)
      BY <2>1, <2>4, <3>4, <3>5 DEF ClosesHere
    <3>6. CASE ClosesWithData
      BY <2>1, <2>4, <3>4, <3>6 DEF ClosesWithData
    <3> QED
      BY <1>0, <1>2, <3>2, <3>3, <3>5, <3>6, StepCases
  <2> QED
    BY <1>0, <2>1, <2>4 DEF SignalsAreTaken, EntryInv
<1> QED
  BY <1>1, <1>2 DEF Next

(* A signal is entered exactly when no position is held on its candle.     *)
THEOREM NoSignalIsLost == Spec => []SignalsAreTaken
<1>1. EntryInv => SignalsAreTaken
  BY DEF EntryInv
<1> QED
  BY <1>1, InitEntry, StepEntry, PTL DEF Spec
=============================================================================

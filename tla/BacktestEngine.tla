--------------------------- MODULE BacktestEngine ---------------------------
(***************************************************************************)
(* The backtest (core/backtest_engine.py): one loop over the candles of a  *)
(* data frame that opens and closes positions.                             *)
(*                                                                         *)
(* Beside the run that is looked at, a second one reads a frame that       *)
(* begins with the same candles and goes on otherwise, or stops: what the  *)
(* two have done by the last common candle must not differ.  Both loops    *)
(* are at the same candle.                                                 *)
(*                                                                         *)
(* Prices are integers, and what is a part of one is rounded down.  Money  *)
(* is left out: quantities, fees, the curve and the metrics follow from    *)
(* the trades and decide nothing in the loop.                              *)
(***************************************************************************)
EXTENDS Integers, Sequences

CONSTANTS
    Frames,      \* data frames, with the columns the strategy has added
    Tails,       \* what a frame may go on with instead
    Rules,       \* exit rules, with the slippage
    NoPrice,     \* None, and NaN in a column
    NoPosition

(* signal is the strategy's verdict at the close (0 where it has none), atr *)
(* the mean true range up to the candle (NaN in the first ones).           *)
Candle == [open: Int, high: Int, low: Int, close: Int, signal: Int, atr: Int \cup {NoPrice}]

ExitRules == [stop_loss_type: {"fixed_percent", "atr_multiplier"}, stop_loss_value: Int,
              take_profit_type: {"fixed_percent", "risk_reward_ratio"}, take_profit_value: Int,
              slippage_pct: Int]

(* sl and tp are None, or NaN, when they cannot be computed.               *)
Position == [direction: {1, -1}, entry_idx: Nat, entry_price: Int,
             sl: Int \cup {NoPrice}, tp: Int \cup {NoPrice}]

Trade == [entry_idx: Nat, entry_price: Int, direction: {1, -1}, exit_idx: Nat,
          exit_price: Int, exit_reason: {"stop_loss", "take_profit", "end_of_data"}]

ASSUME BacktestAssumption ==
    /\ Frames \subseteq Seq(Candle) /\ Tails \subseteq Seq(Candle)
    /\ Rules \subseteq ExitRules
    /\ NoPrice \notin Int
    /\ NoPosition \notin Position

VARIABLES
    exit_rules,
    frame, run,      \* data, and the position and trades
    twin, echo,      \* those of the other run
    common,          \* candles with which both frames begin
    i                \* the candle the loops are at; past the last: the end of the data

vars == <<exit_rules, frame, run, twin, echo, common, i>>

-----------------------------------------------------------------------------
(* Opening a position.                                                     *)
Percent(price, value) == (price * value) \div 100

Direction(signal) == IF signal > 0 THEN 1 ELSE -1

Filled(open, d) == open + d * Percent(open, exit_rules.slippage_pct)

StopPrice(entry, d, atr) ==
    IF exit_rules.stop_loss_type = "fixed_percent"
    THEN entry - d * Percent(entry, exit_rules.stop_loss_value)
    ELSE IF atr = NoPrice THEN NoPrice
         ELSE entry - d * (exit_rules.stop_loss_value * atr)

TargetPrice(entry, d, stop) ==
    IF exit_rules.take_profit_type = "fixed_percent"
    THEN entry + d * Percent(entry, exit_rules.take_profit_value)
    ELSE IF stop = NoPrice THEN NoPrice
         ELSE entry + (entry - stop) * exit_rules.take_profit_value

PositionAt(idx, d, entry, stop) ==
    [direction |-> d, entry_idx |-> idx, entry_price |-> entry,
     sl |-> stop, tp |-> TargetPrice(entry, d, stop)]

(* Mutant: the range of the candle that is entered is known.               *)
OpenedLater(f, n) ==
    LET d == Direction(f[n].signal)
        entry == Filled(f[n + 1].open, d)
    IN  PositionAt(n + 1, d, entry, StopPrice(entry, d, f[n + 1].atr))

(* From the signal at the close of candle n, at the opening of the next.   *)
Opened(f, n) ==
    LET d == Direction(f[n].signal)
        entry == Filled(f[n + 1].open, d)
    IN  PositionAt(n + 1, d, entry, StopPrice(entry, d, f[n].atr))

(* Mutant: the signal of the candle that is entered.                      *)
EntersLate(f, n) ==
    /\ n < Len(f)
    /\ f[n + 1].signal # 0

Enters(f, n) ==
    /\ n < Len(f)
    /\ f[n].signal # 0

-----------------------------------------------------------------------------
(* Closing it.                                                             *)
StopTouched(p, candle) ==
    /\ p.sl # NoPrice
    /\ IF p.direction > 0 THEN candle.low <= p.sl ELSE candle.high >= p.sl

TargetTouched(p, candle) ==
    /\ p.tp # NoPrice
    /\ IF p.direction > 0 THEN candle.high >= p.tp ELSE candle.low <= p.tp

Close(s, n, price, reason) ==
    [position |-> NoPosition,
     trades |-> s.trades \cup
        {[entry_idx |-> s.position.entry_idx, entry_price |-> s.position.entry_price,
          direction |-> s.position.direction,
          exit_idx |-> n, exit_price |-> price, exit_reason |-> reason]}]

(* Mutant: the target is looked at first.                                  *)
AfterTargetFirst(f, s, n) ==
    IF s.position = NoPosition
    THEN IF Enters(f, n) THEN [s EXCEPT !.position = Opened(f, n)] ELSE s
    ELSE IF TargetTouched(s.position, f[n]) THEN Close(s, n, s.position.tp, "take_profit")
    ELSE IF StopTouched(s.position, f[n]) THEN Close(s, n, s.position.sl, "stop_loss")
    ELSE s

(* One turn of the loop.  The candle that closes a position opens none, and *)
(* one that touches both prices counts as a loss.                          *)
After(f, s, n) ==
    IF s.position = NoPosition
    THEN IF Enters(f, n) THEN [s EXCEPT !.position = Opened(f, n)] ELSE s
    ELSE IF StopTouched(s.position, f[n]) THEN Close(s, n, s.position.sl, "stop_loss")
    ELSE IF TargetTouched(s.position, f[n]) THEN Close(s, n, s.position.tp, "take_profit")
    ELSE s

(* What is open after the last candle is closed at its close.              *)
Finished(f, s) ==
    IF s.position = NoPosition THEN s
    ELSE Close(s, Len(f), f[Len(f)].close, "end_of_data")

Loop(f, s) == IF i <= Len(f) THEN After(f, s, i) ELSE Finished(f, s)

-----------------------------------------------------------------------------
Start == [position |-> NoPosition, trades |-> {}]

Init ==
    /\ exit_rules \in Rules
    /\ frame \in Frames
    /\ common \in 0 .. Len(frame)
    /\ \E tail \in Tails : twin = SubSeq(frame, 1, common) \o tail
    /\ run = Start /\ echo = Start
    /\ i = 1

NextCandle ==
    /\ i <= Len(frame)
    /\ run' = After(frame, run, i)
    /\ echo' = Loop(twin, echo)
    /\ i' = i + 1
    /\ UNCHANGED <<exit_rules, frame, twin, common>>

EndOfData ==
    /\ i = Len(frame) + 1
    /\ run' = Finished(frame, run)
    /\ echo' = Loop(twin, echo)
    /\ i' = i + 1
    /\ UNCHANGED <<exit_rules, frame, twin, common>>

Next == NextCandle \/ EndOfData

Spec == Init /\ [][Next]_vars

-----------------------------------------------------------------------------
(* Positions and trades have their types; a trade is not closed before it  *)
(* is opened, nor a position opened before the first signal.               *)
State == [position: Position \cup {NoPosition}, trades: SUBSET Trade]

TypeOK ==
    /\ exit_rules \in ExitRules
    /\ frame \in Seq(Candle) /\ twin \in Seq(Candle)
    /\ common \in Nat
    /\ i \in Nat \ {0}
    /\ run \in State /\ echo \in State

(***************************************************************************)
(* No lookahead: by any candle both frames have, the rules have closed the *)
(* same trades, and the next candle is entered or not, and in which        *)
(* direction, whatever that candle brings: only the price of the entry,    *)
(* and the two that follow from it, depend on its opening.                 *)
(***************************************************************************)
ClosedByRules(s) ==
    {t \in s.trades : t.exit_reason # "end_of_data" /\ t.exit_idx <= common}

SameEntry(p, q) ==
    \/ p = q
    \/ /\ NoPosition \notin {p, q}
       /\ p.entry_idx = common + 1 /\ q.entry_idx = common + 1
       /\ p.direction = q.direction
       /\ frame[common + 1].open # twin[common + 1].open

NoLookahead ==
    /\ ClosedByRules(run) = ClosedByRules(echo)
    /\ i <= common + 1 /\ common < Len(frame) /\ common < Len(twin)
          => SameEntry(run.position, echo.position)

(***************************************************************************)
(* A trade ends at the first candle, from the one it was opened on, that   *)
(* touches its stop or its target, at the stop if it touches both and at   *)
(* the price that was set when it was opened, or else at the last close.   *)
(* An open position has met neither.                                       *)
(***************************************************************************)
Untouched(p, first, last) ==
    \A n \in first .. last : ~StopTouched(p, frame[n]) /\ ~TargetTouched(p, frame[n])

ClosedRightly(t) ==
    LET p == Opened(frame, t.entry_idx - 1)
    IN  /\ Untouched(p, t.entry_idx, t.exit_idx - 1)
        /\ CASE t.exit_reason = "stop_loss" -> /\ StopTouched(p, frame[t.exit_idx])
                                               /\ t.exit_price = p.sl
             [] t.exit_reason = "take_profit" -> /\ TargetTouched(p, frame[t.exit_idx])
                                                 /\ ~StopTouched(p, frame[t.exit_idx])
                                                 /\ t.exit_price = p.tp
             [] OTHER -> /\ t.exit_idx = Len(frame)
                         /\ t.exit_price = frame[t.exit_idx].close
                         /\ Untouched(p, t.exit_idx, t.exit_idx)

ExitsAtFirstTouch ==
    /\ \A t \in run.trades : ClosedRightly(t)
    /\ run.position # NoPosition => Untouched(run.position, run.position.entry_idx, i - 1)

(***************************************************************************)
(* A candle is entered exactly when the one before it gave a signal and no *)
(* position was held on that one, the candle that closes it included: one  *)
(* position at a time, and no signal lost while there is none.             *)
(***************************************************************************)
Held(n) ==
    \/ \E t \in run.trades : t.entry_idx <= n /\ n <= t.exit_idx
    \/ run.position # NoPosition /\ run.position.entry_idx <= n

EnteredAt(n) ==
    \/ \E t \in run.trades : t.entry_idx = n
    \/ run.position # NoPosition /\ run.position.entry_idx = n

SignalsAreTaken ==
    \A n \in 1 .. i - 1 :
        n < Len(frame) => (EnteredAt(n + 1) <=> frame[n].signal # 0 /\ ~Held(n))
-----------------------------------------------------------------------------
(***************************************************************************)
(* What the documents say, or a trader expects, and the code does not do.  *)
(***************************************************************************)

(* docs/v3-modulo-3-backtest.md:26: the exit of a position is evaluated on *)
(* the candles that follow the one it was entered on.  The loop looks at   *)
(* that one first, because the entry is at its opening.                    *)
ExitsAfterEntry ==
    \A t \in run.trades : t.exit_reason # "end_of_data" => t.exit_idx > t.entry_idx

(* The price of an exit was traded on its candle (lines 128-136): not when *)
(* the candle opens beyond the stop or the target.                         *)
ExitPriceWasTraded ==
    \A t \in run.trades :
        frame[t.exit_idx].low <= t.exit_price /\ t.exit_price <= frame[t.exit_idx].high

-----------------------------------------------------------------------------
(***************************************************************************)
(* What the proofs add to these properties to make them inductive.         *)
(***************************************************************************)
SameBeginning ==
    /\ common <= Len(frame) /\ common <= Len(twin)
    /\ \A n \in 1 .. common : frame[n] = twin[n]

(* The two runs are one while both have the next candle too.               *)
LoopsAgree ==
    /\ i <= common => run = echo
    /\ i = common + 1 => run.trades = echo.trades

(* What a position is follows from the candle before it; no trade is ahead *)
(* of the loop.                                                            *)
PositionFollows ==
    run.position # NoPosition =>
        /\ run.position = Opened(frame, run.position.entry_idx - 1)
        /\ run.position.entry_idx <= i
        /\ run.position.entry_idx <= Len(frame)

TradesAreBehind ==
    \A t \in run.trades :
        /\ t.entry_idx <= t.exit_idx
        /\ t.exit_idx < i /\ t.exit_idx <= Len(frame)

(* Only a frame with candles opens a position.                             *)
Grounded ==
    /\ run.position # NoPosition => Len(frame) > 0
    /\ echo.position # NoPosition => Len(twin) > 0

LoopInv ==
    /\ TypeOK /\ Grounded
    /\ i <= Len(frame) + 2
    /\ i = Len(frame) + 2 => run.position = NoPosition
    /\ PositionFollows
    /\ TradesAreBehind

TwinInv == TypeOK /\ Grounded /\ SameBeginning /\ LoopsAgree /\ NoLookahead
ExitInv == LoopInv /\ ExitsAtFirstTouch
EntryInv == LoopInv /\ SignalsAreTaken
=============================================================================

-------------------------- MODULE MCBacktestEngine --------------------------
(* Frames of a few shapes of candles.  A position entered at 10 has its    *)
(* stop and its target at 9 and 11; one candle opens at 20.                *)
EXTENDS BacktestEngine

CONSTANTS
    MaxCandles    \* bound: candles of a frame

Bar(open, high, low) ==
    [open |-> open, high |-> high, low |-> low, close |-> open, signal |-> 0, atr |-> NoPrice]
Signals(bar, signal) == [bar EXCEPT !.signal = signal, !.atr = 1]

Quiet == Bar(10, 10, 10)
Falls == Bar(10, 10, 9)
Rises == Bar(10, 11, 10)
Wide  == Bar(10, 11, 9)
Gap   == Bar(20, 20, 20)

Bars == {Quiet, Falls, Rises, Wide, Gap,
         Signals(Quiet, 1), Signals(Quiet, -1), Signals(Rises, 1), Signals(Falls, -1),
         Signals(Gap, 1), [Quiet EXCEPT !.signal = 1]}

MCFrames == UNION {[1 .. n -> Bars] : n \in 1 .. MaxCandles}
MCTails == {<<>>, <<Wide>>, <<Signals(Gap, -1), Falls>>}

Percentages == [stop_loss_type |-> "fixed_percent", stop_loss_value |-> 10,
                take_profit_type |-> "fixed_percent", take_profit_value |-> 10,
                slippage_pct |-> 0]
MCRules == {Percentages,
            [Percentages EXCEPT !.stop_loss_type = "atr_multiplier", !.stop_loss_value = 1,
                                !.take_profit_type = "risk_reward_ratio", !.take_profit_value = 1],
            [Percentages EXCEPT !.slippage_pct = 10]}
=============================================================================

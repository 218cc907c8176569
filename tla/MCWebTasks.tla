----------------------------- MODULE MCWebTasks -----------------------------
(* The pages on small instances: one strategy has the parameters of the    *)
(* other and one more.                                                     *)
EXTENDS WebTasks, TLC

ParametersSchema == "ema" :> {"fast", "slow"} @@ "rsi" :> {"fast"}
=============================================================================

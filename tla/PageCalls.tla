----------------------------- MODULE PageCalls -----------------------------
(***************************************************************************)
(* What the pages of the web client have in common.  A page calls the      *)
(* server through request (lib/api.ts), which returns what the server      *)
(* answers or throws.  Every call is asynchronous: it is sent, served and  *)
(* answered in steps of their own, and what the page does with the answer  *)
(* it does to the state it has by then.                                    *)
(***************************************************************************)
EXTENDS Naturals, Sequences, SequencesExt

CONSTANTS
    MaxClicks,    \* bound: what the user does
    MaxFailures   \* bound: calls that fail, and what fails behind them

ASSUME BoundsAssumption == {MaxClicks, MaxFailures} \subseteq Nat

VARIABLES clicks, failures

bounds == <<clicks, failures>>

Fails == failures < MaxFailures /\ failures' = failures + 1 /\ UNCHANGED clicks
Succeeds == UNCHANGED bounds
Clicks == clicks < MaxClicks /\ clicks' = clicks + 1 /\ UNCHANGED failures

(* prev.filter: what is wanted of a list, in the order of the list.        *)
Only(list, wanted) ==
    LET kept[n \in 0 .. Len(list)] ==
            IF n = 0 THEN <<>>
            ELSE IF list[n] \in wanted THEN Append(kept[n - 1], list[n]) ELSE kept[n - 1]
    IN  kept[Len(list)]
=============================================================================

---------------------------- MODULE SignalLedger ----------------------------
(***************************************************************************)
(* What the monitor promises about signal_logs, whatever the order of      *)
(* polls, requests, failures and restarts: the candles of a job are gone   *)
(* through in increasing order, each at most once, and going through one   *)
(* records at most one signal for it.                                      *)
(***************************************************************************)
EXTENDS Naturals

CONSTANTS Jobs, MaxCandle

VARIABLES
    watermark,   \* [Jobs -> 0 .. MaxCandle], last_run_at of each job
    ledger       \* the rows of signal_logs

LedgerRow == [id: Nat, job: Jobs, timestamp: 1 .. MaxCandle, telegram_sent: BOOLEAN]

LedgerInit ==
    /\ watermark = [j \in Jobs |-> 0]
    /\ ledger = {}

(* Candle c of job j is evaluated: past the watermark, with or without a   *)
(* new row in the ledger.                                                  *)
Advance(j, c) ==
    /\ c > watermark[j]
    /\ watermark' = [watermark EXCEPT ![j] = c]
    /\ \/ ledger' = ledger
       \/ \E row \in ledger' :
             /\ row \in LedgerRow
             /\ row.job = j
             /\ row.timestamp = c
             /\ \A other \in ledger : other.id # row.id
             /\ ledger' = ledger \cup {row}

LedgerNext == \E j \in Jobs, c \in 1 .. MaxCandle : Advance(j, c)

LedgerSpec == LedgerInit /\ [][LedgerNext]_<<watermark, ledger>>

(* No two rows are about the same candle of the same job.                  *)
OneRowPerCandle ==
    \A a, b \in ledger : a.job = b.job /\ a.timestamp = b.timestamp => a = b
=============================================================================

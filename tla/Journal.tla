------------------------------ MODULE Journal ------------------------------
(***************************************************************************)
(* The trade journal: the rows of trades, the requests that create, update *)
(* and delete them (api/routers/journal.py) and the tabs in which the user *)
(* closes, edits and deletes what a tab shows (app/journal/page.tsx and    *)
(* components/journal/TradeModal.tsx).                                     *)
(*                                                                         *)
(* A trade keeps what its profit is made of; type, symbol, dates, notes    *)
(* and the links to a strategy and a signal are columns of their own that  *)
(* no step here reads.  Prices are whole numbers.                          *)
(***************************************************************************)
EXTENDS Integers

CONSTANTS
    Trades,        \* rows, by the id a new row draws
    Tabs,          \* pages of the journal, each with one request at most under way
    None,
    EntryPrices,   \* the amounts users fill in
    ExitPrices,
    Quantities,
    Commissions,
    MaxRequests    \* bound: requests that create, update or delete

ASSUME JournalAssumption ==
    /\ None \notin Int
    /\ None \notin {"long", "short", "open", "closed", "cancelled"}
    /\ EntryPrices \subseteq Int
    /\ ExitPrices \subseteq Int
    /\ Quantities \subseteq Int
    /\ Commissions \subseteq Int
    /\ MaxRequests \in Nat

VARIABLES
    trades,     \* the table
    page,       \* what each tab shows of each trade
    requests,   \* each tab's request, with the row it read and the row it will write
    doubtful,   \* trades last written by overlapping updates, or with the profit a tab showed
    served

vars == <<trades, page, requests, doubtful, served>>

Directions == {"long", "short"}
Statuses == {"open", "closed", "cancelled"}
OrNone(values) == values \cup {None}

Row == [life: {"unborn", "live", "deleted"}, direction: Directions,
        entry_price_expected: OrNone(Int), entry_price_actual: OrNone(Int),
        exit_price_expected: OrNone(Int), exit_price_actual: OrNone(Int),
        quantity: OrNone(Int), commission: Int, pnl_net: OrNone(Int), status: Statuses]

(* The body of a request: None for what it does not carry.                 *)
Payload == [direction: OrNone(Directions),
            entry_price_expected: OrNone(Int), entry_price_actual: OrNone(Int),
            exit_price_expected: OrNone(Int), exit_price_actual: OrNone(Int),
            quantity: OrNone(Int), commission: OrNone(Int), pnl_net: OrNone(Int),
            status: OrNone(Statuses)]

Shown == [shown: BOOLEAN, status: Statuses, pnl_net: OrNone(Int)]

NewTrade == [life |-> "unborn", direction |-> "long",
             entry_price_expected |-> None, entry_price_actual |-> None,
             exit_price_expected |-> None, exit_price_actual |-> None,
             quantity |-> None, commission |-> 0, pnl_net |-> None, status |-> "open"]

ShownRow(row) == [shown |-> row.life = "live", status |-> row.status, pnl_net |-> row.pnl_net]

NoRequest == [op |-> "none"]
Request == [op: {"close", "edit", "delete"}, trade: Trades, old: Row, new: Row,
            carries: BOOLEAN, raced: BOOLEAN]

Live(t) == trades[t].life = "live"
Idle(b) == requests[b] = NoRequest
Rivals(t) == {b \in Tabs : ~Idle(b) /\ requests[b].trade = t /\ requests[b].op # "delete"}

Admit == /\ served < MaxRequests
         /\ served' = served + 1

-----------------------------------------------------------------------------
(* The profit of a trade, _compute_pnl.  A price of zero counts as none.   *)
Price(actual, expected) == IF actual \in {None, 0} THEN expected ELSE actual

ComputePnl(row) ==
    LET entry == Price(row.entry_price_actual, row.entry_price_expected)
        exit  == Price(row.exit_price_actual, row.exit_price_expected)
    IN  IF None \in {entry, exit, row.quantity} THEN None
        ELSE IF row.direction = "short"
             THEN (entry - exit) * row.quantity - row.commission
             ELSE (exit - entry) * row.quantity - row.commission

Given(new, old) == IF new = None THEN old ELSE new

Merge(row, p) ==
    [row EXCEPT !.direction            = Given(p.direction, @),
                !.entry_price_expected = Given(p.entry_price_expected, @),
                !.entry_price_actual   = Given(p.entry_price_actual, @),
                !.exit_price_expected  = Given(p.exit_price_expected, @),
                !.exit_price_actual    = Given(p.exit_price_actual, @),
                !.quantity             = Given(p.quantity, @),
                !.commission           = Given(p.commission, @),
                !.pnl_net              = Given(p.pnl_net, @),
                !.status               = Given(p.status, @)]

(* Mutant: a profit once set is kept.                                      *)
SettleOnce(row, p) ==
    IF row.status = "closed" /\ row.pnl_net = None
    THEN [row EXCEPT !.pnl_net = ComputePnl(row)] ELSE row

Settle(row, p) ==
    IF row.status = "closed" /\ p.pnl_net = None
    THEN [row EXCEPT !.pnl_net = Given(ComputePnl(row), @)] ELSE row

(* Mutant: a commit writes all columns.                                    *)
UpdateRowWhole(row, old, new) == new

(* A commit writes the columns that the request changed.                   *)
UpdateRow(row, old, new) ==
    [c \in DOMAIN row |-> IF new[c] # old[c] THEN new[c] ELSE row[c]]

-----------------------------------------------------------------------------
(* What a tab sends: the fields of the form, whatever the user leaves in   *)
(* them, with the profit the tab shows; or the button that closes.         *)
Forms(pnl) ==
    [direction: Directions,
     entry_price_expected: OrNone(EntryPrices), entry_price_actual: OrNone(EntryPrices),
     exit_price_expected: OrNone(ExitPrices), exit_price_actual: OrNone(ExitPrices),
     quantity: Quantities, commission: Commissions, pnl_net: {pnl}, status: Statuses]

CloseButton ==
    [direction |-> None,
     entry_price_expected |-> None, entry_price_actual |-> None,
     exit_price_expected |-> None, exit_price_actual |-> None,
     quantity |-> None, commission |-> None, pnl_net |-> None, status |-> "closed"]

LoadTrades(b) ==
    /\ page' = [page EXCEPT ![b] = [t \in Trades |-> ShownRow(trades[t])]]
    /\ UNCHANGED <<trades, requests, doubtful, served>>

CreateTrade(b, t, form) ==
    /\ Admit
    /\ Idle(b)
    /\ trades[t].life = "unborn"
    /\ LET row  == [Merge(NewTrade, form) EXCEPT !.life = "live"]
           kept == IF row.status = "closed"
                   THEN [row EXCEPT !.pnl_net = Given(ComputePnl(row), @)] ELSE row
       IN  /\ trades' = [trades EXCEPT ![t] = kept]
           /\ page' = [page EXCEPT ![b][t] = ShownRow(kept)]
    /\ UNCHANGED <<requests, doubtful>>

(* update_trade reads the row and works out what it will write.            *)
BeginUpdate(b, t, op, p) ==
    /\ Admit
    /\ Idle(b)
    /\ page[b][t].shown
    /\ Live(t)
    /\ requests' = [c \in Tabs |->
          IF c = b THEN [op |-> op, trade |-> t, old |-> trades[t],
                         new |-> Settle(Merge(trades[t], p), p),
                         carries |-> p.pnl_net # None, raced |-> Rivals(t) # {}]
          ELSE IF c \in Rivals(t) THEN [requests[c] EXCEPT !.raced = TRUE]
          ELSE requests[c]]
    /\ UNCHANGED <<trades, page, doubtful>>

BeginClose(b, t) ==
    /\ page[b][t].status = "open"
    /\ BeginUpdate(b, t, "close", CloseButton)

BeginEdit(b, t, form) == BeginUpdate(b, t, "edit", form)

FinishUpdate(b) ==
    /\ requests[b] # NoRequest
    /\ requests[b].op # "delete"
    /\ LET q == requests[b]
           t == q.trade
           row == UpdateRow(trades[t], q.old, q.new)
       IN  /\ Live(t)
           /\ trades' = [trades EXCEPT ![t] = row]
           /\ page' = [page EXCEPT ![b][t] = IF @.shown THEN ShownRow(row) ELSE @]
           /\ doubtful' = IF q.raced \/ q.carries THEN doubtful \cup {t} ELSE doubtful \ {t}
    /\ requests' = [requests EXCEPT ![b] = NoRequest]
    /\ UNCHANGED served

(* The row is gone: the UPDATE, or the refresh after it, raises.           *)
UpdateFails(b) ==
    /\ requests[b] # NoRequest
    /\ requests[b].op # "delete"
    /\ ~Live(requests[b].trade)
    /\ requests' = [requests EXCEPT ![b] = NoRequest]
    /\ UNCHANGED <<trades, page, doubtful, served>>

BeginDelete(b, t) ==
    /\ Admit
    /\ Idle(b)
    /\ page[b][t].shown
    /\ Live(t)
    /\ requests' = [requests EXCEPT ![b] =
          [op |-> "delete", trade |-> t, old |-> trades[t], new |-> trades[t],
           carries |-> FALSE, raced |-> FALSE]]
    /\ UNCHANGED <<trades, page, doubtful>>

(* A row that another request deleted first is only worth a warning.       *)
FinishDelete(b) ==
    /\ requests[b] # NoRequest
    /\ requests[b].op = "delete"
    /\ LET t == requests[b].trade
       IN  /\ trades' = [trades EXCEPT ![t].life = "deleted"]
           /\ page' = [page EXCEPT ![b][t].shown = FALSE]
    /\ requests' = [requests EXCEPT ![b] = NoRequest]
    /\ UNCHANGED <<doubtful, served>>

-----------------------------------------------------------------------------
Init ==
    /\ trades = [t \in Trades |-> NewTrade]
    /\ page = [b \in Tabs |-> [t \in Trades |-> ShownRow(NewTrade)]]
    /\ requests = [b \in Tabs |-> NoRequest]
    /\ doubtful = {}
    /\ served = 0

Next ==
    \E b \in Tabs :
        \/ LoadTrades(b)
        \/ FinishUpdate(b)
        \/ UpdateFails(b)
        \/ FinishDelete(b)
        \/ \E t \in Trades :
              \/ \E form \in Forms(None) : CreateTrade(b, t, form)
              \/ BeginClose(b, t)
              \/ \E form \in Forms(page[b][t].pnl_net) : BeginEdit(b, t, form)
              \/ BeginDelete(b, t)

Spec == Init /\ [][Next]_vars

-----------------------------------------------------------------------------
TypeOK ==
    /\ trades \in [Trades -> Row]
    /\ page \in [Tabs -> [Trades -> Shown]]
    /\ requests \in [Tabs -> Request \cup {NoRequest}]
    /\ doubtful \subseteq Trades
    /\ served \in Nat

(* Whatever the order in which tabs create, edit, reopen, close and delete *)
(* a trade, and however old what they show is, a closed trade whose prices *)
(* and quantity are known has the profit of exactly those, unless its last *)
(* update overlapped another or carried a profit of its own.               *)
(* update_trade (journal.py:184-234) and create_trade (146-181).           *)
ProfitIsThatOfPrices ==
    \A t \in Trades \ doubtful :
        (Live(t) /\ trades[t].status = "closed" /\ ComputePnl(trades[t]) # None)
            => trades[t].pnl_net = ComputePnl(trades[t])

SettlesOnly(old, new) == new = [old EXCEPT !.status = new.status, !.pnl_net = new.pnl_net]

(* The button that closes a trade changes its status and its profit, and   *)
(* takes back nothing that another tab saved since the trade was read.     *)
(* handleToggleStatus (page.tsx:152-159), commit of journal.py:228.        *)
ClosingKeepsEdits ==
    [][\A b \in Tabs :
          (~Idle(b) /\ requests[b].op = "close" /\ Idle(b)')
             => \A t \in Trades : SettlesOnly(trades[t], trades'[t])]_vars

-----------------------------------------------------------------------------
(* The invariant that ProfitIsThatOfPrices rests on.                       *)

(* An update that nothing overlapped will write over the row it read ...   *)
UnracedReadIsFresh ==
    \A b \in Tabs :
        (~Idle(b) /\ requests[b].op # "delete" /\ ~requests[b].raced)
            => /\ Live(requests[b].trade) => requests[b].old = trades[requests[b].trade]
               /\ Rivals(requests[b].trade) = {b}

(* ... and what it will write is settled.                                  *)
Settled(row) ==
    (row.status = "closed" /\ ComputePnl(row) # None) => row.pnl_net = ComputePnl(row)

UncarriedWriteIsSettled ==
    \A b \in Tabs :
        (~Idle(b) /\ requests[b].op # "delete" /\ ~requests[b].carries)
            => Settled(requests[b].new)

(* Requests are about trades that exist or existed, and cannot revive one. *)
RequestsNameTrades ==
    \A b \in Tabs : ~Idle(b) => /\ trades[requests[b].trade].life # "unborn"
                               /\ requests[b].new.life = requests[b].old.life

(* The button changes two columns of the row that was read.                *)
ClosesWriteLittle ==
    \A b \in Tabs :
        (~Idle(b) /\ requests[b].op = "close")
            => SettlesOnly(requests[b].old, requests[b].new)

IInv == RequestsNameTrades /\ UnracedReadIsFresh /\ UncarriedWriteIsSettled /\ ProfitIsThatOfPrices

-----------------------------------------------------------------------------
(* What the document says and the program does not do: every closed trade  *)
(* has the profit of its prices.  The form of a closed trade sends back    *)
(* the profit it shows (TradeModal.tsx:130), so correcting a price leaves  *)
(* the old profit; a trade is also closed without an exit price.           *)
(* docs/v3-modulo-7-trade-journal.md:141.                                  *)
ClosedTradeHasItsProfit ==
    \A t \in Trades :
        (Live(t) /\ trades[t].status = "closed" /\ ComputePnl(trades[t]) # None)
            => trades[t].pnl_net = ComputePnl(trades[t])
=============================================================================

---------------------------- MODULE JournalProofs ----------------------------
(***************************************************************************)
(* Theorems about Journal, for every set of trades, tabs and amounts.      *)
(***************************************************************************)
EXTENDS Journal, TLAPS

(* The profit is a number or unknown, and does not depend on the profit    *)
(* that the row holds.                                                     *)
LEMMA ComputePnlType ==
    ASSUME NEW row \in Row
    PROVE  ComputePnl(row) \in OrNone(Int)
<1> DEFINE entry == Price(row.entry_price_actual, row.entry_price_expected)
           exit  == Price(row.exit_price_actual, row.exit_price_expected)
<1>1. entry \in OrNone(Int) /\ exit \in OrNone(Int) /\ row.quantity \in OrNone(Int)
  BY DEF Price, Row, OrNone
<1>2. row.commission \in Int
  BY DEF Row
<1>3. ComputePnl(row) =
        IF None \in {entry, exit, row.quantity} THEN None
        ELSE IF row.direction = "short"
             THEN (entry - exit) * row.quantity - row.commission
             ELSE (exit - entry) * row.quantity - row.commission
  BY DEF ComputePnl
<1> HIDE DEF entry, exit
<1>4. CASE None \in {entry, exit, row.quantity}
  BY <1>3, <1>4 DEF OrNone
<1>5. CASE None \notin {entry, exit, row.quantity}
  <2>1. entry \in Int /\ exit \in Int /\ row.quantity \in Int
    BY <1>1, <1>5 DEF OrNone
  <2> QED
    BY <2>1, <1>2, <1>3, <1>5 DEF OrNone
<1> QED
  BY <1>4, <1>5

LEMMA SetPnlType ==
    ASSUME NEW row \in Row, NEW pnl \in OrNone(Int)
    PROVE  /\ [row EXCEPT !.pnl_net = pnl] \in Row
           /\ [row EXCEPT !.pnl_net = pnl].pnl_net = pnl
           /\ [row EXCEPT !.pnl_net = pnl].status = row.status
           /\ [row EXCEPT !.pnl_net = pnl].life = row.life
           /\ ComputePnl([row EXCEPT !.pnl_net = pnl]) = ComputePnl(row)
<1> DEFINE new == [row EXCEPT !.pnl_net = pnl]
<1>1. /\ new \in Row
      /\ new.pnl_net = pnl
      /\ new.status = row.status
      /\ new.life = row.life
  BY DEF Row
<1>2. /\ new.direction = row.direction
      /\ new.entry_price_expected = row.entry_price_expected
      /\ new.entry_price_actual = row.entry_price_actual
      /\ new.exit_price_expected = row.exit_price_expected
      /\ new.exit_price_actual = row.exit_price_actual
      /\ new.quantity = row.quantity
      /\ new.commission = row.commission
  BY DEF Row
<1> HIDE DEF new
<1>3. ComputePnl(new) = ComputePnl(row)
  BY <1>2 DEF ComputePnl
<1> QED
  BY <1>1, <1>3 DEF new

LEMMA MergeType ==
    ASSUME NEW row \in Row, NEW p \in Payload
    PROVE  Merge(row, p) \in Row /\ Merge(row, p).life = row.life
<1>1. /\ Given(p.direction, row.direction) \in Directions
      /\ Given(p.commission, row.commission) \in Int
      /\ Given(p.status, row.status) \in Statuses
  BY DEF Given, Row, Payload, OrNone
<1>2. /\ Given(p.entry_price_expected, row.entry_price_expected) \in OrNone(Int)
      /\ Given(p.entry_price_actual, row.entry_price_actual) \in OrNone(Int)
      /\ Given(p.exit_price_expected, row.exit_price_expected) \in OrNone(Int)
      /\ Given(p.exit_price_actual, row.exit_price_actual) \in OrNone(Int)
      /\ Given(p.quantity, row.quantity) \in OrNone(Int)
      /\ Given(p.pnl_net, row.pnl_net) \in OrNone(Int)
  BY DEF Given, Row, Payload, OrNone
<1> QED
  BY <1>1, <1>2 DEF Merge, Row

LEMMA GivenType ==
    ASSUME NEW new \in OrNone(Int), NEW old \in OrNone(Int)
    PROVE  Given(new, old) \in OrNone(Int)
BY DEF Given

(* What Settle returns is a row, with the profit of its prices unless the  *)
(* request carried one.                                                    *)
LEMMA SettleSettles ==
    ASSUME NEW row \in Row, NEW p \in Payload
    PROVE  /\ Settle(row, p) \in Row
           /\ Settle(row, p).life = row.life
           /\ p.pnl_net = None => Settled(Settle(row, p))
<1> DEFINE pnl == Given(ComputePnl(row), row.pnl_net)
<1>1. pnl \in OrNone(Int)
  BY ComputePnlType, GivenType DEF Row
<1>2. CASE row.status = "closed" /\ p.pnl_net = None
  <2>1. Settle(row, p) = [row EXCEPT !.pnl_net = pnl]
    BY <1>2 DEF Settle
  <2>2. Settled([row EXCEPT !.pnl_net = pnl])
    <3>1. ComputePnl(row) # None => pnl = ComputePnl(row)
      BY DEF Given
    <3> HIDE DEF pnl
    <3> QED
      BY <3>1, <1>1, SetPnlType DEF Settled
  <2> HIDE DEF pnl
  <2> QED
    BY <1>1, <2>1, <2>2, SetPnlType
<1>3. CASE ~(row.status = "closed" /\ p.pnl_net = None)
  BY <1>3 DEF Settle, Settled
<1> QED
  BY <1>2, <1>3

LEMMA UpdateRowType ==
    ASSUME NEW row \in Row, NEW old \in Row, NEW new \in Row
    PROVE  UpdateRow(row, old, new) \in Row
BY DEF UpdateRow, Row

(* A commit over the row that was read writes what was worked out.         *)
LEMMA UpdateFreshRow ==
    ASSUME NEW row \in Row, NEW new \in Row
    PROVE  UpdateRow(row, row, new) = new
BY DEF UpdateRow, Row

LEMMA ShownType ==
    ASSUME NEW row \in Row
    PROVE  ShownRow(row) \in Shown
BY DEF ShownRow, Row, Shown

LEMMA NewTradeType == NewTrade \in Row
BY JournalAssumption DEF NewTrade, Row, OrNone, Directions, Statuses

LEMMA FormsArePayloads ==
    ASSUME NEW pnl \in OrNone(Int), NEW form \in Forms(pnl)
    PROVE  form \in Payload /\ form.pnl_net = pnl
BY JournalAssumption DEF Forms, Payload, OrNone

LEMMA CloseButtonType == CloseButton \in Payload /\ CloseButton.pnl_net = None
BY DEF CloseButton, Payload, OrNone, Statuses

-----------------------------------------------------------------------------
(* Type correctness.                                                       *)
LEMMA BeginUpdateTypes ==
    ASSUME TypeOK, NEW b \in Tabs, NEW t \in Trades, NEW op \in {"close", "edit"},
           NEW p \in Payload, BeginUpdate(b, t, op, p)
    PROVE  TypeOK'
<1>1. trades[t] \in Row /\ Settle(Merge(trades[t], p), p) \in Row
  BY MergeType, SettleSettles DEF TypeOK
<1> DEFINE mine == [op |-> op, trade |-> t, old |-> trades[t],
                    new |-> Settle(Merge(trades[t], p), p),
                    carries |-> p.pnl_net # None, raced |-> Rivals(t) # {}]
<1>2. mine \in Request
  BY <1>1 DEF Request
<1>3. ASSUME NEW c \in Tabs PROVE requests'[c] \in Request \cup {NoRequest}
  <2>1. CASE c = b
    BY <2>1, <1>2 DEF BeginUpdate, TypeOK
  <2>2. CASE c # b /\ c \in Rivals(t)
    <3>1. requests[c] \in Request
      BY <2>2 DEF TypeOK, Rivals, Idle
    <3>2. requests'[c] = [requests[c] EXCEPT !.raced = TRUE]
      BY <2>2 DEF BeginUpdate
    <3> QED
      BY <3>1, <3>2 DEF Request
  <2>3. CASE c # b /\ c \notin Rivals(t)
    BY <2>3 DEF BeginUpdate, TypeOK
  <2> QED
    BY <2>1, <2>2, <2>3
<1>4. requests' \in [Tabs -> Request \cup {NoRequest}]
  BY <1>3 DEF BeginUpdate
<1> QED
  BY <1>4 DEF BeginUpdate, TypeOK, Admit

(* Every update of a tab is a BeginUpdate with a proper payload.           *)
LEMMA TabUpdates ==
    ASSUME TypeOK, NEW b \in Tabs, NEW t \in Trades,
           BeginClose(b, t) \/ \E form \in Forms(page[b][t].pnl_net) : BeginEdit(b, t, form)
    PROVE  \E op \in {"close", "edit"}, p \in Payload : BeginUpdate(b, t, op, p)
<1>1. CASE BeginClose(b, t)
  BY <1>1, CloseButtonType DEF BeginClose
<1>2. CASE \E form \in Forms(page[b][t].pnl_net) : BeginEdit(b, t, form)
  <2>1. page[b][t].pnl_net \in OrNone(Int)
    BY DEF TypeOK, Shown
  <2>2. PICK form \in Forms(page[b][t].pnl_net) : BeginEdit(b, t, form)
    BY <1>2
  <2>3. form \in Payload
    BY <2>1, <2>2, FormsArePayloads
  <2> QED
    BY <2>2, <2>3 DEF BeginEdit
<1> QED
  BY <1>1, <1>2

(* What a new trade holds when it is stored.                               *)
LEMMA CreatedRow ==
    ASSUME NEW form \in Forms(None), NEW row,
           row = [Merge(NewTrade, form) EXCEPT !.life = "live"]
    PROVE  \E kept \in Row :
              /\ kept = IF row.status = "closed"
                        THEN [row EXCEPT !.pnl_net = Given(ComputePnl(row), @)] ELSE row
              /\ kept.life = "live"
              /\ Settled(kept)
<1>1. form \in Payload /\ form.pnl_net = None
  BY FormsArePayloads DEF OrNone
<1>2. row \in Row /\ row.life = "live"
  <2>1. Merge(NewTrade, form) \in Row
    BY <1>1, MergeType, NewTradeType
  <2> QED
    BY <2>1 DEF Row
<1>3. Settle(row, form) = IF row.status = "closed"
                          THEN [row EXCEPT !.pnl_net = Given(ComputePnl(row), @)] ELSE row
  BY <1>1 DEF Settle
<1>4. Settle(row, form) \in Row /\ Settle(row, form).life = "live" /\ Settled(Settle(row, form))
  BY <1>1, <1>2, SettleSettles
<1> QED
  BY <1>3, <1>4

LEMMA CreateTypes ==
    ASSUME TypeOK, NEW b \in Tabs, NEW t \in Trades, NEW form \in Forms(None),
           CreateTrade(b, t, form)
    PROVE  /\ TypeOK'
           /\ trades' = [trades EXCEPT ![t] = trades'[t]]
           /\ trades'[t].life = "live"
           /\ Settled(trades'[t])
<1> DEFINE row == [Merge(NewTrade, form) EXCEPT !.life = "live"]
<1>1. PICK kept \in Row :
         /\ kept = IF row.status = "closed"
                   THEN [row EXCEPT !.pnl_net = Given(ComputePnl(row), @)] ELSE row
         /\ kept.life = "live"
         /\ Settled(kept)
  BY CreatedRow
<1>2. trades' = [trades EXCEPT ![t] = kept] /\ page' = [page EXCEPT ![b][t] = ShownRow(kept)]
  BY <1>1 DEF CreateTrade
<1>3. trades'[t] = kept
  BY <1>2 DEF TypeOK
<1>4. ShownRow(kept) \in Shown
  BY ShownType
<1>5. page' \in [Tabs -> [Trades -> Shown]]
  BY <1>2, <1>4 DEF TypeOK
<1>6. trades' \in [Trades -> Row]
  BY <1>2 DEF TypeOK
<1>7. TypeOK'
  BY <1>5, <1>6 DEF TypeOK, CreateTrade, Admit
<1> QED
  BY <1>1, <1>2, <1>3, <1>7

LEMMA FinishUpdateTypes ==
    ASSUME TypeOK, NEW b \in Tabs, FinishUpdate(b)
    PROVE  TypeOK'
<1> DEFINE q == requests[b]
           row == UpdateRow(trades[q.trade], q.old, q.new)
<1>1. q \in Request
  BY DEF FinishUpdate, TypeOK
<1>2. q.trade \in Trades /\ row \in Row
  <2>1. q.trade \in Trades /\ q.old \in Row /\ q.new \in Row
    BY <1>1 DEF Request
  <2> QED
    BY <2>1, UpdateRowType DEF TypeOK
<1>3. /\ trades' = [trades EXCEPT ![q.trade] = row]
      /\ page' = [page EXCEPT ![b][q.trade] = IF @.shown THEN ShownRow(row) ELSE @]
      /\ doubtful' \in {doubtful \cup {q.trade}, doubtful \ {q.trade}}
      /\ requests' = [requests EXCEPT ![b] = NoRequest]
      /\ served' = served
  BY DEF FinishUpdate
<1>4. ShownRow(row) \in Shown
  BY <1>2, ShownType
<1> HIDE DEF q, row
<1>5. page' \in [Tabs -> [Trades -> Shown]]
  BY <1>2, <1>3, <1>4 DEF TypeOK
<1> QED
  BY <1>2, <1>3, <1>5 DEF TypeOK

LEMMA TypeStep == TypeOK /\ [Next]_vars => TypeOK'
<1> SUFFICES ASSUME TypeOK, [Next]_vars PROVE TypeOK'
  OBVIOUS
<1>1. ASSUME NEW b \in Tabs, LoadTrades(b) PROVE TypeOK'
  <2>1. [t \in Trades |-> ShownRow(trades[t])] \in [Trades -> Shown]
    BY ShownType DEF TypeOK
  <2> QED
    BY <1>1, <2>1 DEF LoadTrades, TypeOK
<1>2. ASSUME NEW b \in Tabs, FinishUpdate(b) PROVE TypeOK'
  BY <1>2, FinishUpdateTypes
<1>3. ASSUME NEW b \in Tabs, UpdateFails(b) PROVE TypeOK'
  BY <1>3 DEF UpdateFails, TypeOK
<1>4. ASSUME NEW b \in Tabs, FinishDelete(b) PROVE TypeOK'
  <2> DEFINE t == requests[b].trade
  <2>1. t \in Trades
    BY <1>4 DEF FinishDelete, TypeOK, Request
  <2>2. [trades[t] EXCEPT !.life = "deleted"] \in Row
    BY <2>1 DEF TypeOK, Row
  <2>3. [page[b][t] EXCEPT !.shown = FALSE] \in Shown
    <3>1. page[b][t] \in Shown
      BY <2>1, <1>4 DEF TypeOK
    <3> QED
      BY <3>1 DEF Shown
  <2>4. /\ trades' = [trades EXCEPT ![t] = [trades[t] EXCEPT !.life = "deleted"]]
        /\ page' = [page EXCEPT ![b][t] = [page[b][t] EXCEPT !.shown = FALSE]]
        /\ requests' = [requests EXCEPT ![b] = NoRequest]
        /\ doubtful' = doubtful /\ served' = served
    BY <1>4, <2>1 DEF FinishDelete, TypeOK
  <2> HIDE DEF t
  <2>5. page' \in [Tabs -> [Trades -> Shown]]
    BY <1>4, <2>1, <2>3, <2>4 DEF TypeOK
  <2> QED
    BY <2>1, <2>2, <2>4, <2>5 DEF TypeOK
<1>5. ASSUME NEW b \in Tabs, NEW t \in Trades, NEW form \in Forms(None), CreateTrade(b, t, form)
      PROVE  TypeOK'
  BY <1>5, CreateTypes
<1>6. ASSUME NEW b \in Tabs, NEW t \in Trades,
             BeginClose(b, t) \/ \E form \in Forms(page[b][t].pnl_net) : BeginEdit(b, t, form)
      PROVE  TypeOK'
  BY <1>6, TabUpdates, BeginUpdateTypes
<1>7. ASSUME NEW b \in Tabs, NEW t \in Trades, BeginDelete(b, t) PROVE TypeOK'
  BY <1>7 DEF BeginDelete, Admit, TypeOK, Request
<1>8. CASE UNCHANGED vars
  BY <1>8 DEF vars, TypeOK
<1> QED
  BY <1>1, <1>2, <1>3, <1>4, <1>5, <1>6, <1>7, <1>8 DEF Next

(* Rows, pages and requests keep their types (journal.py:21-56).           *)
THEOREM TypeCorrect == Spec => []TypeOK
<1>1. Init => TypeOK
  BY NewTradeType, ShownType DEF Init, TypeOK
<1> QED
  BY <1>1, TypeStep, PTL DEF Spec

-----------------------------------------------------------------------------
(* The profit of a closed trade.                                           *)

(* The updates under way for a trade, one by one.                          *)
Updates(b, t) == requests[b] # NoRequest /\ requests[b].trade = t /\ requests[b].op # "delete"

LEMMA RivalsAre == \A t : \A b : b \in Rivals(t) <=> b \in Tabs /\ Updates(b, t)
BY DEF Rivals, Idle, Updates

(* A request that ends leaves the requests of the other tabs as they were. *)
LEMMA EndedRequest ==
    ASSUME TypeOK, NEW b \in Tabs, requests' = [requests EXCEPT ![b] = NoRequest]
    PROVE  /\ Idle(b)'
           /\ \A c \in Tabs \ {b} : requests'[c] = requests[c] /\ (Idle(c)' <=> Idle(c))
           /\ \A t : Rivals(t)' = Rivals(t) \ {b}
<1>1. requests'[b] = NoRequest /\ \A c \in Tabs \ {b} : requests'[c] = requests[c]
  BY DEF TypeOK
<1> QED
  BY <1>1 DEF Idle, Rivals

LEMMA KeptInvariant ==
    ASSUME IInv, UNCHANGED <<trades, requests, doubtful>>
    PROVE  IInv'
BY DEF IInv, RequestsNameTrades, UnracedReadIsFresh, UncarriedWriteIsSettled,
       ProfitIsThatOfPrices, Live, Idle, Rivals

LEMMA CreateKeeps ==
    ASSUME TypeOK, IInv, NEW b \in Tabs, NEW t \in Trades, NEW form \in Forms(None),
           CreateTrade(b, t, form)
    PROVE  IInv'
<1>1. /\ trades' = [trades EXCEPT ![t] = trades'[t]]
      /\ trades'[t].life = "live"
      /\ Settled(trades'[t])
  BY CreateTypes
<1>2. trades[t].life = "unborn" /\ UNCHANGED <<requests, doubtful>>
  BY DEF CreateTrade
<1>3. \A u \in Trades \ {t} : trades'[u] = trades[u]
  BY <1>1 DEF TypeOK
<1>4. \A c \in Tabs : ~Idle(c) => requests[c].trade \in Trades \ {t}
  BY <1>2 DEF IInv, RequestsNameTrades, TypeOK, Idle, Request
<1>5. RequestsNameTrades'
  BY <1>2, <1>3, <1>4 DEF IInv, RequestsNameTrades, Idle
<1>6. UnracedReadIsFresh'
  BY <1>2, <1>3, <1>4 DEF IInv, UnracedReadIsFresh, Idle, Live, Rivals
<1>7. UncarriedWriteIsSettled'
  BY <1>2 DEF IInv, UncarriedWriteIsSettled, Idle
<1>8. ProfitIsThatOfPrices'
  BY <1>1, <1>2, <1>3 DEF IInv, ProfitIsThatOfPrices, Live, Settled
<1> QED
  BY <1>5, <1>6, <1>7, <1>8 DEF IInv

LEMMA BeginUpdateKeeps ==
    ASSUME TypeOK, IInv, NEW b \in Tabs, NEW t \in Trades, NEW op \in {"close", "edit"},
           NEW p \in Payload, BeginUpdate(b, t, op, p)
    PROVE  IInv'
<1> DEFINE new == Settle(Merge(trades[t], p), p)
<1>1. /\ Idle(b)
      /\ Live(t)
      /\ UNCHANGED <<trades, doubtful>>
      /\ requests'[b] = [op |-> op, trade |-> t, old |-> trades[t], new |-> new,
                         carries |-> p.pnl_net # None, raced |-> Rivals(t) # {}]
  BY DEF BeginUpdate
<1>2. \A c \in Rivals(t) :
         /\ requests'[c].raced = TRUE
         /\ requests'[c].op = requests[c].op
         /\ requests'[c].trade = requests[c].trade
         /\ requests'[c].new = requests[c].new
         /\ requests'[c].old = requests[c].old
         /\ requests'[c].carries = requests[c].carries
         /\ requests'[c] # NoRequest
  <2> SUFFICES ASSUME NEW c \in Rivals(t)
               PROVE  /\ requests'[c].raced = TRUE
                      /\ requests'[c].op = requests[c].op
                      /\ requests'[c].trade = requests[c].trade
                      /\ requests'[c].new = requests[c].new
                      /\ requests'[c].old = requests[c].old
                      /\ requests'[c].carries = requests[c].carries
                      /\ requests'[c] # NoRequest
    OBVIOUS
  <2>1. c \in Tabs /\ c # b /\ requests[c] \in Request
    BY <1>1 DEF Rivals, Idle, TypeOK
  <2>2. requests'[c] = [requests[c] EXCEPT !.raced = TRUE]
    BY <2>1 DEF BeginUpdate
  <2> QED
    BY <2>1, <2>2 DEF Request, NoRequest
<1>3. \A c \in Tabs \ ({b} \cup Rivals(t)) : requests'[c] = requests[c]
  BY DEF BeginUpdate
<1>4. requests'[b] # NoRequest /\ requests'[b].op # "delete"
  BY <1>1 DEF NoRequest
<1> DEFINE carries == p.pnl_net # None
           raced == Rivals(t) # {}
<1>4a. requests'[b] = [op |-> op, trade |-> t, old |-> trades[t], new |-> new,
                      carries |-> carries, raced |-> raced]
  BY <1>1
<1> HIDE DEF carries, raced
<1>4b. requests'[b].carries = carries /\ requests'[b].raced = raced
  BY <1>4a
<1>5. (~requests'[b].carries => Settled(new)) /\ new.life = trades[t].life
  <2>1. ~requests'[b].carries => p.pnl_net = None
    BY <1>4b DEF carries
  <2>2. Merge(trades[t], p) \in Row /\ Merge(trades[t], p).life = trades[t].life
    BY MergeType DEF TypeOK
  <2> QED
    BY <2>1, <2>2, SettleSettles
<1> HIDE DEF new
<1>6. \A c \in Tabs : \A u : Updates(c, u)' <=> Updates(c, u) \/ (c = b /\ u = t)
  BY <1>1, <1>2, <1>3, <1>4, RivalsAre DEF Updates, Idle
<1>7. \A u : Rivals(u)' = IF u = t THEN Rivals(u) \cup {b} ELSE Rivals(u)
  BY <1>6, RivalsAre DEF Rivals, Idle, Updates
<1>8. RequestsNameTrades'
  <2> SUFFICES ASSUME NEW c \in Tabs, ~Idle(c)'
               PROVE  /\ trades'[requests'[c].trade].life # "unborn"
                      /\ requests'[c].new.life = requests'[c].old.life
    BY DEF RequestsNameTrades
  <2>1. CASE c = b
    BY <2>1, <1>1, <1>5 DEF Live
  <2>2. CASE c \in Rivals(t)
    BY <2>2, <1>1, <1>2 DEF IInv, RequestsNameTrades, Rivals
  <2>3. CASE c \notin {b} \cup Rivals(t)
    BY <2>3, <1>1, <1>3 DEF IInv, RequestsNameTrades, Idle
  <2> QED
    BY <2>1, <2>2, <2>3
<1>9. UnracedReadIsFresh'
  <2> SUFFICES ASSUME NEW c \in Tabs, NEW u, ~Idle(c)', requests'[c].op # "delete",
                      ~requests'[c].raced, requests'[c].trade = u
               PROVE  /\ Live(u)' => requests'[c].old = trades'[u]
                      /\ Rivals(u)' = {c}
    BY DEF UnracedReadIsFresh, Live, Rivals, Idle
  <2>1. CASE c = b
    <3>2. Rivals(t) = {}
      BY <2>1, <1>4b DEF raced
    <3>3. u = t /\ requests'[b].old = trades[t]
      BY <2>1, <1>1
    <3> QED
      BY <2>1, <3>2, <3>3, <1>1, <1>7
  <2>2. CASE c # b
    <3>1. c \notin Rivals(t) /\ requests'[c] = requests[c]
      BY <2>2, <1>2, <1>3
    <3>2. requests[c].trade # t /\ ~Idle(c)
      BY <3>1, RivalsAre DEF Updates, Idle
    <3> QED
      BY <3>1, <3>2, <1>1, <1>7 DEF IInv, UnracedReadIsFresh, Live
  <2> QED
    BY <2>1, <2>2
<1>10. UncarriedWriteIsSettled'
  <2> SUFFICES ASSUME NEW c \in Tabs, ~Idle(c)', requests'[c].op # "delete",
                      ~requests'[c].carries
               PROVE  Settled(requests'[c].new)
    BY DEF UncarriedWriteIsSettled, Settled, ComputePnl, Price
  <2>1. CASE c = b
    BY <2>1, <1>1, <1>5
  <2>2. CASE c \in Rivals(t)
    BY <2>2, <1>2, RivalsAre DEF IInv, UncarriedWriteIsSettled, Idle, Updates
  <2>3. CASE c \notin {b} \cup Rivals(t)
    BY <2>3, <1>3 DEF IInv, UncarriedWriteIsSettled, Idle
  <2> QED
    BY <2>1, <2>2, <2>3
<1>11. ProfitIsThatOfPrices'
  BY <1>1 DEF IInv, ProfitIsThatOfPrices, Live
<1> QED
  BY <1>8, <1>9, <1>10, <1>11 DEF IInv

LEMMA FinishUpdateKeeps ==
    ASSUME TypeOK, IInv, NEW b \in Tabs, FinishUpdate(b)
    PROVE  IInv'
<1> DEFINE q == requests[b]
           t == q.trade
           row == UpdateRow(trades[t], q.old, q.new)
<1>1. q \in Request /\ ~Idle(b) /\ q.op # "delete" /\ Live(t)
  BY DEF FinishUpdate, TypeOK, Idle
<1>2. t \in Trades /\ q.old \in Row /\ q.new \in Row /\ trades[t] \in Row
  BY <1>1 DEF Request, TypeOK
<1>3. /\ trades'[t] = row
      /\ \A u \in Trades \ {t} : trades'[u] = trades[u]
  BY <1>2 DEF FinishUpdate, TypeOK
<1>4. doubtful' = IF q.raced \/ q.carries THEN doubtful \cup {t} ELSE doubtful \ {t}
  BY DEF FinishUpdate
<1>5. /\ Idle(b)'
      /\ \A c \in Tabs \ {b} : requests'[c] = requests[c] /\ (Idle(c)' <=> Idle(c))
      /\ \A u : Rivals(u)' = Rivals(u) \ {b}
  BY EndedRequest DEF FinishUpdate
<1>6. trades'[t].life = "live"
  <2>1. row.life = IF q.new.life # q.old.life THEN q.new.life ELSE trades[t].life
    BY <1>2 DEF UpdateRow, Row
  <2>2. q.new.life = q.old.life
    BY <1>1 DEF IInv, RequestsNameTrades
  <2> QED
    BY <1>1, <1>3, <2>1, <2>2 DEF Live
<1>7. ~q.raced => row = q.new
  <2>1. ~q.raced => q.old = trades[t]
    BY <1>1 DEF IInv, UnracedReadIsFresh
  <2> QED
    BY <2>1, <1>2, UpdateFreshRow
<1>8. t \in Trades \ doubtful' => Settled(trades'[t])
  <2>1. ~q.carries => Settled(q.new)
    BY <1>1 DEF IInv, UncarriedWriteIsSettled
  <2> QED
    BY <2>1, <1>3, <1>4, <1>7
<1>9. b \in Rivals(t)
  BY <1>1 DEF Rivals
<1> HIDE DEF q, t, row
<1>10. RequestsNameTrades'
  BY <1>3, <1>5, <1>6, <1>2 DEF IInv, RequestsNameTrades, TypeOK, Request, Idle
<1>11. UnracedReadIsFresh'
  <2> SUFFICES ASSUME NEW c \in Tabs, NEW u, ~Idle(c)', requests'[c].op # "delete",
                      ~requests'[c].raced, requests'[c].trade = u
               PROVE  /\ Live(u)' => requests'[c].old = trades'[u]
                      /\ Rivals(u)' = {c}
    BY DEF UnracedReadIsFresh, Live, Rivals, Idle
  <2>1. c # b /\ requests'[c] = requests[c] /\ ~Idle(c)
    BY <1>5
  <2>2. /\ Live(requests[c].trade) => requests[c].old = trades[requests[c].trade]
        /\ Rivals(requests[c].trade) = {c}
    BY <2>1 DEF IInv, UnracedReadIsFresh
  <2>3. requests[c].trade # t
    BY <2>1, <2>2, <1>9
  <2>4. requests[c].trade \in Trades
    BY <2>1 DEF TypeOK, Idle, Request
  <2> QED
    BY <2>1, <2>2, <2>3, <2>4, <1>3, <1>5 DEF Live
<1>12. UncarriedWriteIsSettled'
  BY <1>5 DEF IInv, UncarriedWriteIsSettled
<1>13. ProfitIsThatOfPrices'
  <2> SUFFICES ASSUME NEW u \in Trades \ doubtful', trades'[u].life = "live",
                      trades'[u].status = "closed", ComputePnl(trades'[u]) # None
               PROVE  trades'[u].pnl_net = ComputePnl(trades'[u])
    BY DEF ProfitIsThatOfPrices, Live
  <2>1. CASE u = t
    BY <2>1, <1>8 DEF Settled
  <2>2. CASE u # t
    BY <2>2, <1>3, <1>4 DEF IInv, ProfitIsThatOfPrices, Live
  <2> QED
    BY <2>1, <2>2
<1> QED
  BY <1>10, <1>11, <1>12, <1>13 DEF IInv

(* A request that ends without a profit to write: it failed, or it deleted *)
(* its trade.                                                              *)
LEMMA EndKeeps ==
    ASSUME TypeOK, IInv, NEW b \in Tabs, ~Idle(b),
           requests' = [requests EXCEPT ![b] = NoRequest], UNCHANGED doubtful,
           \/ UNCHANGED trades /\ ~Live(requests[b].trade)
           \/ trades' = [trades EXCEPT ![requests[b].trade].life = "deleted"]
    PROVE  IInv'
<1> DEFINE t == requests[b].trade
<1>1. t \in Trades
  BY DEF TypeOK, Idle, Request
<1>2. /\ trades'[t].life # "live" /\ trades'[t].life # "unborn"
      /\ \A u \in Trades \ {t} : trades'[u] = trades[u]
  BY <1>1 DEF TypeOK, Row, IInv, RequestsNameTrades, Live
<1>3. /\ Idle(b)'
      /\ \A c \in Tabs \ {b} : requests'[c] = requests[c] /\ (Idle(c)' <=> Idle(c))
      /\ \A u : Rivals(u)' = Rivals(u) \ {b}
  BY EndedRequest
<1> HIDE DEF t
<1>4. RequestsNameTrades'
  BY <1>1, <1>2, <1>3 DEF IInv, RequestsNameTrades, TypeOK, Request, Idle
<1>5. UnracedReadIsFresh'
  <2> SUFFICES ASSUME NEW c \in Tabs, NEW u, ~Idle(c)', requests'[c].op # "delete",
                      ~requests'[c].raced, requests'[c].trade = u
               PROVE  /\ Live(u)' => requests'[c].old = trades'[u]
                      /\ Rivals(u)' = {c}
    BY DEF UnracedReadIsFresh, Live, Rivals, Idle
  <2>1. c # b /\ requests'[c] = requests[c] /\ ~Idle(c)
    BY <1>3
  <2>2. /\ Live(requests[c].trade) => requests[c].old = trades[requests[c].trade]
        /\ Rivals(requests[c].trade) = {c}
    BY <2>1 DEF IInv, UnracedReadIsFresh
  <2>3. requests[c].trade \in Trades
    BY <2>1 DEF TypeOK, Idle, Request
  <2> QED
    BY <2>1, <2>2, <2>3, <1>2, <1>3 DEF Live
<1>6. UncarriedWriteIsSettled'
  BY <1>3 DEF IInv, UncarriedWriteIsSettled
<1>7. ProfitIsThatOfPrices'
  BY <1>1, <1>2 DEF IInv, ProfitIsThatOfPrices, Live
<1> QED
  BY <1>4, <1>5, <1>6, <1>7 DEF IInv

LEMMA BeginDeleteKeeps ==
    ASSUME TypeOK, IInv, NEW b \in Tabs, NEW t \in Trades, BeginDelete(b, t)
    PROVE  IInv'
<1>1. /\ Idle(b) /\ Live(t) /\ UNCHANGED <<trades, doubtful>>
      /\ requests'[b].op = "delete" /\ requests'[b].trade = t
      /\ requests'[b].new.life = requests'[b].old.life
      /\ \A c \in Tabs \ {b} : requests'[c] = requests[c]
  BY DEF BeginDelete, TypeOK
<1>2. \A u : Rivals(u)' = Rivals(u)
  BY <1>1 DEF Rivals, Idle, NoRequest
<1>3. RequestsNameTrades'
  BY <1>1 DEF IInv, RequestsNameTrades, Idle, Live
<1>4. UnracedReadIsFresh'
  BY <1>1, <1>2 DEF IInv, UnracedReadIsFresh, Idle, Live
<1>5. UncarriedWriteIsSettled'
  BY <1>1 DEF IInv, UncarriedWriteIsSettled, Idle
<1>6. ProfitIsThatOfPrices'
  BY <1>1 DEF IInv, ProfitIsThatOfPrices, Live
<1> QED
  BY <1>3, <1>4, <1>5, <1>6 DEF IInv

LEMMA InvariantStep == TypeOK /\ IInv /\ [Next]_vars => IInv'
<1> SUFFICES ASSUME TypeOK, IInv, [Next]_vars PROVE IInv'
  OBVIOUS
<1>1. ASSUME NEW b \in Tabs, LoadTrades(b) PROVE IInv'
  BY <1>1, KeptInvariant DEF LoadTrades
<1>2. ASSUME NEW b \in Tabs, FinishUpdate(b) PROVE IInv'
  BY <1>2, FinishUpdateKeeps
<1>3. ASSUME NEW b \in Tabs, UpdateFails(b) PROVE IInv'
  BY <1>3, EndKeeps DEF UpdateFails, Idle
<1>4. ASSUME NEW b \in Tabs, FinishDelete(b) PROVE IInv'
  BY <1>4, EndKeeps DEF FinishDelete, Idle
<1>5. ASSUME NEW b \in Tabs, NEW t \in Trades, NEW form \in Forms(None), CreateTrade(b, t, form)
      PROVE  IInv'
  BY <1>5, CreateKeeps
<1>6. ASSUME NEW b \in Tabs, NEW t \in Trades,
             BeginClose(b, t) \/ \E form \in Forms(page[b][t].pnl_net) : BeginEdit(b, t, form)
      PROVE  IInv'
  BY <1>6, TabUpdates, BeginUpdateKeeps
<1>7. ASSUME NEW b \in Tabs, NEW t \in Trades, BeginDelete(b, t) PROVE IInv'
  BY <1>7, BeginDeleteKeeps
<1>8. CASE UNCHANGED vars
  BY <1>8, KeptInvariant DEF vars
<1> QED
  BY <1>1, <1>2, <1>3, <1>4, <1>5, <1>6, <1>7, <1>8 DEF Next

(* The invariant: updates that nothing overlaps write over what they read, *)
(* and what they write is settled (journal.py:184-234).                    *)
THEOREM JournalInvariant == Spec => [](TypeOK /\ IInv)
<1>1. Init => TypeOK /\ IInv
  BY NewTradeType, ShownType DEF Init, TypeOK, IInv, RequestsNameTrades, UnracedReadIsFresh,
        UncarriedWriteIsSettled, ProfitIsThatOfPrices, Idle, Live, NewTrade
<1> QED
  BY <1>1, TypeStep, InvariantStep, PTL DEF Spec

(* A closed trade has the profit of its prices unless its last update      *)
(* overlapped another or carried a profit (journal.py:99-106, 224-227).    *)
THEOREM ClosedProfitIsRight == Spec => []ProfitIsThatOfPrices
BY JournalInvariant, PTL DEF IInv

-----------------------------------------------------------------------------
(* Closing a trade takes nothing back.                                     *)
LEMMA CloseWrites ==
    ASSUME NEW row \in Row
    PROVE  \E pnl, status : Settle(Merge(row, CloseButton), CloseButton)
                              = [row EXCEPT !.status = status, !.pnl_net = pnl]
<1>1. Merge(row, CloseButton) = [row EXCEPT !.status = "closed"]
  BY JournalAssumption DEF Merge, Given, CloseButton, Row
<1> DEFINE merged == Merge(row, CloseButton)
           pnl == Given(ComputePnl(merged), merged.pnl_net)
<1>2. Settle(merged, CloseButton) = [merged EXCEPT !.pnl_net = pnl]
  BY <1>1 DEF Settle, Row, CloseButton
<1> HIDE DEF pnl
<1>3. Settle(merged, CloseButton) = [row EXCEPT !.status = "closed", !.pnl_net = pnl]
  BY <1>1, <1>2
<1> QED
  BY <1>3

LEMMA CommitOfClose ==
    ASSUME NEW row \in Row, NEW old \in Row, NEW new \in Row, SettlesOnly(old, new)
    PROVE  SettlesOnly(row, UpdateRow(row, old, new))
<1> DEFINE r == UpdateRow(row, old, new)
<1>1. r \in Row
  BY UpdateRowType
<1>2. /\ new.life = old.life /\ new.direction = old.direction
      /\ new.entry_price_expected = old.entry_price_expected
      /\ new.entry_price_actual = old.entry_price_actual
      /\ new.exit_price_expected = old.exit_price_expected
      /\ new.exit_price_actual = old.exit_price_actual
      /\ new.quantity = old.quantity /\ new.commission = old.commission
  BY DEF Row, SettlesOnly
<1>3. /\ r.life = row.life /\ r.direction = row.direction
      /\ r.entry_price_expected = row.entry_price_expected
      /\ r.entry_price_actual = row.entry_price_actual
      /\ r.exit_price_expected = row.exit_price_expected
      /\ r.exit_price_actual = row.exit_price_actual
      /\ r.quantity = row.quantity /\ r.commission = row.commission
  BY <1>2 DEF UpdateRow, Row
<1> HIDE DEF r
<1>4. SettlesOnly(row, r)
  BY <1>1, <1>3 DEF Row, SettlesOnly
<1> QED
  BY <1>4 DEF r

LEMMA CloseInFlight == TypeOK /\ ClosesWriteLittle /\ [Next]_vars => ClosesWriteLittle'
<1> SUFFICES ASSUME TypeOK, ClosesWriteLittle, [Next]_vars PROVE ClosesWriteLittle'
  OBVIOUS
<1>1. CASE UNCHANGED requests
  BY <1>1 DEF ClosesWriteLittle, Idle
<1>2. ASSUME NEW b \in Tabs, requests' = [requests EXCEPT ![b] = NoRequest]
      PROVE  ClosesWriteLittle'
  BY <1>2, EndedRequest DEF ClosesWriteLittle
<1>3. ASSUME NEW b \in Tabs, NEW t \in Trades, NEW op \in {"close", "edit"}, NEW p \in Payload,
             BeginUpdate(b, t, op, p), op = "close" => p = CloseButton
      PROVE  ClosesWriteLittle'
  <2> SUFFICES ASSUME NEW c \in Tabs, ~Idle(c)', requests'[c].op = "close"
               PROVE  SettlesOnly(requests'[c].old, requests'[c].new)
    BY DEF ClosesWriteLittle, SettlesOnly
  <2>1. CASE c = b
    <3>1. /\ requests'[c].op = op
          /\ requests'[c].old = trades[t]
          /\ requests'[c].new = Settle(Merge(trades[t], p), p)
      BY <2>1, <1>3 DEF BeginUpdate
    <3>2. trades[t] \in Row
      BY DEF TypeOK
    <3>3. p = CloseButton
      BY <3>1, <1>3
    <3>4. PICK pnl, status : requests'[c].new = [trades[t] EXCEPT !.status = status, !.pnl_net = pnl]
      BY <3>3, <3>1, <3>2, CloseWrites
    <3>5. requests'[c].new.status = status /\ requests'[c].new.pnl_net = pnl
      BY <3>2, <3>4 DEF Row
    <3> QED
      BY <3>1, <3>4, <3>5 DEF SettlesOnly
  <2>2. CASE c # b /\ c \in Rivals(t)
    <3>1. requests[c] \in Request /\ ~Idle(c)
      BY <2>2 DEF TypeOK, Rivals, Idle
    <3>2. requests'[c] = [requests[c] EXCEPT !.raced = TRUE]
      BY <2>2, <1>3 DEF BeginUpdate
    <3>3. /\ requests'[c].op = requests[c].op
          /\ requests'[c].old = requests[c].old
          /\ requests'[c].new = requests[c].new
      BY <3>1, <3>2 DEF Request
    <3> QED
      BY <3>1, <3>3 DEF ClosesWriteLittle
  <2>3. CASE c # b /\ c \notin Rivals(t)
    BY <2>3, <1>3 DEF BeginUpdate, ClosesWriteLittle, Idle
  <2> QED
    BY <2>1, <2>2, <2>3
<1>4. ASSUME NEW b \in Tabs, NEW t \in Trades, BeginDelete(b, t) PROVE ClosesWriteLittle'
  <2>1. requests'[b].op = "delete" /\ \A c \in Tabs \ {b} : requests'[c] = requests[c]
    BY <1>4 DEF BeginDelete, TypeOK
  <2> QED
    BY <2>1 DEF ClosesWriteLittle, Idle
<1>5. ASSUME NEW b \in Tabs, NEW t \in Trades, BeginClose(b, t) PROVE ClosesWriteLittle'
  BY <1>3, <1>5, CloseButtonType DEF BeginClose
<1>6. ASSUME NEW b \in Tabs, NEW t \in Trades, NEW form \in Forms(page[b][t].pnl_net),
             BeginEdit(b, t, form)
      PROVE  ClosesWriteLittle'
  <2>1. form \in Payload
    BY FormsArePayloads DEF TypeOK, Shown
  <2> QED
    BY <1>3, <1>6, <2>1 DEF BeginEdit
<1> QED
  BY <1>1, <1>2, <1>4, <1>5, <1>6
     DEF Next, vars, LoadTrades, FinishUpdate, UpdateFails, FinishDelete, CreateTrade

(* Only the request of a tab ends it, and what ends an update commits the  *)
(* columns it changed.                                                     *)
LEMMA ClosingStep ==
    ASSUME TypeOK, ClosesWriteLittle, [Next]_vars, NEW b \in Tabs,
           ~Idle(b), requests[b].op = "close", Idle(b)', NEW t \in Trades
    PROVE  SettlesOnly(trades[t], trades'[t])
<1>1. CASE trades'[t] = trades[t]
  BY <1>1 DEF TypeOK, Row, SettlesOnly
<1>2. CASE FinishUpdate(b) /\ t = requests[b].trade
  <2> DEFINE q == requests[b]
  <2>1. q.old \in Row /\ q.new \in Row /\ trades[t] \in Row
    BY DEF TypeOK, Idle, Request
  <2>2. trades'[t] = UpdateRow(trades[t], q.old, q.new)
    BY <1>2 DEF FinishUpdate, TypeOK
  <2>3. SettlesOnly(q.old, q.new)
    BY DEF ClosesWriteLittle
  <2>4. SettlesOnly(trades[t], UpdateRow(trades[t], q.old, q.new))
    BY <2>1, <2>3, CommitOfClose
  <2> QED
    BY <2>2, <2>4
<1>3. CASE FinishUpdate(b) /\ t # requests[b].trade
  BY <1>3, <1>1 DEF FinishUpdate, TypeOK
<1>4. ASSUME ~FinishUpdate(b) PROVE trades'[t] = trades[t]
  <2>1. requests'[b] # requests[b]
    BY DEF Idle
  <2>2. \A c \in Tabs : FinishUpdate(c) \/ FinishDelete(c) => c = b
    BY <2>1 DEF FinishUpdate, FinishDelete, TypeOK
  <2>3. ~FinishDelete(b)
    BY DEF FinishDelete
  <2>4. \A c \in Tabs, u \in Trades : ~\E form \in Forms(None) : CreateTrade(c, u, form)
    BY <2>1 DEF CreateTrade
  <2>5. ASSUME NEW c \in Tabs, NEW u \in Trades,
               BeginClose(c, u) \/ \E form \in Forms(page[c][u].pnl_net) : BeginEdit(c, u, form)
        PROVE  trades'[t] = trades[t]
    BY <2>5, TabUpdates DEF BeginUpdate
  <2>6. CASE UNCHANGED vars
    BY <2>6 DEF vars
  <2>7. CASE \E c \in Tabs : LoadTrades(c) \/ UpdateFails(c)
    BY <2>7 DEF LoadTrades, UpdateFails
  <2>8. CASE \E c \in Tabs, u \in Trades : BeginDelete(c, u)
    BY <2>8 DEF BeginDelete
  <2> QED
    BY <1>4, <2>2, <2>3, <2>4, <2>5, <2>6, <2>7, <2>8 DEF Next
<1> QED
  BY <1>1, <1>2, <1>3, <1>4

(* The button that closes a trade takes back nothing another tab saved     *)
(* since the trade was read (page.tsx:152-159, journal.py:228).            *)
THEOREM ClosingTakesNothingBack == Spec => ClosingKeepsEdits
<1>1. Init => TypeOK /\ ClosesWriteLittle
  BY NewTradeType, ShownType DEF Init, TypeOK, ClosesWriteLittle, Idle
<1> DEFINE Kept == \A b \in Tabs :
                      (~Idle(b) /\ requests[b].op = "close" /\ Idle(b)')
                         => \A t \in Trades : SettlesOnly(trades[t], trades'[t])
<1>2. TypeOK /\ ClosesWriteLittle /\ [Next]_vars => [Kept]_vars
  BY ClosingStep
<1> HIDE DEF Kept
<1>3. Spec => [][Kept]_vars
  BY <1>1, <1>2, TypeStep, CloseInFlight, PTL DEF Spec
<1> QED
  BY <1>3 DEF ClosingKeepsEdits, Kept
=============================================================================

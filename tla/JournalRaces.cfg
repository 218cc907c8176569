\* Two tabs over the same trades, with prices that are missing or filled in.
SPECIFICATION Spec
CONSTANTS
    Trades = {t1}
    Tabs = {b1, b2}
    None = None
    EntryPrices = {5}
    ExitPrices = {7}
    Quantities = {1}
    Commissions = {1}
    MaxRequests = 3
INVARIANT ProfitIsThatOfPrices
PROPERTY ClosingKeepsEdits
CHECK_DEADLOCK FALSE

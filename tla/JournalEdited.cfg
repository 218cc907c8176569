\* One tab: a closed trade whose price is corrected in the form.
SPECIFICATION Spec
CONSTANTS
    Trades = {t1}
    Tabs = {b1}
    None = None
    EntryPrices = {5}
    ExitPrices = {7}
    Quantities = {1}
    Commissions = {1}
    MaxRequests = 3
INVARIANT ClosedTradeHasItsProfit
CHECK_DEADLOCK FALSE

SPECIFICATION Spec
CONSTANTS
    None = None
    Tickers = {AAPL}
    Currencies = {USD}
    Currency = USD
    Orders = {o1, o2}
    Requests = {r1, r2}
    Tickets <- BuysAndSells
    Prices = {1, 2}
    StartCash = 2
    MaxPerDay = 2
    MaxClock = 4
    MaxResets = 1
SYMMETRY Symmetry
CHECK_DEADLOCK FALSE
INVARIANTS
    
    AccountSolvent
    FilledExactlyOnce
PROPERTIES
    ImplementsContract

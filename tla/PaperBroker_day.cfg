SPECIFICATION FairSpec
CONSTANTS
    None = None
    Tickers = {AAPL}
    Currencies = {USD}
    Currency = USD
    Orders = {o1, o2}
    Requests = {r1}
    Tickets <- BuysAndSells
    Prices = {1, 2}
    StartCash = 2
    MaxPerDay = 1
    MaxClock = 4
    MaxResets = 1
CHECK_DEADLOCK FALSE

    
PROPERTIES
    WorkEndsAsPromised

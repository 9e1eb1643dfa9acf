SPECIFICATION Spec
CONSTANTS
    None = None
    Tickers = {AAPL}
    Currencies = {USD, ILS}
    Requests = {r1, r2}
    Quantities = {1, 2}
    Prices = {2}
    Fees = {0, 1}
    Balances = {0, 3}
    MaxRows = 4
CHECK_DEADLOCK FALSE
INVARIANTS
    BooksAgree
    TablesSolvent

SPECIFICATION Spec
CONSTANTS
  Tickers = {t}
  Ticker = t
  Currencies = {usd}
  Currency = usd
  None = None
  Orders = {o1}
  Threads = {refresh, request}
  Buys = {2}
  Sells = {}
  StartCash = 3
  Reconciles = FALSE
  Cancels = TRUE
  MaxCrashes = 0
CHECK_DEADLOCK FALSE
INVARIANTS
  NoShareBookedTwice

SPECIFICATION FairSpec
CONSTANTS
  Tickers = {t}
  Ticker = t
  Currencies = {usd}
  Currency = usd
  None = None
  Orders = {o1, o2}
  Threads = {refresh}
  Buys = {2}
  Sells = {1}
  StartCash = 3
  Reconciles = TRUE
  Cancels = TRUE
  MaxCrashes = 1
CHECK_DEADLOCK FALSE
INVARIANTS
  MirrorHolds
  NoShareBookedTwice

  

SPECIFICATION Spec
CONSTANTS
  Tickers = {t1, t2}
  Currencies = {usd}
  Currency = usd
  None = None
  Manual = manual
  Bots = {b1, b2}
  Requests = {r1}
  Quantities = {1}
  Prices = {1, 2}
  Allocation = 2
  ManualCash = 3
  MaxPositions = 1
  MaxDay = 2
CHECK_DEADLOCK FALSE
INVARIANTS
    EngineAgrees
    StoppedBotHasNoCash
PROPERTIES
    StepsKeepTheAccounts

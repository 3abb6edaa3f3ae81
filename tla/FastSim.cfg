SPECIFICATION Spec
CONSTANTS
  Tickers = {a, b}
  Uids = {u, a}
  None = None
  Prices = {1, 2}
  Sizes = {3}
  Returns = {2}
  Adjusts = {100, 50}
  MaxTicker = 3
  MaxNet = 4
  MaxShr = 2
  Kinds = {"net", "simple"}
  MaxSamples = 2
  MaxDays = 2
INVARIANTS ProfitOfPositions
PROPERTIES TickerLimitHeld NetLimitHeld
CHECK_DEADLOCK FALSE

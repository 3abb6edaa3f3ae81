CONSTANTS
  Blocks <- JobBlocks
  Confs <- JobConfs
  MaxTickers = 0
  Programs <- JobPrograms
  TickerAt <- Tickers
  Keys <- AllKeys
  Copies = {1, 2, 3, 4}
  Members = {8, 9}
  mMid = 8
  mClose = 9
SPECIFICATION JobSpec
INVARIANTS HeldValid StoredLive NothingLeft

CONSTANTS
  Markets <- AllMarkets
  Dirs <- AllDirs
  Tids = {t1, t2}
  Confs <- ReadConfs
  DefaultDirs <- Defaults
  MaxDays = 2
SPECIFICATION FairSpec
INVARIANT RootsCurrent
PROPERTY TickerReturns
CHECK_DEADLOCK FALSE

CONSTANTS
  Markets <- AllMarkets
  Dirs <- AllDirs
  Tids = {t1, t2}
  Confs <- ReadConfs
  DefaultDirs <- Defaults
  MaxDays = 2
SPECIFICATION Spec
INVARIANT MapsThreadSafe
CHECK_DEADLOCK FALSE

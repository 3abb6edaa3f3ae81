CONSTANTS
  Threads = {t1, t2, t3}
  Markets <- MCMarkets
  Nobody = Nobody
SPECIFICATION Spec
INVARIANTS NoRacingSearch TableReady
PROPERTIES MadeOnce CallReturns

CONSTANTS
    t1 = t1
    t2 = t2
    Tickers = {t1, t2}
    MaxDate = 9
    FirstToday = 5
    NPast = 3
    UnivFitDays = 2
    ErrFitDays = 1
    MinPts = 1
    MapOrder <- MCOrder
    Confs <- MCConfs
    MaxCrashes = 2
SPECIFICATION Spec
CHECK_DEADLOCK FALSE
INVARIANTS NoLookAhead GoodModelIsWindow ResidualsOfGoodModel RestartTransparent
PROPERTIES EveryDateWritten

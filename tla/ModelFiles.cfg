CONSTANTS
    Procs = {p1, p2}
    MaxDate = 3
    Udates = {2, 3}
    NTrees = 2
    MaxJobs = 4
SPECIFICATION Spec
CHECK_DEADLOCK FALSE
SYMMETRY Interchangeable
INVARIANTS PredNoLookAhead LatestOfListing

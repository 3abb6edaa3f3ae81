CONSTANTS
    Samples = {1, 2, 3, 4, 5, 6, 7, 8}
    Inputs = {0, 1}
    Values = {0, 1, 2}
    MaxLeafNodes = 3
    MinPtsNode = 2
    MaxTreeLevels = 3
    Kinds = {"plain", "force", "prune"}
    ForceInput = 0
    NForceCutLevels = {2, 3}
    Reduction = 100
    Garbage = {0, 2}
SPECIFICATION RankedSpec
CHECK_DEADLOCK FALSE
INVARIANTS NodesInRoom RoutedToLeaf PruneListExact SplitsKeepMinPts UndefinedHasCause

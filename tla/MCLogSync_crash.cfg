SPECIFICATION Spec
CONSTANTS
    MaxBlocks = 5
    MaxHeight = 4
    TxCounts = {0, 1}
    FinalDepth = 2
    CatchUpGap = 0
    Workloads <- Unclean
INVARIANT OneFork

SPECIFICATION FairSpec
CONSTANTS
    MaxBlocks = 5
    MaxHeight = 4
    TxCounts = {0, 2}
    FinalDepth = 2
    CatchUpGap = 0
    Workloads <- Steady
INVARIANTS
    TypeOK
    OneFork
    
    CaughtUp
PROPERTY EventuallySynced

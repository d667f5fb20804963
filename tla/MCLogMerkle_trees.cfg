SPECIFICATION Spec
CONSTANTS
    Chunk = 8
    PadMax = 16
    Workloads <- SoundLoads
    MaxTx = 3
    MaxFlow = 120
INVARIANTS
    TypeOK
    FlowMatchesTxs
    
    
    
    RebuildMatchesPut
    PadsCovered

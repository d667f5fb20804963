SPECIFICATION Spec
CONSTANTS
    Chunk = 8
    PadMax = 16
    Workloads <- RevertLoads
    MaxTx = 3
    MaxFlow = 120
INVARIANTS
    PadsOutsideFiles

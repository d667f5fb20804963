SPECIFICATION Spec
CONSTANTS
    Clients = {c1, c2}
    Roots = {r1, r2}
    MaxTx = 2
    FirstChunk = 2
    Ttl = 1
    Workloads <- RacingLoads
INVARIANT FinalizedHasData

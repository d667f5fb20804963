SPECIFICATION Spec
CONSTANTS
    Clients = {c1, c2}
    Roots = {r1, r2}
    MaxTx = 3
    FirstChunk = 3
    Ttl = 1
    Workloads <- SoundLoads
INVARIANTS
    TypeOK
    
    IndexExact
    SameRootFinalized
SYMMETRY Symmetry

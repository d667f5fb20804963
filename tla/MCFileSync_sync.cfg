SPECIFICATION FairSpec
CONSTANTS
    n1 = n1
    n2 = n2
    n3 = n3
    Peers = {n1, n2, n3}
    Seqs = {1, 2}
    None = None
    MaxSyncFiles = 2
    MaxFailures = 1
    Workloads <- MCWorkloads
INVARIANTS TypeOK CoverageExact   NoGap 
PROPERTIES
    TransitionEnds
    EventuallyDone

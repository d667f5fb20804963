SPECIFICATION Spec
CONSTANTS
    Files = {f1, f2}
    Uploads = {u1, u2}
    SegNum = 3
    MaxWritings = 2
    MaxCached = 2
    MaxUploads = 4
    MaxErrors = 1
    Workloads <- Steady
INVARIANTS
    TypeOK
    WritingsExact
    WindowExact
    CachedExact
    FinalizeComplete
    UploadedFinalized
SYMMETRY Symmetry

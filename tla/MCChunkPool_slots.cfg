SPECIFICATION Spec
CONSTANTS
    Files = {f1}
    Uploads = {u1, u2}
    SegNum = 3
    MaxWritings = 2
    MaxCached = 2
    MaxUploads = 3
    MaxErrors = 0
    Workloads <- Sharded
INVARIANT WritingsExact

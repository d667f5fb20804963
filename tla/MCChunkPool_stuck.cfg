SPECIFICATION Spec
CONSTANTS
    Files = {f1}
    Uploads = {u1, u2}
    SegNum = 2
    MaxWritings = 2
    MaxCached = 2
    MaxUploads = 3
    MaxErrors = 0
    Workloads <- Steady
INVARIANT CachedGetsFlushed

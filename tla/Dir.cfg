\* Directory listing of a mount with concurrent namespace requests and
\* a reader that may stop early, composed with mount and unmount.
CONSTANTS
    Files = {f1}
    RwCacheOn = TRUE
    SyncRoutine = 1
    PrefetchRoutine = 1
    NSweep = 1
    StatGapZero = FALSE
    MaxDirty = 1
    MaxReqs = 1
    MaxFaults = 1
    Names = {1, 2, 3}
    DirNames = {2, 3}
    InitDir = {1, 2}
    LsSizeCfg = 1
    Count = 1
    AbortAllowed = TRUE
    MaxNsOps = 1
    MaxDirFaults = 1
SPECIFICATION DirSpec
INVARIANT MTypeOK DTypeOK WorkersNeverAssert UnmountWritesBack ListingExact DirListBounded
PROPERTY DelMountReturns ListingTerminates

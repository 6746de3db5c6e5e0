\* Three threads, two table slots, cached and O_DIRECT opens, a one-block file
\* with a one-buffer pool and one FileBuffer, the dentry cache on.
CONSTANTS
    OpenFileMax = 2
    Ids = {i1}
    NoEntry = NoEntry
    BlockSize = 2
    NBlocks = 1
    MaxIo = 2
    NBufs = 1
    MaxFB = 1
    MaxOps = 5
    DirectModes = {FALSE, TRUE}
    DentryOn = TRUE
    Procs = {p1, p2, p3}
    NoFd = NoFd
    NoBuf = NoBuf
    NoDentry = NoDentry
    NoBlk = NoBlk
SYMMETRY ProcSymmetry
SPECIFICATION MCSpec
INVARIANT FOTypeOK TableConsistent LastRefAssertHolds ClosedFileFlushed

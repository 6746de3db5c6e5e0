\* One thread writes and stats its file while the CheckExpire sweeper runs;
\* the dentry cache is off, as by default.
CONSTANTS
    OpenFileMax = 1
    Ids = {i1}
    NoEntry = NoEntry
    BlockSize = 2
    NBlocks = 1
    MaxIo = 1
    NBufs = 1
    MaxFB = 1
    MaxOps = 3
    DirectModes = {FALSE}
    DentryOn = FALSE
    Procs = {p1}
    NoFd = NoFd
    NoBuf = NoBuf
    NoDentry = NoDentry
    NoBlk = NoBlk
SPECIFICATION MCSpec
INVARIANT StatSeesWrites

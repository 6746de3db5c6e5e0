\* Two threads with cached handles and a second FileBuffer allowed: one
\* thread's last Close races another thread's Open and Write.
CONSTANTS
    OpenFileMax = 2
    Ids = {i1}
    NoEntry = NoEntry
    BlockSize = 2
    NBlocks = 1
    MaxIo = 1
    NBufs = 1
    MaxFB = 2
    MaxOps = 6
    DirectModes = {FALSE}
    DentryOn = FALSE
    Procs = {p1, p2}
    NoFd = NoFd
    NoBuf = NoBuf
    NoDentry = NoDentry
    NoBlk = NoBlk
SYMMETRY ProcSymmetry
SPECIFICATION MCSpec
INVARIANT AcceptedWritesVisible

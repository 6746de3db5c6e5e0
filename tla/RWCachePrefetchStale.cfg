\* RWCache with one prefetch worker: a block cleaned by a returned Write can
\* be prefetched again while the write still sits in a WCache buffer.
CONSTANTS
    BlockSize = 2
    NBlocks = 2
    MaxIo = 2
    NoBuf = NoBuf
    NoBlk = NoBlk
    Buffers = {b1}
    SyncRoutine = 1
    Writers = {w1}
    Sweepers = {s1}
    Flushers = {}
    MaxWrites = 1
    MaxFaults = 0
    RBuffers = {c1}
    Readers = {r1}
    PrefetchRoutine = 1
    PrefetchTimes = 1
    MaxReads = 2
SPECIFICATION MCSpec
INVARIANT ReadYourWrites

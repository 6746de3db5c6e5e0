\* RWCache with one prefetch worker: readers, a writer, Clean, the sync
\* worker and both sweepers interleave over a two-block file.  One Write
\* of two bytes across the block boundary is enough for the SyncWrite
\* worker to free its buffer, see it reused for the next block, and
\* release that block's lock instead of its own.
CONSTANTS
    BlockSize = 2
    NBlocks = 2
    MaxIo = 2
    NoBuf = NoBuf
    NoBlk = NoBlk
    Buffers = {b1}
    SyncRoutine = 1
    Writers = {w1}
    Sweepers = {s1}
    Flushers = {}
    MaxWrites = 1
    MaxFaults = 0
    RBuffers = {c1}
    Readers = {r1}
    PrefetchRoutine = 1
    PrefetchTimes = 1
    MaxReads = 2
SPECIFICATION MCSpec
INVARIANT WLockOwnership

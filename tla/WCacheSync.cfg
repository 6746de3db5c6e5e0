\* Write cache in SyncIo mode (no chSync): full blocks go straight to the
\* proxy, so no lock is held across a hand-off.  Two writers, a sweeper and
\* a flusher over a three-block file with a two-buffer pool and one injected
\* EIO: buffer accounting, no lost write, tracked dirty buffers, durable
\* Flush, refinement of the abstract file store, and every dirty buffer
\* eventually written under WCache!Fairness.
CONSTANTS
    BlockSize = 2
    NBlocks = 3
    Buffers = {b1, b2}
    SyncRoutine = 0
    Writers = {w1, w2}
    Sweepers = {s1}
    Flushers = {f1}
    MaxWrites = 2
    MaxIo = 2
    MaxFaults = 1
    NoBuf = NoBuf
    NoBlk = NoBlk
SPECIFICATION Spec
INVARIANT BufferAccounting CacheCoherent EveryDirtyBufferTracked FlushDurable
PROPERTY DirtyEventuallyWritten RefinesAbstractFile

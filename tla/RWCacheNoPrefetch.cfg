\* RWCache with prefetch off (rw_cache_prefetch_routine = 0): one writer,
\* one reader, a one-buffer write pool, one SyncWrite worker and one sweeper
\* on a one-block file; three writes and two reads.  With one block the
\* BlkIdx the SyncWrite worker re-reads is always its own block, so the
\* unlock race of RWCachePrefetch.cfg cannot occur and read-your-writes is
\* checked for the remaining interleavings.
CONSTANTS
    BlockSize = 2
    NBlocks = 1
    MaxIo = 2
    NoBuf = NoBuf
    NoBlk = NoBlk
    Buffers = {b1}
    SyncRoutine = 1
    Writers = {w1}
    Sweepers = {s1}
    Flushers = {}
    MaxWrites = 3
    MaxFaults = 0
    RBuffers = {c1}
    Readers = {r1}
    PrefetchRoutine = 0
    PrefetchTimes = 1
    MaxReads = 2
SPECIFICATION MCSpec
INVARIANT RWTypeOK ReadYourWrites

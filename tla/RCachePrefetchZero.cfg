\* rw_cache_prefetch_times = 0: the first window DoPrefetch sets is empty.
CONSTANTS
    BlockSize = 2
    NBlocks = 3
    RBuffers = {c1, c2}
    Readers = {r1, r2}
    PrefetchRoutine = 1
    PrefetchTimes = 0
    MaxReads = 3
    MaxIo = 2
    NoBuf = NoBuf
    NoBlk = NoBlk
    MaxOffset = 0
    MaxSize = 1
SPECIFICATION Spec
INVARIANT PrefetchAssertHolds

\* Two readers, one prefetch worker (chPrefetch holds one more op), a pool
\* of two read buffers for a three-block file: the pool can run out.  The
\* block slicing is checked for every request of up to 9 bytes at offsets
\* 0..12 (up to 6 blocks of 2, at both alignments).
CONSTANTS
    BlockSize = 2
    NBlocks = 3
    RBuffers = {c1, c2}
    Readers = {r1, r2}
    PrefetchRoutine = 1
    PrefetchTimes = 1
    MaxReads = 2
    MaxIo = 2
    NoBuf = NoBuf
    NoBlk = NoBlk
    MaxOffset = 12
    MaxSize = 9
SPECIFICATION Spec
INVARIANT SliceOpsInBlock SliceTilesRange ReadWindowMatchesSlice RTypeOK RBufferAccounting RLockOwnership PrefetchAssertHolds
PROPERTY ReadCompletes

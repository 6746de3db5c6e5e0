\* Write cache with one SyncWrite worker, two writers, a sweeper, a flusher
\* and one injected EIO on a two-block file of 3-byte blocks (so that a
\* merge can leave a buffer partial).  The worker's racy
\* UnLockBuffer can unlock the wrong block or panic (see RWCachePrefetch.cfg);
\* a panic ends the process (WCacheMC!Crashed).  Checked: no lost write,
\* durable Flush and refinement of the abstract file store, in every state
\* up to the crash, whatever the racy read returned.
CONSTANTS
    BlockSize = 3
    NBlocks = 2
    Buffers = {b1}
    SyncRoutine = 1
    Writers = {w1, w2}
    Sweepers = {s1}
    Flushers = {f1}
    MaxWrites = 2
    MaxIo = 2
    MaxFaults = 1
    NoBuf = NoBuf
    NoBlk = NoBlk
SPECIFICATION MCSpec
INVARIANT TypeOK  EveryDirtyBufferTracked 
 

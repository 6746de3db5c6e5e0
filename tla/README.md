# TLA+ models of the cubefs-for-android client library

These modules model the client side of cubefs-for-android (`src/lib/libfs`). It is a
file-system library that an Android FUSE daemon (`src/client`) calls. It turns POSIX-like
calls into JSON requests to a proxy (`api/proxyclient.go`, `http/`). It also keeps the
caches that make those calls cheap. The hard part is concurrency: the read and write
block caches, their background goroutines, and the open-file and dentry tables.

## 1. Inventory

### Parts of the system and how they interact

| Part | Source | State | Operations | Concurrency |
|---|---|---|---|---|
| Block slicing | `wcache.go` Slice, `rcache.go` Slice/GetReadWindow, `cache.go` RWBlockOp, PrefetchWindow | none (pure) | Slice a byte range into per-block ops; window Move/Extend/Cross | none |
| Write cache `WCache` | `wcache.go`, `cache.go` (Buffer, FileBuffer, lock table) | FreeList, LRU list, per-file FileBuffer (BufferMap, LockMap), chSync | Write → WriteOp per block; SyncWrite workers; 8 CheckExpire sweepers; FlushBuffer; Flush (8 goroutines); StatSize; Close; CloseAll | writers, `SyncRoutine` workers, 8 sweepers, flushers, all on one cache lock plus per-block spin locks |
| Read cache `RCache` | `rcache.go` | FreeList, LRU, per-file FileBuffer with a prefetch window, chPrefetch | ReadOp, DoPrefetch (window grows ×PrefetchTimes), PrefetchRead workers, Release, CheckExpire, Clean | readers, prefetch workers, 1 sweeper; RLockBuffer/LockBuffer |
| `RWCache` | `rwcache.go` | the two caches | Read = RCache read + WCache.MergeOp; Write = WCache.Write + RCache.Clean; Flush; Close; CloseAll | composition |
| Open-file table `FileCache` | `filecache.go` | handle → FileEntry array, next free slot, per-inode refer counts | NewFile, GetFileEntry, CloseFile, IsLastRefer | one mutex |
| Dentry cache | `dentrycache.go`, `lib/cache/lru.go` | LRU of path → Dentry with TTL | Set, Get, Remove, RemovePrefix | one mutex |
| File operations | `file.go`, `stat.go`, `read.go`, `write.go` | none of their own | Open, Close, Read, Write, Flush, Truncate, Stat, Fstat | callers race on the tables and caches above |
| Namespace operations | `dir.go`, `rm.go`, `rename.go`, `link.go`, `attr.go`, `acl.go` | per Dir: dirList, startKey, lsStatus, cacheSize, the one-slot channel `ch` | Opendir (fetcher goroutine), Readdir, CloseDir, Mkdir, Mknod, Rmdir, UnLink, Rename, … | fetcher vs. reader under the Dir mutex; namespace calls vs. the fetcher's pages |
| Mount | `mount.go`, `client/main.go` | MountStu, MountMode, the mount mutex, the StatTo goroutine | Mount, checkMount, DelMount (RWCache.CloseAll, then MountStu = Del, then wg.Wait) | the admin thread's shutdown vs. cache workers, sweepers and StatTo |
| Proxy client, HTTP | `api/`, `http/`, `lib/proto` | host selector, retry config | one request with retries | — |

A write goes through `file.go` Write. It calls `RWCache.Write`, which runs `WCache.Write`
and then `RCache.Clean`. `WCache.Write` slices the request into block ops. For each op it
takes the block's write lock and runs `WriteOp`. WriteOp merges the op into the block's
Buffer, or writes to the proxy directly. A buffer that fills its block goes on `chSync`
with the lock still held, and a SyncWrite worker writes it and releases the lock. A
partial buffer goes on the LRU. The sweepers flush it from there once it expires, and so
does Flush/Close. A read goes through the RCache, which may prefetch, and then
`WCache.MergeOp` overlays the dirty buffers on what was read.

### Hard behaviours

- One block lock is taken by a writer and released by another goroutine (SyncWrite).
- Buffers are reused through FreeList. LruExpire names a block, and FlushBuffer looks it up again later.
- Proxy writes fail: EIO, or ENOENT after a delete. Every path must either keep the data (re-LRU) or drop it only on ENOENT.
- Flush works from a snapshot of the buffer indexes taken at its start.
- The pool can run empty (direct-write fallback), and chSync can fill up (the writer blocks while holding the lock).
- Prefetch reads the proxy without synchronising with the write cache.
- Close uses IsLastRefer without a lock held across the cache close. Stat calls doStat before StatSize.
- Shutdown order: chSync and chPrefetch are closed and Stop is set before the files are flushed and released. Queued work still holds block locks, and the workers Assert that the file is still attached.
- The directory fetcher and its reader share a one-slot notification channel. The reader may stop while the fetcher is paused on a full list, and namespace calls change the directory between two pages.

### Properties per part

- **Block slicing:** the ops tile the range, and the read window equals the set of blocks written.
- **WCache:**
  - Buffer accounting (no leak, no double use).
  - Coherence: the proxy data overlaid with the dirty buffers equals the last accepted write.
  - Every dirty buffer is reachable by some goroutine that will write it.
  - A successful Flush covers every earlier write.
  - In SyncIo mode, every dirty buffer is eventually written. With chSync workers no such liveness holds, because a worker's unlock can release the wrong block (finding 6).
- **RCache:** buffer accounting, block locks held only by their owner, the prefetch window Assert, and every read returns.
- **RWCache:** read-your-writes (spec.md §8), and each write-side block lock is held by exactly its owner (violated by the SyncWrite worker, finding 6).
- **FileCache:** handles are unique, the next free slot is the minimum free one, and refer counts match the open handles.
- **Facade:** Close never loses another handle's writes; Stat never reports a size below the cached size.
- **Mount:** no worker Asserts through DelMount, every accepted write reaches the proxy unless Close reported an error, and DelMount returns.
- **Dir:** an OK listing is exact and sorted under concurrent namespace calls, dirList stays bounded, and every listing ends (OpenDir returns, the fetcher exits).

## 2. Plan

Modules, in order of importance; ✓ = exists.

1. ✓ `BlockOps`: pure block arithmetic (Slice as a RECURSIVE loop, windows). `BlockOpsRef` checks it against a reference, inside the `rcache_safety` run. `BlockOpsMC` hosts the empty-I/O violation.
2. ✓ `WCache`: the write cache of one file. It includes the buffer pool, LRU, lock table, writers, SyncWrite workers, sweepers, Flush and proxy faults. `WCacheMC` instantiates it.
3. ✓ `AbstractFile`: an abstract file store. `WCache` refines it under content = `View`, stored = `disk`.
4. ✓ `RCache`: the read cache of one file: doRead's per-block loop, the prefetch window, PrefetchRead workers, ReleaseBuffer, the sweeper, Clean.
5. ✓ `RWCache`: composes `WCache` and `RCache` by INSTANCE over the shared proxy and checks read-your-writes.
6. ✓ `FileCache`: the open-file table and refer counts.
7. ✓ `FileOps`: composes FileCache, the asynchronous WCache and the dentry cache for Open/Close/Write/Stat/Fstat. Read, Truncate and Flush(fd) are still to come.
8. `DentryCache`: the TTL LRU on its own (inside FileOps it is one slot with an expiry step).
9. ✓ `Mount`: Mount, StatTo, checkMount and DelMount with both caches' CloseAll, workers and sweepers.
10. ✓ `Dir`: the Opendir fetcher, Readdir and CloseDir with the FUSE OpenDir loop, and Mkdir, Mknod, Rmdir and UnLink, over `Mount`.
11. `Namespace rest`: rename (RemovePrefix of the dentry cache), MkdirAll, RmDirTree.

## 3. Modules

### BlockOps (`cache.go`, `wcache.go` Slice, `rcache.go` GetReadWindow)

- `SliceLoop` is the loop of `WCache.Slice` (`RCache.Slice` is identical). It carries `rwOffset` and `leftRwSize` from block to block.
- `Window`, `WinMove`, `WinExtend` and `WinCross` are the `PrefetchWindow` methods.
- `BlockOpsRef` defines three checks over every request of `0..MaxOffset × 1..MaxSize`, which TLC evaluates once. `RCacheMC` states them as invariants of the `rcache_safety` run, together with the same checks on the request each reader holds in the current state:
  - `SliceOpsInBlock`: every op lies inside its block;
  - `SliceTilesRange`: `Slice` equals `SliceRef`, which takes the intersection of the range with each block;
  - `ReadWindowMatchesSlice`: `GetReadWindow` names exactly the blocks of `Slice`.
- `BlockOpsMC` makes each `(offset, size)` request an initial state for the empty-I/O violation run.

### WCache (`wcache.go`, `cache.go`)

State, and the code it stands for:

- `disk`: the proxy's file content. `deleted`: the file is gone on the proxy. `faults`: EIO replies injected so far.
- `freeList`: `FreeList`. `lru`: `LruList`. `bmap`: `BufferMap`. `lockMap`: `LockMap`.
- `buf[b]`: Buffer `b` = `BlkIdx`, `Offset`, `Len`, and the data in the window.
- `syncQ`: the buffers sent on chSync whose worker has not finished yet.
- `sdone`: pairs `<<buffer, block>>` of a worker that has written and freed the buffer but not yet called `UnLockBuffer(buffer.BlkIdx)`.
- `panicked`: an `Assert` failed, which is `panic(nil)` with no `recover` anywhere in `src`. `Next` has no step after it; `WCacheMC` adds a crash stop (`Crashed`) so that it is not reported as a deadlock.
- `FreeBuffer` only appends the buffer to `FreeList`: its fields (`BlkIdx` included) stay as they were until `AllocBuffer` → `ReSet` rebinds it.
- Data is abstracted to *stamps*. Each WriteOp writes `clock+1` to every byte it covers. `latest` is a history variable: the stamp of the last write that `WCache.Write` accepted at each position.

Actions:

- **Writers:** `StartWrite` (Slice), `LockOp` (`LockBuffer`), `WriteOp`, `WriteReturn`.
  - `WriteOp` is one step: it runs under the exclusive block lock, so no other actor can see its intermediate states.
  - It has the three cases of the code: `WriteOpNoBuffer`, `WriteOpMerge` and `WriteOpReplace`. Each includes every error return of its DirectWrite calls.
  - `Finish` releases the lock if the write stayed synchronous, through `UnLockBuffer` with its Assert (cache.go:298), and stops the loop on an error.
- **`SyncWorker(b)`:** the chSync worker, in two steps. `SyncWrite(b)` is DirectWrite and, on success, DetachBuffer and FreeBuffer (`SyncWriteDone`); on an error it puts the buffer back on the LRU and unlocks its block. `SyncUnlockStep` is the `UnLockBuffer(buffer.BlkIdx)` that follows FreeBuffer (wcache.go:577). `BlkIdx` is read without a lock while a writer may `ReSet` the freed buffer, so the step unlocks either the block the worker wrote or the one the buffer is bound to now (a data race: both outcomes are possible).
- **`LruExpire(s)` / `SweepFlush(s)`:** the CheckExpire loop. Expiry time is abstracted, so any LRU tail may be taken.
- **`FlushBuffer(k, r)`:** taken whenever the block is unlocked. `r` is the proxy's reply.
- **`FlushStart` / `FlushOne` / `FlushEnd` / `FlushReturn`:** `WCache.Flush`, with its 8 goroutines run in any order.
- **`RemoteDelete`:** environment. Afterwards every proxy write answers ENOENT.

`RefinesAbstractFile` instantiates `AbstractFile` with content = `View` (what `MergeOp` over the proxy returns) and stored = `disk`. Every WCache step must be a Write, FailedWrite, Persist, Delete or Lose step of the abstract store.

### RCache (`rcache.go`, the lock table of `cache.go`, the read loop of `rwcache.go` doRead)

State:

- `rfree`, `rlru`, `rbmap`, `rbuf`: the RCache pool, LRU, BufferMap and Buffers. A buffer holds one whole block (`blk`, the proxy stamps it copied).
- `rlock[k]`: the FileBuffer lock of block k. It has a `type` (read or write) and a `refer` count, as in `LockBuffer`/`RLockBuffer`.
- `pw`: the file's prefetch window. `pq`: the ops on chPrefetch or held by a PrefetchRead worker (a set; the channel's FIFO order does not matter because each op has its own block).
- `rsweep`: the block the CheckExpire goroutine took from the LRU and has not released yet.
- Per reader: `rpc` (program counter), `rops` (remaining ops of Slice), `rreq`, `rwfb` (a write-side FileBuffer exists), `rdata` (the op's data), `rres` (the bytes returned), `rpf` (prefetch ops not yet pushed).

Actions:

- `StartRead` → `DoPrefetchWindow` (DoPrefetch's window update and its Assert) → `PrefetchLock`/`PrefetchPush` per op. `PrefetchLock` write-locks the block, and `PrefetchPush` sends on chPrefetch, blocking at capacity.
- Then per block: `RLockR` (RLockBuffer), `ReadOpStep` (ReadOp: cached data, or DirectRead; an error if the file is deleted), then `ReadNext`, `ReadFail` or `ReadReturn`.
- `PrefetchRead(k)`: a worker runs `DoPrefetchRead` and releases the write lock whatever happened. If the file is deleted or the pool is empty, nothing is cached.
- `RLruExpire`/`RSweepRelease`: CheckExpire. `Clean(k)`: ReleaseBuffer from a writer (environment here; RWCache drives it).

The "buffer already cached" branch of DoPrefetch (rcache.go:292) cannot happen within one FileBuffer's life. The window only moves forward by its own size, so no block is prefetched twice. The model keeps the branch; TLC never takes it.

### RWCache (`rwcache.go`)

- `W == INSTANCE WCache` and `R == INSTANCE RCache` share `disk` and `deleted`.
- **Write:** `WStart` (WCache.Write's Slice), `WLock`, `WOp` (the W steps), then `CleanStart`/`CleanBlock` (RCache.Clean over the write's read window; skipped if the file has no RCache FileBuffer), then `WReturn`.
- **Read:** `RStart` (RCache side, TryDoPrefetch), `GetWriteBuffer`, and per block `WRLock` (the write-side RLockBuffer) and the RCache steps. Then `MergeOp`, which overlays the dirty WCache bytes and releases the write-side lock. `ReadFailStep` is the error return, which releases both locks.
- **Background:** `WBackground` (SyncWrite, sweepers, Flush) and `RBackground` (PrefetchRead, the RCache sweeper). `Delete` is the environment.
- **History:** `wlast`/`committed` record the stamps each returned Write made visible, and `rsnap[r]` the committed stamps when read r started. `ReadYourWrites` says a completed read returns, at every requested position, data at least as new as `rsnap` (unless the file was deleted).
- `WLockOwnership`: while no Assert has fired, a block's WCache write lock is held by exactly one of a writer in its WriteOp, a chSync entry, or a worker between FreeBuffer and its unlock (`UnlockingW`), and a read lock's refer count equals the readers holding it.
- `RWCacheMC` adds `Stop`, a stuttering step once every bounded write and read is done or a panic ended the process, so that neither is reported as a deadlock.

### FileCache (`filecache.go`)

- State: `fileEntryVec` (handle → `[id, direct]` or `NoEntry`), `fileEntryIndex` (the slot `NewFile` fills next), `fileRefer` (id → non-direct handles open; 0 stands for "not in the map").
- Every method runs under the table's mutex, so each is one operator used inside a `FileOps` step: `NewFile`, `NewFileFull` (its error return), `CloseFile`, `IsLastRefer`. `GetMinEntryIndex` is the RECURSIVE `MinEntryFrom`.
- `TableConsistent` (spec.md 262): `fileEntryIndex` is the lowest nil slot and `fileRefer` counts the table's non-direct handles, after any interleaving of Opens and Closes.

### FileOps (`file.go`, `stat.go`, `wcache.go` in asynchronous mode, `dentrycache.go`)

- Extends `FileCache` and `BlockOps`. It keeps every FileBuffer the cache map ever held (`fbuf[1..MaxFB]`); `cur` is the one `WCache.Cache` maps the file to (0 = none). A thread keeps the FileBuffer it looked up (`pfb`) across later steps, as the Go code keeps the pointer.
- Each thread has a program counter `pc`. **Open** is one step (GetDentry, NewFile or its full-table error). **Write**: `WriteDirect` (O_DIRECT handle) or `WriteStart` (GetFileBuffer(true), creating a FileBuffer), `WriteLock`, `WriteOp` (alloc-fail direct write, new buffer, merge, flush-first; a full buffer is `Park`ed on chSync), `WriteReturn` (clears the dentry). **Close**: `CloseStart` reads IsLastRefer; `CloseLast` is its Assert; `FlushStart`/`FlushOne` run WCache.Flush over the index list taken at its start; `AfterFlush`, then `CloseDetach` (DetachFileBuffer) on the last close, and `CloseFree` (CloseFile). **Stat/Fstat**: dentry lookup, `StatProxy`/`FstatProxy` (doStat), `StatSizeIdx`/`StatSizeRead` (WCache.StatSize under the block lock of the upper index), `StatSet` (dentry cache Set), `StatReturn`.
- Background: `SyncWrite` (the chSync worker; it re-looks the FileBuffer up by id and Asserts it exists, writes, detaches and frees the buffer) and `SyncUnlock` (its `UnLockBuffer(buffer.BlkIdx)`, unlocking the block it wrote or the one a later `ReSet` bound the buffer to; `sunlock` holds the pending unlocks), `LruExpire`/`SweepFlush` (CheckExpire), `DentryExpire` (the TTL).
- `panic` records which Assert fired (LastRef, SyncWrite, UnLockBuffer); `Next` stops after a panic.
- History: `latest[q]` is the stamp of the last Write that returned at position q; `ssnap[p]` the file length the returned writes had reached when Stat p started. `View(q)` is what a read would find: the mapped FileBuffer's bytes over the proxy.
- `FileOpsMC` adds process symmetry and a `Stop` step once every bounded call is done.

### Mount (`mount.go`, `client/main.go` exitSign, the close paths of `rcache.go`, `wcache.go`, `rwcache.go`)

- One admin thread, with program counter `apc`, runs main.go:
  - `Mount`: `MountCheck` is the unlocked status test. `MountLocked` is the second test, then the mode and `MountStu = Mounted`. `MountStat` is the Stat of the mount path, which starts `StatTo` and the server on success.
  - On a signal, `Unmount`: se.Unmount stops the server, so `serving` is false and no request is left running.
  - `DelMount`: `DelLock`, then RWCache.CloseAll. The RCache half is `RCloseAll` (close chPrefetch, set Stop, snapshot the files), `RCloseFile` (Release waits in `fileBuf.Wait` until no queued prefetch holds a block lock) and `RWait`. The WCache half is `WCloseAll`, `WCloseFile` and `WWait`; `WCloseFile` is Close = Flush, which waits for a buffer parked in chSync, and DetachFileBuffer or the Flush error. Then `DelStatus` sets `MountStu = Del`, and `DelWait` waits on wg for StatTo.
- While the server serves, `AppWrite` leaves a dirty buffer or parks a full one in `chSync`, and `AppRead` queues a prefetch op that holds its block lock.
- The goroutines: the SyncWrite workers (`SyncWriteStep`, `SyncWriteExit`), the PrefetchRead workers (`PrefetchStep`, `PrefetchExit`), the CheckExpire sweepers of both caches (`WSweepFlush`, `RSweepRelease`, `WSweepExit`, `RSweepExit`) and `StatToExit`. The two workers' `GetFileBuffer` Asserts set `panic`.
- Buffer contents are counts per file. The data paths are WCache and RCache.

### Dir (`dir.go`, `rm.go`, `client/cfafuse/fuse_op.go` OpenDir), extends Mount

- The fetcher goroutine has program counter `fpc`:
  - `FetchCheck`: the abort test, then the cache-full test, which has no step while it holds;
  - `FetchCall`: ReadDirEx, or an error;
  - `FetchAppend`: under the mutex, append the page, then LsDone on a short page or the next `startKey`; an empty full page is the `Dentrys[len-1]` panic;
  - `FetchNotify`: the non-blocking send into the one-slot `ch`;
  - `FetchCache`: dentryCache.Set;
  - `FetchErr`: LsError and a notify.
- The reader has program counter `lpc`. It is the FUSE OpenDir loop: `Opendir` (checkMount), `ReaddirLock` (one pass of Readdir under the mutex: raise `cacheSize` to `2*count`, then the error, done, wait or copy branch, and the FUSE test `len < count`), `ReaddirWait` (`<-dir.ch`) and `CloseDir`. `ReaderStops` is a library caller that closes the Dir early.
- Names are numbers ordered like the proxy's keys. `ReadDirPage` is the proxy's readdirex (spec.md §6, line 233: `path, from, limit`): the first `lsSize` names after `startKey`, sorted.
- `Mkdir`, `Mknod` (ENOTSUP unless a fifo or socket), `Rmdir` and `UnLink` are one step each: checkMount, the proxy's answer (EEXIST or ENOENT leave the directory as is), and the dentry Remove.
- `always` and `ever` record the names present since Opendir without a break, and at some time since Opendir. `ListingExact` compares the stream with them.
- `DirMC` composes Dir with Mount: both next-state relations, and a stutter once the admin thread is done.

## 4. Runs

| Run | Config | Checks | Shows |
|---|---|---|---|
| `blockops_empty_io` (violation) | `BlockOpsEmpty.cfg`: size 0 | `EmptyWriteIsNoOp` | An empty write yields a size-0 op (unaligned offset, WriteOp then allocates a buffer) or an empty read window (aligned offset, `RCache.Clean` panics on `Assert(rw.Size() > 0)`), against spec.md §8 |
| `wcache_sync` | `WCacheSync.cfg`: SyncIo mode, block 2, 3 blocks, 2 buffers, 2 writers, 1 sweeper, 1 flusher, 1 EIO | `BufferAccounting`, `CacheCoherent`, `EveryDirtyBufferTracked`, `FlushDurable`, `DirtyEventuallyWritten`, `RefinesAbstractFile` | With no chSync hand-off (every lock is released by the goroutine that took it), no buffer leaks or is shared, no accepted write is lost, a successful Flush covers every earlier write, under weak fairness every dirty buffer is written, and the full-block and AllocBuffer-fails direct-write paths implement AbstractFile (263 380 states) |
| `wcache_liveness` | `WCacheLive.cfg`: block 3, 2 blocks, 1 buffer, 1 worker, 2 writers, 1 sweeper, 1 flusher, 1 EIO | `TypeOK`, `CacheCoherent`, `EveryDirtyBufferTracked`, `FlushDurable`, `RefinesAbstractFile` | With the chSync worker and its racy unlock, in every state up to a panic: no accepted write is lost, every dirty buffer is reachable, a successful Flush covers every earlier write, and the cache implements AbstractFile (779 132 states, about 2 min). Buffer accounting is not checked here: the racy unlock lets a flush free a queued buffer (finding 6) |
| `rcache_safety` | `RCache.cfg`: block 2, 3 blocks, 2 buffers, 2 readers, 1 prefetch worker, PrefetchTimes 1, 2 reads of ≤2 bytes | `SliceOpsInBlock`, `SliceTilesRange`, `ReadWindowMatchesSlice`, `RTypeOK`, `RBufferAccounting`, `RLockOwnership`, `PrefetchAssertHolds`, `ReadCompletes` | Slicing is exact for every request of block 2, offsets 0..12, sizes 1..9 (117 requests, up to 5 blocks, any alignment), and for the request each reader is serving. No buffer leaks or is shared, a block lock is held only by its reader or its queued prefetch, DoPrefetch's Assert holds, and every read returns, even when the pool is empty or the file is deleted |
| `rcache_prefetch_times_zero` (violation) | `RCachePrefetchZero.cfg`: PrefetchTimes 0 | `PrefetchAssertHolds` | A read `[1,3)` leaves an empty window, and the read `[3,5)` that crosses it panics on `Assert(fileBuf.pw.Size() > 0)` |
| `rwcache_noprefetch` | `RWCacheNoPrefetch.cfg`: block 2, 1 block, 1 W buffer, 1 worker, 1 sweeper, 1 writer, 1 reader, 1 R buffer, no prefetch, 3 writes, 2 reads | `RWTypeOK`, `ReadYourWrites` | Without prefetch, a read that starts after a Write returned sees it, through any SyncWrite, sweep or Clean in between. One block, so the worker's racy unlock always names its own block (886 064 states) |
| `rwcache_prefetch` (violation) | `RWCachePrefetch.cfg`: block 2, 2 blocks, 1 W buffer, 1 worker, 1 sweeper, 1 prefetch worker, 1 write, 2 reads | `WLockOwnership` | The SyncWrite worker unlocks a block it does not hold and panics in UnLockBuffer's Assert, leaving its own block locked (8 states, finding 6) |
| `rwcache_prefetch_stale` (violation) | `RWCachePrefetchStale.cfg`: as `rwcache_prefetch`, 1 write | `ReadYourWrites` | The prefetch race: stale data is served after a Write returned (finding 1) |
| `fileops` | `FileOps.cfg`: 3 threads, 2 table slots, cached and O_DIRECT opens, block 2, 1 block, 1 buffer, 1 FileBuffer, 5 calls, dentry cache on | `FOTypeOK`, `TableConsistent`, `LastRefAssertHolds`, `ClosedFileFlushed` | The handle table stays consistent under concurrent Open/Close (including the full table), and LastRef's Assert never fires. When two Closes of the last two handles both see a count of 2, neither detaches the FileBuffer, but once every handle is closed it holds no buffered data, so the leak is only a map entry (480 302 states) |
| `fileops_close_race` (violation) | `FileOpsCloseRace.cfg`: 2 threads, 1 block, 2 FileBuffers, 6 calls | `AcceptedWritesVisible` | A Write that returned is lost when it races a last Close (finding 4) |
| `fileops_stat_stale` (violation) | `FileOpsStatStale.cfg`: 1 thread, 3 calls | `StatSeesWrites` | Stat reports a size below a returned Write (finding 5) |
| `dir_mount` | `Dir.cfg`: 1 file, 1 SyncWrite and 1 PrefetchRead worker, 1 sweeper per cache, 1 request, 1 write fault; names {1,2,3} with {2,3} directories and {1,2} present, lsSize 1, count 1, 1 ReadDirEx error, 1 namespace call, early close allowed | `MTypeOK`, `DTypeOK`, `WorkersNeverAssert`, `UnmountWritesBack`, `ListingExact`, `DirListBounded`, `DelMountReturns`, `ListingTerminates` | No worker Asserts through DelMount, and accepted writes reach the proxy unless Close reported the error. An OK listing is exact under a concurrent Mkdir/Mknod/Rmdir/UnLink, and dirList stays within one page of cacheSize. Under weak fairness DelMount returns, OpenDir returns and the fetcher exits (522 896 states, about 65 s) |

Why these bounds are enough:

- **Block size 3** (`wcache_liveness`) is the smallest size where a merge leaves the buffer partial: a buffer `[0,1)` and an op at 1 that does not fill the block. With block size 2 every merge fills the block.
- **Block size 2 with 3 blocks and 2 buffers** (`wcache_sync`) is the smallest shape where AllocBuffer fails. The liveness run gets the same failure with one buffer. Two blocks (`wcache_liveness`, `rwcache_prefetch`) are what the SyncWrite race needs: the freed buffer is reallocated for the other block.
- **Two writers and one sweeper** are enough to interleave on one block. With one flusher, every pairwise interleaving of the four kinds of actor is reached.
- **One EIO and one delete** reach every error branch. `-coverage` shows every action of every `Next` firing across the passing runs.
- **RCache:** 3 blocks and PrefetchTimes 1 let the window move twice (first window, then a crossing read). Two readers share the window and the pool.
- **RWCache:** one writer and one reader on 2 blocks with one buffer per cache are the smallest shape where a buffered write, a prefetch, Clean, a flush and a read of the same block all interleave. TLC finds the stale read at depth 25.

- **FileOps:** one block, because with two the worker's racy unlock (finding 6) can release a queued buffer's lock and the rest of that trace is outside what the model represents; the race itself is shown by `rwcache_prefetch`. Three threads and two slots reach the full table (third Open) and every Open/Close interleaving of two handles. The pass run has one FileBuffer: with two, the close race lets `SyncWrite` hit its Assert, which the violation run already shows. The violation runs are minimal: two threads and a second FileBuffer for the close race, one thread for Stat.
- **Dir and Mount:** lsSize 1 and count 1 give a page per name and a Readdir per entry. The fetcher overfills dirList (2 > cacheSize 1) on the 2 initial names before the first Readdir, which is the case where the abort must win over the cache-full wait. One namespace call between pages is enough to add or remove a name mid-listing. One request makes either a parked chSync buffer, a dirty LRU buffer or a queued prefetch exist when DelMount starts. The listing's state multiplies the mount's (each alone is about 50 000 states), so the bounds are kept at these minima.

Each property of a passing run has a mutant in `PROJECT.json`: a plausible bug in the mapped code that TLC then catches.

## 5. Findings

1. **Stale prefetch (spec.md §8, read-your-writes).** `DoPrefetchRead` (rcache.go:390) reads the proxy holding only the RCache block lock. The failing trace:
   1. A read opens the prefetch window.
   2. A write to block 1 returns. It is buffered in WCache, and `Clean` has already run.
   3. The prefetch worker caches block 1 from the proxy, which still has the old data.
   4. The WCache sweeper flushes and frees the write buffer.
   5. A read of block 1 hits the stale RCache copy. `MergeOp` has nothing to overlay, so the read returns the old data.

   Without prefetch the property holds. The write-side `RLockBuffer` in doRead orders reads after flushes.
2. **PrefetchTimes = 0** is accepted by `NewRCache`, and the second read then panics at rcache.go:268.
3. **Empty I/O.** spec.md §8 says an empty Write returns (0, OK). In the code:
   - at an aligned offset, the empty write panics in `Clean` (rcache.go:449);
   - at an unaligned offset, it allocates a WCache buffer (wcache.go:191).

4. **Last Close races a Write (file.go:124).** spec.md 56-57 say a FileBuffer is never released while a handle references the file, and 264 that a returned Write is visible to later reads. Close tests `IsLastRefer`, and only later calls `CloseFile` and `rwCache.Close`, with no lock held across. The 10-state trace:
   1. p1 opens the file and closes it; `IsLastRefer` says it is the last handle.
   2. p2 opens the file; its Write creates a new FileBuffer and buffers its data there.
   3. p1's `DetachFileBuffer` removes that FileBuffer from the map.
   4. p2's Write returns; the data is in a buffer that no read, Flush or later Close can reach. With a chSync send in between, `SyncWrite`'s Assert (wcache.go:568) panics instead.
5. **Stat order (stat.go:94).** spec.md 269 says Stat after a buffered Write reports at least the written end. Stat calls `doStat` before `WCache.StatSize`: the proxy still says 0, the sweeper then flushes the buffer, and StatSize finds nothing buffered, so Stat returns 0 for a file of length 2. Fstat reads the cache first and is not affected. With the dentry cache on, Stat also caches that size until the TTL expires.

6. **SyncWrite unlocks the wrong block (wcache.go:577).** After a successful DirectWrite the worker calls `DetachBuffer`, `FreeBuffer(buffer)` and then `UnLockBuffer(buffer.BlkIdx)`. Once the buffer is on `FreeList`, a writer can take it in `AllocBuffer` and `ReSet` it for another block, so `BlkIdx` is read in a data race. The 8-state trace of `rwcache_prefetch`:
   1. A two-block Write fills block 0; its buffer goes on chSync with block 0 locked.
   2. The worker writes it out and frees it.
   3. The Write locks block 1, reallocates the freed buffer for it, and completes block 1, unlocking it.
   4. The worker unlocks `buffer.BlkIdx` = 1, which is not locked: `Assert` panics. Block 0's lock is never released.

   In other orders the worker releases a lock a writer or another chSync entry holds; a flush can then free a buffer still on chSync (`BufferAccounting` fails in `WCacheLive.cfg`), or a reader can read a block while its write is in flight (`ReadYourWrites` fails in RWCache with two blocks).

## 6. Fairness

- **WCache:** weak fairness covers every step of a goroutine that has already started:
  - a writer's lock, op and return;
  - a worker's SyncWrite and its unlock (one WF over both);
  - a sweeper's claim and flush;
  - a running Flush.
- Starting a Write or a Flush is the caller's choice, so it is not fair.
- LockBuffer spins and is not fair in the code. `DirtyEventuallyWritten` is checked in SyncIo mode (`wcache_sync`), where a lock is held across steps only by a writer, and writers are bounded: once writes stop, a lock stays free, so weak fairness is enough. With chSync workers a lock can stay taken forever (finding 6), so no liveness property is checked there.
- **RCache:**
  - Weak fairness covers each reader's steps, each queued PrefetchRead (the workers loop on chPrefetch forever) and the CheckExpire goroutine (a timer loop).
  - Starting a read is the caller's choice, so it is not fair.
  - `ReadCompletes` needs the prefetch worker to release its lock on every path. The `PrefetchReadKeepLockOnFail` mutant breaks that and TLC finds a reader spinning forever.
- **RWCache, FileOps:** only safety is checked, so no fairness is assumed.
- **Mount, Dir:** weak fairness covers each goroutine once it has started, over the disjunction of its steps (as for a fair process): the admin thread after the signal, StatTo, the workers, the sweepers' exits, the fetcher and the reader. The signal (`Unmount`), requests, namespace calls, expiry sweeps and a caller's early CloseDir are not fair. The fetcher's sleep on a full list is no step, so the fetcher is enabled only when the abort or free room lets it go on. This is what the `time.Sleep` loop does once it is scheduled.

## 7. Not modelled

- **Transport:** the HTTP transport, host selector and retry. They are abstracted to the reply set `{OK, EIO, ENOENT}` of one DirectWrite.
- **Front end and support code:** the FUSE front end, configuration, logging, statistics and the third-party account example. These are pure I/O or formatting.
- **Multiple files in WCache/RCache:** the caches are modelled for one file. The pools and LRUs are shared between files in the code, but a property about one file's data depends only on that file's buffers. Running out of buffers is covered by the direct-write path and by a failed prefetch alloc.
- **RCache details:**
  - The modelled file is a whole number of blocks long, so prefetch ops past EOF (DirectRead returns 0 and nothing is cached) are left out.
  - chPrefetch's FIFO order is a set.
  - `Release`, `Close` and `CloseAll` of RCache are actions of `Mount`, where buffers are counts per file; WCache's Close is in FileOps and Mount.
- **FileOps scope:** Read (doRead through the facade), Truncate, Flush(fd), SyncIo mode and proxy faults are left to WCache/RWCache, which check them for one FileBuffer; a Write stays inside one block. Shutdown is the `Mount` module. A Write in flight during DelMount is not modelled: the FUSE client unmounts first, and `file.go` Write has no checkMount, so only a library caller can send on the closed chSync (wcache.go:622).
- **Proxy retries** (proxyclient.go:72): a timed-out request may be retried while the first is still applied. The transport is abstracted to one reply per call. A retried Mkdir or Unlink whose first attempt was applied would answer EEXIST or ENOENT for a change that took effect.
- **Library-caller races on the mount:**
  - Mount racing DelMount re-mounts a deleted mount (mount.go:308);
  - a second DelMount panics on closing closed channels (mount.go:290);
  - two Readdir on one Dir can leave one waiting forever (dir.go:290).

  The FUSE client does none of these, and the model has one admin thread and one reader.
- **checkMount's path tests** (relative path, trailing slash, outside the mount) are abstracted: every modelled path is valid. MkdirAll, RmDirTree, rename, link, attr and acl are single proxy calls plus a dentry invalidation and are not actions.
- **Ghost dentries:** the fetcher's dentryCache.Set after a concurrent Remove is reachable in Dir. spec.md 252 accepts staleness bounded by the TTL, so no property is stated.
- **Later sittings:** RCache in the facade (Read, Truncate), rename and RemovePrefix, and the dentry cache's LRU (see the plan).

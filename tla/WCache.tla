------------------------------- MODULE WCache -------------------------------
(***************************************************************************)
(* The write-back block cache of one open file (src/lib/libfs/wcache.go,   *)
(* with Buffer, FileBuffer and the per-block locks of cache.go).           *)
(*                                                                         *)
(* Actors: writer threads running WCache.Write, SyncWrite workers fed by   *)
(* chSync, CheckExpire sweepers, and callers of WCache.Flush.  The proxy   *)
(* is the array disk; a DirectWrite may fail with EIO (bounded by          *)
(* MaxFaults) and fails with ENOENT once the file was deleted remotely.    *)
(*                                                                         *)
(* Data is abstracted to stamps: each WriteOp writes a fresh stamp (clock) *)
(* to every byte it covers, so the stamps at a position grow in the order  *)
(* the writes took effect.  latest is a history variable: the stamp of the *)
(* last write accepted at each position.                                   *)
(***************************************************************************)
EXTENDS BlockOps, Naturals, Sequences, FiniteSets, SequencesExt

CONSTANTS
    NBlocks,        \* blocks in the modelled file
    Buffers,        \* the pool of WCache (BufferMax Buffer objects)
    SyncRoutine,    \* SyncWrite workers = chSync capacity; 0 = sync mode
    Writers,        \* threads calling WCache.Write
    Sweepers,       \* CheckExpire goroutines
    Flushers,       \* threads calling WCache.Flush (Close, Flush, Truncate)
    MaxWrites,      \* bound on Write calls
    MaxIo,          \* largest Write request, in bytes
    MaxFaults,      \* bound on injected EIO replies of the proxy
    NoBuf, NoBlk    \* model values: empty map slot, idle sweeper

ASSUME NBlocks \in Nat \ {0} /\ SyncRoutine \in Nat
ASSUME MaxWrites \in Nat /\ MaxIo \in Nat \ {0} /\ MaxFaults \in Nat

Blocks   == 0..(NBlocks - 1)
Offs     == 0..(BlockSize - 1)
FileLen  == NBlocks * BlockSize
Pos      == 0..(FileLen - 1)
Stamps   == 0..(MaxWrites * NBlocks)

VARIABLES
    disk,       \* proxy file content: position -> stamp
    deleted,    \* the file was removed on the proxy
    faults,     \* EIO replies injected so far
    freeList,   \* WCache.FreeList
    bmap,       \* FileBuffer.BufferMap: block -> buffer
    buf,        \* Buffer fields: blk, off (Offset), len (Len), data
    lru,        \* WCache.LruList, front first
    lockMap,    \* FileBuffer.LockMap: block -> [tp, refer]
    syncQ,      \* buffers sent on chSync and not yet written by a worker
    wpc, wops,  \* writer: program counter and the ops of Slice left to do
    sweep,      \* sweeper: block returned by LruExpire, not yet flushed
    fpc, fpend, ferr, fsnap, \* flusher: pc, indexes left, error seen, latest at start
    latest, clock, nwrites,  \* history: accepted stamps, stamp counter, calls
    sdone,      \* SyncWrite workers past FreeBuffer: <<buffer, block written>>
    panicked    \* an Assert of UnLockBuffer failed: the process is gone

wvars == <<wpc, wops>>
fvars == <<fpc, fpend, ferr, fsnap>>
cvars == <<freeList, bmap, buf, lru, syncQ>>
vars  == <<disk, deleted, faults, cvars, lockMap, wvars, sweep, fvars,
           latest, clock, nwrites, sdone, panicked>>

NoLock == [tp |-> "none", refer |-> 0]
EmptyBuf == [blk |-> 0, off |-> 0, len |-> 0, data |-> [i \in Offs |-> 0]]

SyncIo == SyncRoutine = 0                                \* WCache.SyncIo

(***************************************************************************)
(* Helpers on data and on the LRU list.                                    *)
(***************************************************************************)
\* data restricted to the window [lo, lo+n) of a block; 0 elsewhere
WindowData(lo, n, f) == [i \in Offs |-> IF lo <= i /\ i < lo + n THEN f[i] ELSE 0]

\* the file content d after writing data[lo .. lo+n) of block k
PutBlock(d, k, lo, n, data) ==
    [p \in Pos |-> IF k * BlockSize + lo <= p /\ p < k * BlockSize + lo + n
                   THEN data[p - k * BlockSize] ELSE d[p]]

\* Buffer.GetData written at Buffer.GetFileOffset
PutBuffer(d, r) == PutBlock(d, r.blk, r.off, r.len, r.data)

OpData(op, s) == WindowData(op.RwOffset, op.RwSize, [i \in Offs |-> s])
PutOp(d, op, s) == PutBlock(d, op.Index, op.RwOffset, op.RwSize, OpData(op, s))

DoLru(l, b)     == Cons(b, Remove(l, b))                    \* WCache.DoLru
RemoveLru(l, b) == Remove(l, b)                             \* WCache.RemoveLru

Unlocked(k) == lockMap[k].tp = "none"

\* FileBuffer.UnLockBuffer: Assert(ok && v.tp == WriteLock && v.refer == 0),
\* then delete the entry.  Assert panics, and nothing recovers the panic.
UnLockBuffer(k) ==
    LET held == lockMap[k].tp = "write" /\ lockMap[k].refer = 0 IN
    /\ lockMap' = IF held THEN [lockMap EXCEPT ![k] = NoLock] ELSE lockMap
    /\ panicked' = ~held

\* replies the proxy may give to one DirectWrite
Results == IF deleted THEN {"ENOENT"}
           ELSE IF faults < MaxFaults THEN {"OK", "EIO"} ELSE {"OK"}
CountFault(r) == faults' = faults + (IF r = "EIO" THEN 1 ELSE 0)

(***************************************************************************)
(* Buffer methods.                                                         *)
(***************************************************************************)
\* Faulty: a relaxed check that also merges a write overlapping the buffer.
CanMergeOverlap(r, off) == off <= r.off + r.len
CanMerge(r, off) == r.off + r.len = off                     \* Buffer.CanMerge
BufIsFull(r) == r.off + r.len = BlockSize                   \* Buffer.IsFull

\* Buffer.MergeData: append the op's bytes at off+len
MergeData(r, op, s) ==
    [r EXCEPT !.len  = r.len + op.RwSize,
              !.data = [i \in Offs |-> IF r.off + r.len <= i /\ i < r.off + r.len + op.RwSize
                                       THEN s ELSE r.data[i]]]

\* Buffer.ReSet, then Skip(op.RwOffset), then MergeData(op.rwBuf)
ReSet(r, k, op, s) ==
    MergeData([EmptyBuf EXCEPT !.blk = k, !.off = op.RwOffset], op, s)

(***************************************************************************)
(* Writers: WCache.Write runs Slice, then for each op LockBuffer, WriteOp  *)
(* and, when WriteOp kept the write synchronous, UnLockBuffer.  An error   *)
(* ends the call.  WriteOp runs under the exclusive block lock, so no      *)
(* other actor observes its intermediate states; it is one step.  (Only a  *)
(* SyncWrite worker's racy UnLockBuffer can take that lock away; the model *)
(* shows that this happens, not what a WriteOp does after it.)             *)
(***************************************************************************)
StartWrite(w) ==
    /\ wpc[w] = "idle"
    /\ nwrites < MaxWrites
    /\ \E o \in Pos, n \in 1..MaxIo :
          /\ o + n <= FileLen
          /\ wops' = [wops EXCEPT ![w] = Slice(o, n)]
    /\ wpc' = [wpc EXCEPT ![w] = "lock"]
    /\ nwrites' = nwrites + 1
    /\ UNCHANGED <<disk, deleted, faults, cvars, lockMap, sweep, fvars, latest, clock,
                   sdone, panicked>>

\* FileBuffer.LockBuffer: spin until no lock of any kind is held on the block
LockOp(w) ==
    LET k == Head(wops[w]).Index IN
    /\ wpc[w] = "lock"
    /\ Unlocked(k)
    /\ lockMap' = [lockMap EXCEPT ![k] = [tp |-> "write", refer |-> 0]]
    /\ wpc' = [wpc EXCEPT ![w] = "op"]
    /\ UNCHANGED <<disk, deleted, faults, cvars, wops, sweep, fvars, latest, clock, nwrites,
                   sdone, panicked>>

\* End of one iteration of the loop in WCache.Write.
Finish(w, syncIo, ok) ==
    LET k == Head(wops[w]).Index
        rest == IF ok THEN Tail(wops[w]) ELSE <<>>
    IN  /\ IF syncIo THEN UnLockBuffer(k) ELSE UNCHANGED <<lockMap, panicked>>
        /\ wops' = [wops EXCEPT ![w] = rest]
        /\ wpc' = [wpc EXCEPT ![w] = IF rest = <<>> THEN "done" ELSE "lock"]

\* WCache.DirectWrite of the op's bytes; nothing stays in the cache.
DirectWriteOp(w, op, s) ==
    \E r \in Results :
        /\ disk'   = IF r = "OK" THEN PutOp(disk, op, s) ELSE disk
        /\ latest' = IF r = "OK" THEN PutOp(latest, op, s) ELSE latest
        /\ CountFault(r)
        /\ UNCHANGED cvars
        /\ Finish(w, TRUE, r = "OK")

\* WriteOp, no buffer for the block: direct write, or a new buffer.
WriteOpNoBuffer(w, op, s) ==
    LET k == op.Index IN
    /\ bmap[k] = NoBuf
    /\ \/ /\ (OpIsFull(op) /\ SyncIo) \/ freeList = <<>>   \* incl. AllocBuffer fail
          /\ DirectWriteOp(w, op, s)
       \/ /\ ~(OpIsFull(op) /\ SyncIo)
          /\ freeList # <<>>
          /\ LET b  == Head(freeList)
                 nb == ReSet(buf[b], k, op, s)
             IN  /\ freeList' = Tail(freeList)
                 /\ buf' = [buf EXCEPT ![b] = nb]
                 /\ bmap' = [bmap EXCEPT ![k] = b]
                 /\ latest' = PutOp(latest, op, s)
                 /\ UNCHANGED <<disk, faults>>
                 /\ IF BufIsFull(nb)
                    THEN /\ Cardinality(syncQ) < 2 * SyncRoutine  \* chSync <- buffer
                         /\ syncQ' = syncQ \cup {b}
                         /\ UNCHANGED lru
                         /\ Finish(w, FALSE, TRUE)
                    ELSE /\ lru' = DoLru(lru, b)
                         /\ UNCHANGED syncQ
                         /\ Finish(w, TRUE, TRUE)

\* WriteOp, buffer exists and the op continues it: merge.
WriteOpMerge(w, op, s) ==
    LET k  == op.Index
        b  == bmap[k]
        mb == MergeData(buf[b], op, s)
        l1 == RemoveLru(lru, b)
    IN
    /\ b # NoBuf
    /\ CanMerge(buf[b], op.RwOffset)
    /\ \/ /\ ~BufIsFull(mb)
          /\ buf' = [buf EXCEPT ![b] = mb]
          /\ lru' = DoLru(l1, b)
          /\ latest' = PutOp(latest, op, s)
          /\ UNCHANGED <<disk, faults, freeList, bmap, syncQ>>
          /\ Finish(w, TRUE, TRUE)
       \/ /\ BufIsFull(mb) /\ ~SyncIo
          /\ Cardinality(syncQ) < 2 * SyncRoutine
          /\ buf' = [buf EXCEPT ![b] = mb]
          /\ syncQ' = syncQ \cup {b}
          /\ lru' = l1
          /\ latest' = PutOp(latest, op, s)
          /\ UNCHANGED <<disk, faults, freeList, bmap>>
          /\ Finish(w, FALSE, TRUE)
       \/ /\ BufIsFull(mb) /\ SyncIo
          /\ latest' = PutOp(latest, op, s)
          /\ UNCHANGED syncQ
          /\ \E r \in Results :
                /\ CountFault(r)
                /\ IF r = "OK"
                   THEN /\ disk' = PutBuffer(disk, mb)
                        /\ bmap' = [bmap EXCEPT ![k] = NoBuf]
                        /\ freeList' = Append(freeList, b)
                        /\ buf' = [buf EXCEPT ![b] = mb]
                        /\ lru' = l1
                   ELSE /\ buf' = [buf EXCEPT ![b] = mb]
                        /\ lru' = DoLru(l1, b)
                        /\ UNCHANGED <<disk, bmap, freeList>>
                /\ Finish(w, TRUE, r = "OK")

\* A faulty order: the op's bytes go out before the old buffer's.
WritePrevAfter(d, prev, op, s) == PutBuffer(PutOp(d, op, s), prev)

\* Full op that cannot merge: flush the old buffer, then direct-write the op.
FlushPrevThenWrite(d, prev, op, s) == PutOp(PutBuffer(d, prev), op, s)

\* WriteOp, buffer exists but the op does not continue it: write the
\* buffer out first, then direct-write a full op or reuse the buffer.
WriteOpReplace(w, op, s) ==
    LET k  == op.Index
        b  == bmap[k]
        l1 == RemoveLru(lru, b)
    IN
    /\ b # NoBuf
    /\ ~CanMerge(buf[b], op.RwOffset)
    /\ UNCHANGED syncQ
    /\ \E r1 \in Results :
          IF r1 # "OK"
          THEN /\ lru' = DoLru(l1, b)
               /\ CountFault(r1)
               /\ UNCHANGED <<disk, latest, freeList, bmap, buf>>
               /\ Finish(w, TRUE, FALSE)
          ELSE LET d1 == PutBuffer(disk, buf[b]) IN
               IF OpIsFull(op)
               THEN /\ bmap' = [bmap EXCEPT ![k] = NoBuf]
                    /\ freeList' = Append(freeList, b)
                    /\ UNCHANGED buf
                    /\ lru' = l1
                    /\ \E r2 \in Results :
                          /\ disk' = IF r2 = "OK" THEN FlushPrevThenWrite(disk, buf[b], op, s)
                                                   ELSE d1
                          /\ latest' = IF r2 = "OK" THEN PutOp(latest, op, s) ELSE latest
                          /\ CountFault(r2)
                          /\ Finish(w, TRUE, r2 = "OK")
               ELSE /\ buf' = [buf EXCEPT ![b] = ReSet(buf[b], k, op, s)]
                    /\ lru' = DoLru(l1, b)
                    /\ disk' = d1
                    /\ latest' = PutOp(latest, op, s)
                    /\ UNCHANGED <<faults, freeList, bmap>>
                    /\ Finish(w, TRUE, TRUE)

\* WCache.WriteOp for the writer's current op, with the fresh stamp.
WriteOp(w) ==
    LET op == Head(wops[w])
        s  == clock + 1
    IN  /\ wpc[w] = "op"
        /\ clock' = s
        /\ \/ WriteOpNoBuffer(w, op, s)
           \/ WriteOpMerge(w, op, s)
           \/ WriteOpReplace(w, op, s)
        /\ UNCHANGED <<deleted, sweep, fvars, nwrites, sdone>>

\* WCache.Write returns to its caller.
WriteReturn(w) ==
    /\ wpc[w] = "done"
    /\ wpc' = [wpc EXCEPT ![w] = "idle"]
    /\ UNCHANGED <<disk, deleted, faults, cvars, lockMap, wops, sweep, fvars,
                   latest, clock, nwrites, sdone, panicked>>

(***************************************************************************)
(* SyncWrite workers: take a full buffer from chSync, write it out, and    *)
(* release the block lock the writer left held.  On an error the buffer    *)
(* goes back to the LRU and the block is unlocked.  On success the buffer  *)
(* is detached and freed, and only then does the worker call               *)
(* UnLockBuffer(buffer.BlkIdx): a separate step, since in between the      *)
(* buffer is on FreeList and AllocBuffer may ReSet it for another block.   *)
(***************************************************************************)
\* A faulty worker that forgets DoLru when the write fails.
SyncWriteNoLru(b, r) ==
    LET k == buf[b].blk IN
    IF r = "OK"
    THEN /\ disk' = PutBuffer(disk, buf[b])
         /\ bmap' = [bmap EXCEPT ![k] = NoBuf]
         /\ freeList' = Append(freeList, b)
         /\ sdone' = sdone \cup {<<b, k>>}
         /\ UNCHANGED <<lru, lockMap, panicked>>
    ELSE /\ UnLockBuffer(k)
         /\ UNCHANGED <<disk, bmap, freeList, lru, sdone>>

SyncWriteDone(b, r) ==
    LET k == buf[b].blk IN
    IF r = "OK"
    THEN /\ disk' = PutBuffer(disk, buf[b])
         /\ bmap' = [bmap EXCEPT ![k] = NoBuf]              \* DetachBuffer
         /\ freeList' = Append(freeList, b)                 \* FreeBuffer
         /\ sdone' = sdone \cup {<<b, k>>}
         /\ UNCHANGED <<lru, lockMap, panicked>>
    ELSE /\ lru' = DoLru(lru, b)
         /\ UnLockBuffer(k)
         /\ UNCHANGED <<disk, bmap, freeList, sdone>>

SyncWrite(b) ==
    /\ b \in syncQ
    /\ syncQ' = syncQ \ {b}
    /\ \E r \in Results : CountFault(r) /\ SyncWriteDone(b, r)
    /\ UNCHANGED <<buf, deleted, wvars, sweep, fvars, latest, clock, nwrites>>

\* A faulty worker that never unlocks after a successful write.
SyncUnlockSkip(b, k) ==
    /\ sdone' = sdone \ {<<b, k>>}
    /\ UNCHANGED <<lockMap, panicked>>

\* fileBuf.UnLockBuffer(buffer.BlkIdx) after FreeBuffer.  BlkIdx is read
\* with no lock held while AllocBuffer may be running ReSet on the freed
\* buffer (a data race), so the worker gets the block it wrote, k, or the
\* block the buffer has been bound to since, buf[b].blk.
SyncUnlock(b, k) ==
    /\ sdone' = sdone \ {<<b, k>>}
    /\ \E j \in {k, buf[b].blk} : UnLockBuffer(j)

SyncUnlockStep(b, k) ==
    /\ <<b, k>> \in sdone
    /\ SyncUnlock(b, k)
    /\ UNCHANGED <<disk, deleted, faults, cvars, wvars, sweep, fvars,
                   latest, clock, nwrites>>
(***************************************************************************)
(* WCache.FlushBuffer: under the block lock, write the block's buffer out  *)
(* and free it; ENOENT drops the data, any other error puts it back on the *)
(* LRU.  Its lock is taken and released inside the step.                   *)
(***************************************************************************)
\* Faulty: every error drops the buffer, as ENOENT does.
FlushOutDropOnError(b, r) ==
    /\ disk' = IF r = "OK" THEN PutBuffer(disk, buf[b]) ELSE disk
    /\ bmap' = [bmap EXCEPT ![buf[b].blk] = NoBuf]
    /\ freeList' = Append(freeList, b)
    /\ lru' = RemoveLru(lru, b)

\* Faulty: EIO leaves the buffer attached but off the LRU.
FlushOutNoRelru(b, r) ==
    IF r = "EIO"
    THEN /\ lru' = RemoveLru(lru, b)
         /\ UNCHANGED <<disk, bmap, freeList>>
    ELSE FlushOutDropOnError(b, r)

\* Faulty: the buffer is detached but never returned to FreeList.
FlushOutNoFree(b, r) ==
    IF r = "EIO"
    THEN /\ lru' = DoLru(RemoveLru(lru, b), b)
         /\ UNCHANGED <<disk, bmap, freeList>>
    ELSE /\ disk' = IF r = "OK" THEN PutBuffer(disk, buf[b]) ELSE disk
         /\ bmap' = [bmap EXCEPT ![buf[b].blk] = NoBuf]
         /\ lru' = RemoveLru(lru, b)
         /\ UNCHANGED freeList

\* RemoveLru, DirectWrite, then detach and free, or DoLru on EIO
FlushOut(b, r) ==
    LET l1 == RemoveLru(lru, b) IN
    IF r = "EIO"
    THEN /\ lru' = DoLru(l1, b)
         /\ UNCHANGED <<disk, bmap, freeList>>
    ELSE /\ disk' = IF r = "OK" THEN PutBuffer(disk, buf[b]) ELSE disk
         /\ bmap' = [bmap EXCEPT ![buf[b].blk] = NoBuf]
         /\ freeList' = Append(freeList, b)
         /\ lru' = l1

FlushBuffer(k, r) ==
    /\ Unlocked(k)
    /\ IF bmap[k] = NoBuf
       THEN UNCHANGED <<disk, faults, cvars>>
       ELSE CountFault(r) /\ FlushOut(bmap[k], r) /\ UNCHANGED <<buf, syncQ>>
    /\ UNCHANGED <<deleted, lockMap, wvars, latest, clock, nwrites, sdone, panicked>>

\* the error FlushBuffer returns
FlushErr(k, r) == bmap[k] # NoBuf /\ r # "OK"

(***************************************************************************)
(* CheckExpire sweepers: LruExpire takes the oldest buffer off the LRU     *)
(* (under the cache lock; expiry time is abstracted, any buffer may be     *)
(* old enough), then FlushBuffer runs for its block.                       *)
(***************************************************************************)
LruExpire(s) ==
    /\ sweep[s] = NoBlk
    /\ lru # <<>>
    /\ sweep' = [sweep EXCEPT ![s] = buf[Last(lru)].blk]
    /\ lru' = Front(lru)
    /\ UNCHANGED <<disk, deleted, faults, freeList, bmap, buf, syncQ, lockMap,
                   wvars, fvars, latest, clock, nwrites, sdone, panicked>>

SweepFlush(s) ==
    /\ sweep[s] # NoBlk
    /\ \E r \in Results : FlushBuffer(sweep[s], r)
    /\ sweep' = [sweep EXCEPT ![s] = NoBlk]
    /\ UNCHANGED fvars

(***************************************************************************)
(* WCache.Flush: snapshot the indexes of the file's buffers, run           *)
(* FlushBuffer for each of them on up to 8 goroutines (any order), collect *)
(* the errors and return the last one.                                     *)
(***************************************************************************)
FlushStart(f) ==
    LET idx == {k \in Blocks : bmap[k] # NoBuf} IN      \* GetAllBufferIndex
    /\ fpc[f] = "idle"
    /\ fpc' = [fpc EXCEPT ![f] = IF idx = {} THEN "ok" ELSE "run"]
    /\ fpend' = [fpend EXCEPT ![f] = idx]
    /\ ferr' = [ferr EXCEPT ![f] = FALSE]
    /\ fsnap' = [fsnap EXCEPT ![f] = latest]
    /\ UNCHANGED <<disk, deleted, faults, cvars, lockMap, wvars, sweep,
                   latest, clock, nwrites, sdone, panicked>>

\* Faulty: the collecting loop drops the error of a FlushBuffer.
FlushOneIgnoreErr(f) ==
    /\ fpc[f] = "run"
    /\ \E k \in fpend[f], r \in Results :
          /\ FlushBuffer(k, r)
          /\ fpend' = [fpend EXCEPT ![f] = @ \ {k}]
          /\ UNCHANGED ferr
    /\ UNCHANGED <<sweep, fpc, fsnap>>

\* one flush goroutine runs FlushBuffer for an index; its error is collected
FlushOne(f) ==
    /\ fpc[f] = "run"
    /\ \E k \in fpend[f], r \in Results :
          /\ FlushBuffer(k, r)
          /\ fpend' = [fpend EXCEPT ![f] = @ \ {k}]
          /\ ferr' = [ferr EXCEPT ![f] = @ \/ FlushErr(k, r)]
    /\ UNCHANGED <<sweep, fpc, fsnap>>

FlushEnd(f) ==
    /\ fpc[f] = "run"
    /\ fpend[f] = {}
    /\ fpc' = [fpc EXCEPT ![f] = IF ferr[f] THEN "err" ELSE "ok"]
    /\ UNCHANGED <<disk, deleted, faults, cvars, lockMap, wvars, sweep,
                   fpend, ferr, fsnap, latest, clock, nwrites, sdone, panicked>>

FlushReturn(f) ==
    /\ fpc[f] \in {"ok", "err"}
    /\ fpc' = [fpc EXCEPT ![f] = "idle"]
    /\ UNCHANGED <<disk, deleted, faults, cvars, lockMap, wvars, sweep,
                   fpend, ferr, fsnap, latest, clock, nwrites, sdone, panicked>>

\* The file is removed on the proxy (another client, or Unlink of this
\* client); from now on every write to it fails with ENOENT.
RemoteDelete ==
    /\ ~deleted
    /\ deleted' = TRUE
    /\ UNCHANGED <<disk, faults, cvars, lockMap, wvars, sweep, fvars,
                   latest, clock, nwrites, sdone, panicked>>

(***************************************************************************)
(* The specification.  NewWCache starts with every buffer on FreeList, an  *)
(* empty LRU and an empty FileBuffer.                                      *)
(***************************************************************************)
Init ==
    /\ disk = [p \in Pos |-> 0]
    /\ deleted = FALSE
    /\ faults = 0
    /\ freeList = SetToSeq(Buffers)
    /\ bmap = [k \in Blocks |-> NoBuf]
    /\ buf = [b \in Buffers |-> EmptyBuf]
    /\ lru = <<>>
    /\ lockMap = [k \in Blocks |-> NoLock]
    /\ syncQ = {}
    /\ wpc = [w \in Writers |-> "idle"]
    /\ wops = [w \in Writers |-> <<>>]
    /\ sweep = [s \in Sweepers |-> NoBlk]
    /\ fpc = [f \in Flushers |-> "idle"]
    /\ fpend = [f \in Flushers |-> {}]
    /\ ferr = [f \in Flushers |-> FALSE]
    /\ fsnap = [f \in Flushers |-> [p \in Pos |-> 0]]
    /\ latest = [p \in Pos |-> 0]
    /\ clock = 0
    /\ nwrites = 0
    /\ sdone = {}
    /\ panicked = FALSE

\* the steps of the SyncWrite worker that took buffer b from chSync
SyncWorker(b) == SyncWrite(b) \/ \E k \in Blocks : SyncUnlockStep(b, k)

\* After a panic the process is gone and nothing moves.
Next ==
    /\ ~panicked
    /\ \/ \E w \in Writers :
             StartWrite(w) \/ LockOp(w) \/ WriteOp(w) \/ WriteReturn(w)
       \/ \E b \in Buffers : SyncWorker(b)
       \/ \E s \in Sweepers : LruExpire(s) \/ SweepFlush(s)
       \/ \E f \in Flushers :
             FlushStart(f) \/ FlushOne(f) \/ FlushEnd(f) \/ FlushReturn(f)
       \/ RemoteDelete

(***************************************************************************)
(* Fairness: every goroutine that has started work keeps being scheduled.  *)
(* Starting a Write or a Flush is the caller's choice and is not fair.     *)
(* Locks are held across steps by writers (bounded by MaxWrites), chSync   *)
(* entries and SyncWrite workers, so weak fairness suffices for the        *)
(* spinning LockBuffer once writes stop, as long as every lock taken is    *)
(* released, which the unlock race of SyncWrite breaks.                    *)
(***************************************************************************)
Fairness ==
    /\ \A w \in Writers : WF_vars(LockOp(w)) /\ WF_vars(WriteOp(w))
                          /\ WF_vars(WriteReturn(w))
    /\ \A b \in Buffers : WF_vars(SyncWorker(b))
    /\ \A s \in Sweepers : WF_vars(LruExpire(s)) /\ WF_vars(SweepFlush(s))
    /\ \A f \in Flushers : WF_vars(FlushOne(f)) /\ WF_vars(FlushEnd(f))
                           /\ WF_vars(FlushReturn(f))

Spec == Init /\ [][Next]_vars /\ Fairness

(***************************************************************************)
(* Properties.                                                             *)
(***************************************************************************)
BufRec == [blk : Blocks, off : Offs \cup {BlockSize}, len : 0..BlockSize,
           data : [Offs -> Stamps]]

\* Every variable has its type, and no buffer extends past the end of its
\* block (the Assert in Buffer.IsFull).
TypeOK ==
    /\ disk \in [Pos -> Stamps] /\ latest \in [Pos -> Stamps]
    /\ deleted \in BOOLEAN /\ faults \in 0..MaxFaults
    /\ freeList \in Seq(Buffers) /\ lru \in Seq(Buffers) /\ syncQ \subseteq Buffers
    /\ bmap \in [Blocks -> Buffers \cup {NoBuf}]
    /\ buf \in [Buffers -> BufRec]
    /\ \A b \in Buffers : buf[b].off + buf[b].len <= BlockSize
    /\ lockMap \in [Blocks -> [tp : {"none", "write"}, refer : {0}]]
    /\ wpc \in [Writers -> {"idle", "lock", "op", "done"}]
    /\ sweep \in [Sweepers -> Blocks \cup {NoBlk}]
    /\ fpc \in [Flushers -> {"idle", "run", "ok", "err"}]
    /\ fpend \in [Flushers -> SUBSET Blocks] /\ ferr \in [Flushers -> BOOLEAN]
    /\ clock \in Stamps /\ nwrites \in 0..MaxWrites
    /\ sdone \subseteq Buffers \X Blocks /\ panicked \in BOOLEAN

Attached == {bmap[k] : k \in {j \in Blocks : bmap[j] # NoBuf}}

\* Every buffer is either on FreeList once or attached to exactly one block
\* whose index it records; a free buffer is on neither the LRU nor chSync
\* (the Assert(buf.elm == nil) of ReSet when AllocBuffer reuses it), and a
\* buffer sent to chSync is off the LRU.
BufferAccounting ==
    /\ Len(freeList) = Cardinality(ToSet(freeList))
    /\ ToSet(freeList) \cap Attached = {}
    /\ ToSet(freeList) \cup Attached = Buffers
    /\ \A j, k \in Blocks : bmap[j] # NoBuf /\ j # k => bmap[j] # bmap[k]
    /\ \A k \in Blocks : bmap[k] # NoBuf => buf[bmap[k]].blk = k
    /\ ToSet(lru) \subseteq Attached
    /\ syncQ \subseteq Attached /\ syncQ \cap ToSet(lru) = {}

\* What a reader honouring the write cache (WCache.MergeOp over the proxy
\* data) sees at position p.
View(p) ==
    LET k == p \div BlockSize
        i == p % BlockSize
        b == bmap[k]
    IN  IF b # NoBuf /\ buf[b].off <= i /\ i < buf[b].off + buf[b].len
        THEN buf[b].data[i] ELSE disk[p]

\* No accepted write is lost: while the file exists, the proxy data overlaid
\* with the dirty buffers holds, at every position, the last write that
\* WCache.Write reported done.  Covers every error path of WriteOp,
\* FlushBuffer and SyncWrite.
CacheCoherent == ~deleted => \A p \in Pos : View(p) = latest[p]

\* WCache implements AbstractFile: what reads see is View, the proxy is disk.
AF == INSTANCE AbstractFile WITH Positions <- Pos, MaxLen <- BlockSize,
                                 content <- [p \in Pos |-> View(p)], stored <- disk

\* Every step of the write cache is a step of the abstract file: the view of
\* a reader changes only by an accepted write of one range with its stamp
\* (or by a drop after ENOENT), and the proxy only ever receives bytes that
\* readers currently see, so no flush, worker or direct write can put data
\* on the proxy that a later write already replaced.
RefinesAbstractFile == AF!Spec

\* Every dirty buffer will be written by someone: it is on the LRU (for the
\* sweepers), queued on chSync, held by a sweeper between LruExpire and
\* FlushBuffer, or pending in a running Flush.
EveryDirtyBufferTracked ==
    \A k \in Blocks : bmap[k] # NoBuf =>
        \/ bmap[k] \in ToSet(lru) \/ bmap[k] \in syncQ
        \/ \E s \in Sweepers : sweep[s] = k
        \/ \E f \in Flushers : fpc[f] = "run" /\ k \in fpend[f]

\* WCache.Flush returning nil means every write accepted before it started
\* is on the proxy (unless the file is gone).
FlushDurable ==
    \A f \in Flushers :
        fpc[f] = "ok" /\ ~deleted => \A p \in Pos : disk[p] >= fsnap[f][p]

\* Every dirty buffer is eventually written out (or dropped after ENOENT):
\* CheckExpire keeps taking the oldest buffer off the LRU, and a buffer
\* whose write failed with EIO goes back on the LRU and is tried again.
DirtyEventuallyWritten == \A k \in Blocks : bmap[k] # NoBuf ~> bmap[k] = NoBuf
=============================================================================

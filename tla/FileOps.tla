------------------------------- MODULE FileOps -------------------------------
(***************************************************************************)
(* The file facade of src/lib/libfs (file.go Open/Write/Close, stat.go     *)
(* Stat/Fstat) over the open-file table (FileCache), the write cache of    *)
(* wcache.go in its default asynchronous mode (SyncRoutine > 0), and the   *)
(* dentry cache (dentrycache.go over lru.go) for the one modelled path.    *)
(*                                                                         *)
(* Unlike WCache, which models one FileBuffer, this module keeps every     *)
(* FileBuffer the cache map ever held: cur is the one WCache.Cache maps    *)
(* the file id to, and a thread that looked a FileBuffer up keeps using it *)
(* after Close's DetachFileBuffer removed it from the map.  Data is        *)
(* abstracted to stamps as in WCache; a Write stays inside one block, and  *)
(* the proxy never fails (WCache covers the error paths).                  *)
(***************************************************************************)
EXTENDS FileCache, BlockOps, Naturals, Sequences, SequencesExt, FiniteSets

CONSTANTS
    Procs,          \* application threads calling the libfs API
    NBlocks,        \* blocks of the modelled file
    MaxIo,          \* largest Write request, in bytes
    NBufs,          \* WCache pool size (BufferMax)
    MaxFB,          \* bound on FileBuffers created (ids 1..MaxFB)
    MaxOps,         \* bound on API calls
    DirectModes,    \* O_DIRECT values Open may be called with
    DentryOn,       \* CfgDentryCacheSize > 0 (off by default: NewLRUCache(0) = nil)
    NoFd, NoBuf, NoDentry, NoBlk   \* model values

ASSUME MaxFB \in Nat \ {0} /\ NBufs \in Nat /\ DentryOn \in BOOLEAN
\* Buffers are counted, not named: with one buffer in the pool, the buffer
\* AllocBuffer hands out is the one a SyncWrite worker freed.
ASSUME NBufs = 1

FileId  == CHOOSE i \in Ids : TRUE     \* every call names the one modelled path
FBs     == 1..MaxFB
NoFB    == 0                            \* WCache.Cache has no entry for FileId
Blocks  == 0..(NBlocks - 1)
Offs    == 0..(BlockSize - 1)
FileLen == NBlocks * BlockSize
Pos     == 0..(FileLen - 1)

VARIABLES
    disk,           \* proxy file content: position -> stamp (0 = never written)
    cur,            \* WCache.Cache[FileId]
    nfb,            \* FileBuffers created so far
    fbuf,           \* FileBuffer.BufferMap of every FileBuffer: fb -> block -> buffer
    flock,          \* FileBuffer.LockMap (write locks): fb -> block -> held
    nfree,          \* len(WCache.FreeList)
    lru,            \* WCache.LruList of <<fb, block>>, front first
    syncQ,          \* buffers sent on chSync and not yet taken by SyncWrite
    sunlock,        \* SyncWrite workers past FreeBuffer: [fb, blk, now]
    sweep,          \* CheckExpire: block returned by LruExpire, or NoBlk
    dcache,         \* dentry cached for the path: its size, or NoDentry
    panic,          \* the Assert that failed and panicked the process, or "none"
    pc, pfd, pfb, pop, pblk, pend, plast, pres,   \* per-thread call state
    nops, latest, clock, wend, ssnap              \* bounds and history

cachevars == <<cur, nfb, fbuf, flock, nfree, lru, syncQ, sunlock>>
procvars  == <<pc, pfd, pfb, pop, pblk, pend, plast, pres>>
histvars  == <<latest, clock, wend, ssnap>>
vars == <<fcvars, disk, cachevars, sweep, dcache, panic, procvars, nops, histvars>>

(***************************************************************************)
(* Buffers (cache.go Buffer): Offset, Len and the stamps of the block.     *)
(***************************************************************************)
BufRec == [off : Offs, len : 1..BlockSize, data : [Offs -> Nat]]

\* the bytes [lo, lo+n) of a block set to stamp s, the rest kept from f
Fill(f, lo, n, s) == [i \in Offs |-> IF lo <= i /\ i < lo + n THEN s ELSE f[i]]

\* AllocBuffer or ReSet, then Skip(op.RwOffset) and MergeData(op.rwBuf)
NewBuf(op, s) == [off |-> op.RwOffset, len |-> op.RwSize,
                  data |-> Fill([i \in Offs |-> 0], op.RwOffset, op.RwSize, s)]
\* Faulty: a relaxed check that also merges a write overlapping the buffer.
CanMergeOverlap(r, o) == o <= r.off + r.len
CanMerge(r, o) == r.off + r.len = o                          \* Buffer.CanMerge
MergeBuf(r, op, s) ==                                        \* Buffer.MergeData
    [r EXCEPT !.len = @ + op.RwSize, !.data = Fill(@, r.off + r.len, op.RwSize, s)]
BufIsFull(r) == r.off + r.len = BlockSize                    \* Buffer.IsFull
TailOffset(k, r) == k * BlockSize + r.off + r.len            \* Buffer.GetTailOffset

\* DirectWrite of a buffer (GetData at GetFileOffset) or of an op's bytes
PutBuf(d, k, r) ==
    [p \in Pos |-> IF k * BlockSize + r.off <= p /\ p < TailOffset(k, r)
                   THEN r.data[p - k * BlockSize] ELSE d[p]]
PutOp(d, op, s) == PutBuf(d, op.Index, NewBuf(op, s))

DoLru(l, e)     == Cons(e, Remove(l, e))                     \* WCache.DoLru
RemoveLru(l, e) == Remove(l, e)                              \* WCache.RemoveLru

\* FileBuffer.GetAllBufferIndex and IsZeroCache
BufIdx(f) == {k \in Blocks : fbuf[f][k] # NoBuf}

\* the size the proxy's Stat reports: end of the last written byte
ProxySize(d) == LET w == {p + 1 : p \in {q \in Pos : d[q] # 0}}
                IN  IF w = {} THEN 0 ELSE CHOOSE m \in w : \A x \in w : x <= m

\* FileBuffer.UnLockBuffer: Assert(ok && tp == WriteLock) on the lock
UnLock(f, k) ==
    /\ flock' = [flock EXCEPT ![f][k] = FALSE]
    /\ panic' = IF flock[f][k] THEN panic ELSE "UnLockBuffer"

\* move thread p to program counter to
Goto(p, to) == pc' = [pc EXCEPT ![p] = to]

Init ==
    /\ FCInit
    /\ disk = [p \in Pos |-> 0]
    /\ cur = NoFB /\ nfb = 0
    /\ fbuf = [f \in FBs |-> [k \in Blocks |-> NoBuf]]
    /\ flock = [f \in FBs |-> [k \in Blocks |-> FALSE]]
    /\ nfree = NBufs /\ lru = <<>> /\ syncQ = {} /\ sunlock = {}
    /\ sweep = NoBlk /\ dcache = NoDentry /\ panic = "none"
    /\ pc = [p \in Procs |-> "idle"]
    /\ pfd = [p \in Procs |-> NoFd]
    /\ pfb = [p \in Procs |-> NoFB]
    /\ pop = [p \in Procs |-> BlockOp(0, 0, 1)]
    /\ pblk = [p \in Procs |-> 0]
    /\ pend = [p \in Procs |-> {}]
    /\ plast = [p \in Procs |-> FALSE]
    /\ pres = [p \in Procs |-> 0]
    /\ nops = 0
    /\ latest = [p \in Pos |-> 0] /\ clock = 0 /\ wend = 0
    /\ ssnap = [p \in Procs |-> 0]

Ent(p) == fileEntryVec[pfd[p]]          \* GetFileEntry of the thread's handle

(***************************************************************************)
(* Open (file.go): the proxy Open succeeds and NewFile stores the entry    *)
(* under the table lock, or fails with E_POSIX_EBADF when the table is     *)
(* full.  Open drops the dentry of the parent directory only.             *)
(***************************************************************************)
Open(p) ==
    /\ pc[p] = "idle" /\ pfd[p] = NoFd /\ nops < MaxOps
    /\ nops' = nops + 1
    /\ \E d \in DirectModes :
          \/ /\ NewFile([id |-> FileId, direct |-> d])
             /\ pfd' = [pfd EXCEPT ![p] = fileEntryIndex]
          \/ /\ NewFileFull
             /\ UNCHANGED <<fcvars, pfd>>
    /\ UNCHANGED <<disk, cachevars, sweep, dcache, panic, pc, pfb, pop, pblk,
                   pend, plast, pres, histvars>>

(***************************************************************************)
(* Write (file.go) through an O_DIRECT handle: writer.Write to the proxy.  *)
(***************************************************************************)
WriteDirect(p) ==
    /\ pc[p] = "idle" /\ pfd[p] # NoFd /\ Ent(p).direct /\ nops < MaxOps
    /\ nops' = nops + 1
    /\ clock' = clock + 1
    /\ \E k \in Blocks, o \in Offs, n \in 1..MaxIo :
          LET op == BlockOp(k, o, n) IN
          /\ o + n <= BlockSize
          /\ pop' = [pop EXCEPT ![p] = op]
          /\ disk' = PutOp(disk, op, clock + 1)
          /\ latest' = PutOp(latest, op, clock + 1)
    /\ Goto(p, "wret")
    /\ UNCHANGED <<fcvars, cachevars, sweep, dcache, panic, pfd, pfb, pblk,
                   pend, plast, pres, wend, ssnap>>

(***************************************************************************)
(* Write through a cached handle: RWCache.Write -> WCache.Write.  It looks *)
(* the FileBuffer up once, creating and mapping one if the file has none   *)
(* (GetFileBuffer(fe, true)), and keeps using it.  The request lies in one *)
(* block, so Slice yields the single op BlockOp(k, o, n).                  *)
(***************************************************************************)
WriteStart(p) ==
    /\ pc[p] = "idle" /\ pfd[p] # NoFd /\ ~Ent(p).direct /\ nops < MaxOps
    /\ nops' = nops + 1
    /\ \/ /\ cur # NoFB
          /\ pfb' = [pfb EXCEPT ![p] = cur]
          /\ UNCHANGED <<cur, nfb>>
       \/ /\ cur = NoFB /\ nfb < MaxFB               \* NewFileBuffer
          /\ nfb' = nfb + 1 /\ cur' = nfb + 1
          /\ pfb' = [pfb EXCEPT ![p] = nfb + 1]
    /\ \E k \in Blocks, o \in Offs, n \in 1..MaxIo :
          /\ o + n <= BlockSize
          /\ pop' = [pop EXCEPT ![p] = BlockOp(k, o, n)]
    /\ Goto(p, "wlock")
    /\ UNCHANGED <<fcvars, disk, fbuf, flock, nfree, lru, syncQ, sunlock, sweep,
                   dcache, panic, pfd, pblk, pend, plast, pres, histvars>>

\* FileBuffer.LockBuffer: spin until the block has no lock, then take it
WriteLock(p) ==
    LET f == pfb[p]  k == pop[p].Index IN
    /\ pc[p] = "wlock" /\ ~flock[f][k]
    /\ flock' = [flock EXCEPT ![f][k] = TRUE]
    /\ Goto(p, "wop")
    /\ UNCHANGED <<fcvars, disk, cur, nfb, fbuf, nfree, lru, syncQ, sunlock, sweep, dcache,
                   panic, pfd, pfb, pop, pblk, pend, plast, pres, nops, histvars>>

\* End of WriteOp for a buffer left in block k: a full buffer goes on
\* chSync with the block lock still held; otherwise DoLru and UnLockBuffer.
Park(f, k, l, full) ==
    IF full
    THEN /\ syncQ' = syncQ \cup {<<f, k>>}
         /\ lru' = l
         /\ UNCHANGED <<flock, panic>>
    ELSE /\ lru' = DoLru(l, <<f, k>>)
         /\ UnLock(f, k)
         /\ UNCHANGED syncQ

\* WCache.WriteOp on the FileBuffer looked up at WriteStart, then the
\* UnLockBuffer of WCache.Write when WriteOp kept the write synchronous.
WriteOp(p) ==
    LET f  == pfb[p]
        op == pop[p]
        k  == op.Index
        b  == fbuf[f][k]
        s  == clock + 1
        l1 == RemoveLru(lru, <<f, k>>)
    IN
    /\ pc[p] = "wop"
    /\ clock' = s
    /\ latest' = PutOp(latest, op, s)
    /\ \/ /\ b = NoBuf /\ nfree = 0                      \* AllocBuffer fails
          /\ disk' = PutOp(disk, op, s)
          /\ UnLock(f, k)
          /\ UNCHANGED <<fbuf, nfree, lru, syncQ, sunlock>>
       \/ /\ b = NoBuf /\ nfree > 0                      \* a new buffer
          /\ fbuf' = [fbuf EXCEPT ![f][k] = NewBuf(op, s)]
          /\ nfree' = nfree - 1
          /\ sunlock' = {[r EXCEPT !.now = k] : r \in sunlock}   \* ReSet
          /\ UNCHANGED disk
          /\ Park(f, k, lru, OpIsFull(op))
       \/ /\ b # NoBuf /\ CanMerge(b, op.RwOffset)      \* merge
          /\ fbuf' = [fbuf EXCEPT ![f][k] = MergeBuf(b, op, s)]
          /\ UNCHANGED <<disk, nfree, sunlock>>
          /\ Park(f, k, l1, BufIsFull(MergeBuf(b, op, s)))
       \/ /\ b # NoBuf /\ ~CanMerge(b, op.RwOffset)     \* flush first
          /\ UNCHANGED <<syncQ, sunlock>>
          /\ UnLock(f, k)
          /\ IF OpIsFull(op)
             THEN /\ disk' = PutOp(PutBuf(disk, k, b), op, s)
                  /\ fbuf' = [fbuf EXCEPT ![f][k] = NoBuf]
                  /\ nfree' = nfree + 1
                  /\ lru' = l1
             ELSE /\ disk' = PutBuf(disk, k, b)
                  /\ fbuf' = [fbuf EXCEPT ![f][k] = NewBuf(op, s)]
                  /\ lru' = DoLru(l1, <<f, k>>)
                  /\ UNCHANGED nfree
    /\ Goto(p, "wret")
    /\ UNCHANGED <<fcvars, cur, nfb, sweep, dcache, pfd, pfb, pop, pblk, pend,
                   plast, pres, nops, wend, ssnap>>

\* Write returns: the dentry of the path is removed (dentryCache.Remove).
WriteReturn(p) ==
    LET e == OpFileOffset(pop[p]) + pop[p].RwSize IN
    /\ pc[p] = "wret"
    /\ dcache' = NoDentry
    /\ wend' = IF e > wend THEN e ELSE wend
    /\ Goto(p, "idle")
    /\ UNCHANGED <<fcvars, disk, cachevars, sweep, panic, pfd, pfb, pop, pblk,
                   pend, plast, pres, nops, latest, clock, ssnap>>

(***************************************************************************)
(* Close (file.go): GetFileEntry; for a cached handle IsLastRefer, then    *)
(* WCache.Close (Flush, then DetachFileBuffer) if it was the last handle,  *)
(* or WCache.Flush only; finally CloseFile.  Each call takes its own lock, *)
(* so other threads run between them.                                      *)
(***************************************************************************)
CloseStart(p) ==
    /\ pc[p] = "idle" /\ pfd[p] # NoFd /\ nops < MaxOps
    /\ nops' = nops + 1
    /\ Goto(p, IF Ent(p).direct THEN "cfree" ELSE "clast")
    /\ UNCHANGED <<fcvars, disk, cachevars, sweep, dcache, panic, pfd, pfb,
                   pop, pblk, pend, plast, pres, histvars>>

\* A faulty Close that releases the table slot before the cache close.
CloseLastAfterFree(p) ==
    /\ pc[p] = "clast"
    /\ CloseFile(pfd[p])
    /\ IF fileRefer'[Ent(p).id] >= 1
       THEN /\ plast' = [plast EXCEPT ![p] = fileRefer'[Ent(p).id] = 1]
            /\ UNCHANGED panic
       ELSE /\ panic' = "LastRef"
            /\ UNCHANGED plast
    /\ Goto(p, "fstart")
    /\ UNCHANGED <<disk, cachevars, sweep, dcache, pfd, pfb, pop, pblk,
                   pend, pres, nops, histvars>>

\* A faulty Close whose non-last branch skips WCache.Flush.
CloseLastSkipFlush(p) ==
    /\ pc[p] = "clast"
    /\ IF fileRefer[Ent(p).id] >= 1
       THEN /\ plast' = [plast EXCEPT ![p] = IsLastRefer(Ent(p).id)]
            /\ UNCHANGED panic
       ELSE /\ panic' = "LastRef"
            /\ UNCHANGED plast
    /\ Goto(p, IF plast'[p] THEN "fstart" ELSE "cfree")
    /\ UNCHANGED <<fcvars, disk, cachevars, sweep, dcache, pfd, pfb,
                   pop, pblk, pend, pres, nops, histvars>>

\* IsLastRefer; LastRef Asserts that the count is at least 1
CloseLast(p) ==
    /\ pc[p] = "clast"
    /\ IF fileRefer[Ent(p).id] >= 1
       THEN /\ plast' = [plast EXCEPT ![p] = IsLastRefer(Ent(p).id)]
            /\ UNCHANGED panic
       ELSE /\ panic' = "LastRef"
            /\ UNCHANGED plast
    /\ Goto(p, "fstart")
    /\ UNCHANGED <<fcvars, disk, cachevars, sweep, dcache, pfd, pfb,
                   pop, pblk, pend, pres, nops, histvars>>

AfterFlush(p) == IF plast[p] THEN "cdetach" ELSE "cfree"

\* WCache.Flush: GetFileBuffer(fe, false) and GetAllBufferIndex
FlushStart(p) ==
    LET idx == IF cur = NoFB THEN {} ELSE BufIdx(cur) IN
    /\ pc[p] = "fstart"
    /\ pfb' = [pfb EXCEPT ![p] = cur]
    /\ pend' = [pend EXCEPT ![p] = idx]
    /\ Goto(p, IF idx = {} THEN AfterFlush(p) ELSE "fone")
    /\ UNCHANGED <<fcvars, disk, cachevars, sweep, dcache, panic, pfd, pop,
                   pblk, plast, pres, nops, histvars>>

\* WCache.FlushBuffer under the block lock: write the buffer out, detach
\* and free it (the proxy never fails here).
FlushBuffer(f, k) ==
    /\ ~flock[f][k]
    /\ IF fbuf[f][k] = NoBuf
       THEN UNCHANGED <<disk, fbuf, nfree, lru>>
       ELSE /\ disk' = PutBuf(disk, k, fbuf[f][k])
            /\ fbuf' = [fbuf EXCEPT ![f][k] = NoBuf]
            /\ nfree' = nfree + 1
            /\ lru' = RemoveLru(lru, <<f, k>>)

\* one of Flush's goroutines runs FlushBuffer for a snapshot index
FlushOne(p) ==
    \E k \in pend[p] :
       /\ pc[p] = "fone"
       /\ FlushBuffer(pfb[p], k)
       /\ pend' = [pend EXCEPT ![p] = @ \ {k}]
       /\ Goto(p, IF pend[p] = {k} THEN AfterFlush(p) ELSE "fone")
       /\ UNCHANGED <<fcvars, cur, nfb, flock, syncQ, sunlock, sweep, dcache, panic,
                      pfd, pfb, pop, pblk, plast, pres, nops, histvars>>

\* WCache.DetachFileBuffer: delete(cache.Cache, fe.Id), whatever it maps to
CloseDetach(p) ==
    /\ pc[p] = "cdetach"
    /\ cur' = NoFB
    /\ Goto(p, "cfree")
    /\ UNCHANGED <<fcvars, disk, nfb, fbuf, flock, nfree, lru, syncQ, sunlock,
                   sweep, dcache, panic, pfd, pfb, pop, pblk, pend, plast, pres, nops,
                   histvars>>

CloseFree(p) ==
    /\ pc[p] = "cfree"
    /\ CloseFile(pfd[p])
    /\ pfd' = [pfd EXCEPT ![p] = NoFd]
    /\ Goto(p, "idle")
    /\ UNCHANGED <<disk, cachevars, sweep, dcache, panic, pfb, pop, pblk, pend,
                   plast, pres, nops, histvars>>

(***************************************************************************)
(* Stat (stat.go): a dentry-cache hit returns the cached dentry; a miss    *)
(* runs doStat (the proxy's size), then WCache.StatSize, whose error sends *)
(* Stat back to the proxy, and caches the result.  Fstat runs StatSize     *)
(* first, ignores its error, then doStat.  StatSize looks the FileBuffer   *)
(* up, takes UpperIdx, then locks that block and reads its buffer; a      *)
(* buffer flushed in between gives E_POSIX_EIO.                           *)
(***************************************************************************)
StatStart(p) ==
    /\ pc[p] = "idle" /\ nops < MaxOps
    /\ nops' = nops + 1
    /\ ssnap' = [ssnap EXCEPT ![p] = wend]
    /\ \/ /\ dcache # NoDentry                       \* dentryCache.Get hit
          /\ pres' = [pres EXCEPT ![p] = dcache]
          /\ Goto(p, "sdone")
       \/ /\ dcache = NoDentry
          /\ Goto(p, "sdo")
          /\ UNCHANGED pres
    /\ UNCHANGED <<fcvars, disk, cachevars, sweep, dcache, panic, pfd, pfb, pop,
                   pblk, pend, plast, latest, clock, wend>>

FstatStart(p) ==
    /\ pc[p] = "idle" /\ pfd[p] # NoFd /\ nops < MaxOps
    /\ nops' = nops + 1
    /\ ssnap' = [ssnap EXCEPT ![p] = wend]
    /\ \/ /\ dcache # NoDentry
          /\ pres' = [pres EXCEPT ![p] = dcache]
          /\ Goto(p, "sdone")
       \/ /\ dcache = NoDentry
          /\ Goto(p, "fsize")
          /\ UNCHANGED pres
    /\ UNCHANGED <<fcvars, disk, cachevars, sweep, dcache, panic, pfd, pfb, pop,
                   pblk, pend, plast, latest, clock, wend>>

\* doStat in Stat (first call, and the retry after a StatSize error)
StatProxy(p) ==
    /\ pc[p] \in {"sdo", "sredo"}
    /\ pres' = [pres EXCEPT ![p] = ProxySize(disk)]
    /\ Goto(p, IF pc[p] = "sdo" THEN "ssize" ELSE "sset")
    /\ UNCHANGED <<fcvars, disk, cachevars, sweep, dcache, panic, pfd, pfb, pop,
                   pblk, pend, plast, nops, histvars>>

\* doStat in Fstat: the cache size found before overrides a smaller size
FstatProxy(p) ==
    LET d == ProxySize(disk) IN
    /\ pc[p] = "fdo"
    /\ pres' = [pres EXCEPT ![p] = IF d < @ THEN @ ELSE d]
    /\ Goto(p, "sset")
    /\ UNCHANGED <<fcvars, disk, cachevars, sweep, dcache, panic, pfd, pfb, pop,
                   pblk, pend, plast, nops, histvars>>

\* StatSize up to UpperIdx: no FileBuffer or an empty one gives size 0
StatSizeIdx(p) ==
    LET isStat == pc[p] = "ssize" IN
    /\ pc[p] \in {"ssize", "fsize"}
    /\ IF cur = NoFB \/ BufIdx(cur) = {}
       THEN /\ pres' = IF isStat THEN pres ELSE [pres EXCEPT ![p] = 0]
            /\ Goto(p, IF isStat THEN "sset" ELSE "fdo")
            /\ UNCHANGED <<pfb, pblk>>
       ELSE /\ pfb' = [pfb EXCEPT ![p] = cur]
            /\ pblk' = [pblk EXCEPT ![p] =
                          CHOOSE k \in BufIdx(cur) : \A j \in BufIdx(cur) : j <= k]
            /\ Goto(p, IF isStat THEN "slock" ELSE "flk")
            /\ UNCHANGED pres
    /\ UNCHANGED <<fcvars, disk, cachevars, sweep, dcache, panic, pfd, pop, pend,
                   plast, nops, histvars>>

\* StatSize's LockBuffer(UpperIdx), GetBuffer and GetTailOffset; the lock
\* is released on return, so the step leaves it free.
StatSizeRead(p) ==
    LET f == pfb[p]  k == pblk[p]  b == fbuf[f][k]
        isStat == pc[p] = "slock"
    IN
    /\ pc[p] \in {"slock", "flk"}
    /\ ~flock[f][k]
    /\ IF b = NoBuf                                   \* E_POSIX_EIO
       THEN /\ pres' = IF isStat THEN pres ELSE [pres EXCEPT ![p] = 0]
            /\ Goto(p, IF isStat THEN "sredo" ELSE "fdo")
       ELSE /\ pres' = [pres EXCEPT ![p] =
                          IF isStat /\ TailOffset(k, b) <= @ THEN @ ELSE TailOffset(k, b)]
            /\ Goto(p, IF isStat THEN "sset" ELSE "fdo")
    /\ UNCHANGED <<fcvars, disk, cachevars, sweep, dcache, panic, pfd, pfb, pop,
                   pblk, pend, plast, nops, histvars>>

\* dentryCache.Set of the result (a no-op while the dentry cache is off)
StatSet(p) ==
    /\ pc[p] = "sset"
    /\ dcache' = IF DentryOn THEN pres[p] ELSE dcache
    /\ Goto(p, "sdone")
    /\ UNCHANGED <<fcvars, disk, cachevars, sweep, panic, pfd, pfb, pop, pblk,
                   pend, plast, pres, nops, histvars>>

StatReturn(p) ==
    /\ pc[p] = "sdone"
    /\ Goto(p, "idle")
    /\ UNCHANGED <<fcvars, disk, cachevars, sweep, dcache, panic, pfd, pfb, pop,
                   pblk, pend, plast, pres, nops, histvars>>

(***************************************************************************)
(* Background goroutines and the environment.                              *)
(***************************************************************************)
\* WCache.SyncWrite for a buffer of block k taken from chSync.  It looks the
\* FileBuffer up again by file id and Asserts it exists, writes the buffer
\* out, then detaches block k from the FileBuffer it found, which is not
\* the buffer's own once Close detached that one, and frees the buffer.
SyncWrite(e) ==
    LET f == e[1]  k == e[2]  c == cur IN
    /\ e \in syncQ
    /\ syncQ' = syncQ \ {e}
    /\ IF c = NoFB
       THEN /\ panic' = "SyncWrite"
            /\ UNCHANGED <<disk, fbuf, nfree, sunlock>>
       ELSE /\ disk' = PutBuf(disk, k, fbuf[f][k])
            /\ fbuf' = [fbuf EXCEPT ![c][k] = NoBuf]
            /\ nfree' = nfree + 1
            /\ sunlock' = sunlock \cup {[fb |-> c, blk |-> k, now |-> k]}
            /\ UNCHANGED panic
    /\ UNCHANGED <<fcvars, cur, nfb, flock, lru, sweep, dcache, procvars, nops,
                   histvars>>

\* Its UnLockBuffer(buffer.BlkIdx), after FreeBuffer: BlkIdx is read with
\* no lock while AllocBuffer may ReSet the freed buffer for another block
\* (a data race), so the worker unlocks the block it wrote or the one the
\* buffer is bound to now, in the FileBuffer it found.
SyncUnlock(r) ==
    /\ r \in sunlock
    /\ sunlock' = sunlock \ {r}
    /\ \E j \in {r.blk, r.now} : UnLock(r.fb, j)
    /\ UNCHANGED <<fcvars, disk, cur, nfb, fbuf, nfree, lru, syncQ, sweep,
                   dcache, procvars, nops, histvars>>

\* CheckExpire: LruExpire takes the oldest buffer off the LRU and returns
\* its file entry and block (expiry time abstracted: any may be old enough)
LruExpire ==
    /\ sweep = NoBlk /\ lru # <<>>
    /\ sweep' = Last(lru)[2]
    /\ lru' = Front(lru)
    /\ UNCHANGED <<fcvars, disk, cur, nfb, fbuf, flock, nfree, syncQ, sunlock, dcache,
                   panic, procvars, nops, histvars>>

\* then GetFileBuffer(fe, false): none mapped means `continue`
SweepFlush ==
    /\ sweep # NoBlk
    /\ sweep' = NoBlk
    /\ IF cur = NoFB
       THEN UNCHANGED <<disk, fbuf, nfree, lru>>
       ELSE FlushBuffer(cur, sweep)
    /\ UNCHANGED <<fcvars, cur, nfb, flock, syncQ, sunlock, dcache, panic, procvars, nops,
                   histvars>>

\* the cached dentry expires (ExpireTime) or is evicted by other paths
DentryExpire ==
    /\ dcache # NoDentry
    /\ dcache' = NoDentry
    /\ UNCHANGED <<fcvars, disk, cachevars, sweep, panic, procvars, nops, histvars>>

Next ==
    /\ panic = "none"
    /\ \/ \E p \in Procs :
             \/ Open(p) \/ WriteDirect(p) \/ WriteStart(p) \/ WriteLock(p)
             \/ WriteOp(p) \/ WriteReturn(p)
             \/ CloseStart(p) \/ CloseLast(p) \/ FlushStart(p) \/ FlushOne(p)
             \/ CloseDetach(p) \/ CloseFree(p)
             \/ StatStart(p) \/ FstatStart(p) \/ StatProxy(p) \/ FstatProxy(p)
             \/ StatSizeIdx(p) \/ StatSizeRead(p) \/ StatSet(p) \/ StatReturn(p)
       \/ \E e \in syncQ : SyncWrite(e)
       \/ \E r \in sunlock : SyncUnlock(r)
       \/ LruExpire \/ SweepFlush \/ DentryExpire

Spec == Init /\ [][Next]_vars

(***************************************************************************)
(* Properties.                                                             *)
(***************************************************************************)
FOTypeOK ==
    /\ FCTypeOK
    /\ disk \in [Pos -> Nat] /\ latest \in [Pos -> Nat]
    /\ cur \in FBs \cup {NoFB} /\ nfb \in 0..MaxFB
    /\ fbuf \in [FBs -> [Blocks -> BufRec \cup {NoBuf}]]
    /\ \A f \in FBs, k \in Blocks :
          fbuf[f][k] # NoBuf => fbuf[f][k].off + fbuf[f][k].len <= BlockSize
    /\ flock \in [FBs -> [Blocks -> BOOLEAN]]
    /\ nfree \in 0..NBufs /\ lru \in Seq(FBs \X Blocks) /\ syncQ \subseteq FBs \X Blocks
    /\ sunlock \subseteq [fb : FBs, blk : Blocks, now : Blocks]
    /\ sweep \in Blocks \cup {NoBlk} /\ dcache \in 0..FileLen \cup {NoDentry}
    /\ panic \in {"none", "LastRef", "SyncWrite", "UnLockBuffer"}
    /\ pfd \in [Procs -> Slots \cup {NoFd}] /\ pres \in [Procs -> 0..FileLen]
    /\ nops \in 0..MaxOps

\* Close's IsLastRefer runs while the thread's own handle is still in the
\* table, so fileRefer.LastRef's Assert(ok && ref >= 1) never panics.
LastRefAssertHolds == panic # "LastRef"

\* what a read of position q returns: RWCache.doRead overlays the buffers
\* of the FileBuffer WCache.Cache maps the file to on the proxy's data;
\* once the process has panicked, only the proxy's data is left
View(q) ==
    LET k == q \div BlockSize
        i == q % BlockSize
        b == IF cur = NoFB THEN NoBuf ELSE fbuf[cur][k]
    IN  IF panic = "none" /\ b # NoBuf /\ b.off <= i /\ i < b.off + b.len
        THEN b.data[i] ELSE disk[q]

\* spec.md 56-57, 264: a FileBuffer is detached on the last Close and
\* never while another handle references the file, and a non-last Close
\* only flushes.  So every write WCache accepted stays readable: through
\* the mapped FileBuffer until a flush or SyncWrite puts it on the proxy.
\* Close decides "last" (IsLastRefer) before Flush and DetachFileBuffer,
\* and WCache.Write looks the FileBuffer up once, before locking a block.
AcceptedWritesVisible == \A q \in Pos : View(q) = latest[q]

\* spec.md 269: Stat after a buffered Write reports a size at least the
\* end of that write.  Stat and Fstat read the proxy size and the cache
\* size (WCache.StatSize) at different moments, and cache the result in
\* the dentry cache, which a Write clears before it returns.
StatSeesWrites == \A p \in Procs : pc[p] = "sdone" => pres[p] >= ssnap[p]

(***************************************************************************)
(* file.go Close decides IsLastRefer before CloseFile, so two threads      *)
(* closing the last two handles can both see a count of 2: both only      *)
(* flush and neither detaches, and the FileBuffer stays in WCache.Cache.   *)
(* That leak must be harmless: once no handle is open and no call runs,    *)
(* the FileBuffer the map still holds has no buffered data, because every  *)
(* Close, last or not, has flushed what its thread wrote.                  *)
(***************************************************************************)
ClosedFileFlushed ==
    (\A p \in Procs : pc[p] = "idle" /\ pfd[p] = NoFd)
        => cur = NoFB \/ BufIdx(cur) = {}
=============================================================================

------------------------------- MODULE RCache -------------------------------
(***************************************************************************)
(* The read cache of one open file (src/lib/libfs/rcache.go, with the      *)
(* FileBuffer lock table and PrefetchWindow of cache.go).                  *)
(*                                                                         *)
(* Actors: reader threads running RWCache.doRead (TryDoPrefetch, then for  *)
(* each block RLockBuffer, ReadOp, RUnLockBuffer), PrefetchRead workers    *)
(* fed by chPrefetch, and the CheckExpire goroutine.  Writers reach the    *)
(* read cache only through RCache.Clean, i.e. ReleaseBuffer per block.     *)
(*                                                                         *)
(* Standing alone, this module lets readers run with no write-side         *)
(* FileBuffer (doRead before the first write of the file), and Clean is    *)
(* an environment step.  RWCache composes it with WCache.                  *)
(*                                                                         *)
(* The modelled file is NBlocks whole blocks long, so a proxy read of one  *)
(* of its blocks returns the whole block; prefetch ops past the last block *)
(* (DirectRead returns size 0, nothing is cached) are left out.            *)
(***************************************************************************)
EXTENDS BlockOps, Naturals, Sequences, FiniteSets, SequencesExt

CONSTANTS
    NBlocks,          \* blocks in the modelled file
    RBuffers,         \* the pool of RCache (BufferMax Buffer objects)
    Readers,          \* threads calling RWCache.Read
    PrefetchRoutine,  \* PrefetchRead workers = chPrefetch capacity; 0 = off
    PrefetchTimes,    \* growth factor of the first prefetch window
    MaxReads,         \* bound on Read calls
    MaxIo,            \* largest Read request, in bytes
    NoBuf, NoBlk      \* model values: empty map slot, idle sweeper

ASSUME NBlocks \in Nat \ {0} /\ PrefetchRoutine \in Nat /\ PrefetchTimes \in Nat
ASSUME MaxReads \in Nat /\ MaxIo \in Nat \ {0}

Blocks   == 0..(NBlocks - 1)
Offs     == 0..(BlockSize - 1)
FileLen  == NBlocks * BlockSize
Pos      == 0..(FileLen - 1)

VARIABLES
    disk,     \* proxy file content: position -> stamp
    deleted,  \* the file was removed on the proxy: DirectRead fails
    rfree,    \* RCache.FreeList
    rbmap,    \* BufferMap of the file's RCache FileBuffer: block -> buffer
    rbuf,     \* Buffer: BlkIdx and the block's data (Offset 0, Len BlockSize)
    rlru,     \* RCache.LruList, front first
    rlock,    \* LockMap of the file's RCache FileBuffer: block -> [tp, refer]
    pw,       \* FileBuffer.pw, the prefetch window
    pq,       \* blocks sent on chPrefetch whose worker has not finished
    rsweep,   \* block returned by LruExpire to CheckExpire, not yet released
    rfile,    \* RCache.Cache holds the file's FileBuffer
    rpc, rops, rreq, \* reader: pc, ops of Slice left, the request (off, size)
    rwfb,     \* reader: doRead found a write-side FileBuffer
    rdata,    \* reader: block data returned by the current ReadOp
    rres,     \* reader: data assembled so far, position -> stamp
    rpf,      \* reader: blocks of the prefetch window left to lock and send
    nreads    \* Read calls so far

rcvars == <<rfree, rbmap, rbuf, rlru, rlock, pw, pq, rsweep, rfile>>
rdvars == <<rpc, rops, rreq, rwfb, rdata, rres, rpf, nreads>>
vars   == <<disk, deleted, rcvars, rdvars>>

NoLock == [tp |-> "none", refer |-> 0]
EmptyRBuf == [blk |-> 0, data |-> [i \in Offs |-> 0]]

\* the proxy's data of block k
BlockData(k) == [i \in Offs |-> disk[k * BlockSize + i]]

\* FileBuffer.RLockBuffer / RUnLockBuffer on a lock table
RLocked(l) == [tp |-> "read", refer |-> l.refer + 1]
\* Faulty: the entry is kept when its last reader leaves.
RUnlockedKeep(l) == [l EXCEPT !.refer = @ - 1]
RUnlocked(l) == IF l.refer = 1 THEN NoLock ELSE [l EXCEPT !.refer = @ - 1]

\* the data of one op merged into the read's result
PutRes(res, op, data) ==
    [p \in Pos |-> IF OpFileOffset(op) <= p /\ p < OpFileOffset(op) + op.RwSize
                   THEN data[p - op.Index * BlockSize] ELSE res[p]]

\* where a reader goes for its next block op
FirstOp(wfb) == IF wfb THEN "wlock" ELSE "rlock"

(***************************************************************************)
(* RCache.ReleaseBuffer: under the block lock, take the block's buffer off *)
(* the LRU, detach it and put it back on FreeList.  Called by Clean after  *)
(* every write, by the sweeper and by Release.                             *)
(***************************************************************************)
\* Faulty: the buffer is detached but never returned to FreeList.
ReleaseBufferNoFree(k) ==
    /\ rlock[k] = NoLock
    /\ UNCHANGED rlock
    /\ IF rbmap[k] = NoBuf
       THEN UNCHANGED <<rfree, rbmap, rbuf, rlru>>
       ELSE /\ rlru' = Remove(rlru, rbmap[k])
            /\ rbmap' = [rbmap EXCEPT ![k] = NoBuf]
            /\ UNCHANGED <<rfree, rbuf>>

ReleaseBuffer(k) ==
    /\ rlock[k] = NoLock
    /\ UNCHANGED rlock
    /\ IF rbmap[k] = NoBuf
       THEN UNCHANGED <<rfree, rbmap, rbuf, rlru>>
       ELSE LET b == rbmap[k] IN
            /\ rlru' = Remove(rlru, b)
            /\ rbmap' = [rbmap EXCEPT ![k] = NoBuf]
            /\ rfree' = Append(rfree, b)
            /\ rbuf' = [rbuf EXCEPT ![b] = EmptyRBuf]

(***************************************************************************)
(* Readers: RWCache.doRead.  GetFileBuffer(fe, true) creates the read-side *)
(* FileBuffer, TryDoPrefetch runs when there are prefetch workers, then    *)
(* the write-side FileBuffer is looked up once and the ops of Slice are    *)
(* read one by one.                                                        *)
(***************************************************************************)
StartRead(r) ==
    /\ rpc[r] = "idle"
    /\ nreads < MaxReads
    /\ \E o \in Pos, n \in 1..MaxIo :
          /\ o + n <= FileLen
          /\ rreq' = [rreq EXCEPT ![r] = [off |-> o, size |-> n]]
          /\ rops' = [rops EXCEPT ![r] = Slice(o, n)]
    /\ rfile' = TRUE
    /\ rres' = [rres EXCEPT ![r] = [p \in Pos |-> 0]]
    /\ rpc' = [rpc EXCEPT ![r] = IF PrefetchRoutine > 0 THEN "window" ELSE "getw"]
    /\ nreads' = nreads + 1
    /\ UNCHANGED <<disk, deleted, rfree, rbmap, rbuf, rlru, rlock, pw, pq, rsweep,
                   rwfb, rdata, rpf>>

\* after a block of the prefetch window is done
AfterPrefetch(rest) == IF rest = <<>> THEN "getw" ELSE "prefetch"

\* Faulty: the first window is grown by one time too few.
NewWindowOffByOne(rw) == WinExtend(WinMove(rw), PrefetchTimes - 1)

\* the window DoPrefetch sets on the first read from block 0
NewWindow(rw) == WinExtend(WinMove(rw), PrefetchTimes)

\* DoPrefetch, the part under pwLock: start, advance or keep the window
DoPrefetchWindow(r) ==
    LET rw    == GetReadWindow(rreq[r].size, rreq[r].off)
        first == rw.BlkStart = 0 /\ WinSize(pw) = 0
        npw   == IF first THEN NewWindow(rw) ELSE WinMove(pw)
        todo  == SelectSeq([i \in 1..WinSize(npw) |-> npw.BlkStart + i - 1],
                           LAMBDA k : k < NBlocks)
    IN
    /\ rpc[r] = "window"
    /\ IF first \/ WinCross(pw, rw)
       THEN /\ pw' = npw
            /\ rpf' = [rpf EXCEPT ![r] = todo]
            /\ rpc' = [rpc EXCEPT ![r] = AfterPrefetch(todo)]
       ELSE /\ rpc' = [rpc EXCEPT ![r] = "getw"]
            /\ UNCHANGED <<pw, rpf>>
    /\ UNCHANGED <<disk, deleted, rfree, rbmap, rbuf, rlru, rlock, pq, rsweep, rfile,
                   rops, rreq, rwfb, rdata, rres, nreads>>

\* DoPrefetch loop: LockBuffer, then keep the lock for the worker unless
\* the block is already cached
PrefetchLock(r) ==
    LET k == Head(rpf[r]) IN
    /\ rpc[r] = "prefetch"
    /\ rlock[k] = NoLock
    /\ IF rbmap[k] # NoBuf
       THEN /\ rpf' = [rpf EXCEPT ![r] = Tail(@)]
            /\ rpc' = [rpc EXCEPT ![r] = AfterPrefetch(Tail(rpf[r]))]
            /\ UNCHANGED rlock
       ELSE /\ rlock' = [rlock EXCEPT ![k] = [tp |-> "write", refer |-> 0]]
            /\ rpc' = [rpc EXCEPT ![r] = "push"]
            /\ UNCHANGED rpf
    /\ UNCHANGED <<disk, deleted, rfree, rbmap, rbuf, rlru, pw, pq, rsweep, rfile,
                   rops, rreq, rwfb, rdata, rres, nreads>>

\* chPrefetch <- op: blocks while the channel and the workers are all busy
PrefetchPush(r) ==
    /\ rpc[r] = "push"
    /\ Cardinality(pq) < 2 * PrefetchRoutine
    /\ pq' = pq \cup {Head(rpf[r])}
    /\ rpf' = [rpf EXCEPT ![r] = Tail(@)]
    /\ rpc' = [rpc EXCEPT ![r] = AfterPrefetch(Tail(rpf[r]))]
    /\ UNCHANGED <<disk, deleted, rfree, rbmap, rbuf, rlru, rlock, pw, rsweep, rfile,
                   rops, rreq, rwfb, rdata, rres, nreads>>

\* wCache.GetFileBuffer(fe, false) found nothing
NoWriteBuffer(r) ==
    /\ rpc[r] = "getw"
    /\ rwfb' = [rwfb EXCEPT ![r] = FALSE]
    /\ rpc' = [rpc EXCEPT ![r] = "rlock"]
    /\ UNCHANGED <<disk, deleted, rcvars, rops, rreq, rdata, rres, rpf, nreads>>

\* fileBufRead.RLockBuffer: spin while a write lock is held on the block
RLockR(r) ==
    LET k == Head(rops[r]).Index IN
    /\ rpc[r] = "rlock"
    /\ rlock[k].tp # "write"
    /\ rlock' = [rlock EXCEPT ![k] = RLocked(@)]
    /\ rpc' = [rpc EXCEPT ![r] = "read"]
    /\ UNCHANGED <<disk, deleted, rfree, rbmap, rbuf, rlru, pw, pq, rsweep, rfile,
                   rops, rreq, rwfb, rdata, rres, rpf, nreads>>

\* RCache.ReadOp, then RUnLockBuffer: the cached block, or DirectRead,
\* which fails once the file is gone
ReadOpStep(r) ==
    LET k == Head(rops[r]).Index IN
    /\ rpc[r] = "read"
    /\ rlock' = [rlock EXCEPT ![k] = RUnlocked(@)]
    /\ IF rbmap[k] = NoBuf /\ deleted
       THEN /\ rpc' = [rpc EXCEPT ![r] = "fail"]
            /\ UNCHANGED rdata
       ELSE /\ rdata' = [rdata EXCEPT ![r] = IF rbmap[k] # NoBuf THEN rbuf[rbmap[k]].data
                                            ELSE BlockData(k)]
            /\ rpc' = [rpc EXCEPT ![r] = "merge"]
    /\ UNCHANGED <<disk, deleted, rfree, rbmap, rbuf, rlru, pw, pq, rsweep, rfile,
                   rops, rreq, rwfb, rres, rpf, nreads>>

\* no write-side FileBuffer: the op's data is used as read
ReadNext(r) ==
    LET rest == Tail(rops[r]) IN
    /\ rpc[r] = "merge"
    /\ ~rwfb[r]
    /\ rres' = [rres EXCEPT ![r] = PutRes(@, Head(rops[r]), rdata[r])]
    /\ rops' = [rops EXCEPT ![r] = rest]
    /\ rpc' = [rpc EXCEPT ![r] = IF rest = <<>> THEN "done" ELSE "rlock"]
    /\ UNCHANGED <<disk, deleted, rcvars, rreq, rwfb, rdata, rpf, nreads>>

\* the error return of doRead
ReadFail(r) ==
    /\ rpc[r] = "fail"
    /\ ~rwfb[r]
    /\ rpc' = [rpc EXCEPT ![r] = "idle"]
    /\ rops' = [rops EXCEPT ![r] = <<>>]
    /\ UNCHANGED <<disk, deleted, rcvars, rreq, rwfb, rdata, rres, rpf, nreads>>

ReadReturn(r) ==
    /\ rpc[r] = "done"
    /\ rpc' = [rpc EXCEPT ![r] = "idle"]
    /\ UNCHANGED <<disk, deleted, rcvars, rops, rreq, rwfb, rdata, rres, rpf, nreads>>

(***************************************************************************)
(* PrefetchRead workers: DoPrefetchRead reads the whole block from the     *)
(* proxy, allocates a buffer, attaches it and puts it on the LRU; then the *)
(* worker releases the block lock the reader left held, whatever the       *)
(* result.  Only the block lock is held: nothing orders this proxy read    *)
(* with the write cache.                                                   *)
(***************************************************************************)
\* Faulty: the lock is released only when a buffer was attached.
PrefetchReadKeepLockOnFail(k) ==
    IF deleted \/ rfree = <<>>
    THEN UNCHANGED <<rfree, rbmap, rbuf, rlru, rlock>>
    ELSE LET b == Head(rfree) IN
         /\ rfree' = Tail(rfree)
         /\ rbuf' = [rbuf EXCEPT ![b] = [blk |-> k, data |-> BlockData(k)]]
         /\ rbmap' = [rbmap EXCEPT ![k] = b]
         /\ rlru' = Cons(b, rlru)
         /\ rlock' = [rlock EXCEPT ![k] = NoLock]

\* DoPrefetchRead (DirectRead error, AllocBuffer failure, or attach), then
\* UnLockBuffer
DoPrefetchRead(k) ==
    /\ rlock' = [rlock EXCEPT ![k] = NoLock]
    /\ IF deleted \/ rfree = <<>>
       THEN UNCHANGED <<rfree, rbmap, rbuf, rlru>>
       ELSE LET b == Head(rfree) IN
            /\ rfree' = Tail(rfree)
            /\ rbuf' = [rbuf EXCEPT ![b] = [blk |-> k, data |-> BlockData(k)]]
            /\ rbmap' = [rbmap EXCEPT ![k] = b]
            /\ rlru' = Cons(b, rlru)

PrefetchRead(k) ==
    /\ k \in pq
    /\ pq' = pq \ {k}
    /\ DoPrefetchRead(k)
    /\ UNCHANGED <<disk, deleted, pw, rsweep, rfile, rdvars>>

(***************************************************************************)
(* CheckExpire: LruExpire takes the oldest buffer off the LRU (expiry time *)
(* is abstracted: any buffer may be old enough), then ReleaseBuffer runs   *)
(* for its block index, whatever buffer that block holds by then.          *)
(***************************************************************************)
RLruExpire ==
    /\ rsweep = NoBlk
    /\ rlru # <<>>
    /\ rsweep' = rbuf[Last(rlru)].blk
    /\ rlru' = Front(rlru)
    /\ UNCHANGED <<disk, deleted, rfree, rbmap, rbuf, rlock, pw, pq, rfile, rdvars>>

RSweepRelease ==
    /\ rsweep # NoBlk
    /\ ReleaseBuffer(rsweep)
    /\ rsweep' = NoBlk
    /\ UNCHANGED <<disk, deleted, pw, pq, rfile, rdvars>>

\* RCache.Clean of one block, as RWCache.Write runs it after each write
Clean(k) ==
    /\ rfile
    /\ ReleaseBuffer(k)
    /\ UNCHANGED <<disk, deleted, pw, pq, rsweep, rfile, rdvars>>

\* the file is removed on the proxy: DirectRead fails from now on
RemoteDelete ==
    /\ ~deleted
    /\ deleted' = TRUE
    /\ UNCHANGED <<disk, rcvars, rdvars>>

(***************************************************************************)
(* The specification.  NewRCache puts every buffer on FreeList; the        *)
(* FileBuffer starts with an empty map, no locks and the window [0, 0).    *)
(***************************************************************************)
Init ==
    /\ disk = [p \in Pos |-> 0]
    /\ deleted = FALSE
    /\ rfree = SetToSeq(RBuffers)
    /\ rbmap = [k \in Blocks |-> NoBuf]
    /\ rbuf = [b \in RBuffers |-> EmptyRBuf]
    /\ rlru = <<>>
    /\ rlock = [k \in Blocks |-> NoLock]
    /\ pw = Window(0, 0)
    /\ pq = {}
    /\ rsweep = NoBlk
    /\ rfile = FALSE
    /\ rpc = [r \in Readers |-> "idle"]
    /\ rops = [r \in Readers |-> <<>>]
    /\ rreq = [r \in Readers |-> [off |-> 0, size |-> 0]]
    /\ rwfb = [r \in Readers |-> FALSE]
    /\ rdata = [r \in Readers |-> [i \in Offs |-> 0]]
    /\ rres = [r \in Readers |-> [p \in Pos |-> 0]]
    /\ rpf = [r \in Readers |-> <<>>]
    /\ nreads = 0

\* the steps of a started read, taken by the reader's own thread
ReaderStep(r) ==
    \/ DoPrefetchWindow(r) \/ PrefetchLock(r) \/ PrefetchPush(r)
    \/ NoWriteBuffer(r) \/ RLockR(r) \/ ReadOpStep(r) \/ ReadNext(r)
    \/ ReadFail(r) \/ ReadReturn(r)

Next ==
    \/ \E r \in Readers : StartRead(r) \/ ReaderStep(r)
    \/ \E k \in Blocks : PrefetchRead(k) \/ Clean(k)
    \/ RLruExpire \/ RSweepRelease
    \/ RemoteDelete

(***************************************************************************)
(* Fairness: a started read, the workers and the sweeper keep being        *)
(* scheduled.  Starting a read, a write's Clean and the remote delete are  *)
(* the environment's choice.  The spinning locks are held only for one     *)
(* step, by a reader between two steps, or by a queued prefetch op that a  *)
(* worker will finish, so weak fairness suffices once reads stop.          *)
(***************************************************************************)
Fairness ==
    /\ \A r \in Readers : WF_vars(ReaderStep(r))
    /\ \A k \in Blocks : WF_vars(PrefetchRead(k))
    /\ WF_vars(RLruExpire) /\ WF_vars(RSweepRelease)

Spec == Init /\ [][Next]_vars /\ Fairness

(***************************************************************************)
(* Properties.                                                             *)
(***************************************************************************)
LockRec == {NoLock} \cup [tp : {"write"}, refer : {0}]
                    \cup [tp : {"read"}, refer : 1..Cardinality(Readers)]

RPcs == {"idle", "window", "prefetch", "push", "getw", "wlock", "rlock", "read",
         "merge", "fail", "done"}

\* Every variable has its type; a window never ends before it starts (the
\* Assert of PrefetchWindow.Size), and a read-lock entry exists only while
\* a reader holds it (the Assert of RUnLockBuffer).
RTypeOK ==
    /\ rfree \in Seq(RBuffers) /\ rlru \in Seq(RBuffers)
    /\ rbmap \in [Blocks -> RBuffers \cup {NoBuf}]
    /\ rbuf \in [RBuffers -> [blk : Blocks, data : [Offs -> Nat]]]
    /\ rlock \in [Blocks -> LockRec]
    /\ pw \in [BlkStart : Nat, BlkEnd : Nat] /\ pw.BlkStart <= pw.BlkEnd
    /\ pq \subseteq Blocks /\ rsweep \in Blocks \cup {NoBlk} /\ rfile \in BOOLEAN
    /\ rpc \in [Readers -> RPcs] /\ rwfb \in [Readers -> BOOLEAN]
    /\ rpf \in [Readers -> Seq(Blocks)] /\ nreads \in 0..MaxReads

RAttached == {rbmap[k] : k \in {j \in Blocks : rbmap[j] # NoBuf}}

\* Every read buffer is on FreeList once or attached to exactly one block
\* whose index it records, and only attached buffers are on the LRU:
\* ReleaseBuffer from Clean, the sweeper and a worker's AllocBuffer never
\* leak or share a buffer.
RBufferAccounting ==
    /\ Len(rfree) = Cardinality(ToSet(rfree))
    /\ ToSet(rfree) \cap RAttached = {}
    /\ ToSet(rfree) \cup RAttached = RBuffers
    /\ \A j, k \in Blocks : rbmap[j] # NoBuf /\ j # k => rbmap[j] # rbmap[k]
    /\ \A k \in Blocks : rbmap[k] # NoBuf => rbuf[rbmap[k]].blk = k
    /\ ToSet(rlru) \subseteq RAttached

\* the readers in DoPrefetch holding the write lock of block k
Pushing(k) == {r \in Readers : rpc[r] = "push" /\ Head(rpf[r]) = k}

\* the readers between RLockBuffer and RUnLockBuffer on block k
ReadingR(k) == {r \in Readers : rpc[r] = "read" /\ Head(rops[r]).Index = k}

\* The lock table says exactly who holds each block: a write lock belongs to
\* one prefetch op, held by its reader until it is sent on chPrefetch and
\* then by the worker until DoPrefetchRead is done; the read count is the
\* number of readers inside ReadOp.  A lock the worker forgets on an error
\* path blocks every later reader and Clean of the block.
RLockOwnership ==
    \A k \in Blocks :
        /\ Cardinality(Pushing(k)) + (IF k \in pq THEN 1 ELSE 0)
              = (IF rlock[k].tp = "write" THEN 1 ELSE 0)
        /\ rlock[k].refer = Cardinality(ReadingR(k))

\* the block window of reader r's request
ReadWindow(r) == GetReadWindow(rreq[r].size, rreq[r].off)

\* DoPrefetch never reaches its Assert(pw.Size() > 0): whenever a read's
\* window crosses the prefetch window without starting a new one, the
\* prefetch window is not empty.
PrefetchAssertHolds ==
    \A r \in Readers :
        /\ rpc[r] = "window"
        /\ ~(ReadWindow(r).BlkStart = 0 /\ WinSize(pw) = 0)
        /\ WinCross(pw, ReadWindow(r))
        => WinSize(pw) > 0

\* Every Read returns: no prefetch lock is left behind and no reader waits
\* forever on a block lock.
ReadCompletes == \A r \in Readers : rpc[r] # "idle" ~> rpc[r] = "idle"
=============================================================================

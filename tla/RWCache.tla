------------------------------ MODULE RWCache ------------------------------
(***************************************************************************)
(* RWCache (src/lib/libfs/rwcache.go): the write cache and the read cache  *)
(* of one file, composed over the proxy they share.                        *)
(*                                                                         *)
(*   Write = WCache.Write, then RCache.Clean over the request's blocks     *)
(*           (even when the write failed);                                 *)
(*   Read  = doRead: TryDoPrefetch, then per block RLockBuffer on the      *)
(*           write side, RLockBuffer / ReadOp / RUnLockBuffer on the read  *)
(*           side, WCache.MergeOp and RUnLockBuffer on the write side.     *)
(*                                                                         *)
(* Every step of WCache and RCache is reused through INSTANCE; this module *)
(* adds the steps that touch both caches and the history that says which  *)
(* writes had returned when a read started.                               *)
(***************************************************************************)
EXTENDS BlockOps, Naturals, Sequences, FiniteSets, SequencesExt

CONSTANTS
    NBlocks, MaxIo, NoBuf, NoBlk,
    Buffers, SyncRoutine, Writers, Sweepers, Flushers, MaxWrites, MaxFaults,
    RBuffers, Readers, PrefetchRoutine, PrefetchTimes, MaxReads

VARIABLES
    disk, deleted, faults, freeList, bmap, buf, lru, lockMap, syncQ,
    wpc, wops, sweep, fpc, fpend, ferr, fsnap, latest, clock, nwrites,
    sdone, panicked,
    rfree, rbmap, rbuf, rlru, rlock, pw, pq, rsweep, rfile,
    rpc, rops, rreq, rwfb, rdata, rres, rpf, nreads,
    cpc,        \* writer: "write" (in WCache.Write), "clean", "ret"
    wclean,     \* writer: blocks of GetReadWindow that Clean has left to release
    wlast,      \* writer: the stamps its current call wrote, position -> stamp
    committed,  \* history: per position, newest stamp of a Write that returned
    rsnap       \* reader: committed when its Read was called

W == INSTANCE WCache
R == INSTANCE RCache

\* the variable groups of WCache and RCache (as in those modules)
cvars  == <<freeList, bmap, buf, lru, syncQ>>
wvars  == <<wpc, wops>>
fvars  == <<fpc, fpend, ferr, fsnap>>
wcvars == <<disk, deleted, faults, cvars, lockMap, wvars, sweep, fvars,
            latest, clock, nwrites, sdone, panicked>>
rcvars == <<rfree, rbmap, rbuf, rlru, rlock, pw, pq, rsweep, rfile>>
rdvars == <<rpc, rops, rreq, rwfb, rdata, rres, rpf, nreads>>
hvars  == <<cpc, wclean, wlast, committed, rsnap>>
vars   == <<wcvars, rcvars, rdvars, hvars>>

Pos == W!Pos

\* the blocks of a window, in order
WinBlocks(win) == [i \in 1..WinSize(win) |-> win.BlkStart + i - 1]

(***************************************************************************)
(* Writers: RWCache.Write.                                                 *)
(***************************************************************************)
WStart(w) ==
    /\ cpc[w] = "write"
    /\ W!StartWrite(w)
    /\ \E o \in Pos, n \in 1..MaxIo :
          /\ wops'[w] = Slice(o, n)
          /\ wclean' = [wclean EXCEPT ![w] = WinBlocks(GetReadWindow(n, o))]
    /\ wlast' = [wlast EXCEPT ![w] = [p \in Pos |-> 0]]
    /\ UNCHANGED <<rcvars, rdvars, cpc, committed, rsnap>>

WLock(w) ==
    /\ W!LockOp(w)
    /\ UNCHANGED <<rcvars, rdvars, hvars>>

\* WCache.WriteOp; the stamps it made visible are the call's own
WOp(w) ==
    /\ W!WriteOp(w)
    /\ wlast' = [wlast EXCEPT ![w] = [p \in Pos |-> IF latest'[p] # latest[p]
                                                    THEN latest'[p] ELSE @[p]]]
    /\ UNCHANGED <<rcvars, rdvars, cpc, wclean, committed, rsnap>>

\* RCache.Clean: GetFileBuffer(fe, false); nothing to do without one
CleanStart(w) ==
    /\ wpc[w] = "done"
    /\ cpc[w] = "write"
    /\ cpc' = [cpc EXCEPT ![w] = IF rfile THEN "clean" ELSE "ret"]
    /\ UNCHANGED <<wcvars, rcvars, rdvars, wclean, wlast, committed, rsnap>>

\* RCache.Clean: ReleaseBuffer of the next block of the window
CleanBlock(w) ==
    /\ cpc[w] = "clean"
    /\ R!ReleaseBuffer(Head(wclean[w]))
    /\ wclean' = [wclean EXCEPT ![w] = Tail(@)]
    /\ cpc' = [cpc EXCEPT ![w] = IF Tail(wclean[w]) = <<>> THEN "ret" ELSE "clean"]
    /\ UNCHANGED <<wcvars, pw, pq, rsweep, rfile, rdvars, wlast, committed, rsnap>>

\* RWCache.Write returns: from now on every Read must see what it wrote
WReturn(w) ==
    /\ cpc[w] = "ret"
    /\ W!WriteReturn(w)
    /\ cpc' = [cpc EXCEPT ![w] = "write"]
    /\ committed' = [p \in Pos |-> IF wlast[w][p] > committed[p] THEN wlast[w][p]
                                   ELSE committed[p]]
    /\ UNCHANGED <<rcvars, rdvars, wclean, wlast, rsnap>>

(***************************************************************************)
(* Readers: RWCache.doRead with a write-side FileBuffer.                   *)
(***************************************************************************)
RStart(r) ==
    /\ R!StartRead(r)
    /\ rsnap' = [rsnap EXCEPT ![r] = committed]
    /\ UNCHANGED <<wcvars, cpc, wclean, wlast, committed>>

\* wCache.GetFileBuffer(fe, false): it exists once a Write has started
GetWriteBuffer(r) ==
    /\ rpc[r] = "getw"
    /\ rwfb' = [rwfb EXCEPT ![r] = nwrites > 0]
    /\ rpc' = [rpc EXCEPT ![r] = R!FirstOp(nwrites > 0)]
    /\ UNCHANGED <<wcvars, rcvars, rops, rreq, rdata, rres, rpf, nreads, hvars>>

\* Faulty: the read side is read without the write-side shared lock.
WRLockSkip(r) ==
    /\ rpc[r] = "wlock"
    /\ rpc' = [rpc EXCEPT ![r] = "rlock"]
    /\ UNCHANGED <<wcvars, rcvars, rops, rreq, rwfb, rdata, rres, rpf, nreads, hvars>>

\* fileBufWrite.RLockBuffer: wait until no writer or SyncWrite holds the block
WRLock(r) ==
    LET k == Head(rops[r]).Index IN
    /\ rpc[r] = "wlock"
    /\ lockMap[k].tp # "write"
    /\ lockMap' = [lockMap EXCEPT ![k] = R!RLocked(@)]
    /\ rpc' = [rpc EXCEPT ![r] = "rlock"]
    /\ UNCHANGED <<disk, deleted, faults, cvars, wvars, sweep, fvars,
                   latest, clock, nwrites, sdone, panicked, rcvars,
                   rops, rreq, rwfb, rdata, rres, rpf, nreads, hvars>>

\* the read side's steps, which leave the write cache alone
RSide(r) ==
    /\ \/ R!DoPrefetchWindow(r) \/ R!PrefetchLock(r) \/ R!PrefetchPush(r)
       \/ R!RLockR(r) \/ R!ReadOpStep(r) \/ R!ReadNext(r) \/ R!ReadFail(r)
       \/ R!ReadReturn(r)
    /\ UNCHANGED <<wcvars, hvars>>

\* WCache.MergeOp: the dirty bytes of the block's write buffer over the data
\* read, then fileBufWrite.RUnLockBuffer
MergeOp(r) ==
    LET op   == Head(rops[r])
        k    == op.Index
        b    == bmap[k]
        rest == Tail(rops[r])
        Dirty(i) == b # NoBuf /\ buf[b].off <= i /\ i < buf[b].off + buf[b].len
        data == [i \in W!Offs |-> IF Dirty(i) THEN buf[b].data[i] ELSE rdata[r][i]]
    IN
    /\ rpc[r] = "merge"
    /\ rwfb[r]
    /\ lockMap' = [lockMap EXCEPT ![k] = R!RUnlocked(@)]
    /\ rres' = [rres EXCEPT ![r] = R!PutRes(@, op, data)]
    /\ rops' = [rops EXCEPT ![r] = rest]
    /\ rpc' = [rpc EXCEPT ![r] = IF rest = <<>> THEN "done" ELSE "wlock"]
    /\ UNCHANGED <<disk, deleted, faults, cvars, wvars, sweep, fvars,
                   latest, clock, nwrites, sdone, panicked, rcvars, rreq, rwfb, rdata, rpf, nreads,
                   hvars>>

\* Faulty: the error return forgets the write-side RUnLockBuffer.
ReadFailNoUnlock(r) ==
    /\ rpc[r] = "fail"
    /\ rwfb[r]
    /\ rpc' = [rpc EXCEPT ![r] = "idle"]
    /\ rops' = [rops EXCEPT ![r] = <<>>]
    /\ UNCHANGED lockMap

\* the error return of doRead: the write-side lock is released first
ReadFailW(r) ==
    /\ rpc[r] = "fail"
    /\ rwfb[r]
    /\ lockMap' = [lockMap EXCEPT ![Head(rops[r]).Index] = R!RUnlocked(@)]
    /\ rpc' = [rpc EXCEPT ![r] = "idle"]
    /\ rops' = [rops EXCEPT ![r] = <<>>]

ReadFailStep(r) ==
    /\ ReadFailW(r)
    /\ UNCHANGED <<disk, deleted, faults, cvars, wvars, sweep, fvars,
                   latest, clock, nwrites, sdone, panicked, rcvars, rreq, rwfb, rdata, rres, rpf,
                   nreads, hvars>>

(***************************************************************************)
(* The background goroutines of both caches and the environment.           *)
(***************************************************************************)
WBackground ==
    /\ \/ \E b \in Buffers : W!SyncWorker(b)
       \/ \E s \in Sweepers : W!LruExpire(s) \/ W!SweepFlush(s)
       \/ \E f \in Flushers :
             W!FlushStart(f) \/ W!FlushOne(f) \/ W!FlushEnd(f) \/ W!FlushReturn(f)
    /\ UNCHANGED <<rcvars, rdvars, hvars>>

RBackground ==
    /\ \/ \E k \in R!Blocks : R!PrefetchRead(k)
       \/ R!RLruExpire \/ R!RSweepRelease
    /\ UNCHANGED <<wcvars, hvars>>

Delete ==
    /\ W!RemoteDelete
    /\ UNCHANGED <<rcvars, rdvars, hvars>>

Init ==
    /\ W!Init
    /\ R!Init
    /\ cpc = [w \in Writers |-> "write"]
    /\ wclean = [w \in Writers |-> <<>>]
    /\ wlast = [w \in Writers |-> [p \in Pos |-> 0]]
    /\ committed = [p \in Pos |-> 0]
    /\ rsnap = [r \in Readers |-> [p \in Pos |-> 0]]

\* the steps of a started write, taken by the writer's own thread
WriterStep(w) ==
    WLock(w) \/ WOp(w) \/ CleanStart(w) \/ CleanBlock(w) \/ WReturn(w)

\* the steps of a started read, taken by the reader's own thread
ReaderStep(r) ==
    GetWriteBuffer(r) \/ WRLock(r) \/ RSide(r) \/ MergeOp(r) \/ ReadFailStep(r)

\* After a failed Assert the process is gone and nothing moves.
Next ==
    /\ ~panicked
    /\ \/ \E w \in Writers : WStart(w) \/ WriterStep(w)
       \/ \E r \in Readers : RStart(r) \/ ReaderStep(r)
       \/ WBackground \/ RBackground \/ Delete

Spec == Init /\ [][Next]_vars

(***************************************************************************)
(* Properties.                                                             *)
(***************************************************************************)
\* The variables this module adds, and the write-side lock table shared by
\* writers (exclusive) and readers (shared, counted) have their types.
RWTypeOK ==
    /\ lockMap \in [W!Blocks -> R!LockRec]
    /\ cpc \in [Writers -> {"write", "clean", "ret"}]
    /\ wclean \in [Writers -> Seq(W!Blocks)]
    /\ committed \in [Pos -> W!Stamps] /\ wlast \in [Writers -> [Pos -> W!Stamps]]
    /\ rsnap \in [Readers -> [Pos -> W!Stamps]]

\* the positions reader r asked for
Requested(r) == {p \in Pos : rreq[r].off <= p /\ p < rreq[r].off + rreq[r].size}

\* spec.md 8: "After RWCache.Write(fe, buf, off) returns, any subsequent
\* Read that overlaps [off, off+|buf|) observes the just-written bytes,
\* regardless of whether a flush intervened."  A read that returns
\* successfully holds, at every position it asked for, the data of every
\* Write that had returned before the Read was called, or newer data
\* (stamps grow with time).  Not required once the file is gone on the proxy.
ReadYourWrites ==
    \A r \in Readers :
        rpc[r] = "done" /\ ~deleted =>
            \A p \in Requested(r) : rres[r][p] >= rsnap[r][p]

\* the writers inside WriteOp's lock on block k
WritingW(k) == {w \in Writers : wpc[w] = "op" /\ Head(wops[w]).Index = k}

\* the readers holding the write-side shared lock of block k
ReadingW(k) == {r \in Readers : rpc[r] \in {"rlock", "read", "merge", "fail"}
                                /\ rwfb[r] /\ Head(rops[r]).Index = k}

\* the SyncWrite workers that freed a buffer of block k and have not yet
\* called UnLockBuffer
UnlockingW(k) == {b \in Buffers : <<b, k>> \in sdone}

\* The write-side lock table says exactly who holds each block: an
\* exclusive entry belongs to one writer, to one full buffer on chSync, or
\* to the SyncWrite worker that wrote such a buffer and has not unlocked
\* yet; the shared count is the number of readers between their two
\* write-side lock calls, on every path of doRead; and no UnLockBuffer
\* Assert fails.  The worker must release the lock its writer left held,
\* on that writer's block, and no other.
WLockOwnership ==
    /\ ~panicked
    /\ \A k \in W!Blocks :
        /\ Cardinality(WritingW(k)) + Cardinality({b \in syncQ : buf[b].blk = k})
              + Cardinality(UnlockingW(k))
              = (IF lockMap[k].tp = "write" THEN 1 ELSE 0)
        /\ lockMap[k].refer = Cardinality(ReadingW(k))
=============================================================================

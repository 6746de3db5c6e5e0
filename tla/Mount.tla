------------------------------- MODULE Mount -------------------------------
(***************************************************************************)
(* The life of a CfaMountInfo (src/lib/libfs/mount.go): Mount, the StatTo  *)
(* goroutine, checkMount, and DelMount with RWCache.CloseAll, which shuts  *)
(* down the two caches of rcache.go and wcache.go and the goroutines they  *)
(* started: the SyncWrite workers draining chSync, the PrefetchRead        *)
(* workers draining chPrefetch, and the CheckExpire sweepers.              *)
(*                                                                         *)
(* One administrative thread runs client/main.go: Mount, then, on a        *)
(* signal, se.Unmount() (the FUSE server stops serving) and DelMount.      *)
(* While the server serves, requests leave work in the caches: a Write a   *)
(* dirty buffer on the LRU or a full one parked in chSync (its block lock  *)
(* held until a worker writes it), a Read a prefetch op in chPrefetch (its *)
(* block locked until a worker reads it).  Buffer contents are abstracted  *)
(* to counts per file; the caches' data paths are WCache and RCache.       *)
(***************************************************************************)
EXTENDS Naturals, Sequences, SequencesExt, FiniteSets

CONSTANTS
    Files,          \* file ids with cache FileBuffers
    RwCacheOn,      \* CfgRwCacheCacheSize > 0 (NewRWCache is called)
    SyncRoutine,    \* WCache SyncWrite workers = chSync capacity; 0 = SyncIo
    PrefetchRoutine,\* RCache PrefetchRead workers = chPrefetch capacity
    NSweep,         \* WCache CheckExpire goroutines (8 in the code)
    StatGapZero,    \* CfgStatGap = 0: StatTo closes the statistics and returns
    MaxDirty,       \* bound on dirty buffers per file
    MaxReqs,        \* bound on requests served
    MaxFaults       \* bound on failed proxy writes

Perms == {"Read", "Write", "Del"}           \* MountModeRead | Write | Del

VARIABLES
    mountStu,       \* "New", "Mounted", "Del"
    mountMode,      \* subset of Perms
    mlock,          \* CfaMountInfo's mutex is held
    statTo,         \* StatTo goroutine: "none", "run", "done"
    apc,            \* the administrative thread's program counter
    serving,        \* the FUSE server hands requests to libfs
    wsnap, rsnap,   \* feList of WCache / RCache CloseAll still to Close
    chSync,         \* WCache.chSync: files of parked buffers
    wOpen,          \* chSync not closed
    wStop,          \* WCache.Stop
    wdirty,         \* file -> dirty buffers on the WCache LRU
    wfiles,         \* files in WCache.Cache
    syncW,          \* SyncWrite workers still running
    wSweep,         \* WCache CheckExpire goroutines still running
    closeErr,       \* files whose WCache.Close returned the Flush error
    chPre,          \* RCache.chPrefetch: files of queued prefetch ops
    rOpen, rStop,   \* chPrefetch not closed, RCache.Stop
    rcached,        \* file -> clean buffers on the RCache LRU
    rlocks,         \* file -> blocks locked by queued prefetch ops
    rfiles,         \* files in RCache.Cache
    preW,           \* PrefetchRead workers still running
    rSweep,         \* RCache CheckExpire still running
    panic,          \* the Assert that failed, or "none"
    reqs, faults

mvars == <<mountStu, mountMode, mlock, statTo, apc, serving, wsnap, rsnap>>
wvars == <<chSync, wOpen, wStop, wdirty, wfiles, syncW, wSweep, closeErr>>
rvars == <<chPre, rOpen, rStop, rcached, rlocks, rfiles, preW, rSweep>>
vars  == <<mvars, wvars, rvars, panic, reqs, faults>>

\* checkMount's mount and permission tests (the path tests are PathOK)
MountAllows(perm) == mountStu = "Mounted" /\ perm \in mountMode

\* Init: NewMount, with NewRWCache starting the workers when configured.
Init ==
    /\ mountStu = "New" /\ mountMode = {} /\ mlock = FALSE
    /\ statTo = "none" /\ apc = "idle" /\ serving = FALSE
    /\ wsnap = {} /\ rsnap = {}
    /\ chSync = <<>> /\ wOpen = TRUE /\ wStop = FALSE
    /\ wdirty = [f \in Files |-> 0] /\ wfiles = {}
    /\ syncW = IF RwCacheOn THEN SyncRoutine ELSE 0
    /\ wSweep = IF RwCacheOn THEN NSweep ELSE 0
    /\ closeErr = {}
    /\ chPre = <<>> /\ rOpen = TRUE /\ rStop = FALSE
    /\ rcached = [f \in Files |-> 0] /\ rlocks = [f \in Files |-> 0]
    /\ rfiles = {}
    /\ preW = IF RwCacheOn THEN PrefetchRoutine ELSE 0
    /\ rSweep = RwCacheOn
    /\ panic = "none" /\ reqs = 0 /\ faults = 0

Goto(l) == apc' = l

(***************************************************************************)
(* Mount: the unlocked status test, then under the mutex the second test,  *)
(* the mode, the status, the Stat of the mount path (a proxy call), and on *)
(* success wg.Add(1) and the StatTo goroutine.                             *)
(***************************************************************************)
MountCheck ==
    /\ apc = "idle"
    /\ IF mountStu # "New" THEN Goto("failed") ELSE Goto("mlock")
    /\ UNCHANGED <<mountStu, mountMode, mlock, statTo, serving, wsnap, rsnap,
                   wvars, rvars, panic, reqs, faults>>

MountLocked ==
    /\ apc = "mlock" /\ ~mlock
    /\ IF mountStu = "Mounted"
       THEN Goto("failed") /\ UNCHANGED <<mountStu, mountMode, mlock>>
       ELSE /\ mountMode' = Perms /\ mountStu' = "Mounted" /\ mlock' = TRUE
            /\ Goto("mstat")
    /\ UNCHANGED <<statTo, serving, wsnap, rsnap, wvars, rvars, panic, reqs, faults>>

MountStat ==
    /\ apc = "mstat"
    /\ mlock' = FALSE
    /\ \/ statTo' = "run" /\ Goto("mounted") /\ serving' = TRUE
       \/ UNCHANGED <<statTo, serving>> /\ Goto("failed")   \* Stat error
    /\ UNCHANGED <<mountStu, mountMode, wsnap, rsnap, wvars, rvars, panic, reqs, faults>>

\* StatTo: returns at once when the gap is 0, else loops while Mounted.
StatToExit ==
    /\ statTo = "run"
    /\ StatGapZero \/ mountStu # "Mounted"
    /\ statTo' = "done"
    /\ UNCHANGED <<mountStu, mountMode, mlock, apc, serving, wsnap, rsnap,
                   wvars, rvars, panic, reqs, faults>>

(***************************************************************************)
(* Requests the FUSE server hands over while it serves.                    *)
(***************************************************************************)
\* WCache.WriteOp: a partial block stays dirty on the LRU; a full one is
\* sent to chSync with its block lock held (blocking while chSync is full);
\* in SyncIo mode a full block is written through.
AppWrite(f) ==
    /\ serving /\ RwCacheOn /\ reqs < MaxReqs
    /\ reqs' = reqs + 1
    /\ wfiles' = wfiles \cup {f}
    /\ \/ wdirty[f] < MaxDirty /\ wdirty' = [wdirty EXCEPT ![f] = @ + 1]
          /\ UNCHANGED chSync
       \/ SyncRoutine > 0 /\ Len(chSync) < SyncRoutine
          /\ chSync' = Append(chSync, f) /\ UNCHANGED wdirty
    /\ UNCHANGED <<mvars, wOpen, wStop, syncW, wSweep, closeErr, rvars, panic, faults>>

\* RCache.DoPrefetch: lock the window's block and queue the op.
AppRead(f) ==
    /\ serving /\ RwCacheOn /\ reqs < MaxReqs
    /\ PrefetchRoutine > 0 /\ Len(chPre) < PrefetchRoutine
    /\ reqs' = reqs + 1
    /\ rfiles' = rfiles \cup {f}
    /\ chPre' = Append(chPre, f)
    /\ rlocks' = [rlocks EXCEPT ![f] = @ + 1]
    /\ UNCHANGED <<mvars, wvars, rOpen, rStop, rcached, preW, rSweep, panic, faults>>

(***************************************************************************)
(* The cache goroutines.                                                   *)
(***************************************************************************)
\* SyncWrite: GetFileBuffer must find the file (Assert), then DirectWrite;
\* on error the buffer goes back to the LRU.  The loop ends when chSync is
\* closed and drained.
SyncWriteStep ==
    /\ syncW > 0 /\ chSync # <<>>
    /\ LET f == Head(chSync) IN
       /\ chSync' = Tail(chSync)
       /\ IF f \notin wfiles
          THEN panic' = "SyncWrite" /\ UNCHANGED <<wdirty, faults>>
          ELSE \/ UNCHANGED <<wdirty, faults, panic>>
               \/ faults < MaxFaults /\ faults' = faults + 1
                  /\ wdirty' = [wdirty EXCEPT ![f] = @ + 1] /\ UNCHANGED panic
    /\ UNCHANGED <<mvars, wOpen, wStop, wfiles, syncW, wSweep, closeErr, rvars, reqs>>

SyncWriteExit ==
    /\ syncW > 0 /\ ~wOpen /\ chSync = <<>>
    /\ syncW' = syncW - 1
    /\ UNCHANGED <<mvars, chSync, wOpen, wStop, wdirty, wfiles, wSweep, closeErr,
                   rvars, panic, reqs, faults>>

\* WCache.CheckExpire: flush an expired buffer (FlushBuffer re-queues it on
\* error), or leave the loop once Stop is set.
WSweepFlush(f) ==
    /\ wSweep > 0 /\ ~wStop /\ wdirty[f] > 0 /\ f \in wfiles
    /\ \/ wdirty' = [wdirty EXCEPT ![f] = @ - 1] /\ UNCHANGED faults
       \/ faults < MaxFaults /\ faults' = faults + 1 /\ UNCHANGED wdirty
    /\ UNCHANGED <<mvars, chSync, wOpen, wStop, wfiles, syncW, wSweep, closeErr,
                   rvars, panic, reqs>>

WSweepExit ==
    /\ wSweep > 0 /\ wStop
    /\ wSweep' = wSweep - 1
    /\ UNCHANGED <<mvars, chSync, wOpen, wStop, wdirty, wfiles, syncW, closeErr,
                   rvars, panic, reqs, faults>>

\* PrefetchRead: GetFileBuffer must find the file (Assert), DoPrefetchRead
\* caches the block (or fails), then the block is unlocked.
PrefetchStep ==
    /\ preW > 0 /\ chPre # <<>>
    /\ LET f == Head(chPre) IN
       /\ chPre' = Tail(chPre)
       /\ IF f \notin rfiles
          THEN panic' = "PrefetchRead" /\ UNCHANGED <<rcached, rlocks>>
          ELSE /\ \/ rcached' = [rcached EXCEPT ![f] = @ + 1]
                  \/ UNCHANGED rcached
               /\ rlocks' = [rlocks EXCEPT ![f] = @ - 1]
               /\ UNCHANGED panic
    /\ UNCHANGED <<mvars, wvars, rOpen, rStop, rfiles, preW, rSweep, reqs, faults>>

PrefetchExit ==
    /\ preW > 0 /\ ~rOpen /\ chPre = <<>>
    /\ preW' = preW - 1
    /\ UNCHANGED <<mvars, wvars, chPre, rOpen, rStop, rcached, rlocks, rfiles,
                   rSweep, panic, reqs, faults>>

\* Faulty sweep: releases without finding a buffer on the LRU.
RSweepReleaseNoGuard(f) ==
    /\ rSweep /\ ~rStop
    /\ rcached' = [rcached EXCEPT ![f] = @ - 1]
    /\ UNCHANGED <<mvars, wvars, chPre, rOpen, rStop, rlocks, rfiles, preW, rSweep,
                   panic, reqs, faults>>

\* RCache.CheckExpire: release an expired buffer, or leave once Stop is set.
RSweepRelease(f) ==
    /\ rSweep /\ ~rStop /\ rcached[f] > 0
    /\ rcached' = [rcached EXCEPT ![f] = @ - 1]
    /\ UNCHANGED <<mvars, wvars, chPre, rOpen, rStop, rlocks, rfiles, preW, rSweep,
                   panic, reqs, faults>>

RSweepExit ==
    /\ rSweep /\ rStop
    /\ rSweep' = FALSE
    /\ UNCHANGED <<mvars, wvars, chPre, rOpen, rStop, rcached, rlocks, rfiles, preW,
                   panic, reqs, faults>>
(***************************************************************************)
(* main.go exitSign: se.Unmount() stops the FUSE server (no request is     *)
(* left running), then DelMount: under the mutex, RWCache.CloseAll (the    *)
(* RCache half, then the WCache half), MountStu = Del, the proxy client    *)
(* and the stop channel closed, and wg.Wait for StatTo.                    *)
(***************************************************************************)
Unmount ==
    /\ apc = "mounted"
    /\ serving' = FALSE /\ Goto("dlock")
    /\ UNCHANGED <<mountStu, mountMode, mlock, statTo, wsnap, rsnap, wvars, rvars,
                   panic, reqs, faults>>

DelLock ==
    /\ apc = "dlock" /\ ~mlock
    /\ mlock' = TRUE
    /\ Goto(IF RwCacheOn THEN "rclose" ELSE "del")
    /\ UNCHANGED <<mountStu, mountMode, statTo, serving, wsnap, rsnap, wvars, rvars,
                   panic, reqs, faults>>

\* RCache.CloseAll: close chPrefetch, set Stop, take the feList.
RCloseAll ==
    /\ apc = "rclose"
    /\ rOpen' = (PrefetchRoutine = 0) /\ rStop' = TRUE
    /\ rsnap' = rfiles /\ Goto("rfiles")
    /\ UNCHANGED <<mountStu, mountMode, mlock, statTo, serving, wsnap, wvars,
                   chPre, rcached, rlocks, rfiles, preW, rSweep, panic, reqs, faults>>

\* Faulty RCache.Close: Release frees the buffers without fileBuf.Wait.
RCloseFileNoWait(f) ==
    /\ apc = "rfiles" /\ f \in rsnap
    /\ rcached' = [rcached EXCEPT ![f] = 0]
    /\ rfiles' = rfiles \ {f} /\ rsnap' = rsnap \ {f}
    /\ UNCHANGED <<mountStu, mountMode, mlock, statTo, apc, serving, wsnap, wvars,
                   chPre, rOpen, rStop, rlocks, preW, rSweep, panic, reqs, faults>>

\* RCache.Close: Release (fileBuf.Wait until no block is locked, then free
\* every buffer), then DetachFileBuffer.
RCloseFile(f) ==
    /\ apc = "rfiles" /\ f \in rsnap
    /\ rlocks[f] = 0
    /\ rcached' = [rcached EXCEPT ![f] = 0]
    /\ rfiles' = rfiles \ {f} /\ rsnap' = rsnap \ {f}
    /\ UNCHANGED <<mountStu, mountMode, mlock, statTo, apc, serving, wsnap, wvars,
                   chPre, rOpen, rStop, rlocks, preW, rSweep, panic, reqs, faults>>

\* RCache.CloseAll's wg.Wait.
RWait ==
    /\ apc = "rfiles" /\ rsnap = {}
    /\ preW = 0 /\ ~rSweep
    /\ Goto("wclose")
    /\ UNCHANGED <<mountStu, mountMode, mlock, statTo, serving, wsnap, rsnap, wvars,
                   rvars, panic, reqs, faults>>

\* WCache.CloseAll: close chSync, set Stop, take the feList.
WCloseAll ==
    /\ apc = "wclose"
    /\ wOpen' = (SyncRoutine = 0) /\ wStop' = TRUE
    /\ wsnap' = wfiles /\ Goto("wfiles")
    /\ UNCHANGED <<mountStu, mountMode, mlock, statTo, serving, rsnap, chSync, wdirty,
                   wfiles, syncW, wSweep, closeErr, rvars, panic, reqs, faults>>

\* Faulty WCache.Close: detaches the FileBuffer without the Flush.
WCloseFileNoFlush(f) ==
    /\ apc = "wfiles" /\ f \in wsnap
    /\ f \notin Range(chSync)
    /\ wsnap' = wsnap \ {f} /\ wfiles' = wfiles \ {f}
    /\ UNCHANGED <<mountStu, mountMode, mlock, statTo, apc, serving, rsnap, chSync,
                   wOpen, wStop, wdirty, syncW, wSweep, closeErr, rvars, panic, reqs,
                   faults>>

\* WCache.Close: Flush (its FlushBuffer waits on the lock of a block whose
\* buffer is still in chSync); on error return it, else DetachFileBuffer.
WCloseFile(f) ==
    /\ apc = "wfiles" /\ f \in wsnap
    /\ f \notin Range(chSync)
    /\ wsnap' = wsnap \ {f}
    /\ \/ /\ wdirty' = [wdirty EXCEPT ![f] = 0] /\ wfiles' = wfiles \ {f}
          /\ UNCHANGED <<closeErr, faults>>
       \/ /\ wdirty[f] > 0 /\ faults < MaxFaults /\ faults' = faults + 1
          /\ closeErr' = closeErr \cup {f} /\ UNCHANGED <<wdirty, wfiles>>
    /\ UNCHANGED <<mountStu, mountMode, mlock, statTo, apc, serving, rsnap, chSync,
                   wOpen, wStop, syncW, wSweep, rvars, panic, reqs>>

\* WCache.CloseAll's wg.Wait.
WWait ==
    /\ apc = "wfiles" /\ wsnap = {}
    /\ syncW = 0 /\ wSweep = 0
    /\ Goto("del")
    /\ UNCHANGED <<mountStu, mountMode, mlock, statTo, serving, wsnap, rsnap, wvars,
                   rvars, panic, reqs, faults>>

\* Faulty DelMount: MountStu is left Mounted, which StatTo loops on.
DelStatusNoDel ==
    /\ apc = "del"
    /\ Goto("wg")
    /\ UNCHANGED <<mountStu, mountMode, mlock, statTo, serving, wsnap, rsnap, wvars,
                   rvars, panic, reqs, faults>>

DelStatus ==
    /\ apc = "del"
    /\ mountStu' = "Del" /\ Goto("wg")
    /\ UNCHANGED <<mountMode, mlock, statTo, serving, wsnap, rsnap, wvars, rvars,
                   panic, reqs, faults>>

\* mount.wg.Wait for StatTo, then the deferred Unlock.
DelWait ==
    /\ apc = "wg" /\ statTo # "run"
    /\ mlock' = FALSE /\ Goto("done")
    /\ UNCHANGED <<mountStu, mountMode, statTo, serving, wsnap, rsnap, wvars, rvars,
                   panic, reqs, faults>>

MountSteps ==
    \/ MountCheck \/ MountLocked \/ MountStat \/ StatToExit
    \/ \E f \in Files : AppWrite(f) \/ AppRead(f)
    \/ SyncWriteStep \/ SyncWriteExit \/ WSweepExit
    \/ \E f \in Files : WSweepFlush(f) \/ RSweepRelease(f)
    \/ PrefetchStep \/ PrefetchExit \/ RSweepExit
    \/ DelLock \/ RCloseAll \/ RWait \/ WCloseAll \/ WWait
    \/ \E f \in Files : RCloseFile(f) \/ WCloseFile(f)
    \/ DelStatus \/ DelWait

MountNext == MountSteps \/ Unmount

\* The steps of each goroutine: the admin thread (Mount, then DelMount once
\* the signal came), StatTo, the SyncWrite and PrefetchRead workers, and the
\* CheckExpire sweepers leaving their loops.
AdminStep ==
    \/ MountCheck \/ MountLocked \/ MountStat
    \/ DelLock \/ RCloseAll \/ RWait \/ WCloseAll \/ WWait \/ DelStatus \/ DelWait
    \/ \E f \in Files : RCloseFile(f) \/ WCloseFile(f)
SyncWorker == SyncWriteStep \/ SyncWriteExit
PrefetchWorker == PrefetchStep \/ PrefetchExit
SweeperExit == WSweepExit \/ RSweepExit

\* Every goroutine that has started is scheduled; requests and the signal
\* come when they come (no fairness on App*, Unmount or the sweeps).
MountFairness ==
    /\ WF_vars(AdminStep) /\ WF_vars(StatToExit) /\ WF_vars(SyncWorker)
    /\ WF_vars(PrefetchWorker) /\ WF_vars(SweeperExit)

(***************************************************************************)
(* Properties.                                                             *)
(***************************************************************************)
MTypeOK ==
    /\ mountStu \in {"New", "Mounted", "Del"} /\ mountMode \subseteq Perms
    /\ mlock \in BOOLEAN /\ statTo \in {"none", "run", "done"}
    /\ wsnap \subseteq Files /\ rsnap \subseteq Files
    /\ chSync \in Seq(Files) /\ Len(chSync) <= SyncRoutine
    /\ chPre \in Seq(Files) /\ Len(chPre) <= PrefetchRoutine
    /\ wdirty \in [Files -> 0..MaxDirty + MaxFaults]
    /\ rlocks \in [Files -> Nat] /\ rcached \in [Files -> Nat]
    /\ wfiles \subseteq Files /\ rfiles \subseteq Files /\ closeErr \subseteq Files
    /\ syncW \in 0..SyncRoutine /\ wSweep \in 0..NSweep
    /\ preW \in 0..PrefetchRoutine /\ rSweep \in BOOLEAN

\* The Asserts of SyncWrite (wcache.go:568) and PrefetchRead (rcache.go:426)
\* hold through unmount: CloseAll closes the channels first but detaches a
\* file only after its queued work is done (Flush waits on the block lock a
\* parked buffer holds; Release waits in fileBuf.Wait for queued prefetch).
WorkersNeverAssert == panic = "none"

\* After DelMount returns, every write the server accepted is on the proxy,
\* except in files whose final Flush failed (DelMount drops that error):
\* no buffer is left in chSync or dirty on the LRU of a closed file.
UnmountWritesBack ==
    apc = "done" =>
        \A f \in Files : (wdirty[f] > 0 \/ f \in Range(chSync)) => f \in closeErr

\* DelMount returns once it starts: every worker leaves its loop after
\* CloseAll closed its channel or set Stop, and StatTo after MountStu = Del.
DelMountReturns == apc = "dlock" ~> apc = "done"
=============================================================================

-------------------------------- MODULE Dir --------------------------------
(***************************************************************************)
(* Directory listing and the namespace operations of a mount             *)
(* (src/lib/libfs/dir.go, rm.go), composed with the mount's life (Mount). *)
(*                                                                         *)
(* Opendir starts a fetcher goroutine that pages the directory from the   *)
(* proxy with ReadDirEx(path, startKey, lsSize) into dirList, pausing     *)
(* while dirList is longer than cacheSize and stopping when the reader    *)
(* set LsUserAbort.  Readdir(count) takes entries off dirList under the   *)
(* Dir mutex, and waits on the one-slot channel ch while the fetcher is   *)
(* still fetching.  The reader is the FUSE OpenDir of                     *)
(* client/cfafuse/fuse_op.go, which calls Readdir until it returns fewer  *)
(* than count entries, or a library caller that closes the Dir early.     *)
(* Mkdir, Mknod, Rmdir and UnLink change the directory meanwhile.         *)
(*                                                                         *)
(* Names are numbers ordered like the proxy's keys; the proxy's           *)
(* readdirex is taken to return, sorted, the first count names greater    *)
(* than startKey (0 stands for the empty startKey).                       *)
(***************************************************************************)
EXTENDS Mount

CONSTANTS
    Names,          \* names the directory may hold (numbers)
    DirNames,       \* the names that are subdirectories, the rest are files
    InitDir,        \* the names present when the mount starts
    LsSizeCfg,      \* CfgLsSize as configured
    Count,          \* the reader's count (ReadDirCount of the FUSE options)
    AbortAllowed,   \* the reader may be a library caller that stops early
    MaxNsOps,       \* bound on namespace requests
    MaxDirFaults    \* bound on failed ReadDirEx calls

\* NewMount: LsSize is uint16(cfg value), so 65536 becomes 0.
LsSize == LsSizeCfg % 65536

FileNames == Names \ DirNames

VARIABLES
    pdir,           \* the names the proxy holds in the directory
    dcache,         \* names with a dentry in mount.dentryCache
    dirList,        \* Dir.dirList
    startKey,       \* Dir.startKey
    lsStatus,       \* Dir.lsStatus
    cacheSize,      \* Dir.cacheSize
    ch,             \* Dir.ch holds a token
    fpc,            \* the fetcher goroutine's program counter
    page,           \* the Dentrys of the last ReadDirEx response
    lpc,            \* the reader's program counter
    stream,         \* the entries the reader has collected
    lres,           \* how the listing ended
    always,         \* names present since Opendir without a break
    ever,           \* names present at some time since Opendir
    nsops, dfaults

dvars == <<pdir, dcache, dirList, startKey, lsStatus, cacheSize, ch, fpc, page,
           lpc, stream, lres, always, ever, nsops, dfaults>>
allvars == <<vars, dvars>>

DirInit ==
    /\ Init
    /\ pdir = InitDir /\ dcache = {}
    /\ dirList = <<>> /\ startKey = 0 /\ lsStatus = "None" /\ cacheSize = 0
    /\ ch = FALSE /\ fpc = "none" /\ page = <<>>
    /\ lpc = "idle" /\ stream = <<>> /\ lres = "none"
    /\ always = {} /\ ever = {} /\ nsops = 0 /\ dfaults = 0

\* The proxy's readdirex: the first n names after key, in order.
ReadDirPage(key, n) ==
    LET after == SetToSortSeq({x \in pdir : x > key}, <)
    IN  SubSeq(after, 1, Min({n, Len(after)}))

(***************************************************************************)
(* The reader: Opendir, then Readdir until fewer than count come back,    *)
(* then the deferred CloseDir.                                            *)
(***************************************************************************)
Opendir ==
    /\ lpc = "idle" /\ serving
    /\ IF MountAllows("Read")
       THEN /\ dirList' = <<>> /\ startKey' = 0 /\ lsStatus' = "Fetching"
            /\ cacheSize' = LsSize /\ ch' = FALSE /\ fpc' = "loop"
            /\ lpc' = "rd" /\ always' = pdir /\ ever' = pdir
            /\ UNCHANGED lres
       ELSE /\ lpc' = "done" /\ lres' = "eacces"
            /\ UNCHANGED <<dirList, startKey, lsStatus, cacheSize, ch, fpc,
                           always, ever>>
    /\ UNCHANGED <<vars, pdir, dcache, page, stream, nsops, dfaults>>

Take(n) == SubSeq(dirList, 1, n)

\* Faulty Readdir: cacheSize grows by 2*count on every pass.
ReaddirLockAddSize ==
    /\ lpc = "rd"
    /\ cacheSize' = cacheSize + 2 * Count
    /\ CASE lsStatus \in {"Error", "UserAbort"} ->
              lpc' = "close" /\ lres' = "err" /\ UNCHANGED <<dirList, stream>>
         [] lsStatus = "Done" /\ dirList = <<>> ->
              lpc' = "close" /\ lres' = "ok" /\ UNCHANGED <<dirList, stream>>
         [] lsStatus = "Fetching" /\ Len(dirList) < Count ->
              lpc' = "wait" /\ UNCHANGED <<lres, dirList, stream>>
         [] OTHER ->
              LET n == Min({Count, Len(dirList)}) IN
              /\ stream' = stream \o Take(n)
              /\ dirList' = SubSeq(dirList, n + 1, Len(dirList))
              /\ IF n < Count THEN lpc' = "close" /\ lres' = "ok"
                              ELSE lpc' = "rd" /\ UNCHANGED lres
    /\ UNCHANGED <<vars, pdir, dcache, startKey, lsStatus, ch, fpc, page,
                   always, ever, nsops, dfaults>>

\* One pass of Readdir's loop under the Dir mutex; the FUSE loop around it.
ReaddirLock ==
    /\ lpc = "rd"
    /\ cacheSize' = Max({cacheSize, 2 * Count})
    /\ CASE lsStatus \in {"Error", "UserAbort"} ->
              lpc' = "close" /\ lres' = "err" /\ UNCHANGED <<dirList, stream>>
         [] lsStatus = "Done" /\ dirList = <<>> ->
              lpc' = "close" /\ lres' = "ok" /\ UNCHANGED <<dirList, stream>>
         [] lsStatus = "Fetching" /\ Len(dirList) < Count ->
              lpc' = "wait" /\ UNCHANGED <<lres, dirList, stream>>
         [] OTHER ->
              LET n == Min({Count, Len(dirList)}) IN
              /\ stream' = stream \o Take(n)
              /\ dirList' = SubSeq(dirList, n + 1, Len(dirList))
              /\ IF n < Count THEN lpc' = "close" /\ lres' = "ok"
                              ELSE lpc' = "rd" /\ UNCHANGED lres
    /\ UNCHANGED <<vars, pdir, dcache, startKey, lsStatus, ch, fpc, page,
                   always, ever, nsops, dfaults>>

\* <-dir.ch
ReaddirWait ==
    /\ lpc = "wait" /\ ch
    /\ ch' = FALSE /\ lpc' = "rd"
    /\ UNCHANGED <<vars, pdir, dcache, dirList, startKey, lsStatus, cacheSize,
                   fpc, page, stream, lres, always, ever, nsops, dfaults>>

\* A library caller may CloseDir before it has read the whole directory.
ReaderStops ==
    /\ AbortAllowed /\ lpc = "rd"
    /\ lpc' = "close" /\ lres' = "abort"
    /\ UNCHANGED <<vars, pdir, dcache, dirList, startKey, lsStatus, cacheSize,
                   ch, fpc, page, stream, always, ever, nsops, dfaults>>

CloseDir ==
    /\ lpc = "close"
    /\ lsStatus' = "UserAbort" /\ lpc' = "done"
    /\ UNCHANGED <<vars, pdir, dcache, dirList, startKey, cacheSize, ch, fpc,
                   page, stream, lres, always, ever, nsops, dfaults>>

(***************************************************************************)
(* The fetcher goroutine of Opendir.                                      *)
(***************************************************************************)
\* Faulty loop heads: no cache-full test; the full test before the abort.
FetchCheckNoFull ==
    /\ fpc = "loop"
    /\ fpc' = IF lsStatus = "UserAbort" THEN "done" ELSE "call"
    /\ UNCHANGED <<vars, pdir, dcache, dirList, startKey, lsStatus, cacheSize,
                   ch, page, lpc, stream, lres, always, ever, nsops, dfaults>>

FetchCheckFullFirst ==
    /\ fpc = "loop"
    /\ Len(dirList) <= cacheSize
    /\ fpc' = IF lsStatus = "UserAbort" THEN "done" ELSE "call"
    /\ UNCHANGED <<vars, pdir, dcache, dirList, startKey, lsStatus, cacheSize,
                   ch, page, lpc, stream, lres, always, ever, nsops, dfaults>>

\* The loop head under the mutex: leave on LsUserAbort; while dirList is
\* longer than cacheSize, unlock, sleep and test again (no step).
FetchCheck ==
    /\ fpc = "loop"
    /\ lsStatus = "UserAbort" \/ Len(dirList) <= cacheSize
    /\ fpc' = IF lsStatus = "UserAbort" THEN "done" ELSE "call"
    /\ UNCHANGED <<vars, pdir, dcache, dirList, startKey, lsStatus, cacheSize,
                   ch, page, lpc, stream, lres, always, ever, nsops, dfaults>>

\* ReadDirEx outside the mutex; an error ends the loop with lastErr set.
FetchCall ==
    /\ fpc = "call"
    /\ \/ page' = ReadDirPage(startKey, LsSize) /\ fpc' = "append"
          /\ UNCHANGED dfaults
       \/ dfaults < MaxDirFaults /\ dfaults' = dfaults + 1 /\ fpc' = "err"
          /\ UNCHANGED page
    /\ UNCHANGED <<vars, pdir, dcache, dirList, startKey, lsStatus, cacheSize,
                   ch, lpc, stream, lres, always, ever, nsops>>

\* Faulty end test: a full page (len <= lsSize) also sets LsDone.
FetchAppendDoneOnFull ==
    /\ fpc = "append"
    /\ dirList' = dirList \o page
    /\ IF Len(page) <= LsSize
       THEN lsStatus' = "Done" /\ UNCHANGED <<startKey, panic>>
       ELSE startKey' = Last(page) /\ UNCHANGED <<lsStatus, panic>>
    /\ fpc' = "notify"
    /\ UNCHANGED <<mvars, wvars, rvars, reqs, faults, pdir, dcache, cacheSize,
                   ch, page, lpc, stream, lres, always, ever, nsops, dfaults>>

\* Under the mutex: append the page; a short page is the end, otherwise the
\* next call starts after its last name (resp.Dentrys[len-1] panics on an
\* empty page, which a zero lsSize returns).
FetchAppend ==
    /\ fpc = "append"
    /\ dirList' = dirList \o page
    /\ IF Len(page) < LsSize
       THEN lsStatus' = "Done" /\ UNCHANGED <<startKey, panic>>
       ELSE IF page = <<>>
            THEN panic' = "ReadDirIndex" /\ UNCHANGED <<startKey, lsStatus>>
            ELSE startKey' = Last(page) /\ UNCHANGED <<lsStatus, panic>>
    /\ fpc' = IF page = <<>> /\ Len(page) >= LsSize THEN "done" ELSE "notify"
    /\ UNCHANGED <<mvars, wvars, rvars, reqs, faults, pdir, dcache, cacheSize,
                   ch, page, lpc, stream, lres, always, ever, nsops, dfaults>>

\* select { case ch <- true: default: } on a channel of capacity one.
FetchNotify ==
    /\ fpc = "notify"
    /\ ch' = TRUE /\ fpc' = "cache"
    /\ UNCHANGED <<vars, pdir, dcache, dirList, startKey, lsStatus, cacheSize,
                   page, lpc, stream, lres, always, ever, nsops, dfaults>>

\* dentryCache.Set for every entry of the page, then a short page ends.
FetchCache ==
    /\ fpc = "cache"
    /\ dcache' = dcache \cup Range(page)
    /\ fpc' = IF Len(page) < LsSize THEN "done" ELSE "loop"
    /\ UNCHANGED <<vars, pdir, dirList, startKey, lsStatus, cacheSize, ch, page,
                   lpc, stream, lres, always, ever, nsops, dfaults>>

\* After the loop, lastErr != nil: LsError under the mutex, then notify.
FetchErr ==
    /\ fpc = "err"
    /\ lsStatus' = "Error" /\ ch' = TRUE /\ fpc' = "done"
    /\ UNCHANGED <<vars, pdir, dcache, dirList, startKey, cacheSize, page,
                   lpc, stream, lres, always, ever, nsops, dfaults>>

(***************************************************************************)
(* Namespace requests: checkMount, the proxy call, and on success the     *)
(* dentryCache.Remove (of the parent for Mkdir and Mknod, which holds no  *)
(* modelled entry).  A name the proxy refuses leaves everything as is.    *)
(***************************************************************************)
NsStep(perm, ok, newDir) ==
    /\ serving /\ nsops < MaxNsOps
    /\ nsops' = nsops + 1
    /\ IF MountAllows(perm) /\ ok
       THEN /\ pdir' = newDir
            /\ always' = always \cap newDir /\ ever' = ever \cup newDir
       ELSE UNCHANGED <<pdir, always, ever>>

\* Mkdir: EEXIST from the proxy when the name is taken.
Mkdir(x) ==
    /\ x \in DirNames
    /\ NsStep("Write", x \notin pdir, pdir \cup {x})
    /\ UNCHANGED <<vars, dcache, dirList, startKey, lsStatus, cacheSize, ch, fpc,
                   page, lpc, stream, lres, dfaults>>

\* Mknod: ENOTSUP unless a fifo or socket, else an Open with OpenFlagCreate.
Mknod(x, mode) ==
    /\ x \in FileNames
    /\ NsStep("Write", mode \in {"fifo", "sock"}, pdir \cup {x})
    /\ UNCHANGED <<vars, dcache, dirList, startKey, lsStatus, cacheSize, ch, fpc,
                   page, lpc, stream, lres, dfaults>>

\* Rmdir of a subdirectory and UnLink of a file: ENOENT when absent, and on
\* success dentryCache.Remove(path).
RemoveName(x) ==
    /\ NsStep("Del", x \in pdir, pdir \ {x})
    /\ dcache' = IF MountAllows("Del") /\ x \in pdir THEN dcache \ {x} ELSE dcache
    /\ UNCHANGED <<vars, dirList, startKey, lsStatus, cacheSize, ch, fpc,
                   page, lpc, stream, lres, dfaults>>

Rmdir(x) == x \in DirNames /\ RemoveName(x)

UnLink(x) == x \in FileNames /\ RemoveName(x)

DirSteps ==
    \/ Opendir \/ ReaddirLock \/ ReaddirWait \/ ReaderStops \/ CloseDir
    \/ FetchCheck \/ FetchCall \/ FetchAppend \/ FetchNotify \/ FetchCache
    \/ FetchErr
    \/ \E x \in Names : \/ Mkdir(x) \/ Rmdir(x) \/ UnLink(x)
                        \/ \E m \in {"fifo", "reg"} : Mknod(x, m)

DirNext == (MountNext /\ UNCHANGED dvars) \/ DirSteps

Reader == ReaddirLock \/ ReaddirWait \/ CloseDir
Fetcher == FetchCheck \/ FetchCall \/ FetchAppend \/ FetchNotify \/ FetchCache \/ FetchErr

\* The reader and the fetcher goroutine run once started; requests are not
\* fair.
DirFairness == MountFairness /\ WF_allvars(Reader) /\ WF_allvars(Fetcher)

(***************************************************************************)
(* Properties.                                                             *)
(***************************************************************************)
DTypeOK ==
    /\ pdir \subseteq Names /\ dcache \subseteq Names
    /\ dirList \in Seq(Names) /\ page \in Seq(Names) /\ stream \in Seq(Names)
    /\ startKey \in {0} \cup Names /\ ch \in BOOLEAN
    /\ cacheSize \in 0..Max({LsSize, 2 * Count})
    /\ lsStatus \in {"None", "Fetching", "Done", "Error", "UserAbort"}
    /\ fpc \in {"none", "loop", "call", "append", "notify", "cache", "err", "done"}
    /\ lpc \in {"idle", "rd", "wait", "close", "done"}
    /\ lres \in {"none", "ok", "err", "abort", "eacces"}

\* A listing the FUSE OpenDir returns as OK is exact under concurrent Mkdir,
\* Mknod, Rmdir and UnLink: the fetcher's pages (startKey, short-page end)
\* and Readdir's batches (count, the wait while fetching) give every name
\* once, in order, every name present all along, and no name never present.
ListingExact ==
    lres = "ok" =>
        /\ IsSorted(stream, <)
        /\ always \subseteq Range(stream)
        /\ Range(stream) \subseteq ever

\* dirList stays within one page of cacheSize: the fetcher tests the length
\* before each ReadDirEx, so a reader that does not consume bounds memory.
DirListBounded == Len(dirList) <= cacheSize + LsSize

\* A listing terminates: the FUSE OpenDir returns (a Readdir waiting on ch
\* is woken by the fetcher's next page, its end or its error), and the
\* fetcher goroutine ends after CloseDir, also when the reader stopped
\* early with dirList over cacheSize.
ListingTerminates == lpc # "idle" ~> (lpc = "done" /\ fpc \in {"none", "done"})

=============================================================================

------------------------------ MODULE RCacheMC ------------------------------
(***************************************************************************)
(* Model-checking instance of RCache: readers, prefetch workers, the       *)
(* sweeper and the Clean steps of writes on one file.  It also checks the  *)
(* block slicing RCache's reads and Clean rely on (BlockOpsRef): over the  *)
(* whole bounded range of requests, and for the request each reader is     *)
(* serving in the current state.                                           *)
(***************************************************************************)
EXTENDS RCache, BlockOpsRef, TLC

\* The (offset, size) of the read each reader is serving.
ReaderRequests == {<<rreq[r].off, rreq[r].size>> : r \in Readers} \ {<<0, 0>>}

(***************************************************************************)
(* Every op RCache.Slice hands a reader stays inside its block, the bound  *)
(* RWBlockOp.IsFull Asserts when WriteOp uses the same slicing.            *)
(***************************************************************************)
SliceOpsInBlock == RangeOpsInBlock /\ OpsInBlock(ReaderRequests)

(***************************************************************************)
(* Slice yields one op per overlapped block and its pieces tile the read   *)
(* or write range exactly, for every request a reader or writer issues.    *)
(***************************************************************************)
SliceTilesRange == RangeTiled /\ TilesRange(ReaderRequests)

(***************************************************************************)
(* The window RCache.Clean drops after a write is exactly the set of       *)
(* blocks WCache.Slice wrote, and a reader's read window is the blocks of  *)
(* its slice.                                                              *)
(***************************************************************************)
ReadWindowMatchesSlice == RangeWindowsMatch /\ WindowMatches(ReaderRequests)
=============================================================================

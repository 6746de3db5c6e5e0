----------------------------- MODULE BlockOpsRef -----------------------------
(***************************************************************************)
(* The block slicing of WCache.Slice / RCache.Slice and the block window   *)
(* of RCache.GetReadWindow checked against a reference definition for     *)
(* every non-empty request (offset, size) in a bounded range.  The         *)
(* checks over the whole range are constant-level, so TLC evaluates them   *)
(* once; a specification that uses BlockOps states them as invariants     *)
(* together with the requests its own state holds.                        *)
(***************************************************************************)
EXTENDS BlockOps

CONSTANTS MaxOffset,    \* largest request offset tried
          MaxSize       \* largest request size tried

Requests == (0..MaxOffset) \X (1..MaxSize)

MaxOf(a, b) == IF a >= b THEN a ELSE b
MinOf(a, b) == IF a <= b THEN a ELSE b

(***************************************************************************)
(* Reference: the blocks that [o, o+n) overlaps, in order, each with the   *)
(* part of the range that falls inside it.                                 *)
(***************************************************************************)
SliceRef(o, n) ==
    LET first == o \div BlockSize
        nblk  == IF n = 0 THEN 0 ELSE (o + n - 1) \div BlockSize - first + 1
    IN  [i \in 1..nblk |->
            LET k  == first + i - 1
                lo == MaxOf(o, k * BlockSize)
                hi == MinOf(o + n, (k + 1) * BlockSize)
            IN  BlockOp(k, lo - k * BlockSize, hi - lo)]

(***************************************************************************)
(* Every op of a slice stays inside its block: RWBlockOp.IsFull, which     *)
(* WriteOp calls on each op, Asserts RwOffset + RwSize <= BlockSize.       *)
(***************************************************************************)
OpsInBlock(S) ==
    \A r \in S :
        LET ops == Slice(r[1], r[2]) IN
        \A i \in DOMAIN ops :
            /\ ops[i].RwOffset \in 0..(BlockSize - 1)
            /\ ops[i].RwOffset + ops[i].RwSize <= BlockSize

(***************************************************************************)
(* Slicing a read or write yields exactly one op per block the range       *)
(* overlaps, whose pieces tile the range with no gap or overlap            *)
(* (WCache.Slice drives every block lock and WriteOp of a write, and       *)
(* RCache.Slice every ReadOp of a read).                                   *)
(***************************************************************************)
TilesRange(S) == \A r \in S : Slice(r[1], r[2]) = SliceRef(r[1], r[2])

(***************************************************************************)
(* The window RCache.Clean releases after a write is exactly the set of    *)
(* blocks WCache.Slice wrote: no block the write touched keeps a stale     *)
(* clean copy, and no untouched block is dropped.                          *)
(***************************************************************************)
WindowMatches(S) ==
    \A r \in S :
        LET rw  == GetReadWindow(r[2], r[1])
            ops == Slice(r[1], r[2])
        IN  rw.BlkStart..(rw.BlkEnd - 1) = {ops[i].Index : i \in DOMAIN ops}

\* The three checks over the whole bounded range, evaluated once.
RangeOpsInBlock == OpsInBlock(Requests)
RangeTiled == TilesRange(Requests)
RangeWindowsMatch == WindowMatches(Requests)
=============================================================================

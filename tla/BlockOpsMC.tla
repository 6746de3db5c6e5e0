----------------------------- MODULE BlockOpsMC -----------------------------
(***************************************************************************)
(* Empty requests: every (offset, size) request in a bounded range is one  *)
(* initial state, so TLC enumerates all of them.  The non-empty requests   *)
(* are checked by the constant-level properties of BlockOpsRef.            *)
(***************************************************************************)
EXTENDS BlockOps

CONSTANTS MaxOffset,        \* largest request offset tried
          MinSize, MaxSize  \* range of request sizes tried

VARIABLES offset, size
vars == <<offset, size>>

Init == offset \in 0..MaxOffset /\ size \in MinSize..MaxSize
Next == UNCHANGED vars
Spec == Init /\ [][Next]_vars

(***************************************************************************)
(* spec.md 8: "Write with |buf| == 0 returns (0, OK) and does not          *)
(* allocate".  RWCache.Write runs WCache.Write, where every op of Slice    *)
(* may allocate a block buffer in WriteOp, and then RCache.Clean, which    *)
(* Asserts (panics) that GetReadWindow of the request holds a block.  An   *)
(* empty write is a no-op only if it slices into no op and its read window *)
(* is not empty; RCache.DoPrefetch makes the same Assert for a read.       *)
(***************************************************************************)
EmptyWriteIsNoOp ==
    size = 0 => /\ Slice(offset, size) = <<>>
                /\ WinSize(GetReadWindow(size, offset)) > 0
=============================================================================

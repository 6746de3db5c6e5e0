------------------------------ MODULE BlockOps ------------------------------
(***************************************************************************)
(* Block arithmetic shared by the read cache and the write cache           *)
(* (src/lib/libfs/cache.go, wcache.go, rcache.go): slicing a byte range    *)
(* into per-block operations, and the block windows used by prefetch and   *)
(* by RCache.Clean.  Pure operators; no state.                             *)
(***************************************************************************)
EXTENDS Naturals, Sequences

CONSTANT BlockSize          \* FileEntry.BlockSize (DefaultBlockSize, 1 MiB)

ASSUME BlockSize \in Nat \ {0}

(***************************************************************************)
(* RWBlockOp without its FileEntry and sub-buffer: the block index, the    *)
(* offset inside the block and the number of bytes.                        *)
(***************************************************************************)
BlockOp(idx, off, size) == [Index |-> idx, RwOffset |-> off, RwSize |-> size]

\* RWBlockOp.IsFull: the op reaches the end of its block.
OpIsFull(op) == op.RwOffset + op.RwSize = BlockSize

\* RWBlockOp.GetFileOffset
OpFileOffset(op) == op.Index * BlockSize + op.RwOffset

(***************************************************************************)
(* Faulty variants of Slice and GetReadWindow (plausible arithmetic slips: *)
(* the last block index computed without rounding up, an inclusive end).   *)
(* The slicing properties of BlockOpsRef must tell them apart from these.  *)
(***************************************************************************)
SliceNoRoundUp(offset, size) ==
    LET RECURSIVE L(_, _, _, _)
        L(idx, idxEnd, rwOffset, left) ==
            IF idx >= idxEnd THEN <<>>
            ELSE LET off == rwOffset % BlockSize
                     sz  == IF BlockSize - off > left THEN left ELSE BlockSize - off
                 IN  <<BlockOp(idx, off, sz)>> \o L(idx + 1, idxEnd, rwOffset + sz, left - sz)
    IN  L(offset \div BlockSize, (offset + size) \div BlockSize, offset % BlockSize, size)

\* Faulty loop: the in-block offset taken without reducing modulo BlockSize.
RECURSIVE SliceLoopNoMod(_, _, _, _)
SliceLoopNoMod(idx, idxEnd, rwOffset, left) ==
    IF idx >= idxEnd THEN <<>>
    ELSE LET sz == IF BlockSize - rwOffset > left THEN left ELSE BlockSize - rwOffset
         IN  <<BlockOp(idx, rwOffset, sz)>>
               \o SliceLoopNoMod(idx + 1, idxEnd, rwOffset + sz, left - sz)

(***************************************************************************)
(* WCache.Slice / RCache.Slice: the loop over blockIndexStart ..           *)
(* blockIndexEnd-1, carrying rwOffset and leftRwSize from one block to the *)
(* next.                                                                   *)
(***************************************************************************)
RECURSIVE SliceLoop(_, _, _, _)
SliceLoop(idx, idxEnd, rwOffset, left) ==
    IF idx >= idxEnd THEN <<>>
    ELSE LET off == rwOffset % BlockSize
             sz  == IF BlockSize - off > left THEN left ELSE BlockSize - off
         IN  <<BlockOp(idx, off, sz)>>
               \o SliceLoop(idx + 1, idxEnd, rwOffset + sz, left - sz)

Slice(offset, size) ==
    SliceLoop(offset \div BlockSize,
              (offset + size + BlockSize - 1) \div BlockSize,
              offset % BlockSize,
              size)

(***************************************************************************)
(* A block window [BlkStart, BlkEnd) (PrefetchWindow) and its methods.     *)
(***************************************************************************)
Window(s, e) == [BlkStart |-> s, BlkEnd |-> e]

WinSize(pw) == pw.BlkEnd - pw.BlkStart

\* PrefetchWindow.Move: shift the window by its own size.
WinMove(pw) == Window(pw.BlkStart + WinSize(pw), pw.BlkEnd + WinSize(pw))

\* PrefetchWindow.Extend: multiply the size of the window by times.
WinExtend(pw, times) == Window(pw.BlkStart, pw.BlkStart + WinSize(pw) * times)

\* PrefetchWindow.Cross: the two windows share a block.
WinCross(pw, rw) == ~(pw.BlkEnd <= rw.BlkStart \/ rw.BlkEnd <= pw.BlkStart)

GetReadWindowInclusive(size, offset) ==
    Window(offset \div BlockSize, (offset + size) \div BlockSize + 1)

\* RCache.GetReadWindow: the blocks touched by [offset, offset+size).
GetReadWindow(size, offset) ==
    Window(offset \div BlockSize,
           (offset + size + BlockSize - 1) \div BlockSize)
=============================================================================

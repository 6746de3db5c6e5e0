------------------------------ MODULE FileCache ------------------------------
(***************************************************************************)
(* The open-file table of src/lib/libfs/filecache.go: a fixed vector of    *)
(* FileEntry slots indexed by handle, the next free slot fileEntryIndex,   *)
(* and fileRefer, the number of non-direct handles open per file id.  All  *)
(* its methods run under the table's mutex, so each is one atomic step;    *)
(* the facade (FileOps) strings them together with the cache calls.        *)
(***************************************************************************)
EXTENDS Naturals, FiniteSets

CONSTANTS
    OpenFileMax,    \* fileEntryVecSize
    Ids,            \* file ids (dentry inodes)
    NoEntry         \* model value: a nil slot

VARIABLES
    fileEntryVec,   \* handle -> [id, direct] or NoEntry
    fileEntryIndex, \* the slot NewFile fills next
    fileRefer       \* file id -> non-direct handles open (0 = not in the map)

fcvars == <<fileEntryVec, fileEntryIndex, fileRefer>>

Slots == 0..(OpenFileMax - 1)
Entry == [id : Ids, direct : BOOLEAN]

FCInit ==
    /\ fileEntryVec = [h \in Slots |-> NoEntry]
    /\ fileEntryIndex = 0
    /\ fileRefer = [i \in Ids |-> 0]

AddRef(fr, id) == [fr EXCEPT ![id] = @ + 1]                 \* fileRefer.AddRef
DelRef(fr, id) == [fr EXCEPT ![id] = @ - 1]                 \* fileRefer.DelRef

\* GetMinEntryIndex: scan upward from next to the first nil slot
RECURSIVE MinEntryFrom(_, _)
MinEntryFrom(vec, next) ==
    IF next < OpenFileMax /\ vec[next] # NoEntry
    THEN MinEntryFrom(vec, next + 1)
    ELSE next

\* NewFile when the table has room: fill the slot, count the handle,
\* and move fileEntryIndex to the next nil slot.  The handle is the slot.
NewFile(e) ==
    LET h   == fileEntryIndex
        vec == [fileEntryVec EXCEPT ![h] = e]
    IN  /\ h < OpenFileMax
        /\ fileEntryVec' = vec
        /\ fileRefer' = IF e.direct THEN fileRefer ELSE AddRef(fileRefer, e.id)
        /\ fileEntryIndex' = MinEntryFrom(vec, h)

\* NewFile's error return: every slot up to the end is taken.
NewFileFull == fileEntryIndex >= OpenFileMax

\* A faulty CloseFile that always moves fileEntryIndex to the freed slot.
CloseFileNoMin(h) ==
    /\ fileEntryVec[h] # NoEntry
    /\ fileRefer' = IF fileEntryVec[h].direct THEN fileRefer
                    ELSE DelRef(fileRefer, fileEntryVec[h].id)
    /\ fileEntryVec' = [fileEntryVec EXCEPT ![h] = NoEntry]
    /\ fileEntryIndex' = h

\* CloseFile of an open handle: uncount it, nil the slot, and lower
\* fileEntryIndex to the freed slot if it is below.
CloseFile(h) ==
    /\ fileEntryVec[h] # NoEntry
    /\ fileRefer' = IF fileEntryVec[h].direct THEN fileRefer
                    ELSE DelRef(fileRefer, fileEntryVec[h].id)
    /\ fileEntryVec' = [fileEntryVec EXCEPT ![h] = NoEntry]
    /\ fileEntryIndex' = IF h < fileEntryIndex THEN h ELSE fileEntryIndex

\* IsLastRefer (fileRefer.LastRef, whose Assert needs a count of 1 or more)
IsLastRefer(id) == fileRefer[id] = 1

(***************************************************************************)
(* Properties of the table.                                                *)
(***************************************************************************)
FCTypeOK ==
    /\ fileEntryVec \in [Slots -> Entry \cup {NoEntry}]
    /\ fileEntryIndex \in 0..OpenFileMax
    /\ fileRefer \in [Ids -> Nat]

\* spec.md 262: descriptor allocation returns the smallest free index, and
\* refs[id] counts the non-direct open handles of id.  NewFile's scan
\* starts at fileEntryIndex and CloseFile only lowers it, so after any
\* sequence of opens and closes from several threads fileEntryIndex must
\* still be the lowest nil slot (NewFile panics if that slot is taken),
\* and the counts IsLastRefer reads must match the table.
TableConsistent ==
    /\ fileEntryIndex = MinEntryFrom(fileEntryVec, 0)
    /\ \A i \in Ids :
          fileRefer[i] = Cardinality({h \in Slots : /\ fileEntryVec[h] # NoEntry
                                                    /\ fileEntryVec[h].id = i
                                                    /\ ~fileEntryVec[h].direct})
=============================================================================

---------------------------- MODULE AbstractFile ----------------------------
(***************************************************************************)
(* What the write-back cache promises the rest of libfs for one file,      *)
(* without buffers, locks or goroutines.                                   *)
(*                                                                         *)
(*   content  what a read through the cache returns (RWCache.doRead ends   *)
(*            with WCache.MergeOp over the proxy data);                    *)
(*   stored   what the proxy holds.                                        *)
(*                                                                         *)
(* A write replaces a range of content by a fresh stamp.  Any step may     *)
(* copy part of content to the proxy.  Nothing else changes content,       *)
(* except that once the file was deleted on the proxy, cached data may be  *)
(* dropped and content falls back to stored.                               *)
(***************************************************************************)
EXTENDS Naturals

CONSTANTS Positions,   \* byte positions of the file
          MaxLen       \* longest range one write step replaces

VARIABLES content, stored, clock, deleted

avars == <<content, stored, clock, deleted>>

\* the proxy keeps, at each position, its old byte or takes the content seen
\* before or after the step (a step may write back old data, then replace it)
Persists == \A p \in Positions : stored'[p] \in {stored[p], content[p], content'[p]}

Init ==
    /\ content = [p \in Positions |-> 0]
    /\ stored = content
    /\ clock = 0
    /\ deleted = FALSE

\* An accepted write of the range [lo, lo+n) with the next stamp.
Write ==
    \E lo \in Positions, n \in 1..MaxLen :
        /\ content' = [p \in Positions |-> IF lo <= p /\ p < lo + n THEN clock + 1
                                           ELSE content[p]]
        /\ clock' = clock + 1
        /\ Persists
        /\ UNCHANGED deleted

\* A write that reported an error: content is unchanged.
FailedWrite ==
    /\ clock' = clock + 1
    /\ UNCHANGED <<content, deleted>>
    /\ Persists

\* Write-back of cached data.
Persist ==
    /\ UNCHANGED <<content, clock, deleted>>
    /\ Persists

Delete ==
    /\ ~deleted
    /\ deleted' = TRUE
    /\ UNCHANGED <<content, stored, clock>>

\* After a delete, cached data may be dropped.
Lose ==
    /\ deleted
    /\ \A p \in Positions : content'[p] \in {content[p], stored[p]}
    /\ UNCHANGED <<stored, clock, deleted>>

Next == Write \/ FailedWrite \/ Persist \/ Delete \/ Lose

Spec == Init /\ [][Next]_avars
=============================================================================

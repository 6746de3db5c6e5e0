----------------------------- MODULE RWCacheMC -----------------------------
(***************************************************************************)
(* Model-checking instance of RWCache.  Read and Write calls are bounded,  *)
(* so once all of them have returned the program may stop; any other      *)
(* state without a successor is a deadlock.                                *)
(***************************************************************************)
EXTENDS RWCache, TLC

\* every Read and Write call has returned and no more will be made, or a
\* failed Assert panicked the process
Stop ==
    /\ \/ /\ nwrites = MaxWrites /\ nreads = MaxReads
          /\ \A w \in Writers : wpc[w] = "idle"
          /\ \A r \in Readers : rpc[r] = "idle"
       \/ panicked
    /\ UNCHANGED vars

MCSpec == Init /\ [][Next \/ Stop]_vars
=============================================================================

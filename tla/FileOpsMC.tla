------------------------------ MODULE FileOpsMC ------------------------------
(***************************************************************************)
(* Model-checking instance of FileOps; the bounds are in FileOps.cfg,      *)
(* FileOpsCloseRace.cfg and FileOpsStatStale.cfg.                          *)
(***************************************************************************)
EXTENDS FileOps, TLC

\* The threads are interchangeable.
ProcSymmetry == Permutations(Procs)

\* The bounded run ends when every call was made and has returned, or when
\* an Assert panicked the process.
Stop ==
    /\ panic # "none" \/ (nops = MaxOps /\ \A p \in Procs : pc[p] = "idle")
    /\ UNCHANGED vars

MCSpec == Init /\ [][Next \/ Stop]_vars
=============================================================================

------------------------------- MODULE DirMC -------------------------------
(* Dir composed with Mount: one directory listed while the mount serves   *)
(* requests and is unmounted.  The admin thread's final state stutters.   *)
EXTENDS Dir, TLC
Stop == apc \in {"done", "failed"} /\ UNCHANGED allvars
DirSpec == DirInit /\ [][DirNext \/ Stop]_allvars /\ DirFairness
=============================================================================

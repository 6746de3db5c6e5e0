------------------------------ MODULE WCacheMC ------------------------------
(***************************************************************************)
(* Model-checking instance of WCache: the model values and bounds are      *)
(* given in WCacheLive.cfg (chSync workers) and WCacheSync.cfg (SyncIo).   *)
(***************************************************************************)
EXTENDS WCache, TLC

\* The buffers of the pool are interchangeable.
BufferSymmetry == Permutations(Buffers)

\* A failed Assert panics and the process is gone: it takes no more steps.
Crashed == panicked /\ UNCHANGED vars

MCSpec == Init /\ [][Next \/ Crashed]_vars /\ Fairness
=============================================================================

------------------------------- MODULE MountMC -------------------------------
EXTENDS Mount, TLC
Spec == Init /\ [][MountNext]_vars /\ MountFairness
Stop == apc \in {"done", "failed"} /\ UNCHANGED vars
MCSpec == Init /\ [][MountNext \/ Stop]_vars /\ MountFairness
=============================================================================

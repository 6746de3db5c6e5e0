---------------------------- MODULE ProxyClientMC ----------------------------
(***************************************************************************)
(* Model-checking instance of ProxyClient.  Each call is made once, so the *)
(* program may stop once every call has returned.                          *)
(***************************************************************************)
EXTENDS ProxyClient, TLC

Stop == \A c \in Calls : cpc[c] = "done" /\ orphans[c] = 0 /\ UNCHANGED vars

MCSpec == Init /\ [][Next \/ Stop]_vars /\ Fairness

\* every host may redirect to every other one
MCRedirectTo == {p \in Hosts \X Hosts : p[1] # p[2]}
=============================================================================

--------------------------- MODULE MCExecutorAuth ---------------------------
(***************************************************************************)
(* Two requests share a token for one attempt, a third has its own.  Two   *)
(* approved urls.                                                          *)
(***************************************************************************)
EXTENDS ExecutorAuth, TLC

CONSTANTS r1, r2, r3, t1, t2

MCRequest == {r1, r2, r3}
MCToken == {t1, t2}
MCTokenOf == (r1 :> t1) @@ (r2 :> t1) @@ (r3 :> t2)
MCExp == (t1 :> 1) @@ (t2 :> 1)
MCMaxAttempts == [t \in MCToken |-> 1]
MCUrls == <<"lan", "tailscale">>
=============================================================================

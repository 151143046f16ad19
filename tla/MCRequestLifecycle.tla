------------------------- MODULE MCRequestLifecycle -------------------------
(***************************************************************************)
(* Cancellations may arrive at every await.                                *)
(***************************************************************************)
EXTENDS RequestLifecycle

MCEverywhere == {"execute", "body", "headers", "finalize"}
=============================================================================

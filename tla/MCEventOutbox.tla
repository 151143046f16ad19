--------------------------- MODULE MCEventOutbox ---------------------------
(***************************************************************************)
(* Two keys, two rows, the background loop and one manual cycle.            *)
(***************************************************************************)
EXTENDS EventOutbox, TLC

CONSTANTS k1, k2, manual
MCKey == {k1, k2}
MCCycle == {Scheduled, manual}
=============================================================================

------------------------------ MODULE MCFleet ------------------------------
(***************************************************************************)
(* The two pictures of the fleet: that of the router and that of the       *)
(* loadout builder.  They are kept by different processes, and a behaviour *)
(* is about one of them.                                                   *)
(***************************************************************************)
EXTENDS MCFleetModels, MCFleetLoadouts

VARIABLE process

MCFleetInit ==
    /\ process \in {"router", "builder"}
    /\ FleetInit /\ Init
    /\ process = "builder" => scene = "evidence"
    /\ process = "router" =>
          flags = [r \in Run |-> {}] /\ registry = [present |-> FALSE, rows |-> <<>>]

MCFleetNext ==
    /\ process' = process
    /\ \/ process = "router" /\ FleetSteps /\ UNCHANGED vars
       \/ process = "builder" /\ Next /\ UNCHANGED fleetVars

MCFleetSpec == MCFleetInit /\ [][MCFleetNext]_<<process, fleetVars, vars>>
=============================================================================

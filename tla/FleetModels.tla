---------------------------- MODULE FleetModels -----------------------------
(***************************************************************************)
(* The fleet as the router sees it: residency of models with the           *)
(* controller that changes it, the signals about providers, and the        *)
(* evidence from benchmarks.  The first two share the signal table and the *)
(* context.  A behaviour is about one of the scenes; the parts that a      *)
(* scene leaves out keep still.                                            *)
(*                                                                         *)
(* In the scenes "models" and "placement" an application has called        *)
(* register_live_model_routes.  main.py, which starts the poll, does not:  *)
(* that is the scene "deployed".  There the registry holds what an earlier *)
(* application has left, and no operator can refresh.                      *)
(***************************************************************************)
EXTENDS ModelPlacement, BenchmarkQualification

CONSTANT Scenes

ASSUME SceneAssumption == Scenes \subseteq {"models", "placement", "deployed", "signals", "evidence"}

VARIABLE scene

fleetVars == <<now, signalVars, modelVars, placementVars, responses, scene>>

FleetInit ==
    /\ scene \in Scenes
    /\ SignalInit /\ PlacementInit /\ EvidenceInit
    /\ ModelInit

FleetSteps ==
    /\ scene' = scene
    /\ \/ scene = "models" /\ FleetNext(Task, {}) /\ UNCHANGED responses
       \/ scene = "placement" /\ FleetNext({"poll"}, Reconciler) /\ UNCHANGED responses
       \/ scene = "deployed" /\ FleetNext({}, Reconciler) /\ UNCHANGED responses
       \/ scene = "deployed" /\ PollRaises /\ UNCHANGED <<placementVars, responses>>
       \/ scene = "signals" /\ SignalNext /\ UNCHANGED <<modelVars, placementVars, responses>>
       \/ scene = "evidence" /\ Observe /\ UNCHANGED <<now, signalVars, modelVars, placementVars>>

FleetSpec == FleetInit /\ [][FleetSteps]_fleetVars
=============================================================================

--------------------------- MODULE ModelPlacement ---------------------------
(***************************************************************************)
(* The placement controller (model_placement.py): which model should be    *)
(* resident where, what the registry says is, and the loads and unloads    *)
(* sent to close the gap, by the background loop (where it is on) and by   *)
(* any number of calls of /admin/load at the same time: nothing keeps them *)
(* apart.                                                                  *)
(*                                                                         *)
(* The circuit that a placement in backoff resets belongs to               *)
(* RequestLifecycle and is left out.                                       *)
(***************************************************************************)
EXTENDS LiveModels

CONSTANTS
    Desired,         \* DESIRED_PLACEMENTS: a sequence of <<provider, model>>
    Swappable,       \* the providers the loop may touch
    UnloadAllowed,   \* UNLOAD_ALLOWED_KEYS; empty: UNLOAD_ENABLED is off
    MaxAge, Ttl,     \* PLACEMENT_MAX_OBSERVATION_AGE_SECONDS, live model cache ttl
    BackoffCount, BackoffFor,
    Operator,        \* the calls of /admin/load there may be at a time
    FleetTime,       \* bounds the clock
    LoadsMayFail     \* whether an endpoint may refuse, or answer too late

ASSUME PlacementAssumption ==
    /\ MaxAge \in Nat /\ Ttl >= MaxAge
    /\ BackoffCount \in Nat \ {0} /\ BackoffFor \in Nat \ {0}
    /\ IsFiniteSet(Operator) /\ "loop" \notin Operator
    /\ LoadsMayFail \in BOOLEAN

VARIABLES
    plan,      \* [Reconciler -> [pc, loads, unloads]]
    failures   \* _load_failures: the times of the failed loads of each placement, numbered

placementVars == <<plan, failures>>

Reconciler == {"loop"} \cup Operator
Placement == Provider \X Model
NoPlan == [pc |-> "idle", loads |-> <<>>, unloads |-> {}]

PlacementInit ==
    /\ plan = [r \in Reconciler |-> NoPlan]
    /\ failures = [x \in Placement |-> <<>>]

-----------------------------------------------------------------------------
\* gather_live: only a recent answer counts.
Fresh(p) ==
    LET row == Inventory(p)
    IN  row # <<>> /\ row[1].ok = "up" /\ now < row[1].at + Ttl /\ now - row[1].at <= MaxAge

Residency(x) == Inventory(x[1])[1].listing[x[2]]

\* compute_plan: load what is desired and was measured as not resident, unload
\* what is resident, not desired, and given free.
LoadsNeeded == SelectSeq(Desired, LAMBDA x : Fresh(x[1]) /\ Residency(x) = "idle")
UnloadsNeeded ==
    {x \in Placement : Fresh(x[1]) /\ Residency(x) = "loaded"
                         /\ x[2] \in UnloadAllowed /\ \A k \in DOMAIN Desired : Desired[k] # x}

\* reconcile_once computes its plan once.
Reconcile(r) ==
    /\ plan[r] = NoPlan
    /\ LoadsNeeded # <<>> \/ UnloadsNeeded # {}
    /\ plan' = [plan EXCEPT ![r] = [pc |-> "acting", loads |-> LoadsNeeded, unloads |-> UnloadsNeeded]]
    /\ UNCHANGED <<now, failures, modelVars, signalVars>>

\* The numbers of the failures within the backoff time.
Recent(x) == {k \in DOMAIN failures[x] : now - failures[x][k] < BackoffFor}

\* Mutant: one failure too many.
InBackoff_OneMore(x) == Cardinality(Recent(x)) > BackoffCount

InBackoff(x) == Cardinality(Recent(x)) >= BackoffCount

\* What _in_backoff keeps.
RecentOnly(x) == [k \in Recent(x) |-> failures[x][k]]

Touches(r, p) == r # "loop" \/ p \in Swappable

\* The next load is sent, or skipped: the node is static, or loading the model
\* has failed too often.
NextLoad(r) ==
    /\ plan[r].pc = "acting" /\ plan[r].loads # <<>>
    /\ LET x == Head(plan[r].loads)
       IN  /\ failures' = IF Touches(r, x[1]) THEN [failures EXCEPT ![x] = RecentOnly(x)] ELSE failures
           /\ plan' = IF ~Touches(r, x[1]) \/ InBackoff(x) THEN [plan EXCEPT ![r].loads = Tail(@)]
                                                           ELSE [plan EXCEPT ![r].pc = "loading"]
    /\ UNCHANGED <<now, modelVars, signalVars>>

Present(x) == world[x[1]].ok = "up" /\ world[x[1]].listing[x[2]] # "absent"
SetResidency(x, residency) == [world EXCEPT ![x[1]].listing[x[2]] = residency]

\* _load_model returns and _record_load_result notes how.  A call that timed
\* out may have loaded the model.
LoadEnds(r, ok, done) ==
    /\ plan[r].pc = "loading"
    /\ LET x == Head(plan[r].loads)
       IN  /\ ok => done
           /\ done => Present(x)
           /\ LoadsMayFail \/ ~Present(x) \/ ok
           /\ world' = IF done THEN SetResidency(x, "loaded") ELSE world
           /\ failures' = [failures EXCEPT ![x] = IF ok THEN <<>> ELSE AddRow(@, now)]
           /\ plan' = [plan EXCEPT ![r].pc = "acting", ![r].loads = Tail(@)]
    /\ UNCHANGED <<now, changes, enabled, cache, known, snapshots, probes, advertised, job, signalVars>>

\* Unloads are not counted, whatever becomes of them.
Unload(r) ==
    /\ plan[r].pc = "acting" /\ plan[r].loads = <<>>
    /\ \E x \in plan[r].unloads :
          /\ plan' = [plan EXCEPT ![r].unloads = @ \ {x}]
          /\ world' \in {IF Touches(r, x[1]) /\ Present(x) THEN SetResidency(x, "idle") ELSE world}
                           \cup (IF LoadsMayFail THEN {world} ELSE {})
    /\ UNCHANGED <<now, failures, changes, enabled, cache, known, snapshots, probes, advertised, job, signalVars>>

EndReconcile(r) ==
    /\ plan[r].pc = "acting" /\ plan[r].loads = <<>> /\ plan[r].unloads = {}
    /\ plan' = [plan EXCEPT ![r] = NoPlan]
    /\ UNCHANGED <<now, failures, modelVars, signalVars>>

Restart ==
    /\ changes < MaxChanges /\ changes' = changes + 1
    /\ RestartModels
    /\ plan' = [r \in Reconciler |-> NoPlan]
    /\ failures' = [x \in Placement |-> <<>>]

ReconcileStep(r) ==
    \/ Reconcile(r) \/ NextLoad(r) \/ Unload(r) \/ EndReconcile(r)
    \/ \E ok, done \in BOOLEAN : LoadEnds(r, ok, done)

\* What goes on around the endpoints, with the refreshes of tasks and the
\* reconcilers in R.
FleetNext(tasks, R) ==
    \/ \E t \in tasks : RefreshStep(t) /\ UNCHANGED placementVars
    \/ \E p \in Reachable : WorldChanges(p) /\ UNCHANGED placementVars
    \/ now < FleetTime /\ Tick /\ UNCHANGED <<signalVars, modelVars, placementVars>>
    \/ \E r \in R : ReconcileStep(r)
    \/ Restart

-----------------------------------------------------------------------------
\* reconcile_once: a model that cannot be loaded is not tried over and over.
\* Within the backoff time a placement fails BackoffCount times in a row, and
\* then at most once more for every call of /admin/load there may be beside the
\* one whose load fails: each may have passed the check before.
BackoffBounded ==
    \A x \in Placement : Cardinality(Recent(x)) <= BackoffCount + Cardinality(Operator)

=============================================================================

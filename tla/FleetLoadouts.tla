---------------------------- MODULE FleetLoadouts ----------------------------
(***************************************************************************)
(* scripts/build_fleet_loadouts.py: a run probes the fleet, assigns models *)
(* to the slots of every task profile, replaces the fleet state in the     *)
(* graph database in one transaction under a lock node, and publishes the  *)
(* JSON report in a second transaction under the same lock.  Several runs  *)
(* may be under way, and any of them may be killed.                        *)
(*                                                                         *)
(* The database (external) holds the lock of a transaction until it ends   *)
(* and undoes one that does not commit.  The snapshot of a run carries the *)
(* number of the run.  Scores are left out: candidates rank in any order.  *)
(***************************************************************************)
EXTENDS FleetDiscovery, SequencesExt

CONSTANTS Run,
          Registries,  \* the provider registries there may be on disk
          Reviewer,    \* the node/model pairs with the role of a reviewer
          WorkerFirst, NeedsReview,  \* what the task profile asks for
          DropNum, DropDen           \* max_fleet_drop_fraction

ASSUME LoadoutAssumption ==
    /\ Run \subseteq Nat \ {0} /\ IsFiniteSet(Run)
    /\ \A g \in Registries : ActiveNodes(g.rows) \subseteq Node
    /\ Reviewer \subseteq Node \X ModelKey
    /\ DropNum \in Nat /\ DropDen \in Nat \ {0} /\ DropNum <= DropDen

VARIABLES
    registry,   \* the provider registry
    pc, flags,  \* of each run: where it is, the options it was given
    nodes,      \* what its probe said
    loadout,    \* its loadout: [primary, reviewer, fallback], sets of at most one
    version,    \* the lock version its snapshot got
    db,         \* [lock, current, snaps, nodeStates, modelStates, assigned]
    holder,     \* the run whose publishing transaction holds the lock, or 0
    file        \* the JSON report: [by, version, nodes]

vars == <<registry, pc, flags, nodes, loadout, version, db, holder, file>>

NoNodes == <<>>
Pick == {{}} \cup {{c} : c \in Node \X ModelKey}
NoLoadout == [primary |-> {}, reviewer |-> {}, fallback |-> {}]

TypeOK ==
    /\ pc \in [Run -> {"start", "built", "persisted", "checked", "done"}]
    /\ loadout \in [Run -> [primary : Pick, reviewer : Pick, fallback : Pick]]
    /\ version \in [Run -> Nat]
    /\ db.lock \in 0..Cardinality(Run) /\ db.current \in Run \cup {0}
    /\ db.snaps \subseteq Run
    /\ DOMAIN db.nodeStates \subseteq Node /\ DOMAIN db.modelStates \subseteq Node \X ModelKey
    /\ holder \in Run \cup {0}
    /\ file.by \in Run \cup {0}

Init ==
    /\ pc = [r \in Run |-> "start"]
    /\ flags \in [Run -> {{}, {"dry"}, {"empty"}, {"degraded"}}]
    /\ registry \in Registries
    /\ nodes = [r \in Run |-> NoNodes]
    /\ loadout = [r \in Run |-> NoLoadout]
    /\ version = [r \in Run |-> 0]
    /\ db = [lock |-> 0, current |-> 0, snaps |-> {},
             nodeStates |-> <<>>, modelStates |-> <<>>, assigned |-> {}]
    /\ holder = 0
    /\ file = [by |-> 0, version |-> 0, nodes |-> NoNodes]

-----------------------------------------------------------------------------
\* _authoritative_model_rows, and the candidates of build_candidates.
RoutableModels(ns) ==
    {c \in (DOMAIN ns) \X ModelKey :
        ns[c[1]].online /\ ns[c[1]].authoritative /\ c[2] \in ns[c[1]].loaded}

AuthoritativeNodes(ns) == {n \in DOMAIN ns : ns[n].online /\ ns[n].authoritative}

\* pick_best: the first candidate, in the order of their scores, that is in S.
PickBest(order, S) ==
    {order[i] : i \in {k \in DOMAIN order :
        order[k] \in S /\ \A j \in DOMAIN order : j < k => order[j] \notin S}}

\* pick_resilient: a different node if there is one, else a different model.
PickResilient(order, taken, S) ==
    LET elsewhere == PickBest(order, {c \in S : \A t \in taken : t[1] # c[1]})
    IN  IF elsewhere # {} THEN elsewhere ELSE PickBest(order, S \ taken)

\* plan_loadout
PlanLoadout(order) ==
    LET any == ToSet(order)
        first == PickBest(order, any \ Reviewer)
        primary == IF WorkerFirst /\ first # {} THEN first ELSE PickBest(order, any)
        reviewer == IF NeedsReview THEN PickResilient(order, primary, any \cap Reviewer) ELSE {}
    IN  [primary |-> primary, reviewer |-> reviewer,
         fallback |-> PickResilient(order, primary \cup reviewer, any)]

\* main, up to the report: probe_all_nodes and build_report.  A registry that is
\* refused ends the run.
Build(r) ==
    /\ pc[r] = "start"
    /\ ~(registry.present /\ RowsRefused(registry.rows))
    /\ \E ns \in ProbeAllNodes(registry, file.nodes, Node) :
        /\ nodes' = [nodes EXCEPT ![r] = ns]
        /\ \E order \in SetToSeqs(RoutableModels(ns)) :
            loadout' = [loadout EXCEPT ![r] = PlanLoadout(order)]
    /\ pc' = [pc EXCEPT ![r] = "built"]
    /\ UNCHANGED <<registry, flags, version, db, holder, file>>

\* A dry run writes the report and is done; it asks nobody.
DryRun(r) ==
    /\ pc[r] = "built" /\ "dry" \in flags[r]
    /\ file' = [by |-> 0, version |-> 0, nodes |-> nodes[r]]
    /\ pc' = [pc EXCEPT ![r] = "done"]
    /\ UNCHANGED <<registry, flags, nodes, loadout, version, db, holder>>

\* _validate_snapshot_for_persistence
ValidForPersistence(r) ==
    "empty" \notin flags[r] =>
       DOMAIN nodes[r] # {} /\ RoutableModels(nodes[r]) # {} /\ loadout[r].primary # {}

Dropped(before, now) == before > 0 /\ (before - now) * DropDen > DropNum * before

\* Mutant: only the models are counted.
NotDegraded_ModelsOnly(r, prev) ==
    flags[r] \cap {"degraded", "empty"} = {} /\ prev # 0 =>
       ~Dropped(Cardinality(RoutableModels(nodes[prev])), Cardinality(RoutableModels(nodes[r])))

\* _validate_snapshot_degradation, against the snapshot current under the lock.
NotDegraded(r, prev) ==
    flags[r] \cap {"degraded", "empty"} = {} /\ prev # 0 =>
       /\ ~Dropped(Cardinality(RoutableModels(nodes[prev])), Cardinality(RoutableModels(nodes[r])))
       /\ ~Dropped(Cardinality(AuthoritativeNodes(nodes[prev])), Cardinality(AuthoritativeNodes(nodes[r])))

\* The rows a snapshot leaves: the state of every node it saw, of every routable
\* model, and the slots of its loadout.
NodeStates(r) == [n \in DOMAIN nodes[r] |-> r]
ModelStates(r) == [c \in RoutableModels(nodes[r]) |-> r]
Assignments(r) == loadout[r].primary \cup loadout[r].reviewer \cup loadout[r].fallback

\* MERGE: a state that is there is overwritten.
Merge(states, now) ==
    [x \in DOMAIN states \cup DOMAIN now |-> IF x \in DOMAIN now THEN now[x] ELSE states[x]]

\* Mutant: the states of nodes and models that are gone stay.
DeleteStale_Keeps(states, now) == Merge(states, now)

\* States are merged by name, and those the snapshot does not have are deleted.
DeleteStale(states, now) == [x \in DOMAIN now |-> Merge(states, now)[x]]

\* write_snapshot: the database after its commit; the flag of the old current
\* snapshot is taken away and this one set.
WriteSnapshot(r) ==
    [lock |-> db.lock + 1, current |-> r, snaps |-> db.snaps \cup {r},
     nodeStates |-> DeleteStale(db.nodeStates, NodeStates(r)),
     modelStates |-> DeleteStale(db.modelStates, ModelStates(r)),
     assigned |-> db.assigned \cup {<<r, c>> : c \in Assignments(r)}]

\* persist_to_neo4j: one transaction; acked is whether the run learns of its
\* commit.  If not, the run fails.
Persist(r, acked) ==
    /\ pc[r] = "built" /\ "dry" \notin flags[r] /\ holder = 0
    /\ ValidForPersistence(r) /\ NotDegraded(r, db.current)
    /\ db' = WriteSnapshot(r)
    /\ version' = [version EXCEPT ![r] = db.lock + 1]
    /\ pc' = [pc EXCEPT ![r] = IF acked THEN "persisted" ELSE "done"]
    /\ UNCHANGED <<registry, flags, nodes, loadout, holder, file>>

\* Mutant: the publisher looks without taking the lock.
PublishCheck_NoLock(r) ==
    /\ pc[r] = "persisted"
    /\ pc' = [pc EXCEPT ![r] = IF db.current = r THEN "checked" ELSE "done"]
    /\ UNCHANGED <<registry, holder, flags, nodes, loadout, version, db, file>>

\* publish_committed_report takes the lock; a run that is not current any more
\* skips its report.
PublishCheck(r) ==
    /\ pc[r] = "persisted" /\ holder = 0
    /\ IF db.current = r
       THEN holder' = r /\ pc' = [pc EXCEPT ![r] = "checked"]
       ELSE holder' = 0 /\ pc' = [pc EXCEPT ![r] = "done"]
    /\ UNCHANGED <<registry, flags, nodes, loadout, version, db, file>>

\* The report is replaced in one step (atomic_write_json), the transaction ends.
PublishWrite(r) ==
    /\ pc[r] = "checked"
    /\ file' = [by |-> r, version |-> version[r], nodes |-> nodes[r]]
    /\ holder' = 0
    /\ pc' = [pc EXCEPT ![r] = "done"]
    /\ UNCHANGED <<registry, flags, nodes, loadout, version, db>>

\* The run is refused, fails or is killed; its open transaction is undone.
Abort(r) ==
    /\ pc[r] # "done" /\ pc' = [pc EXCEPT ![r] = "done"]
    /\ holder' = IF holder = r THEN 0 ELSE holder
    /\ UNCHANGED <<registry, flags, nodes, loadout, version, db, file>>

Next == \E r \in Run :
    \/ Build(r) \/ DryRun(r)
    \/ \E acked \in BOOLEAN : Persist(r, acked)
    \/ PublishCheck(r) \/ PublishWrite(r) \/ Abort(r)

Spec == Init /\ [][Next]_vars

-----------------------------------------------------------------------------
\* publish_committed_report: a report that claims to be committed is, when it is
\* written, that of the snapshot the database calls current, with its version:
\* an overtaken run never writes over the report of the one that overtook it.
PublishedIsCurrent ==
    [][file' # file /\ file'.by # 0 =>
         file'.by = db'.current /\ file'.version = db'.lock]_vars

\* The state nodes are those of the current snapshot and of no other, and every
\* assignment of its loadout points at one of them, so that a reader who follows
\* the current flag finds the whole of one probe.
CurrentIsWhole ==
    db.current # 0 =>
        /\ DOMAIN db.nodeStates = DOMAIN nodes[db.current]
        /\ \A n \in DOMAIN db.nodeStates : db.nodeStates[n] = db.current
        /\ \A c \in DOMAIN db.modelStates : db.modelStates[c] = db.current
        /\ \A a \in db.assigned : a[1] = db.current => a[2] \in DOMAIN db.modelStates

\* Whatever two runs interleave, the current snapshot is replaced by one with far
\* fewer routable models or authoritative nodes only on request
\* (_validate_snapshot_degradation).
NoSilentCollapse ==
    [][db'.current # db.current /\ db.current # 0 /\ flags[db'.current] \cap {"degraded", "empty"} = {} =>
         LET kept(S, T) == Cardinality(T) * DropDen >= Cardinality(S) * (DropDen - DropNum)
         IN  /\ kept(RoutableModels(nodes[db.current]), RoutableModels(nodes[db'.current]))
             /\ kept(AuthoritativeNodes(nodes[db.current]), AuthoritativeNodes(nodes[db'.current]))]_vars

=============================================================================

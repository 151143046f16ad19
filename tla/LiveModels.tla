----------------------------- MODULE LiveModels -----------------------------
(***************************************************************************)
(* How the router learns which models are resident: refreshes of the       *)
(* provider listings (live_models.py, live_model_routes.py), by the poll   *)
(* loop and by an operator at the same time, the registry that keeps what  *)
(* they found (model_registry.py) and the model sets that routing reads.   *)
(*                                                                         *)
(* A listing gives every model as absent, idle, loaded or unknown (a bare  *)
(* llama-server tells nothing of residency).  Of the registry's tables     *)
(* only the row with the greatest fetched_at of a provider is ever read.   *)
(* A signal stands for the live signals of all models of a provider.  The  *)
(* calls a refresh makes in worker threads are one step.                   *)
(***************************************************************************)
EXTENDS ContextSignals, FiniteSetsExt

CONSTANTS
    Provider, Model,
    Listings,         \* the listings an endpoint may have
    FirstWorld,       \* the endpoints at the start
    FirstRows,        \* the registry at the start: what an earlier run has left
    Reachable,        \* the endpoints that are configured or on the tailnet
    StaticModels,     \* [Provider -> SUBSET Model], providers.yaml
    MaxChanges,       \* bounds what happens to the endpoints, and restarts
    RegistryMayFail   \* whether a write to the registry may fail

VARIABLES
    world,       \* the endpoints: [Provider -> [ok, listing]]
    changes,
    enabled,     \* the providers that are polled
    cache,       \* live_models._snapshots, as sequences of at most one
    known,       \* _LIVE_OK_STATE and _LIVE_SIG_STATE: [ok, sig]
    snapshots, probes, \* the newest row of each registry table
    advertised,  \* the models of each provider in state.providers
    job          \* [Task -> [Provider -> where its refresh is]]

modelVars == <<world, changes, enabled, cache, known, snapshots, probes, advertised, job>>

Task == {"poll", "admin"}
NoModels == [m \in Model |-> "absent"]
Down == [ok |-> "down", listing |-> NoModels]
Snapshot(answer, at) == [ok |-> answer.ok, listing |-> answer.listing, at |-> at]

\* _snapshot_signature sees the names, not the residency.
Signature(s) == {m \in Model : s.listing[m] # "absent"}

\* _is_model_loaded: what is not known to be resident is not advertised.
LoadedModels(s) == {m \in Model : s.listing[m] = "loaded"}

\* latest_inventory and latest_for_provider: a probe before a snapshot.
Inventory(p) == IF probes[p] # <<>> THEN probes[p] ELSE snapshots[p]

\* save_snapshot and save_probe: the row read is the one fetched last.
Newest(row, s) == IF row = <<>> \/ s.at >= row[1].at THEN <<s>> ELSE row

Idle == [pc |-> "idle"]
At(t, p, pc) == job[t][p].pc = pc
Goto(t, p, step) == job' = [job EXCEPT ![t][p] = step]

ModelInit ==
    /\ world = [p \in Provider |-> [ok |-> "up", listing |-> FirstWorld[p]]]
    /\ changes = 0
    /\ enabled = {}
    /\ cache = FirstRows
    /\ known = [p \in Provider |-> [ok |-> "none", sig |-> {}]]
    /\ snapshots = FirstRows /\ probes = FirstRows
    /\ advertised = StaticModels
    /\ job = [t \in Task |-> [p \in Provider |-> Idle]]

-----------------------------------------------------------------------------
\* merge_discovered_lmstudio_providers: what the tailnet shows is enabled, and
\* nothing is disabled.
MergeDiscovered == enabled' \in {enabled \cup found : found \in SUBSET Reachable}

\* The poll loop asks every enabled provider, the operator one of them or all.
\* refresh_provider takes the time before it asks.
StartRefresh(t) ==
    /\ \A p \in Provider : At(t, p, "idle")
    /\ MergeDiscovered
    /\ \E S \in (IF t = "poll" THEN {} ELSE {{p} : p \in enabled'}) \cup {enabled'} :
          /\ S # {}
          /\ job' = [job EXCEPT ![t] = [p \in Provider |->
                        IF p \in S THEN [pc |-> "asked", at |-> now] ELSE Idle]]
    /\ UNCHANGED <<now, world, changes, cache, known, snapshots, probes, advertised, signalVars>>

\* refresh_live_models_task where register_live_model_routes, which alone creates
\* state.live_models, has not been called: what the tailnet shows is merged, and
\* the refresh of the first provider raises.
PollRaises ==
    /\ MergeDiscovered
    /\ UNCHANGED <<now, world, changes, cache, known, snapshots, probes, advertised, job, signalVars>>

\* The endpoint answers, or the call fails.
Answer(t, p) ==
    /\ At(t, p, "asked")
    /\ Goto(t, p, [pc |-> "answered", snap |-> Snapshot(world[p], job[t][p].at)])
    /\ UNCHANGED <<now, world, changes, enabled, cache, known, snapshots, probes, advertised, signalVars>>

Changed(p, s) ==
    \/ known[p].ok # s.ok
    \/ s.ok = "up" /\ known[p].sig # Signature(s)

\* The answer is put in the cache, compared with what was known, and what is
\* known is brought up to date before anything is saved.
Land(t, p) ==
    /\ At(t, p, "answered")
    /\ LET s == job[t][p].snap
       IN  /\ cache' = [cache EXCEPT ![p] = <<s>>]
           /\ known' = [known EXCEPT ![p] = [ok |-> s.ok, sig |-> Signature(s)]]
           /\ Goto(t, p, [pc |-> "landed", snap |-> s, changed |-> Changed(p, s)])
    /\ UNCHANGED <<now, world, changes, enabled, snapshots, probes, advertised, signalVars>>

\* save_probe: the model set differs from that of the row read before.
Drift(s, prev) == s.ok = "up" /\ prev # <<>> /\ Signature(s) # Signature(prev[1])

\* live_model_signals, as save_probe has left the snapshot.
LiveSignals(p, s, drift) == [id \in {<<"live", p>>} |-> HealthSignal(s.ok = "up", drift)]

\* What a changed listing writes to the registry, read, snapshot and probe in
\* turn: all of it, or as much as an error lets through, which is only noted.
Writes(changed) ==
    IF ~changed THEN {"nothing"}
    ELSE {"all"} \cup (IF RegistryMayFail THEN {"nothing", "snapshot"} ELSE {})

\* The calls a refresh makes in worker threads: the registry and the signals.
SaveRefresh(t, p) ==
    /\ At(t, p, "landed")
    /\ LET s == job[t][p].snap
       IN  \E w \in Writes(job[t][p].changed) :
             LET drift == w = "all" /\ Drift(s, Inventory(p))
             IN  /\ snapshots' = [snapshots EXCEPT ![p] = IF w = "nothing" THEN @ ELSE Newest(@, s)]
                 /\ probes' = [probes EXCEPT ![p] = IF w = "all" THEN Newest(@, s) ELSE @]
                 /\ rows' = SaveSnapshot(rows, LiveSignals(p, s, drift))
                 /\ Goto(t, p, [pc |-> "done", ok |-> s.ok, drift |-> drift])
    /\ UNCHANGED <<now, latest, source, ctx, saving, reports,
                   world, changes, enabled, cache, known, advertised>>

\* hydrate_live_models_from_registry, the cache's part.
Hydrated == [p \in Provider |-> IF Inventory(p) # <<>> THEN Inventory(p) ELSE cache[p]]

\* sync_live_models_to_providers: a failed refresh leaves the models alone.
Sync(c) ==
    [p \in Provider |->
        IF c[p] # <<>> /\ c[p][1].ok = "up" THEN LoadedModels(c[p][1]) ELSE advertised[p]]

\* The end of refresh_provider_models, when all its providers are done: the
\* up/down states are set to what this refresh found and, if a model set
\* drifted or another refresh has found otherwise, the cache and the context
\* are filled from the registry; then routing is given what the cache holds.
FinishRefresh(t) ==
    LET S == {p \in Provider : At(t, p, "done")}
        differs == \E p \in S : job[t][p].drift \/ known[p].ok # job[t][p].ok
    IN  /\ S # {} /\ \A p \in Provider : At(t, p, "done") \/ At(t, p, "idle")
        /\ known' = [p \in Provider |-> IF p \in S THEN [known[p] EXCEPT !.ok = job[t][p].ok] ELSE known[p]]
        /\ cache' = IF differs THEN Hydrated ELSE cache
        /\ IF differs THEN HydrateContext(ctx, rows) ELSE UNCHANGED <<latest, ctx>>
        /\ advertised' = Sync(cache')
        /\ job' = [job EXCEPT ![t] = [p \in Provider |-> Idle]]
        /\ UNCHANGED <<now, world, changes, enabled, snapshots, probes, rows, source, saving, reports>>

\* load_state and register_live_model_routes after a restart: what was only in
\* memory is gone.
RestartModels ==
    /\ cache' = [p \in Provider |-> Inventory(p)]
    /\ known' = [p \in Provider |-> [ok |-> "none", sig |-> {}]]
    /\ advertised' = StaticModels
    /\ job' = [t \in Task |-> [p \in Provider |-> Idle]]
    /\ latest' = [at |-> now, view |-> ComputeLatest(rows)]
    /\ ctx' = [Loaded(source, ctx.loads) EXCEPT !.signals = MergeSignals(source, latest'.view)]
    /\ UNCHANGED <<now, world, enabled, snapshots, probes, rows, source, saving, reports>>

\* An endpoint goes down, comes back, or has its models changed by its owner or
\* by the time LM Studio lets a model stay.
WorldChanges(p) ==
    /\ changes < MaxChanges /\ changes' = changes + 1
    /\ world' \in {[world EXCEPT ![p] = w] : w \in {Down} \cup {[ok |-> "up", listing |-> l] : l \in Listings}}
    /\ world' # world
    /\ UNCHANGED <<now, enabled, cache, known, snapshots, probes, advertised, job, signalVars>>

RefreshStep(t) ==
    \/ StartRefresh(t)
    \/ \E p \in Provider : Answer(t, p) \/ Land(t, p) \/ SaveRefresh(t, p)
    \/ FinishRefresh(t)
=============================================================================

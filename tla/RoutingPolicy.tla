---------------------------- MODULE RoutingPolicy ----------------------------
(***************************************************************************)
(* Which providers a request may be sent to: how a body becomes a request  *)
(* (_router_request), how a profile is chosen (classify_profile), which    *)
(* candidates its stages get (_build_stage, _exact_model_plan,             *)
(* benchmark_order), and what is checked again when a candidate is tried   *)
(* (_candidate_allowed), while the context, the power reports of the nodes *)
(* and the operator's holds change underneath.                             *)
(*                                                                         *)
(* This is the process main_live starts: nodes report to it, and nothing   *)
(* rebuilds its health map, which starts empty (refresh_fleet_health_task  *)
(* and the tailnet refresh run under main.py's own lifespan only).         *)
(*                                                                         *)
(* A provider serves one model.  The order in which candidates are tried   *)
(* is the business of LoadBalancer: here a stage is a set of candidates,   *)
(* tried in any order.  One request at a time is followed; what others do  *)
(* to the shared state is what the environment actions do.  A request that *)
(* _execute has taken up with a provider is sent, whatever changes then.   *)
(***************************************************************************)
EXTENDS Integers, Sequences, FiniteSets

CONSTANTS Provider,
          Traits,     \* [Provider -> the configured facts about it and its model]
          Bodies,     \* the request bodies that may come in
          Stages,     \* [profile names -> sequences of policy stages]
          DefaultProfile,
          FirstView,  \* what the context says of each provider at first
          ListedAs,   \* the name the context knows it by, of this provider or another
          MaxChanges  \* bound: changes of the surroundings

ASSUME RoutingAssumption ==
    /\ IsFiniteSet(Provider) /\ MaxChanges \in Nat
    /\ DefaultProfile \in DOMAIN Stages
    /\ \A name \in DOMAIN Stages :
          /\ Len(Stages[name]) \in Nat /\ DOMAIN Stages[name] = 1..Len(Stages[name])
          /\ \A i \in DOMAIN Stages[name] :
                Stages[name][i].purpose \in {"draft", "refine", "judge", "repair", "final"}
    /\ FirstView \in [Provider -> {"unknown", "local", "free_api", "blocked"}]

VARIABLES
    ctx,       \* state.context: what it says of each provider
    pctx,      \* policy_engine.context
    report,    \* the fresh power report of its node
    held,      \* providers under a benchmark hold
    health,    \* _FLEET_HEALTH_CACHE["map"], by configured name
    pc, req, plan, trying, changes

vars == <<ctx, pctx, report, held, health, pc, req, plan, trying, changes>>
surroundings == <<ctx, pctx, report, held, health>>
request == <<pc, req, plan, trying>>

Views == [Provider -> {"unknown", "local", "free_api", "blocked"}]
PowerReports == {"none", "daily", "conserve", "essential", "survive"}
\* StagePurpose
Purpose == {"draft", "refine", "judge", "repair", "final"}
Quality == {"refine", "judge", "final"}

None == [seen |-> FALSE]
Entries == {None} \cup [seen : {TRUE}, ok : BOOLEAN, loaded : BOOLEAN,
                        low : BOOLEAN, power : PowerReports]

TypeOK ==
    /\ ctx \in Views /\ pctx \in Views
    /\ report \in [Provider -> PowerReports]
    /\ held \subseteq Provider
    /\ health \in [Provider -> Entries]
    /\ pc \in {"idle", "new", "next", "trying"}
    /\ plan \in Seq([purpose : Purpose, cands : SUBSET Provider])
    /\ trying \subseteq Provider
    /\ changes \in 0..MaxChanges

-----------------------------------------------------------------------------
\* The request.

LocalModels == {"auto/private", "auto/local", "auto/sophia"}

\* _request_privacy_forces_local: the model, or a privacy class, flag or marker
\* in the metadata.
PrivacyForcesLocal(b) == b.model \in LocalModels \/ b.marked

\* _router_request
RouterRequest(b) ==
    [b EXCEPT !.local_only = @ \/ PrivacyForcesLocal(b),
              !.allow_cloud = IF PrivacyForcesLocal(b) THEN "no" ELSE @]

\* _request_requires_local_execution
RequiresLocal(q) ==
    \/ q.local_only \/ q.priority = "local_only" \/ q.allow_cloud = "no"
    \/ PrivacyForcesLocal(q)

FamilyAlias ==
    [code |-> "coding", code_review |-> "coding", research |-> "reasoning",
     analysis |-> "reasoning", tools |-> "tool_use", tool |-> "tool_use",
     summary |-> "summarization", summarize |-> "summarization",
     compress |-> "compression", extract |-> "extraction", context |-> "long_context"]

\* normalize_task_family: what the metadata names, or what the model implies.
TaskFamily(q) ==
    CASE q.family \in DOMAIN FamilyAlias -> FamilyAlias[q.family]
      [] q.family \notin DOMAIN FamilyAlias \cup {""} -> q.family
      [] q.family = "" /\ q.model = "auto/summarize" -> "summarization"
      [] q.family = "" /\ q.model = "auto/compress" -> "compression"
      [] q.family = "" /\ q.model = "auto/extract" -> "extraction"
      [] q.family = "" /\ q.model \notin {"auto/summarize", "auto/compress", "auto/extract"}
           /\ (q.model = "auto/code" \/ q.priority = "repo_critical") -> "coding"
      [] OTHER -> IF q.tools THEN "tool_use" ELSE "general"

\* The rules of classify_profile in their order, as <<holds, profile>>; the
\* first is that of install_benchmark_routing_policy.  Some apply only if the
\* profile is configured.  A model stands for those with its prefix.
Rules(q) ==
    LET known(p) == p \in DOMAIN Stages
        rule(c, p) == <<c, p>>
        ifKnown(c, p) == <<c /\ known(p), p>>
    IN  << ifKnown(TaskFamily(q) = "summarization", "summarization_local"),
           ifKnown(TaskFamily(q) = "compression", "compression_local"),
           ifKnown(TaskFamily(q) = "extraction", "extraction_local"),
           ifKnown(RequiresLocal(q) /\ q.model = "auto/sophia", "sophia_realtime"),
           ifKnown(TRUE, q.profile),
           ifKnown(q.handoff, "iterative_review_handoff"),
           rule(RequiresLocal(q), "local_only"),
           ifKnown(q.task, "backlog_burn"),
           rule(q.priority = "critical", "high_priority_deliverable"),
           rule(q.priority = "repo_critical", "code_high_quality"),
           ifKnown(q.model = "auto/flash", "flash_start_planner"),
           rule(q.model = "auto/high", "high_priority_deliverable"),
           rule(q.model = "auto/code", "code_high_quality"),
           ifKnown(q.model = "auto/review", "iterative_review_handoff"),
           ifKnown(q.model = "auto/sophia", "sophia_realtime"),
           ifKnown(q.model = "auto/backlog", "backlog_burn"),
           rule(q.model \in {"auto/local", "auto/private"}, "local_only"),
           ifKnown(q.model = "auto/iterate", "iterative_review_handoff"),
           rule(TRUE, DefaultProfile) >>

ClassifyProfile(q) ==
    LET first == CHOOSE i \in DOMAIN Rules(q) :
                    Rules(q)[i][1] /\ \A j \in 1..(i - 1) : ~Rules(q)[j][1]
    IN  Rules(q)[first][2]

\* _fallback_profile, for a profile that is not configured.
ProfileStages(name) ==
    IF name \in DOMAIN Stages THEN Stages[name]
    ELSE <<[purpose |-> "final", classes |-> {"local"}, caps |-> {"chat"}]>>

-----------------------------------------------------------------------------
\* The candidates.

\* _provider_lane and _lane_for_provider
Lane(p, view) ==
    IF view[p] # "unknown" THEN view[p]
    ELSE IF Traits[p].class = "local" \/ Traits[p].lmstudio THEN "local" ELSE "free_api"

\* The health map is kept by configured name and read by canonical_provider_name.
Lookup(h, p) == IF ListedAs[p] \in Provider THEN h[ListedAs[p]] ELSE None

\* _provider_liveness_dead; the entries here are stamps, whose age stays 0.
LivenessDead(e) == e.seen /\ ((~e.ok /\ ~e.loaded) \/ e.low)

\* _provider_power_blocked; no purpose when an exact model is looked for.
PowerBlocked(e, purpose) ==
    /\ e.seen
    /\ \/ e.power = "survive"
       \/ e.power = "essential" /\ purpose \in Quality

\* _provider_is_eligible, with the health map h.
Eligible(p, q, purpose, h) ==
    /\ pctx[p] # "blocked"
    /\ ~LivenessDead(Lookup(h, p))
    /\ ~PowerBlocked(Lookup(h, p), purpose)
    /\ RequiresLocal(q) => Lane(p, pctx) = "local"

\* _required_capabilities_for_request
Required(caps, q) == caps \cup (IF q.tools THEN {"tool_use"} ELSE {})

ObserverOnly(p) == Traits[p].observer

FamilyRoles ==
    [coding |-> {"full_agent", "code_agent"}, reasoning |-> {"full_agent", "reasoning"},
     tool_use |-> {"full_agent", "tool_agent"}, long_context |-> {"full_agent", "long_context"},
     summarization |-> {"full_agent", "auxiliary_llm", "summarization"},
     compression |-> {"full_agent", "auxiliary_llm", "compression"},
     extraction |-> {"full_agent", "auxiliary_llm", "extraction"}]

\* _role_allowed and _quality_allowed
RoleAllowed(p, family) ==
    /\ ~ObserverOnly(p)
    /\ family = "coding" => Traits[p].code
    /\ \/ Traits[p].roles = {}
       \/ family \notin DOMAIN FamilyRoles
       \/ Traits[p].roles \cap FamilyRoles[family] # {}

QualityAllowed(p, family) == Traits[p].floor \notin {<<family, "failed">>}

\* benchmark_order: what it drops.
BenchmarkOrder(cands, q) ==
    IF TaskFamily(q) = "general" THEN {p \in cands : ~ObserverOnly(p)}
    ELSE {p \in cands : RoleAllowed(p, TaskFamily(q)) /\ QualityAllowed(p, TaskFamily(q))}

\* _build_stage
BuildStage(st, q, h) ==
    LET cands == {p \in Provider \ held :
                    /\ Eligible(p, q, st.purpose, h)
                    /\ st.classes # {} => Traits[p].class \in st.classes
                    /\ Required(st.caps, q) \subseteq Traits[p].caps}
    IN  [purpose |-> st.purpose, cands |-> BenchmarkOrder(cands, q)]

\* _exact_model_plan: the providers it may settle on, judged without a purpose.
ExactMatches(q, h) ==
    {p \in Provider \ held :
        /\ q.model = Traits[p].alias
        /\ Eligible(p, q, "none", h)
        /\ Required({}, q) \subseteq Traits[p].caps}

\* plan: the plans there may be for a request.
Plans(q, h) ==
    IF ExactMatches(q, h) # {}
    THEN {<<[purpose |-> "final", cands |-> {p}]>> : p \in ExactMatches(q, h)}
    ELSE LET st == ProfileStages(ClassifyProfile(q))
         IN  {[i \in DOMAIN st |-> BuildStage(st[i], q, h)]}

\* _candidate_allowed, against the context of the moment.
CandidateAllowed(p) ==
    /\ ctx[p] # "blocked"
    /\ RequiresLocal(req) => Lane(p, ctx) = "local"

-----------------------------------------------------------------------------
\* Health and power.

\* _power_tier_apply: a node that parks inference looks dead; nothing is given
\* back when its tier is daily again.
PowerTierApply(e, r) ==
    IF r = "survive"
    THEN [e EXCEPT !.power = r, !.ok = FALSE, !.loaded = FALSE, !.low = TRUE]
    ELSE [e EXCEPT !.power = r]

\* Mutant: as in _apply_power_tiers, only known providers are stamped.
ApplyPowerTiersToPolicy_KnownOnly(h) ==
    [p \in Provider |->
        IF report[p] = "none" \/ ~h[p].seen THEN h[p]
        ELSE PowerTierApply(h[p], report[p])]

\* _apply_power_tiers_to_policy, on the shared map before every plan: an entry
\* is made where there is none.
ApplyPowerTiersToPolicy(h) ==
    [p \in Provider |->
        IF report[p] = "none" THEN h[p]
        ELSE PowerTierApply(IF h[p].seen THEN h[p]
                            ELSE [seen |-> TRUE, ok |-> TRUE, loaded |-> FALSE,
                                  low |-> FALSE, power |-> "none"],
                            report[p])]

-----------------------------------------------------------------------------
Init ==
    /\ ctx = FirstView /\ pctx = ctx
    /\ report = [p \in Provider |-> "none"]
    /\ held = {}
    /\ health = [p \in Provider |-> None]
    /\ pc = "idle" /\ req = <<>> /\ plan = <<>> /\ trying = {}
    /\ changes = 0

Change == changes < MaxChanges /\ changes' = changes + 1

\* node_report: a node reports its power tier; a report that does not mention
\* it keeps the last one.
Reported(p, r) ==
    /\ Change /\ r # report[p] /\ report' = [report EXCEPT ![p] = r]
    /\ UNCHANGED <<ctx, pctx, held, health, request>>

\* The last report of a node is too old to count.
ReportExpires(p) ==
    /\ Change /\ report[p] # "none" /\ report' = [report EXCEPT ![p] = "none"]
    /\ UNCHANGED <<ctx, pctx, held, health, request>>

\* The operator's reservation file holds or frees a provider.
Hold(p) ==
    /\ Change
    /\ held' = IF p \in held THEN held \ {p} ELSE held \cup {p}
    /\ UNCHANGED <<ctx, pctx, report, health, request>>

\* refresh_context_task after the load, in one stretch: if the snapshot cannot
\* be saved, the policy engine keeps the context it had.
RefreshContext(p, v, saved) ==
    /\ Change /\ v # ctx[p]
    /\ ctx' = [ctx EXCEPT ![p] = v]
    /\ pctx' = IF saved THEN ctx' ELSE pctx
    /\ UNCHANGED <<report, held, health, request>>

-----------------------------------------------------------------------------
Arrive(b) ==
    /\ pc = "idle" /\ pc' = "new"
    /\ req' = RouterRequest(b)
    /\ UNCHANGED <<surroundings, plan, trying, changes>>

\* _execute up to its first await: the shared map is stamped and the plan made.
Execute ==
    /\ pc = "new" /\ pc' = "next"
    /\ health' = ApplyPowerTiersToPolicy(health)
    /\ plan' \in Plans(req, health')
    /\ UNCHANGED <<ctx, pctx, report, held, req, trying, changes>>

Without(pl, p) == [pl EXCEPT ![1].cands = @ \ {p}]

\* _execute tries a candidate of the first stage that has one left, or passes
\* over it: not allowed by now, its circuit open, its quota spent.
Try(p) ==
    /\ pc = "next" /\ plan # <<>> /\ p \in plan[1].cands
    /\ CandidateAllowed(p)
    /\ pc' = "trying" /\ trying' = {p} /\ plan' = Without(plan, p)
    /\ UNCHANGED <<surroundings, req, changes>>

PassOver(p) ==
    /\ pc = "next" /\ plan # <<>> /\ p \in plan[1].cands
    /\ plan' = Without(plan, p)
    /\ UNCHANGED <<surroundings, pc, req, trying, changes>>

TryEnds(ok) ==
    /\ pc = "trying" /\ trying' = {}
    /\ pc' = IF ok THEN "idle" ELSE "next"
    /\ req' = IF ok THEN <<>> ELSE req
    /\ plan' = IF ok THEN <<>> ELSE plan
    /\ UNCHANGED <<surroundings, changes>>

NextStage ==
    /\ pc = "next" /\ plan # <<>> /\ plan[1].cands = {}
    /\ plan' = Tail(plan)
    /\ UNCHANGED <<surroundings, pc, req, trying, changes>>

\* No stage is left (503), or the deadline or the attempt limit is reached
\* with a candidate at hand (504).
Refuse ==
    /\ pc = "next"
    /\ plan # <<>> => plan[1].cands # {}
    /\ pc' = "idle" /\ req' = <<>> /\ plan' = <<>>
    /\ UNCHANGED <<surroundings, trying, changes>>

Surroundings == \E p \in Provider :
    \/ \E r \in PowerReports \ {"none"} : Reported(p, r)
    \/ ReportExpires(p)
    \/ Hold(p)
    \/ \E v \in {"local", "free_api", "blocked"}, saved \in BOOLEAN : RefreshContext(p, v, saved)

Requests ==
    \/ \E b \in Bodies : Arrive(b)
    \/ Execute
    \/ \E p \in Provider : Try(p) \/ PassOver(p)
    \/ \E ok \in BOOLEAN : TryEnds(ok)
    \/ NextStage \/ Refuse

Next == Surroundings \/ Requests

Spec == Init /\ [][Next]_vars

\* The router goes on planning and serving requests.
BusySpec == Spec /\ WF_vars(Requests)

-----------------------------------------------------------------------------
\* A node that says it parks inference (survive) is in no plan made while its
\* report is fresh, and one down to its essential model in a quality stage only
\* of a request that names the model, whatever was stamped into the shared map
\* before and even if nothing was (_apply_power_tiers_to_policy).  This is of
\* the providers the context lists by their configured name.
PowerRespected ==
    [][pc = "new" /\ pc' = "next" =>
         \A i \in DOMAIN plan' : \A p \in plan'[i].cands : ListedAs[p] = p =>
            /\ report[p] # "survive"
            /\ report[p] = "essential" /\ plan'[i].purpose \in Quality =>
                  req.model = Traits[p].alias]_vars

\* _provider_liveness_dead: "Exclude a provider only on fresh, concrete evidence
\* it's unusable": a node that is back on daily power comes back to work.
BackToWork ==
    \A p \in Provider :
        changes = MaxChanges /\ report[p] = "daily" ~> ~LivenessDead(Lookup(health, p))
=============================================================================

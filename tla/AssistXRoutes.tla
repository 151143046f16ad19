---------------------------- MODULE AssistXRoutes ----------------------------
(***************************************************************************)
(* The endpoints AssistX uses: /api/routes/request (assistx_routes.py and  *)
(* the guard of strict_assistx_routes.py), /jobs/agent, the memory routes, *)
(* and the backlog (assistx_tasks.py, backlog_scheduler.py,                *)
(* backlog_routes.py, _backlog_burn_loop of main.py).                      *)
(*                                                                         *)
(* A route request first asks for memories, which may wait for the remote  *)
(* service; it decides on what it then finds.  To keep the instances small *)
(* a behaviour plays one of three scenes: callers of the jobs and memory   *)
(* routes; route requests, their jobs and what is said of the memories     *)
(* there are; the backlog, which shares no state with the rest.            *)
(***************************************************************************)
EXTENDS AgentJobs

CONSTANTS
    RouteRequests,  \* [payload, asks, requested]
    Providers,      \* the enabled providers: [name, quota, tailnet, priority, local]
    HasContext,     \* whether the router's state is there
    KnownModels,    \* context.model_for: [names -> [provider, local, blocked]]
    KnownProviders, \* context.provider_for: [names -> [provider, local]]
    Dispatcher,     \* fleet_dispatcher_enabled
    Items,          \* the tasks AssistX lists: [id, privacy, local, sensitive, cloud, priority, queue]
    Plans           \* the candidates a plan may give: sequences of [name, quota, local_only]

ASSUME RouteAssumption == \A q \in RouteRequests : {"job", "mems"} \subseteq DOMAIN q.payload

VARIABLES
    scene,      \* "jobs", "routes" or "backlog"
    strict,     \* whether the strict guard is installed
    asking,     \* the route requests that wait for their memories
    decision,   \* the last route decision: [lane, provider, job]
    power,      \* whether every node is on daily power
    burn,       \* the burn loop: "idle" or "posted"
    selected    \* the last backlog decision: [item, status, provider]

vars == <<jobVars, memoryVars, scene, strict, asking, decision, power, burn, selected>>

NoDecision == [lane |-> "none", provider |-> "none", routed |-> FALSE]
NoSelection == [item |-> {}, status |-> "none", provider |-> {}]

TypeOK ==
    /\ MemoryTypeOK /\ JobTypeOK
    /\ asking \subseteq RouteRequests /\ burn \in {"idle", "posted"}
    /\ selected.status \in {"none", "selected", "skipped"}

Init ==
    /\ JobInit
    /\ \/ scene \in {"jobs", "backlog"} /\ strict = FALSE /\ MemoryInit
       \/ scene = "routes" /\ strict \in BOOLEAN /\ \E r \in Ingests : MemoryWith(r)
    /\ asking = {} /\ decision = NoDecision
    /\ power = TRUE /\ burn = "idle" /\ selected = NoSelection

routeVars == <<scene, strict, asking, decision, power, burn, selected>>

-----------------------------------------------------------------------------
\* _request_needs_tools
RequestNeedsTools(q) ==
    \/ q.asks \cap {"repo", "web", "files", "tools"} # {}
    \/ TaskRequiresTools(q.payload) \/ TaskWorkflowStage(q.payload) = "handoff"

Decision(lane, provider) == [lane |-> lane, provider |-> provider, routed |-> lane = "paperclip" /\ Dispatcher]
Blocked == Decision("blocked", "none")

First(S) == CHOOSE p \in S : \A o \in S : p.priority <= o.priority

\* What the context knows of the model or the provider a request names: none or one
\* decision.  A model of a provider that is not enabled or not local fails the
\* request, for what the context has of a provider is no name.
Requested(q, locals) ==
    LET n == q.requested
        m == KnownModels[n]
        enabled == \E p \in locals : p.name = m.provider
        model == n \in DOMAIN KnownModels /\ m.local /\ ~m.blocked
        provider == n \in DOMAIN KnownProviders /\ KnownProviders[n].local
    IN  IF model /\ enabled THEN {Decision("local", m.provider)}
        ELSE IF model /\ m.provider \in DOMAIN KnownProviders THEN {NoDecision}
        ELSE IF provider THEN {Decision("local", KnownProviders[n].provider)}
        ELSE {}

\* _select_lane_and_provider: tool work to the agent jobs; else what was asked for,
\* the first local provider (one on the tailnet counts as local), the first free one.
SelectLaneAndProvider(q) ==
    LET locals == {p \in Providers : p.quota = "local" \/ p.tailnet}
        free == {p \in Providers : p.quota = "free"}
    IN  IF ~HasContext THEN Decision("local", "lmstudio")
        ELSE IF RequestNeedsTools(q) THEN Decision("paperclip", "agent-jobs")
        ELSE IF Requested(q, locals) # {} THEN CHOOSE d \in Requested(q, locals) : TRUE
        ELSE IF locals # {} THEN Decision("local", First(locals).name)
        ELSE IF free # {} THEN Decision("free_api", First(free).name)
        ELSE Blocked

\* install_strict_assistx_route_guard
Guarded(q) ==
    LET d == SelectLaneAndProvider(q)
    IN  IF ~RequestNeedsTools(q) /\ d = NoDecision THEN d
        ELSE IF
           \/ RequestNeedsTools(q) \/ d.lane # "local"
           \/ ~\E p \in Providers : p.name = d.provider /\ p.quota = "local"
        THEN Blocked ELSE d

\* route_request, up to the memories, which come from the store or from the
\* remote service.
Ask(q) ==
    /\ scene = "routes" /\ asking = {}
    /\ asking' = {q} /\ Assemble /\ decision' = NoDecision
    /\ UNCHANGED <<jobVars, scene, strict, power, burn, selected>>

\* A new job's identifier has never been seen.
Fresh(j) == jobs[j] = 0 /\ ~\E e \in outcomes : e.id = j

\* The rest of route_request: the decision, and the job if there is one.
Decide(q) ==
    /\ q \in asking /\ asking' = {}
    /\ LET d == IF strict THEN Guarded(q) ELSE SelectLaneAndProvider(q) IN
       /\ decision' = d
       /\ IF d.routed
          THEN \E j \in Job : /\ Fresh(j)
                              /\ Submit(BuildAgentJobRequest([q.payload EXCEPT !.job = j, !.mems = context]))
          ELSE UNCHANGED jobVars
    /\ UNCHANGED <<memoryVars, scene, strict, power, burn, selected>>

\* create_agent_job and the memory routes
Call ==
    /\ \/ scene = "jobs" /\ \E p \in Payloads : Submit(BuildAgentJobRequest(p)) /\ UNCHANGED memoryVars
       \/ scene = "jobs" /\ \E r \in Ingests : Ingest(r) /\ UNCHANGED jobVars
       \/ scene = "jobs" /\ \E r \in Reports : RecordOutcome(r) /\ UNCHANGED jobVars
       \/ scene # "backlog" /\ \E r \in Lifecycles : RecordLifecycle(r) /\ UNCHANGED jobVars
    /\ UNCHANGED routeVars

Work ==
    /\ scene # "backlog" /\ JobStep
    /\ UNCHANGED routeVars

\* A restart ends the handlers and loops, too.
RestartRouter ==
    /\ Restart /\ asking' = {} /\ burn' = "idle"
    /\ decision' = NoDecision /\ selected' = NoSelection
    /\ UNCHANGED <<scene, strict, power>>

-----------------------------------------------------------------------------
\* normalize_assistx_task
NormalizeTask(i) ==
    LET local == i.local \/ i.privacy \in {"local_only", "private", "secret"} IN
    [item |-> i, priority |-> i.priority, queue |-> i.queue, local |-> local,
     sensitive |-> i.sensitive \/ i.privacy \in {"private", "secret", "voice_auth", "enrollment", "enrollment_sample"},
     cloud |-> Or(i.cloud, ~local)]

\* Mutant: the planner is trusted to keep a local task local.
MayTake_Planner(c, local) == TRUE

\* _first_available_candidate, its own check of a local task
MayTake(c, local) == local => c.quota = "local" /\ c.local_only

\* _decide_task.  cands: what the plan offers, in order; open: those with quota.
DecideTask(t, cands, open) ==
    LET local == t.local \/ t.cloud = FALSE
        able == {k \in DOMAIN cands : MayTake(cands[k], local) /\ cands[k].name \in open}
    IN  IF \/ t.sensitive
           \/ t.priority \notin {"batch", "background"}
           \/ t.queue \notin {"backlog", "background", "batch"}
           \/ able = {}
        THEN [item |-> {t.item}, status |-> "skipped", provider |-> {}]
        ELSE [item |-> {t.item}, status |-> "selected",
              provider |-> {cands[k] : k \in {k \in able : \A j \in able : k <= j}}]

PowerChange ==
    /\ scene = "backlog" /\ power' = ~power
    /\ UNCHANGED <<jobVars, memoryVars, scene, strict, asking, decision, burn, selected>>

\* _backlog_burn_loop: the brake is looked at, then the request posted.
BurnLoop ==
    /\ scene = "backlog" /\ burn = "idle" /\ power
    /\ burn' = "posted"
    /\ UNCHANGED <<jobVars, memoryVars, scene, strict, asking, decision, power, selected>>

\* backlog_burn_down and backlog_dry_run: each task of the list is decided on and
\* announced; the last one is kept.  The handler does not look at the power.
BurnDown ==
    /\ scene = "backlog" /\ burn' = "idle"
    /\ \E i \in Items, cands \in Plans : \E open \in SUBSET {cands[k].name : k \in DOMAIN cands} :
          selected' = DecideTask(NormalizeTask(i), cands, open)
    /\ UNCHANGED <<jobVars, memoryVars, scene, strict, asking, decision, power>>

Next ==
    \/ \E q \in RouteRequests : Ask(q) \/ Decide(q)
    \/ Call \/ Work \/ RestartRouter
    \/ PowerChange \/ BurnLoop \/ BurnDown

Spec == Init /\ [][Next]_vars /\ JobFairness

-----------------------------------------------------------------------------
\* strict_assistx_routes.py: with the guard installed a route decision is for an
\* enabled local runtime or for nothing, and no agent job comes of it, whatever
\* lane the selection behind it takes and whatever it counts as local.
StrictStaysLocal ==
    strict /\ decision # NoDecision =>
        /\ decision.lane \in {"local", "blocked"} /\ ~decision.routed
        /\ decision.lane = "local" =>
             \E p \in Providers : p.name = decision.provider /\ p.quota = "local"

\* assistx_tasks.py, backlog_scheduler.py: what AssistX labels private or secret
\* is never burnt as backlog, and what it labels local goes to a model that is
\* local twice over, even if the planner offers another.
BacklogStaysPrivate ==
    \A i \in selected.item : selected.status = "selected" =>
        /\ i.privacy \notin {"private", "secret", "voice_auth"} /\ ~i.sensitive
        /\ i.privacy = "local_only" \/ i.local =>
             \A c \in selected.provider : c.quota = "local" /\ c.local_only

\* Private work stays on the machines of the owner, by either way out of AssistX.
PrivateStaysLocal == StrictStaysLocal /\ BacklogStaysPrivate
=============================================================================

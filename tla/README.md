# Formal models of auto-router

auto-router is a control-plane router for a fleet of local model servers. It
accepts OpenAI-style inference requests, plans which provider may serve each of
them, admits them to a physical runtime, dispatches them, and reports what
happened to AssistX, which in turn tells the router, by signed generations, which
runtimes exist. Beside that it keeps a picture of the fleet (which models are
resident, which providers are healthy, what benchmarks say of them), runs agent
jobs, and assigns models to task profiles. This directory models the parts of it
in which several tasks share state, model-checks them with TLC and proves every safety
property of the passing runs with TLAPS.

The code is asyncio: within one process a step of a model is the stretch of code
between two awaits, and everything that can happen at an await (another task, a
timeout, a cancellation, a crash) is an action of its own.

## The system and its parts

| Part | State it keeps | Operations | Hard part | Correct if |
|---|---|---|---|---|
| Admission gates (`admission.py`) | slots in use, list of waiters, futures | acquire, release, timeout, cancel | a grant races with the timeout or cancellation of the waiter it serves | slots are neither lost nor used twice; priority order is kept |
| Idempotency ledger (`request_idempotency.py`) | one SQLite row per key | reserve, transition, expiry; ASGI middleware | duplicate calls, crashes, late transitions | a key is forwarded once; the row ends in a true state |
| Execution loop (`main.py`, `_execute`) | in-flight marks, quota, circuits | plan, try candidates, fail over, give up | cancellation at any await, failing local writes | what an attempt takes is given back |
| Stream lifecycle (`stream_lifecycle.py`) | finalizer flag, terminal marker | dispatch wrappers, body, finalize | the body outlives the handler; clients go away | completed means that the upstream finished |
| Entry point (`main_live.py`, `claim_fence.py`) | lease of a dispatch | admit, fence, select a path, dispatch | the world changes while a request queues | no dispatch on authority that has lapsed |
| Executor authentication (`executor_auth.py`, `owner_binding.py`) | attempts per token | check, charge | requests of one token at once, expiry of its record | a token admits its budget |
| Access paths (`access_paths.py`) | cached choice, lock per runtime | select, probe | everybody waits for one probe | a path in use answered lately; select ends |
| Runtime projection (`runtime_projection*.py`) | generation in force, retired ones, checksum, lease time | validate, apply, renew, prune, poll | two calls of apply overlap at an await | generations in order; old leases keep their gates |
| Event outbox (`event_outbox.py`, `event_dispatcher.py`, `service_routes.py`) | SQLite table of events, dispatch lock | enqueue, dispatch cycle, marks, prune | lost answers, crashes, concurrent cycles | at-least-once delivery, bounded posts |
| Quota (`quota.py`) | counters with windows, in memory or in Redis | reserve, release | refunds across windows; two processes | limits hold; failed work is not charged |
| Load balancing (`policy.py`) | in-flight and planned marks, rotation | plan, mark | concurrent plans | marks follow what requests do |
| Routing policy (`policy.py`, `benchmark_routing_policy.py`, `main.py`, `fleet_routes.py`) | context, health map, power reports, holds | classify, plan, re-check, stamp | plan and attempt see different contexts; the map outlives the reports it is made of | a plan respects fresh reports; parked nodes come back |
| Context and signals (`context.py`, `signal_registry.py`, `route_events.py`, `route_event_patch.py`) | SQLite table, cached view, context with its index | save, prune, hydrate, load | saves by threads, caches that outlive what they cache | signals do not go back, and plans find them |
| Live models (`live_models.py`, `live_model_routes.py`, `model_registry.py`) | cache, registry rows, model sets of the providers | refresh, hydrate, sync, merge | refreshes out of order, a failing registry | what is advertised becomes what is loaded |
| Placement (`model_placement.py`) | recent failures of loads | plan, load, unload | a plan is old when it is carried out | failing loads back off |
| Qualification (`benchmark_qualification.py`) | rows of evidence | normalise, classify, rate, derive | unset fields, derivations that must agree | roles are earned |
| Loadout builder (`scripts/build_fleet_loadouts.py`, `fleet_task_dispatcher.py`, `discovery_enabled_policy.py`) | graph of the fleet, lock version, JSON report | probe, plan, reconcile, publish | two runs, a run that dies or never learns of its commit | the graph holds one probe, the report is the current one |
| Agent jobs (`agent_jobs.py`, `agent_workers.py`, `task_contract.py`) | records and tasks by identifier | submit, run, time out | an identifier is submitted again while it runs | every job settles |
| Memory (`memory_store.py`, `memory_client.py`, `memory_routes.py`) | rows, events seen | ingest, lifecycle, outcome, query | redelivered and reordered events | credited once, not revived |
| AssistX routes and backlog (`assistx_routes.py`, `strict_assistx_routes.py`, `assistx_tasks.py`, `backlog_*.py`) | decisions | choose a lane, guard, pick a task | two ways out with checks of their own | private work stays local |
| Circuit breaker (`circuit_breaker.py`) | failures, open until | allowed, record, reset | shared by all requests | part of RequestLifecycle |

How they interact: the middleware reserves the row and calls the application;
`_execute` plans, reserves quota, enqueues a decision event, marks the owner busy
and calls the dispatch wrapper of the stream lifecycle, which moves the row and
calls the admitted dispatch of the entry point, which takes a lease from a gate of
the generation in force, asks the claim fence, selects a path and sends. The
projection manager replaces registry, context, policy, gates and paths under all
of this. Route decisions and outcomes come back to the plan as signals. The loadout
builder is a process of its own that shares only the graph database and the report.

There are two entry points, and they run different loops. Both drain the outbox,
refresh the context, prune the state and save latencies. `main:app` alone polls
the providers for live models, refreshes the tailnet signals, rebuilds the health map,
burns the backlog and, if `RECONCILE_SECONDS` is set, which it is not by default,
reconciles placements; it serves `/jobs/agent`. `main_live` replaces that lifespan,
polls the projection instead, mounts the power reports, installs the patched event
recording and retires `/jobs/agent`. A module says which of the two it models where
that matters.

PROJECT.json lists every part, the hazards of each at its line, and the map from
definitions to source lines.

## Modules

Admission and dispatch:

* **SlotPool** is the abstract specification of admission: per runtime a set of
  slot owners that changes by grant, return and hand-over.
* **AdmissionGate** models `_RuntimeGate` and `RuntimeAdmissionLease`. `active`
  and `waiters` are the fields of that name; `future` is the state of the future
  a task waits on, so that "resolved but not yet run" is a state of its own.
  One action per way out of `acquire` (unavailable, at once, full, queued, woken,
  timed out with and without a grant, cancelled with and without a grant) and one
  for `release`, which hands the slot over in the same step. Sequence numbers are
  list positions. `PoolSpec` is SlotPool under the mapping "owner = holder, or
  waiter whose future is resolved".
* **RequestLifecycle** follows one idempotency key through middleware, loop,
  admission, wrapper and body. `row` is the row's state; `pc` the place of a
  call; `lease`, `inflight`, `quota` what its attempts have taken, as net counts;
  `failures` one circuit that stands for those of the candidates. Upstreams are
  external: reject, succeed, stream, break, or never say. `CancelPoints` says at
  which awaits cancellations arrive.
* **AccessPaths** models `select` of one runtime: cached choice, lock, probes in
  order, failure, cancellation. **ExecutorAuth** extends it by what comes before:
  the token check, the attempt ledger (the clock is read twice, and the model has
  both readings), the wait for a slot, the question to AssistX and the fence.
* **LoadBalancer** models the marks of `PolicyEngine`: `plan` orders the
  candidates of every stage by load and last use, rotates them, and reserves the
  first of each; `_execute` releases and marks. One capability tier; ties go
  either way, because latency averages and scores are not kept.
* **RuntimeProjection** models the v2 manager over the v1 one. `apply` is three
  steps (check and prepare, swap, postlude) because it awaits twice; requests pass
  token check, gate, fence and dispatch. Documents say which providers share the
  runtime and with what capacity, and `Valid` refuses those that disagree.
* **EventOutbox** models table, dispatcher, lock and background loop. The sink is
  external and may take an event without the dispatcher learning of it. The
  operator endpoints are those of `register_service_routes`; the reconciled entry
  point does not mount them, which only removes behaviours. The sink is configured.
* **QuotaManager** is `InMemoryQuotaManager` for one provider model;
  **RedisQuota** adds `RedisQuotaManager` (watch, read, commit or retry; Redis is
  external) and the choice between them that `build_quota_manager` makes.

Routing and the picture of the fleet:

* **RoutingPolicy**: from a body to a request, a profile, stages of candidates and
  attempts. A stage is a set of candidates (their order is LoadBalancer's); the
  state is what the plan reads: two references to the context, power reports, holds,
  and the health map, which every plan stamps. Lookups in it go by the name the
  context lists a provider under (`ListedAs`), stamps by the configured one. This is
  the process of `main_live`, the only one to which nodes report; it starts no task
  that rebuilds the map, and nothing in it writes probe history.
* **ContextSignals**: the table of signals, its cached view, the context and the
  index the context builds when first asked and keeps. Producers save in a thread
  (`ThreadSaves`) or at once, and hydrate from the cached view.
* **LiveModels** extends it: refreshes by the poll loop and by an operator, each in
  the steps start, answer, save, finish; registry rows; hydration; the sync into
  the model sets that routing reads; discovery and restart. They need
  `state.live_models`, which only `register_live_model_routes` creates; `PollRaises`
  is the poll without it, as `main:app` runs it. **ModelPlacement** extends that by
  the reconciler: the loop and any number of calls of `/admin/load` (`Operator`), with
  no lock between them. **BenchmarkQualification** is the algorithm from responses to
  roles, as operators; what the harness says of endpoint and model comes before what
  the response shows. **FleetModels** composes them; a behaviour is about one of
  five scenes, because the parts share only the clock, the table and the context. In
  "models" and "placement" an application has registered the live-model routes, in
  "deployed" none has, and the registry holds what an earlier one left. The scene
  "signals" has the steps of both entry points (the tailnet refresh of `main:app`, the
  patched recording of `main_live`), which only adds behaviours.
* **FleetDiscovery** says what a probe of the fleet can report, **FleetLoadouts**
  what a run of the builder does with it. The graph database is external: a
  transaction that takes the lock node is one step or holds the lock, and one
  that does not commit leaves nothing.

AssistX:

* **MemoryStore** (store and client; an ingest brings the counters its sender
  gives), **AgentJobs** (what a job asks of its worker, records, tasks, worker
  processes; extends it) and **AssistXRoutes** (lane choice, strict guard, memory and
  job endpoints, backlog; extends both). A worker that runs too long is killed
  (`Kill`), and its task waits for the end of the pipes, which a child of the worker
  may hold (`LetGo`) for as long as it likes, before the result is recorded
  (`Timeout`). A behaviour plays one of three scenes.

**MC…** modules give the constants their values. **MCCapacity** and **MCFleet** put two
components that share nothing into one run: a behaviour is one of the quota managers or
of the load balancer, of the router's picture of the fleet or of the builder's.
**X_proofs** modules hold the theorems
about X; **Capacity_proofs** those about AdmissionGate, RedisQuota and LoadBalancer,
**Fleet_proofs** those about FleetModels and FleetLoadouts (see Proofs).

Operators named `X_Something`, marked *Mutant*, are wrong variants of `X` that no
specification uses. They show that a property can fail.

## Runs

| Run | Shows | Bounds |
|---|---|---|
| `admission_gate` | slots accounted for, queue exact, no idle slot beside a waiter, no overtaking, no starvation of the highest rank, implements SlotPool | 4 tasks that ask again for ever, 2 ranks; gates with 2 slots and 2 places, 1 and none, none at all: grant, hand-over to one of two waiters, full queue and every race occur |
| `request_lifecycle` | forwarded once, completion evidenced, rows settled and leases returned, books balanced, calls end | 2 calls, 2 attempts each, 1 crash, threshold 2: an ambiguous attempt followed by another, a duplicate during and after, a retry after a crash |
| `event_outbox` | nothing lost, posts bounded, delivery final, every event settled | 2 rows, 2 keys, 2 cycles, batch of 1, 2 attempts, 1 operator mark, 1 crash or abort: a row can be posted by both cycles, fail to the cap, be pruned, and compete for the batch |
| `runtime_projection` | generations in order, renewable, leases known until the cut, sent only on the own generation's gate and within the declared capacity | 2 calls of apply, 2 requests, 3 documents (one slot, two slots, contradictory), 3 generations, a list of 1 retired one so that the cut of `_prune_retired` (16 in the code) falls on busy generations; symmetric |
| `capacity` | quota counters exact, no overcharge, limits hold, for both backends; every mark on a node is that of a stage not come to, or of an attempt that runs or was cancelled | quotas: 4 requests, two dimensions, 2 further windows; marks: 3 requests, one of them exact-model, 2 nodes, 2 stages, rotation modulo 2; symmetric in nodes and routed requests |
| `dispatch_authority` | budgets hold over the life of a token, claims are held when the wait for a slot is over, paths answered lately, select ends | 3 requests, two of them with one token for one attempt, 2 urls, 3 clock readings around expiry and cache lifetime |
| `routing_policy` | fresh power reports hold in every plan, for nodes known by their configured name and apart from exact-model stages | 3 providers (local with tools, hosted, local observer, one listed under another name), 9 bodies that take every way to a plan, 3 changes of the surroundings |
| `parked_for_good` (violated) | a node that once reported survive never comes back | as `routing_policy`, 2 changes, and requests go on |
| `assistx_jobs` | jobs settle, memories credited once for each event and not revived, private work stays local on both ways out | 2 submissions, 2 identifiers, 2 workers, 1 memory with 3 ingests (two under one identifier, with counters of their own), routes that name a model, one of them of a provider no longer enabled, or none, 48 backlog tasks over 2 plans |
| `unavailable_undone` (violated) | a job that was found unavailable is started again | as `assistx_jobs` |
| `fleet` | loads back off, newest signals kept, roles earned; one probe in the graph, the published report is current, no silent collapse | router: 2 providers, 2 models, 1 change of the endpoints, 2 refreshers, the loop and 2 calls of `/admin/load`, a limit of 2 failures, failing registry and loads; 3 reports or loads of the context over 3 ticks; 3 responses out of 37. Builder: 2 runs, 2 nodes, 2 models, every combination of answering endpoints; registries with a repeated row, a disabled one, or none |
| `kept_index` (violated) | plans do not find signals that were merged after they first asked | the router of `fleet`, the scene "signals" |

The bounds on rows, marks, lapses, crashes, windows, generations, attempts,
changes, reports and time are constants named `Max…` (and `FleetTime`); each is
large enough for the shortest behaviours in which two of the racing parties do
their worst to a third, and small enough for a complete search. The rotation
counter counts modulo `Period`, a multiple of every possible number of candidates.
`CHECK_DEADLOCK FALSE` is set where the system ends: all calls answered, all
requests over, the clock at its bound. Symmetry is used only in runs without
liveness. `TypeOK` and its like describe the shape of the state and serve the
proofs and the reader; no run lists them.

What some properties leave out, because the code does:

* `SettledWhenDone` excepts a stream dropped where nothing cleans up;
  `BooksBalanced` excepts cancelled loops, crashes and failing local writes;
  rows an operator marked are exempt from the outbox properties.
* `BudgetHolds` allows the one request that is checked in the last second of its
  token and charged after the record is gone.
* `BackoffBounded` allows one failure more for every call of `/admin/load` that can
  run beside the loop, since each may have passed the check before the others fail.
* `Settles` excepts a task that dies of an exception, which nobody looks at, and one
  that waits for the pipes of a worker it has killed. It is about the record an
  identifier stands for: that two tasks may run this record and none the one before is
  the subject of `unavailable_undone`.
* `CountsExactly` bounds a counter with a window by what was reserved in it; a refund
  into a later window makes it less, and passes.
* `NewestKept` is about one context. The next one is loaded from the rows with the
  highest numbers, so that an older signal saved late wins there; and signals of the
  same second may replace each other.
* `RoleIsEarned` lets an endpoint count as unreachable beside a role if the harness
  said so of every clean answer, because `EndpointStatus` believes the harness.

### Findings

`parked_for_good`: "Exclude a provider only on fresh, concrete evidence it's unusable"
(`policy.py:474`), but the stamp of a survive report sets `ok`, `model_count` and
`health_score` of the shared entry, a daily report resets none of them (while the log
says "routing restored to DAILY"), and under `main_live` nothing rebuilds the map.

`unavailable_undone`: of an unavailable agent job, "keep job failed with `unavailable`"
(`docs/ROUTER_SWITCHING_MECHANISM.md:172`), but `submit` replaces the record of an
identifier and keeps the task of the earlier one, and both tasks look the record up by
identifier (`agent_jobs.py:68`): one finds the worker gone, the other starts it.

`kept_index`: the caches of a context are "naturally invalidated -- no manual eviction
needed" (`context.py:156`), but `model_copy` keeps private attributes, so that a hydrated
context has the index of the one before, and a plan does not find what was merged.

### Observations

Seen while modelling, reachable in the models or plain in the code, without a run
of their own.

Requests and projection:

* An ambiguous attempt is replaced by the next one's `upstream_started`
  (`request_idempotency.py:239`), against a test that says it must not be replaced
  (`tests/test_request_idempotency.py:34`).
* A stream whose response is dropped before its first chunk keeps its slot
  (`main_live.py:226`); a second cancellation in `finalize` leaves the row at
  `upstream_started`, whatever it was about to record; a terminal marker in an
  unterminated last line is parsed after the status was chosen; a usage record that
  cannot be written makes a finished request run again.
* Every generation gets fresh gates, so that requests on retired gates do not
  count against the physical runtime (`runtime_projection.py:373`;
  `docs/HIGH_LEVEL_DESIGN.md:259`). A renewal that arrives between swap and
  postlude is refused as a conflict. `refresh_context_task` may store the context
  of a replaced registry (`main.py:137`).
* A quota refund may go into a later window than its reservation (`quota.py:88`);
  an exact-model request releases the reservation of another; the rotation after the
  sort can put a busy node before an idle one.
* Plan-time reservations are "Released when the stage starts executing"
  (`policy.py:63`), but `_execute` comes only to the stages it needs (`main.py:779`), and
  nothing releases the rest. `MarksAccountedFor` bounds what is left behind: nothing but
  these reservations and the marks of cancelled attempts.
* An event whose posts never reached the sink is dead-lettered at the attempt cap
  (`docs/LLD.md` says retry).

Routing:

* `_exact_model_plan` does not pass through `benchmark_order`, although "observer-only
  policy can never become routing authority" (`benchmark_routing_policy.py:65`). Its
  stage is built as `final` and checked without a purpose, although conserve is
  "excluded from quality stages (refine/judge/final)" (`policy.py:502`).
* Power reports are stamped under the configured name of a provider and looked up under
  its canonical one, so that a node listed under another name escapes the tiers, against
  "SURVIVE blocks every stage outright" (`policy.py:502`). `PowerRespected` is what is
  left of the claim.

Signals and context:

* `_project_live_models` changes models after their index was built
  (`config.py:506`).
* When a newer, shorter-lived row has expired and is pruned, an older blocking row
  that is still valid comes back in a freshly loaded context
  (`signal_registry.py:500`). `NewestKept` is therefore about one context.
* A sparse heartbeat keeps the power tier of the report before it
  (`fleet_routes.py:82`), and counts as fresh.

Fleet:

* The poll "is what keeps each node's advertised models current in real time"
  (`main.py:165`), but nothing in the package calls `register_live_model_routes`, which
  `docs/LLD.md:56` does: the poll of `main:app` raises at its first provider
  (`live_model_routes.py:110`), `main.py:180` swallows it (`PollRaises`), and
  `main_live` does not start it.
* `hydrate_live_models_from_registry` puts older registry rows over newer cache
  entries before the sync, against "instantly dropped"
  (`live_model_routes.py:178`); the next poll heals it. A failed snapshot leaves
  models advertised; discovery re-enables disabled providers.
* A placement plan is computed once and carried out load by load, although
  "stale inventory must never authorize" (`model_placement.py:48`); the loop
  and calls of `/admin/load` may load one model twice; a model unloaded by its lifetime changes
  no signature, so its row grows too old for the plan to load it again
  (`model_placement.py:344` promises a re-pin).
* In the qualification, a failing row with grounding and high confidence counts
  towards promotion; capabilities use the raw and roles the annotated success; the
  benchmark plan is keyed by node and model, so that the last family wins.
* `enabled_toolsets: []` gets the defaults of its kind, and the worker's own
  toolsets are added to what the task may use.

### Fairness

* Gates: a resolved future wakes its task, and a lease ends (attempts have a
  timeout, bodies end or are closed). Timeouts of the wait are not assumed, so the
  result does not rest on them.
* Requests: a call proceeds, because every await has a bound (attempt and queue
  timeouts, read timeouts, local writes that return or raise). Cancellations,
  crashes and markers are never assumed to happen.
* Outbox: the background loop asks for the lock again and again while there is a
  backlog, and a cycle goes on, because the post has a timeout. Operators need
  not do anything, crashes and aborts are finitely many.
* Access paths: some call of `select` goes on, because probes have a timeout and
  the lock is handed to a waiter; cancellations are not assumed.
* Routing (`BusySpec`, for `parked_for_good`): requests go on coming and being served.
* Jobs: a created task gets its turn, `max_runtime_seconds` kills a worker, and a task
  whose worker is killed and whose pipes are closed records the result. That a worker
  ends by itself, or that its children let go of the pipes, is not assumed.

The other specifications have no fairness, and no liveness is claimed of them.

## Proofs

The theorems are in eight modules that extend the components they are about. A theorem
is of the form `Spec => []P` or, for an action property or a refinement, `Spec => P`,
holds for every value of the constants that satisfies the named assumptions, and in
particular for any number of tasks, requests, rows, nodes or providers. `Spec` is the
specification of the component (`AllSpec` of the quota managers, `BalancerSpec` of
the load balancer, `FleetSpec` of the fleet's models) or its safety part; fairness is
not used. Constants called `Max…` are bounds of the runs, and the theorems hold for
every one of them.

Every invariant below was checked by TLC on the instance of the component's run as well
(where it says that a function has some bound or a record some fields, with a given
bound and the names of the fields). An invariance proof has one lemma or step per action
(`TypeStep`, `…Step`), and a lemma for each operator that several of them use.

| Module | Theorem | States |
|---|---|---|
| `Capacity_proofs` | `SlotsAccounted`, `QueueIsExact`, `GateWorkConserving` | `SlotAccounting`, `QueueExact`, `WorkConserving` |
| | `NobodyOvertaken` | `NoOvertaking` |
| | `ImplementsPool` | `PoolSpec`, the refinement of SlotPool |
| | `QuotaCounts` | `CountsExactly` |
| | `MarksAreAccountedFor` | `MarksAccountedFor` |
| `RequestLifecycle_proofs` | `KeyForwardedOnce`, `CompletionIsEvidenced` | `ForwardedOnce`, `CompletedIsEvidenced` |
| | `CallsSettle`, `BooksBalance` | `SettledWhenDone`, `BooksBalanced` |
| `EventOutbox_proofs` | `NoEventLost`, `AttemptsBounded` | `NothingLost`, `PostsBounded` |
| | `DeliveryIsFinal` | `DeliveredIsFinal` |
| `RuntimeProjection_proofs` | `InOrder`, `StaysRenewable` | `GenerationsInOrder`, `Renewable` |
| | `GatesStayKnown`, `SentWithinOwnGate` | `LeasesKnown`, `SentOnOwnGate` |
| `ExecutorAuth_proofs` | `BudgetKept`, `NothingSentWithoutClaim` | `BudgetHolds`, `SentWithClaim` |
| | `PathsAnswered` | `PathRecentlyAnswered` |
| `Fleet_proofs` | `CurrentStaysWhole` | `CurrentIsWhole` |
| | `PublishesCurrent`, `CollapseIsAsked` | `PublishedIsCurrent`, `NoSilentCollapse` |
| | `BackoffHolds`, `RolesEarned` | `BackoffBounded`, `RoleIsEarned` |
| | `NewestStays` | `NewestKept` |
| `AssistXRoutes_proofs` | `CreditedOncePerEvent`, `NothingResurrected` | `CreditedOnce`, `NoResurrection` |
| | `PrivateWorkStaysLocal` | `PrivateStaysLocal` |
| `RoutingPolicy_proofs` | `PowerIsRespected` | `PowerRespected` |

Each module also proves `TypeCorrect`, `Spec => []TypeOK` (of the gates in
Capacity_proofs, of the loadout builder in Fleet_proofs), and Capacity_proofs
`QuotaTypeCorrect`. The types the proofs about load balancer, signals, placement and
evidence need are parts of their invariants.

### Admission gates

Assumed (`AdmissionAssumption`): finitely many tasks, integer slot counts and queue
limits, priorities that have a rank.

None of the safety properties is inductive. That the counter equals the
number of owners needs to know, when a slot is handed over, that the chosen entry
of the list is a waiting request of this very gate that owns nothing yet; that is
exactness of the list, which in turn needs that a waiting task awaits a pending or
resolved future and nothing else; and that an arrival finds no free slot when it
queues needs work conservation. The invariant `IInv` is therefore the conjunction
of the types, `AwaitsLive` and, per gate, `GateOK` (counter, bound, list, work
conservation). Per gate, a step either leaves counter, list, owners and queue alone
(`Undisturbed`), or is one of: a free slot taken (`AcquireStep`), a request queued
(`EnqueueStep`), a request leaving the queue (`LeaveQueueStep`), a slot given back
(`GiveBackStep`, used by release and by the cancellation of a granted waiter).
`ListShrinks` and `ListGrows` carry exactness through removal and append and rest
on `RemoveAtFacts`.

For the refinement, `SlotsMove` says what a step does to the owners of the gates: it
leaves them alone (a stutter of the pool), gives a slot out, gives one back, or hands
one over. That what the gate takes for a free slot is one in the pool needs that its
counter is the number of owners, which is `SlotAccounting`. `NobodyOvertaken` uses the
same case split: a slot is given out at once only past an empty list, and a hand-over
takes the first entry of the best rank.

### Quota managers

Assumed (`QuotaAssumption`): finitely many requests; limits and estimates are natural
numbers.

`CountsExactly` compares a counter with a sum of estimates over the set of charged
requests, so the proof first has to know what such a sum is. `MapThenSumSet` chooses a
function on the subsets of the set that satisfies a recursive equation; `SumsExist`
shows that there is one, `SumsAgree` that those of two sets agree where both are
defined, and `SumTakes` that any element, not only the one chosen, adds its amount. The
induction each of these needs is carried out as the search for a least counterexample:
`LeastNat`, a non-empty set of numbers has a least element, is an instance of
well-foundedness without an operator parameter, and `NatSetInduction` and `BySize`
follow from it for sets.

The invariant `QuotaInv` adds to the types and to `CountsExactly` what an operation in
Redis has read (`ReadsHold`): as long as the version it watches is the current one, the
counters are those it read, and at most more windows have ended. Without it a commit
would write over reservations it has not seen. A refund may come a window too late and
then takes off what later requests reserved, which is why a counter with a window is
bounded by what was reserved in it and not equal to it (`ReleaseCounts`).

### Load balancer

Assumed (`BalancerAssumption`): finitely many calls and owners, at least one owner,
stage and step of the rotation.

`MarksAccountedFor` bounds the two kinds of marks by the cardinality of two sets: the
stages not yet begun that have an owner first, and the calls that try it. `BalancerInv`
adds the shape of the state, in particular that a call that has not planned has no
stages and one between attempts tries nothing. A plan adds disjoint pairs to the first
set, one for each mark (`PlanReserves`); beginning a stage moves the positions of the
others down by one, which is an injection from the old pairs without the first
(`StageReserves`); both ends of an attempt take at most the marks of the call's own
attempt (`EndMarks`), the end that takes two included. The bound holds, and not equality,
because exact-model calls and failing usage records take marks of others away.

### Request lifecycle

Assumed (`LifecycleAssumption`): natural bounds, a threshold of at least one.

`IInv` says which call may be between reserve and its end (`KeyOK`: the one the row
was made for), what a call holds at each place (`HeldOK`), what row and evidence are at
each place of the forwarded call (`RowOK`), and what it has taken if nothing else went
wrong (`BooksOK`). The first is what makes the others inductive: a row moves on behalf
of one call only, so the steps of a duplicate cannot disturb what is known of it
(`DuplicateStep`). `Known` collects what is known of a call, `SoundStep` shows that a
step of one call leaves the others sound, and each group of actions has a lemma.

### Event outbox

Assumed (`OutboxAssumption`): natural bounds and a batch of at least one row.

`LockOK` says that the lock lists the cycles that are not idle, once each, and that only
the first works on a batch; without it two cycles could answer for one row. `RowsOK`
has a part for rows no operator touched (`Untouched`: every attempt in the table was a
post, and what a cycle knows of a row in its batch is still so) and one that holds of
every row (`Spent`: each post is paid for by an attempt, a mark, a lapse, or is the one
under way). `Spent` has to bound the posts both by the attempts in the table and by
those a cycle has read, because an operator may reset the first between read and
answer. `AnswerDoes` reduces the answer's several ways to one effect.

### Runtime projection

Assumed (`ProjectionAssumption`): finitely many requests; a list of at least one retired
generation; documents declare Boolean flags and integer slots.

`CallsOK`: a call of apply carries a valid document, and one that has swapped put it in
force; `ChecksumOK`: the checksum is of the content in force, and while it is that of
the converted document the call that has to replace it is still there; `RequestsOK`: the
gate of a request inside is known or cut off, not older than its token and within
capacity; `RetiredOK`: what is retired is older than what is in force. `GatesStayKnown`
rests on `CutOff`: a busy generation the cut takes has `RetiredLimit` retired ones
between itself and the one in force, which are as many numbers. And `SentWithinOwnGate`
needs `OneCapacity`: providers of one valid document that are enabled agree on the
slots.

### Dispatch authority

Assumed (`PathAssumption`, `AuthAssumption`): at least one url, a lifetime of at least
one, every token with an expiry and a budget of at least one.

`OneChecked`: at most one request is between the two readings of the clock; `Charged`:
until a token expires its record is exact, afterwards at most one request comes on top,
and the one that is checked finds the budget not overdrawn; `FenceOK`: AssistX is
asked after the slot was granted and a claim lost does not come back; `PathOK`: the
choice kept does not outlive the answer it stands for. The budget does not follow from
the record alone because the record is dropped at expiry.

### Loadout builder

Assumed (`FleetAssumption`, `LoadoutAssumption`): finitely many runs, nodes and models;
registries name nodes there are; a share between 0 and 1.

`SnapshotsOK`: a run gets its snapshot once, the lock version counts the snapshots and
is that of the current one; `LockOK`: who is about to write the report holds the lock
and has not been overtaken; `RunsOK`: a loadout is made of routable models of its own
probe (`PlanFacts`, over every order the ranking may produce). `KeptShare` turns the
code's test of the share into the one `NoSilentCollapse` states.

### Models, signals and evidence

Assumed (`SignalAssumption`, `PlacementAssumption`, `EvidenceAssumption`): lifetimes and
backoff are positive numbers, rejections block longer than refusals; at most finitely
many calls of `/admin/load` at a time; responses are records with the fields the
evidence has, the floor of confidence is a share.

`BackoffHolds`: the limit on failed loads is not inductive, because a load begun
below the limit may fail after another one has. `PlacementInv` therefore counts failures in
the last `BackoffFor` and loads under way together: at most `BackoffCount` and the number
of calls, since a load begins only if the failures are below the limit, and then all the
others may be loading as well (`ReconcilerFacts`).

`NewestStays` rests on `FleetSignals`. `SignalInv` says of every signal, wherever it can
be (table, cached view, source, context and its index, the snapshot a thread is about to
save), that its times are numbers (`Timed`), so that any two of them compare. Only all
of these together are inductive, for every place is filled from another. A row that is
added to a table has the next number (`AddRow`), and the latest row of an identifier is
the one with the highest; `MaxFacts`, from `LeastNat`, says that there is one. That no
step sets the context back across a restart needs more, and holds where only live models
were reported (`Quiet`: one row per model which does not expire, and neither cached view
nor context ahead of the table); elsewhere the model has no restart.

`RolesEarned` needs no more than that the responses are records of their type: what is
hard is what the operators compute. `ResponsesEarn` goes back from a role to the row that
earned it, and from the row to the response with its failure mode, success and
confidence. For the endpoint it goes the other way: a clean answer the harness did not
deny puts its row on a rung where the endpoint was reached.

### AssistX routes

Assumed (`MemoryAssumption`, `JobAssumption`, `RouteAssumption`): events and payloads
are well formed, adapters are ranked without ties.

`CreditedOnce` counts from what some ingest of the memory brought. `StoreOK` adds that
the tables of events are finite, so that a new event raises their number by exactly the
one credit it brings (`OutcomeStep`, `LifecycleStep`, `IngestStep`); `JobsOK` that what
an identifier or a task refers to is a record in use, without which the outcome a task
reports would be of no job there is. `PrivateStaysLocal` is inductive given the types:
`GuardedFacts` says what the strict guard lets through, `TaskFacts` what a backlog task
is given, for any providers.

### Routing policy

Assumed (`RoutingAssumption`): finitely many providers; stages have a purpose; the first
context knows every provider.

`TypeOK` is inductive, and strong enough: it says that every entry of the health map has
the field the power checks read. `PlanFacts` says that each candidate of a plan is
eligible for the purpose of its stage, or without a purpose if the request names its
model, by the map the plan was made with; `PolicyTierFacts` that in that map every node
with a fresh report carries it under its configured name, whatever older reports have
left there.

### Only model-checked

* Liveness, because the prover does not treat fairness: `TopPriorityServed`,
  `CallEnds`, `EventSettles`, `SelectEnds`, `Settles`.
* The properties of the violated runs.
* `BalancerTypeOK`, which no theorem states: the order of last use is filtered with
  `SelectSeq`, whose result the provers know nothing about. What the theorem about the
  load balancer needs of the types is in `BalancerShape`.

## Not modelled

* Cryptography, HTTP clients and payload translation (`providers.py` beyond its
  outcomes, `gateway.py`), token usage, estimates, telemetry, and the dashboards
  (`ops_dashboard_routes.py`, `ui_pages.py`), which only read.
* `config.py`, `settings.py`, `preflight.py`, `offline_guard.py`: parsing and
  validation of static input. `service_scanner.py` and `cli_discovery.py`: scanning
  of hosts. `ledger.py`: append-only records, whose failure is an input.
* `refresh_fleet_health_task` and the probe history it reads (`main.py`'s own lifespan
  starts it, `main_live` does not).
* `loadout_optimizer.py`, `benchmark_planner.py`, `model_value.py` and the scores of
  `policy.py`: rankings. The models let any order happen where one is used.
* Abstracted: fingerprints of bodies, lease
  times (only fresh or not), lengths of cooldowns, texts of tasks and memories.

## Plan

* Scores and the optimizer as operators against reference definitions.
* Two requests at a time in RoutingPolicy, composed with LoadBalancer's order, and the
  power tiers proved of the composition.
* The abstract pool between the gates and RuntimeProjection, so that the slots of a
  generation are those of AdmissionGate.

--------------------------- MODULE ContextSignals ---------------------------
(***************************************************************************)
(* What the router remembers about its providers between requests: the     *)
(* durable table of signals (signal_registry.py), the context every plan   *)
(* reads (context.py) and the two caches on the way, the table's own copy  *)
(* of the latest signals and the index a context builds when it is first   *)
(* asked.                                                                  *)
(*                                                                         *)
(* A tick is far longer than the five seconds the copy of the latest       *)
(* signals lives: within one it may or may not still be used.  The         *)
(* table keeps seven days, longer than any run; rows that are not active   *)
(* are never read and left out.  model_copy keeps the private attributes   *)
(* of a context, the index among them.                                     *)
(***************************************************************************)
EXTENDS Integers, Sequences, FiniteSets, FiniteSetsExt

CONSTANTS
    SourceIds,      \* the signals the context source (AssistX) may list
    Reports,        \* what the router itself reports: [id, kind, how]
    MaxTime,        \* bounds the clock
    MaxReports,     \* bounds the reports and the contexts loaded from the source
    ShortFor, BlockedFor, DecisionFor,  \* lifetimes: 15 minutes, 2 hours, 6 hours
    Forever         \* an expiry no clock reaches

ASSUME SignalAssumption ==
    /\ MaxTime \in Nat /\ MaxReports \in Nat
    /\ {ShortFor, BlockedFor, DecisionFor, Forever} \subseteq Nat \ {0}
    /\ BlockedFor > ShortFor /\ DecisionFor > BlockedFor
    /\ Forever > MaxTime + DecisionFor
    /\ \A r \in Reports : r.how = "execution" => r.kind \in {"success", "refused", "failed"}

VARIABLES
    now,
    rows,     \* context_signal_events: the active rows of each id, by row number
    latest,   \* _latest_cache and its time: [at, view]
    source,   \* what the source lists now
    ctx,      \* state.context: [signals, loads, index]
    saving,   \* snapshots handed to threads and not yet written: [snap, loaded]
    reports   \* how many reports were made

signalVars == <<rows, latest, source, ctx, saving, reports>>

Empty == [id \in {} |-> 0]
Signal(type, active, observed, expires) ==
    [type |-> type, active |-> active, obs |-> observed, exp |-> expires]

IsActive(s) == s.active /\ now < s.exp

-----------------------------------------------------------------------------
\* provider_health_signals, live_model_signals: no expiry, the next one of the
\* same id takes its place.
HealthSignal(ok, drift) ==
    Signal(IF ~ok THEN "blocked" ELSE IF drift THEN "avoid" ELSE "preferred", TRUE, now, Forever)

\* route_decision_signals: six hours, for the chosen candidate and the others.
DecisionSignal(chosen, blocking) ==
    Signal(IF chosen THEN "preferred" ELSE IF blocking THEN "blocked" ELSE "avoid", TRUE, now, now + DecisionFor)

\* route_execution_signals: a refusal blocks for two hours, the rest is
\* forgotten after a quarter of one.
ExecutionSignal(outcome) ==
    CASE outcome = "success" -> Signal("preferred", TRUE, now, now + ShortFor)
      [] outcome = "refused" -> Signal("blocked", TRUE, now, now + BlockedFor)
      [] outcome = "failed"  -> Signal("avoid", TRUE, now, now + ShortFor)

-----------------------------------------------------------------------------
\* Mutant: the one that comes last is taken, however old.
MergeSignals_Last(f, g) ==
    [id \in DOMAIN f \cup DOMAIN g |-> IF id \in DOMAIN g THEN g[id] ELSE f[id]]

\* _merge_signals: of two signals of one id the one observed later.
MergeSignals(f, g) ==
    [id \in DOMAIN f \cup DOMAIN g |->
        IF id \in DOMAIN g /\ (id \notin DOMAIN f \/ g[id].obs >= f[id].obs) THEN g[id] ELSE f[id]]

\* prune.
Prune(table) ==
    LET alive(id) == {k \in DOMAIN table[id] : now < table[id][k].exp}
    IN  [id \in {i \in DOMAIN table : alive(i) # {}} |-> [k \in alive(id) |-> table[id][k]]]

\* One more row, with a number above those of the others.
AddRow(f, row) ==
    LET n == Max({0} \cup DOMAIN f) + 1
    IN  [k \in DOMAIN f \cup {n} |-> IF k = n THEN row ELSE f[k]]

\* save_snapshot prunes and appends.  A row that never expires hides the older
\* ones of its id for good.
SaveSnapshot(table, snapshot) ==
    LET kept == Prune(table)
        new  == {id \in DOMAIN snapshot : snapshot[id].active}
    IN  [id \in DOMAIN kept \cup new |->
            IF id \notin new THEN kept[id]
            ELSE IF snapshot[id].exp = Forever \/ id \notin DOMAIN kept THEN <<snapshot[id]>>
            ELSE AddRow(kept[id], snapshot[id])]

\* _compute_latest_signals: the newest row of an id, unless it has expired.
ComputeLatest(table) ==
    LET newest(id) == table[id][Max(DOMAIN table[id])]
    IN  [id \in {i \in DOMAIN table : now < newest(i).exp} |-> newest(id)]

\* hydrate_context with latest_signals: c becomes the context of the router.
HydrateContext(c, table) ==
    /\ latest' \in {[at |-> now, view |-> ComputeLatest(table)]}
                     \cup (IF latest.at = now THEN {latest} ELSE {})
    /\ ctx' = [c EXCEPT !.signals = MergeSignals(@, latest'.view)]

\* A context as the loader returns it.
Loaded(list, n) == [signals |-> list, loads |-> n, index |-> <<>>]

SignalInit ==
    /\ now = 0 /\ rows = Empty /\ source = Empty /\ saving = {} /\ reports = 0
    /\ latest = [at |-> -1, view |-> Empty]
    /\ ctx = Loaded(Empty, 0)

-----------------------------------------------------------------------------
BelowBound == reports + ctx.loads < MaxReports

Reported == BelowBound /\ reports' = reports + 1

\* Health reports and decisions are saved, then the context is hydrated.
SaveAndHydrate(r, signal) ==
    /\ Reported
    /\ rows' = SaveSnapshot(rows, [id \in {r.id} |-> signal])
    /\ HydrateContext(ctx, rows')
    /\ UNCHANGED <<now, source, saving>>

\* _provider_health_reports.
HealthReport(r) == r.how = "health" /\ SaveAndHydrate(r, HealthSignal(r.kind = "ok", r.kind = "drift"))

\* enqueue_route_decision_event; its event belongs to EventOutbox.
RouteDecision(r) == r.how = "decision" /\ SaveAndHydrate(r, DecisionSignal(r.kind = "chosen", r.kind = "rejected"))

\* patched_record_usage: what an execution tells is handed to a thread, and the
\* context hydrated at once.
RouteExecution(r) ==
    /\ r.how = "execution"
    /\ Reported
    /\ saving' = saving \cup {[snap |-> [id \in {r.id} |-> ExecutionSignal(r.kind)], loaded |-> FALSE]}
    /\ HydrateContext(ctx, rows)
    /\ UNCHANGED <<now, rows, source>>

\* A thread of the executor gets to its snapshot, in any order.  The task that
\* loaded a context for a new node of the tailnet waits for it, and hydrates.
ThreadSaves(write) ==
    /\ saving' = saving \ {write}
    /\ rows' = SaveSnapshot(rows, write.snap)
    /\ IF write.loaded THEN HydrateContext(ctx, rows') ELSE UNCHANGED <<latest, ctx>>
    /\ UNCHANGED <<now, source, reports>>

\* The source lists a signal, revokes it (lists it as not active) or omits it.
SourceChanges(id) ==
    /\ id \in DOMAIN source => source[id].obs < now
    /\ source' \in {[i \in DOMAIN source \cup {id} |->
                        IF i = id THEN Signal("blocked", active, now, Forever) ELSE source[i]] :
                        active \in BOOLEAN}
                   \cup {[i \in DOMAIN source \ {id} |-> source[i]]}
    /\ source' # source
    /\ UNCHANGED <<now, rows, latest, ctx, saving, reports>>

\* What load_context_snapshot gets: a source that cannot be read counts as one
\* that lists nothing.
Listed == {source, Empty}

\* refresh_context_task: load, save what was loaded, hydrate.
RefreshContext ==
    /\ BelowBound
    /\ \E list \in Listed :
          /\ rows' = SaveSnapshot(rows, list)
          /\ HydrateContext(Loaded(list, ctx.loads + 1), rows')
    /\ UNCHANGED <<now, source, saving, reports>>

\* refresh_tailnet_provider_task: the loaded context is in use, as the source
\* gave it, while a thread saves it.
RefreshTailnet ==
    /\ BelowBound
    /\ \A write \in saving : ~write.loaded
    /\ \E list \in Listed :
          /\ ctx' = Loaded(list, ctx.loads + 1)
          /\ saving' = saving \cup {[snap |-> list, loaded |-> TRUE]}
    /\ UNCHANGED <<now, rows, latest, source, reports>>

\* A plan asks the context for its signals; the first to ask builds the index.
AskSignals ==
    /\ ctx.index = <<>>
    /\ ctx' = [ctx EXCEPT !.index = <<{s \in {ctx.signals[id] : id \in DOMAIN ctx.signals} : IsActive(s)}>>]
    /\ UNCHANGED <<now, rows, latest, source, saving, reports>>

PruneTask ==
    /\ rows # Prune(rows)
    /\ rows' = Prune(rows)
    /\ UNCHANGED <<now, latest, source, ctx, saving, reports>>

Tick == now < MaxTime /\ now' = now + 1

SignalNext ==
    \/ \E r \in Reports : HealthReport(r) \/ RouteDecision(r) \/ RouteExecution(r)
    \/ \E write \in saving : ThreadSaves(write)
    \/ \E id \in SourceIds : SourceChanges(id)
    \/ RefreshContext \/ RefreshTailnet \/ AskSignals \/ PruneTask
    \/ Tick /\ UNCHANGED signalVars

-----------------------------------------------------------------------------
\* A context never goes back to an older signal: neither a thread that saves
\* late, nor a row that comes back to light when the newer one has expired, nor
\* the cached view replaces what hydrate_context has already merged, so what
\* the source revoked stays revoked and a success is not undone by the refusal
\* before it, until a new context is loaded.
NewestKept ==
    [][ctx'.loads = ctx.loads =>
        \A id \in DOMAIN ctx.signals :
            id \in DOMAIN ctx'.signals /\ ctx'.signals[id].obs >= ctx.signals[id].obs]_ctx

\* context.py, of the caches of a context: "A fresh ContextSnapshot is built on
\* every refresh, so these are naturally invalidated -- no manual eviction needed."
\* Every signal of the context that is active is one that plans find.
SignalsAreFound ==
    \A k \in DOMAIN ctx.index : \A id \in DOMAIN ctx.signals :
        IsActive(ctx.signals[id]) => ctx.signals[id] \in ctx.index[k]
=============================================================================

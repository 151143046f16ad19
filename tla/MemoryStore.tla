----------------------------- MODULE MemoryStore -----------------------------
(***************************************************************************)
(* memory_store.py and memory_client.py: fleet experience is kept in a     *)
(* local sqlite store, where the events of a source are recognised by      *)
(* their identifier, and passed on to the remote memory service if its     *)
(* address and the privacy class of the event allow it.                    *)
(*                                                                         *)
(* A call to the store runs without an await and in one transaction: it is *)
(* one step.  Passing an event on may fail, also after the remote service  *)
(* took it; nothing local depends on the answer.  Confidence is counted in *)
(* hundredths.  Scores are left out: any of the rows a query may see can   *)
(* match, in any order.                                                    *)
(***************************************************************************)
EXTENDS Integers, FiniteSets

CONSTANTS
    Memory,
    Ingests,     \* ingest requests: [id, content, privacy]; the record brings counters
    Lifecycles,  \* lifecycle requests: [id, content, privacy]
    Reports,     \* outcome requests sent to the admin route: as Lifecycles
    Limit,       \* the most matches a query returns
    RemoteUrl    \* what the remote address is: "none", "private" or "public"

ASSUME MemoryAssumption ==
    /\ \A r \in Ingests :
          r.content \in [mem : Memory, confidence : 0..100, active : BOOLEAN,
                        reuses : Nat, contradictions : Nat]
    /\ \A r \in Lifecycles :
          r.content \in [mem : Memory,
                        action : {"reused", "contradicted", "deactivated", "superseded"}]
    /\ \A r \in Reports : r.content.mems \subseteq Memory
    /\ Limit \in Nat \ {0} /\ RemoteUrl \in {"none", "private", "public"}

VARIABLES
    rows,      \* memories: the rows there are, by memory
    ingested, lifecycle, outcomes,  \* the three tables of events: [id, content]
    remote,    \* the events the remote service has taken: [table, id, content]
    context    \* the matches of the last context from the local store

memoryVars == <<rows, ingested, lifecycle, outcomes, remote, context>>

\* MemoryRecord, as far as the store changes it, and the columns beside it.
Record == [confidence : 0..100, active : BOOLEAN, reuses : Nat, contradictions : Nat]
Row == [active : BOOLEAN, payload : Record]

MemoryTypeOK ==
    /\ DOMAIN rows \subseteq Memory /\ \A m \in DOMAIN rows : rows[m] \in Row
    /\ \A T \in {ingested, lifecycle, outcomes} : \A e, f \in T : e.id = f.id => e = f
    /\ context \subseteq Memory /\ Cardinality(context) <= Limit

MemoryInit ==
    /\ rows = <<>> /\ remote = {} /\ context = {}
    /\ ingested = {} /\ lifecycle = {} /\ outcomes = {}

-----------------------------------------------------------------------------
Event(r) == [id |-> r.id, content |-> r.content]

Known(table, r) == \E e \in table : e.id = r.id
\* DuplicateMemoryEventError: the identifier is taken by another content.
Conflict(table, r) == Known(table, r) /\ Event(r) \notin table

\* _event_remote_allowed
RemoteAllowed(r) == RemoteUrl # "none" /\ (r.privacy = "local_only" => RemoteUrl = "private")

\* ingest, _record_event: whatever the store took, new or seen before, is passed
\* on, and may get lost; a request the store refuses goes no further.
Forward(name, table, r) ==
    \/ remote' = remote
    \/ /\ ~Conflict(table, r) /\ RemoteAllowed(r)
       /\ remote' = remote \cup {[table |-> name, event |-> Event(r)]}

-----------------------------------------------------------------------------
NewRow(c) ==
    [active |-> c.active,
     payload |-> [confidence |-> c.confidence, active |-> c.active,
                  reuses |-> c.reuses, contradictions |-> c.contradictions]]

\* The store when one ingest event is all it has seen.
MemoryWith(r) ==
    /\ rows = [m \in {r.content.mem} |-> NewRow(r.content)] /\ ingested = {Event(r)}
    /\ lifecycle = {} /\ outcomes = {} /\ remote = {} /\ context = {}

\* INSERT ... ON CONFLICT DO UPDATE with the row an ingest event describes.
Replaced(c) ==
    [m \in DOMAIN rows \cup {c.mem} |-> IF m = c.mem THEN NewRow(c) ELSE rows[m]]

\* Mutant: the row is written for an event that was seen before, too.
Ingest_Replays(r) ==
    /\ IF Conflict(ingested, r)
       THEN UNCHANGED <<ingested, rows>>
       ELSE /\ ingested' = ingested \cup {Event(r)}
            /\ rows' = Replaced(r.content)
    /\ Forward("ingest", ingested, r)
    /\ UNCHANGED <<lifecycle, outcomes, context>>

\* ingest: a new event replaces the whole row, its counters with those the
\* sender gives.
Ingest(r) ==
    /\ IF Known(ingested, r)
       THEN UNCHANGED <<ingested, rows>>
       ELSE /\ ingested' = ingested \cup {Event(r)}
            /\ rows' = Replaced(r.content)
    /\ Forward("ingest", ingested, r)
    /\ UNCHANGED <<lifecycle, outcomes, context>>

Confirmed(p) ==
    [p EXCEPT !.reuses = @ + 1, !.confidence = IF @ + 3 > 100 THEN 100 ELSE @ + 3]

Contradicted(p) ==
    [p EXCEPT !.contradictions = @ + 1, !.confidence = IF @ < 15 THEN 0 ELSE @ - 15]

\* What a lifecycle action does to a record.
Applied(p, action) ==
    CASE action = "reused" -> Confirmed(p)
      [] action = "contradicted" -> Contradicted(p)
      [] action \in {"deactivated", "superseded"} -> [p EXCEPT !.active = FALSE]

\* _update_record: the payload and the columns taken from it.
UpdateRecord(row, p) == [active |-> p.active, payload |-> p]

\* record_lifecycle: an unknown memory undoes the transaction, the event with it.
RecordLifecycle(r) ==
    LET m == r.content.mem IN
    /\ Known(lifecycle, r) \/ m \in DOMAIN rows
    /\ IF Known(lifecycle, r)
       THEN UNCHANGED <<lifecycle, rows>>
       ELSE /\ lifecycle' = lifecycle \cup {Event(r)}
            /\ rows' = [rows EXCEPT ![m] = UpdateRecord(@, Applied(@.payload, r.content.action))]
    /\ Forward("lifecycle", lifecycle, r)
    /\ UNCHANGED <<ingested, outcomes, context>>

\* A success counts unless its validation failed.
Confirms(c) == c.success /\ c.validation # "failed"

\* Mutant: an outcome is counted each time it is reported.
Credit_Always(r) ==
    [m \in DOMAIN rows |->
        IF m \notin r.content.mems THEN rows[m]
        ELSE UpdateRecord(rows[m], IF Confirms(r.content) THEN Confirmed(rows[m].payload)
                                   ELSE Contradicted(rows[m].payload))]

\* The rows after an outcome; memories that are not there are passed over.
Credit(r) ==
    [m \in DOMAIN rows |->
        IF Known(outcomes, r) \/ m \notin r.content.mems THEN rows[m]
        ELSE UpdateRecord(rows[m], IF Confirms(r.content) THEN Confirmed(rows[m].payload)
                                   ELSE Contradicted(rows[m].payload))]

\* record_outcome
RecordOutcome(r) ==
    /\ rows' = Credit(r)
    /\ outcomes' = IF Known(outcomes, r) THEN outcomes ELSE outcomes \cup {Event(r)}
    /\ Forward("outcome", outcomes, r)
    /\ UNCHANGED <<ingested, lifecycle, context>>

\* query and _render: of the rows whose column says they are active, those that
\* score enough, best first, up to the limit and as far as the budget goes.
\* assemble uses the store if the remote service may not be asked or fails.
Assemble ==
    /\ \E S \in SUBSET {m \in DOMAIN rows : rows[m].active} :
          Cardinality(S) <= Limit /\ context' = S
    /\ UNCHANGED <<rows, ingested, lifecycle, outcomes, remote>>

-----------------------------------------------------------------------------
CreditsOf(m) ==
    Cardinality({e \in lifecycle : e.content.mem = m /\ e.content.action \in {"reused", "contradicted"}})
      + Cardinality({e \in outcomes : m \in e.content.mems})

\* What an ingest event brings.
Brought(e) == e.content.reuses + e.content.contradictions

\* record_outcome, record_lifecycle: however often an event is delivered and
\* whatever is submitted again, a memory is credited, on top of the counters it
\* was ingested with, at most once for each event the store has.
CreditedOnce ==
    \A m \in DOMAIN rows : \E e \in ingested :
        /\ e.content.mem = m
        /\ rows[m].payload.reuses + rows[m].payload.contradictions <= Brought(e) + CreditsOf(m)

\* ingest: a memory that was deactivated comes back only by an ingest event
\* the store has never seen; the redelivery of an old one does not revive it.
NoResurrection ==
    [][\A m \in DOMAIN rows :
         ~rows[m].payload.active /\ rows'[m].payload.active => ingested' # ingested]_memoryVars

=============================================================================

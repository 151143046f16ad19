------------------------ MODULE AssistXRoutes_proofs ------------------------
(***************************************************************************)
(* Proofs about the endpoints AssistX uses: for any requests, jobs and     *)
(* memories, private work stays local, a memory is credited once for an    *)
(* event, and the redelivery of an event revives nothing.                  *)
(***************************************************************************)
EXTENDS AssistXRoutes, FiniteSetTheorems, WellFoundedInduction, TLAPS

CreditEvents(m) ==
    {e \in lifecycle : e.content.mem = m /\ e.content.action \in {"reused", "contradicted"}}
OutcomeEvents(m) == {e \in outcomes : m \in e.content.mems}


\* The tables of events are finite, so that they can be counted, and ingest events
\* bring numbers.
StoreOK ==
    /\ MemoryTypeOK
    /\ \A e \in ingested : Brought(e) \in Nat
    /\ IsFiniteSet(lifecycle) /\ IsFiniteSet(outcomes)
    /\ CreditedOnce

\* A record that is in use names a job that can be looked up, what an identifier
\* stands for is in use, and so is what a task has to run.
Used(n) == recs[n].status # "none"
Busy == {"run", "killed", "held"}
JobsOK ==
    /\ JobTypeOK
    /\ DOMAIN recs = Submission /\ DOMAIN tasks = Submission
    /\ \A n \in Submission :
        /\ recs[n] = [request |-> recs[n].request, status |-> recs[n].status, worker |-> recs[n].worker]
        /\ Used(n) => recs[n].request.job \in Job /\ jobs[recs[n].request.job] # 0
        /\ tasks[n] = [pc |-> tasks[n].pc, rec |-> tasks[n].rec]
        /\ tasks[n].pc = "new" => Used(n)
        /\ tasks[n].pc \in Busy => tasks[n].rec \in Submission /\ Used(tasks[n].rec)
    /\ \A j \in Job : jobs[j] # 0 => Used(jobs[j])

OthersOK ==
    /\ asking \subseteq RouteRequests /\ burn \in {"idle", "posted"}
    /\ selected.status \in {"none", "selected", "skipped"}

IInv == StoreOK /\ JobsOK /\ OthersOK /\ PrivateStaysLocal

-----------------------------------------------------------------------------
\* Crediting changes the counters and the confidence, and neither the activity of
\* a record nor its type.
LEMMA RecordFacts ==
    ASSUME NEW p \in Record
    PROVE  /\ Confirmed(p) \in Record /\ Confirmed(p).active = p.active
           /\ Confirmed(p).reuses = p.reuses + 1
           /\ Confirmed(p).contradictions = p.contradictions
           /\ Contradicted(p) \in Record /\ Contradicted(p).active = p.active
           /\ Contradicted(p).reuses = p.reuses
           /\ Contradicted(p).contradictions = p.contradictions + 1
           /\ Confirmed(p).reuses + Confirmed(p).contradictions = p.reuses + p.contradictions + 1
           /\ Contradicted(p).reuses + Contradicted(p).contradictions = p.reuses + p.contradictions + 1
<1>1. /\ p.reuses \in Nat /\ p.contradictions \in Nat /\ p.confidence \in 0..100
      /\ p.active \in BOOLEAN
  BY DEF Record
<1>2. /\ (IF p.confidence + 3 > 100 THEN 100 ELSE p.confidence + 3) \in 0..100
      /\ (IF p.confidence < 15 THEN 0 ELSE p.confidence - 15) \in 0..100
  BY <1>1
<1>3. /\ Confirmed(p).active = p.active
      /\ Confirmed(p).reuses = p.reuses + 1
      /\ Confirmed(p).contradictions = p.contradictions
  BY DEF Confirmed, Record
<1>4. /\ Contradicted(p).active = p.active
      /\ Contradicted(p).reuses = p.reuses
      /\ Contradicted(p).contradictions = p.contradictions + 1
  BY DEF Contradicted, Record
<1>5. \A c \in 0..100, n \in Nat : [p EXCEPT !.reuses = n, !.confidence = c] \in Record
  BY DEF Record
<1>6. \A c \in 0..100, n \in Nat : [p EXCEPT !.contradictions = n, !.confidence = c] \in Record
  BY DEF Record
<1>7. p.reuses + 1 \in Nat /\ p.contradictions + 1 \in Nat
  BY <1>1
<1>8. Confirmed(p) \in Record
  BY <1>2, <1>5, <1>7, Zenon DEF Confirmed
<1>9. Contradicted(p) \in Record
  BY <1>2, <1>6, <1>7, Zenon DEF Contradicted
<1>10. \A a, b : a = p.reuses + 1 /\ b = p.contradictions => a + b = p.reuses + p.contradictions + 1
  BY <1>1
<1>11. \A a, b : a = p.reuses /\ b = p.contradictions + 1 => a + b = p.reuses + p.contradictions + 1
  BY <1>1
<1>12. Confirmed(p).reuses + Confirmed(p).contradictions = p.reuses + p.contradictions + 1
  BY <1>3, <1>10, Zenon
<1>13. Contradicted(p).reuses + Contradicted(p).contradictions = p.reuses + p.contradictions + 1
  BY <1>4, <1>11, Zenon
<1> QED BY <1>3, <1>4, <1>8, <1>9, <1>12, <1>13, Zenon

LEMMA AppliedFacts ==
    ASSUME NEW p \in Record,
           NEW action \in {"reused", "contradicted", "deactivated", "superseded"}
    PROVE  /\ Applied(p, action) \in Record
           /\ ~p.active => ~Applied(p, action).active
           /\ Applied(p, action).reuses + Applied(p, action).contradictions
                = p.reuses + p.contradictions
                  + (IF action \in {"reused", "contradicted"} THEN 1 ELSE 0)
<1>0. p.reuses \in Nat /\ p.contradictions \in Nat
  BY DEF Record
<1>1. CASE action = "reused"
  <2>1. Applied(p, action) = Confirmed(p)
    BY <1>1 DEF Applied
  <2>2. Confirmed(p).reuses + Confirmed(p).contradictions = p.reuses + p.contradictions + 1
    BY RecordFacts, Zenon
  <2>3. Confirmed(p) \in Record /\ Confirmed(p).active = p.active
    BY RecordFacts, Zenon
  <2> QED BY <1>1, <2>1, <2>2, <2>3
<1>2. CASE action = "contradicted"
  <2>1. Applied(p, action) = Contradicted(p)
    BY <1>2 DEF Applied
  <2>2. Contradicted(p).reuses + Contradicted(p).contradictions = p.reuses + p.contradictions + 1
    BY RecordFacts, Zenon
  <2>3. Contradicted(p) \in Record /\ Contradicted(p).active = p.active
    BY RecordFacts, Zenon
  <2> QED BY <1>2, <2>1, <2>2, <2>3
<1>3. CASE action \in {"deactivated", "superseded"}
  <2> DEFINE q == [p EXCEPT !.active = FALSE]
  <2>1. Applied(p, action) = q
    BY <1>3 DEF Applied
  <2>2. q \in Record
    BY DEF Record
  <2>3. q.active = FALSE /\ q.reuses = p.reuses /\ q.contradictions = p.contradictions
    BY DEF Record
  <2> HIDE DEF q
  <2> QED BY <1>0, <1>3, <2>1, <2>2, <2>3
<1> QED BY <1>1, <1>2, <1>3

LEMMA RowFacts ==
    ASSUME NEW row, NEW p \in Record
    PROVE  UpdateRecord(row, p) \in Row /\ UpdateRecord(row, p).payload = p
<1>1. UpdateRecord(row, p).payload = p
  BY DEF UpdateRecord
<1>2. p.active \in BOOLEAN
  BY DEF Record
<1> QED BY <1>1, <1>2, Zenon DEF UpdateRecord, Row

\* Events are counted in Nat.
LEMMA Counted ==
    ASSUME IsFiniteSet(lifecycle), IsFiniteSet(outcomes), NEW m
    PROVE  /\ IsFiniteSet(CreditEvents(m)) /\ Cardinality(CreditEvents(m)) \in Nat
           /\ IsFiniteSet(OutcomeEvents(m)) /\ Cardinality(OutcomeEvents(m)) \in Nat
           /\ CreditsOf(m) = Cardinality(CreditEvents(m)) + Cardinality(OutcomeEvents(m))
<1>1. CreditEvents(m) \subseteq lifecycle /\ OutcomeEvents(m) \subseteq outcomes
  BY DEF CreditEvents, OutcomeEvents
<1>2. IsFiniteSet(CreditEvents(m)) /\ IsFiniteSet(OutcomeEvents(m))
  BY <1>1, FS_Subset
<1> QED BY <1>2, FS_CardinalityType DEF CreditsOf, CreditEvents, OutcomeEvents

\* A row of the store.
LEMMA RowKnown ==
    ASSUME StoreOK, NEW m \in DOMAIN rows
    PROVE  /\ rows[m].payload \in Record /\ m \in Memory
           /\ rows[m].payload.reuses \in Nat /\ rows[m].payload.contradictions \in Nat
           /\ \E e \in ingested :
                /\ e.content.mem = m /\ Brought(e) \in Nat
                /\ rows[m].payload.reuses + rows[m].payload.contradictions
                     <= Brought(e) + (Cardinality(CreditEvents(m)) + Cardinality(OutcomeEvents(m)))
<1>1. rows[m].payload \in Record /\ m \in Memory
  BY DEF StoreOK, MemoryTypeOK, Row
<1>2. rows[m].payload.reuses \in Nat /\ rows[m].payload.contradictions \in Nat
  BY <1>1 DEF Record
<1>3. CreditsOf(m) = Cardinality(CreditEvents(m)) + Cardinality(OutcomeEvents(m))
  BY Counted DEF StoreOK
<1>4. PICK e \in ingested :
         /\ e.content.mem = m
         /\ rows[m].payload.reuses + rows[m].payload.contradictions <= Brought(e) + CreditsOf(m)
  BY DEF StoreOK, CreditedOnce
<1>5. Brought(e) \in Nat
  BY DEF StoreOK
<1> QED BY <1>1, <1>2, <1>3, <1>4, <1>5

\* An outcome, reported by whomever, is credited when the store has not seen it.
LEMMA OutcomeStep ==
    ASSUME StoreOK, NEW r, RecordOutcome(r)
    PROVE  /\ StoreOK' /\ ingested' = ingested
           /\ \A m \in DOMAIN rows : rows'[m].payload.active = rows[m].payload.active
<1>1. /\ rows' = Credit(r)
      /\ outcomes' = IF Known(outcomes, r) THEN outcomes ELSE outcomes \cup {Event(r)}
      /\ UNCHANGED <<ingested, lifecycle, context>>
  BY DEF RecordOutcome
<1>2. CASE Known(outcomes, r)
  <2>1. outcomes' = outcomes
    BY <1>1, <1>2
  <2>2. DOMAIN rows' = DOMAIN rows /\ \A m \in DOMAIN rows : rows'[m] = rows[m]
    BY <1>1, <1>2 DEF Credit
  <2>3. MemoryTypeOK'
    BY <1>1, <2>1, <2>2 DEF StoreOK, MemoryTypeOK
  <2>4. CreditedOnce'
    BY <1>1, <2>1, <2>2 DEF StoreOK, CreditedOnce, CreditsOf
  <2> QED BY <1>1, <2>1, <2>2, <2>3, <2>4 DEF StoreOK
<1>3. CASE ~Known(outcomes, r)
  <2> DEFINE credited == r.content.mems
             paid(m) == IF Confirms(r.content) THEN Confirmed(rows[m].payload)
                        ELSE Contradicted(rows[m].payload)
  <2>1. outcomes' = outcomes \cup {Event(r)} /\ Event(r) \notin outcomes
    BY <1>1, <1>3 DEF Known, Event
  <2>2. /\ DOMAIN rows' = DOMAIN rows
        /\ \A m \in DOMAIN rows : rows'[m] = IF m \in credited THEN UpdateRecord(rows[m], paid(m))
                                             ELSE rows[m]
    BY <1>1, <1>3 DEF Credit
  <2>3. \A m \in DOMAIN rows :
          /\ paid(m) \in Record /\ paid(m).active = rows[m].payload.active
          /\ paid(m).reuses + paid(m).contradictions
               = rows[m].payload.reuses + rows[m].payload.contradictions + 1
    <3> TAKE m \in DOMAIN rows
    <3> DEFINE p == rows[m].payload
    <3>1. p \in Record /\ p.reuses \in Nat /\ p.contradictions \in Nat
      BY RowKnown
    <3> HIDE DEF p
    <3>2. CASE Confirms(r.content)
      <4>1. paid(m) = Confirmed(p)
        BY <3>2 DEF p
      <4>2. Confirmed(p).reuses + Confirmed(p).contradictions = p.reuses + p.contradictions + 1
        BY <3>1, RecordFacts, Zenon
      <4>3. Confirmed(p) \in Record /\ Confirmed(p).active = p.active
        BY <3>1, RecordFacts, Zenon
      <4> QED BY <4>1, <4>2, <4>3 DEF p
    <3>3. CASE ~Confirms(r.content)
      <4>1. paid(m) = Contradicted(p)
        BY <3>3 DEF p
      <4>2. Contradicted(p).reuses + Contradicted(p).contradictions = p.reuses + p.contradictions + 1
        BY <3>1, RecordFacts, Zenon
      <4>3. Contradicted(p) \in Record /\ Contradicted(p).active = p.active
        BY <3>1, RecordFacts, Zenon
      <4> QED BY <4>1, <4>2, <4>3 DEF p
    <3> QED BY <3>2, <3>3
  <2> HIDE DEF paid, credited
  <2>4. \A m \in DOMAIN rows :
          /\ rows'[m] \in Row /\ rows'[m].payload.active = rows[m].payload.active
          /\ m \in credited => rows'[m].payload = paid(m)
          /\ m \notin credited => rows'[m] = rows[m]
    BY <2>2, <2>3, RowFacts DEF StoreOK, MemoryTypeOK
  <2>5. MemoryTypeOK'
    <3>1. \A e \in outcomes : e.id # Event(r).id
      BY <1>3 DEF Known, Event
    <3>2. \A e, f \in outcomes' : e.id = f.id => e = f
      BY <2>1, <3>1 DEF StoreOK, MemoryTypeOK
    <3> QED BY <1>1, <2>2, <2>4, <3>2 DEF StoreOK, MemoryTypeOK
  <2>6. IsFiniteSet(outcomes') /\ IsFiniteSet(lifecycle')
    BY <1>1, <2>1, FS_AddElement DEF StoreOK
  <2>7. ASSUME NEW m \in DOMAIN rows'
        PROVE  \E e \in ingested' :
                 /\ e.content.mem = m
                 /\ rows'[m].payload.reuses + rows'[m].payload.contradictions <= Brought(e) + CreditsOf(m)'
    <3> DEFINE o == Cardinality(OutcomeEvents(m))
               l == Cardinality(CreditEvents(m))
    <3>1. o \in Nat /\ l \in Nat /\ IsFiniteSet(OutcomeEvents(m))
      BY Counted DEF StoreOK
    <3>2. CreditsOf(m)' = l + Cardinality(OutcomeEvents(m)')
      BY <1>1 DEF CreditsOf, CreditEvents, OutcomeEvents
    <3>0. PICK e \in ingested :
            /\ e.content.mem = m /\ Brought(e) \in Nat
            /\ rows[m].payload.reuses + rows[m].payload.contradictions <= Brought(e) + (l + o)
      BY <2>2, <2>7, RowKnown
    <3>00. m \in DOMAIN rows /\ rows[m].payload.reuses \in Nat /\ rows[m].payload.contradictions \in Nat
      BY <2>2, <2>7, RowKnown
    <3> HIDE DEF o, l
    <3> SUFFICES rows'[m].payload.reuses + rows'[m].payload.contradictions <= Brought(e) + CreditsOf(m)'
      BY <1>1, <3>0
    <3>3. CASE m \in credited
      <4>1. OutcomeEvents(m)' = OutcomeEvents(m) \cup {Event(r)}
        BY <2>1, <3>3 DEF OutcomeEvents, Event, credited
      <4>2. Event(r) \notin OutcomeEvents(m)
        BY <2>1 DEF OutcomeEvents
      <4>3. Cardinality(OutcomeEvents(m)') = o + 1
        BY <3>1, <4>1, <4>2, FS_AddElement DEF o
      <4>4. rows'[m].payload.reuses + rows'[m].payload.contradictions = rows[m].payload.reuses + rows[m].payload.contradictions + 1
        BY <2>3, <2>4, <3>3, <3>00
      <4> QED BY <3>0, <3>00, <3>1, <3>2, <4>3, <4>4
    <3>4. CASE m \notin credited
      <4>1. OutcomeEvents(m)' = OutcomeEvents(m)
        BY <2>1, <3>4 DEF OutcomeEvents, Event, credited
      <4>2. CreditsOf(m)' = l + o
        BY <3>2, <4>1 DEF o
      <4> QED BY <2>4, <3>0, <3>00, <3>1, <3>4, <4>2
    <3> QED BY <3>3, <3>4
  <2>8. CreditedOnce'
    BY <2>7 DEF CreditedOnce
  <2> QED BY <1>1, <2>4, <2>5, <2>6, <2>8 DEF StoreOK
<1> QED BY <1>2, <1>3

\* A lifecycle event changes the memory it is about when the store has not seen
\* it, and revives none.
LEMMA LifecycleStep ==
    ASSUME StoreOK, NEW r \in Lifecycles, RecordLifecycle(r)
    PROVE  /\ StoreOK'
           /\ \A m \in DOMAIN rows : ~rows[m].payload.active => ~rows'[m].payload.active
<1> DEFINE k == r.content.mem
           action == r.content.action
<1>1. action \in {"reused", "contradicted", "deactivated", "superseded"}
  BY MemoryAssumption
<1>2. UNCHANGED <<ingested, outcomes, context>>
  BY DEF RecordLifecycle
<1>3. CASE Known(lifecycle, r)
  <2>1. UNCHANGED <<lifecycle, rows>>
    BY <1>3 DEF RecordLifecycle
  <2>2. MemoryTypeOK'
    BY <1>2, <2>1 DEF StoreOK, MemoryTypeOK
  <2>3. CreditedOnce'
    BY <1>2, <2>1 DEF StoreOK, CreditedOnce, CreditsOf
  <2> QED BY <1>2, <2>1, <2>2, <2>3 DEF StoreOK
<1>4. CASE ~Known(lifecycle, r)
  <2>1. /\ k \in DOMAIN rows /\ lifecycle' = lifecycle \cup {Event(r)}
        /\ rows' = [rows EXCEPT ![k] = UpdateRecord(rows[k], Applied(rows[k].payload, action))]
    BY <1>4 DEF RecordLifecycle
  <2>2. Event(r) \notin lifecycle /\ \A e \in lifecycle : e.id # Event(r).id
    BY <1>4 DEF Known, Event
  <2>3. Event(r).content.mem = k /\ Event(r).content.action = action
    BY DEF Event
  <2> DEFINE p == rows[k].payload
             q == Applied(p, action)
  <2>4. p \in Record /\ p.reuses \in Nat /\ p.contradictions \in Nat
    BY <2>1, RowKnown
  <2>5. /\ q \in Record
        /\ ~p.active => ~q.active
        /\ q.reuses + q.contradictions
             = p.reuses + p.contradictions + (IF action \in {"reused", "contradicted"} THEN 1 ELSE 0)
    <3> HIDE DEF p, action
    <3> QED BY <1>1, <2>4, AppliedFacts, Zenon
  <2>6. UpdateRecord(rows[k], q) \in Row /\ UpdateRecord(rows[k], q).payload = q
    <3> HIDE DEF p, q, action
    <3>1. q \in Record
      BY <2>5, Zenon
    <3> QED BY <3>1, RowFacts, Zenon
  <2>7. /\ DOMAIN rows' = DOMAIN rows /\ rows'[k] \in Row /\ rows'[k].payload = q
        /\ \A m \in DOMAIN rows : m # k => rows'[m] = rows[m]
    <3> HIDE DEF k
    <3> QED BY <2>1, <2>6
  <2> HIDE DEF k, action, q
  <2>8. MemoryTypeOK'
    <3>1. \A e, f \in lifecycle' : e.id = f.id => e = f
      BY <2>1, <2>2 DEF StoreOK, MemoryTypeOK
    <3>2. DOMAIN rows' \subseteq Memory /\ \A m \in DOMAIN rows' : rows'[m] \in Row
      BY <2>7 DEF StoreOK, MemoryTypeOK
    <3> QED BY <1>2, <3>1, <3>2 DEF StoreOK, MemoryTypeOK
  <2>9. IsFiniteSet(outcomes') /\ IsFiniteSet(lifecycle')
    BY <1>2, <2>1, FS_AddElement DEF StoreOK
  <2>10. ASSUME NEW m \in DOMAIN rows'
         PROVE  \E e \in ingested' :
                 /\ e.content.mem = m
                 /\ rows'[m].payload.reuses + rows'[m].payload.contradictions <= Brought(e) + CreditsOf(m)'
    <3> DEFINE o == Cardinality(OutcomeEvents(m))
               l == Cardinality(CreditEvents(m))
    <3>1. o \in Nat /\ l \in Nat /\ IsFiniteSet(CreditEvents(m))
      BY Counted DEF StoreOK
    <3>2. CreditsOf(m)' = Cardinality(CreditEvents(m)') + o
      BY <1>2 DEF CreditsOf, CreditEvents, OutcomeEvents
    <3>0. PICK e \in ingested :
            /\ e.content.mem = m /\ Brought(e) \in Nat
            /\ rows[m].payload.reuses + rows[m].payload.contradictions <= Brought(e) + (l + o)
      BY <2>7, <2>10, RowKnown
    <3>00. m \in DOMAIN rows /\ rows[m].payload.reuses \in Nat /\ rows[m].payload.contradictions \in Nat
      BY <2>7, <2>10, RowKnown
    <3> HIDE DEF o, l
    <3> SUFFICES rows'[m].payload.reuses + rows'[m].payload.contradictions <= Brought(e) + CreditsOf(m)'
      BY <1>2, <3>0
    <3>3. CASE m = k /\ action \in {"reused", "contradicted"}
      <4>1. CreditEvents(m)' = CreditEvents(m) \cup {Event(r)}
        BY <2>1, <2>3, <3>3 DEF CreditEvents
      <4>2. Event(r) \notin CreditEvents(m)
        BY <2>2 DEF CreditEvents
      <4>3. Cardinality(CreditEvents(m)') = l + 1
        BY <3>1, <4>1, <4>2, FS_AddElement DEF l
      <4>4. p.reuses + p.contradictions <= Brought(e) + (l + o)
        BY <3>0, <3>3
      <4>5. q.reuses + q.contradictions = p.reuses + p.contradictions + 1
        BY <2>5, <3>3, Zenon
      <4>6. rows'[m].payload = q
        BY <2>7, <3>3
      <4> HIDE DEF p
      <4> QED BY <2>4, <3>0, <3>1, <3>2, <4>3, <4>4, <4>5, <4>6
    <3>4. CASE m # k
      <4>1. CreditEvents(m)' = CreditEvents(m)
        BY <2>1, <2>3, <3>4 DEF CreditEvents
      <4>2. CreditsOf(m)' = l + o
        BY <3>2, <4>1 DEF l
      <4> QED BY <2>7, <3>0, <3>00, <3>1, <3>4, <4>2
    <3>5. CASE m = k /\ action \notin {"reused", "contradicted"}
      <4>1. CreditEvents(m)' = CreditEvents(m)
        BY <2>1, <2>3, <3>5 DEF CreditEvents
      <4>4. p.reuses + p.contradictions <= Brought(e) + (l + o)
        BY <3>0, <3>5
      <4>5. q.reuses + q.contradictions = p.reuses + p.contradictions + 0
        BY <2>5, <3>5, Zenon
      <4>6. rows'[m].payload = q /\ CreditsOf(m)' = l + o
        BY <2>7, <3>2, <3>5, <4>1 DEF l
      <4> HIDE DEF p
      <4> QED BY <2>4, <3>0, <3>1, <4>4, <4>5, <4>6
    <3> QED BY <3>3, <3>4, <3>5
  <2>11. CreditedOnce'
    BY <2>10 DEF CreditedOnce
  <2>12. \A m \in DOMAIN rows : ~rows[m].payload.active => ~rows'[m].payload.active
    <3> TAKE m \in DOMAIN rows
    <3>1. CASE m = k
      <4>1. rows'[m].payload = q /\ rows[m].payload = p
        BY <2>7, <3>1
      <4> HIDE DEF p
      <4> QED BY <2>5, <4>1, Zenon
    <3>2. CASE m # k
      BY <2>7, <3>2, Zenon
    <3> QED BY <3>1, <3>2
  <2>13. \A e \in ingested' : Brought(e) \in Nat
    BY <1>2 DEF StoreOK
  <2> QED BY <2>8, <2>9, <2>11, <2>12, <2>13 DEF StoreOK
<1> QED BY <1>3, <1>4

LEMMA NewRowFacts ==
    ASSUME NEW r \in Ingests
    PROVE  /\ r.content.mem \in Memory /\ NewRow(r.content) \in Row
           /\ NewRow(r.content).payload.reuses + NewRow(r.content).payload.contradictions
                = Brought(Event(r))
           /\ Brought(Event(r)) \in Nat /\ Event(r).content.mem = r.content.mem
<1>1. /\ r.content.mem \in Memory /\ r.content.confidence \in 0..100
      /\ r.content.active \in BOOLEAN
      /\ r.content.reuses \in Nat /\ r.content.contradictions \in Nat
  BY MemoryAssumption
<1>2. /\ NewRow(r.content).payload.reuses + NewRow(r.content).payload.contradictions
           = Brought(Event(r))
      /\ Brought(Event(r)) \in Nat /\ Event(r).content.mem = r.content.mem
  BY <1>1 DEF NewRow, Brought, Event
<1>3. NewRow(r.content) \in Row
  BY <1>1 DEF NewRow, Row, Record
<1> QED BY <1>1, <1>2, <1>3

\* An ingest event the store has not seen replaces the row of its memory.
LEMMA IngestStep ==
    ASSUME StoreOK, NEW r \in Ingests, Ingest(r)
    PROVE  /\ StoreOK'
           /\ ingested' = ingested => rows' = rows
<1>1. UNCHANGED <<lifecycle, outcomes, context>>
  BY DEF Ingest
<1>2. CASE Known(ingested, r)
  <2>1. UNCHANGED <<ingested, rows>>
    BY <1>2 DEF Ingest
  <2>2. MemoryTypeOK'
    BY <1>1, <2>1 DEF StoreOK, MemoryTypeOK
  <2>3. CreditedOnce'
    BY <1>1, <2>1 DEF StoreOK, CreditedOnce, CreditsOf
  <2> QED BY <1>1, <2>1, <2>2, <2>3 DEF StoreOK
<1>3. CASE ~Known(ingested, r)
  <2> DEFINE k == r.content.mem
  <2>1. ingested' = ingested \cup {Event(r)} /\ rows' = Replaced(r.content)
    BY <1>3 DEF Ingest
  <2>2. /\ DOMAIN rows' = DOMAIN rows \cup {k} /\ rows'[k] = NewRow(r.content)
        /\ \A m \in DOMAIN rows : m # k => rows'[m] = rows[m]
    BY <2>1 DEF Replaced
  <2>3. Event(r) \notin ingested /\ \A e \in ingested : e.id # Event(r).id
    BY <1>3 DEF Known, Event
  <2>4. MemoryTypeOK'
    <3>1. \A e, f \in ingested' : e.id = f.id => e = f
      BY <2>1, <2>3 DEF StoreOK, MemoryTypeOK
    <3>2. DOMAIN rows' \subseteq Memory /\ \A m \in DOMAIN rows' : rows'[m] \in Row
      BY <2>2, NewRowFacts DEF StoreOK, MemoryTypeOK
    <3> QED BY <1>1, <3>1, <3>2 DEF StoreOK, MemoryTypeOK
  <2>5. ASSUME NEW m \in DOMAIN rows'
        PROVE  \E e \in ingested' :
                 /\ e.content.mem = m
                 /\ rows'[m].payload.reuses + rows'[m].payload.contradictions <= Brought(e) + CreditsOf(m)'
    <3>1. CreditsOf(m)' = CreditsOf(m)
      BY <1>1 DEF CreditsOf
    <3>2. CreditsOf(m) \in Nat
      BY Counted DEF StoreOK
    <3>3. CASE m = k
      <4>1. Event(r) \in ingested' /\ Event(r).content.mem = m
        BY <2>1, <3>3, NewRowFacts
      <4>2. rows'[m].payload.reuses + rows'[m].payload.contradictions = Brought(Event(r))
            /\ Brought(Event(r)) \in Nat
        BY <2>2, <3>3, NewRowFacts
      <4>3. rows'[m].payload.reuses + rows'[m].payload.contradictions
              <= Brought(Event(r)) + CreditsOf(m)'
        BY <3>1, <3>2, <4>2
      <4> QED BY <4>1, <4>3
    <3>4. CASE m # k
      BY <2>1, <2>2, <3>1, <3>4 DEF StoreOK, CreditedOnce
    <3> QED BY <3>3, <3>4
  <2>6. CreditedOnce' /\ \A e \in ingested' : Brought(e) \in Nat
    BY <2>1, <2>5, NewRowFacts DEF CreditedOnce, StoreOK
  <2>7. ingested' # ingested
    BY <2>1, <2>3
  <2> QED BY <1>1, <2>4, <2>6, <2>7 DEF StoreOK
<1> QED BY <1>2, <1>3

LEMMA AssembleStep ==
    ASSUME StoreOK, Assemble
    PROVE  StoreOK' /\ rows' = rows
<1>1. PICK S \in SUBSET {m \in DOMAIN rows : rows[m].active} :
         Cardinality(S) <= Limit /\ context' = S
  BY DEF Assemble
<1>2. UNCHANGED <<rows, ingested, lifecycle, outcomes, remote>>
  BY DEF Assemble
<1>3. MemoryTypeOK'
  BY <1>1, <1>2 DEF StoreOK, MemoryTypeOK
<1>4. CreditedOnce'
  BY <1>2 DEF StoreOK, CreditedOnce, CreditsOf
<1> QED BY <1>2, <1>3, <1>4 DEF StoreOK

LEMMA StoreUnchanged ==
    ASSUME StoreOK, UNCHANGED memoryVars
    PROVE  StoreOK' /\ rows' = rows
<1>1. UNCHANGED <<rows, ingested, lifecycle, outcomes, remote, context>>
  BY DEF memoryVars
<1>2. MemoryTypeOK'
  BY <1>1 DEF StoreOK, MemoryTypeOK
<1>3. CreditedOnce'
  BY <1>1 DEF StoreOK, CreditedOnce, CreditsOf
<1> QED BY <1>1, <1>2, <1>3 DEF StoreOK

-----------------------------------------------------------------------------
\* What a step of the jobs means to the store: nothing, or one outcome.
LEMMA JobStepFacts ==
    ASSUME JobStep
    PROVE  UNCHANGED memoryVars \/ \E r : RecordOutcome(r)
<1>1. PICK t \in Submission : Start(t) \/ Vanish(t) \/ Exit(t) \/ Kill(t) \/ LetGo(t) \/ Timeout(t) \/ Die(t)
  BY DEF JobStep
<1>2. \A n, status, w : Conclude(t, n, status, w) => \E r : RecordOutcome(r)
  BY Zenon DEF Conclude
<1>3. CASE Start(t)
  BY <1>2, <1>3, Zenon DEF Start
<1>4. CASE Vanish(t)
  BY <1>2, <1>4, Zenon DEF Vanish
<1>5. CASE Exit(t)
  BY <1>2, <1>5, Zenon DEF Exit
<1>6. CASE Timeout(t)
  BY <1>2, <1>6, Zenon DEF Timeout
<1>7. CASE Kill(t) \/ LetGo(t) \/ Die(t)
  BY <1>7, Zenon DEF Kill, LetGo, Die
<1> QED BY <1>1, <1>3, <1>4, <1>5, <1>6, <1>7

\* What a step of the endpoints means to the store.
LEMMA StepOfStore ==
    ASSUME [Next]_vars
    PROVE  \/ UNCHANGED memoryVars
           \/ Assemble
           \/ \E r \in Ingests : Ingest(r)
           \/ \E r \in Lifecycles : RecordLifecycle(r)
           \/ \E r : RecordOutcome(r)
<1>1. CASE \E q \in RouteRequests : Ask(q)
  BY <1>1, Zenon DEF Ask
<1>2. CASE \E q \in RouteRequests : Decide(q)
  BY <1>2, Zenon DEF Decide
<1>3. CASE Call
  BY <1>3, Zenon DEF Call
<1>4. CASE Work
  BY <1>4, JobStepFacts, Zenon DEF Work
<1>5. CASE RestartRouter
  BY <1>5, Zenon DEF RestartRouter, Restart
<1>6. CASE PowerChange
  BY <1>6, Zenon DEF PowerChange
<1>7. CASE BurnLoop
  BY <1>7, Zenon DEF BurnLoop
<1>8. CASE BurnDown
  BY <1>8, Zenon DEF BurnDown
<1>9. CASE UNCHANGED vars
  BY <1>9 DEF vars
<1> QED BY <1>1, <1>2, <1>3, <1>4, <1>5, <1>6, <1>7, <1>8, <1>9, Zenon DEF Next

LEMMA StoreStep ==
    ASSUME StoreOK, [Next]_vars
    PROVE  /\ StoreOK'
           /\ \A m \in DOMAIN rows :
                ~rows[m].payload.active /\ rows'[m].payload.active => ingested' # ingested
<1>1. CASE UNCHANGED memoryVars
  BY <1>1, StoreUnchanged, Zenon
<1>2. CASE Assemble
  BY <1>2, AssembleStep, Zenon
<1>3. ASSUME NEW r \in Ingests, Ingest(r)
      PROVE  /\ StoreOK'
             /\ \A m \in DOMAIN rows :
                  ~rows[m].payload.active /\ rows'[m].payload.active => ingested' # ingested
  BY <1>3, IngestStep, Zenon
<1>4. ASSUME NEW r \in Lifecycles, RecordLifecycle(r)
      PROVE  /\ StoreOK'
             /\ \A m \in DOMAIN rows :
                  ~rows[m].payload.active /\ rows'[m].payload.active => ingested' # ingested
  BY <1>4, LifecycleStep, Zenon
<1>5. ASSUME NEW r, RecordOutcome(r)
      PROVE  /\ StoreOK'
             /\ \A m \in DOMAIN rows :
                  ~rows[m].payload.active /\ rows'[m].payload.active => ingested' # ingested
  BY <1>5, OutcomeStep, Zenon
<1> QED BY <1>1, <1>2, <1>3, <1>4, <1>5, StepOfStore, Zenon

-----------------------------------------------------------------------------
\* What task t does to record n, which it runs, and to itself.
TaskMoves(t, n, status, w, c) ==
    /\ jobs' = jobs /\ DOMAIN recs' = Submission
    /\ recs'[n] = [request |-> recs[n].request, status |-> status, worker |-> w]
    /\ \A k \in Submission : k # n => recs'[k] = recs[k]
    /\ tasks' = [tasks EXCEPT ![t] = [pc |-> c, rec |-> n]]

LEMMA TaskStep ==
    ASSUME JobsOK, NEW t \in Submission, NEW n \in Submission, Used(n),
           NEW status \in Ended \cup {"running"}, NEW w \in Worker \cup {"none"},
           NEW c \in Busy \cup {"ended", "died"}, TaskMoves(t, n, status, w, c)
    PROVE  JobsOK'
<1>0. /\ jobs' = jobs /\ DOMAIN recs' = Submission
      /\ recs'[n] = [request |-> recs[n].request, status |-> status, worker |-> w]
      /\ \A k \in Submission : k # n => recs'[k] = recs[k]
      /\ tasks' = [tasks EXCEPT ![t] = [pc |-> c, rec |-> n]]
  BY DEF TaskMoves
<1>1. /\ recs'[n].request = recs[n].request /\ recs'[n].status = status /\ recs'[n].worker = w
      /\ status # "none"
  BY <1>0 DEF Ended
<1>2. /\ DOMAIN tasks' = Submission /\ tasks'[t].pc = c /\ tasks'[t].rec = n
      /\ \A k \in Submission : k # t => tasks'[k] = tasks[k]
  BY <1>0 DEF JobsOK
<1>3. \A k \in Submission : Used(k)' <=> Used(k)
  BY <1>0, <1>1 DEF Used
<1>4. n \in 0..MaxSubmissions
  BY JobAssumption DEF Submission
<1>5. JobTypeOK'
  <2>1. \A k \in Submission : recs'[k].status \in Ended \cup {"none", "queued", "running"}
                            /\ recs'[k].worker \in Worker \cup {"none"}
    BY <1>0, <1>1 DEF JobsOK, JobTypeOK
  <2>2. \A k \in Submission : tasks'[k].pc \in {"none", "new", "run", "killed", "held", "ended", "died"}
                            /\ tasks'[k].rec \in 0..MaxSubmissions
    BY <1>2, <1>4 DEF JobsOK, JobTypeOK, Busy
  <2> QED BY <1>0, <2>1, <2>2 DEF JobsOK, JobTypeOK
<1>6. ASSUME NEW k \in Submission
      PROVE  /\ recs'[k] = [request |-> recs'[k].request, status |-> recs'[k].status, worker |-> recs'[k].worker]
             /\ Used(k)' => recs'[k].request.job \in Job /\ jobs'[recs'[k].request.job] # 0
             /\ tasks'[k] = [pc |-> tasks'[k].pc, rec |-> tasks'[k].rec]
             /\ tasks'[k].pc = "new" => Used(k)'
             /\ tasks'[k].pc \in Busy => tasks'[k].rec \in Submission /\ recs'[tasks'[k].rec].status # "none"
  <2>1. recs'[k] = [request |-> recs'[k].request, status |-> recs'[k].status, worker |-> recs'[k].worker]
    BY <1>0, <1>1 DEF JobsOK
  <2>2. recs'[k].request = recs[k].request
    BY <1>0, <1>1
  <2>3. Used(k)' => recs'[k].request.job \in Job /\ jobs'[recs'[k].request.job] # 0
    BY <1>0, <1>3, <2>2 DEF JobsOK
  <2>4. CASE k = t
    <3>1. tasks'[k] = [pc |-> c, rec |-> n] /\ c # "new"
      BY <1>0, <2>4 DEF JobsOK, Busy
    <3>2. recs'[n].status # "none"
      BY <1>1
    <3> QED BY <2>1, <2>3, <3>1, <3>2
  <2>5. CASE k # t
    <3>1. tasks'[k] = tasks[k]
      BY <1>2, <2>5
    <3>2. tasks[k].pc \in Busy => tasks[k].rec \in Submission /\ recs[tasks[k].rec].status # "none"
      BY DEF JobsOK, Used
    <3>3. tasks[k].pc = "new" => Used(k)'
      BY <1>3 DEF JobsOK
    <3>4. \A l \in Submission : recs[l].status # "none" => recs'[l].status # "none"
      BY <1>3 DEF Used
    <3>5. tasks[k] = [pc |-> tasks[k].pc, rec |-> tasks[k].rec]
      BY DEF JobsOK
    <3> QED BY <2>1, <2>3, <3>1, <3>2, <3>3, <3>4, <3>5
  <2> QED BY <2>4, <2>5
<1>7. \A j \in Job : jobs'[j] # 0 => recs'[jobs'[j]].status # "none"
  <2>1. \A j \in Job : jobs[j] # 0 => jobs[j] \in Submission /\ recs[jobs[j]].status # "none"
    BY JobAssumption DEF JobsOK, JobTypeOK, Submission, Used
  <2> QED BY <1>0, <1>3, <2>1 DEF Used
<1> QED BY <1>0, <1>2, <1>5, <1>6, <1>7 DEF JobsOK, Used

LEMMA Concluding ==
    ASSUME JobsOK, NEW t \in Submission, NEW n \in Submission, Used(n),
           NEW status \in Ended, NEW w \in Worker \cup {"none"}, Conclude(t, n, status, w)
    PROVE  JobsOK'
<1>1. /\ recs' = [recs EXCEPT ![n].status = status, ![n].worker = w]
      /\ tasks' = [tasks EXCEPT ![t] = [pc |-> "ended", rec |-> n]] /\ jobs' = jobs
  BY DEF Conclude
<1>2. /\ DOMAIN recs' = Submission
      /\ recs'[n] = [[recs[n] EXCEPT !.status = status] EXCEPT !.worker = w]
      /\ \A k \in Submission : k # n => recs'[k] = recs[k]
  BY <1>1 DEF JobsOK
<1>3. recs[n] = [request |-> recs[n].request, status |-> recs[n].status, worker |-> recs[n].worker]
  BY DEF JobsOK
<1>4. recs'[n] = [request |-> recs[n].request, status |-> status, worker |-> w]
  BY <1>2, <1>3
<1>5. TaskMoves(t, n, status, w, "ended")
  BY <1>1, <1>2, <1>4 DEF TaskMoves
<1> QED BY <1>5, TaskStep

\* What a new task looks up is there.
LEMMA LookedUp ==
    ASSUME JobsOK, NEW t \in Submission, tasks[t].pc = "new"
    PROVE  jobs[recs[t].request.job] \in Submission /\ Used(jobs[recs[t].request.job])
<1>1. recs[t].request.job \in Job /\ jobs[recs[t].request.job] # 0
  BY DEF JobsOK
<1> QED BY <1>1, JobAssumption DEF JobsOK, JobTypeOK, Submission

LEMMA ChosenWorks ==
    ASSUME NEW r, NEW available \in SUBSET Worker, NEW w \in ChooseAdapter(r, available)
    PROVE  w \in Worker
BY DEF ChooseAdapter

LEMMA JobStepType ==
    ASSUME JobsOK, JobStep
    PROVE  JobsOK'
<1>1. PICK t \in Submission : Start(t) \/ Vanish(t) \/ Exit(t) \/ Kill(t) \/ LetGo(t) \/ Timeout(t) \/ Die(t)
  BY DEF JobStep
<1>2. \A n \in Submission : recs[n].worker \in Worker \cup {"none"}
  BY DEF JobsOK, JobTypeOK
<1>3. tasks[t].pc \in Busy => tasks[t].rec \in Submission /\ Used(tasks[t].rec)
  BY DEF JobsOK
<1>4. "failed" \in Ended /\ "succeeded" \in Ended /\ "timeout" \in Ended /\ "unavailable" \in Ended
  BY DEF Ended
<1>5. CASE Start(t)
  <2> DEFINE n == jobs[recs[t].request.job]
  <2>1. n \in Submission /\ Used(n)
    BY <1>5, LookedUp DEF Start
  <2>2. PICK available \in SUBSET Worker :
          LET chosen == ChooseAdapter(recs[n].request, available)
          IN  \/ chosen = {} /\ Conclude(t, n, "failed", recs[n].worker)
              \/ \E w \in chosen :
                    /\ recs' = [recs EXCEPT ![n].status = "running", ![n].worker = w]
                    /\ tasks' = [tasks EXCEPT ![t] = [pc |-> "run", rec |-> n]]
                    /\ UNCHANGED <<jobs, memoryVars>>
    BY <1>5, Zenon DEF Start
  <2> HIDE DEF n
  <2>3. CASE Conclude(t, n, "failed", recs[n].worker)
    BY <1>2, <1>4, <2>1, <2>3, Concluding
  <2>4. CASE \E w \in ChooseAdapter(recs[n].request, available) :
                    /\ recs' = [recs EXCEPT ![n].status = "running", ![n].worker = w]
                    /\ tasks' = [tasks EXCEPT ![t] = [pc |-> "run", rec |-> n]]
                    /\ UNCHANGED <<jobs, memoryVars>>
    <3>1. PICK w \in ChooseAdapter(recs[n].request, available) :
                    /\ recs' = [recs EXCEPT ![n].status = "running", ![n].worker = w]
                    /\ tasks' = [tasks EXCEPT ![t] = [pc |-> "run", rec |-> n]]
                    /\ jobs' = jobs
      BY <2>4
    <3>2. w \in Worker
      BY ChosenWorks
    <3>3. /\ DOMAIN recs' = Submission
          /\ recs'[n] = [[recs[n] EXCEPT !.status = "running"] EXCEPT !.worker = w]
          /\ \A k \in Submission : k # n => recs'[k] = recs[k]
      BY <2>1, <3>1 DEF JobsOK
    <3>4. recs[n] = [request |-> recs[n].request, status |-> recs[n].status, worker |-> recs[n].worker]
      BY <2>1 DEF JobsOK
    <3>5. recs'[n] = [request |-> recs[n].request, status |-> "running", worker |-> w]
      BY <3>3, <3>4
    <3>6. "running" \in Ended \cup {"running"} /\ w \in Worker \cup {"none"} /\ "run" \in Busy
      BY <3>2 DEF Busy
    <3>7. TaskMoves(t, n, "running", w, "run")
      BY <3>1, <3>3, <3>5 DEF TaskMoves
    <3> QED BY <2>1, <3>6, <3>7, TaskStep
  <2> QED BY <2>2, <2>3, <2>4
<1>6. CASE Vanish(t)
  <2> DEFINE n == jobs[recs[t].request.job]
  <2>1. n \in Submission /\ Used(n)
    BY <1>6, LookedUp DEF Vanish
  <2>2. PICK available \in SUBSET Worker :
          \E w \in ChooseAdapter(recs[n].request, available) : Conclude(t, n, "unavailable", w)
    BY <1>6, Zenon DEF Vanish
  <2> HIDE DEF n
  <2>3. PICK w \in ChooseAdapter(recs[n].request, available) : Conclude(t, n, "unavailable", w)
    BY <2>2
  <2>4. w \in Worker
    BY ChosenWorks
  <2> QED BY <1>4, <2>1, <2>3, <2>4, Concluding
<1>7. CASE Exit(t)
  <2>1. PICK status \in {"succeeded", "failed"} :
          Conclude(t, tasks[t].rec, status, recs[tasks[t].rec].worker)
    BY <1>7 DEF Exit
  <2>2. tasks[t].pc \in Busy
    BY <1>7 DEF Exit, Busy
  <2>3. status \in Ended
    BY <1>4
  <2> QED BY <1>2, <1>3, <2>1, <2>2, <2>3, Concluding
<1>8. CASE Timeout(t)
  <2>1. tasks[t].pc \in Busy /\ Conclude(t, tasks[t].rec, "timeout", recs[tasks[t].rec].worker)
    BY <1>8 DEF Timeout, Busy
  <2> QED BY <1>2, <1>3, <1>4, <2>1, Concluding
<1>9. CASE Die(t)
  <2> DEFINE n == IF tasks[t].pc = "new" THEN jobs[recs[t].request.job] ELSE tasks[t].rec
  <2>1. n \in Submission /\ Used(n)
    BY <1>3, <1>9, LookedUp DEF Die, Busy
  <2>2. PICK status \in {"running", "succeeded", "failed", "timeout"} :
          /\ tasks' = [tasks EXCEPT ![t] = [pc |-> "died", rec |-> n]]
          /\ recs' = [recs EXCEPT ![n].status = status] /\ jobs' = jobs
    <3>1. tasks' = [tasks EXCEPT ![t] = [pc |-> "died", rec |-> n]] /\ jobs' = jobs
      BY <1>9, Zenon DEF Die
    <3>2. \E s \in CASE tasks[t].pc = "new" -> {"running"}
                      [] tasks[t].pc = "run" -> {"succeeded", "failed"}
                      [] tasks[t].pc = "killed" -> {"timeout"} :
             recs' = [recs EXCEPT ![n].status = s]
      BY <1>9, Zenon DEF Die
    <3>4. tasks[t].pc \in {"new", "run", "killed"}
      BY <1>9, Zenon DEF Die
    <3> HIDE DEF n
    <3>3. \E s \in {"running", "succeeded", "failed", "timeout"} :
             recs' = [recs EXCEPT ![n].status = s]
      BY <3>2, <3>4
    <3> QED BY <3>1, <3>3, Zenon
  <2> HIDE DEF n
  <2>3. /\ DOMAIN recs' = Submission /\ recs'[n] = [recs[n] EXCEPT !.status = status]
        /\ \A k \in Submission : k # n => recs'[k] = recs[k]
    BY <2>1, <2>2 DEF JobsOK
  <2>4. recs[n] = [request |-> recs[n].request, status |-> recs[n].status, worker |-> recs[n].worker]
    BY <2>1 DEF JobsOK
  <2>5. recs'[n] = [request |-> recs[n].request, status |-> status, worker |-> recs[n].worker]
    BY <2>3, <2>4
  <2>6. status \in Ended \cup {"running"}
    BY <1>4
  <2>7. recs[n].worker \in Worker \cup {"none"} /\ "died" \in Busy \cup {"ended", "died"}
    BY <1>2, <2>1
  <2>8. TaskMoves(t, n, status, recs[n].worker, "died")
    BY <2>2, <2>3, <2>5 DEF TaskMoves
  <2> QED BY <2>1, <2>6, <2>7, <2>8, TaskStep
<1>10. CASE Kill(t) \/ LetGo(t)
  <2>1. PICK c \in Busy : tasks' = [tasks EXCEPT ![t].pc = c]
    BY <1>10 DEF Kill, LetGo, Busy
  <2>2. tasks[t].pc \in Busy /\ UNCHANGED <<jobs, recs>>
    BY <1>10 DEF Kill, LetGo, Busy
  <2>3. /\ DOMAIN tasks' = Submission /\ tasks'[t].pc \in Busy /\ tasks'[t].rec = tasks[t].rec
        /\ \A k \in Submission : k # t => tasks'[k] = tasks[k]
    <3>1. tasks'[t] = [tasks[t] EXCEPT !.pc = c] /\ DOMAIN tasks' = Submission
      BY <2>1 DEF JobsOK
    <3>2. \A k \in Submission : k # t => tasks'[k] = tasks[k]
      BY <2>1 DEF JobsOK
    <3>3. tasks[t] = [pc |-> tasks[t].pc, rec |-> tasks[t].rec]
      BY DEF JobsOK
    <3> QED BY <3>1, <3>2, <3>3
  <2>4. JobTypeOK'
    BY <2>2, <2>3 DEF JobsOK, JobTypeOK, Busy
  <2>5. \A k \in Submission : tasks'[k] = [pc |-> tasks'[k].pc, rec |-> tasks'[k].rec]
    BY <2>1, <2>3 DEF JobsOK
  <2> QED BY <2>2, <2>3, <2>4, <2>5 DEF JobsOK, Used, Busy
<1> QED BY <1>1, <1>5, <1>6, <1>7, <1>8, <1>9, <1>10

\* A new submission gets a record that is not in use.
LEMMA UnusedFirst ==
    ASSUME Unused # {}
    PROVE  (CHOOSE k \in Unused : \A m \in Unused : k <= m) \in Unused
<1>1. Unused \subseteq Nat
  BY JobAssumption DEF Unused, Submission
<1> DEFINE R == {p \in Nat \X Nat : p[1] < p[2]}
<1>2. IsWellFoundedOn(R, Nat)
  BY NatLessThanWellFounded DEF OpToRel
<1>3. \A i, j \in Nat : <<j, i>> \in R <=> j < i
  OBVIOUS
<1> HIDE DEF R
<1>4. PICK i \in Unused : \A j \in Unused : ~(<<j, i>> \in R)
  BY <1>1, <1>2, WFMin
<1>5. \A j \in Unused : ~(j < i)
  BY <1>1, <1>3, <1>4
<1>6. \A j \in Unused : i <= j
  BY <1>1, <1>5
<1> QED BY <1>6

LEMMA SubmitType ==
    ASSUME JobsOK, NEW request, request.job \in Job, Submit(request)
    PROVE  JobsOK'
<1> DEFINE n == CHOOSE k \in Unused : \A m \in Unused : k <= m
<1>1. n \in Unused
  BY UnusedFirst DEF Submit
<1>3. /\ recs' = [recs EXCEPT ![n] = [request |-> request, status |-> "queued", worker |-> "none"]]
      /\ jobs' = [jobs EXCEPT ![request.job] = n]
      /\ tasks' = [tasks EXCEPT ![n] = [pc |-> "new", rec |-> 0]]
  BY Zenon DEF Submit
<1> HIDE DEF n
<1>2. n \in Submission /\ n # 0 /\ ~Used(n) /\ n \in 0..MaxSubmissions
  <2>1. n \in Submission /\ ~Used(n)
    BY <1>1 DEF Unused, Used
  <2> QED BY <2>1, JobAssumption DEF Submission
<1>4. /\ DOMAIN recs' = Submission
      /\ recs'[n] = [request |-> request, status |-> "queued", worker |-> "none"]
      /\ \A k \in Submission : k # n => recs'[k] = recs[k]
  BY <1>2, <1>3 DEF JobsOK
<1>5. recs'[n].request = request /\ recs'[n].status = "queued" /\ recs'[n].worker = "none"
  BY <1>4
<1>6. /\ DOMAIN tasks' = Submission /\ tasks'[n].pc = "new" /\ tasks'[n].rec = 0
      /\ \A k \in Submission : k # n => tasks'[k] = tasks[k]
  BY <1>2, <1>3 DEF JobsOK
<1>7. /\ jobs' \in [Job -> 0..MaxSubmissions] /\ jobs'[request.job] = n
      /\ \A j \in Job : j # request.job => jobs'[j] = jobs[j]
  BY <1>2, <1>3 DEF JobsOK, JobTypeOK
<1>8. \A j \in Job : jobs[j] # 0 => jobs'[j] # 0
  BY <1>2, <1>7
<1>9. JobTypeOK'
  <2>1. \A k \in Submission : recs'[k].status \in Ended \cup {"none", "queued", "running"}
                            /\ recs'[k].worker \in Worker \cup {"none"}
    BY <1>4, <1>5 DEF JobsOK, JobTypeOK
  <2>2. 0 \in 0..MaxSubmissions
    BY JobAssumption
  <2>3. \A k \in Submission : tasks'[k].pc \in {"none", "new", "run", "killed", "held", "ended", "died"}
                            /\ tasks'[k].rec \in 0..MaxSubmissions
    BY <1>6, <2>2 DEF JobsOK, JobTypeOK
  <2> QED BY <1>7, <2>1, <2>3 DEF JobTypeOK
<1>10. ASSUME NEW k \in Submission
       PROVE  /\ recs'[k] = [request |-> recs'[k].request, status |-> recs'[k].status, worker |-> recs'[k].worker]
              /\ recs'[k].status # "none" => recs'[k].request.job \in Job /\ jobs'[recs'[k].request.job] # 0
              /\ tasks'[k] = [pc |-> tasks'[k].pc, rec |-> tasks'[k].rec]
              /\ tasks'[k].pc = "new" => recs'[k].status # "none"
              /\ tasks'[k].pc \in Busy => tasks'[k].rec \in Submission /\ recs'[tasks'[k].rec].status # "none"
  <2>1. CASE k = n
    <3>1. tasks'[k] = [pc |-> "new", rec |-> 0] /\ "new" \notin Busy
      BY <1>2, <1>3, <2>1 DEF JobsOK, Busy
    <3> QED BY <1>2, <1>4, <1>5, <1>7, <2>1, <3>1
  <2>2. CASE k # n
    <3>1. recs'[k] = recs[k] /\ tasks'[k] = tasks[k]
      BY <1>4, <1>6, <2>2
    <3>2. recs[k] = [request |-> recs[k].request, status |-> recs[k].status, worker |-> recs[k].worker]
      BY DEF JobsOK
    <3>3. recs[k].status # "none" => recs[k].request.job \in Job /\ jobs'[recs[k].request.job] # 0
      BY <1>8 DEF JobsOK, Used
    <3>4. tasks[k].pc = "new" => recs[k].status # "none"
      BY DEF JobsOK, Used
    <3>5. tasks[k].pc \in Busy => tasks[k].rec \in Submission /\ recs[tasks[k].rec].status # "none"
      BY DEF JobsOK, Used
    <3>6. \A l \in Submission : recs[l].status # "none" => recs'[l].status # "none"
      BY <1>4, <1>5
    <3>7. tasks[k] = [pc |-> tasks[k].pc, rec |-> tasks[k].rec]
      BY DEF JobsOK
    <3> QED BY <3>1, <3>2, <3>3, <3>4, <3>5, <3>6, <3>7
  <2> QED BY <2>1, <2>2
<1>11. \A j \in Job : jobs'[j] # 0 => recs'[jobs'[j]].status # "none"
  <2>1. \A j \in Job : jobs[j] # 0 => jobs[j] \in Submission /\ recs[jobs[j]].status # "none"
    BY JobAssumption DEF JobsOK, JobTypeOK, Submission, Used
  <2>2. \A l \in Submission : recs[l].status # "none" => recs'[l].status # "none"
    BY <1>4, <1>5
  <2> QED BY <1>5, <1>7, <2>1, <2>2
<1> QED BY <1>4, <1>6, <1>9, <1>10, <1>11 DEF JobsOK, Used

LEMMA NoJobs ==
    ASSUME jobs = [j \in Job |-> 0], recs = [n \in Submission |-> NoRecord],
           tasks = [n \in Submission |-> NoTask]
    PROVE  JobsOK
<1>1. 0 \in 0..MaxSubmissions
  BY JobAssumption
<1>2. JobTypeOK
  BY <1>1 DEF JobTypeOK, NoRecord, NoTask
<1> QED BY <1>2 DEF JobsOK, Used, NoRecord, NoTask, Busy

-----------------------------------------------------------------------------
LEMMA SelectionFacts ==
    ASSUME NEW q
    PROVE  \/ SelectLaneAndProvider(q) = NoDecision
           \/ \E lane, provider : SelectLaneAndProvider(q) = Decision(lane, provider)
<1>1. ASSUME NEW locals, Requested(q, locals) # {}
      PROVE  \/ (CHOOSE d \in Requested(q, locals) : TRUE) = NoDecision
             \/ \E lane, provider : (CHOOSE d \in Requested(q, locals) : TRUE) = Decision(lane, provider)
  <2>1. \A d \in Requested(q, locals) : d = NoDecision \/ \E lane, provider : d = Decision(lane, provider)
    BY Zenon DEF Requested
  <2>2. (CHOOSE d \in Requested(q, locals) : TRUE) \in Requested(q, locals)
    BY <1>1
  <2> QED BY <2>1, <2>2, Zenon
<1> QED BY <1>1, Zenon DEF SelectLaneAndProvider, Blocked

\* What the strict guard lets through.
LEMMA GuardedFacts ==
    ASSUME NEW q
    PROVE  Guarded(q) # NoDecision =>
           /\ Guarded(q).lane \in {"local", "blocked"} /\ ~Guarded(q).routed
           /\ Guarded(q).lane = "local" =>
                \E p \in Providers : p.name = Guarded(q).provider /\ p.quota = "local"
<1> DEFINE d == SelectLaneAndProvider(q)
<1> SUFFICES ASSUME Guarded(q) # NoDecision
             PROVE  /\ Guarded(q).lane \in {"local", "blocked"} /\ ~Guarded(q).routed
                    /\ Guarded(q).lane = "local" =>
                         \E p \in Providers : p.name = Guarded(q).provider /\ p.quota = "local"
  OBVIOUS
<1>2. d = NoDecision \/ d.routed = (d.lane = "paperclip" /\ Dispatcher)
  BY SelectionFacts DEF Decision
<1>3. Blocked.lane = "blocked" /\ ~Blocked.routed
  BY DEF Blocked, Decision
<1>4. CASE Guarded(q) = Blocked
  BY <1>3, <1>4
<1>5. CASE Guarded(q) # Blocked
  <2>1. /\ Guarded(q) = d /\ d.lane = "local"
        /\ \E p \in Providers : p.name = d.provider /\ p.quota = "local"
    BY <1>5, Zenon DEF Guarded
  <2> HIDE DEF d
  <2> QED BY <1>2, <2>1
<1> QED BY <1>4, <1>5

\* What the backlog decides on a task.
LEMMA TaskFacts ==
    ASSUME NEW i, NEW cands, NEW open
    PROVE  LET s == DecideTask(NormalizeTask(i), cands, open) IN
           /\ s.item = {i}
           /\ s.status = "selected" =>
                /\ i.privacy \notin {"private", "secret", "voice_auth"} /\ ~i.sensitive
                /\ i.privacy = "local_only" \/ i.local =>
                     \A c \in s.provider : c.quota = "local" /\ c.local_only
<1> DEFINE s == DecideTask(NormalizeTask(i), cands, open)
           t == NormalizeTask(i)
           local == t.local \/ t.cloud = FALSE
           able == {k \in DOMAIN cands : MayTake(cands[k], local) /\ cands[k].name \in open}
           sent == {cands[k] : k \in {k \in able : \A j \in able : k <= j}}
           no == [item |-> {t.item}, status |-> "skipped", provider |-> {}]
           yes == [item |-> {t.item}, status |-> "selected", provider |-> sent]
<1>1. /\ t.item = i
      /\ t.local = (i.local \/ i.privacy \in {"local_only", "private", "secret"})
      /\ t.sensitive = (i.sensitive \/ i.privacy \in {"private", "secret", "voice_auth", "enrollment", "enrollment_sample"})
  BY DEF NormalizeTask
<1>2. s = no \/ (s = yes /\ ~t.sensitive)
  BY Zenon DEF DecideTask
<1>3. no.item = {t.item} /\ no.status = "skipped"
  OBVIOUS
<1>4. yes.item = {t.item} /\ yes.provider = sent
  OBVIOUS
<1>5. local => \A c \in sent : c.quota = "local" /\ c.local_only
  BY Zenon DEF MayTake
<1>6. i.privacy = "local_only" \/ i.local => local
  BY <1>1, Zenon
<1> HIDE DEF s, t, local, able, sent, no, yes
<1> DEFINE good == /\ s.item = {i}
                   /\ s.status = "selected" =>
                       /\ i.privacy \notin {"private", "secret", "voice_auth"} /\ ~i.sensitive
                       /\ i.privacy = "local_only" \/ i.local =>
                            \A c \in s.provider : c.quota = "local" /\ c.local_only
<1>7. ASSUME s = no PROVE good
  BY <1>1, <1>3, <1>7
<1>8. ASSUME s = yes, ~t.sensitive PROVE good
  <2>1. i.privacy \notin {"private", "secret", "voice_auth"} /\ ~i.sensitive
    BY <1>1, <1>8, Zenon
  <2> QED BY <1>1, <1>4, <1>5, <1>6, <1>8, <2>1, Zenon
<1> QED BY <1>2, <1>7, <1>8 DEF s

LEMMA StrictStep ==
    ASSUME StrictStaysLocal, [Next]_vars
    PROVE  StrictStaysLocal'
<1>1. CASE \E q \in RouteRequests : Ask(q)
  BY <1>1 DEF Ask, StrictStaysLocal
<1>2. CASE \E q \in RouteRequests : Decide(q)
  <2>1. PICK q \in RouteRequests : Decide(q)
    BY <1>2
  <2>2. strict' = strict /\ decision' = IF strict THEN Guarded(q) ELSE SelectLaneAndProvider(q)
    BY <2>1 DEF Decide
  <2> QED BY <2>2, GuardedFacts, Zenon DEF StrictStaysLocal
<1>3. CASE RestartRouter
  BY <1>3 DEF RestartRouter, StrictStaysLocal
<1>4. CASE UNCHANGED <<strict, decision>>
  BY <1>4 DEF StrictStaysLocal
<1>5. Call \/ Work \/ PowerChange \/ BurnLoop \/ BurnDown \/ UNCHANGED vars => UNCHANGED <<strict, decision>>
  BY DEF Call, Work, PowerChange, BurnLoop, BurnDown, vars, routeVars
<1> QED BY <1>1, <1>2, <1>3, <1>4, <1>5 DEF Next

LEMMA BacklogStep ==
    ASSUME BacklogStaysPrivate, [Next]_vars
    PROVE  BacklogStaysPrivate'
<1>1. CASE BurnDown
  <2>1. PICK i \in Items, cands \in Plans :
          \E open \in SUBSET {cands[k].name : k \in DOMAIN cands} :
             selected' = DecideTask(NormalizeTask(i), cands, open)
    BY <1>1 DEF BurnDown
  <2>2. PICK open \in SUBSET {cands[k].name : k \in DOMAIN cands} :
             selected' = DecideTask(NormalizeTask(i), cands, open)
    BY <2>1
  <2>3. /\ selected'.item = {i}
        /\ selected'.status = "selected" =>
             /\ i.privacy \notin {"private", "secret", "voice_auth"} /\ ~i.sensitive
             /\ i.privacy = "local_only" \/ i.local =>
                  \A c \in selected'.provider : c.quota = "local" /\ c.local_only
    BY <2>2, TaskFacts
  <2>4. \A x \in selected'.item : x = i
    BY <2>3
  <2> QED BY <2>3, <2>4, Zenon DEF BacklogStaysPrivate
<1>2. CASE RestartRouter
  <2>1. selected' = NoSelection
    BY <1>2 DEF RestartRouter
  <2> QED BY <2>1 DEF NoSelection, BacklogStaysPrivate
<1>3. CASE selected' = selected
  BY <1>3 DEF BacklogStaysPrivate
<1>4. /\ \A q \in RouteRequests : Ask(q) \/ Decide(q) => selected' = selected
      /\ Call \/ Work \/ PowerChange \/ BurnLoop \/ UNCHANGED vars => selected' = selected
  BY DEF Ask, Decide, Call, Work, PowerChange, BurnLoop, vars, routeVars
<1> QED BY <1>1, <1>2, <1>3, <1>4 DEF Next

LEMMA JobsStep ==
    ASSUME JobsOK, [Next]_vars
    PROVE  JobsOK'
<1>1. CASE UNCHANGED jobVars
  BY <1>1 DEF jobVars, JobsOK, JobTypeOK, Used
<1>2. CASE Call
  <2>1. CASE UNCHANGED jobVars
    BY <1>1, <2>1
  <2>2. CASE \E p \in Payloads : Submit(BuildAgentJobRequest(p))
    <3>1. PICK p \in Payloads : Submit(BuildAgentJobRequest(p))
      BY <2>2
    <3>2. BuildAgentJobRequest(p).job \in Job
      BY JobAssumption DEF BuildAgentJobRequest
    <3> QED BY <3>1, <3>2, SubmitType
  <2> QED BY <1>2, <2>1, <2>2 DEF Call
<1>3. CASE \E q \in RouteRequests : Decide(q)
  <2>1. PICK q \in RouteRequests : Decide(q)
    BY <1>3
  <2>2. CASE UNCHANGED jobVars
    BY <1>1, <2>2
  <2>3. CASE \E j \in Job : Submit(BuildAgentJobRequest([q.payload EXCEPT !.job = j, !.mems = context]))
    <3>1. PICK j \in Job : Submit(BuildAgentJobRequest([q.payload EXCEPT !.job = j, !.mems = context]))
      BY <2>3
    <3> DEFINE p == [q.payload EXCEPT !.job = j, !.mems = context]
    <3>2. p.job = j
      BY RouteAssumption
    <3> HIDE DEF p
    <3>3. BuildAgentJobRequest(p).job = j
      BY <3>2 DEF BuildAgentJobRequest
    <3> QED BY <3>1, <3>3, SubmitType DEF p
  <2> QED BY <2>1, <2>2, <2>3, Zenon DEF Decide
<1>4. CASE Work
  BY <1>4, JobStepType DEF Work
<1>5. CASE RestartRouter
  <2>1. /\ jobs' = [j \in Job |-> 0] /\ recs' = [n \in Submission |-> NoRecord]
        /\ tasks' = [n \in Submission |-> NoTask]
    BY <1>5 DEF RestartRouter, Restart
  <2>2. 0 \in 0..MaxSubmissions
    BY JobAssumption
  <2>3. JobTypeOK'
    BY <2>1, <2>2 DEF JobTypeOK, NoRecord, NoTask
  <2> QED BY <2>1, <2>3 DEF JobsOK, Used, NoRecord, NoTask, Busy
<1>6. (\E q \in RouteRequests : Ask(q)) \/ PowerChange \/ BurnLoop \/ BurnDown \/ UNCHANGED vars
        => UNCHANGED jobVars
  BY Zenon DEF Ask, PowerChange, BurnLoop, BurnDown, vars
<1> QED BY <1>1, <1>2, <1>3, <1>4, <1>5, <1>6, Zenon DEF Next

LEMMA OthersStep ==
    ASSUME OthersOK, [Next]_vars
    PROVE  OthersOK'
<1>1. CASE UNCHANGED <<asking, burn, selected>>
  BY <1>1 DEF OthersOK
<1>2. ASSUME NEW q \in RouteRequests, Ask(q) \/ Decide(q)
      PROVE  OthersOK'
  BY <1>2 DEF Ask, Decide, OthersOK
<1>3. CASE RestartRouter
  BY <1>3 DEF RestartRouter, OthersOK, NoSelection
<1>4. CASE BurnLoop
  BY <1>4 DEF BurnLoop, OthersOK
<1>5. CASE BurnDown
  <2>1. \A t, cands, open : DecideTask(t, cands, open).status \in {"selected", "skipped"}
    BY DEF DecideTask
  <2>2. selected'.status \in {"selected", "skipped"}
    BY <1>5, <2>1 DEF BurnDown
  <2> QED BY <1>5, <2>2 DEF BurnDown, OthersOK
<1>6. Call \/ Work \/ PowerChange \/ UNCHANGED vars => UNCHANGED <<asking, burn, selected>>
  BY DEF Call, Work, PowerChange, vars, routeVars
<1> QED BY <1>1, <1>2, <1>3, <1>4, <1>5, <1>6 DEF Next

-----------------------------------------------------------------------------
LEMMA InitHolds ==
    ASSUME Init
    PROVE  IInv
<1>0. PrivateStaysLocal
  BY DEF Init, PrivateStaysLocal, StrictStaysLocal, BacklogStaysPrivate, NoSelection
<1>00. JobsOK /\ OthersOK
  BY NoJobs DEF Init, JobInit, OthersOK, NoSelection
<1>1. Cardinality({}) = 0 /\ IsFiniteSet({}) /\ 0 <= Limit
  BY FS_EmptySet, MemoryAssumption
<1>2. CASE MemoryInit
  <2>1. DOMAIN rows = {}
    BY <1>2 DEF MemoryInit
  <2>2. StoreOK
    BY <1>1, <1>2, <2>1 DEF MemoryInit, StoreOK, MemoryTypeOK, CreditedOnce
  <2> QED BY <1>0, <1>00, <2>2 DEF IInv
<1>3. CASE \E r \in Ingests : MemoryWith(r)
  <2>1. PICK r \in Ingests : MemoryWith(r)
    BY <1>3
  <2>2. /\ DOMAIN rows = {r.content.mem} /\ rows[r.content.mem] = NewRow(r.content)
        /\ ingested = {Event(r)} /\ lifecycle = {} /\ outcomes = {} /\ context = {}
    BY <2>1 DEF MemoryWith
  <2>3. MemoryTypeOK
    BY <1>1, <2>2, NewRowFacts DEF MemoryTypeOK
  <2>4. \A m : CreditsOf(m) = 0
    <3> TAKE m
    <3>1. CreditEvents(m) = {} /\ OutcomeEvents(m) = {}
      BY <2>2 DEF CreditEvents, OutcomeEvents
    <3>2. CreditsOf(m) = Cardinality(CreditEvents(m)) + Cardinality(OutcomeEvents(m))
      BY <1>1, <2>2, Counted
    <3> QED BY <1>1, <3>1, <3>2
  <2>5. CreditedOnce /\ \A e \in ingested : Brought(e) \in Nat
    <3>1. /\ NewRow(r.content).payload.reuses + NewRow(r.content).payload.contradictions
               = Brought(Event(r))
          /\ Brought(Event(r)) \in Nat /\ Event(r).content.mem = r.content.mem
      BY NewRowFacts
    <3>2. Brought(Event(r)) <= Brought(Event(r)) + 0
      BY <3>1
    <3> QED BY <2>2, <2>4, <3>1, <3>2 DEF CreditedOnce
  <2> QED BY <1>0, <1>00, <1>1, <2>2, <2>3, <2>5 DEF StoreOK, IInv
<1> QED BY <1>2, <1>3 DEF Init

\* Everything above together, for every behaviour of the endpoints.
THEOREM InvariantHolds == Spec => []IInv
<1>1. ASSUME IInv, [Next]_vars
      PROVE  IInv'
  BY <1>1, StoreStep, JobsStep, OthersStep, StrictStep, BacklogStep DEF IInv, PrivateStaysLocal
<1> QED BY InitHolds, <1>1, PTL DEF Spec

\* memory_store.py, agent_jobs.py: the columns and the payload of a memory keep
\* their types and bounds, an identifier stands for one event of a table, a
\* context has no more matches than its limit, and an identifier and a task of
\* the jobs always refer to a record there is.
THEOREM TypeCorrect == Spec => []TypeOK
<1>1. IInv => TypeOK
  BY DEF IInv, StoreOK, JobsOK, OthersOK, TypeOK
<1> QED BY InvariantHolds, <1>1, PTL

\* record_outcome, record_lifecycle: however events are repeated, resubmitted and
\* interleaved, and across restarts of the router, what a memory's counters gain
\* on top of those it was ingested with never exceeds the number of distinct
\* events about it.
THEOREM CreditedOncePerEvent == Spec => []CreditedOnce
<1>1. IInv => CreditedOnce
  BY DEF IInv, StoreOK
<1> QED BY InvariantHolds, <1>1, PTL

\* strict_assistx_routes.py, backlog_scheduler.py: under the guard only enabled
\* local runtimes are chosen, and the backlog keeps private tasks out and local
\* tasks local, for any providers, tasks and plans.
THEOREM PrivateWorkStaysLocal == Spec => []PrivateStaysLocal
<1>1. IInv => PrivateStaysLocal
  BY DEF IInv
<1> QED BY InvariantHolds, <1>1, PTL

\* ingest: only an event the store has never seen reactivates a memory.
THEOREM NothingResurrected == Spec => NoResurrection
<1> DEFINE step == \A m \in DOMAIN rows :
               ~rows[m].payload.active /\ rows'[m].payload.active => ingested' # ingested
<1>1. ASSUME IInv, [Next]_vars
      PROVE  [step]_memoryVars
  BY <1>1, StoreStep DEF IInv
<1>2. NoResurrection <=> [][step]_memoryVars
  BY DEF NoResurrection
<1> HIDE DEF step
<1> QED BY InvariantHolds, <1>1, <1>2, PTL DEF Spec
=============================================================================

---------------------------- MODULE LoadBalancer ----------------------------
(***************************************************************************)
(* How concurrent requests spread over the nodes (policy.py): plan orders  *)
(* the candidates of every stage by load and rotates them, and reserves    *)
(* the first one of each stage; _execute (main.py) gives the reservation   *)
(* of a stage back when it comes to the stage, and marks a node in flight  *)
(* while it is being tried.                                                *)
(*                                                                         *)
(* The candidates of a stage are of one capability tier.  plan runs        *)
(* without an await, and so does each stretch of _execute between two      *)
(* awaits.  Candidates that tie in load and last use come in any order     *)
(* (latency and score decide in the code).                                 *)
(***************************************************************************)
EXTENDS Integers, Sequences, FiniteSets, SequencesExt

CONSTANTS Owner,      \* provider/model pairs
          Call,       \* requests
          ExactModel, \* the requests that name a model
          MaxStages,  \* stages of a policy profile
          Period      \* the rotation counter matters modulo this

ASSUME BalancerAssumption ==
    /\ IsFiniteSet(Owner) /\ Owner # {} /\ IsFiniteSet(Call)
    /\ ExactModel \subseteq Call
    /\ MaxStages \in Nat \ {0} /\ Period \in Nat \ {0}

VARIABLES
    inflight, planned,  \* [Owner -> Nat], _lb_inflight and _lb_planned
    recent,   \* the owners used so far, least recently used first (_lb_last_used)
    rr,       \* _rr_counter modulo Period
    progress, \* where a request is
    stages,   \* the stages a request has not come to, each a sequence of owners
    tries,    \* candidates of its stage it has not tried
    trying    \* the candidate it is trying: a sequence of at most one

balancerVars == <<inflight, planned, recent, rr, progress, stages, tries, trying>>

Plans == UNION {[1..n -> Owner] : n \in 1..Cardinality(Owner)}

BalancerTypeOK ==
    /\ inflight \in [Owner -> 0..Cardinality(Call)]
    /\ planned \in [Owner -> 0..(MaxStages * Cardinality(Call))]
    /\ recent \in Seq(Owner)
    /\ rr \in 0..(Period - 1)
    /\ progress \in [Call -> {"new", "stage", "next", "trying", "done", "cancelled"}]
    /\ \A q \in Call : Len(stages[q]) <= MaxStages
    /\ \A q \in Call : \A i \in DOMAIN stages[q] : stages[q][i] \in Plans
    /\ tries \in [Call -> Plans \cup {<<>>}]
    /\ trying \in [Call -> {<<>>} \cup {<<o>> : o \in Owner}]

BalancerInit ==
    /\ inflight = [o \in Owner |-> 0]
    /\ planned = [o \in Owner |-> 0]
    /\ recent = <<>>
    /\ rr = 0
    /\ progress = [q \in Call |-> "new"]
    /\ stages = [q \in Call |-> <<>>]
    /\ tries = [q \in Call |-> <<>>]
    /\ trying = [q \in Call |-> <<>>]

-----------------------------------------------------------------------------
Load(o) == inflight[o] + planned[o]

\* The place of an owner in the order of last use; 0 if it was never used.
LastUsed(o) == IF \E i \in DOMAIN recent : recent[i] = o
               THEN CHOOSE i \in DOMAIN recent : recent[i] = o ELSE 0

SortedBefore(o, p) ==
    Load(o) < Load(p) \/ (Load(o) = Load(p) /\ LastUsed(o) < LastUsed(p))

\* The orders the sort in _balance_candidates can produce.
Sorted(S) ==
    {s \in SetToSeqs(S) :
        \A i, j \in DOMAIN s : i < j => ~SortedBefore(s[j], s[i])}

Rotate(s, n) == SubSeq(s, n + 1, Len(s)) \o SubSeq(s, 1, n)

\* _balance_candidates for the k-th stage of a plan: sort, then rotate by the
\* counter, which every stage with candidates advances.
Balanced(S, k) == {Rotate(s, (rr + k) % Len(s)) : s \in Sorted(S)}

Tops(p) == [o \in Owner |-> Cardinality({i \in DOMAIN p : p[i][1] = o})]

\* plan, for a request that leaves the choice to the router: every stage is
\* ordered before any candidate is reserved.
Plan(q) ==
    /\ progress[q] = "new" /\ q \notin ExactModel
    /\ \E n \in 1..MaxStages : \E e \in [1..n -> SUBSET Owner \ {{}}] :
       \E p \in [1..n -> Plans] :
          /\ \A k \in 1..n : p[k] \in Balanced(e[k], k)
          /\ stages' = [stages EXCEPT ![q] = p]
          /\ planned' = [o \in Owner |-> planned[o] + Tops(p)[o]]
          /\ rr' = (rr + n) % Period
    /\ progress' = [progress EXCEPT ![q] = "stage"]
    /\ UNCHANGED <<inflight, recent, tries, trying>>

\* _exact_model_plan: one stage with one candidate, and no reservation.
PlanExact(q) ==
    /\ progress[q] = "new" /\ q \in ExactModel
    /\ \E o \in Owner : stages' = [stages EXCEPT ![q] = <<<<o>>>>]
    /\ progress' = [progress EXCEPT ![q] = "stage"]
    /\ UNCHANGED <<inflight, planned, recent, rr, tries, trying>>

\* mark_planned_end and mark_inflight_end.
Down(f, o) == [f EXCEPT ![o] = IF @ > 0 THEN @ - 1 ELSE 0]

\* Mutant: the reservation is kept.
StartStage_KeepsReservation(q) ==
    /\ progress[q] = "stage" /\ stages[q] # <<>>
    /\ tries' = [tries EXCEPT ![q] = Head(stages[q])]
    /\ stages' = [stages EXCEPT ![q] = Tail(@)]
    /\ progress' = [progress EXCEPT ![q] = "next"]
    /\ UNCHANGED <<inflight, planned, recent, rr, trying>>

\* _execute comes to the next stage and gives its reservation back.
StartStage(q) ==
    /\ progress[q] = "stage" /\ stages[q] # <<>>
    /\ planned' = Down(planned, Head(stages[q])[1])
    /\ tries' = [tries EXCEPT ![q] = Head(stages[q])]
    /\ stages' = [stages EXCEPT ![q] = Tail(@)]
    /\ progress' = [progress EXCEPT ![q] = "next"]
    /\ UNCHANGED <<inflight, recent, rr, trying>>

Touch(o) == recent' = Append(SelectSeq(recent, LAMBDA p : p # o), o)

\* The next candidate is allowed, its circuit closed, its quota reserved.
Try(q) ==
    /\ progress[q] = "next" /\ tries[q] # <<>>
    /\ trying' = [trying EXCEPT ![q] = <<Head(tries[q])>>]
    /\ tries' = [tries EXCEPT ![q] = Tail(@)]
    /\ inflight' = [inflight EXCEPT ![Head(tries[q])] = @ + 1]
    /\ Touch(Head(tries[q]))
    /\ progress' = [progress EXCEPT ![q] = "trying"]
    /\ UNCHANGED <<planned, rr, stages>>

\* The next candidate is passed over.
Skip(q) ==
    /\ progress[q] = "next" /\ tries[q] # <<>>
    /\ tries' = [tries EXCEPT ![q] = Tail(@)]
    /\ UNCHANGED <<inflight, planned, recent, rr, progress, stages, trying>>

\* The attempt succeeds, and the request is served, or it fails.
TryEnds(q, ok) ==
    /\ progress[q] = "trying"
    /\ inflight' = Down(inflight, trying[q][1])
    /\ trying' = [trying EXCEPT ![q] = <<>>]
    /\ progress' = [progress EXCEPT ![q] = IF ok THEN "done" ELSE "next"]
    /\ UNCHANGED <<planned, recent, rr, stages, tries>>

\* The attempt succeeds, its usage cannot be recorded, and the handler of the
\* error takes the mark away once more and goes on to the next candidate.
UsageFails(q) ==
    /\ progress[q] = "trying"
    /\ inflight' = Down(Down(inflight, trying[q][1]), trying[q][1])
    /\ trying' = [trying EXCEPT ![q] = <<>>]
    /\ progress' = [progress EXCEPT ![q] = "next"]
    /\ UNCHANGED <<planned, recent, rr, stages, tries>>

StageExhausted(q) ==
    /\ progress[q] = "next" /\ tries[q] = <<>>
    /\ progress' = [progress EXCEPT ![q] = "stage"]
    /\ UNCHANGED <<inflight, planned, recent, rr, stages, tries, trying>>

\* No stage is left (503), or the deadline or the attempt limit is reached (504).
GiveUp(q) ==
    /\ \/ progress[q] = "stage" /\ stages[q] = <<>>
       \/ progress[q] = "next" /\ tries[q] # <<>>
    /\ progress' = [progress EXCEPT ![q] = "done"]
    /\ UNCHANGED <<inflight, planned, recent, rr, stages, tries, trying>>

\* The task is cancelled in one of its awaits: no handler catches that.
Cancel(q) ==
    /\ progress[q] \in {"next", "trying"}
    /\ progress' = [progress EXCEPT ![q] = "cancelled"]
    /\ UNCHANGED <<inflight, planned, recent, rr, stages, tries, trying>>

BalancerNext == \E q \in Call :
    \/ Plan(q) \/ PlanExact(q)
    \/ StartStage(q) \/ Try(q) \/ Skip(q)
    \/ \E ok \in BOOLEAN : TryEnds(q, ok)
    \/ UsageFails(q) \/ Cancel(q)
    \/ StageExhausted(q) \/ GiveUp(q)

BalancerSpec == BalancerInit /\ [][BalancerNext]_balancerVars

-----------------------------------------------------------------------------
\* The stages not yet started, of all requests, that have o reserved.
Reserved(o) ==
    {x \in (Call \ ExactModel) \X (1..MaxStages) :
        x[2] \in DOMAIN stages[x[1]] /\ stages[x[1]][x[2]][1] = o}

\* The requests that are trying o, or were cancelled on it.
Attempts(o) == {q \in Call : trying[q] = <<o>>}

\* Every mark on a node is accounted for: a plan-time mark by a stage that
\* _execute has not come to, an in-flight mark by an attempt in progress or one
\* that was cancelled on the node, whichever attempts fail, are skipped or
\* cancelled and whoever else releases what.  So the only marks that stay for
\* good are those of the stages a request never reached and of cancelled tries.
MarksAccountedFor ==
    \A o \in Owner :
        /\ planned[o] <= Cardinality(Reserved(o))
        /\ inflight[o] <= Cardinality(Attempts(o))
=============================================================================

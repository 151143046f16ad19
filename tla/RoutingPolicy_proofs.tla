------------------------ MODULE RoutingPolicy_proofs ------------------------
(***************************************************************************)
(* Proofs about the choice of providers: for any providers, profiles and   *)
(* bodies, and whatever changes between plans, no plan uses a node whose   *)
(* fresh power report forbids it, but for an exact model.                  *)
(***************************************************************************)
EXTENDS RoutingPolicy, SequenceTheorems, TLAPS

StageSet == [purpose : Purpose, cands : SUBSET Provider]
Known == [seen : {TRUE}, ok : BOOLEAN, loaded : BOOLEAN,
          low : BOOLEAN, power : PowerReports]

LEMMA EntryKinds ==
    /\ Entries = {None} \cup Known
    /\ None.seen = FALSE /\ \A e \in Known : e.seen = TRUE
BY DEF Entries, Known, None

-----------------------------------------------------------------------------
\* A stamped entry says what the report says and is an entry of the map still.
LEMMA StampFacts ==
    ASSUME NEW e \in Known, NEW r \in PowerReports
    PROVE  PowerTierApply(e, r) \in Known /\ PowerTierApply(e, r).power = r
<1>1. CASE r = "survive"
  <2>1. PowerTierApply(e, r) = [e EXCEPT !.power = r, !.ok = FALSE, !.loaded = FALSE, !.low = TRUE]
    BY <1>1 DEF PowerTierApply
  <2> QED BY <2>1 DEF Known
<1>2. CASE r # "survive"
  <2>1. PowerTierApply(e, r) = [e EXCEPT !.power = r]
    BY <1>2 DEF PowerTierApply
  <2> QED BY <2>1 DEF Known
<1> QED BY <1>1, <1>2

\* Before a plan every provider whose node has a fresh report carries it.
LEMMA PolicyTierFacts ==
    ASSUME NEW h \in [Provider -> Entries], report \in [Provider -> PowerReports]
    PROVE  /\ ApplyPowerTiersToPolicy(h) \in [Provider -> Entries]
           /\ \A p \in Provider : report[p] # "none" =>
                /\ ApplyPowerTiersToPolicy(h)[p].seen
                /\ ApplyPowerTiersToPolicy(h)[p].power = report[p]
<1> DEFINE new == [seen |-> TRUE, ok |-> TRUE, loaded |-> FALSE,
                   low |-> FALSE, power |-> "none"]
           stamped(p) == PowerTierApply(IF h[p].seen THEN h[p] ELSE new, report[p])
<1>1. new \in Known
  BY DEF Known, PowerReports
<1>2. ASSUME NEW p \in Provider
      PROVE  stamped(p) \in Known /\ stamped(p).power = report[p]
  <2>1. h[p] \in Entries /\ report[p] \in PowerReports
    OBVIOUS
  <2>2. (IF h[p].seen THEN h[p] ELSE new) \in Known
    BY <1>1, <2>1, EntryKinds
  <2> HIDE DEF new
  <2> QED BY <2>1, <2>2, StampFacts
<1>3. \A p \in Provider :
        ApplyPowerTiersToPolicy(h)[p] = IF report[p] = "none" THEN h[p] ELSE stamped(p)
  BY DEF ApplyPowerTiersToPolicy
<1> HIDE DEF stamped
<1>4. \A p \in Provider : ApplyPowerTiersToPolicy(h)[p] \in Entries
  BY <1>2, <1>3, EntryKinds
<1>5. /\ ApplyPowerTiersToPolicy(h) = [p \in Provider |-> ApplyPowerTiersToPolicy(h)[p]]
  BY DEF ApplyPowerTiersToPolicy
<1>6. ApplyPowerTiersToPolicy(h) \in [Provider -> Entries]
  BY <1>4, <1>5
<1> QED BY <1>2, <1>3, <1>6, EntryKinds

-----------------------------------------------------------------------------
\* What is in a plan: a candidate is eligible for the purpose of its stage, by
\* the health map the plan was made with, or it is the model asked for and
\* eligible for no purpose in particular.
LEMMA PlanFacts ==
    ASSUME NEW q, NEW h, NEW p \in Plans(q, h)
    PROVE  /\ p \in Seq(StageSet)
           /\ \A i \in DOMAIN p : \A c \in p[i].cands :
                \/ q.model = Traits[c].alias /\ Eligible(c, q, "none", h)
                \/ Eligible(c, q, p[i].purpose, h)
<1>1. CASE ExactMatches(q, h) # {}
  <2>1. PICK c \in ExactMatches(q, h) : p = <<[purpose |-> "final", cands |-> {c}]>>
    BY <1>1 DEF Plans
  <2>2. c \in Provider /\ q.model = Traits[c].alias /\ Eligible(c, q, "none", h)
    BY DEF ExactMatches
  <2>3. [purpose |-> "final", cands |-> {c}] \in StageSet
    BY <2>2 DEF StageSet, Purpose
  <2>4. p \in Seq(StageSet)
    BY <2>1, <2>3
  <2>5. DOMAIN p = {1} /\ p[1].cands = {c}
    BY <2>1
  <2> QED BY <2>2, <2>4, <2>5
<1>2. CASE ExactMatches(q, h) = {}
  <2> DEFINE st == ProfileStages(ClassifyProfile(q))
  <2>1. PICK n \in Nat : DOMAIN st = 1..n /\ \A i \in 1..n : st[i].purpose \in Purpose
    <3>1. CASE ClassifyProfile(q) \in DOMAIN Stages
      BY <3>1, RoutingAssumption DEF ProfileStages, Purpose
    <3>2. CASE ClassifyProfile(q) \notin DOMAIN Stages
      <4>1. st = <<[purpose |-> "final", classes |-> {"local"}, caps |-> {"chat"}]>>
        BY <3>2 DEF ProfileStages
      <4> HIDE DEF st
      <4>2. DOMAIN st = 1..1 /\ st[1].purpose = "final"
        BY <4>1
      <4> QED BY <4>2 DEF Purpose
    <3> QED BY <3>1, <3>2
  <2>2. p = [i \in DOMAIN st |-> BuildStage(st[i], q, h)]
    BY <1>2 DEF Plans
  <2> HIDE DEF st
  <2>3. ASSUME NEW i \in DOMAIN st
        PROVE  /\ BuildStage(st[i], q, h) \in StageSet
               /\ BuildStage(st[i], q, h).purpose = st[i].purpose
               /\ \A c \in BuildStage(st[i], q, h).cands : Eligible(c, q, st[i].purpose, h)
    <3> DEFINE cands == {c \in Provider \ held :
                            /\ Eligible(c, q, st[i].purpose, h)
                            /\ st[i].classes # {} => Traits[c].class \in st[i].classes
                            /\ Required(st[i].caps, q) \subseteq Traits[c].caps}
    <3>1. BuildStage(st[i], q, h) = [purpose |-> st[i].purpose, cands |-> BenchmarkOrder(cands, q)]
      BY Zenon DEF BuildStage
    <3>2. BenchmarkOrder(cands, q) \subseteq cands
      <4> HIDE DEF cands
      <4> QED BY DEF BenchmarkOrder
    <3>3. cands \subseteq Provider /\ \A c \in cands : Eligible(c, q, st[i].purpose, h)
      OBVIOUS
    <3>4. st[i].purpose \in Purpose
      BY <2>1
    <3> HIDE DEF cands
    <3>5. BenchmarkOrder(cands, q) \in SUBSET Provider
      BY <3>2, <3>3
    <3>6. /\ BuildStage(st[i], q, h).purpose = st[i].purpose
          /\ BuildStage(st[i], q, h).cands = BenchmarkOrder(cands, q)
      BY <3>1
    <3>7. BuildStage(st[i], q, h) \in StageSet
      BY <3>1, <3>4, <3>5 DEF StageSet
    <3> QED BY <3>2, <3>3, <3>6, <3>7
  <2>5. p \in Seq(StageSet)
    BY <2>1, <2>2, <2>3
  <2>6. DOMAIN p = DOMAIN st /\ \A i \in DOMAIN st : p[i] = BuildStage(st[i], q, h)
    BY <2>2
  <2> QED BY <2>3, <2>5, <2>6
<1> QED BY <1>1, <1>2

-----------------------------------------------------------------------------
LEMMA TypeInitial ==
    ASSUME Init
    PROVE  TypeOK
<1>1. None \in Entries /\ "none" \in PowerReports
  BY DEF Entries, PowerReports
<1>2. FirstView \in Views /\ 0 \in 0..MaxChanges
  BY RoutingAssumption DEF Views
<1>3. plan \in Seq(StageSet)
  BY DEF Init
<1> QED BY <1>1, <1>2, <1>3 DEF Init, TypeOK, StageSet

LEMMA SurroundingsType ==
    ASSUME TypeOK, Surroundings
    PROVE  TypeOK'
<1>1. MaxChanges \in Nat
  BY RoutingAssumption
<1>2. Change => changes' \in 0..MaxChanges
  BY <1>1 DEF Change, TypeOK
<1>3. ASSUME NEW p \in Provider, NEW r \in PowerReports, Reported(p, r)
      PROVE  TypeOK'
  BY <1>2, <1>3 DEF Reported, TypeOK, request
<1>4. ASSUME NEW p \in Provider, ReportExpires(p)
      PROVE  TypeOK'
  <2>1. "none" \in PowerReports
    BY DEF PowerReports
  <2> QED BY <1>2, <1>4, <2>1 DEF ReportExpires, TypeOK, request
<1>5. ASSUME NEW p \in Provider, Hold(p)
      PROVE  TypeOK'
  BY <1>2, <1>5 DEF Hold, TypeOK, request
<1>6. ASSUME NEW p \in Provider, NEW v \in {"local", "free_api", "blocked"}, NEW saved \in BOOLEAN,
             RefreshContext(p, v, saved)
      PROVE  TypeOK'
  <2>1. [ctx EXCEPT ![p] = v] \in Views
    BY DEF TypeOK, Views
  <2> QED BY <1>2, <1>6, <2>1 DEF RefreshContext, TypeOK, request
<1> QED BY <1>3, <1>4, <1>5, <1>6 DEF Surroundings

\* A stage stays a stage when a candidate is taken from it.
LEMMA WithoutFacts ==
    ASSUME NEW pl \in Seq(StageSet), pl # <<>>, NEW p
    PROVE  Without(pl, p) \in Seq(StageSet)
<1>1. 1 \in DOMAIN pl /\ pl[1] \in StageSet
  BY EmptySeq, LenProperties
<1>2. [pl[1] EXCEPT !.cands = @ \ {p}] \in StageSet
  BY <1>1 DEF StageSet
<1>3. Without(pl, p) = [pl EXCEPT ![1] = [pl[1] EXCEPT !.cands = @ \ {p}]]
  BY DEF Without
<1> QED BY <1>1, <1>2, <1>3, ExceptSeq

LEMMA RequestsType ==
    ASSUME TypeOK, Requests
    PROVE  TypeOK'
<1>1. plan \in Seq(StageSet) /\ <<>> \in Seq(StageSet)
  BY DEF TypeOK, StageSet
<1>2. ASSUME plan' \in Seq(StageSet), trying' \subseteq Provider,
             pc' \in {"idle", "new", "next", "trying"}, changes' = changes, UNCHANGED surroundings
      PROVE  TypeOK'
  BY <1>2 DEF TypeOK, StageSet, surroundings
<1>3. ASSUME NEW b \in Bodies, Arrive(b)
      PROVE  TypeOK'
  BY <1>1, <1>2, <1>3 DEF Arrive, TypeOK
<1>4. CASE Execute
  <2>1. health' \in [Provider -> Entries]
    BY <1>4, PolicyTierFacts DEF Execute, TypeOK
  <2>2. plan' \in Seq(StageSet)
    BY <1>4, PlanFacts DEF Execute
  <2> QED BY <1>4, <2>1, <2>2 DEF Execute, TypeOK, StageSet
<1>5. ASSUME NEW p \in Provider, Try(p) \/ PassOver(p)
      PROVE  TypeOK'
  <2>1. plan' \in Seq(StageSet)
    BY <1>1, <1>5, WithoutFacts DEF Try, PassOver
  <2> QED BY <1>2, <1>5, <2>1 DEF Try, PassOver, TypeOK
<1>6. ASSUME NEW ok \in BOOLEAN, TryEnds(ok)
      PROVE  TypeOK'
  BY <1>1, <1>2, <1>6 DEF TryEnds, TypeOK
<1>7. CASE NextStage
  <2>1. plan' \in Seq(StageSet)
    BY <1>1, <1>7, HeadTailProperties DEF NextStage
  <2> QED BY <1>2, <1>7, <2>1 DEF NextStage, TypeOK
<1>8. CASE Refuse
  BY <1>1, <1>2, <1>8 DEF Refuse, TypeOK
<1> QED BY <1>3, <1>4, <1>5, <1>6, <1>7, <1>8 DEF Requests

LEMMA TypeStep ==
    ASSUME TypeOK, [Next]_vars
    PROVE  TypeOK'
<1>1. CASE UNCHANGED vars
  BY <1>1 DEF vars, TypeOK
<1> QED BY <1>1, SurroundingsType, RequestsType DEF Next

\* policy.py, main.py: contexts, health maps and plans keep their shape; above
\* all, an entry of the map always has the fields the power checks read.
THEOREM TypeCorrect == Spec => []TypeOK
BY TypeInitial, TypeStep, PTL DEF Spec

-----------------------------------------------------------------------------
\* A plan is made by _execute alone.
LEMMA OnlyExecutePlans ==
    ASSUME [Next]_vars, pc = "new", pc' = "next"
    PROVE  Execute
<1>1. /\ Surroundings => pc' = pc
      /\ UNCHANGED vars => pc' = pc
  BY DEF Surroundings, Reported, ReportExpires, Hold, RefreshContext, request, vars
<1>2. Requests
  BY <1>1 DEF Next
<1> QED BY <1>2 DEF Requests, Arrive, Try, PassOver, TryEnds, NextStage, Refuse

\* _apply_power_tiers_to_policy: a plan made while a node's survive report is
\* fresh does not use the node, and one made while it is down to its essential
\* model uses it in a quality stage only if the request names the model, whatever
\* the shared map held before.
THEOREM PowerIsRespected == Spec => PowerRespected
<1> DEFINE step == pc = "new" /\ pc' = "next" =>
                     \A i \in DOMAIN plan' : \A p \in plan'[i].cands : ListedAs[p] = p =>
                        /\ report[p] # "survive"
                        /\ report[p] = "essential" /\ plan'[i].purpose \in Quality =>
                              req.model = Traits[p].alias
<1>1. ASSUME TypeOK, [Next]_vars
      PROVE  [step]_vars
  <2>1. ASSUME pc = "new", pc' = "next", NEW i \in DOMAIN plan', NEW p \in plan'[i].cands,
               ListedAs[p] = p
        PROVE  /\ report[p] # "survive"
               /\ report[p] = "essential" /\ plan'[i].purpose \in Quality =>
                     req.model = Traits[p].alias
    <3>1. health' = ApplyPowerTiersToPolicy(health) /\ plan' \in Plans(req, health')
      BY <1>1, <2>1, OnlyExecutePlans DEF Execute
    <3>2. plan' \in Seq(StageSet)
      BY <3>1, PlanFacts
    <3>3. \/ req.model = Traits[p].alias /\ Eligible(p, req, "none", health')
          \/ Eligible(p, req, plan'[i].purpose, health')
      BY <2>1, <3>1, PlanFacts
    <3>4. p \in Provider
      <4>1. plan'[i] \in StageSet
        BY <2>1, <3>2
      <4> QED BY <2>1, <4>1 DEF StageSet
    <3>5. report[p] # "none" => health'[p].seen /\ health'[p].power = report[p]
      BY <1>1, <3>1, <3>4, PolicyTierFacts DEF TypeOK
    <3>6. Lookup(health', p) = health'[p]
      BY <2>1, <3>4 DEF Lookup
    <3>7. ASSUME report[p] # "none", NEW purpose, Eligible(p, req, purpose, health')
          PROVE  report[p] # "survive" /\ (report[p] = "essential" => purpose \notin Quality)
      <4>1. /\ health'[p].power # "survive"
            /\ health'[p].power = "essential" => purpose \notin Quality
        BY <3>5, <3>6, <3>7, Zenon DEF Eligible, PowerBlocked
      <4> QED BY <3>5, <3>7, <4>1
    <3> QED BY <3>3, <3>7
  <2> QED BY <2>1
<1>2. PowerRespected <=> [][step]_vars
  BY DEF PowerRespected
<1> HIDE DEF step
<1> QED BY <1>1, <1>2, TypeCorrect, PTL DEF Spec
=============================================================================

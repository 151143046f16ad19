---------------------------- MODULE Fleet_proofs ----------------------------
(***************************************************************************)
(* Proofs about the fleet.  The models in it: for any providers, reports,  *)
(* lifetimes and responses, roles are earned, a failing load is backed off *)
(* from and a context never goes back to an older signal.  The loadout     *)
(* builder: for any fleet and any number of runs, interleaved and killed   *)
(* anywhere, the graph shows the whole of one snapshot, the report is that *)
(* of the current one, and a collapse of the fleet replaces it only on     *)
(* request.                                                                *)
(***************************************************************************)
EXTENDS FleetModels, FleetLoadouts, FiniteSetTheorems, WellFoundedInduction, TLAPS

\* A non-empty set of natural numbers has a least element.
LEMMA LeastNat ==
    ASSUME NEW T \in SUBSET Nat, T # {}
    PROVE  \E i \in T : \A j \in T : i <= j
<1> DEFINE R == {p \in Nat \X Nat : p[1] < p[2]}
<1>1. IsWellFoundedOn(R, Nat)
  BY NatLessThanWellFounded DEF OpToRel
<1>2. \A i, j \in Nat : <<j, i>> \in R <=> j < i
  OBVIOUS
<1> HIDE DEF R
<1>3. PICK i \in T : \A j \in T : ~(<<j, i>> \in R)
  BY <1>1, WFMin
<1>4. \A j \in T : ~(j < i)
  BY <1>2, <1>3
<1>5. \A j \in T : i <= j
  BY <1>4
<1> QED BY <1>5

\* Min of a set of natural numbers is one of them.
LEMMA MinFacts ==
    ASSUME NEW T \in SUBSET Nat, T # {}
    PROVE  Min(T) \in T
BY LeastNat DEF Min

\* A non-empty set of integers with an upper bound has a greatest element.
LEMMA MaxFacts ==
    ASSUME NEW T \in SUBSET Int, T # {}, NEW b \in Int, \A x \in T : x <= b
    PROVE  Max(T) \in T /\ \A x \in T : Max(T) >= x
<1> DEFINE D == {b - x : x \in T}
<1>1. D \in SUBSET Nat /\ D # {}
  <2>1. \A x \in T : b - x \in Nat
    OBVIOUS
  <2>2. PICK x \in T : TRUE
    OBVIOUS
  <2>3. b - x \in D
    OBVIOUS
  <2> QED BY <2>1, <2>3
<1>2. PICK i \in D : \A j \in D : i <= j
  <2> HIDE DEF D
  <2> QED BY <1>1, LeastNat
<1>3. PICK m \in T : i = b - m
  BY <1>2
<1>4. ASSUME NEW x \in T PROVE m >= x
  <2>1. b - x \in D
    OBVIOUS
  <2>2. b - m <= b - x
    BY <1>2, <1>3, <2>1
  <2> QED BY <2>2
<1> HIDE DEF D
<1>5. \E y \in T : \A x \in T : y >= x
  BY <1>4
<1> QED BY <1>5 DEF Max

-----------------------------------------------------------------------------
\* A response that shows no failure has content of its own, in the right field,
\* in time and to the end.
LEMMA DerivedFacts ==
    ASSUME NEW r \in Response
    PROVE  /\ DerivedMode(r) = "none" =>
                 r.content /\ ~r.wrong_field /\ ~r.timed_out /\ r.finish # "length"
           /\ r.timed_out => DerivedMode(r) = "timeout"
           /\ (~r.timed_out /\ r.finish # "length" /\ ~r.wrong_field
                 /\ ~r.content /\ ~r.reasoning) => DerivedMode(r) = "empty_usable_content"
BY DEF DerivedMode, Response

\* The row a response becomes.
LEMMA RowFacts ==
    ASSUME NEW r \in Response
    PROVE  LET built == EvidenceFromResponse(r)
               row == NormalizeEvidence(built)
           IN  /\ built \in Response /\ row \in Response
               /\ row.failure_mode = built.failure_mode /\ row.level = r.level
               /\ row.succeeded = (row.failure_mode = "none")
               /\ built.named = r.named /\ built.level = r.level
               /\ row.succeeded /\ r.reached # "no" => row.reached = "yes"
               /\ row.failure_mode =
                    IF DerivedMode(r) # "none" THEN DerivedMode(r) ELSE r.failure_mode
<1> DEFINE mode == IF DerivedMode(r) # "none" THEN DerivedMode(r) ELSE r.failure_mode
           built == EvidenceFromResponse(r)
           row == NormalizeEvidence(built)
<1>1. /\ DerivedMode(r) \in FailureModes \cup {"none"}
      /\ r.failure_mode \in FailureModes \cup {"none", "unknown"}
  BY DEF DerivedMode, Response, FailureModes
<1>2. mode \in FailureModes \cup {"none", "unknown"}
  BY <1>1
<1>3. built = [r EXCEPT !.failure_mode = mode, !.succeeded = (mode = "none")]
  BY DEF EvidenceFromResponse
<1> HIDE DEF mode, built
<1>4. /\ built \in Response /\ built.failure_mode = mode /\ built.succeeded = (mode = "none")
      /\ built.named = r.named /\ built.level = r.level /\ built.reached = r.reached
  BY <1>2, <1>3 DEF Response
<1>5. /\ row \in Response /\ row.failure_mode = built.failure_mode
      /\ row.succeeded = built.succeeded /\ row.level = built.level
      /\ built.succeeded /\ r.reached # "no" => row.reached = "yes"
  <2> DEFINE c == IF built.confidence < 0 THEN 0
                  ELSE IF built.confidence > 1000 THEN 1000 ELSE built.confidence
             or(said, default) == IF said # "unset" THEN said ELSE IF default THEN "yes" ELSE "no"
             e == or(built.reached, built.succeeded \/ built.first_token)
             v == or(built.visible, TRUE)
             m == or(built.model_loaded, built.succeeded)
  <2>1. row = [built EXCEPT !.confidence = c, !.reached = e, !.visible = v, !.model_loaded = m]
    BY DEF NormalizeEvidence
  <2>2. c \in Int /\ {e, v, m} \subseteq {"yes", "no", "unset"}
    BY <1>4 DEF Response
  <2>3. built.succeeded /\ r.reached # "no" => e = "yes"
    BY <1>4 DEF Response
  <2> HIDE DEF c, e, v, m, or, row
  <2> QED BY <1>4, <2>1, <2>2, <2>3 DEF Response
<1> HIDE DEF row
<1>6. QED BY <1>4, <1>5 DEF mode, row, built

\* A normalised row that passed.
LEMMA PassedFacts ==
    ASSUME NEW row \in Response
    PROVE  /\ Passed(row) => row.failure_mode = "none" /\ row.succeeded
           /\ row.failure_mode # "none" => ClassifyFailure(row) = row.failure_mode
BY DEF Passed, ClassifyFailure, Response

\* The rows of the report are those of the responses that are acceptable.
LEMMA RowsFacts ==
    ASSUME responses \in Seq(Responses)
    PROVE  /\ DOMAIN Rows = {j \in DOMAIN responses : Acceptable(EvidenceFromResponse(responses[j]))}
           /\ \A k \in DOMAIN Rows : Rows[k] = NormalizeEvidence(EvidenceFromResponse(responses[k]))
           /\ \A k \in DOMAIN responses : responses[k] \in Response
           /\ \A k \in DOMAIN Rows : Rows[k] \in Response /\ Rows[k].level \in Levels
<1>1. \A k \in DOMAIN responses : responses[k] \in Response
  BY EvidenceAssumption
<1>2. /\ DOMAIN Rows = {j \in DOMAIN responses : Acceptable(EvidenceFromResponse(responses[j]))}
      /\ \A k \in DOMAIN Rows : Rows[k] = NormalizeEvidence(EvidenceFromResponse(responses[k]))
  BY DEF Rows
<1>3. ASSUME NEW k \in DOMAIN Rows PROVE Rows[k] \in Response /\ Rows[k].level \in Levels
  <2>1. k \in DOMAIN responses /\ Acceptable(EvidenceFromResponse(responses[k]))
    BY <1>2
  <2>2. /\ Rows[k] \in Response /\ Rows[k].level = responses[k].level
        /\ EvidenceFromResponse(responses[k]).level = responses[k].level
    BY <1>1, <1>2, <2>1, RowFacts
  <2> QED BY <2>1, <2>2 DEF Acceptable
<1> QED BY <1>1, <1>2, <1>3

\* The highest level of a set of rows is the level of one of them, if it is one.
LEMMA HighestFacts ==
    ASSUME NEW S, \A row \in S : row.level \in Levels
    PROVE  /\ HighestLevel(S) \in Int
           /\ HighestLevel(S) >= 0 => \E row \in S : row.level = HighestLevel(S)
           /\ \A row \in S : HighestLevel(S) >= row.level
<1> DEFINE T == {NoLevel} \cup {row.level : row \in S}
<1>1. T \in SUBSET Int /\ T # {} /\ \A x \in T : x <= 4
  BY DEF NoLevel, Levels
<1>2. HighestLevel(S) = Max(T)
  BY DEF HighestLevel
<1>3. \A row \in S : row.level \in T
  OBVIOUS
<1> HIDE DEF T
<1>4. Max(T) \in T /\ \A x \in T : Max(T) >= x
  BY <1>1, MaxFacts, 4 \in Int
<1>5. Max(T) = NoLevel \/ \E row \in S : row.level = Max(T)
  BY <1>4 DEF T
<1>6. Max(T) >= 0 => \E row \in S : row.level = Max(T)
  BY <1>5 DEF NoLevel
<1>7. Max(T) \in Int /\ \A row \in S : Max(T) >= row.level
  BY <1>1, <1>3, <1>4
<1> QED BY <1>2, <1>6, <1>7

\* Why a model has the role it has.
LEMMA RoleFacts ==
    ASSUME NEW evidence, DeriveRole(evidence) # "UNQUALIFIED"
    PROVE  /\ DeriveRole(evidence) \in {"CODE_QUALIFIED", "REVIEW_QUALIFIED", "SCOUT_QUALIFIED", "SUMMARY_ONLY"}
           /\ MeetsFloor(DeriveRole(evidence), EvidenceStats(evidence))
<1> DEFINE met == {k \in DOMAIN Roles : MeetsFloor(Roles[k], EvidenceStats(evidence))}
<1>1. DeriveRole(evidence) = IF met = {} THEN "UNQUALIFIED" ELSE Roles[Min(met)]
  BY DEF DeriveRole
<1>2. DOMAIN Roles = 1..4
  BY DEF Roles
<1>3. met \in SUBSET Nat /\ met # {}
  BY <1>1, <1>2
<1>4. Min(met) \in met
  <2> HIDE DEF met
  <2> QED BY <1>3, MinFacts
<1>5. Min(met) \in 1..4 /\ MeetsFloor(Roles[Min(met)], EvidenceStats(evidence))
  BY <1>2, <1>4
<1>6. DeriveRole(evidence) = Roles[Min(met)]
  BY <1>1, <1>3
<1> HIDE DEF met
<1>7. \A k \in 1..4 : Roles[k] \in {"CODE_QUALIFIED", "REVIEW_QUALIFIED", "SCOUT_QUALIFIED", "SUMMARY_ONLY"}
  BY DEF Roles
<1> QED BY <1>5, <1>6, <1>7

\* No role is given below the first level.
LEMMA FloorFacts ==
    ASSUME NEW role \in {"CODE_QUALIFIED", "REVIEW_QUALIFIED", "SCOUT_QUALIFIED", "SUMMARY_ONLY"}
    PROVE  /\ QualityFloors(role).level \in 1..4
           /\ role \in {"CODE_QUALIFIED", "REVIEW_QUALIFIED"} =>
                 {"empty_usable_content", "timeout"} \subseteq BlockingModes(role)
BY DEF QualityFloors, BlockingModes

\* What the report says follows from the responses.
LEMMA ResponsesEarn ==
    ASSUME responses \in Seq(Responses)
    PROVE  RoleIsEarned
<1> DEFINE role == DeriveRole(Rows)
           clean(r) == r.content /\ ~r.wrong_field /\ ~r.timed_out /\ r.finish # "length" /\ r.failure_mode = "none"
           empty(r) == ~r.content /\ ~r.reasoning /\ r.finish # "length" /\ ~r.wrong_field
<1>0. SUFFICES ASSUME role # "UNQUALIFIED"
               PROVE  /\ \E k \in DOMAIN responses :
                            clean(responses[k]) /\ responses[k].named
                              /\ responses[k].level >= QualityFloors(role).level
                      /\ role \in {"CODE_QUALIFIED", "REVIEW_QUALIFIED"} =>
                            \A k \in DOMAIN responses :
                                Acceptable(responses[k]) => ~responses[k].timed_out /\ ~empty(responses[k])
                      /\ Capabilities(Rows).protocol
                      /\ \A l \in NextTarget(Rows) : l > QualityFloors(role).level
                      /\ EndpointStatus(Rows) = "UNREACHABLE" =>
                            \A j \in DOMAIN responses :
                                clean(responses[j]) /\ Acceptable(responses[j]) => responses[j].reached = "no"
  BY DEF RoleIsEarned, Entry
<1> HIDE DEF role
<1>1. /\ role \in {"CODE_QUALIFIED", "REVIEW_QUALIFIED", "SCOUT_QUALIFIED", "SUMMARY_ONLY"}
      /\ MeetsFloor(role, EvidenceStats(Rows))
  BY <1>0, RoleFacts DEF role
<1>2. /\ QualityFloors(role).level \in 1..4
      /\ role \in {"CODE_QUALIFIED", "REVIEW_QUALIFIED"} =>
            {"empty_usable_content", "timeout"} \subseteq BlockingModes(role)
  BY <1>1, FloorFacts
<1>3. /\ HighestLevel(Passing(Rows)) >= QualityFloors(role).level
      /\ ({ClassifyFailure(Rows[k]) : k \in DOMAIN Rows} \ {"none"}) \cap BlockingModes(role) = {}
  BY <1>1 DEF MeetsFloor, EvidenceStats
<1>4. /\ DOMAIN Rows = {j \in DOMAIN responses : Acceptable(EvidenceFromResponse(responses[j]))}
      /\ \A k \in DOMAIN Rows : Rows[k] = NormalizeEvidence(EvidenceFromResponse(responses[k]))
      /\ \A k \in DOMAIN responses : responses[k] \in Response
      /\ \A k \in DOMAIN Rows : Rows[k] \in Response /\ Rows[k].level \in Levels
  BY RowsFacts
<1>5. \A row \in Passing(Rows) : row.level \in Levels
  BY <1>4 DEF Passing
<1>6. PICK best \in Passing(Rows) : best.level >= QualityFloors(role).level
  BY <1>2, <1>3, <1>5, HighestFacts
<1>7. PICK k \in DOMAIN Rows : best = Rows[k] /\ Passed(Rows[k])
  BY DEF Passing
<1>8. /\ k \in DOMAIN responses /\ responses[k] \in Response
      /\ Acceptable(EvidenceFromResponse(responses[k]))
      /\ best \in Response /\ best = NormalizeEvidence(EvidenceFromResponse(responses[k]))
  BY <1>4, <1>7
<1>9. best.failure_mode = "none" /\ best.succeeded
  BY <1>7, <1>8, PassedFacts
<1>10. /\ best.level = responses[k].level
       /\ EvidenceFromResponse(responses[k]).named = responses[k].named
       /\ best.failure_mode = IF DerivedMode(responses[k]) # "none" THEN DerivedMode(responses[k])
                              ELSE responses[k].failure_mode
  BY <1>8, RowFacts
<1>11. clean(responses[k]) /\ responses[k].named /\ responses[k].level >= QualityFloors(role).level
  <2>1. DerivedMode(responses[k]) = "none" /\ responses[k].failure_mode = "none"
    BY <1>9, <1>10
  <2>2. responses[k].named
    BY <1>8, <1>10 DEF Acceptable
  <2>3. clean(responses[k])
    BY <1>8, <2>1, DerivedFacts
  <2> HIDE DEF clean
  <2> QED BY <1>6, <1>10, <2>2, <2>3
<1>12. ASSUME role \in {"CODE_QUALIFIED", "REVIEW_QUALIFIED"},
              NEW j \in DOMAIN responses, Acceptable(responses[j]),
              responses[j].timed_out \/ empty(responses[j])
       PROVE  FALSE
  <2> DEFINE r == responses[j]
             mode == DerivedMode(r)
  <2>1. r \in Response
    BY <1>4
  <2>2. mode \in {"timeout", "empty_usable_content"}
    BY <1>12, <2>1, DerivedFacts DEF Response
  <2>3. /\ EvidenceFromResponse(r).named = r.named /\ EvidenceFromResponse(r).level = r.level
        /\ NormalizeEvidence(EvidenceFromResponse(r)) \in Response
        /\ NormalizeEvidence(EvidenceFromResponse(r)).failure_mode = mode
        /\ EvidenceFromResponse(r).failure_mode = mode
    <3>1. mode # "none"
      BY <2>2
    <3> HIDE DEF r, mode
    <3> QED BY <2>1, <3>1, RowFacts DEF mode
  <2>4. Acceptable(EvidenceFromResponse(r))
    BY <1>12, <2>2, <2>3 DEF Acceptable, FailureModes
  <2>5. j \in DOMAIN Rows /\ Rows[j] = NormalizeEvidence(EvidenceFromResponse(r))
    BY <1>4, <2>4
  <2> HIDE DEF mode, r
  <2>6. Rows[j] \in Response /\ Rows[j].failure_mode = mode /\ mode # "none"
    BY <2>2, <2>3, <2>5
  <2>7. ClassifyFailure(Rows[j]) = mode
    BY <2>6, PassedFacts
  <2>8. mode \in {ClassifyFailure(Rows[x]) : x \in DOMAIN Rows} \ {"none"}
    BY <2>5, <2>6, <2>7
  <2>9. mode \in BlockingModes(role)
    BY <1>2, <1>12, <2>2
  <2> QED BY <1>3, <2>8, <2>9
<1>13. best \in Having(Rows, "succeeded", TRUE)
  <2>1. best["succeeded"] = TRUE
    BY <1>8, <1>9 DEF Response
  <2> QED BY <1>7, <2>1 DEF Having
<1> DEFINE top == HighestLevel(Having(Rows, "succeeded", TRUE))
<1>14. top \in Int /\ top >= best.level /\ best.level \in Int
  <2>1. \A row \in Having(Rows, "succeeded", TRUE) : row.level \in Levels
    BY <1>4 DEF Having
  <2> DEFINE S == Having(Rows, "succeeded", TRUE)
  <2>2. best.level \in Int
    BY <1>4, <1>7 DEF Levels
  <2> HIDE DEF S
  <2>3. HighestLevel(S) \in Int /\ \A row \in S : HighestLevel(S) >= row.level
    BY <2>1, HighestFacts DEF S
  <2> QED BY <1>13, <2>2, <2>3 DEF S
<1> HIDE DEF top
<1>15. top >= QualityFloors(role).level
  BY <1>2, <1>6, <1>14
<1>16. Capabilities(Rows).protocol
  <2>1. Capabilities(Rows).protocol = (top >= 0)
    BY DEF Capabilities, top
  <2>2. top >= 0
    BY <1>2, <1>14, <1>15
  <2> QED BY <2>1, <2>2, Zenon
<1>17. \A l \in NextTarget(Rows) : l > QualityFloors(role).level
  <2>1. \A l \in NextTarget(Rows) : l = top + 1
    BY DEF NextTarget, top
  <2> QED BY <1>2, <1>14, <1>15, <2>1
<1>18. ASSUME NEW j \in DOMAIN responses, clean(responses[j]), Acceptable(responses[j]),
              responses[j].reached # "no"
       PROVE  EndpointStatus(Rows) # "UNREACHABLE"
  <2> PICK r : r = responses[j]
    OBVIOUS
  <2>1. /\ r \in Response /\ Acceptable(r) /\ r.reached # "no"
        /\ DerivedMode(r) = "none" /\ r.failure_mode = "none"
    BY <1>4, <1>18, DerivedFacts DEF DerivedMode
  <2>2. LET row == NormalizeEvidence(EvidenceFromResponse(r))
        IN  /\ row \in Response /\ row.failure_mode = "none"
            /\ row.succeeded /\ row.reached = "yes"
            /\ Acceptable(EvidenceFromResponse(r))
    BY <2>1, RowFacts DEF Acceptable
  <2>3. j \in DOMAIN Rows /\ Rows[j].reached = "yes"
    BY <1>4, <2>2
  <2> DEFINE T == {1} \cup {Rung(Rows[x]) : x \in DOMAIN Rows}
  <2>4. T \in SUBSET Int /\ T # {} /\ T \subseteq 1..4 /\ \A x \in T : x <= 4
    BY DEF Rung
  <2>5. Rung(Rows[j]) \in T /\ Rung(Rows[j]) >= 2
    BY <2>3 DEF Rung
  <2>6. EndpointStatus(Rows) = EndpointLadder[Max(T)]
    BY DEF EndpointStatus
  <2> HIDE DEF T
  <2>7. Max(T) \in T /\ \A x \in T : Max(T) >= x
    BY <2>4, MaxFacts, 4 \in Int
  <2>8. Max(T) \in 2..4
    <3> PICK c, m : c = Rung(Rows[j]) /\ m = Max(T)
      OBVIOUS
    <3>1. m \in 1..4 /\ c \in 1..4 /\ m >= c /\ c >= 2
      BY <2>4, <2>5, <2>7
    <3> QED BY <3>1
  <2> QED BY <2>6, <2>8 DEF EndpointLadder
<1> QED BY <1>8, <1>11, <1>12, <1>16, <1>17, <1>18

-----------------------------------------------------------------------------
\* A table of numbered rows with a last one.
Numbered(f) == DOMAIN f \subseteq Nat /\ \E b \in Nat : \A k \in DOMAIN f : k <= b

\* The rows of a numbered table are finitely many.
LEMMA NumberedFinite ==
    ASSUME NEW f, Numbered(f), NEW S \in SUBSET DOMAIN f
    PROVE  IsFiniteSet(S) /\ Cardinality(S) \in Nat
<1>1. PICK b \in Nat : \A k \in DOMAIN f : k <= b
  BY DEF Numbered
<1>2. S \subseteq 0..b
  BY <1>1 DEF Numbered
<1>3. IsFiniteSet(0..b)
  BY <1>1, FS_Interval
<1> QED BY <1>2, <1>3, FS_Subset, FS_CardinalityType

\* A new row gets a number that is free, above the others.
LEMMA AddRowFacts ==
    ASSUME NEW f, Numbered(f), NEW row
    PROVE  \E n \in Nat :
              /\ n \notin DOMAIN f
              /\ AddRow(f, row) = [k \in DOMAIN f \cup {n} |-> IF k = n THEN row ELSE f[k]]
              /\ Numbered(AddRow(f, row))
<1>1. PICK b \in Nat : \A k \in DOMAIN f : k <= b
  BY DEF Numbered
<1> DEFINE T == {0} \cup DOMAIN f
           n == Max(T) + 1
<1>2. T \in SUBSET Int /\ T # {} /\ \A x \in T : x <= b
  BY <1>1 DEF Numbered
<1>3. Max(T) \in T /\ \A x \in T : Max(T) >= x
  <2> HIDE DEF T
  <2> QED BY <1>1, <1>2, MaxFacts
<1>4. Max(T) \in Nat /\ \A k \in DOMAIN f : Max(T) >= k
  BY <1>3 DEF Numbered
<1>5. AddRow(f, row) = [k \in DOMAIN f \cup {n} |-> IF k = n THEN row ELSE f[k]]
  BY DEF AddRow
<1> HIDE DEF T
<1>6. n \in Nat /\ \A k \in DOMAIN f : k < n
  BY <1>4 DEF Numbered
<1> HIDE DEF n
<1>7. n \notin DOMAIN f
  BY <1>6
<1>8. DOMAIN AddRow(f, row) = DOMAIN f \cup {n}
  BY <1>5
<1>9. \A k \in DOMAIN f \cup {n} : k \in Nat /\ k <= n
  BY <1>6 DEF Numbered
<1>10. Numbered(AddRow(f, row))
  BY <1>6, <1>8, <1>9 DEF Numbered
<1> QED BY <1>5, <1>6, <1>7, <1>10

-----------------------------------------------------------------------------
\* The reconcilers whose load of x is under way.
Loaders(x) == {r \in Reconciler : plan[r].pc = "loading" /\ Head(plan[r].loads) = x}

PlanRecord(q) == \E a, b, c : q = [pc |-> a, loads |-> b, unloads |-> c]

\* Failed loads are numbered times, and every load under way is one more that
\* may fail.
PlacementInv ==
    /\ now \in Int
    /\ plan = [r \in Reconciler |-> plan[r]] /\ \A r \in Reconciler : PlanRecord(plan[r])
    /\ failures = [x \in Placement |-> failures[x]]
    /\ \A x \in Placement :
          /\ Numbered(failures[x])
          /\ \A k \in DOMAIN failures[x] : failures[x][k] \in Int
          /\ Cardinality(Recent(x)) + Cardinality(Loaders(x)) <= BackoffCount + Cardinality(Operator)

\* There is one reconciler more than calls of an operator.
LEMMA ReconcilerFacts ==
    ASSUME NEW S \in SUBSET Reconciler
    PROVE  /\ IsFiniteSet(S) /\ Cardinality(S) \in 0..(Cardinality(Operator) + 1)
           /\ Cardinality(Operator) \in Nat
<1>1. IsFiniteSet(Operator) /\ Cardinality(Operator) \in Nat
  BY PlacementAssumption, FS_CardinalityType
<1>2. IsFiniteSet(Reconciler) /\ Cardinality(Reconciler) = Cardinality(Operator) + 1
  <2>1. Reconciler = Operator \cup {"loop"} /\ "loop" \notin Operator
    BY PlacementAssumption DEF Reconciler
  <2> QED BY <1>1, <2>1, FS_AddElement
<1>4. /\ IsFiniteSet(S) /\ Cardinality(S) \in Nat
      /\ Cardinality(S) <= Cardinality(Reconciler)
  BY <1>2, FS_Subset, FS_CardinalityType
<1> QED BY <1>1, <1>2, <1>4

\* Each reconciler has one load under way at most, before and after a step.
LEMMA LoaderFacts ==
    ASSUME NEW x
    PROVE  /\ IsFiniteSet(Loaders(x)) /\ Cardinality(Loaders(x)) \in 0..(Cardinality(Operator) + 1)
           /\ IsFiniteSet(Loaders(x)') /\ Cardinality(Loaders(x)') \in 0..(Cardinality(Operator) + 1)
           /\ Cardinality(Operator) \in Nat
<1>1. Loaders(x) \subseteq Reconciler /\ Loaders(x)' \subseteq Reconciler
  BY DEF Loaders
<1> QED BY <1>1, ReconcilerFacts

\* A plan with one field changed.
LEMMA PlanFields ==
    ASSUME NEW q, PlanRecord(q), NEW b, NEW n
    PROVE  /\ n = [q EXCEPT !.loads = b] => PlanRecord(n) /\ n.pc = q.pc
           /\ n = [q EXCEPT !.unloads = b] => PlanRecord(n) /\ n.pc = q.pc
           /\ n = [q EXCEPT !.pc = b] => PlanRecord(n) /\ n.pc = b /\ n.loads = q.loads
<1>1. PICK u, v, w : q = [pc |-> u, loads |-> v, unloads |-> w]
  BY DEF PlanRecord
<1>2. q.pc = u /\ q.loads = v
  BY <1>1
<1>3. ASSUME n = [q EXCEPT !.loads = b] PROVE PlanRecord(n) /\ n.pc = q.pc
  <2>1. n = [pc |-> u, loads |-> b, unloads |-> w]
    BY <1>1, <1>3
  <2> QED BY <1>2, <2>1 DEF PlanRecord
<1>4. ASSUME n = [q EXCEPT !.unloads = b] PROVE PlanRecord(n) /\ n.pc = q.pc
  <2>1. n = [pc |-> u, loads |-> v, unloads |-> b]
    BY <1>1, <1>4
  <2> QED BY <1>2, <2>1 DEF PlanRecord
<1>5. ASSUME n = [q EXCEPT !.pc = b] PROVE PlanRecord(n) /\ n.pc = b /\ n.loads = q.loads
  <2>1. n = [pc |-> b, loads |-> v, unloads |-> w]
    BY <1>1, <1>5
  <2> QED BY <1>2, <2>1 DEF PlanRecord
<1> QED BY <1>3, <1>4, <1>5, Zenon

\* Taking an element out of a finite set leaves one element less.
LEMMA RemoveOne ==
    ASSUME NEW S, IsFiniteSet(S), NEW x \in S
    PROVE  IsFiniteSet(S \ {x}) /\ Cardinality(S \ {x}) = Cardinality(S) - 1
BY FS_RemoveElement

\* The recent failures are among the failures, and finitely many.
LEMMA RecentFacts ==
    ASSUME PlacementInv, NEW x \in Placement
    PROVE  /\ Recent(x) \subseteq DOMAIN failures[x]
           /\ IsFiniteSet(Recent(x)) /\ Cardinality(Recent(x)) \in Nat
<1>1. Recent(x) \subseteq DOMAIN failures[x]
  BY DEF Recent
<1> QED BY <1>1, NumberedFinite DEF PlacementInv

\* Time passes, and the controller rests: failures only grow old.
LEMMA PlacementRests ==
    ASSUME PlacementInv, UNCHANGED placementVars, now' = now \/ now' = now + 1
    PROVE  PlacementInv'
<1>1. plan' = plan /\ failures' = failures /\ now \in Int /\ now' \in Int
  BY DEF PlacementInv, placementVars
<1>2. ASSUME NEW x \in Placement
      PROVE  Cardinality(Recent(x)') + Cardinality(Loaders(x)') <= BackoffCount + Cardinality(Operator)
  <2>1. Recent(x)' \subseteq Recent(x)
    <3>1. \A k \in DOMAIN failures[x] : failures[x][k] \in Int
      BY DEF PlacementInv
    <3>2. \A t \in Int : now' - t < BackoffFor => now - t < BackoffFor
      <4>1. BackoffFor \in Int
        BY PlacementAssumption
      <4>2. CASE now' = now
        BY <4>2
      <4>3. CASE now' = now + 1
        BY <1>1, <4>1, <4>3
      <4> QED BY <4>2, <4>3
    <3> QED BY <1>1, <3>1, <3>2 DEF Recent
  <2>2. IsFiniteSet(Recent(x)) /\ Cardinality(Recent(x)) \in Nat
    BY RecentFacts
  <2>3. Cardinality(Recent(x)') <= Cardinality(Recent(x)) /\ Cardinality(Recent(x)') \in Nat
    BY <2>1, <2>2, FS_Subset, FS_CardinalityType
  <2>4. Loaders(x)' = Loaders(x)
    BY <1>1 DEF Loaders
  <2>5. Cardinality(Recent(x)) + Cardinality(Loaders(x)) <= BackoffCount + Cardinality(Operator)
    BY DEF PlacementInv
  <2>6. Cardinality(Loaders(x)) \in Nat /\ Cardinality(Operator) \in Nat
    BY LoaderFacts
  <2> QED BY <2>2, <2>3, <2>4, <2>5, <2>6, PlacementAssumption
<1> QED BY <1>1, <1>2 DEF PlacementInv

\* A step of one reconciler that changes no failure and starts no load.
LEMMA PlanMoves ==
    ASSUME PlacementInv, NEW r \in Reconciler, NEW q, PlanRecord(q), q.pc # "loading",
           plan' = [plan EXCEPT ![r] = q], UNCHANGED <<now, failures>>
    PROVE  PlacementInv'
<1>1. plan' = [y \in Reconciler |-> plan'[y]] /\ \A y \in Reconciler : PlanRecord(plan'[y])
  BY DEF PlacementInv
<1>2. ASSUME NEW x \in Placement
      PROVE  Cardinality(Recent(x)') + Cardinality(Loaders(x)') <= BackoffCount + Cardinality(Operator)
  <2>1. Recent(x)' = Recent(x)
    BY DEF Recent
  <2>2. Loaders(x)' \subseteq Loaders(x)
    BY DEF Loaders, PlacementInv
  <2>3. /\ IsFiniteSet(Loaders(x)) /\ Cardinality(Loaders(x)) \in Nat
        /\ Cardinality(Operator) \in Nat
    BY LoaderFacts
  <2>4. Cardinality(Loaders(x)') <= Cardinality(Loaders(x)) /\ Cardinality(Loaders(x)') \in Nat
    BY <2>2, <2>3, FS_Subset, FS_CardinalityType
  <2>5. Cardinality(Recent(x)) + Cardinality(Loaders(x)) <= BackoffCount + Cardinality(Operator)
    BY DEF PlacementInv
  <2>6. Cardinality(Recent(x)) \in Nat
    BY RecentFacts
  <2> QED BY <2>1, <2>3, <2>4, <2>5, <2>6, PlacementAssumption
<1> QED BY <1>1, <1>2 DEF PlacementInv

\* The failures that are too old are forgotten.
LEMMA PrunedFacts ==
    ASSUME PlacementInv, NEW x \in Placement, now' = now,
           failures' = [failures EXCEPT ![x] = RecentOnly(x)]
    PROVE  /\ failures' = [y \in Placement |-> failures'[y]]
           /\ \A y \in Placement :
                 /\ Recent(y)' = Recent(y) /\ Numbered(failures'[y])
                 /\ \A k \in DOMAIN failures'[y] : failures'[y][k] \in Int
<1>1. /\ failures' = [y \in Placement |-> failures'[y]]
      /\ failures'[x] = RecentOnly(x) /\ \A y \in Placement \ {x} : failures'[y] = failures[y]
  BY DEF PlacementInv
<1>2. DOMAIN failures'[x] = Recent(x) /\ \A k \in Recent(x) : failures'[x][k] = failures[x][k]
  BY <1>1 DEF RecentOnly
<1>3. Recent(x) \subseteq DOMAIN failures[x]
  BY DEF Recent
<1>4. Recent(x)' = Recent(x)
  BY <1>2, <1>3 DEF Recent
<1>5. Numbered(failures'[x]) /\ \A k \in DOMAIN failures'[x] : failures'[x][k] \in Int
  BY <1>2, <1>3 DEF PlacementInv, Numbered
<1>6. \A y \in Placement \ {x} : Recent(y)' = Recent(y)
  BY <1>1 DEF Recent
<1> QED BY <1>1, <1>4, <1>5, <1>6 DEF PlacementInv

\* A load is sent only by a reconciler that finds the placement out of backoff.
LEMMA LoadSent ==
    ASSUME PlacementInv, NEW r \in Reconciler, NextLoad(r)
    PROVE  PlacementInv'
<1> PICK x : x = Head(plan[r].loads)
  OBVIOUS
<1>1. /\ now' = now /\ plan[r].pc = "acting"
      /\ failures' = IF Touches(r, x[1]) THEN [failures EXCEPT ![x] = RecentOnly(x)] ELSE failures
      /\ plan' = IF ~Touches(r, x[1]) \/ InBackoff(x) THEN [plan EXCEPT ![r].loads = Tail(@)]
                                                      ELSE [plan EXCEPT ![r].pc = "loading"]
  BY DEF NextLoad
<1>2. /\ failures' = [y \in Placement |-> failures'[y]]
      /\ \A y \in Placement :
            /\ Recent(y)' = Recent(y) /\ Numbered(failures'[y])
            /\ \A k \in DOMAIN failures'[y] : failures'[y][k] \in Int
  <2>1. CASE failures' = failures
    BY <1>1, <2>1 DEF PlacementInv, Recent
  <2>2. CASE failures' = [failures EXCEPT ![x] = RecentOnly(x)] /\ x \in Placement
    BY <1>1, <2>2, PrunedFacts
  <2>3. CASE failures' = [failures EXCEPT ![x] = RecentOnly(x)] /\ x \notin Placement
    <3>1. failures' = failures
      BY <2>3 DEF PlacementInv
    <3> QED BY <2>1, <3>1
  <2> QED BY <1>1, <2>1, <2>2, <2>3
<1>3. /\ plan = [y \in Reconciler |-> plan[y]] /\ PlanRecord(plan[r])
      /\ \A y \in Reconciler : PlanRecord(plan[y])
  BY DEF PlacementInv
<1>4. ASSUME NEW y \in Placement
      PROVE  /\ Cardinality(Recent(y)) \in Nat /\ Cardinality(Loaders(y)) \in Nat
             /\ IsFiniteSet(Loaders(y)) /\ Cardinality(Loaders(y)') \in 0..(Cardinality(Operator) + 1)
             /\ Cardinality(Recent(y)) + Cardinality(Loaders(y)) <= BackoffCount + Cardinality(Operator)
             /\ BackoffCount \in Nat /\ Cardinality(Operator) \in Nat
  <2>1. Cardinality(Recent(y)) \in Nat
    BY RecentFacts
  <2>2. /\ IsFiniteSet(Loaders(y)) /\ Cardinality(Loaders(y)) \in Nat
        /\ Cardinality(Operator) \in Nat
    BY LoaderFacts
  <2>3. Cardinality(Loaders(y)') \in 0..(Cardinality(Operator) + 1)
    BY LoaderFacts
  <2> QED BY <2>1, <2>2, <2>3, PlacementAssumption DEF PlacementInv
<1>5. CASE plan' = [plan EXCEPT ![r].loads = Tail(@)]
  <2>1. plan' = [plan EXCEPT ![r] = [plan[r] EXCEPT !.loads = Tail(plan[r].loads)]]
    BY <1>5
  <2> PICK p, b : p = plan[r] /\ b = Tail(plan[r].loads)
    OBVIOUS
  <2> PICK q : q = [p EXCEPT !.loads = b]
    OBVIOUS
  <2>2. PlanRecord(q) /\ q.pc = "acting"
    <3>1. PlanRecord(p) /\ p.pc = "acting"
      BY <1>1, <1>3
    <3> QED BY ONLY <3>1, q = [p EXCEPT !.loads = b], PlanFields
  <2>3. plan' = [plan EXCEPT ![r] = q]
    BY <2>1
  <2>4. plan' = [y \in Reconciler |-> plan'[y]] /\ \A y \in Reconciler : PlanRecord(plan'[y])
    BY <1>3, <2>2, <2>3
  <2>5. ASSUME NEW y \in Placement
        PROVE  Cardinality(Recent(y)') + Cardinality(Loaders(y)') <= BackoffCount + Cardinality(Operator)
    <3>1. Loaders(y)' = Loaders(y)
      BY <1>1, <1>3, <2>2, <2>3 DEF Loaders
    <3> QED BY <1>2, <1>4, <3>1
  <2> QED BY <1>1, <1>2, <2>4, <2>5 DEF PlacementInv
<1>6. CASE plan' = [plan EXCEPT ![r].pc = "loading"] /\ ~InBackoff(x)
  <2> PICK p : p = plan[r]
    OBVIOUS
  <2> PICK q : q = [p EXCEPT !.pc = "loading"]
    OBVIOUS
  <2>1. plan' = [plan EXCEPT ![r] = q]
    BY <1>6
  <2>2. PlanRecord(q) /\ q.pc = "loading" /\ q.loads = plan[r].loads
    <3>1. PlanRecord(p)
      BY <1>3
    <3>2. PlanRecord(q) /\ q.pc = "loading" /\ q.loads = p.loads
      BY ONLY <3>1, q = [p EXCEPT !.pc = "loading"], PlanFields
    <3> QED BY <3>2
  <2>3. plan' = [y \in Reconciler |-> plan'[y]] /\ \A y \in Reconciler : PlanRecord(plan'[y])
    BY <1>3, <2>1, <2>2
  <2>4. ASSUME NEW y \in Placement
        PROVE  Cardinality(Recent(y)') + Cardinality(Loaders(y)') <= BackoffCount + Cardinality(Operator)
    <3>1. CASE y = x
      <4>1. Cardinality(Recent(y)) < BackoffCount
        BY <1>4, <1>6, <3>1 DEF InBackoff
      <4> QED BY <1>2, <1>4, <4>1
    <3>2. CASE y # x
      <4>1. Loaders(y)' = Loaders(y)
        BY <1>1, <1>3, <2>1, <2>2, <3>2 DEF Loaders
      <4> QED BY <1>2, <1>4, <4>1
    <3> QED BY <3>1, <3>2
  <2> QED BY <1>1, <1>2, <2>3, <2>4 DEF PlacementInv
<1> QED BY <1>1, <1>5, <1>6

\* A load that fails is one failure more and one load under way less.
LEMMA LoadDone ==
    ASSUME PlacementInv, NEW r \in Reconciler, NEW ok, NEW done, LoadEnds(r, ok, done)
    PROVE  PlacementInv'
<1> PICK x : x = Head(plan[r].loads)
  OBVIOUS
<1>1. /\ now' = now /\ plan[r].pc = "loading"
      /\ failures' = [failures EXCEPT ![x] = IF ok THEN <<>> ELSE AddRow(@, now)]
      /\ plan' = [plan EXCEPT ![r].pc = "acting", ![r].loads = Tail(@)]
  BY DEF LoadEnds
<1> PICK p, b, c : p = plan[r] /\ b = Tail(plan[r].loads) /\ c = "acting"
  OBVIOUS
<1> PICK q : q = [p EXCEPT !.pc = c, !.loads = b]
  OBVIOUS
<1>2. /\ plan = [y \in Reconciler |-> plan[y]] /\ PlanRecord(plan[r])
      /\ \A y \in Reconciler : PlanRecord(plan[y])
      /\ failures = [y \in Placement |-> failures[y]] /\ now \in Int
  BY DEF PlacementInv
<1>3. plan' = [plan EXCEPT ![r] = q] /\ q.pc = "acting" /\ PlanRecord(q)
  <2>1. PlanRecord(p)
    BY <1>2
  <2>3. q.pc = c /\ PlanRecord(q)
    <3>1. PICK u, v, w : p = [pc |-> u, loads |-> v, unloads |-> w]
      BY <2>1 DEF PlanRecord
    <3>2. q = [pc |-> c, loads |-> b, unloads |-> w]
      BY ONLY <3>1, q = [p EXCEPT !.pc = c, !.loads = b]
    <3> QED BY ONLY <3>2 DEF PlanRecord
  <2>2. plan' = [plan EXCEPT ![r] = q]
    <3>1. plan' = [plan EXCEPT ![r] = [plan[r] EXCEPT !.pc = "acting", !.loads = Tail(plan[r].loads)]]
      BY <1>1
    <3> QED BY <3>1
  <2> QED BY <2>2, <2>3
<1>4. plan' = [y \in Reconciler |-> plan'[y]] /\ \A y \in Reconciler : PlanRecord(plan'[y])
  BY <1>2, <1>3
<1>5. failures' = [y \in Placement |-> failures'[y]] /\ \A y \in Placement \ {x} : failures'[y] = failures[y]
  BY <1>1, <1>2
<1>6. /\ r \in Loaders(x)
      /\ \A y \in Placement : Loaders(y)' = Loaders(y) \ {r}
      /\ \A y \in Placement \ {x} : r \notin Loaders(y)
  BY <1>1, <1>2, <1>3 DEF Loaders
<1>7. ASSUME NEW y \in Placement
      PROVE  /\ Cardinality(Recent(y)) \in Nat /\ Cardinality(Loaders(y)) \in Nat
             /\ IsFiniteSet(Loaders(y)) /\ IsFiniteSet(Recent(y))
             /\ Cardinality(Recent(y)) + Cardinality(Loaders(y)) <= BackoffCount + Cardinality(Operator)
             /\ BackoffCount \in Nat /\ Cardinality(Operator) \in Nat
  <2>1. IsFiniteSet(Recent(y)) /\ Cardinality(Recent(y)) \in Nat
    BY RecentFacts
  <2>2. /\ IsFiniteSet(Loaders(y)) /\ Cardinality(Loaders(y)) \in Nat
        /\ Cardinality(Operator) \in Nat
    BY LoaderFacts
  <2> QED BY <2>1, <2>2, PlacementAssumption DEF PlacementInv
<1>8. ASSUME NEW y \in Placement \ {x}
      PROVE  /\ Numbered(failures'[y]) /\ \A k \in DOMAIN failures'[y] : failures'[y][k] \in Int
             /\ Cardinality(Recent(y)') + Cardinality(Loaders(y)') <= BackoffCount + Cardinality(Operator)
  <2>1. Recent(y)' = Recent(y)
    BY <1>1, <1>5 DEF Recent
  <2>2. Loaders(y)' = Loaders(y)
    BY <1>6
  <2> QED BY <1>5, <1>7, <2>1, <2>2 DEF PlacementInv
<1>9. ASSUME x \in Placement
      PROVE  /\ Numbered(failures'[x]) /\ \A k \in DOMAIN failures'[x] : failures'[x][k] \in Int
             /\ Cardinality(Recent(x)') + Cardinality(Loaders(x)') <= BackoffCount + Cardinality(Operator)
  <2>1. Cardinality(Loaders(x)') = Cardinality(Loaders(x)) - 1
    <3>1. IsFiniteSet(Loaders(x))
      BY <1>7, <1>9
    <3> QED BY <1>6, <1>9, <3>1, RemoveOne
  <2>2. CASE ok
    <3>1. failures'[x] = <<>>
      BY <1>1, <1>2, <1>9, <2>2
    <3>2. DOMAIN failures'[x] = {}
      BY <3>1
    <3>3. Recent(x)' = {}
      BY <3>2 DEF Recent
    <3>4. Cardinality(Recent(x)') = 0
      BY <3>3, FS_EmptySet
    <3>5. Numbered(failures'[x])
      BY <3>2 DEF Numbered
    <3> QED BY <1>7, <1>9, <2>1, <3>2, <3>4, <3>5
  <2>3. CASE ~ok
    <3>1. failures'[x] = AddRow(failures[x], now)
      BY <1>1, <1>2, <1>9, <2>3
    <3>2. Numbered(failures[x]) /\ \A k \in DOMAIN failures[x] : failures[x][k] \in Int
      BY <1>9 DEF PlacementInv
    <3>3. PICK n \in Nat :
             /\ n \notin DOMAIN failures[x]
             /\ AddRow(failures[x], now) =
                   [k \in DOMAIN failures[x] \cup {n} |-> IF k = n THEN now ELSE failures[x][k]]
             /\ Numbered(AddRow(failures[x], now))
      BY <3>2, AddRowFacts
    <3>4. /\ DOMAIN failures'[x] = DOMAIN failures[x] \cup {n}
          /\ \A k \in DOMAIN failures[x] : failures'[x][k] = failures[x][k]
          /\ failures'[x][n] = now
      BY <3>1, <3>3
    <3>5. Recent(x)' \subseteq Recent(x) \cup {n}
      BY <1>1, <3>4 DEF Recent
    <3>6. n \notin Recent(x)
      BY <3>3 DEF Recent
    <3>7. /\ IsFiniteSet(Recent(x) \cup {n})
          /\ Cardinality(Recent(x) \cup {n}) = Cardinality(Recent(x)) + 1
      BY <1>7, <1>9, <3>6, FS_AddElement
    <3>8. Cardinality(Recent(x)') <= Cardinality(Recent(x)) + 1 /\ Cardinality(Recent(x)') \in Nat
      BY <3>5, <3>7, FS_Subset, FS_CardinalityType
    <3>9. Numbered(failures'[x]) /\ \A k \in DOMAIN failures'[x] : failures'[x][k] \in Int
      BY <1>2, <3>1, <3>2, <3>3, <3>4
    <3> QED BY <1>7, <1>9, <2>1, <3>8, <3>9
  <2> QED BY <2>2, <2>3
<1> QED BY <1>1, <1>2, <1>4, <1>5, <1>8, <1>9 DEF PlacementInv

\* A controller that has just started.
Started == now \in Int /\ plan = [r \in Reconciler |-> NoPlan] /\ failures = [x \in Placement |-> <<>>]

\* A controller that has just started has no failures and no loads.
LEMMA PlacementStarts == Started => PlacementInv
<1> SUFFICES ASSUME Started PROVE PlacementInv
  OBVIOUS
<1>1. /\ plan = [r \in Reconciler |-> plan[r]]
      /\ \A r \in Reconciler : plan[r].pc = "idle" /\ PlanRecord(plan[r])
  BY DEF Started, NoPlan, PlanRecord
<1>2. ASSUME NEW x \in Placement
      PROVE  /\ DOMAIN failures[x] = {} /\ Numbered(failures[x])
             /\ Cardinality(Recent(x)) + Cardinality(Loaders(x)) <= BackoffCount + Cardinality(Operator)
  <2>1. DOMAIN failures[x] = {}
    BY DEF Started
  <2>2. Recent(x) = {} /\ Loaders(x) = {}
    BY <1>1, <2>1 DEF Recent, Loaders
  <2>3. Cardinality(Recent(x)) = 0 /\ Cardinality(Loaders(x)) = 0
    BY <2>2, FS_EmptySet
  <2>4. Numbered(failures[x])
    BY <2>1 DEF Numbered
  <2> QED BY <2>1, <2>3, <2>4, LoaderFacts, PlacementAssumption
<1>3. failures = [x \in Placement |-> failures[x]] /\ now \in Int
  BY DEF Started
<1> QED BY <1>1, <1>2, <1>3 DEF PlacementInv

\* Every step of a reconciler keeps the backoff.
LEMMA ReconcilerMoves ==
    ASSUME PlacementInv, NEW r \in Reconciler, ReconcileStep(r)
    PROVE  PlacementInv'
<1>1. CASE Reconcile(r)
  <2> PICK q : q = [pc |-> "acting", loads |-> LoadsNeeded, unloads |-> UnloadsNeeded]
    OBVIOUS
  <2>1. plan' = [plan EXCEPT ![r] = q] /\ UNCHANGED <<now, failures>>
    BY <1>1 DEF Reconcile
  <2>2. PlanRecord(q) /\ q.pc = "acting"
    BY DEF PlanRecord
  <2> QED BY <2>1, <2>2, PlanMoves
<1>2. CASE NextLoad(r)
  BY <1>2, LoadSent
<1>3. CASE Unload(r)
  <2>1. PICK x : plan' = [plan EXCEPT ![r].unloads = @ \ {x}]
    BY <1>3 DEF Unload
  <2> PICK p, b : p = plan[r] /\ b = plan[r].unloads \ {x}
    OBVIOUS
  <2> PICK q : q = [p EXCEPT !.unloads = b]
    OBVIOUS
  <2>2. PlanRecord(p) /\ p.pc = "acting" /\ UNCHANGED <<now, failures>>
    BY <1>3 DEF PlacementInv, Unload
  <2>3. PlanRecord(q) /\ q.pc = "acting"
    BY ONLY <2>2, q = [p EXCEPT !.unloads = b], PlanFields
  <2>4. plan' = [plan EXCEPT ![r] = q]
    BY <2>1
  <2> QED BY <2>2, <2>3, <2>4, PlanMoves
<1>4. CASE EndReconcile(r)
  <2>1. plan' = [plan EXCEPT ![r] = NoPlan] /\ UNCHANGED <<now, failures>>
    BY <1>4 DEF EndReconcile
  <2>2. PlanRecord(NoPlan) /\ NoPlan.pc = "idle"
    BY DEF PlanRecord, NoPlan
  <2> QED BY <2>1, <2>2, PlanMoves
<1>5. CASE \E ok, done \in BOOLEAN : LoadEnds(r, ok, done)
  BY <1>5, LoadDone
<1> QED BY <1>1, <1>2, <1>3, <1>4, <1>5 DEF ReconcileStep

\* So does everything else that happens around the endpoints.
LEMMA FleetKeepsBackoff ==
    ASSUME PlacementInv, NEW T, NEW R \in SUBSET Reconciler, FleetNext(T, R)
    PROVE  PlacementInv'
<1>1. CASE \E t \in T : RefreshStep(t) /\ UNCHANGED placementVars
  <2>1. PICK t \in T : RefreshStep(t) /\ UNCHANGED placementVars
    BY <1>1
  <2>2. StartRefresh(t) => now' = now
    BY DEF StartRefresh
  <2>3. ASSUME NEW p \in Provider, Answer(t, p) \/ Land(t, p) \/ SaveRefresh(t, p)
        PROVE  now' = now
    BY <2>3 DEF Answer, Land, SaveRefresh
  <2>4. FinishRefresh(t) => now' = now
    BY DEF FinishRefresh
  <2>5. now' = now
    BY <2>1, <2>2, <2>3, <2>4 DEF RefreshStep
  <2> QED BY <2>1, <2>5, PlacementRests
<1>2. CASE \E p \in Reachable : WorldChanges(p) /\ UNCHANGED placementVars
  <2>1. now' = now
    BY <1>2 DEF WorldChanges
  <2> QED BY <1>2, <2>1, PlacementRests
<1>3. CASE Tick /\ UNCHANGED placementVars
  BY <1>3, PlacementRests DEF Tick
<1>4. CASE \E r \in R : ReconcileStep(r)
  BY <1>4, ReconcilerMoves
<1>5. CASE Restart
  <2>1. Started'
    BY <1>5 DEF Restart, RestartModels, Started, PlacementInv
  <2>2. Started' => PlacementInv'
    BY PlacementStarts, PTL
  <2> QED BY <2>1, <2>2
<1> QED BY <1>1, <1>2, <1>3, <1>4, <1>5 DEF FleetNext

\* What happens to the signals takes one tick at most.
LEMMA SignalsKeepTime ==
    ASSUME SignalNext
    PROVE  now' = now \/ now' = now + 1
BY DEF SignalNext, HealthReport, RouteDecision, RouteExecution, SaveAndHydrate, ThreadSaves,
   SourceChanges, RefreshContext, RefreshTailnet, AskSignals, PruneTask, Tick

\* A model that cannot be loaded is not tried over and over: the controller's
\* backoff holds with the loop and any number of calls of /admin/load at work at
\* the same time, for any number of failures and any backoff time.  Each call
\* may add one failure to those after which the backoff begins, and no more.
THEOREM BackoffHolds == FleetSpec => []BackoffBounded
<1>1. FleetInit => PlacementInv
  <2> SUFFICES ASSUME FleetInit PROVE PlacementInv
    OBVIOUS
  <2>1. Started
    BY DEF FleetInit, SignalInit, PlacementInit, Started
  <2> QED BY <2>1, PlacementStarts
<1>2. PlacementInv /\ [FleetSteps]_fleetVars => PlacementInv'
  <2> SUFFICES ASSUME PlacementInv, [FleetSteps]_fleetVars PROVE PlacementInv'
    OBVIOUS
  <2>1. CASE FleetNext(Task, {})
    BY <2>1, FleetKeepsBackoff
  <2>2. CASE FleetNext({"poll"}, Reconciler)
    BY <2>2, FleetKeepsBackoff
  <2>5. CASE FleetNext({}, Reconciler)
    BY <2>5, FleetKeepsBackoff
  <2>3. CASE SignalNext /\ UNCHANGED placementVars
    BY <2>3, SignalsKeepTime, PlacementRests
  <2>4. CASE UNCHANGED <<now, placementVars>>
    BY <2>4, PlacementRests
  <2> QED BY <2>1, <2>2, <2>3, <2>4, <2>5 DEF FleetSteps, fleetVars, PollRaises
<1>3. PlacementInv => BackoffBounded
  <2> SUFFICES ASSUME PlacementInv, NEW x \in Placement
               PROVE  Cardinality(Recent(x)) <= BackoffCount + Cardinality(Operator)
    BY DEF BackoffBounded
  <2>1. Cardinality(Recent(x)) \in Nat
    BY RecentFacts
  <2>2. Cardinality(Loaders(x)) \in Nat /\ Cardinality(Operator) \in Nat
    BY LoaderFacts
  <2>3. Cardinality(Recent(x)) + Cardinality(Loaders(x)) <= BackoffCount + Cardinality(Operator)
    BY DEF PlacementInv
  <2> QED BY <2>1, <2>2, <2>3, PlacementAssumption
<1> QED BY <1>1, <1>2, <1>3, PTL DEF FleetSpec

\* The role a model is given in the fleet is earned by what it answered, in
\* whatever order the answers came and however many there were.
THEOREM RolesEarned == FleetSpec => []RoleIsEarned
<1> DEFINE Inv == responses \in Seq(Responses)
<1>1. FleetInit => Inv
  BY DEF FleetInit, EvidenceInit
<1>2. Inv /\ [FleetSteps]_fleetVars => Inv'
  BY DEF FleetSteps, fleetVars, Observe
<1>3. Inv => RoleIsEarned
  BY ResponsesEarn
<1> QED BY <1>1, <1>2, <1>3, PTL DEF FleetSpec

-----------------------------------------------------------------------------
\* A signal has the time it was observed and the time it expires.
Timed(s) == s.obs \in Int /\ s.exp \in Int

MapTimed(f) == \A id \in DOMAIN f : Timed(f[id])
RowsTimed(f) == Numbered(f) /\ DOMAIN f # {} /\ MapTimed(f)
TableTimed(table) == \A id \in DOMAIN table : RowsTimed(table[id])

\* The last row of a table.
LEMMA LastRow ==
    ASSUME NEW f, Numbered(f), DOMAIN f # {}
    PROVE  Max(DOMAIN f) \in DOMAIN f
<1>1. PICK b \in Nat : \A k \in DOMAIN f : k <= b
  BY DEF Numbered
<1>2. PICK T : T = DOMAIN f
  OBVIOUS
<1>3. T \in SUBSET Int /\ T # {} /\ \A x \in T : x <= b
  BY <1>1, <1>2 DEF Numbered
<1>4. Max(T) \in T
  BY <1>1, <1>3, MaxFacts
<1> QED BY <1>2, <1>4

\* Pruning loses rows, and changes none.
LEMMA PruneTimed ==
    ASSUME NEW table, TableTimed(table)
    PROVE  TableTimed(Prune(table))
<1> DEFINE alive(id) == {k \in DOMAIN table[id] : now < table[id][k].exp}
<1>1. /\ DOMAIN Prune(table) = {i \in DOMAIN table : alive(i) # {}}
      /\ \A id \in DOMAIN Prune(table) : Prune(table)[id] = [k \in alive(id) |-> table[id][k]]
  BY DEF Prune
<1>2. ASSUME NEW id \in DOMAIN Prune(table)
      PROVE  RowsTimed(Prune(table)[id])
  <2>1. RowsTimed(table[id]) /\ alive(id) # {}
    BY <1>1, <1>2 DEF TableTimed
  <2> PICK f, g, A : f = table[id] /\ g = Prune(table)[id] /\ A = alive(id)
    OBVIOUS
  <2>2. A \subseteq DOMAIN f /\ A # {} /\ g = [k \in A |-> f[k]]
    BY <1>1, <2>1
  <2>3. DOMAIN g = A /\ \A k \in A : g[k] = f[k]
    BY <2>2
  <2>4. Numbered(f) /\ \A k \in DOMAIN f : Timed(f[k])
    BY <2>1 DEF RowsTimed, MapTimed
  <2>5. Numbered(g)
    BY <2>2, <2>3, <2>4 DEF Numbered
  <2>6. MapTimed(g)
    BY <2>2, <2>3, <2>4 DEF MapTimed
  <2>7. RowsTimed(g)
    BY <2>2, <2>3, <2>5, <2>6 DEF RowsTimed
  <2> QED BY <2>7
<1> QED BY <1>2 DEF TableTimed

\* Saving a snapshot adds its signals to the table, and no others.
LEMMA SaveTimed ==
    ASSUME NEW table, TableTimed(table), NEW snapshot, MapTimed(snapshot)
    PROVE  TableTimed(SaveSnapshot(table, snapshot))
<1> PICK kept, new : kept = Prune(table) /\ new = {id \in DOMAIN snapshot : snapshot[id].active}
  OBVIOUS
<1> PICK saved : saved = SaveSnapshot(table, snapshot)
  OBVIOUS
<1>1. saved = [id \in DOMAIN kept \cup new |->
                  IF id \notin new THEN kept[id]
                  ELSE IF snapshot[id].exp = Forever \/ id \notin DOMAIN kept THEN <<snapshot[id]>>
                  ELSE AddRow(kept[id], snapshot[id])]
  BY DEF SaveSnapshot
<1>2. TableTimed(kept)
  BY PruneTimed
<1>3. ASSUME NEW id \in DOMAIN saved PROVE RowsTimed(saved[id])
  <2>1. CASE id \notin new
    <3>1. saved[id] = kept[id] /\ id \in DOMAIN kept
      BY <1>1, <2>1
    <3> QED BY <1>2, <3>1 DEF TableTimed
  <2>2. CASE id \in new /\ (snapshot[id].exp = Forever \/ id \notin DOMAIN kept)
    <3>1. saved[id] = <<snapshot[id]>> /\ Timed(snapshot[id])
      BY <1>1, <2>2 DEF MapTimed
    <3>2. DOMAIN <<snapshot[id]>> = {1} /\ <<snapshot[id]>>[1] = snapshot[id]
      OBVIOUS
    <3> PICK g : g = <<snapshot[id]>>
      OBVIOUS
    <3>3. DOMAIN g = {1} /\ Timed(g[1])
      BY <3>1, <3>2
    <3>4. Numbered(g)
      BY <3>3 DEF Numbered
    <3>5. RowsTimed(g)
      BY <3>3, <3>4 DEF RowsTimed, MapTimed
    <3> QED BY <3>1, <3>5
  <2>3. CASE id \in new /\ id \in DOMAIN kept /\ snapshot[id].exp # Forever
    <3>1. saved[id] = AddRow(kept[id], snapshot[id]) /\ Timed(snapshot[id]) /\ RowsTimed(kept[id])
      BY <1>1, <1>2, <2>3 DEF MapTimed, TableTimed
    <3> PICK f, row, g : f = kept[id] /\ row = snapshot[id] /\ g = AddRow(f, row)
      OBVIOUS
    <3>2. Numbered(f) /\ \A k \in DOMAIN f : Timed(f[k])
      BY <3>1 DEF RowsTimed, MapTimed
    <3>7. \E n \in Nat :
             /\ n \notin DOMAIN f
             /\ AddRow(f, row) = [k \in DOMAIN f \cup {n} |-> IF k = n THEN row ELSE f[k]]
             /\ Numbered(AddRow(f, row))
      BY ONLY <3>2, AddRowFacts
    <3>3. PICK n \in Nat :
             /\ g = [k \in DOMAIN f \cup {n} |-> IF k = n THEN row ELSE f[k]]
             /\ Numbered(g)
      BY <3>7, Zenon
    <3>4. /\ DOMAIN g = DOMAIN f \cup {n}
          /\ \A k \in DOMAIN g : g[k] = row \/ (k \in DOMAIN f /\ g[k] = f[k])
      <4>1. DOMAIN g = DOMAIN f \cup {n}
        BY <3>3
      <4>2. \A k \in DOMAIN f \cup {n} : g[k] = IF k = n THEN row ELSE f[k]
        BY <3>3
      <4> QED BY <4>1, <4>2
    <3>5. MapTimed(g)
      BY <3>1, <3>2, <3>4 DEF MapTimed
    <3>6. RowsTimed(g)
      BY <3>3, <3>4, <3>5 DEF RowsTimed
    <3> QED BY <3>1, <3>6
  <2> QED BY <2>1, <2>2, <2>3
<1> QED BY <1>3 DEF TableTimed

\* The latest signals are rows of the table.
LEMMA LatestTimed ==
    ASSUME NEW table, TableTimed(table)
    PROVE  MapTimed(ComputeLatest(table))
<1> PICK view : view = ComputeLatest(table)
  OBVIOUS
<1>1. \A id \in DOMAIN view : id \in DOMAIN table /\ view[id] = table[id][Max(DOMAIN table[id])]
  BY DEF ComputeLatest
<1>2. ASSUME NEW id \in DOMAIN table
      PROVE  Timed(table[id][Max(DOMAIN table[id])])
  <2> PICK f : f = table[id]
    OBVIOUS
  <2>1. RowsTimed(f)
    BY DEF TableTimed
  <2>2. Max(DOMAIN f) \in DOMAIN f
    BY <2>1, LastRow DEF RowsTimed
  <2>3. Timed(f[Max(DOMAIN f)])
    BY <2>1, <2>2 DEF RowsTimed, MapTimed
  <2> QED BY <2>3
<1> QED BY <1>1, <1>2 DEF MapTimed

\* A merged signal is the later of the two.
LEMMA MergeFacts ==
    ASSUME NEW f, NEW g
    PROVE  /\ DOMAIN MergeSignals(f, g) = DOMAIN f \cup DOMAIN g
           /\ \A id \in DOMAIN f \cup DOMAIN g :
                 \/ id \in DOMAIN g /\ MergeSignals(f, g)[id] = g[id]
                        /\ (id \in DOMAIN f => g[id].obs >= f[id].obs)
                 \/ id \in DOMAIN f /\ MergeSignals(f, g)[id] = f[id]
BY DEF MergeSignals

\* Merging invents no signal, and sets none back.
LEMMA MergeTimed ==
    ASSUME NEW f, NEW g, MapTimed(f), MapTimed(g)
    PROVE  /\ MapTimed(MergeSignals(f, g))
           /\ \A id \in DOMAIN f : /\ id \in DOMAIN MergeSignals(f, g)
                                   /\ MergeSignals(f, g)[id].obs >= f[id].obs
<1> PICK h : h = MergeSignals(f, g)
  OBVIOUS
<1>1. /\ DOMAIN h = DOMAIN f \cup DOMAIN g
      /\ \A id \in DOMAIN h :
            \/ id \in DOMAIN g /\ h[id] = g[id] /\ (id \in DOMAIN f => g[id].obs >= f[id].obs)
            \/ id \in DOMAIN f /\ h[id] = f[id]
  BY DEF MergeSignals
<1>2. MapTimed(h)
  BY <1>1 DEF MapTimed
<1>3. \A id \in DOMAIN f : f[id].obs \in Int
  BY DEF MapTimed, Timed
<1>4. \A id \in DOMAIN f : id \in DOMAIN h /\ h[id].obs >= f[id].obs
  BY <1>1, <1>3
<1> QED BY <1>2, <1>4

ContextRecord(c) == \E a, b, d : c = [signals |-> a, loads |-> b, index |-> d]
ContextTimed(c) == ContextRecord(c) /\ MapTimed(c.signals)

\* Wherever a signal is, it has its times.
SignalInv ==
    /\ now \in Int /\ ctx.loads \in Int
    /\ TableTimed(rows)
    /\ MapTimed(latest.view)
    /\ MapTimed(source)
    /\ ContextTimed(ctx)
    /\ \A write \in saving : MapTimed(write.snap)

\* What NewestKept says of a step.
ContextKept ==
    ctx'.loads = ctx.loads =>
        \A id \in DOMAIN ctx.signals :
            id \in DOMAIN ctx'.signals /\ ctx'.signals[id].obs >= ctx.signals[id].obs

\* The signals of a context replaced.
LEMMA WithSignals ==
    ASSUME NEW c, ContextRecord(c), NEW m, NEW n, n = [c EXCEPT !.signals = m]
    PROVE  ContextRecord(n) /\ n.signals = m /\ n.loads = c.loads /\ n.index = c.index
<1>1. PICK a, b, d : c = [signals |-> a, loads |-> b, index |-> d]
  BY DEF ContextRecord
<1>2. n = [signals |-> m, loads |-> b, index |-> d]
  BY <1>1
<1>3. c.loads = b /\ c.index = d /\ n.signals = m /\ n.loads = b /\ n.index = d
  BY ONLY <1>1, <1>2
<1> QED BY <1>2, <1>3 DEF ContextRecord

\* hydrate_context merges the latest signals and leaves the rest of a context.
LEMMA HydrateFacts ==
    ASSUME NEW c, ContextRecord(c), NEW table, HydrateContext(c, table)
    PROVE  /\ latest'.view = latest.view \/ latest'.view = ComputeLatest(table)
           /\ ContextRecord(ctx') /\ ctx'.signals = MergeSignals(c.signals, latest'.view)
           /\ ctx'.loads = c.loads /\ ctx'.index = c.index
<1>1. latest' = latest \/ latest' = [at |-> now, view |-> ComputeLatest(table)]
  BY DEF HydrateContext
<1>2. latest'.view = latest.view \/ latest'.view = ComputeLatest(table)
  BY <1>1
<1> PICK m, n : m = MergeSignals(c.signals, latest'.view) /\ n = ctx'
  OBVIOUS
<1>3. n = [c EXCEPT !.signals = m]
  BY DEF HydrateContext
<1>4. ContextRecord(n) /\ n.signals = m /\ n.loads = c.loads /\ n.index = c.index
  BY <1>3, WithSignals
<1> QED BY <1>2, <1>4

\* hydrate_context invents no signal, and sets none back.
LEMMA HydrateTimed ==
    ASSUME NEW c, ContextTimed(c), NEW table, TableTimed(table),
           MapTimed(latest.view), HydrateContext(c, table)
    PROVE  /\ MapTimed(latest'.view) /\ ContextTimed(ctx')
           /\ ctx'.loads = c.loads /\ ctx'.index = c.index
           /\ \A id \in DOMAIN c.signals :
                 id \in DOMAIN ctx'.signals /\ ctx'.signals[id].obs >= c.signals[id].obs
<1>1. /\ latest'.view = latest.view \/ latest'.view = ComputeLatest(table)
      /\ ContextRecord(ctx') /\ ctx'.signals = MergeSignals(c.signals, latest'.view)
      /\ ctx'.loads = c.loads /\ ctx'.index = c.index
  BY HydrateFacts DEF ContextTimed
<1> PICK v, f, m : v = latest'.view /\ f = c.signals /\ m = ctx'.signals
  OBVIOUS
<1>2. MapTimed(v)
  BY <1>1, LatestTimed
<1>3. MapTimed(f)
  BY DEF ContextTimed
<1>4. m = MergeSignals(f, v)
  BY <1>1
<1>5. MapTimed(m) /\ \A id \in DOMAIN f : id \in DOMAIN m /\ m[id].obs >= f[id].obs
  BY <1>2, <1>3, <1>4, MergeTimed
<1>7. ContextTimed(ctx')
  BY <1>1, <1>5 DEF ContextTimed
<1> QED BY <1>1, <1>2, <1>5, <1>7

\* A report is saved and merged.
LEMMA SaveAndHydrateTimed ==
    ASSUME SignalInv, NEW r, NEW signal, SaveAndHydrate(r, signal), Timed(signal)
    PROVE  SignalInv' /\ ContextKept
<1> PICK table : table = rows'
  OBVIOUS
<1>2. /\ now \in Int /\ ctx.loads \in Int
      /\ TableTimed(rows) /\ MapTimed(latest.view) /\ MapTimed(source)
      /\ ContextTimed(ctx)
      /\ \A write \in saving : MapTimed(write.snap)
  BY DEF SignalInv
<1>3. /\ HydrateContext(ctx, table) /\ UNCHANGED <<now, source, saving>>
      /\ table = SaveSnapshot(rows, [id \in {r.id} |-> signal])
  BY DEF SaveAndHydrate
<1>4. MapTimed([id \in {r.id} |-> signal])
  BY DEF MapTimed
<1>5. TableTimed(table)
  BY <1>2, <1>3, <1>4, SaveTimed
<1> PICK c : c = ctx
  OBVIOUS
<1>6. /\ MapTimed(latest'.view) /\ ContextTimed(ctx')
      /\ ctx'.loads = c.loads
      /\ \A id \in DOMAIN c.signals :
            id \in DOMAIN ctx'.signals /\ ctx'.signals[id].obs >= c.signals[id].obs
  BY <1>2, <1>3, <1>5, HydrateTimed
<1>7. SignalInv'
  BY <1>2, <1>3, <1>5, <1>6 DEF SignalInv
<1>8. ContextKept
  BY <1>6 DEF ContextKept
<1> QED BY <1>7, <1>8

\* What health reports tell does not expire.
LEMMA HealthTimed ==
    ASSUME now \in Int, NEW ok, NEW drift
    PROVE  Timed(HealthSignal(ok, drift))
<1>1. Forever \in Int
  BY SignalAssumption
<1> QED BY <1>1 DEF HealthSignal, Signal, Timed

\* Health reports and route decisions.
LEMMA ReportsTimed ==
    ASSUME SignalInv, NEW r \in Reports, HealthReport(r) \/ RouteDecision(r)
    PROVE  SignalInv' /\ ContextKept
<1>0. now \in Int
  BY DEF SignalInv
<1>1. CASE HealthReport(r)
  <2> PICK signal : signal = HealthSignal(r.kind = "ok", r.kind = "drift")
    OBVIOUS
  <2>1. SaveAndHydrate(r, signal)
    BY <1>1 DEF HealthReport
  <2>2. Timed(signal)
    BY <1>0, HealthTimed
  <2> QED BY <2>1, <2>2, SaveAndHydrateTimed
<1>2. CASE RouteDecision(r)
  <2> PICK signal : signal = DecisionSignal(r.kind = "chosen", r.kind = "rejected")
    OBVIOUS
  <2>1. SaveAndHydrate(r, signal) /\ r.how = "decision"
    BY <1>2 DEF RouteDecision
  <2>2. Timed(signal)
    <3>1. DecisionFor \in Int
      BY SignalAssumption
    <3>2. signal.obs = now /\ signal.exp = now + DecisionFor
      BY DEF DecisionSignal, Signal
    <3> QED BY <1>0, <3>1, <3>2 DEF Timed
  <2> QED BY <2>1, <2>2, SaveAndHydrateTimed
<1> QED BY <1>1, <1>2

\* The outcome of an execution, handed to a thread.
LEMMA ExecutionTimed ==
    ASSUME SignalInv, NEW r \in Reports, RouteExecution(r)
    PROVE  SignalInv' /\ ContextKept
<1> PICK signal, snapshot, table : /\ signal = ExecutionSignal(r.kind)
                                   /\ snapshot = [id \in {r.id} |-> ExecutionSignal(r.kind)]
                                   /\ table = rows
  OBVIOUS
<1>1. /\ r.how = "execution"
      /\ saving' = saving \cup {[snap |-> snapshot, loaded |-> FALSE]}
      /\ HydrateContext(ctx, rows) /\ UNCHANGED <<now, rows, source>>
  BY DEF RouteExecution
<1>3. /\ now \in Int /\ ctx.loads \in Int
      /\ TableTimed(rows) /\ MapTimed(latest.view) /\ MapTimed(source)
      /\ ContextTimed(ctx)
      /\ \A write \in saving : MapTimed(write.snap)
  BY DEF SignalInv
<1>4. Timed(signal)
  <2>1. ShortFor \in Int /\ BlockedFor \in Int
    BY SignalAssumption
  <2>2. r.kind \in {"success", "refused", "failed"}
    BY <1>1, SignalAssumption
  <2>3. signal.obs = now /\ signal.exp \in {now + ShortFor, now + BlockedFor}
    BY <2>2 DEF ExecutionSignal, Signal
  <2> QED BY <1>3, <2>1, <2>3 DEF Timed
<1>5. MapTimed(snapshot)
  BY <1>4 DEF MapTimed
<1>6. \A write \in saving' : MapTimed(write.snap)
  BY <1>1, <1>3, <1>5
<1> PICK c : c = ctx
  OBVIOUS
<1>7. /\ MapTimed(latest'.view) /\ ContextTimed(ctx')
      /\ ctx'.loads = c.loads
      /\ \A id \in DOMAIN c.signals :
            id \in DOMAIN ctx'.signals /\ ctx'.signals[id].obs >= c.signals[id].obs
  BY <1>1, <1>3, HydrateTimed
<1>8. SignalInv'
  BY <1>1, <1>3, <1>6, <1>7 DEF SignalInv
<1>9. ContextKept
  BY <1>7 DEF ContextKept
<1> QED BY <1>8, <1>9

\* A context that did not change was not set back.
LEMMA SameContext ==
    ASSUME SignalInv, UNCHANGED ctx
    PROVE  ContextKept
<1>1. \A id \in DOMAIN ctx.signals : ctx.signals[id].obs \in Int
  BY DEF SignalInv, ContextTimed, MapTimed, Timed
<1> QED BY <1>1 DEF ContextKept

\* A thread that saves late.
LEMMA ThreadTimed ==
    ASSUME SignalInv, NEW write \in saving, ThreadSaves(write)
    PROVE  SignalInv' /\ ContextKept
<1> PICK table, c : table = rows' /\ c = ctx
  OBVIOUS
<1>1. /\ now \in Int /\ ctx.loads \in Int
      /\ TableTimed(rows) /\ MapTimed(latest.view) /\ MapTimed(source)
      /\ ContextTimed(c)
      /\ \A w \in saving : MapTimed(w.snap)
  BY DEF SignalInv
<1>2. /\ saving' = saving \ {write} /\ table = SaveSnapshot(rows, write.snap)
      /\ UNCHANGED <<now, source, reports>>
      /\ HydrateContext(c, table) \/ UNCHANGED <<latest, ctx>>
  BY DEF ThreadSaves
<1>3. TableTimed(table)
  BY <1>1, <1>2, SaveTimed
<1>4. CASE HydrateContext(c, table)
  <2>1. /\ MapTimed(latest'.view) /\ ContextTimed(ctx')
        /\ ctx'.loads = c.loads
        /\ \A id \in DOMAIN c.signals :
              id \in DOMAIN ctx'.signals /\ ctx'.signals[id].obs >= c.signals[id].obs
    BY <1>1, <1>3, <1>4, HydrateTimed
  <2>2. SignalInv'
    BY <1>1, <1>2, <1>3, <2>1 DEF SignalInv
  <2>3. ContextKept
    BY <2>1 DEF ContextKept
  <2> QED BY <2>2, <2>3
<1>5. CASE UNCHANGED <<latest, ctx>>
  <2>1. SignalInv'
    BY <1>1, <1>2, <1>3, <1>5 DEF SignalInv
  <2> QED BY <1>5, <2>1, SameContext
<1> QED BY <1>2, <1>4, <1>5

\* The source changes what it lists.
LEMMA SourceTimed ==
    ASSUME SignalInv, NEW id \in SourceIds, SourceChanges(id)
    PROVE  SignalInv' /\ ContextKept
<1>1. UNCHANGED <<now, rows, latest, ctx, saving, reports>>
  BY DEF SourceChanges
<1>2. MapTimed(source')
  <2>1. \A active \in BOOLEAN : Timed(Signal("blocked", active, now, Forever))
    <3>1. Forever \in Int /\ now \in Int
      BY SignalAssumption DEF SignalInv
    <3> QED BY <3>1 DEF Signal, Timed
  <2>2. \A i \in DOMAIN source : Timed(source[i])
    BY DEF SignalInv, MapTimed
  <2>3. CASE source' = [i \in DOMAIN source \ {id} |-> source[i]]
    BY <2>2, <2>3 DEF MapTimed
  <2>4. CASE \E active \in BOOLEAN :
                source' = [i \in DOMAIN source \cup {id} |->
                              IF i = id THEN Signal("blocked", active, now, Forever) ELSE source[i]]
    BY <2>1, <2>2, <2>4 DEF MapTimed
  <2> QED BY <2>3, <2>4 DEF SourceChanges
<1>3. SignalInv'
  BY <1>1, <1>2 DEF SignalInv
<1> QED BY <1>1, <1>3, SameContext

\* A context as it is loaded.
LEMMA LoadedTimed ==
    ASSUME SignalInv, NEW list \in Listed, NEW n, NEW c, c = Loaded(list, n)
    PROVE  /\ MapTimed(list) /\ ContextTimed(c)
           /\ c.loads = n /\ c.signals = list
<1>1. MapTimed(list)
  <2>1. list = source \/ list = Empty
    BY DEF Listed
  <2>2. MapTimed(Empty)
    BY DEF Empty, MapTimed
  <2> QED BY <2>1, <2>2 DEF SignalInv
<1>2. c = [signals |-> list, loads |-> n, index |-> <<>>]
  BY DEF Loaded
<1>3. c.signals = list /\ c.loads = n /\ c.index = <<>>
  BY ONLY <1>2
<1>5. ContextRecord(c)
  BY <1>2 DEF ContextRecord
<1> QED BY <1>1, <1>3, <1>5 DEF ContextTimed

\* A context is loaded anew.
LEMMA RefreshTimed ==
    ASSUME SignalInv, RefreshContext \/ RefreshTailnet
    PROVE  SignalInv' /\ ContextKept
<1> PICK n : n = ctx.loads + 1
  OBVIOUS
<1>1. /\ now \in Int /\ ctx.loads \in Int /\ n \in Int /\ n # ctx.loads
      /\ TableTimed(rows) /\ MapTimed(latest.view) /\ MapTimed(source)
      /\ \A w \in saving : MapTimed(w.snap)
  BY DEF SignalInv
<1>2. CASE RefreshContext
  <2>1. /\ UNCHANGED <<now, source, saving, reports>>
        /\ \E list \in Listed : /\ rows' = SaveSnapshot(rows, list)
                                /\ HydrateContext(Loaded(list, n), rows')
    BY <1>2 DEF RefreshContext
  <2>2. PICK list \in Listed : /\ rows' = SaveSnapshot(rows, list)
                               /\ HydrateContext(Loaded(list, n), rows')
    BY <2>1
  <2> PICK c, table : c = Loaded(list, n) /\ table = rows'
    OBVIOUS
  <2>3. MapTimed(list) /\ ContextTimed(c) /\ c.loads = n
    BY LoadedTimed
  <2>4. TableTimed(table)
    BY <1>1, <2>2, <2>3, SaveTimed
  <2>5. /\ MapTimed(latest'.view) /\ ContextTimed(ctx')
        /\ ctx'.loads = c.loads
    BY <1>1, <2>2, <2>3, <2>4, HydrateTimed
  <2>6. SignalInv'
    BY <1>1, <2>1, <2>3, <2>4, <2>5 DEF SignalInv
  <2>7. ContextKept
    BY <1>1, <2>3, <2>5 DEF ContextKept
  <2> QED BY <2>6, <2>7
<1>3. CASE RefreshTailnet
  <2>1. PICK list \in Listed : /\ ctx' = Loaded(list, n)
                               /\ saving' = saving \cup {[snap |-> list, loaded |-> TRUE]}
    BY <1>3 DEF RefreshTailnet
  <2>2. UNCHANGED <<now, rows, latest, source, reports>>
    BY <1>3 DEF RefreshTailnet
  <2> PICK c : c = ctx'
    OBVIOUS
  <2>3. MapTimed(list) /\ ContextTimed(c) /\ c.loads = n
    BY <2>1, LoadedTimed
  <2>4. \A w \in saving' : MapTimed(w.snap)
    BY <1>1, <2>1, <2>3
  <2>5. SignalInv'
    BY <1>1, <2>2, <2>3, <2>4 DEF SignalInv
  <2>6. ContextKept
    BY <1>1, <2>3 DEF ContextKept
  <2> QED BY <2>5, <2>6
<1> QED BY <1>2, <1>3

\* Building the index leaves the signals alone.
LEMMA AskTimed ==
    ASSUME SignalInv, AskSignals
    PROVE  SignalInv' /\ ContextKept
<1> PICK S, c : /\ S = {s \in {ctx.signals[id] : id \in DOMAIN ctx.signals} : IsActive(s)}
                /\ c = ctx
  OBVIOUS
<1>1. ctx' = [c EXCEPT !.index = <<S>>] /\ UNCHANGED <<now, rows, latest, source, saving, reports>>
  BY DEF AskSignals
<1>2. PICK a, b, d : c = [signals |-> a, loads |-> b, index |-> d]
  BY DEF SignalInv, ContextTimed, ContextRecord
<1> PICK n, i : n = ctx' /\ i = <<S>>
  OBVIOUS
<1>3. n = [c EXCEPT !.index = i]
  BY <1>1
<1>4. n = [signals |-> a, loads |-> b, index |-> i]
  BY ONLY <1>2, <1>3
<1>5. n.signals = a /\ n.loads = b /\ n.index = i /\ c.signals = a /\ c.loads = b
  BY ONLY <1>2, <1>4
<1>6. MapTimed(a) /\ b \in Int
  BY <1>5 DEF SignalInv, ContextTimed
<1>10. ContextRecord(n)
  BY <1>4 DEF ContextRecord
<1>11. ContextTimed(n)
  BY <1>5, <1>6, <1>10 DEF ContextTimed
<1>12. SignalInv'
  BY <1>1, <1>5, <1>6, <1>11 DEF SignalInv
<1>13. \A id \in DOMAIN a : a[id].obs \in Int
  BY <1>6 DEF MapTimed, Timed
<1>14. ContextKept
  BY <1>5, <1>13 DEF ContextKept
<1> QED BY <1>12, <1>14

\* Every step of the signals keeps their times, and sets none back.
LEMMA SignalStep ==
    ASSUME SignalInv, SignalNext
    PROVE  SignalInv' /\ ContextKept
<1>1. CASE \E r \in Reports : HealthReport(r) \/ RouteDecision(r) \/ RouteExecution(r)
  BY <1>1, ReportsTimed, ExecutionTimed
<1>2. CASE \E write \in saving : ThreadSaves(write)
  BY <1>2, ThreadTimed
<1>3. CASE \E id \in SourceIds : SourceChanges(id)
  BY <1>3, SourceTimed
<1>4. CASE RefreshContext \/ RefreshTailnet
  BY <1>4, RefreshTimed
<1>5. CASE AskSignals
  BY <1>5, AskTimed
<1>6. CASE PruneTask
  <2>1. rows' = Prune(rows) /\ UNCHANGED <<now, latest, source, ctx, saving, reports>>
    BY <1>6 DEF PruneTask
  <2>2. TableTimed(rows')
    BY <2>1, PruneTimed DEF SignalInv
  <2>3. SignalInv'
    BY <2>1, <2>2 DEF SignalInv
  <2> QED BY <2>1, <2>3, SameContext
<1>7. CASE Tick /\ UNCHANGED signalVars
  <2>1. SignalInv'
    BY <1>7 DEF Tick, signalVars, SignalInv
  <2> QED BY <1>7, <2>1, SameContext DEF signalVars
<1> QED BY <1>1, <1>2, <1>3, <1>4, <1>5, <1>6, <1>7 DEF SignalNext

-----------------------------------------------------------------------------
\* Every signal of f is in the table, and not newer there.
Below(f, table) ==
    \A id \in DOMAIN f : id \in DOMAIN table /\ f[id].obs <= table[id][1].obs

\* Where only live models are reported a table has one row for each id, which
\* does not expire, and nothing is ahead of the table.
Quiet ==
    /\ source = Empty /\ now <= MaxTime
    /\ \A id \in DOMAIN rows :
          DOMAIN rows[id] = {1} /\ rows[id][1].exp = Forever /\ rows[id][1].obs <= now
    /\ Below(latest.view, rows) /\ Below(ctx.signals, rows)

\* The clock does not reach the end of a signal that does not expire.
LEMMA NotYetExpired ==
    ASSUME SignalInv, Quiet
    PROVE  now < Forever
<1>1. MaxTime \in Int /\ DecisionFor \in Nat /\ Forever \in Int /\ Forever > MaxTime + DecisionFor
  BY SignalAssumption
<1>2. now \in Int /\ now <= MaxTime
  BY DEF SignalInv, Quiet
<1> QED BY <1>1, <1>2

\* Where no row expires, pruning changes nothing.
LEMMA QuietPrune ==
    ASSUME SignalInv, Quiet
    PROVE  /\ DOMAIN Prune(rows) = DOMAIN rows
           /\ \A id \in DOMAIN rows : DOMAIN Prune(rows)[id] = {1} /\ Prune(rows)[id][1] = rows[id][1]
<1> DEFINE alive(id) == {k \in DOMAIN rows[id] : now < rows[id][k].exp}
<1>1. \A id \in DOMAIN rows : alive(id) = {1}
  BY NotYetExpired DEF Quiet
<1>2. /\ DOMAIN Prune(rows) = {i \in DOMAIN rows : alive(i) # {}}
      /\ \A id \in DOMAIN Prune(rows) : Prune(rows)[id] = [k \in alive(id) |-> rows[id][k]]
  BY DEF Prune
<1> HIDE DEF alive
<1>3. DOMAIN Prune(rows) = DOMAIN rows
  BY <1>1, <1>2
<1>4. \A id \in DOMAIN rows : Prune(rows)[id] = [k \in {1} |-> rows[id][k]]
  BY <1>1, <1>2, <1>3
<1> QED BY <1>3, <1>4

\* Where no row expires, the latest signals are the rows.
LEMMA QuietLatest ==
    ASSUME SignalInv, Quiet
    PROVE  /\ DOMAIN ComputeLatest(rows) = DOMAIN rows
           /\ \A id \in DOMAIN rows : ComputeLatest(rows)[id] = rows[id][1]
<1>1. \A id \in DOMAIN rows : Max(DOMAIN rows[id]) = 1
  <2>1. Max({1}) = 1
    <3> PICK T : T = {1}
      OBVIOUS
    <3>1. T \in SUBSET Int /\ T # {} /\ \A x \in T : x <= 1
      OBVIOUS
    <3>2. Max(T) \in T
      BY <3>1, MaxFacts, 1 \in Int
    <3> QED BY <3>2
  <2> QED BY <2>1 DEF Quiet
<1>2. \A id \in DOMAIN rows : now < rows[id][1].exp
  BY NotYetExpired DEF Quiet
<1> QED BY <1>1, <1>2 DEF ComputeLatest

\* What is merged from below the table is below it.
LEMMA MergeBelow ==
    ASSUME NEW f, NEW g, NEW table, Below(f, table), Below(g, table)
    PROVE  Below(MergeSignals(f, g), table)
<1> PICK h : h = MergeSignals(f, g)
  OBVIOUS
<1>1. /\ DOMAIN h = DOMAIN f \cup DOMAIN g
      /\ \A id \in DOMAIN h : \/ id \in DOMAIN g /\ h[id] = g[id]
                              \/ id \in DOMAIN f /\ h[id] = f[id]
  BY DEF MergeSignals
<1>2. Below(h, table)
  BY <1>1 DEF Below
<1> QED BY <1>2

\* The context is filled from a table that is ahead of it.
LEMMA QuietHydrate ==
    ASSUME SignalInv, Quiet, NEW c, ContextRecord(c), HydrateContext(c, rows), Below(c.signals, rows)
    PROVE  Below(latest'.view, rows) /\ Below(ctx'.signals, rows)
<1>1. /\ latest'.view = latest.view \/ latest'.view = ComputeLatest(rows)
      /\ ctx'.signals = MergeSignals(c.signals, latest'.view)
  BY HydrateFacts
<1> PICK table, view, f : table = rows /\ view = latest'.view /\ f = c.signals
  OBVIOUS
<1>2. Below(ComputeLatest(rows), rows)
  <2>1. \A id \in DOMAIN rows : rows[id][1].obs \in Int
    BY DEF SignalInv, TableTimed, RowsTimed, MapTimed, Timed, Quiet
  <2> QED BY <2>1, QuietLatest DEF Below
<1>3. Below(view, table)
  BY <1>1, <1>2 DEF Quiet
<1>4. Below(MergeSignals(f, view), table)
  BY <1>3, MergeBelow
<1> QED BY <1>1, <1>3, <1>4

\* A step that leaves the signals alone, while time may pass.
LEMMA SignalsRest ==
    ASSUME SignalInv, UNCHANGED signalVars, now' = now \/ Tick
    PROVE  SignalInv' /\ ContextKept /\ (Quiet => Quiet')
<1>1. now \in Int /\ now' \in Int /\ now <= now' /\ (now <= MaxTime => now' <= MaxTime)
  BY SignalAssumption DEF SignalInv, Tick
<1>2. UNCHANGED <<rows, latest, source, ctx, saving, reports>>
  BY DEF signalVars
<1>3. SignalInv'
  BY <1>1, <1>2 DEF SignalInv
<1>4. ContextKept
  BY <1>2, SameContext
<1>5. ASSUME Quiet PROVE Quiet'
  <2>1. \A id \in DOMAIN rows : rows[id][1].obs \in Int
    BY <1>5 DEF SignalInv, TableTimed, RowsTimed, MapTimed, Timed, Quiet
  <2>2. \A id \in DOMAIN rows : rows[id][1].obs <= now'
    BY <1>1, <1>5, <2>1 DEF Quiet
  <2> QED BY <1>1, <1>2, <1>5, <2>2 DEF Quiet
<1> QED BY <1>3, <1>4, <1>5

\* A refresh reports the live models of a provider.
LEMMA LiveTimed ==
    ASSUME SignalInv, Quiet, NEW t, NEW p, SaveRefresh(t, p)
    PROVE  SignalInv' /\ ContextKept /\ Quiet'
<1>1. UNCHANGED <<now, latest, source, ctx, saving, reports>>
  BY DEF SaveRefresh
<1>2. PICK ok, drift : rows' = SaveSnapshot(rows, [id \in {<<"live", p>>} |-> HealthSignal(ok, drift)])
  <2>1. \E s, drift : rows' = SaveSnapshot(rows, LiveSignals(p, s, drift))
    BY DEF SaveRefresh
  <2> QED BY <2>1 DEF LiveSignals
<1> PICK signal, live : signal = HealthSignal(ok, drift) /\ live = <<"live", p>>
  OBVIOUS
<1> PICK snapshot, kept, table : /\ snapshot = [id \in {live} |-> signal] /\ kept = Prune(rows)
                                 /\ table = SaveSnapshot(rows, snapshot)
  OBVIOUS
<1>3. rows' = table /\ now \in Int
  BY <1>2 DEF SignalInv
<1>4. signal.active = TRUE /\ signal.obs = now /\ signal.exp = Forever
  BY DEF HealthSignal, Signal
<1>5. MapTimed(snapshot)
  <2>1. Timed(signal)
    BY <1>3, HealthTimed
  <2> QED BY <2>1 DEF MapTimed
<1>6. TableTimed(table)
  BY <1>5, SaveTimed DEF SignalInv
<1>7. SignalInv'
  BY <1>1, <1>3, <1>6 DEF SignalInv
<1>8. /\ DOMAIN kept = DOMAIN rows
      /\ \A id \in DOMAIN rows : DOMAIN kept[id] = {1} /\ kept[id][1] = rows[id][1]
  BY QuietPrune
<1>9. {id \in DOMAIN snapshot : snapshot[id].active} = {live} /\ snapshot[live] = signal
  BY <1>4
<1>10. table = [id \in DOMAIN kept \cup {live} |->
                   IF id \notin {live} THEN kept[id]
                   ELSE IF snapshot[id].exp = Forever \/ id \notin DOMAIN kept THEN <<snapshot[id]>>
                   ELSE AddRow(kept[id], snapshot[id])]
  BY <1>9 DEF SaveSnapshot
<1>11. /\ DOMAIN table = DOMAIN rows \cup {live}
       /\ \A id \in DOMAIN rows \ {live} : table[id] = kept[id]
       /\ table[live] = <<signal>>
  BY <1>4, <1>8, <1>9, <1>10
<1>12. DOMAIN <<signal>> = {1} /\ <<signal>>[1] = signal
  OBVIOUS
<1>13. /\ \A id \in DOMAIN table : DOMAIN table[id] = {1}
       /\ \A id \in DOMAIN rows \ {live} : table[id][1] = rows[id][1]
       /\ table[live][1] = signal
  <2>1. \A id \in DOMAIN rows \ {live} : DOMAIN table[id] = {1} /\ table[id][1] = rows[id][1]
    BY <1>8, <1>11
  <2>2. DOMAIN table[live] = {1} /\ table[live][1] = signal
    BY <1>11, <1>12
  <2> QED BY <1>11, <2>1, <2>2
<1>14. \A id \in DOMAIN rows : /\ id \in DOMAIN table /\ rows[id][1].obs \in Int /\ table[id][1].obs \in Int
                               /\ rows[id][1].obs <= table[id][1].obs
  <2>1. \A id \in DOMAIN rows : rows[id][1].obs \in Int /\ rows[id][1].obs <= now
    BY DEF SignalInv, TableTimed, RowsTimed, MapTimed, Timed, Quiet
  <2>2. \A id \in DOMAIN rows \ {live} : table[id][1].obs = rows[id][1].obs
    BY <1>13
  <2>3. table[live][1].obs = now
    BY <1>4, <1>13
  <2>4. ASSUME NEW id \in DOMAIN rows
        PROVE  table[id][1].obs \in Int /\ rows[id][1].obs <= table[id][1].obs
    <3>1. CASE id = live
      BY <1>3, <2>1, <2>3, <3>1
    <3>2. CASE id # live
      <4>1. table[id][1].obs = rows[id][1].obs
        BY <2>2, <3>2
      <4> QED BY <2>1, <4>1
    <3> QED BY <3>1, <3>2
  <2> QED BY <1>11, <2>1, <2>4
<1>15. \A id \in DOMAIN table : table[id][1].exp = Forever /\ table[id][1].obs <= now
  <2>1. \A id \in DOMAIN rows : rows[id][1].exp = Forever /\ rows[id][1].obs <= now
    BY DEF Quiet
  <2>2. ASSUME NEW id \in DOMAIN rows \ {live}
        PROVE  table[id][1].exp = Forever /\ table[id][1].obs <= now
    BY <1>13, <2>1
  <2>3. table[live][1].exp = Forever /\ table[live][1].obs <= now
    BY <1>3, <1>4, <1>13
  <2> QED BY <1>11, <2>2, <2>3
<1>16. ASSUME NEW f, MapTimed(f), Below(f, rows) PROVE Below(f, table)
  <2>1. \A id \in DOMAIN f : f[id].obs \in Int
    BY <1>16 DEF MapTimed, Timed
  <2> QED BY <1>14, <1>16, <2>1 DEF Below
<1>17. Below(latest.view, table) /\ Below(ctx.signals, table)
  <2>1. MapTimed(latest.view) /\ MapTimed(ctx.signals)
    BY DEF SignalInv, ContextTimed
  <2> QED BY <1>16, <2>1 DEF Quiet
<1>18. Quiet'
  BY <1>1, <1>3, <1>13, <1>15, <1>17 DEF Quiet
<1>19. ContextKept
  BY <1>1, SameContext
<1> QED BY <1>7, <1>18, <1>19

\* A refresh that found a drift hydrates the context.
LEMMA FinishTimed ==
    ASSUME SignalInv, Quiet, NEW t, FinishRefresh(t)
    PROVE  SignalInv' /\ ContextKept /\ Quiet'
<1>1. UNCHANGED <<now, rows, source, saving, reports>>
  BY DEF FinishRefresh
<1>2. HydrateContext(ctx, rows) \/ UNCHANGED <<latest, ctx>>
  BY DEF FinishRefresh
<1>3. CASE UNCHANGED <<latest, ctx>>
  BY <1>1, <1>3, SignalsRest DEF signalVars
<1>4. CASE HydrateContext(ctx, rows)
  <2> PICK c, table : c = ctx /\ table = rows
    OBVIOUS
  <2>1. ContextTimed(c) /\ TableTimed(table) /\ MapTimed(latest.view) /\ Below(c.signals, rows)
    BY DEF SignalInv, Quiet
  <2>2. /\ MapTimed(latest'.view) /\ ContextTimed(ctx') /\ ctx'.loads = c.loads
        /\ \A id \in DOMAIN c.signals :
              id \in DOMAIN ctx'.signals /\ ctx'.signals[id].obs >= c.signals[id].obs
    BY <1>4, <2>1, HydrateTimed
  <2>3. Below(latest'.view, rows) /\ Below(ctx'.signals, rows)
    BY <1>4, <2>1, QuietHydrate DEF ContextTimed
  <2>4. SignalInv'
    BY <1>1, <2>2 DEF SignalInv
  <2>5. Quiet'
    BY <1>1, <2>3 DEF Quiet
  <2>6. ContextKept
    BY <2>2 DEF ContextKept
  <2> QED BY <2>4, <2>5, <2>6
<1> QED BY <1>2, <1>3, <1>4

\* After a restart the table gives back all that the context knew.
LEMMA RestartTimed ==
    ASSUME SignalInv, Quiet, RestartModels
    PROVE  SignalInv' /\ ContextKept /\ Quiet'
<1> PICK c, n, v : c = Loaded(source, ctx.loads) /\ n = ctx' /\ v = ComputeLatest(rows)
  OBVIOUS
<1>1. /\ UNCHANGED <<now, rows, source, saving, reports>>
      /\ latest' = [at |-> now, view |-> v]
      /\ n = [c EXCEPT !.signals = MergeSignals(source, latest'.view)]
  BY DEF RestartModels
<1>2. latest'.view = v
  BY <1>1
<1>3. source \in Listed /\ source = Empty
  BY DEF Listed, Quiet
<1>4. MapTimed(source) /\ ContextTimed(c) /\ c.loads = ctx.loads
  BY <1>3, LoadedTimed
<1> PICK f, m : f = source /\ m = MergeSignals(f, v)
  OBVIOUS
<1>5. n = [c EXCEPT !.signals = m]
  BY <1>1, <1>2
<1>6. ContextRecord(n) /\ n.signals = m /\ n.loads = c.loads /\ n.index = c.index
  BY <1>4, <1>5, WithSignals DEF ContextTimed
<1>7. MapTimed(v)
  BY LatestTimed DEF SignalInv
<1>8. MapTimed(m)
  BY <1>4, <1>7, MergeTimed
<1>9. ContextTimed(n)
  BY <1>4, <1>6, <1>8 DEF ContextTimed
<1>10. SignalInv'
  BY <1>1, <1>2, <1>4, <1>6, <1>7, <1>9 DEF SignalInv
<1>11. DOMAIN v = DOMAIN rows /\ \A id \in DOMAIN rows : v[id] = rows[id][1]
  BY QuietLatest
<1>12. DOMAIN f = {}
  BY <1>3 DEF Empty
<1>13. DOMAIN m = DOMAIN rows /\ \A id \in DOMAIN rows : m[id] = rows[id][1]
  BY <1>11, <1>12 DEF MergeSignals
<1>14. \A id \in DOMAIN rows : rows[id][1].obs \in Int
  BY DEF SignalInv, TableTimed, RowsTimed, MapTimed, Timed, Quiet
<1>15. Below(v, rows) /\ Below(m, rows)
  BY <1>11, <1>13, <1>14 DEF Below
<1>16. Quiet'
  BY <1>1, <1>2, <1>6, <1>15 DEF Quiet
<1>17. ContextKept
  <2>1. ASSUME NEW id \in DOMAIN ctx.signals
        PROVE  id \in DOMAIN m /\ m[id].obs >= ctx.signals[id].obs
    <3>1. id \in DOMAIN rows /\ ctx.signals[id].obs <= rows[id][1].obs
      BY DEF Quiet, Below
    <3>2. ctx.signals[id].obs \in Int
      BY DEF SignalInv, ContextTimed, MapTimed, Timed
    <3> QED BY <1>13, <1>14, <3>1, <3>2
  <2> QED BY <1>6, <2>1 DEF ContextKept
<1> QED BY <1>10, <1>16, <1>17

\* Every step around the endpoints keeps the times of the signals.
LEMMA FleetTimed ==
    ASSUME SignalInv, Quiet, NEW T, NEW R, FleetNext(T, R)
    PROVE  SignalInv' /\ ContextKept /\ Quiet'
<1>1. CASE UNCHANGED signalVars /\ (now' = now \/ Tick)
  BY <1>1, SignalsRest
<1>2. CASE \E t \in T : RefreshStep(t)
  <2>1. PICK t \in T : RefreshStep(t)
    BY <1>2
  <2>2. CASE StartRefresh(t) \/ \E p \in Provider : Answer(t, p) \/ Land(t, p)
    BY <1>1, <2>2 DEF StartRefresh, Answer, Land
  <2>3. CASE \E p \in Provider : SaveRefresh(t, p)
    BY <2>3, LiveTimed
  <2>4. CASE FinishRefresh(t)
    BY <2>4, FinishTimed
  <2> QED BY <2>1, <2>2, <2>3, <2>4 DEF RefreshStep
<1>3. CASE \E p \in Reachable : WorldChanges(p)
  BY <1>1, <1>3 DEF WorldChanges
<1>4. CASE Tick /\ UNCHANGED signalVars
  BY <1>1, <1>4
<1>5. CASE \E r \in R : ReconcileStep(r)
  BY <1>1, <1>5 DEF ReconcileStep, Reconcile, NextLoad, LoadEnds, Unload, EndReconcile
<1>6. CASE Restart
  BY <1>6, RestartTimed DEF Restart
<1> QED BY <1>2, <1>3, <1>4, <1>5, <1>6 DEF FleetNext

\* In the scenes about models and placements nothing but live models is
\* reported.
FleetSignals == SignalInv /\ (scene \in {"models", "placement", "deployed"} => Quiet)

\* There are no signals at the start.
LEMMA FleetSignalsStart == FleetInit => FleetSignals
<1> SUFFICES ASSUME FleetInit PROVE FleetSignals
  OBVIOUS
<1>1. /\ now = 0 /\ rows = Empty /\ source = Empty /\ saving = {}
      /\ latest = [at |-> -1, view |-> Empty] /\ ctx = [signals |-> Empty, loads |-> 0, index |-> <<>>]
  BY DEF FleetInit, SignalInit, Loaded
<1>2. DOMAIN Empty = {}
  BY DEF Empty
<1>3. latest.view = Empty /\ ctx.signals = Empty /\ ctx.loads = 0 /\ ctx.index = <<>> /\ DOMAIN ctx.index = {}
  BY <1>1
<1>4. ContextRecord(ctx)
  BY <1>1 DEF ContextRecord
<1>5. SignalInv
  BY <1>1, <1>2, <1>3, <1>4 DEF SignalInv, TableTimed, MapTimed, ContextTimed
<1>6. Quiet
  BY <1>1, <1>2, <1>3, SignalAssumption DEF Quiet, Below
<1> QED BY <1>5, <1>6 DEF FleetSignals

\* Every step of the fleet keeps the times of the signals, and sets none back.
LEMMA FleetSignalsStep ==
    ASSUME FleetSignals, [FleetSteps]_fleetVars
    PROVE  FleetSignals' /\ ContextKept
<1>1. CASE scene' = scene /\ scene \in {"models", "placement", "deployed"} /\ \E T, R : FleetNext(T, R)
  BY <1>1, FleetTimed DEF FleetSignals
<1>2. CASE scene' = scene /\ scene = "signals" /\ SignalNext
  BY <1>2, SignalStep DEF FleetSignals
<1>3. CASE UNCHANGED <<now, signalVars, scene>>
  BY <1>3, SignalsRest DEF FleetSignals
<1> QED BY <1>1, <1>2, <1>3 DEF FleetSteps, fleetVars, PollRaises

\* A context never goes back to an older signal, for any number of reports and
\* threads in any order, and across the restarts of a router to which only live
\* models were reported.
THEOREM NewestStays == FleetSpec => NewestKept
<1>1. FleetSignals /\ [FleetSteps]_fleetVars => FleetSignals'
  BY FleetSignalsStep
<1>2. FleetSignals /\ [FleetSteps]_fleetVars =>
        [ctx'.loads = ctx.loads =>
            \A id \in DOMAIN ctx.signals :
                id \in DOMAIN ctx'.signals /\ ctx'.signals[id].obs >= ctx.signals[id].obs]_ctx
  BY FleetSignalsStep DEF ContextKept
<1> QED BY <1>1, <1>2, FleetSignalsStart, PTL DEF FleetSpec, NewestKept

-----------------------------------------------------------------------------
\* The loadout builder.

\* What a run knows: nodes there are, and candidates that are routable.
RunsOK ==
    /\ registry \in Registries
    /\ DOMAIN nodes = Run
    /\ \A r \in Run : DOMAIN nodes[r] \subseteq Node
    /\ \A r \in Run : Assignments(r) \subseteq RoutableModels(nodes[r])
    /\ DOMAIN file.nodes \subseteq Node

\* A run gets its snapshot once; the version of the current one is that of the
\* lock, and what is assigned belongs to a snapshot.
SnapshotsOK ==
    /\ db.lock = Cardinality(db.snaps)
    /\ db.current \in db.snaps \cup {0}
    /\ \A r \in Run : pc[r] \in {"start", "built"} => r \notin db.snaps
    /\ db.current # 0 => version[db.current] = db.lock
    /\ \A a \in db.assigned : a[1] \in db.snaps
    /\ CurrentIsWhole

\* A run that is about to write the report holds the lock, and nobody has
\* overtaken it.
LockOK ==
    /\ \A r \in Run : pc[r] = "checked" <=> holder = r
    /\ holder # 0 => db.current = holder

IInv == TypeOK /\ RunsOK /\ SnapshotsOK /\ LockOK

-----------------------------------------------------------------------------
\* A probe reports on nodes there are, whatever stands in for it.
LEMMA ProbeNodes ==
    ASSUME NEW g \in Registries, NEW cached, DOMAIN cached \subseteq Node,
           NEW ns \in ProbeAllNodes(g, cached, Node)
    PROVE  DOMAIN ns \subseteq Node
<1>1. CASE g.present
  BY <1>1, LoadoutAssumption DEF ProbeAllNodes
<1>2. CASE ~g.present /\ DOMAIN cached # {}
  BY <1>2 DEF ProbeAllNodes, FromReport
<1>3. CASE ~g.present /\ DOMAIN cached = {}
  BY <1>3 DEF ProbeAllNodes, FromStats
<1> QED BY <1>1, <1>2, <1>3

\* What a report counts is finite.
LEMMA CountedFinite ==
    ASSUME NEW ns, DOMAIN ns \subseteq Node
    PROVE  /\ RoutableModels(ns) \subseteq Node \X ModelKey
           /\ IsFiniteSet(RoutableModels(ns)) /\ Cardinality(RoutableModels(ns)) \in Nat
           /\ IsFiniteSet(AuthoritativeNodes(ns)) /\ Cardinality(AuthoritativeNodes(ns)) \in Nat
<1>1. RoutableModels(ns) \subseteq Node \X ModelKey
  BY DEF RoutableModels
<1>2. AuthoritativeNodes(ns) \subseteq Node
  BY DEF AuthoritativeNodes
<1>3. IsFiniteSet(Node) /\ IsFiniteSet(ModelKey)
  BY FleetAssumption
<1>4. IsFiniteSet(Node \X ModelKey)
  BY <1>3, FS_Product
<1>5. IsFiniteSet(RoutableModels(ns)) /\ IsFiniteSet(AuthoritativeNodes(ns))
  BY <1>1, <1>2, <1>3, <1>4, FS_Subset
<1> QED BY <1>1, <1>5, FS_CardinalityType

\* pick_best gives at most one candidate, and one that was asked for.
LEMMA PickFacts ==
    ASSUME NEW C, NEW n \in Nat, NEW order \in [1..n -> C], NEW S
    PROVE  /\ PickBest(order, S) \subseteq C \cap S
           /\ PickBest(order, S) \in {{}} \cup {{c} : c \in C}
<1> DEFINE firsts == {k \in 1..n : order[k] \in S /\ \A j \in 1..n : j < k => order[j] \notin S}
<1>1. PickBest(order, S) = {order[i] : i \in firsts}
  BY DEF PickBest
<1>2. \A i, j \in firsts : i = j
  <2> SUFFICES ASSUME NEW i \in firsts, NEW j \in firsts, i # j PROVE FALSE
    OBVIOUS
  <2>1. i < j \/ j < i
    OBVIOUS
  <2> QED BY <2>1
<1>3. \A i \in firsts : order[i] \in C \cap S
  OBVIOUS
<1> HIDE DEF firsts
<1>4. CASE firsts = {}
  BY <1>1, <1>4
<1>5. CASE firsts # {}
  <2>1. PICK i \in firsts : firsts = {i}
    BY <1>2, <1>5
  <2>2. PickBest(order, S) = {order[i]}
    BY <1>1, <2>1
  <2> QED BY <1>3, <2>2
<1> QED BY <1>4, <1>5

\* A loadout is made of routable models.
LEMMA PlanFacts ==
    ASSUME NEW R \in SUBSET (Node \X ModelKey), IsFiniteSet(R), NEW order \in SetToSeqs(R)
    PROVE  /\ PlanLoadout(order) \in [primary : Pick, reviewer : Pick, fallback : Pick]
           /\ PlanLoadout(order).primary \subseteq R
           /\ PlanLoadout(order).reviewer \subseteq R
           /\ PlanLoadout(order).fallback \subseteq R
<1> DEFINE n == Cardinality(R)
           Sound(S) == S \in Pick /\ S \subseteq R
<1>1. n \in Nat /\ order \in [1..n -> R]
  BY FS_CardinalityType DEF SetToSeqs
<1> HIDE DEF n
<1>2. \A S : Sound(PickBest(order, S))
  BY <1>1, PickFacts DEF Pick
<1>3. Sound({})
  BY DEF Pick
<1>4. \A t, S : Sound(PickResilient(order, t, S))
  BY <1>2 DEF PickResilient
<1> HIDE DEF Sound
<1>5. /\ Sound(PlanLoadout(order).primary)
      /\ Sound(PlanLoadout(order).reviewer)
      /\ Sound(PlanLoadout(order).fallback)
  BY <1>2, <1>3, <1>4 DEF PlanLoadout
<1>6. PlanLoadout(order) = [primary |-> PlanLoadout(order).primary,
                            reviewer |-> PlanLoadout(order).reviewer,
                            fallback |-> PlanLoadout(order).fallback]
  BY DEF PlanLoadout
<1> QED BY <1>5, <1>6 DEF Sound

-----------------------------------------------------------------------------
\* No run has the number that stands for none.
LEMMA ZeroNoRun == 0 \notin Run
BY LoadoutAssumption

\* A run probes the nodes and computes its loadout.
LEMMA BuildStep == ASSUME IInv, NEW r \in Run, Build(r) PROVE IInv'
<1>0. PICK ns \in ProbeAllNodes(registry, file.nodes, Node) :
        /\ nodes' = [nodes EXCEPT ![r] = ns]
        /\ \E order \in SetToSeqs(RoutableModels(ns)) :
              loadout' = [loadout EXCEPT ![r] = PlanLoadout(order)]
  BY DEF Build
<1>1. PICK order \in SetToSeqs(RoutableModels(ns)) :
        /\ nodes' = [nodes EXCEPT ![r] = ns]
        /\ loadout' = [loadout EXCEPT ![r] = PlanLoadout(order)]
  BY <1>0
<1>2. /\ pc[r] = "start" /\ pc' = [pc EXCEPT ![r] = "built"]
      /\ UNCHANGED <<registry, flags, version, db, holder, file>>
  BY DEF Build
<1>3. DOMAIN ns \subseteq Node
  BY ProbeNodes DEF IInv, RunsOK
<1>4. RoutableModels(ns) \in SUBSET (Node \X ModelKey) /\ IsFiniteSet(RoutableModels(ns))
  BY <1>3, CountedFinite
<1> DEFINE p == PlanLoadout(order)
<1>5. /\ loadout' = [loadout EXCEPT ![r] = p]
      /\ p \in [primary : Pick, reviewer : Pick, fallback : Pick]
      /\ p.primary \cup p.reviewer \cup p.fallback \subseteq RoutableModels(ns)
  BY <1>1, <1>4, PlanFacts
<1> HIDE DEF p
<1>6. TypeOK'
  BY <1>1, <1>2, <1>5 DEF IInv, TypeOK
<1>7. /\ nodes'[r] = ns /\ loadout'[r] = p /\ pc'[r] = "built"
      /\ \A q \in Run \ {r} : nodes'[q] = nodes[q] /\ loadout'[q] = loadout[q] /\ pc'[q] = pc[q]
  BY <1>1, <1>2, <1>5 DEF IInv, TypeOK, RunsOK
<1>8. RunsOK'
  <2>1. DOMAIN nodes' = Run /\ registry' \in Registries /\ DOMAIN file'.nodes \subseteq Node
    BY <1>1, <1>2 DEF IInv, RunsOK
  <2>2. ASSUME NEW q \in Run
        PROVE  /\ DOMAIN nodes'[q] \subseteq Node
               /\ Assignments(q)' \subseteq RoutableModels(nodes'[q])
    <3>1. CASE q = r
      BY <1>3, <1>5, <1>7, <3>1 DEF Assignments
    <3>2. CASE q # r
      BY <1>7, <3>2 DEF IInv, RunsOK, Assignments
    <3> QED BY <3>1, <3>2
  <2> QED BY <2>1, <2>2 DEF RunsOK
<1>9. SnapshotsOK'
  <2>1. db.current # r
    BY <1>2, ZeroNoRun DEF IInv, SnapshotsOK
  <2>2. db.current # 0 => nodes'[db.current] = nodes[db.current]
    BY <1>7, <2>1 DEF IInv, TypeOK
  <2>3. CurrentIsWhole'
    BY <1>2, <2>2 DEF IInv, SnapshotsOK, CurrentIsWhole
  <2>4. \A q \in Run : pc'[q] \in {"start", "built"} => q \notin db'.snaps
    BY <1>2, <1>7 DEF IInv, SnapshotsOK
  <2> QED BY <1>2, <2>3, <2>4 DEF IInv, SnapshotsOK
<1>10. LockOK'
  BY <1>2, <1>7 DEF IInv, LockOK
<1> QED BY <1>6, <1>8, <1>9, <1>10 DEF IInv

\* A commit makes its run current: what it leaves is its own, whole, and no run
\* waits to publish while the lock is free.
LEMMA PersistStep ==
    ASSUME IInv, NEW r \in Run, NEW acked \in BOOLEAN, Persist(r, acked)
    PROVE  IInv'
<1>1. /\ pc[r] = "built" /\ holder = 0
      /\ db' = WriteSnapshot(r)
      /\ version' = [version EXCEPT ![r] = db.lock + 1]
      /\ pc' = [pc EXCEPT ![r] = IF acked THEN "persisted" ELSE "done"]
      /\ UNCHANGED <<registry, flags, nodes, loadout, holder, file>>
  BY DEF Persist
<1>2. /\ db'.lock = db.lock + 1 /\ db'.current = r /\ db'.snaps = db.snaps \cup {r}
      /\ DOMAIN db'.nodeStates = DOMAIN nodes[r]
      /\ \A x \in DOMAIN nodes[r] : db'.nodeStates[x] = r
      /\ DOMAIN db'.modelStates = RoutableModels(nodes[r])
      /\ \A c \in RoutableModels(nodes[r]) : db'.modelStates[c] = r
      /\ db'.assigned = db.assigned \cup {<<r, c>> : c \in Assignments(r)}
  BY <1>1 DEF WriteSnapshot, DeleteStale, Merge, NodeStates, ModelStates
<1>3. r \notin db.snaps /\ db.snaps \subseteq Run /\ r # 0
  BY <1>1, ZeroNoRun DEF IInv, TypeOK, SnapshotsOK
<1>4. pc'[r] \in {"persisted", "done"} /\ \A q \in Run \ {r} : pc'[q] = pc[q]
  BY <1>1 DEF IInv, TypeOK
<1>5. /\ db.lock \in Nat /\ db'.lock = Cardinality(db'.snaps)
      /\ db'.lock \in 0..Cardinality(Run)
  <2>1. IsFiniteSet(Run)
    BY LoadoutAssumption
  <2>2. IsFiniteSet(db.snaps) /\ Cardinality(db.snaps) \in Nat /\ db.lock = Cardinality(db.snaps)
    BY <1>3, <2>1, FS_Subset, FS_CardinalityType DEF IInv, SnapshotsOK
  <2>3. Cardinality(db.snaps \cup {r}) = Cardinality(db.snaps) + 1
    BY <1>3, <2>2, FS_AddElement
  <2>4. Cardinality(db.snaps \cup {r}) <= Cardinality(Run) /\ Cardinality(Run) \in Nat
    BY <1>3, <2>1, FS_Subset, FS_CardinalityType
  <2> QED BY <1>2, <2>2, <2>3, <2>4
<1>6. DOMAIN nodes[r] \subseteq Node /\ RoutableModels(nodes[r]) \subseteq Node \X ModelKey
  BY CountedFinite DEF IInv, RunsOK
<1>7. TypeOK'
  <2>1. pc' \in [Run -> {"start", "built", "persisted", "checked", "done"}]
    BY <1>1 DEF IInv, TypeOK
  <2>2. version' \in [Run -> Nat]
    BY <1>1, <1>5 DEF IInv, TypeOK
  <2> QED BY <1>1, <1>2, <1>3, <1>5, <1>6, <2>1, <2>2 DEF IInv, TypeOK
<1>8. RunsOK'
  BY <1>1 DEF IInv, RunsOK, Assignments
<1>9. SnapshotsOK'
  <2>1. version'[r] = db'.lock
    BY <1>1, <1>2 DEF IInv, TypeOK
  <2>2. \A q \in Run : pc'[q] \in {"start", "built"} => q \notin db'.snaps
    BY <1>2, <1>4 DEF IInv, SnapshotsOK
  <2>3. \A a \in db'.assigned : a[1] \in db'.snaps
    BY <1>2 DEF IInv, SnapshotsOK
  <2>4. \A a \in db'.assigned : a[1] = r => a[2] \in RoutableModels(nodes[r])
    <3>1. \A a \in db.assigned : a[1] # r
      BY <1>3 DEF IInv, SnapshotsOK
    <3>2. Assignments(r) \subseteq RoutableModels(nodes[r])
      BY DEF IInv, RunsOK
    <3> QED BY <1>2, <3>1, <3>2
  <2>5. CurrentIsWhole'
    BY <1>1, <1>2, <2>4 DEF CurrentIsWhole
  <2> QED BY <1>2, <1>5, <2>1, <2>2, <2>3, <2>5 DEF SnapshotsOK
<1>10. LockOK'
  BY <1>1, <1>4, ZeroNoRun DEF IInv, LockOK
<1> QED BY <1>7, <1>8, <1>9, <1>10 DEF IInv

\* Steps that leave the database and the snapshots alone and move a run on.
LEMMA PublisherStep ==
    ASSUME IInv, NEW r \in Run,
           PublishCheck(r) \/ PublishWrite(r) \/ DryRun(r) \/ Abort(r)
    PROVE  IInv'
<1>1. /\ pc[r] # "start" \/ pc'[r] = "done"
      /\ \E p \in {"checked", "done"} : pc' = [pc EXCEPT ![r] = p]
      /\ UNCHANGED <<registry, flags, nodes, loadout, version, db>>
      /\ file' = file \/ (file'.by \in {r, 0} /\ file'.nodes = nodes[r])
  BY DEF IInv, TypeOK, PublishCheck, PublishWrite, DryRun, Abort
<1>2. pc'[r] \in {"checked", "done"} /\ \A q \in Run \ {r} : pc'[q] = pc[q]
  BY <1>1 DEF IInv, TypeOK
<1>3. LockOK' /\ holder' \in Run \cup {0}
  <2>1. CASE PublishCheck(r)
    <3>1. holder = 0 /\ \/ db.current = r /\ holder' = r /\ pc'[r] = "checked"
                        \/ holder' = 0 /\ pc'[r] = "done"
      BY <2>1 DEF IInv, TypeOK, PublishCheck
    <3> QED BY <1>1, <1>2, <3>1, ZeroNoRun DEF IInv, LockOK
  <2>2. CASE PublishWrite(r)
    <3>1. holder = r /\ holder' = 0 /\ pc'[r] = "done"
      BY <2>2 DEF IInv, TypeOK, LockOK, PublishWrite
    <3> QED BY <1>1, <1>2, <3>1, ZeroNoRun DEF IInv, LockOK
  <2>3. CASE DryRun(r)
    <3>1. holder' = holder /\ pc[r] = "built" /\ pc'[r] = "done"
      BY <2>3 DEF IInv, TypeOK, DryRun
    <3> QED BY <1>1, <1>2, <3>1 DEF IInv, LockOK, TypeOK
  <2>4. CASE Abort(r)
    <3>1. pc'[r] = "done" /\ holder' = IF holder = r THEN 0 ELSE holder
      BY <2>4 DEF IInv, TypeOK, Abort
    <3> QED BY <1>1, <1>2, <3>1, ZeroNoRun DEF IInv, LockOK, TypeOK
  <2> QED BY <2>1, <2>2, <2>3, <2>4
<1>4. TypeOK'
  BY <1>1, <1>3 DEF IInv, TypeOK
<1>5. RunsOK'
  BY <1>1 DEF IInv, RunsOK, Assignments
<1>6. SnapshotsOK'
  BY <1>1, <1>2 DEF IInv, SnapshotsOK, CurrentIsWhole
<1> QED BY <1>3, <1>4, <1>5, <1>6 DEF IInv

\* Nothing is stored, and nobody holds the lock, at the start.
LEMMA InvariantInitially == ASSUME Init PROVE IInv
<1>1. Cardinality(Run) \in Nat /\ Cardinality({}) = 0
  BY LoadoutAssumption, FS_CardinalityType, FS_EmptySet
<1>2. NoLoadout \in [primary : Pick, reviewer : Pick, fallback : Pick] /\ DOMAIN NoNodes = {}
  BY DEF NoLoadout, NoNodes, Pick
<1>3. TypeOK
  BY <1>1, <1>2 DEF Init, TypeOK
<1>4. RunsOK
  BY <1>2 DEF Init, RunsOK, Assignments, NoLoadout
<1>5. SnapshotsOK
  BY <1>1 DEF Init, SnapshotsOK, CurrentIsWhole
<1>6. LockOK
  BY ZeroNoRun DEF Init, LockOK
<1> QED BY <1>3, <1>4, <1>5, <1>6 DEF IInv

\* The invariant holds throughout.
LEMMA InvariantHolds == Spec => []IInv
<1>1. Init => IInv
  BY InvariantInitially
<1>2. IInv /\ [Next]_vars => IInv'
  <2> SUFFICES ASSUME IInv, [Next]_vars PROVE IInv'
    OBVIOUS
  <2>1. CASE UNCHANGED vars
    BY <2>1 DEF vars, IInv, TypeOK, RunsOK, SnapshotsOK, LockOK, Assignments, CurrentIsWhole
  <2>2. CASE Next
    BY <2>2, BuildStep, PersistStep, PublisherStep DEF Next
  <2> QED BY <2>1, <2>2
<1> QED BY <1>1, <1>2, PTL DEF Spec

\* Plans have at most one model for a slot, and every run gets one lock version at
\* most, for any fleet and any runs.
THEOREM TypeCorrect == Spec => []TypeOK
<1>1. IInv => TypeOK
  BY DEF IInv
<1> QED BY <1>1, InvariantHolds, PTL

\* Whatever runs interleave and wherever they are killed, a reader who follows the
\* current flag finds the whole of one probe (persist_to_neo4j).
THEOREM CurrentStaysWhole == Spec => []CurrentIsWhole
<1>1. IInv => CurrentIsWhole
  BY DEF IInv, SnapshotsOK
<1> QED BY <1>1, InvariantHolds, PTL

\* A run that was overtaken never writes its report over a newer one
\* (publish_committed_report).
THEOREM PublishesCurrent == Spec => PublishedIsCurrent
<1> DEFINE P == file' # file /\ file'.by # 0 =>
                  file'.by = db'.current /\ file'.version = db'.lock
<1>1. ASSUME IInv, [Next]_vars PROVE [P]_vars
  <2> SUFFICES ASSUME Next, file' # file, file'.by # 0
               PROVE  file'.by = db'.current /\ file'.version = db'.lock
    BY <1>1
  <2>1. PICK r \in Run : PublishWrite(r)
    BY DEF Next, Build, DryRun, Persist, PublishCheck, Abort
  <2>2. /\ pc[r] = "checked" /\ db' = db
        /\ file'.by = r /\ file'.version = version[r]
    BY <2>1 DEF PublishWrite
  <2>3. holder = r /\ db.current = r /\ version[r] = db.lock
    BY <1>1, <2>2, ZeroNoRun DEF IInv, LockOK, SnapshotsOK
  <2> QED BY <2>2, <2>3
<1> QED BY <1>1, InvariantHolds, PTL DEF Spec, PublishedIsCurrent

\* The share of the models, or of the nodes, that the validation leaves.
LEMMA KeptShare ==
    ASSUME NEW before \in Nat, NEW after \in Nat, ~Dropped(before, after)
    PROVE  after * DropDen >= before * (DropDen - DropNum)
<1>1. DropDen \in Nat /\ DropNum \in Nat
  BY LoadoutAssumption
<1>2. CASE before = 0
  BY <1>1, <1>2
<1>3. CASE before > 0
  <2>1. ~((before - after) * DropDen > DropNum * before)
    BY <1>3 DEF Dropped
  <2> QED BY <1>1, <2>1
<1> QED BY <1>2, <1>3

\* A snapshot that lost more than the allowed share of the models or nodes of the
\* one it replaces is there on request only (_validate_snapshot_degradation).
THEOREM CollapseIsAsked == Spec => NoSilentCollapse
<1> DEFINE kept(S, T) == Cardinality(T) * DropDen >= Cardinality(S) * (DropDen - DropNum)
           P == db'.current # db.current /\ db.current # 0
                   /\ flags[db'.current] \cap {"degraded", "empty"} = {} =>
                  /\ kept(RoutableModels(nodes[db.current]), RoutableModels(nodes[db'.current]))
                  /\ kept(AuthoritativeNodes(nodes[db.current]), AuthoritativeNodes(nodes[db'.current]))
<1>1. ASSUME IInv, [Next]_vars PROVE [P]_vars
  <2> SUFFICES ASSUME Next, db'.current # db.current, db.current # 0,
                      flags[db'.current] \cap {"degraded", "empty"} = {}
               PROVE  /\ kept(RoutableModels(nodes[db.current]), RoutableModels(nodes[db'.current]))
                      /\ kept(AuthoritativeNodes(nodes[db.current]), AuthoritativeNodes(nodes[db'.current]))
    BY <1>1
  <2>1. PICK r \in Run, acked \in BOOLEAN : Persist(r, acked)
    BY DEF Next, Build, DryRun, PublishCheck, PublishWrite, Abort
  <2>2. db'.current = r /\ NotDegraded(r, db.current) /\ db.current \in Run
    BY <1>1, <2>1 DEF Persist, WriteSnapshot, IInv, TypeOK
  <2> DEFINE a == nodes[db.current]
             b == nodes[r]
  <2>3. /\ ~Dropped(Cardinality(RoutableModels(a)), Cardinality(RoutableModels(b)))
        /\ ~Dropped(Cardinality(AuthoritativeNodes(a)), Cardinality(AuthoritativeNodes(b)))
    BY <2>2 DEF NotDegraded
  <2>4. DOMAIN a \subseteq Node /\ DOMAIN b \subseteq Node
    BY <1>1, <2>2 DEF IInv, RunsOK
  <2> HIDE DEF a, b
  <2>5. /\ kept(RoutableModels(a), RoutableModels(b))
        /\ kept(AuthoritativeNodes(a), AuthoritativeNodes(b))
    BY <2>3, <2>4, CountedFinite, KeptShare
  <2> QED BY <2>2, <2>5 DEF a, b
<1> QED BY <1>1, InvariantHolds, PTL DEF Spec, NoSilentCollapse
=============================================================================

----------------------- MODULE BenchmarkQualification -----------------------
(***************************************************************************)
(* What benchmarks say a model may be used for (benchmark_qualification    *)
(* .py): a response of the model under test becomes a row of evidence, the *)
(* rows of one model and task family become statistics, and the statistics *)
(* a role.  Rates and confidences are in thousandths, as the code rounds   *)
(* them.  A field the harness left out is "unset".                         *)
(***************************************************************************)
EXTENDS Integers, Sequences, FiniteSets, FiniteSetsExt

CONSTANTS
    Responses,        \* what the harness may hand over
    MaxResponses,
    ConfidenceFloor   \* in thousandths

Levels == 0..4        \* L0_PROTOCOL .. L4_PATCH
NoLevel == -1
FailureModes == {"empty_usable_content", "reasoning_only_output", "length_truncated", "timeout",
                 "context_not_grounded", "wrong_response_field", "invalid_patch", "test_failure"}

\* A response, with what the harness says of it; "unknown" is any failure mode
\* the router has no name for.
Response == [named : BOOLEAN, level : Int, succeeded : BOOLEAN,
             failure_mode : FailureModes \cup {"none", "unknown"},
             content : BOOLEAN, reasoning : BOOLEAN, finish : STRING, timed_out : BOOLEAN,
             wrong_field : BOOLEAN, grounding : {"yes", "no", "unset"},
             patch_valid : {"yes", "no", "unset"}, tests_passed : {"yes", "no", "unset"},
             confidence : Int, first_token : BOOLEAN, reached : {"yes", "no", "unset"},
             visible : {"yes", "no", "unset"}, model_loaded : {"yes", "no", "unset"}]

ASSUME EvidenceAssumption ==
    /\ Responses \subseteq Response
    /\ MaxResponses \in Nat /\ ConfidenceFloor \in 0..1000

VARIABLE responses    \* the responses so far, in order

EvidenceInit == responses = <<>>

Observe ==
    /\ Len(responses) < MaxResponses
    /\ \E r \in Responses : responses' = Append(responses, r)

-----------------------------------------------------------------------------
\* The failure a response shows by itself, most specific first.
DerivedMode(r) ==
    CASE r.timed_out -> "timeout"
      [] ~r.timed_out /\ r.finish = "length" -> "length_truncated"
      [] ~r.timed_out /\ r.finish # "length" /\ r.wrong_field -> "wrong_response_field"
      [] ~r.timed_out /\ r.finish # "length" /\ ~r.wrong_field /\ ~r.content ->
            IF r.reasoning THEN "reasoning_only_output" ELSE "empty_usable_content"
      [] OTHER -> "none"

\* Mutant: what the harness says of the outcome is believed.
EvidenceFromResponse_Believes(r) == [r EXCEPT !.failure_mode = r.failure_mode]

\* evidence_from_response: what the response shows comes before what the
\* harness says of it.
EvidenceFromResponse(r) ==
    LET mode == IF DerivedMode(r) # "none" THEN DerivedMode(r) ELSE r.failure_mode
    IN  [r EXCEPT !.failure_mode = mode, !.succeeded = mode = "none"]

\* normalize_evidence: hard rejections drop the row, gaps are filled.
Acceptable(row) == row.named /\ row.level \in Levels /\ row.failure_mode \in FailureModes \cup {"none"}
NormalizeEvidence(row) ==
    LET or(said, default) == IF said # "unset" THEN said ELSE IF default THEN "yes" ELSE "no"
    IN  [row EXCEPT !.confidence = IF @ < 0 THEN 0 ELSE IF @ > 1000 THEN 1000 ELSE @,
                    !.reached = or(@, row.succeeded \/ row.first_token),
                    !.visible = or(@, TRUE),
                    !.model_loaded = or(@, row.succeeded)]

\* normalize_evidence_rows.
Rows == LET built(k) == EvidenceFromResponse(responses[k])
        IN  [k \in {j \in DOMAIN responses : Acceptable(built(j))} |-> NormalizeEvidence(built(k))]

\* classify_failure: one named cause for every row that did not pass.  A
\* normalised row keeps neither the response field nor the timeout (error_type
\* is left unset).
ClassifyFailure(row) ==
    CASE row.failure_mode # "none" -> row.failure_mode
      [] row.failure_mode = "none" /\ row.succeeded -> "none"
      [] OTHER -> IF row.finish = "length" THEN "length_truncated"
                  ELSE IF ~row.content THEN (IF row.reasoning THEN "reasoning_only_output" ELSE "empty_usable_content")
                  ELSE IF row.patch_valid = "no" THEN "invalid_patch"
                  ELSE IF row.tests_passed = "no" THEN "test_failure" ELSE "context_not_grounded"

\* annotate_failure.
Passed(row) == ClassifyFailure(row) = "none"

-----------------------------------------------------------------------------
Count(rows, S) == Cardinality({k \in DOMAIN rows : rows[k] \in S})
Having(rows, field, value) == {row \in {rows[k] : k \in DOMAIN rows} : row[field] = value}
Passing(rows) == {row \in {rows[k] : k \in DOMAIN rows} : Passed(row)}

\* A share rounded to three places.
Rate(part, whole) == IF whole = 0 THEN 0 ELSE (2000 * part + whole) \div (2 * whole)

\* _highest_level.
HighestLevel(S) == Max({NoLevel} \cup {row.level : row \in S})

\* evidence_stats.
EvidenceStats(rows) ==
    LET graded == Having(rows, "grounding", "yes") \cup Having(rows, "grounding", "no")
    IN  [pass_rate |-> Rate(Count(rows, Passing(rows)), Cardinality(DOMAIN rows)),
         highest |-> HighestLevel(Passing(rows)),
         grounding |-> Rate(Count(rows, Having(rows, "grounding", "yes")), Count(rows, graded)),
         confidence |-> Max({0} \cup {rows[k].confidence : k \in DOMAIN rows}),
         failures |-> {ClassifyFailure(rows[k]) : k \in DOMAIN rows} \ {"none"}]

\* QUALIFICATION_ROLES, strictest first; UNQUALIFIED is no role.
Roles == <<"CODE_QUALIFIED", "REVIEW_QUALIFIED", "SCOUT_QUALIFIED", "SUMMARY_ONLY">>

\* QUALITY_FLOORS.
QualityFloors(role) ==
    CASE role = "CODE_QUALIFIED"   -> [level |-> 4, pass |-> 800, grounding |-> 800, confidence |-> 600]
      [] role = "REVIEW_QUALIFIED" -> [level |-> 3, pass |-> 700, grounding |-> 600, confidence |-> 500]
      [] role = "SCOUT_QUALIFIED"  -> [level |-> 1, pass |-> 500, grounding |-> 500, confidence |-> 400]
      [] role = "SUMMARY_ONLY"     -> [level |-> 1, pass |-> 0, grounding |-> 0, confidence |-> 200]

\* BLOCKING_FAILURE_MODES.
BlockingModes(role) ==
    CASE role = "CODE_QUALIFIED"   -> {"invalid_patch", "test_failure", "empty_usable_content", "timeout"}
      [] role = "REVIEW_QUALIFIED" -> {"empty_usable_content", "timeout"}
      [] OTHER -> {}

\* evaluate_role_floor.
MeetsFloor(role, stats) ==
    LET floor == QualityFloors(role)
    IN  /\ stats.highest >= floor.level
        /\ stats.pass_rate >= floor.pass
        /\ stats.grounding >= floor.grounding
        /\ stats.confidence >= Max({ConfidenceFloor, floor.confidence})
        /\ stats.failures \cap BlockingModes(role) = {}

\* derive_role: the first floor that is met.
DeriveRole(rows) ==
    LET met == {k \in DOMAIN Roles : MeetsFloor(Roles[k], EvidenceStats(rows))}
    IN  IF met = {} THEN "UNQUALIFIED" ELSE Roles[Min(met)]

\* derive_capabilities: what was demonstrated, a pass implying the lower levels.
Capabilities(rows) ==
    LET highest == HighestLevel(Having(rows, "succeeded", TRUE))
        loaded == Having(rows, "model_loaded", "yes") # {}
        grounded == Having(rows, "grounding", "yes")
        review == loaded /\ highest >= 3 /\ grounded \cap Having(rows, "succeeded", TRUE) # {}
    IN  [protocol |-> highest >= 0,
         grounding |-> loaded /\ highest >= 1 /\ grounded # {},
         review |-> review,
         coding |-> review /\ highest >= 4
                      /\ \E row \in Having(rows, "level", 4) : row.patch_valid = "yes" /\ row.tests_passed = "yes"]

\* classify_endpoint_observation; a normalised row keeps no protocol_usable.
Rung(row) ==
    IF row.reached # "yes" THEN 1
    ELSE IF row.visible # "yes" THEN 2
    ELSE IF row.model_loaded # "yes" THEN 3 ELSE 4

\* _endpoint_status_summary: the best of all rows.
EndpointLadder == <<"UNREACHABLE", "REACHABLE", "MODEL_VISIBLE", "MODEL_LOADED">>
EndpointStatus(rows) == EndpointLadder[Max({1} \cup {Rung(rows[k]) : k \in DOMAIN rows})]

\* next_benchmark_targets: the rung above the highest passed.
NextTarget(rows) == {l \in Levels : l = HighestLevel(Having(rows, "succeeded", TRUE)) + 1}

\* build_qualification_report: the entry of the model.
Entry == [role |-> DeriveRole(Rows), capabilities |-> Capabilities(Rows),
          endpoint |-> EndpointStatus(Rows), target |-> NextTarget(Rows)]

-----------------------------------------------------------------------------
\* A role is earned by responses, not by what the harness says of them: a model
\* with a role has answered at the level the role asks for with content of its
\* own, in the right field, in time and to the end; for coders and reviewers no
\* answer timed out or came back empty; and what the report derives on other
\* paths agrees: the protocol is usable, the rung to measure next is above the
\* level of the role, and the endpoint counts as unreachable only if the harness
\* said so of every clean answer.
RoleIsEarned ==
    LET entry == Entry
        clean(r) == r.content /\ ~r.wrong_field /\ ~r.timed_out /\ r.finish # "length" /\ r.failure_mode = "none"
        empty(r) == ~r.content /\ ~r.reasoning /\ r.finish # "length" /\ ~r.wrong_field
    IN  entry.role # "UNQUALIFIED" =>
          /\ \E k \in DOMAIN responses :
                clean(responses[k]) /\ responses[k].named
                  /\ responses[k].level >= QualityFloors(entry.role).level
          /\ entry.role \in {"CODE_QUALIFIED", "REVIEW_QUALIFIED"} =>
                \A k \in DOMAIN responses :
                    Acceptable(responses[k]) => ~responses[k].timed_out /\ ~empty(responses[k])
          /\ entry.capabilities.protocol
          /\ \A l \in entry.target : l > QualityFloors(entry.role).level
          /\ entry.endpoint = "UNREACHABLE" =>
                \A k \in DOMAIN responses :
                    clean(responses[k]) /\ Acceptable(responses[k]) => responses[k].reached = "no"
=============================================================================

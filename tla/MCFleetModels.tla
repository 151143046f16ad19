--------------------------- MODULE MCFleetModels ----------------------------
(***************************************************************************)
(* Two providers with one catalogue of two models: one managed, one static *)
(* or not yet discovered.                                                  *)
(***************************************************************************)
EXTENDS FleetModels

listing(a, b) == [big |-> a, small |-> b]

const_Provider == {"beelink", "xwing"}
const_Model == {"big", "small"}
const_Listings == {listing("loaded", "absent"), listing("idle", "absent"), listing("idle", "loaded")}
const_FirstWorld == [beelink |-> listing("loaded", "absent"), xwing |-> listing("idle", "absent")]
const_FirstRows ==
    [beelink |-> <<>>, xwing |-> <<[ok |-> "up", listing |-> listing("idle", "absent"), at |-> -1]>>]
const_StaticModels == [p \in const_Provider |-> {"big"}]
const_Desired == <<<<"beelink", "big">>, <<"xwing", "big">>>>

const_Reports ==
    {[id |-> "execution", how |-> "execution", kind |-> k] : k \in {"success", "refused"}}
    \cup {[id |-> "health", how |-> "health", kind |-> "bad"]}
    \cup {[id |-> "decision", how |-> "decision", kind |-> "rejected"]}

response(level, grounding, confidence) ==
    [named |-> TRUE, level |-> level, failure_mode |-> "none", succeeded |-> TRUE, content |-> TRUE,
     reasoning |-> FALSE, finish |-> "stop", timed_out |-> FALSE, wrong_field |-> FALSE,
     grounding |-> grounding, patch_valid |-> "unset", tests_passed |-> "unset",
     confidence |-> confidence, first_token |-> FALSE,
     reached |-> "unset", visible |-> "unset", model_loaded |-> "unset"]
good == response(4, "yes", 650)
const_Responses ==
    {response(level, grounding, confidence) :
        level \in {0, 1, 3, 4}, grounding \in {"yes", "unset"}, confidence \in {450, 550, 650}}
    \cup {[good EXCEPT !.timed_out = TRUE], [good EXCEPT !.finish = "length"],
          [good EXCEPT !.wrong_field = TRUE], [good EXCEPT !.content = FALSE],
          [good EXCEPT !.content = FALSE, !.reasoning = TRUE], [good EXCEPT !.level = 5],
          [good EXCEPT !.failure_mode = "test_failure", !.tests_passed = "no"],
          [good EXCEPT !.patch_valid = "yes", !.tests_passed = "yes"],
          [good EXCEPT !.grounding = "no"], [good EXCEPT !.named = FALSE],
          [good EXCEPT !.reached = "no"], [good EXCEPT !.visible = "no"],
          [good EXCEPT !.timed_out = TRUE, !.first_token = TRUE]}
=============================================================================

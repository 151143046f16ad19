--------------------------- MODULE MCRoutingPolicy ---------------------------
(***************************************************************************)
(* Three providers: a local runtime with tools, a hosted one and a local   *)
(* observer, which the context lists under a name of its own; nine bodies  *)
(* that take every way to a plan, private, with tools and by exact model.  *)
(***************************************************************************)
EXTENDS RoutingPolicy, TLC

const_Provider == {"lan", "cloud", "watch"}

const_Traits ==
    [p \in const_Provider |->
        CASE p = "lan" -> [class |-> "local", lmstudio |-> TRUE, alias |-> "m-lan",
                caps |-> {"chat", "tool_use"}, observer |-> FALSE, code |-> TRUE,
                roles |-> {"full_agent"}, floor |-> <<"summarization", "failed">>]
          [] p = "cloud" -> [class |-> "fast_free", lmstudio |-> FALSE, alias |-> "m-cloud",
                caps |-> {"chat", "low_latency"}, observer |-> FALSE, code |-> FALSE,
                roles |-> {}, floor |-> <<"coding", "passed">>]
          [] p = "watch" -> [class |-> "local", lmstudio |-> FALSE, alias |-> "m-watch",
                caps |-> {"chat"}, observer |-> TRUE, code |-> TRUE,
                roles |-> {"summarization"}, floor |-> <<"coding", "passed">>]]

Plain == [model |-> "auto", priority |-> "interactive", marked |-> FALSE,
          local_only |-> FALSE, allow_cloud |-> "unset", profile |-> "",
          handoff |-> FALSE, task |-> FALSE, tools |-> FALSE, family |-> ""]

const_Bodies ==
    {Plain,
     [Plain EXCEPT !.marked = TRUE, !.profile = "interactive"],
     [Plain EXCEPT !.model = "auto/sophia"],
     [Plain EXCEPT !.model = "m-cloud", !.allow_cloud = "no"],
     [Plain EXCEPT !.model = "m-watch", !.local_only = TRUE],
     [Plain EXCEPT !.priority = "critical", !.family = "coding", !.tools = TRUE],
     [Plain EXCEPT !.model = "auto/summarize", !.task = TRUE],
     [Plain EXCEPT !.priority = "local_only", !.handoff = TRUE],
     [Plain EXCEPT !.model = "m-lan"]}

const_ListedAs == [lan |-> "lan", cloud |-> "cloud", watch |-> "observer"]

const_FirstView == [lan |-> "unknown", cloud |-> "free_api", watch |-> "unknown"]

const_Stages ==
    [interactive |-> <<[purpose |-> "final", classes |-> {}, caps |-> {"chat"}]>>,
     sophia_realtime |-> <<[purpose |-> "final", classes |-> {"local", "fast_free"},
                            caps |-> {"chat", "low_latency"}]>>,
     high_priority_deliverable |-> <<
        [purpose |-> "draft", classes |-> {"local"}, caps |-> {"chat"}],
        [purpose |-> "refine", classes |-> {}, caps |-> {"chat"}]>>]
=============================================================================

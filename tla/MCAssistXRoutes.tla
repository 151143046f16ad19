--------------------------- MODULE MCAssistXRoutes ---------------------------
(***************************************************************************)
(* Two workers and two job identifiers, one of them the caller's; one      *)
(* memory, an ingest event that comes with two contents and a second       *)
(* ingest of the memory; one provider that only looks local.               *)
(***************************************************************************)
EXTENDS AssistXRoutes

none == [kind |-> {}, requires_tools |-> {}, stage |-> {}, evidence |-> {}, lane |-> {}, tools |-> {},
         allowed |-> {}, priority |-> {}, write |-> {}, commit |-> {}, network |-> {}]
payload(kind, tools, preferred) ==
    [job |-> "j1", body |-> [none EXCEPT !.kind = kind, !.tools = tools], metadata |-> none,
     keywords |-> {}, hints |-> {}, finalized |-> FALSE, preferred |-> preferred,
     validation |-> "none", mems |-> {"m1"}]

const_Job == {"j1", "u1"}
const_Worker == {"hermes", "codex"}
const_Toolsets == [hermes |-> ToolsOfKind("research") \cup ToolsOfKind("code"),
                   codex |-> {"terminal", "file"}]
const_AllowedPriorities == [hermes |-> {}, codex |-> {"repo_critical"}]
const_Rank == [hermes |-> 2, codex |-> 1]
const_Payloads == {payload({"code"}, {}, <<>>), payload({"research"}, {}, <<"codex">>)}
const_RouteRequests ==
    {[payload |-> payload({}, {{"file"}}, <<>>), asks |-> {"repo"}, requested |-> "none"]}
      \cup {[payload |-> payload({}, {}, <<>>), asks |-> {}, requested |-> name] :
              name \in {"none", "qwen", "old-qwen"}}
\* A model of a local provider, and one of a provider that is no longer enabled.
const_KnownModels ==
    [name \in {"qwen", "old-qwen"} |->
        [provider |-> IF name = "qwen" THEN "lmstudio" ELSE "desk",
         local |-> TRUE, blocked |-> FALSE]]
const_KnownProviders ==
    [name \in {"lmstudio", "relay", "desk"} |-> [provider |-> name, local |-> TRUE]]
const_Providers ==
    {[name |-> "relay", quota |-> "free", tailnet |-> TRUE, priority |-> 1],
     [name |-> "lmstudio", quota |-> "local", tailnet |-> FALSE, priority |-> 2]}

const_Memory == {"m1"}
ingest(id, privacy, confidence) ==
    [id |-> id, privacy |-> privacy,
     content |-> [mem |-> "m1", confidence |-> confidence, active |-> TRUE,
                  reuses |-> IF id = "i2" THEN 1 ELSE 0, contradictions |-> 0]]
const_Ingests == {ingest("i1", "fleet", 10), ingest("i1", "local_only", 98), ingest("i2", "local_only", 98)}
const_Lifecycles ==
    {[id |-> "l1", privacy |-> "local_only", content |-> [mem |-> "m1", action |-> "deactivated"]]}
const_Reports ==
    {[id |-> "o1", privacy |-> "local_only",
      content |-> [mems |-> {"m1"}, success |-> TRUE, validation |-> "failed"]]}

item(privacy, local, cloud, priority) ==
    [id |-> "task", privacy |-> privacy, local |-> local, sensitive |-> FALSE, cloud |-> cloud,
     priority |-> priority, queue |-> "backlog"]
const_Items ==
    {item(privacy, local, cloud, priority) :
        privacy \in {"", "local_only", "private", "voice_auth"}, local \in BOOLEAN,
        cloud \in {{}, {TRUE}, {FALSE}}, priority \in {"batch", "critical"}}
cand(name, quota, local) == [name |-> name, quota |-> quota, local_only |-> local]
const_Plans ==
    {<<cand("gemini", "free", FALSE), cand("lmstudio", "local", TRUE)>>,
     <<cand("ollama", "local", FALSE), cand("gemini", "free", FALSE)>>}
=============================================================================

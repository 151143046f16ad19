------------------------------ MODULE AgentJobs ------------------------------
(***************************************************************************)
(* agent_jobs.py, agent_workers.py and task_contract.py: what a job asks   *)
(* of its worker, and what becomes of it.  Jobs are kept in memory by      *)
(* their identifier, each submission starts a task of its own, and a task  *)
(* runs whatever record the identifier stands for when it gets its turn.   *)
(* Its end is reported to the memory store, which outlives it.             *)
(*                                                                         *)
(* A task's code up to the start of the worker's process, and its code     *)
(* from the end of the process to the outcome in the local store, run      *)
(* without an await.  Submission numbers stand for the records.            *)
(***************************************************************************)
EXTENDS MemoryStore, Sequences, SequencesExt

CONSTANTS
    Job,
    MaxSubmissions,  \* bound: records there may be at a time
    Payloads,        \* what callers of /jobs/agent send
    Worker,
    Toolsets, AllowedPriorities,  \* of each worker; {}: any priority
    Rank             \* its place in the order of (priority, name)

ASSUME JobAssumption ==
    /\ MaxSubmissions \in Nat \ {0}
    /\ Rank \in [Worker -> Nat] /\ \A v, w \in Worker : Rank[v] = Rank[w] => v = w
    /\ \A p \in Payloads : p.job \in Job /\ p.mems \subseteq Memory

VARIABLES
    jobs,       \* the record an identifier stands for: [Job -> 0..MaxSubmissions]
    recs,       \* the records: [request, status, worker]
    tasks       \* the task of each submission: [pc, rec]

jobVars == <<jobs, recs, tasks>>

Submission == 1..MaxSubmissions
Ended == {"succeeded", "failed", "timeout", "unavailable"}
NoRecord == [request |-> {}, status |-> "none", worker |-> "none"]
NoTask == [pc |-> "none", rec |-> 0]

JobTypeOK ==
    /\ jobs \in [Job -> 0..MaxSubmissions]
    /\ \A n \in Submission :
        /\ recs[n].status \in Ended \cup {"none", "queued", "running"}
        /\ recs[n].worker \in Worker \cup {"none"}
        /\ tasks[n].pc \in {"none", "new", "run", "killed", "held", "ended", "died"}
        /\ tasks[n].rec \in 0..MaxSubmissions

JobInit ==
    /\ jobs = [j \in Job |-> 0]
    /\ recs = [n \in Submission |-> NoRecord]
    /\ tasks = [n \in Submission |-> NoTask]

-----------------------------------------------------------------------------
\* build_agent_job_request and the contract: a payload has a body and metadata; an
\* optional field is the set of the values given (none or one), and the body goes
\* before the metadata.  The words of the task are abstracted to the kinds of work
\* they stand for: "keywords" those normalize_task_kind knows, "hints" those of
\* _tool_worker_preferences.  Plan steps, metrics, checkpoints and the texts of a
\* task are wording and left out.

Coding == {"code", "implementation", "refinement", "repair", "review", "repo", "patch"}
Writing == {"research", "analysis", "documentation", "docs"}
Operating == {"operations", "terminal", "shell"}
FinalStages == {"handoff", "final", "finalized", "review_final"}

Given(p, f) == IF p.body[f] # {} THEN p.body[f] ELSE p.metadata[f]
Or(S, default) == IF S = {} THEN default ELSE CHOOSE x \in S : TRUE

\* The kind given, else the first whose keywords the text has.
NormalizeTaskKind(p) ==
    LET hits == SelectSeq(<<"research", "analysis", "refinement", "operations", "code">>,
                          LAMBDA k : k \in p.keywords)
    IN  Or(Given(p, "kind"), IF hits # <<>> THEN Head(hits) ELSE "general")

TaskRequiresTools(p) ==
    Or(Given(p, "requires_tools"),
       \/ p.finalized
       \/ Or(Given(p, "stage"), "") \in FinalStages
       \/ NormalizeTaskKind(p) \in {"research", "analysis", "operations", "code"})

TaskEvidenceRequired(p) ==
    Or(Given(p, "evidence"), NormalizeTaskKind(p) \in {"research", "analysis"})

TaskCapabilityLane(p) ==
    Or(Given(p, "lane"), IF TaskRequiresTools(p) THEN "tool_required" ELSE "prompt_only")

TaskWorkflowStage(p) ==
    Or(Given(p, "stage"),
       IF p.finalized THEN "handoff"
       ELSE IF TaskRequiresTools(p) THEN "iterative" ELSE "prompt_only")

ToolsOfKind(kind) ==
    CASE kind \in Coding -> {"terminal", "file", "code_execution", "skills"}
      [] kind \in Writing -> {"web", "browser", "file", "terminal", "session_search", "memory", "skills"}
      [] kind \in Operating -> {"terminal", "file", "code_execution"}
      [] OTHER -> {}

\* _default_enabled_toolsets: an empty list asks for the default, not for nothing.
EnabledToolsets(p) ==
    LET asked == Or(Given(p, "tools"), {})
    IN  IF asked # {} THEN asked
        ELSE IF TaskWorkflowStage(p) \in FinalStages THEN {"file", "terminal", "session_search", "skills"}
        ELSE ToolsOfKind(NormalizeTaskKind(p))

AllowedTools(p) ==
    IF Or(Given(p, "allowed"), {}) = {} THEN EnabledToolsets(p) ELSE Or(Given(p, "allowed"), {})

\* _tool_worker_preferences: by the stage, the kind given (never the one inferred)
\* or the hints; then whoever the caller names.
ToolWorkerPreferences(p) ==
    LET kind == Or(Given(p, "kind"), "")
        own == IF TaskWorkflowStage(p) \in FinalStages
               THEN <<"hermes", "hermes-mini", "hermes-draft", "codex", "opencode", "gemini-cli">>
               ELSE IF kind \in Coding \/ "code" \in p.hints
               THEN <<"hermes-mini", "hermes", "codex", "opencode">>
               ELSE IF kind \in Writing \/ "research" \in p.hints
               THEN <<"hermes-draft", "hermes-mini", "hermes", "gemini-cli", "codex">>
               ELSE IF kind \in Operating \/ "operations" \in p.hints
               THEN <<"hermes-mini", "hermes", "opencode", "codex">>
               ELSE <<>>
    IN  (IF "portfolio" \in p.hints THEN <<"xwing">> ELSE <<>>) \o own \o p.preferred

\* build_agent_job_request.  memory: the memories the caller was given.
BuildAgentJobRequest(p) ==
    [job |-> p.job,
     tools |-> EnabledToolsets(p), allowed |-> AllowedTools(p),
     preferred |-> ToolWorkerPreferences(p),
     priority |-> Or(Given(p, "priority"), "repo_critical"),
     write |-> Or(Given(p, "write"), FALSE),
     commit |-> Or(Given(p, "commit"), FALSE),
     network |-> Or(Given(p, "network"), TRUE),
     evidence |-> TaskEvidenceRequired(p), lane |-> TaskCapabilityLane(p),
     validation |-> p.validation, mems |-> p.mems]

-----------------------------------------------------------------------------
\* _toolsets_match and _priority_allowed
Suits(w, r) ==
    /\ r.tools \subseteq Toolsets[w]
    /\ AllowedPriorities[w] = {} \/ r.priority \in AllowedPriorities[w]

\* _choose_adapter: the first worker preferred that is available and suits, else
\* the first by rank.
ChooseAdapter(r, available) ==
    LET suited == {w \in available : Suits(w, r)}
        wanted == {k \in DOMAIN r.preferred : r.preferred[k] \in suited}
    IN  IF wanted # {} THEN {r.preferred[k] : k \in {i \in wanted : \A j \in wanted : i <= j}}
        ELSE {w \in suited : \A v \in suited : Rank[w] <= Rank[v]}

Unused == {n \in Submission : recs[n].status = "none"}

\* submit: a job with the same identifier is replaced; its task stays.
Submit(request) ==
    /\ Unused # {}
    /\ LET n == CHOOSE k \in Unused : \A m \in Unused : k <= m IN
       /\ recs' = [recs EXCEPT ![n] = [request |-> request, status |-> "queued", worker |-> "none"]]
       /\ jobs' = [jobs EXCEPT ![request.job] = n]
       /\ tasks' = [tasks EXCEPT ![n] = [pc |-> "new", rec |-> 0]]

\* record_agent_job_outcome: the event of a job is named after its identifier.
Outcome(request, status) ==
    [id |-> request.job, privacy |-> "local_only",
     content |-> [mems |-> request.mems, success |-> status = "succeeded",
                  validation |-> request.validation]]

\* The rest of _run_job once the result is there.  A conflict with the outcome the
\* store has is swallowed.
Conclude(t, n, status, worker) ==
    /\ recs' = [recs EXCEPT ![n].status = status, ![n].worker = worker]
    /\ tasks' = [tasks EXCEPT ![t] = [pc |-> "ended", rec |-> n]]
    /\ RecordOutcome(Outcome(recs[n].request, status))
    /\ UNCHANGED jobs

\* _run_job up to the worker's process.  Which workers are enabled and installed
\* is looked up each time.
Start(t) ==
    /\ tasks[t].pc = "new"
    /\ \E available \in SUBSET Worker :
       LET n == jobs[recs[t].request.job]
           chosen == ChooseAdapter(recs[n].request, available)
       IN  \/ chosen = {} /\ Conclude(t, n, "failed", recs[n].worker)
           \/ \E w \in chosen :
                 /\ recs' = [recs EXCEPT ![n].status = "running", ![n].worker = w]
                 /\ tasks' = [tasks EXCEPT ![t] = [pc |-> "run", rec |-> n]]
                 /\ UNCHANGED <<jobs, memoryVars>>

\* The command is gone when run looks for it again.
Vanish(t) ==
    /\ tasks[t].pc = "new"
    /\ LET n == jobs[recs[t].request.job] IN
       \E available \in SUBSET Worker :
       \E w \in ChooseAdapter(recs[n].request, available) : Conclude(t, n, "unavailable", w)

\* The process ends by itself, with or without errors.
Exit(t) ==
    /\ tasks[t].pc = "run"
    /\ \E status \in {"succeeded", "failed"} :
          Conclude(t, tasks[t].rec, status, recs[tasks[t].rec].worker)

\* Mutant: a process that runs too long is waited for.
Kill_Waits(t) == tasks[t].pc = "run" /\ FALSE /\ UNCHANGED <<jobVars, memoryVars>>

\* max_runtime_seconds: the process is killed, and its pipes are read to their
\* end, which does not come as long as a child of it holds them.
Kill(t) ==
    /\ tasks[t].pc = "run"
    /\ \E pc \in {"killed", "held"} : tasks' = [tasks EXCEPT ![t].pc = pc]
    /\ UNCHANGED <<jobs, recs, memoryVars>>

\* The last child ends.
LetGo(t) ==
    /\ tasks[t].pc = "held" /\ tasks' = [tasks EXCEPT ![t].pc = "killed"]
    /\ UNCHANGED <<jobs, recs, memoryVars>>

Timeout(t) ==
    /\ tasks[t].pc = "killed"
    /\ Conclude(t, tasks[t].rec, "timeout", recs[tasks[t].rec].worker)

\* An exception of the file system or of the start of the process ends the task,
\* and nobody looks at it.  Before the worker's process the record stays running;
\* after it the record has its status and the outcome is missing.
Die(t) ==
    /\ tasks[t].pc \in {"new", "run", "killed"}
    /\ LET n == IF tasks[t].pc = "new" THEN jobs[recs[t].request.job] ELSE tasks[t].rec IN
       /\ tasks' = [tasks EXCEPT ![t] = [pc |-> "died", rec |-> n]]
       /\ \E status \in CASE tasks[t].pc = "new" -> {"running"}
                           [] tasks[t].pc = "run" -> {"succeeded", "failed"}
                           [] tasks[t].pc = "killed" -> {"timeout"} :
             recs' = [recs EXCEPT ![n].status = status]
    /\ UNCHANGED <<jobs, memoryVars>>

\* The router is restarted: jobs and tasks are gone, the store is not.
Restart ==
    /\ jobs' = [j \in Job |-> 0]
    /\ recs' = [n \in Submission |-> NoRecord]
    /\ tasks' = [n \in Submission |-> NoTask]
    /\ UNCHANGED memoryVars

JobStep == \E t \in Submission :
    Start(t) \/ Vanish(t) \/ Exit(t) \/ Kill(t) \/ LetGo(t) \/ Timeout(t) \/ Die(t)

JobFairness == \A t \in Submission :
    /\ WF_<<jobVars, memoryVars>>(Start(t))
    /\ WF_<<jobVars, memoryVars>>(Kill(t)) /\ WF_<<jobVars, memoryVars>>(Timeout(t))

-----------------------------------------------------------------------------
\* _run_job: whatever is submitted again under its identifier, a job that can be
\* looked up ends with a final status, unless a task dies of an exception or waits
\* for the pipes of a process it has killed, or the router is restarted.
Settles ==
    \A j \in Job :
        jobs[j] # 0 ~> \/ jobs[j] = 0
                       \/ recs[jobs[j]].status \in Ended
                       \/ \E t \in Submission : tasks[t].pc \in {"died", "held"}

\* docs/ROUTER_SWITCHING_MECHANISM.md, of an unavailable agent job: "keep job failed
\* with `unavailable`".
UnavailableKept ==
    [][\A n \in Submission :
         recs[n].status = "unavailable" => recs'[n].status \in {"unavailable", "none"}]_jobVars
=============================================================================

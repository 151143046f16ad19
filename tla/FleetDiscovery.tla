--------------------------- MODULE FleetDiscovery ---------------------------
(***************************************************************************)
(* What a probe of the fleet reports (fleet_task_dispatcher.py, with the   *)
(* enabled-state semantics of discovery_enabled_policy.py): which registry *)
(* rows are probed, what the three inventory endpoints of a node allow one *)
(* to say about it, and what stands in when there is no registry.          *)
(*                                                                         *)
(* A node is probed in one step; the endpoints the deadline cuts off are   *)
(* among those that do not answer.  Latency, warnings and addresses are    *)
(* left out.                                                               *)
(***************************************************************************)
EXTENDS Integers, Sequences, FiniteSets

CONSTANTS Node, ModelKey,
          Hosted  \* [Node -> the models its endpoints list]

ASSUME FleetAssumption ==
    /\ IsFiniteSet(Node) /\ IsFiniteSet(ModelKey)
    /\ Hosted \in [Node -> SUBSET ModelKey]

NativeEndpoints == {"api/v1/models", "api/v0/models"}
Endpoints == NativeEndpoints \cup {"v1/models"}

\* What a probe says of a node; "truth" is what was loaded when a node that
\* answers was probed.
Info(online, loaded, all, authoritative, truth) ==
    [online |-> online, loaded |-> loaded, all |-> all,
     authoritative |-> authoritative, truth |-> truth]

\* _probe_provider.  answers: the endpoints that answer in time; states: whether
\* the native ones state which models are loaded.  Only they make the inventory
\* authoritative, and they do so only if they list a model.
ProbeProvider(n, answers, states, truth) ==
    LET explicit == answers \cap NativeEndpoints # {} /\ states /\ Hosted[n] # {}
    IN  Info(answers # {}, IF explicit THEN truth ELSE {},
             IF answers # {} THEN Hosted[n] ELSE {}, explicit,
             IF answers # {} THEN truth ELSE {})

\* The reports a probe of n can give; an unexpected failure looks like no answer
\* (_unexpected_probe_failure).
ProbeResults(n) ==
    {ProbeProvider(n, answers, states, truth) :
        answers \in SUBSET Endpoints, states \in BOOLEAN, truth \in SUBSET Hosted[n]}

\* active_provider_rows: rows of other types and disabled rows are passed over
\* before anything about them is checked; one bad or repeated row refuses all.
ActiveRows(rows) == {i \in DOMAIN rows : rows[i].lmstudio /\ rows[i].enabled}

RowsRefused(rows) ==
    \/ \E i \in ActiveRows(rows) : ~rows[i].valid
    \/ \E i, j \in ActiveRows(rows) :
          i # j /\ (rows[i].name = rows[j].name \/ rows[i].node = rows[j].node)

ActiveNodes(rows) == {rows[i].node : i \in ActiveRows(rows)}

\* _from_report: a cached report is diagnostic, never authoritative.
FromReport(nodes) ==
    [n \in DOMAIN nodes |->
        Info(nodes[n].online, {}, nodes[n].all \cup nodes[n].loaded, FALSE, {})]

\* _from_stats: the nodes the dispatcher has counted; they are not even online.
FromStats(seen) == [n \in seen |-> Info(FALSE, {}, Hosted[n], FALSE, {})]

\* probe_all_nodes.  A registry that is there decides which nodes there are, even
\* if it has none; without one the last report stands in, or the statistics.
ProbeAllNodes(registry, cached, seen) ==
    IF registry.present
    THEN {f \in [ActiveNodes(registry.rows) -> UNION {ProbeResults(n) : n \in Node}] :
            \A n \in DOMAIN f : f[n] \in ProbeResults(n)}
    ELSE IF DOMAIN cached # {} THEN {FromReport(cached)} ELSE {FromStats(seen)}
=============================================================================

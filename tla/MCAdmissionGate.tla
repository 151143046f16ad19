-------------------------- MODULE MCAdmissionGate --------------------------
(***************************************************************************)
(* Three runtimes: two slots with a queue of two, one slot without a       *)
(* queue, and no slots at all.                                             *)
(***************************************************************************)
EXTENDS AdmissionGate

CONSTANTS gpu, cpu, unresolved

MCRuntimes == {gpu, cpu, unresolved}
MCSlots == (gpu :> 2) @@ (cpu :> 1) @@ (unresolved :> 0)
MCQueueLimit == (gpu :> 2) @@ (cpu :> 0) @@ (unresolved :> 1)
MCPriority == {"critical", "batch"}
=============================================================================

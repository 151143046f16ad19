------------------------------ MODULE SlotPool ------------------------------
(***************************************************************************)
(* What a runtime's admission gate promises, stripped of queues, futures   *)
(* and timers: every runtime owns a fixed pool of slots, a request owns a  *)
(* slot or does not, and a slot moves between requests only by being given *)
(* out, given back, or handed over.  AdmissionGate implements this         *)
(* specification.                                                          *)
(***************************************************************************)
EXTENDS Integers, FiniteSets

CONSTANTS Task,            \* requests
          Runtime,         \* physical runtime instances
          parallel_slots   \* [Runtime -> Int], slots of each runtime

VARIABLE owners            \* [Runtime -> SUBSET Task]

Init == owners = [r \in Runtime |-> {}]

\* A request that owns nothing gets a free slot of runtime r.
Grant(r, t) ==
    /\ \A s \in Runtime : t \notin owners[s]
    /\ Cardinality(owners[r]) < parallel_slots[r]
    /\ owners' = [owners EXCEPT ![r] = @ \cup {t}]

\* An owner gives its slot back.
Return(r, t) ==
    /\ t \in owners[r]
    /\ owners' = [owners EXCEPT ![r] = @ \ {t}]

\* An owner's slot passes to a waiting request without ever being free.
HandOver(r, t, u) ==
    /\ t \in owners[r]
    /\ \A s \in Runtime : u \notin owners[s]
    /\ owners' = [owners EXCEPT ![r] = (@ \ {t}) \cup {u}]

Next == \E r \in Runtime, t \in Task :
          \/ Grant(r, t)
          \/ Return(r, t)
          \/ \E u \in Task : HandOver(r, t, u)

Spec == Init /\ [][Next]_owners

=============================================================================

---------------------------- MODULE MCCapacity -----------------------------
(***************************************************************************)
(* The two books _execute keeps of a request: what it has reserved of the  *)
(* quotas, and its marks on the nodes.  They share nothing, so a behaviour *)
(* is about one of them.                                                   *)
(*                                                                         *)
(* Four requests, one with a larger estimate than the others, and two      *)
(* dimensions: requests per minute and a total without a window.  Three    *)
(* requests over two nodes; one of them names its model.                   *)
(***************************************************************************)
EXTENDS RedisQuota, LoadBalancer, TLC

CONSTANTS r1, r2, r3, r4, n1, n2, q1, q2, q3

const_Request == {r1, r2, r3, r4}
const_Dimension == {"rpm", "total"}
const_Windowed == {"rpm"}
const_limit == [rpm |-> 2, total |-> 4]
const_amount == [r \in const_Request |-> [rpm |-> 1, total |-> IF r = r1 THEN 2 ELSE 1]]

const_Owner == {n1, n2}
const_Call == {q1, q2, q3}
const_ExactModel == {q3}

Symmetry == Permutations(const_Owner) \cup Permutations({q1, q2})

VARIABLE book

CapacityInit ==
    /\ book \in {"quotas", "marks"}
    /\ AllInit /\ BalancerInit
    /\ book = "marks" => backend = "memory"

CapacityNext ==
    /\ book' = book
    /\ \/ book = "quotas" /\ AllNext /\ UNCHANGED balancerVars
       \/ book = "marks" /\ BalancerNext /\ UNCHANGED allVars

CapacitySpec == CapacityInit /\ [][CapacityNext]_<<book, allVars, balancerVars>>
=============================================================================

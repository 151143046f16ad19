------------------------ MODULE MCRuntimeProjection ------------------------
(***************************************************************************)
(* Two calls of apply, two requests, three generations; two documents that *)
(* give the runtime one slot and two, and one whose providers disagree.    *)
(***************************************************************************)
EXTENDS RuntimeProjection, TLC

provider(name, slots, model) ==
    [name |-> name, enabled |-> TRUE, local |-> TRUE, resolved |-> TRUE, slots |-> slots, model |-> model]

const_Content == {"narrow", "wide", "split"}
const_Declares ==
    [narrow |-> {provider("main", 1, "m1"), provider("alias", 1, "m2")},
     wide   |-> {provider("main", 2, "m1"), [provider("off", 0, "m1") EXCEPT !.enabled = FALSE]},
     split  |-> {provider("main", 2, "m1"), provider("alias", 1, "m2")}]

MCSymmetry == Permutations(Applier) \cup Permutations(Request)
=============================================================================

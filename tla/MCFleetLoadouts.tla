--------------------------- MODULE MCFleetLoadouts ---------------------------
(***************************************************************************)
(* Two runs over two nodes, one with a worker and a reviewer, one with a   *)
(* reviewer; a registry with a disabled row that repeats a node, one that  *)
(* repeats an active node, and none.                                       *)
(***************************************************************************)
EXTENDS FleetLoadouts

row(name, node, enabled) ==
    [name |-> name, node |-> node, lmstudio |-> TRUE, enabled |-> enabled, valid |-> enabled]

const_Node == {"xwing", "joyner"}
const_ModelKey == {"coder", "judge"}
const_Hosted == [xwing |-> {"coder", "judge"}, joyner |-> {"coder"}]
const_Registries ==
    {[present |-> TRUE, rows |-> <<row("x", "xwing", TRUE), row("old", "xwing", FALSE),
                                   row("j", "joyner", TRUE)>>],
     [present |-> TRUE, rows |-> <<row("x", "xwing", TRUE), row("j", "xwing", TRUE)>>],
     [present |-> FALSE, rows |-> <<>>]}
const_Reviewer == {<<"xwing", "judge">>, <<"joyner", "coder">>}
=============================================================================

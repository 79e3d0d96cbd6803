-------------------------- MODULE MCBlockTaskDeps --------------------------
(* A diamond A <- B, C <- D, in which A is submitted twice. *)
EXTENDS BlockTaskDeps

MCBlock == {"A", "B", "C", "D"}

MCTask == 1 .. 5

MCBlockOf == <<"A", "A", "B", "C", "D">>

MCDirectParents ==
    [x \in MCBlock |-> CASE x = "A" -> {} [] x = "D" -> {"B", "C"} [] OTHER -> {"A"}]
=============================================================================

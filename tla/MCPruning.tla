----------------------------- MODULE MCPruning -----------------------------
(***************************************************************************)
(* A chain 0 <- 1 <- 2 <- 3 <- 5 <- 7 <- 8 <- 9, a block 4 on 2 that 7     *)
(* merges, a block 6 on 3 that nothing merges, and a fork 7 <- 10 <- 11,   *)
(* where 11 merges 8 and overtakes 9 within the finality depth.            *)
(***************************************************************************)
EXTENDS Pruning

Blocks == 0 .. 11
SelectedParentOf ==
    [b \in Blocks |-> CASE b = 4 -> 2 [] b = 5 -> 3 [] b = 6 -> 3 [] b = 7 -> 5 [] b = 10 -> 7 [] OTHER -> b - 1]
ParentsOf ==
    [b \in Blocks |-> CASE b = 0 -> {} [] b = 7 -> {4, 5} [] b = 11 -> {8, 10} [] OTHER -> {SelectedParentOf[b]}]
Scores == <<1, 2, 3, 3, 4, 4, 6, 7, 8, 7, 9>> @@ 0 :> 0

(* With a period of 4 the retention root stays behind at the first pruning *)
(* point and catches up at the second.                                     *)
Times == [Scores EXCEPT ![7] = 5]

(* The window holds the selected parent of the point; the upper levels     *)
(* hold block 1.                                                           *)
WindowOf(p) == {SelectedParentOf[p]} \ {-1}
UpperOf(p) == {0, 1} \cap Past[p]
=============================================================================

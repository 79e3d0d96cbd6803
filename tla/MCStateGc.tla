----------------------------- MODULE MCStateGc -----------------------------
(***************************************************************************)
(* The chain 1 <- 2 <- 3 and the fork 2 <- 4 over two accounts.  Block 4   *)
(* gives the first account a state it had before, so its snapshot is       *)
(* shared with block 1.                                                    *)
(***************************************************************************)
EXTENDS StateGc, TLC

Blocks == {"1", "2", "3", "4"}
Parents == "1" :> "0" @@ "2" :> "1" @@ "3" :> "2" @@ "4" :> "2"
Trees == "1" :> {"x1", "y1"} @@ "2" :> {"x2", "y1"} @@ "3" :> {"x3", "y1"} @@ "4" :> {"x1", "y2"}
=============================================================================

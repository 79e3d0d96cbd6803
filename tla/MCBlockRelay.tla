---------------------------- MODULE MCBlockRelay ----------------------------
(***************************************************************************)
(* Four blocks for TLC, 0 <- 1 <- 2 <- 3 and a block 4 that merges 2 and   *)
(* 3.  Block 1 is below the threshold and skipped when announced, so the   *)
(* other three are orphans until somebody fetches it as a root or through  *)
(* IBD; with room for two orphans the third evicts one.                    *)
(***************************************************************************)
EXTENDS BlockRelay, TLC

CONSTANTS p, q

FourBlocks == 1 .. 4

FourParents == (1 :> {0}) @@ (2 :> {1}) @@ (3 :> {2}) @@ (4 :> {2, 3})

FourAnnounced == (p :> {3, 4}) @@ (q :> {1, 2})
=============================================================================

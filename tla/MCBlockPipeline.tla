-------------------------- MODULE MCBlockPipeline --------------------------
(***************************************************************************)
(* A chain G <- Y <- X.  G, which would fail pre_pow_validation, comes as  *)
(* a trusted block, twice, once with transactions that do not match its    *)
(* merkle root; Y is valid; and X, whose header fails post_pow_validation, *)
(* comes header-only.                                                      *)
(***************************************************************************)
EXTENDS BlockPipeline, TLC

ChainBlock == {"G", "Y", "X"}
ChainParents == ("G" :> {}) @@ ("Y" :> {"G"}) @@ ("X" :> {"Y"})
ChainTask == 1 .. 4
ChainBlockOf == <<"G", "Y", "X", "G">>
ChainBodyOf == <<"match", "match", "none", "mismatch">>
ChainTrusted == {1, 4}
ChainHeaderRule == ("G" :> "prePow") @@ ("Y" :> "ok") @@ ("X" :> "postPow")
ChainBodyRule == [x \in ChainBlock |-> "ok"]
=============================================================================

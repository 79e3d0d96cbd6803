------------------------ MODULE MCSahyadriConsensus ------------------------
(***************************************************************************)
(* Every DAG, in every arrival and hash order.                             *)
(***************************************************************************)
EXTENDS SahyadriConsensus
=============================================================================

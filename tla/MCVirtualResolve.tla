-------------------------- MODULE MCVirtualResolve --------------------------
(***************************************************************************)
(* Instances of VirtualResolve: blocks of any hash arrive at any time, so  *)
(* that ties in blue work are broken in every way.                         *)
(***************************************************************************)
EXTENDS VirtualResolve
=============================================================================

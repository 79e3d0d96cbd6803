----------------------------- MODULE MCSyncWave -----------------------------
(***************************************************************************)
(* Four keys of three bits: two that differ in the last bit only, one that *)
(* shares one bit with them, and one in the other half.                    *)
(***************************************************************************)
EXTENDS SyncWave

Keys == {<<0, 0, 0>>, <<0, 0, 1>>, <<0, 1, 1>>, <<1, 0, 1>>}

(* One tree has an account and a DID document, the other has two accounts  *)
(* in the same state.                                                      *)
Checkpoints == {[NoEntries EXCEPT ![<<0, 0, 0>>] = "u", ![<<1, 0, 1>>] = v] : v \in Value}
=============================================================================

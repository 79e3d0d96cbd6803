----------------------------- MODULE MCMempool -----------------------------
(***************************************************************************)
(* Two flash transactions of one flash id, the second with the smaller     *)
(* mass; a third of the same sender, whose debit saturates with the first; *)
(* one whose amount and fee overflow, with a high fee and all the bytes; a *)
(* DID operation.  The pool has room for two.                              *)
(***************************************************************************)
EXTENDS Mempool, TLC

Txs == 1 .. 5
FlashIdOf == <<"f", "f", "g">>
SenderOf == <<"a", "a", "a">>
DebitOf == <<2, 2, 3>>
FeeOf == <<1, 1, 1, 3, 1>>
MassOf == <<3, 1, 2, 2, 2>>
BytesUsed == <<1, 1, 1, 3, 1>>
Callers == Permutations(Caller)
=============================================================================

-------------------------- MODULE MCAccountLedger --------------------------
(***************************************************************************)
(* The chain 0 <- 1 <- 2 <- 4 <- 6 <- 7 <- 8 and the fork 1 <- 3 <- 5.      *)
(* Block 0 stands for a block nothing below which is reorganized.          *)
(***************************************************************************)
EXTENDS AccountLedger

Blocks == 1 .. 8
Parents == <<0, 1, 1, 2, 3, 4, 6, 7>>
Scores == <<1, 2, 2, 3, 3, 4, 5, 6>>
Accounts == {"alice", "bob", "carol", "miner", "treasury"}
Balances == [a \in Accounts |-> CASE a = "alice" -> 9 [] a = "bob" -> 6 [] OTHER -> 0]

Tx(kind, id, from, to, amount, expiry, ok) ==
    [kind |-> kind, id |-> id, from |-> from, to |-> to, amount |-> amount, fee |-> 1,
     expiry |-> expiry, ok |-> ok]

A == Tx("flash", "a", "alice", "bob", 4, 6, TRUE)
B == Tx("flash", "b", "bob", "carol", 5, 7, TRUE)
C == Tx("flash", "c", "carol", "alice", 3, 6, TRUE)
Tip == Tx("flash", "t", "miner", "alice", 1, 9, TRUE)
Save == Tx("flash", "s", "miner", "carol", 9, 9, TRUE)    \* from what was mined before
Spend == Tx("flash", "m", "miner", "carol", 29, 9, TRUE)  \* needs the reward of its own block
Unsigned == Tx("flash", "u", "carol", "bob", 1, 6, FALSE)
Pay == Tx("account", "p", "miner", "alice", 5, 0, TRUE)

(* The first block has a reward and perhaps an account transaction; those  *)
(* above the fork carry flashes, at most one of each sender, which a block *)
(* may repeat and several blocks of a chain may carry.  The flash of block *)
(* 6 prunes the list of alice before block 7 repeats one of alice's.       *)
(* Block 7 has a reward, and its miner pays from it or from what it had.   *)
Flashes == {<<>>, <<A, A>>, <<A, B>>, <<B, C>>}
FlashBodies ==
    {<<pay>> \o f \o <<<<B, Tip>>, <<A, mined>>, <<C, Unsigned>>>> :
        pay \in {<<>>, <<Pay>>}, f \in [1 .. 4 -> Flashes], mined \in {Save, Spend}}
OutsideFork == [b \in Blocks |-> IF b \in {1, 7} THEN 20 ELSE 0]
NoSubsidy == [b \in Blocks |-> 0]

(* The fork holds an account transaction. *)
Payment == Tx("account", "q", "alice", "bob", 4, 0, TRUE)
PaymentBodies == {[b \in Blocks |-> IF b = 3 THEN <<Payment>> ELSE <<>>]}
=============================================================================

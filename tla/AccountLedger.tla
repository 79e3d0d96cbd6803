--------------------------- MODULE AccountLedger ---------------------------
(***************************************************************************)
(* The account store and its updates in commit_virtual_state: blocks that  *)
(* leave the selected chain are unwound, blocks that join it are applied.  *)
(*                                                                         *)
(* A block is a number; a higher number is a heavier block, and the sink   *)
(* only moves to heavier blocks.  A commit is one write batch.  Whether a  *)
(* signature and a fee are acceptable is part of the transaction.          *)
(***************************************************************************)
EXTENDS Integers, Sequences, FiniteSets, FiniteSetsExt, Functions

CONSTANTS
    Account, Treasury, Miner,
    Initial,        \* the balances to start from
    Block,          \* the blocks above genesis, which is 0
    SelectedParent,
    Bodies,         \* the possible bodies, Block -> Seq of [kind, id, from, to,
                    \*   amount, fee, expiry, ok]; ok: signature and fee are valid
    Subsidy,        \* Block -> the subsidy in its coinbase payload
    DaaScore,       \* Block -> its DAA score
    MergesetSizeLimit,
    FlashPruneBuffer,
    EnableFlashTx   \* the option of that name: the store executes flashes

ASSUME BlocksAreNumbers == Block \in SUBSET (Nat \ {0}) /\ DaaScore \in [Block -> Nat]
ASSUME ParentsAreLighter == \A b \in Block : SelectedParent[b] \in {0} \cup {c \in Block : c < b}
ASSUME BodiesHoldTransactions ==
    \A txs \in Bodies : \A b \in Block :
        txs[b] \in Seq(Range(txs[b])) /\ \A tx \in Range(txs[b]) : tx.from \in Account /\ tx.expiry \in Nat

(* The id of a transaction is a hash of its contents. *)
ASSUME IdsAreHashes ==
    \A txs \in Bodies : \A b, c \in Block : \A tx \in Range(txs[b]), ux \in Range(txs[c]) : tx.id = ux.id => tx = ux

ASSUME LimitsAreNumbers ==
    FlashPruneBuffer \in Nat \ {0} /\ MergesetSizeLimit \in Nat /\ EnableFlashTx \in BOOLEAN

VARIABLES
    body,     \* block_transactions_store
    store,    \* account_store: Account -> [balance, flashes]
    sink,
    inForce,  \* history: [tx, block] for what the blocks of the chain applied
    peak,     \* history: the highest DAA score of a virtual block so far
    steady    \* history: no virtual block had a score FLASH_PRUNE_BUFFER below an earlier one

vars == <<body, store, sink, inForce, peak, steady>>

-----------------------------------------------------------------------------
Genesis == 0

FoldInOrder(step(_, _), start, txs) ==
    MapThenFoldSet(LAMBDA tx, acc : step(acc, tx), start, LAMBDA i : txs[i], Max, DOMAIN txs)

Chain[b \in Block \cup {Genesis}] ==
    IF b = Genesis THEN {Genesis} ELSE {b} \cup Chain[SelectedParent[b]]

(* The DAA scores the virtual block above a sink may have: it adds the size *)
(* of its mergeset, which holds the sink and whatever the other tips bring. *)
VirtualDaaScores(b) == DaaScore[b] + 1 .. DaaScore[b] + MergesetSizeLimit

OfKind(b, kind) == FoldInOrder(LAMBDA txs, tx : IF tx.kind = kind THEN Append(txs, tx) ELSE txs, <<>>, body[b])

Saturating(n) == IF n < 0 THEN 0 ELSE n

UpdateBalance(s, a, change) == [s EXCEPT ![a].balance = Saturating(@ + change)]

-----------------------------------------------------------------------------
(* The removed blocks. *)

(* An account transaction: its output is deducted from the receiver.  The  *)
(* sender is refunded only if get_last_tx_id, which always returns zeros,  *)
(* is the transaction's id.                                                *)
UnwindAccountTx(s, tx) == UpdateBalance(s, tx.to, - tx.amount)

(* Mutant: the recipient keeps what it received. *)
UnwindFlashKeepsCredit(s, tx, b) ==
    LET mine == {e \in s[tx.from].flashes : e.block = b}
    IN  IF mine = {} THEN s
        ELSE [s EXCEPT ![tx.from].flashes = @ \ mine, ![tx.from].balance = @ + tx.amount + tx.fee]

(* reorg_flash_block, for one transaction: reorg_block_flashes removes all *)
(* entries of the block at once.                                           *)
UnwindFlashTx(s, tx, b) ==
    LET mine == {e \in s[tx.from].flashes : e.block = b}
        refunded == [s EXCEPT ![tx.from].flashes = @ \ mine,
                              ![tx.from].balance = @ + tx.amount + tx.fee]
    IN  IF mine = {} THEN s ELSE UpdateBalance(refunded, tx.to, - tx.amount)

UnwindBlock(s, b) ==
    LET unwound == FoldInOrder(UnwindAccountTx, s, OfKind(b, "account"))
    IN  IF ~EnableFlashTx THEN unwound
        ELSE FoldInOrder(LAMBDA t, tx : UnwindFlashTx(t, tx, b), unwound, OfKind(b, "flash"))

-----------------------------------------------------------------------------
(* The added blocks.  An accumulator holds the store and what was applied. *)

CreditReward(s, b) ==
    LET fee == Subsidy[b] \div 20
    IN  UpdateBalance(UpdateBalance(s, Miner, Subsidy[b] - fee), Treasury, fee)

(* A transaction with a bad signature or without funds is skipped. *)
ApplyAccountTx(acc, tx, b) ==
    LET spent == tx.amount + tx.fee
    IN  IF ~tx.ok \/ acc.store[tx.from].balance < spent THEN acc
        ELSE [store |-> UpdateBalance(UpdateBalance(acc.store, tx.from, - spent), tx.to, tx.amount),
              applied |-> acc.applied \cup {[tx |-> tx, block |-> b]}]

IsFlashReplay(s, tx) == \E e \in s[tx.from].flashes : e.id = tx.id

(* validate_flash_batch, step 1: drop what is repeated in the block,       *)
(* expired, or already applied.                                            *)
Eligible(s, txs, daa) ==
    LET consider(acc, tx) ==
            IF tx.id \in acc.seen THEN acc
            ELSE [seen |-> acc.seen \cup {tx.id},
                  valid |-> IF daa <= tx.expiry /\ ~IsFlashReplay(s, tx) THEN Append(acc.valid, tx) ELSE acc.valid]
    IN  FoldInOrder(consider, [seen |-> {}, valid |-> <<>>], txs).valid

(* Steps 2 to 4: one failure rejects the whole batch. *)
BatchAccepted(s, txs) ==
    LET debits(a) == FoldInOrder(LAMBDA sum, tx : IF tx.from = a THEN sum + tx.amount + tx.fee ELSE sum, 0, txs)
    IN  \A i \in 1 .. Len(txs) : txs[i].ok /\ debits(txs[i].from) <= s[txs[i].from].balance

(* apply_flash_tx *)
ApplyFlashTx(s, tx, b) ==
    LET entry == [id |-> tx.id, expiry |-> tx.expiry, block |-> b]
        debited == [s EXCEPT ![tx.from].balance = Saturating(@ - (tx.amount + tx.fee)),
                             ![tx.from].flashes = @ \cup {entry}]
    IN  UpdateBalance(debited, tx.to, tx.amount)

(* prune_flashes_for_accounts, with a lower bound on the expiry of what stays. *)
KeepFlashes(s, accounts, bound) ==
    [a \in DOMAIN s |-> IF a \in accounts THEN [s[a] EXCEPT !.flashes = {e \in @ : e.expiry > bound}] ELSE s[a]]

(* Mutant: entries are dropped as soon as they expire. *)
PruneAtExpiry(s, accounts, daa) == KeepFlashes(s, accounts, daa)

PruneFlashes(s, accounts, daa) == KeepFlashes(s, accounts, Saturating(daa - FlashPruneBuffer))

ApplyFlashBatch(acc, b, daa) ==
    LET txs == Eligible(acc.store, OfKind(b, "flash"), daa)
        applied == FoldInOrder(LAMBDA s, tx : ApplyFlashTx(s, tx, b), acc.store, txs)
        affected == {tx.from : tx \in Range(txs)} \cup {tx.to : tx \in Range(txs)}
    IN  IF ~EnableFlashTx \/ ~BatchAccepted(acc.store, txs) THEN acc
        ELSE [store |-> PruneFlashes(applied, affected, daa),
              applied |-> acc.applied \cup {[tx |-> tx, block |-> b] : tx \in Range(txs)}]

ApplyBlock(acc, b, daa) ==
    LET rewarded == [acc EXCEPT !.store = CreditReward(@, b)]
        executed == FoldInOrder(LAMBDA t, tx : ApplyAccountTx(t, tx, b), rewarded, OfKind(b, "account"))
    IN  ApplyFlashBatch(executed, b, daa)

-----------------------------------------------------------------------------
(* Mutant: the sender is not debited in the committed ledger. *)
CommitCreditOnly(s, tx) == UpdateBalance(s, tx.to, tx.amount)

(* The committed ledger of a block: compute_block_account_changes applies   *)
(* all flashes of the block, then the rewards, to the state of its parent,  *)
(* and prunes by the score of the block.                                    *)
CommitFlash(s, tx) ==
    LET entry == [id |-> tx.id, expiry |-> tx.expiry, block |-> Genesis]
    IN  UpdateBalance([s EXCEPT ![tx.from].balance = Saturating(@ - (tx.amount + tx.fee)),
                                ![tx.from].flashes = @ \cup {entry}], tx.to, tx.amount)

Touched(b) ==
    LET txs == Range(OfKind(b, "flash"))
    IN  {tx.from : tx \in txs} \cup {tx.to : tx \in txs} \cup (IF Subsidy[b] > 0 THEN {Miner, Treasury} ELSE {})

Committed[b \in Block \cup {Genesis}] ==
    IF b = Genesis THEN [a \in Account |-> [balance |-> Initial[a], flashes |-> {}]]
    ELSE LET flashed == FoldInOrder(CommitFlash, Committed[SelectedParent[b]], OfKind(b, "flash"))
         IN  PruneFlashes(CreditReward(flashed, b), Touched(b), DaaScore[b])

-----------------------------------------------------------------------------
Init ==
    /\ body \in Bodies
    /\ store = [a \in Account |-> [balance |-> Initial[a], flashes |-> {}]]
    /\ sink = Genesis
    /\ inForce = {}
    /\ peak = 0
    /\ steady = TRUE

(* commit_virtual_state for a new sink: the removed blocks from the old    *)
(* sink down, then the added blocks up to the new sink, all of them with   *)
(* the DAA score of the new virtual block.                                 *)
CommitVirtualState(new, daa) ==
    LET removed == Chain[sink] \ Chain[new]
        added == Chain[new] \ Chain[sink]
        unwound == [store |-> MapThenFoldSet(LAMBDA b, s : UnwindBlock(s, b), store, LAMBDA b : b, Min, removed),
                    applied |-> {f \in inForce : f.block \notin removed}]
        result == MapThenFoldSet(LAMBDA b, acc : ApplyBlock(acc, b, daa),
                                 unwound, LAMBDA b : b, Max, added)
    IN  /\ new > sink
        /\ sink' = new
        /\ UNCHANGED body
        /\ store' = result.store
        /\ inForce' = result.applied
        /\ peak' = Max({peak, daa})
        /\ steady' = (steady /\ daa + FlashPruneBuffer > peak)

Next == \E b \in Block : \E daa \in VirtualDaaScores(b) : CommitVirtualState(b, daa)

Spec == Init /\ [][Next]_vars

-----------------------------------------------------------------------------
(* Types of the account store, the flash lists and the history. *)
TypeOK ==
    /\ \A a \in Account : /\ store[a].balance \in Nat
                          /\ \A e \in store[a].flashes : e.block \in Chain[sink]
    /\ sink \in Block \cup {Genesis}
    /\ \A f \in inForce : f.block \in Chain[sink]

(* What an account should hold: what it started with, the rewards of the    *)
(* blocks on the chain, and the transactions these blocks applied.          *)
Expected(a) ==
    LET reward(b) == IF a = Treasury THEN Subsidy[b] \div 20 ELSE IF a = Miner THEN Subsidy[b] - Subsidy[b] \div 20 ELSE 0
        effect(f) == (IF f.tx.to = a THEN f.tx.amount ELSE 0) - (IF f.tx.from = a THEN f.tx.amount + f.tx.fee ELSE 0)
    IN  Initial[a] + MapThenSumSet(reward, Chain[sink] \ {Genesis}) + MapThenSumSet(effect, inForce)

(* Unwinding mirrors applying: after any sequence of reorganizations the    *)
(* balances are those of the blocks on the chain, no debit was cut off at   *)
(* zero, and no effect of an abandoned block is left.                       *)
BalancesAddUp == \A a \in Account : store[a].balance = Expected(a)

(* A flash transaction carried by several blocks takes effect at most once  *)
(* on a chain, even after prune_recent_flashes dropped its entry from the   *)
(* sender's account, as long as the score of the virtual block, with which  *)
(* expiry and pruning are decided, never falls by FLASH_PRUNE_BUFFER.       *)
FlashOnce == steady => \A f, g \in inForce : f.tx.kind = "flash" /\ f.tx.id = g.tx.id => f = g

(* What the flashes of a block take from an account. *)
Debit(b, a) ==
    FoldInOrder(LAMBDA sum, tx : IF tx.from = a THEN sum + tx.amount + tx.fee ELSE sum, 0, OfKind(b, "flash"))

(* The two ledgers of a node agree: the balances of the store are the       *)
(* committed ones while the store took every flash of the chain, no block   *)
(* repeats one, and no sender needs the reward of the very block, which     *)
(* commit_virtual_state credits before the flashes and                      *)
(* compute_block_account_changes after them.                                *)
StoreMatchesCommitment ==
    (\A b \in Chain[sink] \ {Genesis} :
        /\ OfKind(b, "account") = <<>>
        /\ IsInjective(OfKind(b, "flash"))
        /\ \A tx \in Range(OfKind(b, "flash")) : [tx |-> tx, block |-> b] \in inForce
        /\ \A a \in Account : Debit(b, a) <= Committed[SelectedParent[b]][a].balance)
    => \A a \in Account : store[a].balance = Committed[sink][a].balance
=============================================================================

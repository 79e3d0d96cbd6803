------------------------------ MODULE Mempool ------------------------------
(***************************************************************************)
(* The mempool of the mining manager, for the transactions of the account  *)
(* model: flash transactions and DID operations.  They have no inputs, so  *)
(* every pooled transaction is ready, nothing is an orphan, a removal has  *)
(* no redeemers to take along and the limits per sender, which look at the *)
(* first input, never apply.                                               *)
(*                                                                         *)
(* A submission takes the lock twice: it is checked under the read lock,   *)
(* validated by consensus without a lock, and checked again and inserted   *)
(* under the write lock.  New blocks and the expiry task come in between.  *)
(*                                                                         *)
(* A flash id covers the fee but not the signature: two transactions may   *)
(* have the same flash id and fee and differ in mass.  The account set     *)
(* tracks what extract_flash_debit understands.  It gives nothing for DID  *)
(* operations, for a payload that does not parse and for an amount and fee *)
(* that overflow together: these are pooled without an owner or a debit,   *)
(* and those whose fee does not parse have none calculated.                *)
(***************************************************************************)
EXTENDS Integers, FiniteSets, Functions

CONSTANTS
    Tx,              \* transaction ids
    Untracked,       \* those for which extract_flash_debit gives nothing
    Feeless,         \* those among them whose fee is never calculated
    FlashId,         \* of the tracked flash transactions
    Sender, Debit,   \* of the tracked ones: who pays, and amount + fee
    MaxDebit,        \* the largest u64
    Fee, Mass, Bytes,
    Caller,          \* concurrent calls of validate_and_insert_transaction
    MaximumTransactionCount, MempoolSizeLimit,
    ExpireInterval, AcceptedExpireInterval,
    MaxScore,        \* bound on the virtual DAA score
    MaxAccepted,     \* bound on the accepted transactions known at a time
    None

Flash == Tx \ Untracked
FlashIds == {FlashId[t] : t \in Flash}
Senders == {Sender[t] : t \in Flash}

ASSUME MempoolAssumption ==
    /\ Tx \subseteq Nat /\ Untracked \subseteq Tx /\ Feeless \subseteq Untracked
    /\ None \notin Nat /\ None \notin Tx \X STRING
    /\ MaximumTransactionCount > 0 /\ \A t \in Tx : Bytes[t] <= MempoolSizeLimit

(* These are usize and u64 in the code. *)
ASSUME AmountsAssumption ==
    /\ MaximumTransactionCount \in Nat /\ MempoolSizeLimit \in Nat
    /\ \A t \in Tx : Bytes[t] \in Nat
    /\ MaxDebit \in Nat /\ \A t \in Flash : Debit[t] \in 0 .. MaxDebit

VARIABLES
    mempool,         \* the transactions pool: a record, see EmptyPool
    accepted,        \* accepted_transactions: transaction -> DAA score
    call,            \* per caller: the submission it holds between its two locks
    scan,            \* the expiry task: "idle", "collect" or "remove"
    expired,         \* the ids the expiry task has collected
    score            \* virtual DAA score

vars == <<mempool, accepted, call, scan, expired, score>>

EmptyPool ==
    [all          |-> {},                              \* keys of all_transactions
     low          |-> {},                              \* those with Priority::Low
     addedAt      |-> [t \in Tx |-> 0],                \* their added_at_daa_score, 0 outside the pool
     ready        |-> {},                              \* the frontier ready_transactions
     owner        |-> [f \in FlashIds |-> None],       \* flash_owners
     debits       |-> {},                              \* keys of tx_debits
     pendingDebit |-> [s \in Senders |-> 0],
     capped       |-> {},                              \* history: senders whose pending debit was cut off
     size         |-> 0]                               \* estimated_size

Init ==
    /\ mempool = EmptyPool
    /\ accepted = [t \in Tx |-> None]
    /\ call = [c \in Caller |-> None]
    /\ scan = "idle" /\ expired = {}
    /\ score = 0

-----------------------------------------------------------------------------
(* calculated_feerate may be None; the key of the frontier then has fee 0. *)
(*  Keys are ordered by feerate, fee and id.               *)
KeyFee(t) == IF t \in Feeless THEN 0 ELSE Fee[t]
FeerateLess(a, b) == KeyFee(a) * Mass[b] < KeyFee(b) * Mass[a]
KeyLess(a, b) ==
    \/ FeerateLess(a, b)
    \/ /\ ~FeerateLess(b, a)
       /\ KeyFee(a) < KeyFee(b) \/ (KeyFee(a) = KeyFee(b) /\ a < b)

(* get_double_spend_transaction_ids: the pooled owner of the flash id. *)
DoubleSpends(p, t) == IF t \in Untracked THEN {} ELSE {p.owner[FlashId[t]]} \ {None}

BytesOf(S) == SumFunctionOnSet(Bytes, S)
SaturatingSub(a, b) == IF a < b THEN 0 ELSE a - b
SaturatingAdd(a, b) == IF a + b > MaxDebit THEN MaxDebit ELSE a + b

(* Mutant: the account set forgets the debit but keeps the flash owner. *)
RemovedKeepsOwner(p, S) ==
    [p EXCEPT !.all = @ \ S,
              !.low = @ \ S,
              !.addedAt = [t \in Tx |-> IF t \in S THEN 0 ELSE @[t]],
              !.ready = @ \ S,
              !.debits = @ \ S,
              !.pendingDebit = [s \in Senders |->
                  SaturatingSub(@[s], SumFunctionOnSet(Debit, {t \in S \cap p.debits : Sender[t] = s}))],
              !.capped = {s \in @ : \E t \in p.debits \ S : Sender[t] = s},
              !.size = @ - BytesOf(S \cap p.all)]

(* remove_transaction of the pool and of the account set, for a set.  A    *)
(* transaction that is not pooled is skipped.                              *)
Removed(p, S) ==
    [p EXCEPT !.all = @ \ S,
              !.low = @ \ S,
              !.addedAt = [t \in Tx |-> IF t \in S THEN 0 ELSE @[t]],
              !.ready = @ \ S,
              !.owner = [f \in FlashIds |-> IF @[f] \in S THEN None ELSE @[f]],
              !.debits = @ \ S,
              !.pendingDebit = [s \in Senders |->
                  SaturatingSub(@[s], SumFunctionOnSet(Debit, {t \in S \cap p.debits : Sender[t] = s}))],
              !.capped = {s \in @ : \E t \in p.debits \ S : Sender[t] = s},
              !.size = @ - BytesOf(S \cap p.all)]

(* add_mempool_transaction: the frontier is updated first; then the account *)
(* set refuses a flash id that is pending.                                  *)
Added(p, t, isLow) ==
    IF DoubleSpends(p, t) # {} THEN [p EXCEPT !.ready = @ \cup {t}]
    ELSE LET q == [p EXCEPT !.all = @ \cup {t},
                            !.low = IF isLow THEN @ \cup {t} ELSE @,
                            !.addedAt[t] = score,
                            !.ready = @ \cup {t},
                            !.size = @ + Bytes[t]]
         IN  IF t \in Untracked THEN q
             ELSE [q EXCEPT !.owner[FlashId[t]] = t,
                            !.debits = @ \cup {t},
                            !.pendingDebit[Sender[t]] = SaturatingAdd(@, Debit[t]),
                            !.capped = IF p.pendingDebit[Sender[t]] + Debit[t] > MaxDebit
                                       THEN @ \cup {Sender[t]} ELSE @]

-----------------------------------------------------------------------------
(* How a transaction comes, with its priority and RbfPolicy: by RPC (high,  *)
(* forbidden), by RPC as a replacement (high, mandatory) or from a peer     *)
(* (low, allowed).                                                          *)
Kinds == {"submit", "replace", "relay"}

(* get_replace_by_fee_constraint *)
MayReplace(p, t, kind) ==
    /\ kind = "submit" => DoubleSpends(p, t) = {}
    /\ kind = "replace" => DoubleSpends(p, t) # {}

(* execute_replace_by_fee, the conditions: a double spend gives way only to *)
(* a higher feerate.                                                        *)
ReplacesByFee(p, t, kind) ==
    /\ MayReplace(p, t, kind)
    /\ kind # "submit" => \A r \in DoubleSpends(p, t) : FeerateLess(r, t)

Replaced(p, t, kind) == IF kind = "submit" THEN {} ELSE DoubleSpends(p, t)

(* Mutant: a full pool takes one more. *)
HasRoomForOneMore(p, t, gone) ==
    /\ Cardinality(p.all \ gone) <= MaximumTransactionCount
    /\ p.size - BytesOf(gone) + Bytes[t] <= MempoolSizeLimit

(* Does t fit once the transactions of gone have left? *)
HasRoom(p, t, gone) ==
    /\ Cardinality(p.all \ gone) < MaximumTransactionCount
    /\ p.size - BytesOf(gone) + Bytes[t] <= MempoolSizeLimit

(* The low-priority ready transactions up to some place in ascending order. *)
IsCheapest(p, S) == \A a \in S : \A b \in (p.low \cap p.ready) \ S : KeyLess(a, b)

(* limit_transaction_count: what is evicted for t, at most one set; none if *)
(* t is refused.  The unwraps of calculated_feerate panic when the pool is  *)
(* full and a feeless one comes or is next to be evicted: no set either.    *)
Evictions(p, t) ==
    IF HasRoom(p, t, {}) THEN {{}}
    ELSE {S \in SUBSET (p.low \cap p.ready) :
            /\ HasRoom(p, t, S) /\ IsCheapest(p, S)
            /\ \A R \in SUBSET S : R # S /\ IsCheapest(p, R) => ~HasRoom(p, t, R)
            /\ t \notin Feeless /\ S \cap Feeless = {}
            /\ \A a \in S : ~FeerateLess(t, a)}

-----------------------------------------------------------------------------
(* pre_validate_and_populate_transaction; what it refuses changes nothing. *)
PreValidate(c, t, kind) ==
    /\ call[c] = None
    /\ accepted[t] = None /\ t \notin mempool.all
    /\ MayReplace(mempool, t, kind)
    /\ call' = [call EXCEPT ![c] = <<t, kind>>]
    /\ UNCHANGED <<mempool, accepted, scan, expired, score>>

(* Consensus or one of the checks under the write lock refuses the call.   *)
(* Consensus may find any transaction invalid, in isolation or at the      *)
(* current virtual DAA score.                                              *)
Refuse(c) ==
    /\ call[c] # None
    /\ call' = [call EXCEPT ![c] = None]
    /\ UNCHANGED <<mempool, accepted, scan, expired, score>>

(* Mutant: what changed since the read lock is not checked again. *)
PostValidateOnce(c, t, kind) ==
    /\ call[c] = <<t, kind>>
    /\ t \notin mempool.all
    /\ ReplacesByFee(mempool, t, kind)
    /\ call' = [call EXCEPT ![c] = None]
    /\ UNCHANGED <<accepted, scan, expired, score>>

(* The checks of post_validate_and_insert_transaction up to the limits. *)
PostValidate(c, t, kind) ==
    /\ call[c] = <<t, kind>>
    /\ t \notin mempool.all /\ accepted[t] = None
    /\ ReplacesByFee(mempool, t, kind)
    /\ call' = [call EXCEPT ![c] = None]
    /\ UNCHANGED <<accepted, scan, expired, score>>

Insert(c, t, kind) ==
    /\ PostValidate(c, t, kind)
    /\ LET p == Removed(mempool, Replaced(mempool, t, kind))
       IN  \E gone \in Evictions(p, t) : mempool' = Added(Removed(p, gone), t, kind = "relay")

(* No room: what t would have replaced has left all the same. *)
NoRoom(c, t, kind) ==
    /\ PostValidate(c, t, kind)
    /\ LET p == Removed(mempool, Replaced(mempool, t, kind))
       IN  Evictions(p, t) = {} /\ mempool' = p

(* handle_new_block_transactions: only the ids of the block are removed, a  *)
(* sibling with the same flash id stays.                                    *)
HandleNewBlock(B, daa) ==
    /\ mempool' = Removed(mempool, B)
    /\ accepted' = [t \in Tx |-> IF t \in B THEN daa ELSE accepted[t]]
    /\ UNCHANGED <<call, scan, expired, score>>

AdvanceScore ==
    /\ score < MaxScore
    /\ score' = score + 1
    /\ UNCHANGED <<mempool, accepted, call, scan, expired>>

-----------------------------------------------------------------------------
(* expire_low_priority_transactions takes the write lock for each of three  *)
(* steps; at most one such task runs.  Whether the first two scan is left   *)
(* open: their interval may not have passed.                                *)
ExpireAccepted ==
    /\ scan = "idle" /\ scan' = "collect"
    /\ \/ UNCHANGED accepted
       \/ accepted' = [t \in Tx |-> IF accepted[t] # None /\ score > accepted[t] + AcceptedExpireInterval
                                     THEN None ELSE accepted[t]]
    /\ UNCHANGED <<mempool, call, expired, score>>

CollectExpired ==
    /\ scan = "collect" /\ scan' = "remove"
    /\ \/ UNCHANGED expired
       \/ expired' = {t \in mempool.low : score > mempool.addedAt[t] + ExpireInterval}
    /\ UNCHANGED <<mempool, accepted, call, score>>

RemoveExpired ==
    /\ scan = "remove" /\ scan' = "idle"
    /\ mempool' = Removed(mempool, expired) /\ expired' = {}
    /\ UNCHANGED <<accepted, call, score>>

Next ==
    \/ \E c \in Caller, t \in Tx, kind \in Kinds :
          PreValidate(c, t, kind) \/ Insert(c, t, kind) \/ NoRoom(c, t, kind)
    \/ \E c \in Caller : Refuse(c)
    \/ \E B \in SUBSET Tx, daa \in 0 .. score :
          /\ Cardinality(B \cup {t \in Tx : accepted[t] # None}) <= MaxAccepted
          /\ HandleNewBlock(B, daa)
    \/ AdvanceScore
    \/ ExpireAccepted \/ CollectExpired \/ RemoveExpired

Spec == Init /\ [][Next]_vars

-----------------------------------------------------------------------------
(* The indexes of the pool agree with it: the frontier offers exactly the   *)
(* pooled transactions to the block template, every pooled transaction that *)
(* is tracked owns its flash id, so no two of these have the same one, and  *)
(* no owner is left behind that would block a later transaction.            *)
IndexesAgree ==
    /\ mempool.ready = mempool.all /\ mempool.low \subseteq mempool.all
    /\ mempool.debits = mempool.all \cap Flash
    /\ \A t \in mempool.all \cap Flash : mempool.owner[FlashId[t]] = t
    /\ \A f \in FlashIds : mempool.owner[f] # None =>
            /\ mempool.owner[f] \in mempool.all \cap Flash
            /\ FlashId[mempool.owner[f]] = f

(* A transaction that is known to be accepted is not pending, also when its *)
(* block came while consensus was validating it without a lock.             *)
AcceptedIsNotPending == \A t \in mempool.all : accepted[t] = None

(* The size that is kept step by step is that of the pooled transactions,   *)
(* and the pool stays within its limits.  The pending debit of a sender is  *)
(* never more than its tracked transactions owe, and is exactly that unless *)
(* an addition saturated since the sender last had none.                    *)
TotalsAreExact ==
    /\ mempool.size = BytesOf(mempool.all) /\ mempool.size <= MempoolSizeLimit
    /\ Cardinality(mempool.all) <= MaximumTransactionCount
    /\ \A s \in Senders :
          LET due == SumFunctionOnSet(Debit, {t \in mempool.all \cap Flash : Sender[t] = s})
          IN  /\ mempool.pendingDebit[s] <= due
              /\ s \notin mempool.capped => mempool.pendingDebit[s] = due
=============================================================================

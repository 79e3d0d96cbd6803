--------------------------- MODULE MempoolProofs ---------------------------
(***************************************************************************)
(* IndexesAgree, AcceptedIsNotPending and TotalsAreExact for any           *)
(* transactions, callers, limits and intervals.                            *)
(*                                                                         *)
(* All follow from what Removed and Added do to a pool.  IndexesAgree is  *)
(* inductive with the shape of the pool: a removal keeps the indexes in    *)
(* agreement, and so does an addition to a pool in which the flash id of   *)
(* the new transaction has no owner.  That the flash id is free when a     *)
(* transaction is added is the argument of FlashIdIsFree: the RBF policy   *)
(* either requires it or has the owner removed under the same lock.  The   *)
(* totals rest on what a sum over a finite set loses with a part of it.    *)
(***************************************************************************)
EXTENDS Mempool, FiniteSetTheorems, TLAPS

PoolFields == {"all", "low", "addedAt", "ready", "owner", "debits", "pendingDebit", "capped", "size"}

Shape(p) ==
    /\ PoolFields \subseteq DOMAIN p
    /\ p.all \subseteq Tx
    /\ p.owner \in [FlashIds -> Tx \cup {None}]

(* IndexesAgree of any pool. *)
Agrees(p) ==
    /\ p.ready = p.all /\ p.low \subseteq p.all
    /\ p.debits = p.all \cap Flash
    /\ \A t \in p.all \cap Flash : p.owner[FlashId[t]] = t
    /\ \A f \in FlashIds : p.owner[f] # None =>
            /\ p.owner[f] \in p.all \cap Flash
            /\ FlashId[p.owner[f]] = f

(* What a removal leaves of the fields the indexes are made of. *)
LEMMA RemovedFields ==
  ASSUME NEW p, Shape(p), NEW S
  PROVE  /\ Removed(p, S).all = p.all \ S
         /\ Removed(p, S).low = p.low \ S
         /\ Removed(p, S).ready = p.ready \ S
         /\ Removed(p, S).debits = p.debits \ S
         /\ Removed(p, S).owner = [f \in FlashIds |-> IF p.owner[f] \in S THEN None ELSE p.owner[f]]
         /\ PoolFields \subseteq DOMAIN Removed(p, S)
BY DEF Removed, Shape, PoolFields

LEMMA RemovedAll ==
  ASSUME NEW p, Shape(p), NEW S
  PROVE  Removed(p, S).all = p.all \ S
BY DEF Removed, Shape, PoolFields

LEMMA RemovedShape ==
  ASSUME NEW p, Shape(p), NEW S
  PROVE  Shape(Removed(p, S))
<1> DEFINE q == Removed(p, S)
<1>1. /\ q.all = p.all \ S
      /\ q.owner = [f \in FlashIds |-> IF p.owner[f] \in S THEN None ELSE p.owner[f]]
      /\ PoolFields \subseteq DOMAIN q
  BY RemovedFields
<1> HIDE DEF q
<1>2. Shape(q)
  BY <1>1 DEF Shape
<1> QED BY <1>2 DEF q

(* Removing any transactions keeps the indexes in agreement. *)
LEMMA RemovedAgrees ==
  ASSUME NEW p, Shape(p), Agrees(p), NEW S
  PROVE  Agrees(Removed(p, S))
<1> DEFINE q == Removed(p, S)
<1>0. /\ q.all = p.all \ S
      /\ q.low = p.low \ S
      /\ q.ready = p.ready \ S
      /\ q.debits = p.debits \ S
      /\ q.owner = [f \in FlashIds |-> IF p.owner[f] \in S THEN None ELSE p.owner[f]]
  BY RemovedFields
<1> HIDE DEF q
<1>1. /\ q.ready = q.all /\ q.low \subseteq q.all
      /\ q.debits = q.all \cap Flash
  BY <1>0 DEF Agrees
<1>2. ASSUME NEW t \in q.all \cap Flash PROVE q.owner[FlashId[t]] = t
  <2>1. t \in p.all \cap Flash /\ t \notin S
    BY <1>0
  <2>2. FlashId[t] \in FlashIds /\ p.owner[FlashId[t]] = t
    BY <2>1 DEF Agrees, FlashIds
  <2> QED BY <2>1, <2>2, <1>0
<1>3. ASSUME NEW f \in FlashIds, q.owner[f] # None
      PROVE  q.owner[f] \in q.all \cap Flash /\ FlashId[q.owner[f]] = f
  <2>1. p.owner[f] \notin S /\ q.owner[f] = p.owner[f]
    BY <1>3, <1>0
  <2> QED BY <1>3, <2>1, <1>0 DEF Agrees
<1>4. Agrees(q)
  BY <1>1, <1>2, <1>3 DEF Agrees
<1> QED BY <1>4 DEF q

(* q is p with the transaction t added, whose flash id was free in p. *)
IsAdded(p, q, t) ==
    /\ PoolFields \subseteq DOMAIN q
    /\ q.all = p.all \cup {t}
    /\ q.low \subseteq p.low \cup {t}
    /\ q.ready = p.ready \cup {t}
    /\ q.debits = p.debits \cup ({t} \ Untracked)
    /\ q.owner = IF t \in Untracked THEN p.owner ELSE [p.owner EXCEPT ![FlashId[t]] = t]

LEMMA AddedFields ==
  ASSUME NEW p, Shape(p), NEW t \in Tx, NEW kind, DoubleSpends(p, t) = {}
  PROVE  IsAdded(p, Added(p, t, kind = "relay"), t)
<1>1. CASE t \in Untracked
  BY <1>1 DEF Added, Shape, PoolFields, IsAdded
<1>2. CASE t \notin Untracked
  BY <1>2 DEF Added, Shape, PoolFields, IsAdded
<1> QED BY <1>1, <1>2

LEMMA AddedShape ==
  ASSUME NEW p, NEW q, NEW t \in Tx, Shape(p), IsAdded(p, q, t)
  PROVE  Shape(q)
<1>1. CASE t \in Untracked
  BY <1>1 DEF Shape, IsAdded
<1>2. CASE t \notin Untracked
  <2>1. [p.owner EXCEPT ![FlashId[t]] = t] \in [FlashIds -> Tx \cup {None}]
    BY <1>2, Zenon DEF Shape
  <2> QED BY <1>2, <2>1 DEF Shape, IsAdded
<1> QED BY <1>1, <1>2

(* Adding a transaction whose flash id is free keeps them in agreement. *)
LEMMA AddedAgrees ==
  ASSUME NEW p, NEW q, NEW t \in Tx, Shape(p), Agrees(p),
         DoubleSpends(p, t) = {}, IsAdded(p, q, t)
  PROVE  Agrees(q)
<1>1. /\ q.ready = q.all /\ q.low \subseteq q.all
      /\ q.debits = q.all \cap Flash
  BY DEF Agrees, IsAdded, Flash
<1>2. CASE t \in Untracked
  <2>1. q.owner = p.owner /\ q.all \cap Flash = p.all \cap Flash
    BY <1>2 DEF IsAdded, Flash
  <2> QED BY <1>1, <2>1 DEF Agrees
<1>3. CASE t \notin Untracked
  <2>1. /\ q.owner = [p.owner EXCEPT ![FlashId[t]] = t]
        /\ q.all = p.all \cup {t}
    BY <1>3 DEF IsAdded
  <2>2. t \in Flash /\ FlashId[t] \in FlashIds /\ p.owner[FlashId[t]] = None
    BY <1>3 DEF Flash, FlashIds, DoubleSpends
  <2>3. p.owner \in [FlashIds -> Tx \cup {None}] /\ p.all \subseteq Tx
    BY DEF Shape
  <2>4. ASSUME NEW u \in q.all \cap Flash PROVE q.owner[FlashId[u]] = u
    <3>1. CASE u = t
      BY <3>1, <2>1, <2>2, <2>3
    <3>2. CASE u # t
      <4>1. u \in p.all \cap Flash
        BY <3>2, <2>1
      <4>2. p.owner[FlashId[u]] = u /\ FlashId[u] \in FlashIds
        BY <4>1 DEF Agrees, FlashIds
      <4>3. u # None
        BY <4>1, <2>3, MempoolAssumption, Zenon
      <4> QED BY <4>2, <4>3, <2>1, <2>2, <2>3
    <3> QED BY <3>1, <3>2
  <2>5. ASSUME NEW f \in FlashIds, q.owner[f] # None
        PROVE  q.owner[f] \in q.all \cap Flash /\ FlashId[q.owner[f]] = f
    BY <2>1, <2>2, <2>3, <2>5 DEF Agrees
  <2> QED BY <1>1, <2>4, <2>5 DEF Agrees
<1> QED BY <1>2, <1>3
-----------------------------------------------------------------------------
(* What is removed for a transaction that passed the checks frees its flash *)
(* id, and evictions keep it free.                                          *)
LEMMA FlashIdIsFree ==
  ASSUME NEW p, Shape(p), NEW t \in Tx, NEW kind \in Kinds,
         ReplacesByFee(p, t, kind), NEW S
  PROVE  DoubleSpends(Removed(Removed(p, Replaced(p, t, kind)), S), t) = {}
<1>1. CASE t \in Untracked
  BY <1>1 DEF DoubleSpends
<1>2. CASE t \notin Untracked
  <2> DEFINE R == Replaced(p, t, kind)
             q == Removed(p, R)
             r == Removed(q, S)
             f == FlashId[t]
  <2>1. f \in FlashIds
    BY <1>2 DEF FlashIds, Flash
  <2>2. Shape(q)
    BY RemovedShape
  <2>3. /\ q.owner = [g \in FlashIds |-> IF p.owner[g] \in R THEN None ELSE p.owner[g]]
        /\ r.owner = [g \in FlashIds |-> IF q.owner[g] \in S THEN None ELSE q.owner[g]]
    BY <2>2, RemovedFields
  <2>4. p.owner[f] = None \/ p.owner[f] \in R
    BY <1>2 DEF ReplacesByFee, MayReplace, Replaced, DoubleSpends
  <2> HIDE DEF R, q, r, f
  <2>5. q.owner[f] = None
    BY <2>1, <2>3, <2>4
  <2>6. r.owner[f] = None
    BY <2>1, <2>3, <2>5
  <2>7. DoubleSpends(r, t) = {}
    BY <1>2, <2>6 DEF DoubleSpends, f
  <2> QED BY <2>7 DEF r, q, R
<1> QED BY <1>1, <1>2
-----------------------------------------------------------------------------
PoolInv == Shape(mempool) /\ Agrees(mempool)

(* A transaction is inserted into the pool that the replacements and the    *)
(* evictions have left.                                                     *)
LEMMA InsertKeepsPoolInv ==
  ASSUME PoolInv, NEW c, NEW t \in Tx, NEW kind \in Kinds, Insert(c, t, kind)
  PROVE  PoolInv'
<1> DEFINE p == Removed(mempool, Replaced(mempool, t, kind))
<1>1. PICK gone : mempool' = Added(Removed(p, gone), t, kind = "relay")
  BY DEF Insert
<1> DEFINE q == Removed(p, gone)
<1>2. ReplacesByFee(mempool, t, kind)
  BY DEF Insert, PostValidate
<1>3. Shape(p) /\ Agrees(p)
  BY RemovedShape, RemovedAgrees DEF PoolInv
<1>4. Shape(q) /\ Agrees(q)
  <2> HIDE DEF p
  <2> QED BY <1>3, RemovedShape, RemovedAgrees
<1>5. DoubleSpends(q, t) = {}
  BY <1>2, FlashIdIsFree DEF PoolInv
<1> HIDE DEF p, q
<1>6. IsAdded(q, mempool', t)
  BY <1>1, <1>4, <1>5, AddedFields, Zenon DEF q
<1> QED BY <1>4, <1>5, <1>6, AddedShape, AddedAgrees DEF PoolInv

(* Only the inserted transaction joins the pool. *)
LEMMA InsertAddsOne ==
  ASSUME PoolInv, NEW c, NEW t \in Tx, NEW kind \in Kinds, Insert(c, t, kind)
  PROVE  mempool'.all \subseteq mempool.all \cup {t}
<1> DEFINE p == Removed(mempool, Replaced(mempool, t, kind))
<1>1. PICK gone : mempool' = Added(Removed(p, gone), t, kind = "relay")
  BY DEF Insert
<1> DEFINE q == Removed(p, gone)
<1>2. ReplacesByFee(mempool, t, kind)
  BY DEF Insert, PostValidate
<1>3. Shape(p) /\ p.all \subseteq mempool.all
  BY RemovedShape, RemovedAll DEF PoolInv
<1>4. DoubleSpends(q, t) = {}
  BY <1>2, FlashIdIsFree DEF PoolInv
<1>5. Shape(q) /\ q.all \subseteq p.all
  <2> HIDE DEF p
  <2> QED BY <1>3, RemovedShape, RemovedAll
<1> HIDE DEF p, q
<1>6. IsAdded(q, mempool', t)
  BY <1>1, <1>4, <1>5, AddedFields DEF q
<1> QED BY <1>3, <1>5, <1>6 DEF IsAdded

LEMMA RemovalKeepsPoolInv ==
  ASSUME PoolInv, NEW S, mempool' = Removed(mempool, S)
  PROVE  PoolInv'
BY RemovedShape, RemovedAgrees DEF PoolInv

(* For every instance, the frontier offers exactly the pooled transactions  *)
(* to block templates and flash ids are owned by exactly the pooled flash   *)
(* transactions that have them, after any sequence of submissions,          *)
(* replacements, evictions, new blocks and expiry.                          *)
THEOREM PoolIndexesAgree == Spec => []IndexesAgree
<1>1. Init => PoolInv
  BY DEF Init, EmptyPool, PoolInv, Shape, Agrees, PoolFields
<1>2. PoolInv /\ [Next]_vars => PoolInv'
  <2> SUFFICES ASSUME PoolInv, [Next]_vars PROVE PoolInv'
    OBVIOUS
  <2>1. ASSUME NEW c \in Caller, NEW t \in Tx, NEW kind \in Kinds, Insert(c, t, kind)
        PROVE  PoolInv'
    BY <2>1, InsertKeepsPoolInv
  <2>2. ASSUME NEW c \in Caller, NEW t \in Tx, NEW kind \in Kinds, NoRoom(c, t, kind)
        PROVE  PoolInv'
    BY <2>2, RemovalKeepsPoolInv DEF NoRoom
  <2>3. ASSUME NEW B, NEW daa, HandleNewBlock(B, daa)
        PROVE  PoolInv'
    BY <2>3, RemovalKeepsPoolInv DEF HandleNewBlock
  <2>4. CASE RemoveExpired
    BY <2>4, RemovalKeepsPoolInv DEF RemoveExpired
  <2>5. CASE UNCHANGED mempool
    BY <2>5 DEF PoolInv
  <2>6. \/ UNCHANGED mempool
        \/ \E c \in Caller, t \in Tx, kind \in Kinds : Insert(c, t, kind) \/ NoRoom(c, t, kind)
        \/ \E B \in SUBSET Tx, daa \in 0 .. score : HandleNewBlock(B, daa)
        \/ RemoveExpired
    BY Zenon DEF Next, vars, PreValidate, Refuse, AdvanceScore, ExpireAccepted, CollectExpired
  <2> QED BY <2>1, <2>2, <2>3, <2>4, <2>5, <2>6
<1>3. PoolInv => IndexesAgree
  BY DEF PoolInv, Agrees, IndexesAgree
<1> QED BY <1>1, <1>2, <1>3, PTL DEF Spec
-----------------------------------------------------------------------------
AcceptedInv ==
    /\ Shape(mempool)
    /\ Agrees(mempool)
    /\ AcceptedIsNotPending

(* For every instance, a transaction the pool knows to be accepted is not   *)
(* pending: post-validation checks again what may have changed since the    *)
(* read lock, and a new block removes its transactions as it records them.  *)
THEOREM AcceptedLeave == Spec => []AcceptedIsNotPending
<1>1. Init => AcceptedInv
  BY DEF Init, EmptyPool, AcceptedInv, Shape, Agrees, PoolFields, AcceptedIsNotPending
<1>2. AcceptedInv /\ [Next]_vars => AcceptedInv'
  <2> SUFFICES ASSUME AcceptedInv, [Next]_vars PROVE AcceptedInv'
    OBVIOUS
  <2> USE DEF AcceptedInv
  <2>0. PoolInv
    BY DEF PoolInv
  <2>1. ASSUME NEW c \in Caller, NEW t \in Tx, NEW kind \in Kinds, Insert(c, t, kind)
        PROVE  AcceptedInv'
    <3>1. Shape(mempool)' /\ Agrees(mempool)'
      BY <2>0, <2>1, InsertKeepsPoolInv DEF PoolInv
    <3>2. accepted[t] = None /\ accepted' = accepted
      BY <2>1 DEF Insert, PostValidate
    <3>3. mempool'.all \subseteq mempool.all \cup {t}
      BY <2>0, <2>1, InsertAddsOne
    <3> QED BY <3>1, <3>2, <3>3 DEF AcceptedIsNotPending
  <2>2. ASSUME NEW S, mempool' = Removed(mempool, S)
        PROVE  mempool'.all = mempool.all \ S /\ Shape(mempool)' /\ Agrees(mempool)'
    BY <2>2, RemovedFields, RemovedShape, RemovedAgrees, ZenonT(30)
  <2>3. ASSUME NEW c \in Caller, NEW t \in Tx, NEW kind \in Kinds, NoRoom(c, t, kind)
        PROVE  AcceptedInv'
    BY <2>2, <2>3 DEF NoRoom, PostValidate, AcceptedIsNotPending
  <2>4. ASSUME NEW B, NEW daa, HandleNewBlock(B, daa)
        PROVE  AcceptedInv'
    <3>1. mempool' = Removed(mempool, B)
      BY <2>4 DEF HandleNewBlock
    <3>2. mempool'.all = mempool.all \ B /\ Shape(mempool)' /\ Agrees(mempool)'
      BY <2>2, <3>1
    <3>3. accepted' = [t \in Tx |-> IF t \in B THEN daa ELSE accepted[t]]
      BY <2>4 DEF HandleNewBlock
    <3>4. mempool.all \subseteq Tx
      BY DEF Shape
    <3> QED BY <3>2, <3>3, <3>4 DEF AcceptedIsNotPending
  <2>5. CASE RemoveExpired
    BY <2>2, <2>5 DEF RemoveExpired, AcceptedIsNotPending
  <2>6. CASE ExpireAccepted
    BY <2>6 DEF ExpireAccepted, AcceptedIsNotPending, Shape
  <2>7. CASE UNCHANGED <<mempool, accepted>>
    BY <2>7 DEF AcceptedIsNotPending
  <2>8. \/ UNCHANGED <<mempool, accepted>>
        \/ \E c \in Caller, t \in Tx, kind \in Kinds : Insert(c, t, kind) \/ NoRoom(c, t, kind)
        \/ \E B \in SUBSET Tx, daa \in 0 .. score : HandleNewBlock(B, daa)
        \/ RemoveExpired
        \/ ExpireAccepted
    BY Zenon DEF Next, vars, PreValidate, Refuse, AdvanceScore, CollectExpired
  <2> QED BY <2>1, <2>3, <2>4, <2>5, <2>6, <2>7, <2>8
<1>3. AcceptedInv => AcceptedIsNotPending
  BY DEF AcceptedInv
<1> QED BY <1>1, <1>2, <1>3, PTL DEF Spec
-----------------------------------------------------------------------------
(* A set of subsets of a finite set that has, with each member, a smaller  *)
(* one is empty: the induction behind the facts about sums.  bad are the   *)
(* counterexamples.                                                        *)
LEMMA SubsetInduction ==
  ASSUME NEW D, IsFiniteSet(D), NEW bad \in SUBSET (SUBSET D),
         \A u \in bad : \E v \in bad : v \subseteq u /\ v # u
  PROVE  bad = {}
<1> DEFINE R == StrictSubsetOrdering(D)
<1>1. FiniteSubsetsOf(D) = SUBSET D
  BY FS_FiniteSubsetsOfFinite, Zenon
<1>2. IsWellFoundedOn(R, SUBSET D)
  <2>1. IsWellFoundedOn(R, FiniteSubsetsOf(D))
    BY FS_StrictSubsetOrderingWellFounded, Zenon
  <2> QED BY <1>1, <2>1, Zenon
<1>3. ASSUME bad # {} PROVE FALSE
  <2>1. PICK u \in bad : \A v \in bad : ~(<<v, u>> \in R)
    <3> HIDE DEF R
    <3> QED BY <1>2, <1>3, WFMin
  <2>2. PICK v \in bad : v \subseteq u /\ v # u
    OBVIOUS
  <2>3. <<v, u>> \in R
    BY <2>2 DEF StrictSubsetOrdering
  <2> QED BY <2>1, <2>2, <2>3
<1> QED BY <1>3

(* What SumFunctionOnSet computes on the subsets of D: a recursion that    *)
(* takes the elements in some order.                                       *)
Some(u) == CHOOSE x \in u : TRUE
IsTotal(g, f, D) ==
    g = [u \in SUBSET D |-> IF u = {} THEN 0 ELSE f[Some(u)] + g[u \ {Some(u)}]]
Total(f, D) == CHOOSE g : IsTotal(g, f, D)

LEMMA SumIsTotal ==
  ASSUME NEW f, NEW D
  PROVE  SumFunctionOnSet(f, D) = Total(f, D)[D]
BY DEF SumFunctionOnSet, FoldFunctionOnSet, MapThenFoldSet, Total, IsTotal, Some

LEMMA SomeIn ==
  ASSUME NEW u, u # {}
  PROVE  Some(u) \in u
BY DEF Some

LEMMA TotalStep ==
  ASSUME NEW g, NEW f, NEW D, IsTotal(g, f, D), NEW u \in SUBSET D
  PROVE  /\ u = {} => g[u] = 0
         /\ u # {} => g[u] = f[Some(u)] + g[u \ {Some(u)}]
BY DEF IsTotal

(* The recursions for two sets agree on their common subsets. *)
LEMMA TotalsAgree ==
  ASSUME NEW f, NEW D, IsFiniteSet(D), NEW E, NEW g, NEW h,
         IsTotal(g, f, D), IsTotal(h, f, E), NEW w \in SUBSET D, w \in SUBSET E
  PROVE  g[w] = h[w]
<1> DEFINE bad == {u \in SUBSET D : u \in SUBSET E /\ g[u] # h[u]}
<1>1. ASSUME NEW u \in bad PROVE \E v \in bad : v \subseteq u /\ v # u
  <2>1. u # {}
    BY TotalStep
  <2>2. Some(u) \in u
    BY <2>1, SomeIn
  <2>3. g[u] = f[Some(u)] + g[u \ {Some(u)}]
    BY <2>1, TotalStep
  <2>4. h[u] = f[Some(u)] + h[u \ {Some(u)}]
    <3>1. u \in SUBSET E
      OBVIOUS
    <3> HIDE DEF bad
    <3> QED BY <2>1, <3>1, TotalStep
  <2>5. u \ {Some(u)} \in bad
    BY <2>3, <2>4
  <2> QED BY <2>2, <2>5
<1>2. bad \in SUBSET (SUBSET D)
  OBVIOUS
<1>3. bad = {}
  <2> HIDE DEF bad
  <2> QED BY <1>1, <1>2, SubsetInduction
<1> QED BY <1>3

(* The recursion has a solution for every finite set. *)
LEMMA TotalExists ==
  ASSUME NEW f, NEW D, IsFiniteSet(D)
  PROVE  IsTotal(Total(f, D), f, D)
<1> DEFINE bad == {u \in SUBSET D : ~\E g : IsTotal(g, f, u)}
<1>1. ASSUME NEW d \in bad, \A v \in bad : ~(v \subseteq d /\ v # d) PROVE FALSE
  <2> DEFINE value(u) == IF u = {} THEN 0 ELSE f[Some(u)] + Total(f, u \ {Some(u)})[u \ {Some(u)}]
             h == [u \in SUBSET d |-> value(u)]
  <2>1. ASSUME NEW v \in SUBSET d, v # d PROVE IsTotal(Total(f, v), f, v) /\ IsFiniteSet(v)
    <3>1. v \notin bad /\ v \in SUBSET D
      BY <1>1, <2>1
    <3>2. \E g : IsTotal(g, f, v)
      BY <3>1
    <3>3. IsTotal(Total(f, v), f, v)
      BY <3>2, Zenon DEF Total
    <3> QED BY <3>1, <3>3, FS_Subset
  <2>2. ASSUME NEW u \in SUBSET d, u # {}
        PROVE  h[u \ {Some(u)}] = Total(f, u \ {Some(u)})[u \ {Some(u)}]
    <3> DEFINE w == u \ {Some(u)}
    <3> SUFFICES h[w] = Total(f, w)[w]
      OBVIOUS
    <3>1. w \in SUBSET d /\ w # d
      BY <2>2, SomeIn
    <3>2. IsTotal(Total(f, w), f, w) /\ w \in SUBSET w
      BY <2>1, <3>1
    <3>3. h[w] = value(w)
      BY <3>1
    <3> HIDE DEF w, h
    <3>4. CASE w = {}
      <4>1. Total(f, w)[w] = 0
        BY <3>2, <3>4, TotalStep
      <4> QED BY <3>3, <3>4, <4>1, Zenon
    <3>5. CASE w # {}
      <4> DEFINE x == w \ {Some(w)}
      <4>1. x \in SUBSET d /\ x # d /\ x \in SUBSET w /\ x \in SUBSET x
        BY <3>1, <3>5, SomeIn
      <4>2. IsTotal(Total(f, x), f, x) /\ IsFiniteSet(x)
        BY <2>1, <4>1
      <4>3. Total(f, x)[x] = Total(f, w)[x]
        BY <3>2, <4>1, <4>2, TotalsAgree
      <4>4. Total(f, w)[w] = f[Some(w)] + Total(f, w)[x]
        BY <3>2, <3>5, TotalStep
      <4> QED BY <3>3, <3>5, <4>3, <4>4, Zenon
    <3> QED BY <3>4, <3>5
  <2>3. ASSUME NEW u \in SUBSET d PROVE value(u) = IF u = {} THEN 0 ELSE f[Some(u)] + h[u \ {Some(u)}]
    <3> HIDE DEF h
    <3> QED BY <2>2
  <2>4. h = [u \in SUBSET d |-> IF u = {} THEN 0 ELSE f[Some(u)] + h[u \ {Some(u)}]]
    <3> HIDE DEF value
    <3> QED BY <2>3
  <2> HIDE DEF h
  <2>5. IsTotal(h, f, d)
    BY <2>4 DEF IsTotal
  <2> QED BY <2>5
<1>2. bad \in SUBSET (SUBSET D)
  OBVIOUS
<1>3. bad = {}
  <2>1. \A d \in bad : \E v \in bad : v \subseteq d /\ v # d
    <3> HIDE DEF bad
    <3> QED BY <1>1
  <2> HIDE DEF bad
  <2> QED BY <1>2, <2>1, SubsetInduction
<1>4. \E g : IsTotal(g, f, D)
  BY <1>3
<1> QED BY <1>4, Zenon DEF Total

(* What the sum over a finite set is in terms of a smaller one. *)
LEMMA SumStep ==
  ASSUME NEW f, NEW D, IsFiniteSet(D)
  PROVE  /\ D = {} => SumFunctionOnSet(f, D) = 0
         /\ D # {} => SumFunctionOnSet(f, D) = f[Some(D)] + SumFunctionOnSet(f, D \ {Some(D)})
<1> DEFINE E == D \ {Some(D)}
<1>1. IsTotal(Total(f, D), f, D) /\ D \in SUBSET D
  BY TotalExists
<1>2. IsFiniteSet(E)
  BY FS_Subset
<1>3. IsTotal(Total(f, E), f, E) /\ E \in SUBSET E /\ E \in SUBSET D
  BY <1>2, TotalExists
<1>4. Total(f, D)[E] = Total(f, E)[E]
  <2> HIDE DEF E
  <2> QED BY <1>1, <1>3, TotalsAgree
<1>5. /\ SumFunctionOnSet(f, D) = Total(f, D)[D]
      /\ SumFunctionOnSet(f, E) = Total(f, E)[E]
  BY SumIsTotal
<1>6. /\ D = {} => Total(f, D)[D] = 0
      /\ D # {} => Total(f, D)[D] = f[Some(D)] + Total(f, D)[E]
  BY <1>1, TotalStep
<1> QED BY <1>4, <1>5, <1>6

(* The order does not matter: any element may be taken out of a sum. *)
LEMMA SumRemove ==
  ASSUME NEW f, NEW D, IsFiniteSet(D), \A x \in D : f[x] \in Nat
  PROVE  /\ SumFunctionOnSet(f, D) \in Nat
         /\ \A x \in D : SumFunctionOnSet(f, D) = f[x] + SumFunctionOnSet(f, D \ {x})
<1> DEFINE S(u) == SumFunctionOnSet(f, u)
           good(u) == S(u) \in Nat /\ \A x \in u : S(u) = f[x] + S(u \ {x})
           bad == {u \in SUBSET D : ~good(u)}
<1>1. ASSUME NEW u \in bad, \A v \in bad : ~(v \subseteq u /\ v # u) PROVE FALSE
  <2> DEFINE p == Some(u)
             v == u \ {p}
  <2>1. IsFiniteSet(u) /\ \A x \in u : f[x] \in Nat
    BY FS_Subset
  <2>2. u # {}
    <3>1. u = {} => S(u) = 0
      BY <2>1, SumStep
    <3> HIDE DEF S
    <3> QED BY <3>1
  <2>3. p \in u
    BY <2>2, SomeIn
  <2>4. S(u) = f[p] + S(v)
    BY <2>1, <2>2, SumStep
  <2> HIDE DEF S, p
  <2>5. \A x \in u : good(u \ {x})
    BY <1>1
  <2>6. good(v)
    BY <2>3, <2>5
  <2>7. S(u) \in Nat
    BY <2>1, <2>3, <2>4, <2>6
  <2>8. ASSUME NEW x \in u PROVE S(u) = f[x] + S(u \ {x})
    <3>1. CASE x = p
      BY <2>4, <3>1
    <3>2. CASE x # p
      <4> DEFINE w == u \ {x}
      <4>1. x \in v /\ p \in w /\ w \ {p} = v \ {x}
        BY <2>3, <3>2
      <4>2. S(v) = f[x] + S(v \ {x})
        BY <2>6, <4>1
      <4>3. good(w)
        BY <2>5
      <4>4. S(w) = f[p] + S(v \ {x})
        BY <4>1, <4>3
      <4>5. S(v \ {x}) \in Nat
        <5>1. v \ {x} \in SUBSET D /\ v \ {x} \subseteq u /\ v \ {x} # u
          OBVIOUS
        <5> HIDE DEF v
        <5> QED BY <1>1, <5>1
      <4>6. f[x] \in Nat /\ f[p] \in Nat
        BY <2>1, <2>3
      <4> HIDE DEF v, w
      <4>7. S(u) = f[x] + S(w)
        BY <2>4, <4>2, <4>4, <4>5, <4>6
      <4> QED BY <4>7 DEF w
    <3> QED BY <3>1, <3>2
  <2> QED BY <2>7, <2>8
<1>2. bad \in SUBSET (SUBSET D)
  OBVIOUS
<1>3. bad = {}
  <2>1. \A d \in bad : \E v \in bad : v \subseteq d /\ v # d
    <3> HIDE DEF bad
    <3> QED BY <1>1
  <2> HIDE DEF bad
  <2> QED BY <1>2, <2>1, SubsetInduction
<1> QED BY <1>3

(* A sum is that over a part and that over the rest. *)
LEMMA SumSplit ==
  ASSUME NEW f, NEW D, IsFiniteSet(D), \A x \in D : f[x] \in Nat, NEW R \in SUBSET D
  PROVE  /\ SumFunctionOnSet(f, R) \in Nat /\ SumFunctionOnSet(f, D \ R) \in Nat
         /\ SumFunctionOnSet(f, D) = SumFunctionOnSet(f, R) + SumFunctionOnSet(f, D \ R)
<1> DEFINE S(u) == SumFunctionOnSet(f, u)
           bad == {u \in SUBSET D : S(D) # S(u) + S(D \ u)}
<1>1. ASSUME NEW u \in SUBSET D
      PROVE  IsFiniteSet(u) /\ S(u) \in Nat /\ \A x \in u : S(u) = f[x] + S(u \ {x})
  <2>1. IsFiniteSet(u) /\ \A x \in u : f[x] \in Nat
    BY FS_Subset
  <2> QED BY <2>1, SumRemove
<1>2. S({}) = 0
  BY <1>1, SumStep
<1> HIDE DEF S
<1>3. ASSUME NEW u \in bad PROVE \E v \in bad : v \subseteq u /\ v # u
  <2>1. u # {}
    <3>1. D \ {} = D /\ S(D) \in Nat
      BY <1>1
    <3>2. S(D) = S({}) + S(D \ {})
      BY <1>2, <3>1
    <3> QED BY <3>2
  <2>2. PICK x \in u : TRUE
    BY <2>1
  <2> DEFINE v == u \ {x}
             w == D \ v
  <2>3. w \in SUBSET D /\ v \in SUBSET D /\ x \in w /\ w \ {x} = D \ u
    OBVIOUS
  <2>4. S(w) = f[x] + S(D \ u) /\ S(u) = f[x] + S(v)
    BY <1>1, <2>3
  <2>5. S(v) \in Nat /\ S(w) \in Nat /\ S(D \ u) \in Nat /\ f[x] \in Nat
    BY <1>1, <2>3
  <2>6. S(u) + S(D \ u) = S(v) + S(w)
    <3> HIDE DEF v, w
    <3> QED BY <2>4, <2>5
  <2> QED BY <2>3, <2>6
<1>4. bad = {}
  <2>1. bad \in SUBSET (SUBSET D)
    OBVIOUS
  <2> HIDE DEF bad
  <2> QED BY <1>3, <2>1, SubsetInduction
<1>5. D \ R \in SUBSET D
  OBVIOUS
<1> QED BY <1>1, <1>4, <1>5 DEF S
-----------------------------------------------------------------------------
(* The pooled flash transactions of a sender. *)
Pending(p, s) == {t \in p.all \cap Flash : Sender[t] = s}

(* A pending debit is at most what the sender owes, and that unless an      *)
(* addition saturated.                                                      *)
Owed(p, s, debit) ==
    /\ debit <= SumFunctionOnSet(Debit, Pending(p, s))
    /\ s \notin p.capped => debit = SumFunctionOnSet(Debit, Pending(p, s))

(* TotalsAreExact of any pool. *)
Totals(p) ==
    /\ IsFiniteSet(p.all)
    /\ p.size = BytesOf(p.all) /\ p.size <= MempoolSizeLimit
    /\ Cardinality(p.all) <= MaximumTransactionCount
    /\ p.pendingDebit \in [Senders -> Nat]
    /\ \A s \in Senders : Owed(p, s, p.pendingDebit[s])

(* Removing transactions subtracts what they added: the subtraction does    *)
(* not saturate unless an addition did, and a sender without transactions   *)
(* is at zero again.                                                        *)
LEMMA RemovedTotals ==
  ASSUME NEW p, Shape(p), Agrees(p), Totals(p), NEW S
  PROVE  Totals(Removed(p, S))
<1> DEFINE q == Removed(p, S)
           off(s) == SumFunctionOnSet(Debit, {t \in S \cap p.debits : Sender[t] = s})
<1>1. /\ q.all = p.all \ S
      /\ q.size = p.size - BytesOf(S \cap p.all)
      /\ q.pendingDebit = [s \in Senders |-> SaturatingSub(p.pendingDebit[s], off(s))]
      /\ q.capped = {s \in p.capped : \E t \in p.debits \ S : Sender[t] = s}
  BY DEF Removed, Shape, PoolFields
<1> HIDE DEF q, off
<1>2. IsFiniteSet(p.all) /\ p.all \subseteq Tx
  BY DEF Shape, Totals
<1>3. IsFiniteSet(q.all) /\ Cardinality(q.all) <= MaximumTransactionCount
  <2>1. IsFiniteSet(q.all) /\ Cardinality(q.all) <= Cardinality(p.all)
    BY <1>1, <1>2, FS_Subset
  <2>2. Cardinality(q.all) \in Nat /\ Cardinality(p.all) \in Nat
    BY <1>2, <2>1, FS_CardinalityType
  <2> QED BY <2>1, <2>2, AmountsAssumption DEF Totals
<1>4. q.size = BytesOf(q.all) /\ q.size <= MempoolSizeLimit
  <2> DEFINE R == S \cap p.all
  <2>1. R \in SUBSET p.all /\ p.all \ R = q.all /\ \A t \in p.all : Bytes[t] \in Nat
    BY <1>1, <1>2, AmountsAssumption
  <2>2. BytesOf(R) \in Nat /\ BytesOf(q.all) \in Nat /\ BytesOf(p.all) = BytesOf(R) + BytesOf(q.all)
    <3> HIDE DEF R
    <3> QED BY <1>2, <2>1, SumSplit DEF BytesOf
  <2>3. p.size = BytesOf(p.all) /\ p.size <= MempoolSizeLimit /\ q.size = p.size - BytesOf(R)
    BY <1>1 DEF Totals
  <2> HIDE DEF R
  <2> QED BY <2>2, <2>3, AmountsAssumption
<1>5. ASSUME NEW s \in Senders
      PROVE  q.pendingDebit[s] \in Nat /\ Owed(q, s, q.pendingDebit[s])
  <2> DEFINE D == Pending(p, s)
             R == {t \in S \cap p.debits : Sender[t] = s}
             sum(X) == SumFunctionOnSet(Debit, X)
  <2>1. IsFiniteSet(D)
    BY <1>2, FS_Subset DEF Pending
  <2>2. R \in SUBSET D /\ D \ R = Pending(q, s)
    BY <1>1 DEF Pending, Agrees
  <2>3. \A t \in D : Debit[t] \in Nat
    BY AmountsAssumption DEF Pending
  <2>4. p.pendingDebit[s] \in Nat /\ p.pendingDebit[s] <= sum(D) /\ off(s) = sum(R)
    BY DEF Totals, Owed, off
  <2>7. s \notin p.capped => p.pendingDebit[s] = sum(D)
    BY DEF Totals, Owed
  <2>8. s \in p.capped /\ s \notin q.capped => D \ R = {}
    BY <1>1 DEF Pending, Agrees
  <2> HIDE DEF D, R
  <2>5. sum(R) \in Nat /\ sum(D \ R) \in Nat /\ sum(D) = sum(R) + sum(D \ R)
    <3>1. R \in SUBSET D
      BY <2>2
    <3> QED BY <2>1, <2>3, <3>1, SumSplit
  <2>6. sum({}) = 0
    BY FS_EmptySet, SumStep
  <2> HIDE DEF sum
  <2>9. q.pendingDebit[s] = SaturatingSub(p.pendingDebit[s], sum(R))
    BY <1>1, <2>4
  <2>10. q.pendingDebit[s] \in Nat /\ q.pendingDebit[s] <= sum(D \ R)
    BY <2>4, <2>5, <2>9 DEF SaturatingSub
  <2>11. s \notin q.capped => q.pendingDebit[s] = sum(D \ R)
    <3>1. CASE s \notin p.capped
      BY <2>5, <2>7, <2>9, <3>1 DEF SaturatingSub
    <3>2. CASE s \in p.capped
      BY <2>6, <2>8, <2>10, <3>2
    <3> QED BY <3>1, <3>2
  <2> QED BY <2>2, <2>10, <2>11 DEF sum, Owed
<1>6. q.pendingDebit \in [Senders -> Nat] /\ \A s \in Senders : Owed(q, s, q.pendingDebit[s])
  <2>1. \A s \in Senders : q.pendingDebit[s] \in Nat /\ Owed(q, s, q.pendingDebit[s])
    BY <1>5
  <2>2. q.pendingDebit = [s \in Senders |-> q.pendingDebit[s]]
    BY <1>1
  <2> QED BY <2>1, <2>2
<1>7. Totals(q)
  BY <1>3, <1>4, <1>6 DEF Totals
<1> QED BY <1>7 DEF q

(* Adding a transaction for which there is room keeps the totals. *)
LEMMA AddedTotals ==
  ASSUME NEW p, Shape(p), Totals(p), NEW t \in Tx, t \notin p.all, NEW kind, DoubleSpends(p, t) = {},
         Cardinality(p.all) < MaximumTransactionCount, p.size + Bytes[t] <= MempoolSizeLimit
  PROVE  Totals(Added(p, t, kind = "relay"))
<1> DEFINE q == Added(p, t, kind = "relay")
<1>1. /\ q.all = p.all \cup {t}
      /\ q.size = p.size + Bytes[t]
      /\ q.pendingDebit = IF t \in Untracked THEN p.pendingDebit
                          ELSE [p.pendingDebit EXCEPT ![Sender[t]] = SaturatingAdd(@, Debit[t])]
      /\ q.capped = IF t \in Flash /\ p.pendingDebit[Sender[t]] + Debit[t] > MaxDebit
                    THEN p.capped \cup {Sender[t]} ELSE p.capped
  BY DEF Added, Shape, PoolFields, Flash
<1> HIDE DEF q
<1>2. IsFiniteSet(p.all) /\ p.all \subseteq Tx
  BY DEF Shape, Totals
<1>3. IsFiniteSet(q.all) /\ Cardinality(q.all) <= MaximumTransactionCount
  <2>0. q.all = p.all \cup {t}
    BY <1>1
  <2>1. IsFiniteSet(q.all) /\ Cardinality(q.all) = Cardinality(p.all) + 1 /\ Cardinality(p.all) \in Nat
    BY <1>2, <2>0, FS_AddElement, FS_CardinalityType
  <2> QED BY <2>1, AmountsAssumption
<1>4. q.size = BytesOf(q.all) /\ q.size <= MempoolSizeLimit
  <2>1. q.all \ {t} = p.all /\ t \in q.all /\ \A u \in q.all : Bytes[u] \in Nat
    BY <1>1, <1>2, AmountsAssumption
  <2>2. BytesOf(q.all) = Bytes[t] + BytesOf(p.all)
    BY <1>3, <2>1, SumRemove DEF BytesOf
  <2>3. BytesOf(p.all) \in Nat
    BY <1>2, AmountsAssumption, SumRemove DEF BytesOf
  <2>4. p.size = BytesOf(p.all)
    BY DEF Totals
  <2> QED BY <1>1, <2>1, <2>2, <2>3, <2>4
<1>5. ASSUME NEW s \in Senders PROVE q.pendingDebit[s] \in Nat /\ Owed(q, s, q.pendingDebit[s])
  <2> DEFINE sum(X) == SumFunctionOnSet(Debit, X)
  <2>1. /\ p.pendingDebit \in [Senders -> Nat]
        /\ p.pendingDebit[s] <= sum(Pending(p, s))
        /\ s \notin p.capped => p.pendingDebit[s] = sum(Pending(p, s))
    BY DEF Totals, Owed
  <2>2. CASE t \in Flash /\ Sender[t] = s
    <3>1. Pending(q, s) \ {t} = Pending(p, s) /\ t \in Pending(q, s)
      BY <1>1, <2>2 DEF Pending
    <3>2. IsFiniteSet(Pending(q, s))
      BY <1>3, FS_Subset DEF Pending
    <3>3. \A u \in Pending(q, s) : Debit[u] \in Nat
      BY AmountsAssumption DEF Pending
    <3>4. sum(Pending(q, s)) = Debit[t] + sum(Pending(p, s))
      BY <3>1, <3>2, <3>3, SumRemove
    <3>5. IsFiniteSet(Pending(p, s)) /\ \A u \in Pending(p, s) : Debit[u] \in Nat
      BY <1>2, FS_Subset, AmountsAssumption DEF Pending
    <3>6. sum(Pending(p, s)) \in Nat /\ Debit[t] \in Nat
      BY <3>1, <3>3, <3>5, SumRemove
    <3>7. q.pendingDebit[s] = SaturatingAdd(p.pendingDebit[s], Debit[t])
      BY <1>1, <2>1, <2>2 DEF Flash
    <3>8. p.pendingDebit[s] + Debit[t] > MaxDebit => s \in q.capped
      BY <1>1, <2>2
    <3>9. s \notin q.capped => s \notin p.capped
      BY <1>1
    <3> HIDE DEF sum
    <3>10. q.pendingDebit[s] \in Nat /\ q.pendingDebit[s] <= sum(Pending(q, s))
      BY <2>1, <3>4, <3>6, <3>7, AmountsAssumption DEF SaturatingAdd
    <3>11. s \notin q.capped => q.pendingDebit[s] = sum(Pending(q, s))
      BY <2>1, <3>4, <3>6, <3>7, <3>8, <3>9, AmountsAssumption DEF SaturatingAdd
    <3> QED BY <3>10, <3>11 DEF Owed, sum
  <2>3. CASE ~(t \in Flash /\ Sender[t] = s)
    <3>1. Pending(q, s) = Pending(p, s)
      BY <1>1, <2>3 DEF Pending
    <3>2. q.pendingDebit[s] = p.pendingDebit[s] /\ (s \in q.capped <=> s \in p.capped)
      BY <1>1, <2>1, <2>3 DEF Flash
    <3> QED BY <2>1, <3>1, <3>2 DEF Owed
  <2> QED BY <2>2, <2>3
<1>6. q.pendingDebit \in [Senders -> Nat] /\ \A s \in Senders : Owed(q, s, q.pendingDebit[s])
  <2>1. p.pendingDebit = [s \in Senders |-> p.pendingDebit[s]]
    BY DEF Totals
  <2>2. q.pendingDebit = [s \in Senders |-> q.pendingDebit[s]]
    BY <1>1, <2>1
  <2>3. \A s \in Senders : q.pendingDebit[s] \in Nat /\ Owed(q, s, q.pendingDebit[s])
    BY <1>5
  <2> QED BY <2>2, <2>3
<1>7. Totals(q)
  BY <1>3, <1>4, <1>6 DEF Totals
<1> QED BY <1>7 DEF q

(* The transaction is inserted into a pool that limit_transaction_count has *)
(* made room in.                                                            *)
LEMMA InsertKeepsTotals ==
  ASSUME PoolInv, Totals(mempool), NEW c, NEW t \in Tx, NEW kind \in Kinds, Insert(c, t, kind)
  PROVE  Totals(mempool')
<1> DEFINE p == Removed(mempool, Replaced(mempool, t, kind))
<1>1. PICK gone \in Evictions(p, t) : mempool' = Added(Removed(p, gone), t, kind = "relay")
  BY DEF Insert
<1> DEFINE q == Removed(p, gone)
<1>2. ReplacesByFee(mempool, t, kind) /\ t \notin mempool.all
  BY DEF Insert, PostValidate
<1>3. Shape(p) /\ Agrees(p) /\ Totals(p) /\ p.all \subseteq mempool.all
  BY RemovedShape, RemovedAgrees, RemovedTotals, RemovedAll DEF PoolInv
<1>4. DoubleSpends(q, t) = {}
  BY <1>2, FlashIdIsFree DEF PoolInv
<1> HIDE DEF p
<1>5. Shape(q) /\ Totals(q) /\ q.all = p.all \ gone /\ q.size = p.size - BytesOf(gone \cap p.all)
  <2>1. q.size = p.size - BytesOf(gone \cap p.all)
    BY <1>3 DEF Removed, Shape, PoolFields
  <2> QED BY <1>3, <2>1, RemovedShape, RemovedTotals, RemovedAll
<1>6. HasRoom(p, t, gone) /\ gone \cap p.all = gone
  BY <1>1, <1>3 DEF Evictions, Agrees
<1> HIDE DEF q
<1>7. Cardinality(q.all) < MaximumTransactionCount /\ q.size + Bytes[t] <= MempoolSizeLimit
  BY <1>5, <1>6 DEF HasRoom
<1>8. t \notin q.all
  BY <1>2, <1>3, <1>5
<1>9. Totals(Added(q, t, kind = "relay"))
  BY <1>4, <1>5, <1>7, <1>8, AddedTotals
<1> QED BY <1>1, <1>9 DEF q

TotalsInv == PoolInv /\ Totals(mempool)

(* For every instance, the size of the pool is the sum over its             *)
(* transactions and stays within the limits; the pending debit of a sender, *)
(* kept by saturating additions and subtractions, never exceeds what its    *)
(* transactions owe, and is exactly that unless an addition saturated since *)
(* it last had none.                                                        *)
THEOREM PoolTotals == Spec => []TotalsAreExact
<1>1. Init => TotalsInv
  <2> SUFFICES ASSUME Init PROVE TotalsInv
    OBVIOUS
  <2>1. PoolInv
    BY DEF Init, EmptyPool, PoolInv, Shape, Agrees, PoolFields
  <2>2. mempool.all = {} /\ mempool.size = 0 /\ mempool.pendingDebit = [s \in Senders |-> 0]
    BY DEF Init, EmptyPool
  <2>3. IsFiniteSet({}) /\ Cardinality({}) = 0
    BY FS_EmptySet
  <2>4. \A f : SumFunctionOnSet(f, {}) = 0
    BY <2>3, SumStep
  <2>5. \A s \in Senders : Pending(mempool, s) = {}
    BY <2>2 DEF Pending
  <2>6. mempool.pendingDebit \in [Senders -> Nat] /\ \A s \in Senders : Owed(mempool, s, mempool.pendingDebit[s])
    BY <2>2, <2>4, <2>5 DEF Owed
  <2>7. mempool.size = BytesOf(mempool.all)
    BY <2>2, <2>4 DEF BytesOf
  <2> QED BY <2>1, <2>2, <2>3, <2>6, <2>7, AmountsAssumption DEF TotalsInv, Totals
<1>2. TotalsInv /\ [Next]_vars => TotalsInv'
  <2> SUFFICES ASSUME TotalsInv, [Next]_vars PROVE TotalsInv'
    OBVIOUS
  <2>0. PoolInv /\ Totals(mempool)
    BY DEF TotalsInv
  <2>1. ASSUME NEW c \in Caller, NEW t \in Tx, NEW kind \in Kinds, Insert(c, t, kind)
        PROVE  TotalsInv'
    <3>1. PoolInv'
      BY <2>0, <2>1, InsertKeepsPoolInv
    <3>2. Totals(mempool')
      BY <2>0, <2>1, InsertKeepsTotals
    <3> QED BY <3>1, <3>2 DEF TotalsInv, Totals, Owed, Pending
  <2>2. ASSUME NEW S, mempool' = Removed(mempool, S)
        PROVE  TotalsInv'
    <3>1. PoolInv'
      BY <2>0, <2>2, RemovalKeepsPoolInv
    <3>2. Totals(Removed(mempool, S))
      BY <2>0, RemovedTotals DEF PoolInv
    <3> QED BY <2>2, <3>1, <3>2 DEF TotalsInv, Totals, Owed, Pending
  <2>3. ASSUME NEW c \in Caller, NEW t \in Tx, NEW kind \in Kinds, NoRoom(c, t, kind)
        PROVE  TotalsInv'
    BY <2>2, <2>3 DEF NoRoom
  <2>4. ASSUME NEW B, NEW daa, HandleNewBlock(B, daa)
        PROVE  TotalsInv'
    BY <2>2, <2>4 DEF HandleNewBlock
  <2>5. CASE RemoveExpired
    BY <2>2, <2>5 DEF RemoveExpired
  <2>6. CASE UNCHANGED mempool
    BY <2>0, <2>6 DEF TotalsInv, PoolInv, Totals, Owed, Pending
  <2>7. \/ UNCHANGED mempool
        \/ \E c \in Caller, t \in Tx, kind \in Kinds : Insert(c, t, kind) \/ NoRoom(c, t, kind)
        \/ \E B \in SUBSET Tx, daa \in 0 .. score : HandleNewBlock(B, daa)
        \/ RemoveExpired
    BY Zenon DEF Next, vars, PreValidate, Refuse, AdvanceScore, ExpireAccepted, CollectExpired
  <2> QED BY <2>1, <2>3, <2>4, <2>5, <2>6, <2>7
<1>3. TotalsInv => TotalsAreExact
  <2> SUFFICES ASSUME Totals(mempool) PROVE TotalsAreExact
    BY DEF TotalsInv
  <2>1. \A s \in Senders : Owed(mempool, s, mempool.pendingDebit[s])
    BY DEF Totals
  <2> QED BY <2>1 DEF Totals, TotalsAreExact, Owed, Pending
<1> QED BY <1>1, <1>2, <1>3, PTL DEF Spec
=============================================================================

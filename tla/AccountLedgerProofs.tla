------------------------ MODULE AccountLedgerProofs ------------------------
(***************************************************************************)
(* A flash transaction takes effect once on a chain, for every tree of     *)
(* blocks, every body and every sequence of reorganizations.               *)
(***************************************************************************)
EXTENDS AccountLedger, FiniteSetTheorems, TLAPS

-----------------------------------------------------------------------------
(* Every nonempty set of naturals has a least element: the induction of    *)
(* all proofs below that need one.                                         *)
LEMMA LeastNumber ==
  ASSUME NEW T \in SUBSET Nat, T # {}
  PROVE  \E n \in T : \A m \in T : n <= m
<1>1. PICK k \in T : TRUE
  BY Zenon
<1> DEFINE U == {0 .. m : m \in {n \in T : n <= k}}
           R == StrictSubsetOrdering(0 .. k)
<1>2. IsWellFoundedOn(R, SUBSET (0 .. k))
  <2>1. IsFiniteSet(0 .. k)
    BY FS_Interval
  <2>2. FiniteSubsetsOf(0 .. k) = SUBSET (0 .. k)
    BY <2>1, FS_FiniteSubsetsOfFinite, Zenon
  <2>3. IsWellFoundedOn(R, FiniteSubsetsOf(0 .. k))
    BY FS_StrictSubsetOrderingWellFounded, Zenon
  <2> QED BY <2>2, <2>3, Zenon
<1>3. U \subseteq SUBSET (0 .. k) /\ U # {}
  OBVIOUS
<1>4. PICK I \in U : \A J \in U : ~(<<J, I>> \in R)
  <2> HIDE DEF U, R
  <2> QED BY Zenon, <1>2, <1>3, WFMin
<1>5. PICK n \in T : n <= k /\ I = 0 .. n
  OBVIOUS
<1>6. ASSUME NEW m \in T, m < n PROVE FALSE
  <2>1. 0 .. m \in U /\ 0 .. m \subseteq 0 .. n /\ 0 .. m # 0 .. n
    BY <1>5, <1>6
  <2> QED BY Zenon, <2>1, <1>3, <1>4, <1>5 DEF StrictSubsetOrdering
<1> QED BY <1>6

(* Descent: a set in which every element has one of lower rank is empty. *)
LEMMA Descent ==
  ASSUME NEW X, NEW rank \in [X -> Nat], NEW bad \in SUBSET X,
         \A x \in bad : \E y \in bad : rank[y] < rank[x]
  PROVE  bad = {}
<1> SUFFICES ASSUME bad # {} PROVE FALSE
  OBVIOUS
<1> DEFINE T == {rank[x] : x \in bad}
<1>1. T \in SUBSET Nat /\ T # {}
  OBVIOUS
<1>2. PICK n \in T : \A m \in T : n <= m
  <2> HIDE DEF T
  <2> QED BY <1>1, LeastNumber
<1>3. PICK x \in bad : n = rank[x]
  OBVIOUS
<1>4. PICK y \in bad : rank[y] < rank[x]
  OBVIOUS
<1>5. rank[y] \in T /\ rank[x] \in Nat /\ rank[y] \in Nat
  OBVIOUS
<1> HIDE DEF T
<1> QED BY <1>2, <1>3, <1>4, <1>5

-----------------------------------------------------------------------------
(* The recursions of the ledger: each takes a value from the predecessor   *)
(* and an element, a block or the position of a transaction in txs.        *)
Step(kind, acc, x, txs, p) ==
    CASE kind = "select" -> IF txs[x].kind = p THEN Append(acc, txs[x]) ELSE acc
      [] kind = "eligible" ->
            IF txs[x].id \in acc.seen THEN acc
            ELSE [seen |-> acc.seen \cup {txs[x].id},
                  valid |-> IF p.daa <= txs[x].expiry /\ ~IsFlashReplay(p.store, txs[x])
                            THEN Append(acc.valid, txs[x]) ELSE acc.valid]
      [] kind = "unwind account" -> UnwindAccountTx(acc, txs[x])
      [] kind = "unwind flash" -> UnwindFlashTx(acc, txs[x], p)
      [] kind = "unwind block" -> UnwindBlock(acc, x)
      [] kind = "apply account" -> ApplyAccountTx(acc, txs[x], p)
      [] kind = "apply flash" -> ApplyFlashTx(acc, txs[x], p)
      [] kind = "apply block" -> ApplyBlock(acc, x, p)
      [] OTHER -> {x} \cup acc

IsRecursion(g, kind, base, X, bottom, pred, el, txs, p) ==
    g = [x \in X |-> IF x = bottom THEN base ELSE Step(kind, g[pred[x]], el[x], txs, p)]

(* The function that such a recursion defines exists: there is one on the  *)
(* elements below every rank, and they agree.                              *)
LEMMA Recursion ==
  ASSUME NEW X, NEW rank \in [X -> Nat], NEW bottom, NEW pred,
         \A x \in X : x # bottom => pred[x] \in X /\ rank[pred[x]] < rank[x],
         NEW kind, NEW base, NEW el, NEW txs, NEW p
  PROVE  \E g : IsRecursion(g, kind, base, X, bottom, pred, el, txs, p)
<1> DEFINE Below(k) == {x \in X : rank[x] < k}
           Value(g, x) == IF x = bottom THEN base ELSE Step(kind, g[pred[x]], el[x], txs, p)
           Solves(g, k) == g = [x \in Below(k) |-> Value(g, x)]
           G == [x \in X |-> (CHOOSE g : Solves(g, rank[x] + 1))[x]]
<1>1. ASSUME NEW k \in Nat, NEW x \in Below(k), x # bottom PROVE pred[x] \in Below(k)
  <2>1. rank[x] < k /\ rank[pred[x]] < rank[x] /\ rank[x] \in Nat /\ rank[pred[x]] \in Nat /\ pred[x] \in X
    BY <1>1
  <2> QED BY <2>1
<1>2. ASSUME NEW k \in Nat, NEW g, Solves(g, k), NEW m \in Nat, NEW h, Solves(h, m), NEW x \in Below(k) \cap Below(m)
      PROVE  g[x] = h[x]
  <2> DEFINE bad == {y \in X : y \in Below(k) /\ y \in Below(m) /\ g[y] # h[y]}
  <2>1. ASSUME NEW y \in bad PROVE \E z \in bad : rank[z] < rank[y]
    <3>1. g[y] = Value(g, y) /\ h[y] = Value(h, y)
      <4> HIDE DEF Value, Below
      <4> QED BY <1>2, <2>1
    <3>2. y # bottom
      BY <3>1
    <3>3. pred[y] \in Below(k) /\ pred[y] \in Below(m) /\ pred[y] \in X /\ rank[pred[y]] < rank[y]
      BY <1>1, <3>2
    <3>4. g[pred[y]] # h[pred[y]]
      BY <3>1
    <3> QED BY Zenon, <3>3, <3>4
  <2>2. bad = {}
    <3> HIDE DEF bad
    <3>1. bad \in SUBSET X
      BY DEF bad
    <3> QED BY <2>1, <3>1, Descent
  <2>3. x \in X
    OBVIOUS
  <2> HIDE DEF Below
  <2> QED BY <2>2, <2>3
<1>3. ASSUME NEW k \in Nat PROVE \E g : Solves(g, k)
  <2> DEFINE T == {n \in Nat : ~\E g : Solves(g, n)}
  <2> SUFFICES ASSUME T # {} PROVE FALSE
    <3> HIDE DEF Solves
    <3> QED BY DEF T
  <2>1. PICK n \in T : \A m \in T : n <= m
    <3>1. T \in SUBSET Nat
      <4> HIDE DEF Solves
      <4> QED OBVIOUS
    <3> HIDE DEF T
    <3> QED BY Zenon, <3>1, LeastNumber
  <2>2. n # 0
    <3> SUFFICES \E g : Solves(g, 0)
      <4> HIDE DEF Solves
      <4> QED OBVIOUS
    <3>1. Below(0) = {}
      OBVIOUS
    <3>2. <<>> = [x \in Below(0) |-> Value(<<>>, x)]
      BY <3>1
    <3> QED BY Zenon, <3>2
  <2>3. PICK g : Solves(g, n - 1)
    <3> HIDE DEF Solves
    <3>1. n \in Nat /\ n - 1 \in Nat /\ ~(n <= n - 1)
      BY <2>2
    <3> QED BY <2>1, <3>1
  <2> DEFINE h == [x \in Below(n) |-> Value(g, x)]
  <2>4. ASSUME NEW x \in Below(n), x # bottom PROVE h[pred[x]] = g[pred[x]]
    <3>1. pred[x] \in Below(n - 1) /\ pred[x] \in Below(n)
      <4>1. pred[x] \in X /\ rank[pred[x]] < rank[x] /\ rank[x] < n /\ rank[x] \in Nat /\ rank[pred[x]] \in Nat
        BY <2>4
      <4> QED BY <4>1
    <3> HIDE DEF Below, Value
    <3> QED BY <2>3, <3>1
  <2>5. ASSUME NEW x \in Below(n) PROVE Value(h, x) = Value(g, x)
    <3>1. CASE x = bottom
      BY <3>1
    <3>2. CASE x # bottom
      <4>1. h[pred[x]] = g[pred[x]]
        BY <2>4, <3>2
      <4> HIDE DEF h
      <4> QED BY <4>1
    <3> QED BY <3>1, <3>2
  <2>6. h = [x \in Below(n) |-> Value(h, x)]
    <3> HIDE DEF Value, Below
    <3> QED BY <2>5
  <2>7. Solves(h, n)
    <3> HIDE DEF h, Value, Below
    <3> QED BY <2>6
  <2> HIDE DEF Solves, h
  <2> QED BY <2>7
<1>4. ASSUME NEW x \in X PROVE \E g : Solves(g, rank[x] + 1) /\ G[x] = g[x]
  <2>1. \E g : Solves(g, rank[x] + 1)
    <3>1. rank[x] + 1 \in Nat
      OBVIOUS
    <3> HIDE DEF Solves
    <3> QED BY Zenon, <1>3, <3>1
  <2> HIDE DEF Solves
  <2> QED BY Zenon, <2>1
<1>5. ASSUME NEW x \in X PROVE G[x] = Value(G, x)
  <2>1. PICK g : Solves(g, rank[x] + 1) /\ G[x] = g[x]
    <3> HIDE DEF Solves, G
    <3> QED BY Zenon, <1>4
  <2>2. x \in Below(rank[x] + 1) /\ rank[x] + 1 \in Nat
    OBVIOUS
  <2>3. g[x] = Value(g, x)
    <3> HIDE DEF Value, Below, G
    <3> QED BY <2>1, <2>2
  <2>4. CASE x = bottom
    BY Zenon, <2>1, <2>3, <2>4
  <2>5. CASE x # bottom
    <3> DEFINE y == pred[x]
    <3>1. y \in X /\ y \in Below(rank[x] + 1) /\ y \in Below(rank[y] + 1) /\ rank[y] + 1 \in Nat
      <4>1. y \in X /\ rank[y] < rank[x] /\ rank[x] \in Nat /\ rank[y] \in Nat
        BY <2>5
      <4> QED BY <4>1
    <3>2. PICK h : Solves(h, rank[y] + 1) /\ G[y] = h[y]
      <4> HIDE DEF Solves, G, y
      <4> QED BY Zenon, <1>4, <3>1
    <3>3. g[y] = h[y]
      <4> DEFINE k == rank[x] + 1
                 m == rank[y] + 1
      <4>1. k \in Nat /\ m \in Nat /\ y \in Below(k) \cap Below(m) /\ Solves(g, k) /\ Solves(h, m)
        BY Zenon, <2>1, <2>2, <3>1, <3>2
      <4> HIDE DEF Solves, G, y, Below, k, m
      <4> QED BY <1>2, <4>1
    <3> HIDE DEF G
    <3> QED BY <2>1, <2>3, <3>2, <3>3
  <2> QED BY <2>4, <2>5
<1>6. G = [x \in X |-> Value(G, x)]
  <2> HIDE DEF Value, Solves
  <2> QED BY Zenon, <1>5
<1> HIDE DEF G
<1> QED BY Zenon, <1>6 DEF IsRecursion

(* A fold takes its elements from the least or from the greatest on. *)
Pick(kind, u) == IF kind = "unwind block" THEN Min(u) ELSE Max(u)

IsFold(g, kind, base, D, txs, p) ==
    g = [u \in SUBSET D |->
            IF u = {} THEN base ELSE Step(kind, g[u \ {Pick(kind, u)}], Pick(kind, u), txs, p)]

LEMMA PickIsElement ==
  ASSUME NEW n \in Nat, NEW u \in SUBSET (0 .. n), u # {}, NEW kind
  PROVE  Pick(kind, u) \in u /\ Max(u) \in u /\ Min(u) \in u
<1>1. \E x \in u : \A y \in u : x <= y
  <2>1. u \in SUBSET Nat
    OBVIOUS
  <2> QED BY <2>1, LeastNumber
<1>2. \E x \in u : \A y \in u : x >= y
  <2> DEFINE T == {n - x : x \in u}
  <2>1. T \in SUBSET Nat /\ T # {}
    <3>1. \A x \in u : x \in 0 .. n
      OBVIOUS
    <3>2. \A x \in u : n - x \in Nat
      BY <3>1
    <3>3. \E x \in u : TRUE
      BY Zenon
    <3> QED BY Zenon, <3>2, <3>3
  <2>2. PICK k \in T : \A m \in T : k <= m
    <3> HIDE DEF T
    <3> QED BY <2>1, LeastNumber
  <2>3. PICK x \in u : k = n - x
    OBVIOUS
  <2>4. ASSUME NEW y \in u PROVE x >= y
    <3>1. n - y \in T
      OBVIOUS
    <3>2. n - x <= n - y
      BY Zenon, <2>2, <2>3, <3>1
    <3> QED BY <3>2
  <2> QED BY <2>4
<1>3. Max(u) \in u
  BY Zenon, <1>2 DEF Max
<1>4. Min(u) \in u
  BY Zenon, <1>1 DEF Min
<1> QED BY Zenon, <1>3, <1>4 DEF Pick

(* The number of elements ranks the subsets of an interval. *)
LEMMA SubsetRank ==
  ASSUME NEW n \in Nat, NEW D \in SUBSET (0 .. n)
  PROVE  /\ \A u \in SUBSET D : Cardinality(u) \in Nat
         /\ \A u \in SUBSET D : \A x \in u : Cardinality(u \ {x}) < Cardinality(u)
<1>1. \A u \in SUBSET D : IsFiniteSet(u)
  <2>1. IsFiniteSet(0 .. n)
    BY FS_Interval
  <2> QED BY Zenon, <2>1, FS_Subset
<1>2. \A u \in SUBSET D : Cardinality(u) \in Nat
  BY <1>1, FS_CardinalityType
<1>3. ASSUME NEW u \in SUBSET D, NEW x \in u PROVE Cardinality(u \ {x}) < Cardinality(u)
  <2>1. Cardinality(u \ {x}) = Cardinality(u) - 1
    BY <1>1, FS_RemoveElement
  <2>2. Cardinality(u) \in Nat
    BY <1>2
  <2> QED BY <2>1, <2>2
<1> QED BY <1>2, <1>3

LEMMA FoldExists ==
  ASSUME NEW n \in Nat, NEW D \in SUBSET (0 .. n), NEW kind, NEW base, NEW txs, NEW p
  PROVE  \E g : IsFold(g, kind, base, D, txs, p)
<1> DEFINE X == SUBSET D
           rank == [u \in X |-> Cardinality(u)]
           el == [u \in X |-> Pick(kind, u)]
           pred == [u \in X |-> u \ {Pick(kind, u)}]
<1>1. rank \in [X -> Nat]
  BY Zenon, SubsetRank
<1>2. ASSUME NEW u \in X, u # {} PROVE pred[u] \in X /\ rank[pred[u]] < rank[u]
  <2>1. Pick(kind, u) \in u
    BY Zenon, <1>2, PickIsElement
  <2>2. Cardinality(u \ {Pick(kind, u)}) < Cardinality(u)
    BY Zenon, <2>1, SubsetRank
  <2> QED BY Zenon, <2>2
<1>3. PICK g : IsRecursion(g, kind, base, X, {}, pred, el, txs, p)
  <2> HIDE DEF rank, pred, el, X
  <2> QED BY Zenon, <1>1, <1>2, Recursion
<1>4. IsFold(g, kind, base, D, txs, p)
  BY Zenon, <1>3 DEF IsRecursion, IsFold
<1> QED BY <1>4

LEMMA FoldInduction ==
  ASSUME NEW n \in Nat, NEW D \in SUBSET (0 .. n), NEW kind, NEW good, {} \in good,
         \A u \in SUBSET D : u # {} /\ u \ {Pick(kind, u)} \in good => u \in good
  PROVE  D \in good
<1> DEFINE X == SUBSET D
           rank == [u \in X |-> Cardinality(u)]
           bad == X \ good
<1>1. rank \in [X -> Nat]
  BY Zenon, SubsetRank
<1>2. ASSUME NEW u \in bad PROVE \E v \in bad : rank[v] < rank[u]
  <2>1. u \in X /\ u # {} /\ u \ {Pick(kind, u)} \in bad
    BY Zenon
  <2>2. Pick(kind, u) \in u
    BY Zenon, <2>1, PickIsElement
  <2>3. rank[u \ {Pick(kind, u)}] < rank[u]
    BY Zenon, <2>1, <2>2, SubsetRank
  <2> QED BY Zenon, <2>1, <2>3
<1>3. bad = {}
  <2>1. bad \in SUBSET X
    OBVIOUS
  <2> HIDE DEF bad, X, rank
  <2> QED BY <1>1, <1>2, <2>1, Descent
<1> QED BY <1>3

-----------------------------------------------------------------------------
Txs == UNION {Range(body[b]) : b \in Block}

(* A block's transactions of a kind. *)
LEMMA OfKindIsSelection ==
  ASSUME body \in Bodies, NEW b \in Block, NEW kind
  PROVE  OfKind(b, kind) \in Seq({tx \in Txs : tx.kind = kind})
<1> DEFINE txs == body[b]
           D == DOMAIN txs
           Take(acc, i) == IF txs[i].kind = kind THEN Append(acc, txs[i]) ELSE acc
           IsF(g) == g = [u \in SUBSET D |-> IF u = {} THEN <<>> ELSE Take(g[u \ {Max(u)}], Max(u))]
           f == CHOOSE g : IsF(g)
           S == {tx \in Txs : tx.kind = kind}
           good == {u \in SUBSET D : f[u] \in Seq(S)}
<1>1. OfKind(b, kind) = f[D]
  BY DEF OfKind, FoldInOrder, MapThenFoldSet
<1>2. Len(txs) \in Nat /\ D \in SUBSET (0 .. Len(txs)) /\ \A i \in D : txs[i] \in Txs
  <2>1. txs \in Seq(Range(txs))
    BY BodiesHoldTransactions
  <2>2. Len(txs) \in Nat /\ D \in SUBSET (0 .. Len(txs))
    BY <2>1
  <2> QED BY <2>2 DEF Txs, Range
<1>3. \A u : Pick("select", u) = Max(u)
  BY DEF Pick
<1>4. \A acc, x : Step("select", acc, x, txs, kind) = Take(acc, x)
  BY DEF Step
<1>5. ASSUME NEW q \in Seq(S), NEW i \in D PROVE Take(q, i) \in Seq(S)
  <2>1. txs[i].kind = kind => txs[i] \in S
    BY <1>2
  <2> HIDE DEF S, txs
  <2> QED BY <2>1
<1> HIDE DEF D, txs, S, Take
<1>6. IsF(f)
  <2>1. PICK g : IsFold(g, "select", <<>>, D, txs, kind)
    BY Zenon, <1>2, FoldExists
  <2>2. IsF(g)
    <3> DEFINE one(u) == IF u = {} THEN <<>> ELSE Step("select", g[u \ {Pick("select", u)}], Pick("select", u), txs, kind)
               other(u) == IF u = {} THEN <<>> ELSE Take(g[u \ {Max(u)}], Max(u))
    <3>1. \A u : one(u) = other(u)
      BY Zenon, <1>3, <1>4
    <3>2. [u \in SUBSET D |-> one(u)] = [u \in SUBSET D |-> other(u)]
      <4> HIDE DEF one, other
      <4> QED BY Zenon, <3>1
    <3> QED BY Zenon, <2>1, <3>2 DEF IsFold
  <2>3. \E h : IsF(h)
    BY Zenon, <2>2
  <2> HIDE DEF IsF
  <2> QED BY Zenon, <2>3
<1> HIDE DEF f
<1>7. {} \in good
  <2>1. f[{}] = <<>>
    BY Zenon, <1>6
  <2>2. <<>> \in Seq(S)
    OBVIOUS
  <2> QED BY Zenon, <2>1, <2>2
<1>8. ASSUME NEW u \in SUBSET D, u # {}, u \ {Pick("select", u)} \in good PROVE u \in good
  <2>1. Max(u) \in D
    BY Zenon, <1>2, <1>8, PickIsElement
  <2>2. f[u] = Take(f[u \ {Max(u)}], Max(u)) /\ f[u \ {Max(u)}] \in Seq(S)
    BY Zenon, <1>3, <1>6, <1>8
  <2>3. f[u] \in Seq(S)
    BY Zenon, <1>5, <2>1, <2>2
  <2> QED BY Zenon, <2>3
<1>9. D \in good
  <2> HIDE DEF good
  <2> QED BY Zenon, <1>2, <1>7, <1>8, FoldInduction
<1> QED BY Zenon, <1>1, <1>9 DEF S

-----------------------------------------------------------------------------
(* The shape of the store, and what unwinding the blocks R keeps of it:    *)
(* the flash entries of the other blocks.                                  *)
StoreShape(s) == DOMAIN s = Account /\ \A a \in Account : DOMAIN s[a] = {"balance", "flashes"}

Keeps(s, t, R) ==
    StoreShape(t) /\ \A a \in Account : \A e \in s[a].flashes : e.block \notin R => e \in t[a].flashes

LEMMA UpdateKeepsFlashes ==
  ASSUME NEW s, StoreShape(s), NEW a, NEW change
  PROVE  /\ StoreShape(UpdateBalance(s, a, change))
         /\ \A x \in Account : UpdateBalance(s, a, change)[x].flashes = s[x].flashes
BY DEF StoreShape, UpdateBalance

LEMMA UnwindAccountTxKeeps ==
  ASSUME NEW s, NEW t, NEW R, Keeps(s, t, R), NEW tx
  PROVE  Keeps(s, UnwindAccountTx(t, tx), R)
BY UpdateKeepsFlashes DEF Keeps, UnwindAccountTx

LEMMA UnwindFlashTxKeeps ==
  ASSUME NEW s, NEW t, NEW R, Keeps(s, t, R), NEW tx, NEW b \in R
  PROVE  Keeps(s, UnwindFlashTx(t, tx, b), R)
<1> DEFINE mine == {e \in t[tx.from].flashes : e.block = b}
           refunded == [t EXCEPT ![tx.from].flashes = @ \ mine,
                                 ![tx.from].balance = @ + tx.amount + tx.fee]
<1>1. Keeps(s, refunded, R)
  <2>1. StoreShape(refunded)
    BY Zenon DEF StoreShape, Keeps
  <2>2. ASSUME NEW a \in Account PROVE refunded[a].flashes = t[a].flashes \/ refunded[a].flashes = t[a].flashes \ mine
    BY DEF StoreShape, Keeps
  <2> HIDE DEF refunded
  <2> QED BY <2>1, <2>2 DEF Keeps
<1> HIDE DEF refunded
<1>2. Keeps(s, UpdateBalance(refunded, tx.to, - tx.amount), R)
  BY <1>1, UpdateKeepsFlashes DEF Keeps
<1> QED BY <1>2 DEF UnwindFlashTx, refunded

(* unwinding the account transactions of a block *)
LEMMA UnwindAccountTxsKeep ==
  ASSUME NEW s, NEW t, NEW R, Keeps(s, t, R), NEW S, NEW txs \in Seq(S)
  PROVE  Keeps(s, FoldInOrder(UnwindAccountTx, t, txs), R)
<1> DEFINE D == DOMAIN txs
           IsF(g) == g = [u \in SUBSET D |-> IF u = {} THEN t
                             ELSE UnwindAccountTx(g[u \ {Max(u)}], txs[Max(u)])]
           f == CHOOSE g : IsF(g)
           good == {u \in SUBSET D : Keeps(s, f[u], R)}
<1>1. FoldInOrder(UnwindAccountTx, t, txs) = f[D]
  BY DEF FoldInOrder, MapThenFoldSet
<1>2. Len(txs) \in Nat /\ D \in SUBSET (0 .. Len(txs))
  OBVIOUS
<1>3. \A u : Pick("unwind account", u) = Max(u)
  BY DEF Pick
<1>4. IsF(f)
  <2>1. \E g : IsFold(g, "unwind account", t, D, txs, 0)
    <3> HIDE DEF D
    <3> QED BY Zenon, <1>2, FoldExists
  <2>2. \A acc, x : Step("unwind account", acc, x, txs, 0) = UnwindAccountTx(acc, txs[x])
    BY DEF Step
  <2>3. PICK g : IsFold(g, "unwind account", t, D, txs, 0)
    BY Zenon, <2>1
  <2>4. IsF(g)
    <3> DEFINE one(u) == IF u = {} THEN t ELSE Step("unwind account", g[u \ {Pick("unwind account", u)}], Pick("unwind account", u), txs, 0)
               other(u) == IF u = {} THEN t ELSE UnwindAccountTx(g[u \ {Max(u)}], txs[Max(u)])
    <3>1. \A u : one(u) = other(u)
      BY Zenon, <1>3, <2>2
    <3>2. [u \in SUBSET D |-> one(u)] = [u \in SUBSET D |-> other(u)]
      <4> HIDE DEF one, other
      <4> QED BY Zenon, <3>1
    <3> QED BY Zenon, <2>3, <3>2 DEF IsFold
  <2>5. \E h : IsF(h)
    BY Zenon, <2>4
  <2> HIDE DEF IsF
  <2> QED BY Zenon, <2>5
<1> HIDE DEF f, D
<1>5. {} \in good
  BY Zenon, <1>4
<1>6. ASSUME NEW u \in SUBSET D, u # {}, u \ {Pick("unwind account", u)} \in good PROVE u \in good
  <2>1. f[u] = UnwindAccountTx(f[u \ {Max(u)}], txs[Max(u)]) /\ Keeps(s, f[u \ {Max(u)}], R)
    BY Zenon, <1>3, <1>4, <1>6
  <2>2. Keeps(s, UnwindAccountTx(f[u \ {Max(u)}], txs[Max(u)]), R)
    BY Zenon, <2>1, UnwindAccountTxKeeps
  <2>3. Keeps(s, f[u], R)
    BY Zenon, <2>1, <2>2
  <2> QED BY Zenon, <2>3
<1>7. D \in good
  <2> HIDE DEF good
  <2> QED BY Zenon, <1>2, <1>5, <1>6, FoldInduction
<1> QED BY Zenon, <1>1, <1>7

LEMMA UnwindFlashTxsKeep ==
  ASSUME NEW s, NEW t, NEW R, Keeps(s, t, R), NEW S, NEW txs \in Seq(S), NEW b \in R
  PROVE  Keeps(s, FoldInOrder(LAMBDA v, tx : UnwindFlashTx(v, tx, b), t, txs), R)
<1> DEFINE D == DOMAIN txs
           IsF(g) == g = [u \in SUBSET D |-> IF u = {} THEN t
                             ELSE UnwindFlashTx(g[u \ {Max(u)}], txs[Max(u)], b)]
           f == CHOOSE g : IsF(g)
           good == {u \in SUBSET D : Keeps(s, f[u], R)}
<1>1. FoldInOrder(LAMBDA v, tx : UnwindFlashTx(v, tx, b), t, txs) = f[D]
  BY DEF FoldInOrder, MapThenFoldSet
<1>2. Len(txs) \in Nat /\ D \in SUBSET (0 .. Len(txs))
  OBVIOUS
<1>3. \A u : Pick("unwind flash", u) = Max(u)
  BY DEF Pick
<1>4. IsF(f)
  <2>1. \E g : IsFold(g, "unwind flash", t, D, txs, b)
    <3> HIDE DEF D
    <3> QED BY Zenon, <1>2, FoldExists
  <2>2. \A acc, x : Step("unwind flash", acc, x, txs, b) = UnwindFlashTx(acc, txs[x], b)
    BY DEF Step
  <2>3. PICK g : IsFold(g, "unwind flash", t, D, txs, b)
    BY Zenon, <2>1
  <2>4. IsF(g)
    <3> DEFINE one(u) == IF u = {} THEN t ELSE Step("unwind flash", g[u \ {Pick("unwind flash", u)}], Pick("unwind flash", u), txs, b)
               other(u) == IF u = {} THEN t ELSE UnwindFlashTx(g[u \ {Max(u)}], txs[Max(u)], b)
    <3>1. \A u : one(u) = other(u)
      BY Zenon, <1>3, <2>2
    <3>2. [u \in SUBSET D |-> one(u)] = [u \in SUBSET D |-> other(u)]
      <4> HIDE DEF one, other
      <4> QED BY Zenon, <3>1
    <3> QED BY Zenon, <2>3, <3>2 DEF IsFold
  <2>5. \E h : IsF(h)
    BY Zenon, <2>4
  <2> HIDE DEF IsF
  <2> QED BY Zenon, <2>5
<1> HIDE DEF f, D
<1>5. {} \in good
  BY Zenon, <1>4
<1>6. ASSUME NEW u \in SUBSET D, u # {}, u \ {Pick("unwind flash", u)} \in good PROVE u \in good
  <2>1. f[u] = UnwindFlashTx(f[u \ {Max(u)}], txs[Max(u)], b) /\ Keeps(s, f[u \ {Max(u)}], R)
    BY Zenon, <1>3, <1>4, <1>6
  <2>2. Keeps(s, UnwindFlashTx(f[u \ {Max(u)}], txs[Max(u)], b), R)
    BY Zenon, <2>1, UnwindFlashTxKeeps
  <2>3. Keeps(s, f[u], R)
    BY Zenon, <2>1, <2>2
  <2> QED BY Zenon, <2>3
<1>7. D \in good
  <2> HIDE DEF good
  <2> QED BY Zenon, <1>2, <1>5, <1>6, FoldInduction
<1> QED BY Zenon, <1>1, <1>7

LEMMA UnwindBlockKeeps ==
  ASSUME body \in Bodies, NEW s, NEW t, NEW R \in SUBSET Block, Keeps(s, t, R), NEW b \in R
  PROVE  Keeps(s, UnwindBlock(t, b), R)
<1>1. PICK S : OfKind(b, "account") \in Seq(S)
  BY Zenon, OfKindIsSelection
<1>2. PICK T : OfKind(b, "flash") \in Seq(T)
  BY Zenon, OfKindIsSelection
<1>3. Keeps(s, FoldInOrder(UnwindAccountTx, t, OfKind(b, "account")), R)
  BY <1>1, UnwindAccountTxsKeep
<1> QED BY Zenon, <1>2, <1>3, UnwindFlashTxsKeep DEF UnwindBlock

-----------------------------------------------------------------------------
(* The transactions that validate_flash_batch goes on with. *)
LEMMA EligibleAreFresh ==
  ASSUME NEW s, NEW S, NEW txs \in Seq(S), NEW daa
  PROVE  Eligible(s, txs, daa) \in Seq({tx \in S : daa <= tx.expiry /\ ~IsFlashReplay(s, tx)})
<1> DEFINE D == DOMAIN txs
           E == {tx \in S : daa <= tx.expiry /\ ~IsFlashReplay(s, tx)}
           p == [daa |-> daa, store |-> s]
           base == [seen |-> {}, valid |-> <<>>]
           Take(acc, i) ==
               IF txs[i].id \in acc.seen THEN acc
               ELSE [seen |-> acc.seen \cup {txs[i].id},
                     valid |-> IF daa <= txs[i].expiry /\ ~IsFlashReplay(s, txs[i])
                               THEN Append(acc.valid, txs[i]) ELSE acc.valid]
           IsF(g) == g = [u \in SUBSET D |-> IF u = {} THEN base ELSE Take(g[u \ {Max(u)}], Max(u))]
           f == CHOOSE g : IsF(g)
           good == {u \in SUBSET D : f[u].valid \in Seq(E)}
<1>1. Eligible(s, txs, daa) = f[D].valid
  BY DEF Eligible, FoldInOrder, MapThenFoldSet
<1>2. Len(txs) \in Nat /\ D \in SUBSET (0 .. Len(txs)) /\ \A i \in D : txs[i] \in S
  OBVIOUS
<1>3. \A u : Pick("eligible", u) = Max(u)
  BY DEF Pick
<1>4. \A acc, x : Step("eligible", acc, x, txs, p) = Take(acc, x)
  BY DEF Step
<1>5. ASSUME NEW acc, acc.valid \in Seq(E), NEW i \in D PROVE Take(acc, i).valid \in Seq(E)
  <2>1. daa <= txs[i].expiry /\ ~IsFlashReplay(s, txs[i]) => txs[i] \in E
    BY <1>2
  <2> HIDE DEF E
  <2> QED BY <1>5, <2>1
<1>6. base.valid \in Seq(E)
  <2> HIDE DEF E
  <2> QED OBVIOUS
<1> HIDE DEF D, E, p, base, Take
<1>7. IsF(f)
  <2>1. PICK g : IsFold(g, "eligible", base, D, txs, p)
    BY Zenon, <1>2, FoldExists
  <2>2. IsF(g)
    <3> DEFINE one(u) == IF u = {} THEN base ELSE Step("eligible", g[u \ {Pick("eligible", u)}], Pick("eligible", u), txs, p)
               other(u) == IF u = {} THEN base ELSE Take(g[u \ {Max(u)}], Max(u))
    <3>1. \A u : one(u) = other(u)
      BY Zenon, <1>3, <1>4
    <3>2. [u \in SUBSET D |-> one(u)] = [u \in SUBSET D |-> other(u)]
      <4> HIDE DEF one, other
      <4> QED BY Zenon, <3>1
    <3> QED BY Zenon, <2>1, <3>2 DEF IsFold
  <2>3. \E h : IsF(h)
    BY Zenon, <2>2
  <2> HIDE DEF IsF
  <2> QED BY Zenon, <2>3
<1> HIDE DEF f
<1>8. {} \in good
  <2>1. f[{}] = base
    BY Zenon, <1>7
  <2> QED BY Zenon, <1>6, <2>1
<1>9. ASSUME NEW u \in SUBSET D, u # {}, u \ {Pick("eligible", u)} \in good PROVE u \in good
  <2>1. Max(u) \in D
    BY Zenon, <1>2, <1>9, PickIsElement
  <2>2. f[u] = Take(f[u \ {Max(u)}], Max(u)) /\ f[u \ {Max(u)}].valid \in Seq(E)
    BY Zenon, <1>3, <1>7, <1>9
  <2>3. f[u].valid \in Seq(E)
    BY Zenon, <1>5, <2>1, <2>2
  <2> QED BY Zenon, <2>3
<1>10. D \in good
  <2> HIDE DEF good
  <2> QED BY Zenon, <1>2, <1>8, <1>9, FoldInduction
<1> QED BY Zenon, <1>1, <1>10 DEF E

-----------------------------------------------------------------------------
(* Why an applied flash is not applied again while the score of the        *)
(* virtual block is at least n: its entry is in the sender's account, or   *)
(* it has expired for every such score.                                    *)
Entry(tx, b) == [id |-> tx.id, expiry |-> tx.expiry, block |-> b]
Recorded(s, f) == Entry(f.tx, f.block) \in s[f.tx.from].flashes
Late(tx, n) == tx.expiry < n
Guarded(s, applied, n) == \A f \in applied : f.tx.kind = "flash" => Recorded(s, f) \/ Late(f.tx, n)
Once(applied) == \A f, g \in applied : f.tx.kind = "flash" /\ f.tx.id = g.tx.id => f = g

Sound(acc, n) ==
    /\ DOMAIN acc = {"store", "applied"} /\ StoreShape(acc.store)
    /\ acc.applied \in SUBSET [tx : Txs, block : Block]
    /\ Guarded(acc.store, acc.applied, n) /\ Once(acc.applied)

LEMMA SameId ==
  ASSUME body \in Bodies, NEW tx \in Txs, NEW ux \in Txs, tx.id = ux.id
  PROVE  tx = ux
BY IdsAreHashes DEF Txs

LEMMA ApplyAccountTxIsSound ==
  ASSUME body \in Bodies, NEW n, NEW acc, Sound(acc, n), NEW tx \in Txs, tx.kind = "account", NEW b \in Block
  PROVE  Sound(ApplyAccountTx(acc, tx, b), n)
<1> DEFINE spent == tx.amount + tx.fee
           t == UpdateBalance(UpdateBalance(acc.store, tx.from, - spent), tx.to, tx.amount)
           applied == acc.applied \cup {[tx |-> tx, block |-> b]}
           next == [store |-> t, applied |-> applied]
<1>1. StoreShape(t) /\ \A a \in Account : t[a].flashes = acc.store[a].flashes
  BY UpdateKeepsFlashes DEF Sound
<1>2. applied \in SUBSET [tx : Txs, block : Block]
  BY DEF Sound
<1>3. Guarded(t, applied, n)
  <2> SUFFICES ASSUME NEW f \in applied, f.tx.kind = "flash" PROVE Recorded(t, f) \/ Late(f.tx, n)
    BY DEF Guarded
  <2>1. f \in acc.applied
    OBVIOUS
  <2>2. f.tx.from \in Account
    <3>1. f.tx \in Txs
      BY Zenon, <1>2
    <3> QED BY <3>1, BodiesHoldTransactions DEF Txs
  <2> HIDE DEF t
  <2> QED BY <1>1, <2>1, <2>2 DEF Sound, Guarded, Recorded
<1>4. Once(applied)
  <2> SUFFICES ASSUME NEW f \in applied, NEW g \in applied, f.tx.kind = "flash", f.tx.id = g.tx.id PROVE f = g
    BY DEF Once
  <2>1. f \in acc.applied
    OBVIOUS
  <2>2. f.tx = g.tx
    <3>1. f.tx \in Txs /\ g.tx \in Txs
      BY <1>2
    <3> QED BY <3>1, SameId
  <2>3. g \in acc.applied
    BY <2>2
  <2> QED BY <2>1, <2>3 DEF Sound, Once
<1>5. Sound(next, n)
  <2> HIDE DEF t, applied
  <2> QED BY <1>1, <1>2, <1>3, <1>4 DEF Sound
<1>6. ApplyAccountTx(acc, tx, b) = acc \/ ApplyAccountTx(acc, tx, b) = next
  BY DEF ApplyAccountTx
<1> HIDE DEF next
<1> QED BY Zenon, <1>5, <1>6

LEMMA ApplyAccountTxsAreSound ==
  ASSUME body \in Bodies, NEW n, NEW acc, Sound(acc, n), NEW b \in Block,
         NEW txs \in Seq({tx \in Txs : tx.kind = "account"})
  PROVE  Sound(FoldInOrder(LAMBDA t, tx : ApplyAccountTx(t, tx, b), acc, txs), n)
<1> DEFINE D == DOMAIN txs
           IsF(g) == g = [u \in SUBSET D |-> IF u = {} THEN acc ELSE ApplyAccountTx(g[u \ {Max(u)}], txs[Max(u)], b)]
           f == CHOOSE g : IsF(g)
           good == {u \in SUBSET D : Sound(f[u], n)}
<1>1. FoldInOrder(LAMBDA t, tx : ApplyAccountTx(t, tx, b), acc, txs) = f[D]
  BY DEF FoldInOrder, MapThenFoldSet
<1>2. Len(txs) \in Nat /\ D \in SUBSET (0 .. Len(txs)) /\ \A i \in D : txs[i] \in Txs /\ txs[i].kind = "account"
  OBVIOUS
<1>3. \A u : Pick("apply account", u) = Max(u)
  BY DEF Pick
<1>4. \A t, x : Step("apply account", t, x, txs, b) = ApplyAccountTx(t, txs[x], b)
  BY DEF Step
<1> HIDE DEF D
<1>5. IsF(f)
  <2>1. PICK g : IsFold(g, "apply account", acc, D, txs, b)
    BY Zenon, <1>2, FoldExists
  <2>2. IsF(g)
    <3> DEFINE one(u) == IF u = {} THEN acc
                         ELSE Step("apply account", g[u \ {Pick("apply account", u)}], Pick("apply account", u), txs, b)
               other(u) == IF u = {} THEN acc ELSE ApplyAccountTx(g[u \ {Max(u)}], txs[Max(u)], b)
    <3>1. \A u : one(u) = other(u)
      BY Zenon, <1>3, <1>4
    <3>2. [u \in SUBSET D |-> one(u)] = [u \in SUBSET D |-> other(u)]
      <4> HIDE DEF one, other
      <4> QED BY Zenon, <3>1
    <3> QED BY Zenon, <2>1, <3>2 DEF IsFold
  <2>3. \E h : IsF(h)
    BY Zenon, <2>2
  <2> HIDE DEF IsF
  <2> QED BY Zenon, <2>3
<1> HIDE DEF f
<1>6. {} \in good
  BY Zenon, <1>5
<1>7. ASSUME NEW u \in SUBSET D, u # {}, u \ {Pick("apply account", u)} \in good PROVE u \in good
  <2>1. Max(u) \in D
    BY Zenon, <1>2, <1>7, PickIsElement
  <2>2. f[u] = ApplyAccountTx(f[u \ {Max(u)}], txs[Max(u)], b) /\ Sound(f[u \ {Max(u)}], n)
    BY Zenon, <1>3, <1>5, <1>7
  <2>3. Sound(ApplyAccountTx(f[u \ {Max(u)}], txs[Max(u)], b), n)
    BY Zenon, <1>2, <2>1, <2>2, ApplyAccountTxIsSound
  <2>4. Sound(f[u], n)
    BY Zenon, <2>2, <2>3
  <2> QED BY Zenon, <2>4
<1>8. D \in good
  <2> HIDE DEF good
  <2> QED BY Zenon, <1>2, <1>6, <1>7, FoldInduction
<1> QED BY Zenon, <1>1, <1>8

(* apply_flash_tx adds the entry of its transaction and drops none. *)
LEMMA ApplyFlashTxRecords ==
  ASSUME NEW s, StoreShape(s), NEW tx, tx.from \in Account, NEW b
  PROVE  /\ StoreShape(ApplyFlashTx(s, tx, b))
         /\ \A a \in Account : s[a].flashes \subseteq ApplyFlashTx(s, tx, b)[a].flashes
         /\ Entry(tx, b) \in ApplyFlashTx(s, tx, b)[tx.from].flashes
<1> DEFINE debited == [s EXCEPT ![tx.from].balance = Saturating(@ - (tx.amount + tx.fee)),
                                ![tx.from].flashes = @ \cup {Entry(tx, b)}]
<1>1. StoreShape(debited)
  BY DEF StoreShape
<1>2. \A a \in Account : s[a].flashes \subseteq debited[a].flashes
  BY DEF StoreShape
<1>3. Entry(tx, b) \in debited[tx.from].flashes
  BY DEF StoreShape
<1>4. ApplyFlashTx(s, tx, b) = UpdateBalance(debited, tx.to, tx.amount)
  BY Zenon DEF ApplyFlashTx, Entry
<1> HIDE DEF debited
<1> QED BY <1>1, <1>2, <1>3, <1>4, UpdateKeepsFlashes

RecordsAll(s, t, txs, b) ==
    /\ StoreShape(t) /\ \A a \in Account : s[a].flashes \subseteq t[a].flashes
    /\ \A i \in DOMAIN txs : Entry(txs[i], b) \in t[txs[i].from].flashes

LEMMA ApplyFlashTxsRecord ==
  ASSUME NEW s, StoreShape(s), NEW S, NEW txs \in Seq(S), \A tx \in S : tx.from \in Account, NEW b
  PROVE  RecordsAll(s, FoldInOrder(LAMBDA v, tx : ApplyFlashTx(v, tx, b), s, txs), txs, b)
<1> DEFINE D == DOMAIN txs
           IsF(g) == g = [u \in SUBSET D |-> IF u = {} THEN s ELSE ApplyFlashTx(g[u \ {Max(u)}], txs[Max(u)], b)]
           f == CHOOSE g : IsF(g)
           Right(t, u) == /\ StoreShape(t) /\ \A a \in Account : s[a].flashes \subseteq t[a].flashes
                          /\ \A i \in u : Entry(txs[i], b) \in t[txs[i].from].flashes
           good == {u \in SUBSET D : Right(f[u], u)}
<1>1. FoldInOrder(LAMBDA v, tx : ApplyFlashTx(v, tx, b), s, txs) = f[D]
  BY DEF FoldInOrder, MapThenFoldSet
<1>2. Len(txs) \in Nat /\ D \in SUBSET (0 .. Len(txs)) /\ \A i \in D : txs[i].from \in Account
  OBVIOUS
<1>3. \A u : Pick("apply flash", u) = Max(u)
  BY DEF Pick
<1>4. \A t, x : Step("apply flash", t, x, txs, b) = ApplyFlashTx(t, txs[x], b)
  BY Zenon DEF Step
<1>5. ASSUME NEW t, NEW u \in SUBSET D, NEW i \in u, Right(t, u \ {i})
      PROVE  Right(ApplyFlashTx(t, txs[i], b), u)
  <2> DEFINE v == ApplyFlashTx(t, txs[i], b)
  <2>1. /\ StoreShape(v) /\ \A a \in Account : t[a].flashes \subseteq v[a].flashes
        /\ Entry(txs[i], b) \in v[txs[i].from].flashes
    BY <1>2, <1>5, ApplyFlashTxRecords
  <2> HIDE DEF v
  <2>2. ASSUME NEW j \in u PROVE Entry(txs[j], b) \in v[txs[j].from].flashes
    <3>1. CASE j = i
      BY <2>1, <3>1
    <3>2. CASE j # i
      BY <1>2, <1>5, <2>1, <3>2
    <3> QED BY <3>1, <3>2
  <2>3. Right(v, u)
    BY <1>5, <2>1, <2>2
  <2> QED BY Zenon, <2>3 DEF v
<1>6. Right(s, {})
  OBVIOUS
<1> HIDE DEF D, Right
<1>7. IsF(f)
  <2>1. PICK g : IsFold(g, "apply flash", s, D, txs, b)
    BY Zenon, <1>2, FoldExists
  <2>2. IsF(g)
    <3> DEFINE one(u) == IF u = {} THEN s
                         ELSE Step("apply flash", g[u \ {Pick("apply flash", u)}], Pick("apply flash", u), txs, b)
               other(u) == IF u = {} THEN s ELSE ApplyFlashTx(g[u \ {Max(u)}], txs[Max(u)], b)
    <3>1. \A u : one(u) = other(u)
      BY Zenon, <1>3, <1>4
    <3>2. [u \in SUBSET D |-> one(u)] = [u \in SUBSET D |-> other(u)]
      <4> HIDE DEF one, other
      <4> QED BY Zenon, <3>1
    <3> QED BY Zenon, <2>1, <3>2 DEF IsFold
  <2>3. \E h : IsF(h)
    BY Zenon, <2>2
  <2> HIDE DEF IsF
  <2> QED BY Zenon, <2>3
<1> HIDE DEF f
<1>8. {} \in good
  <2>1. f[{}] = s
    BY Zenon, <1>7
  <2> QED BY Zenon, <1>6, <2>1
<1>9. ASSUME NEW u \in SUBSET D, u # {}, u \ {Pick("apply flash", u)} \in good PROVE u \in good
  <2>1. Max(u) \in u
    BY Zenon, <1>2, <1>9, PickIsElement
  <2>2. f[u] = ApplyFlashTx(f[u \ {Max(u)}], txs[Max(u)], b) /\ Right(f[u \ {Max(u)}], u \ {Max(u)})
    BY Zenon, <1>3, <1>7, <1>9
  <2>3. Right(ApplyFlashTx(f[u \ {Max(u)}], txs[Max(u)], b), u)
    BY Zenon, <1>5, <2>1, <2>2
  <2>4. Right(f[u], u)
    BY Zenon, <2>2, <2>3
  <2> QED BY Zenon, <2>4
<1>10. D \in good
  <2> HIDE DEF good
  <2> QED BY Zenon, <1>2, <1>8, <1>9, FoldInduction
<1> QED BY Zenon, <1>1, <1>10 DEF Right, D, RecordsAll

LEMMA PruningKeepsOthers ==
  ASSUME NEW s, StoreShape(s), NEW accounts, NEW daa
  PROVE  /\ StoreShape(PruneFlashes(s, accounts, daa))
         /\ \A a \in Account : \A e \in s[a].flashes :
              e \in PruneFlashes(s, accounts, daa)[a].flashes \/ ~(e.expiry > Saturating(daa - FlashPruneBuffer))
<1> DEFINE bound == Saturating(daa - FlashPruneBuffer)
           t == KeepFlashes(s, accounts, bound)
<1> HIDE DEF bound
<1>1. StoreShape(t)
  BY DEF StoreShape, KeepFlashes
<1>2. ASSUME NEW a \in Account, NEW e \in s[a].flashes PROVE e \in t[a].flashes \/ ~(e.expiry > bound)
  BY DEF StoreShape, KeepFlashes
<1> HIDE DEF t
<1> QED BY Zenon, <1>1, <1>2 DEF t, bound, PruneFlashes

(* A batch of flashes: what it applies was not in force. *)
LEMMA ApplyFlashBatchIsSound ==
  ASSUME body \in Bodies, NEW n \in Nat, NEW daa \in Nat, n <= daa, Saturating(daa - FlashPruneBuffer) < n,
         NEW acc, Sound(acc, n), NEW b \in Block
  PROVE  Sound(ApplyFlashBatch(acc, b, daa), n)
<1> DEFINE F == {tx \in Txs : tx.kind = "flash"}
           E == {tx \in F : daa <= tx.expiry /\ ~IsFlashReplay(acc.store, tx)}
           txs == Eligible(acc.store, OfKind(b, "flash"), daa)
           t == FoldInOrder(LAMBDA s, tx : ApplyFlashTx(s, tx, b), acc.store, txs)
           affected == {tx.from : tx \in Range(txs)} \cup {tx.to : tx \in Range(txs)}
           r == PruneFlashes(t, affected, daa)
           fresh == {[tx |-> tx, block |-> b] : tx \in Range(txs)}
           applied == acc.applied \cup fresh
           next == [store |-> r, applied |-> applied]
<1>1. ApplyFlashBatch(acc, b, daa) = acc \/ ApplyFlashBatch(acc, b, daa) = next
  BY Zenon DEF ApplyFlashBatch
<1>2. txs \in Seq(E)
  <2>1. OfKind(b, "flash") \in Seq(F)
    BY OfKindIsSelection
  <2> HIDE DEF F
  <2> QED BY <2>1, EligibleAreFresh
<1>3. \A tx \in Txs : tx.from \in Account /\ tx.expiry \in Nat
  BY BodiesHoldTransactions DEF Txs
<1>4. \A tx \in Range(txs) : tx \in E
  <2> HIDE DEF txs, E
  <2> QED BY <1>2 DEF Range
<1>5. /\ StoreShape(t) /\ \A a \in Account : acc.store[a].flashes \subseteq t[a].flashes
      /\ \A tx \in Range(txs) : Entry(tx, b) \in t[tx.from].flashes
  <2>1. \A tx \in E : tx.from \in Account
    BY <1>3
  <2>2. StoreShape(acc.store)
    BY DEF Sound
  <2> HIDE DEF txs, E
  <2>3. RecordsAll(acc.store, t, txs, b)
    BY Zenon, <1>2, <2>1, <2>2, ApplyFlashTxsRecord
  <2> HIDE DEF t
  <2> QED BY <2>3 DEF Range, RecordsAll
<1>6. applied \in SUBSET [tx : Txs, block : Block]
  <2> HIDE DEF txs
  <2> QED BY <1>4 DEF Sound
<1> HIDE DEF txs, t
<1>7. ASSUME NEW f \in applied, Recorded(t, f) PROVE Recorded(r, f) \/ Late(f.tx, n)
  <2>1. f.tx \in Txs
    BY <1>6
  <2>2. \/ Recorded(r, f)
        \/ ~(Entry(f.tx, f.block).expiry > Saturating(daa - FlashPruneBuffer))
    <3>1. f.tx.from \in Account
      BY <1>3, <2>1
    <3> QED BY Zenon, <1>5, <1>7, <3>1, PruningKeepsOthers DEF Recorded
  <2>3. Entry(f.tx, f.block).expiry = f.tx.expiry /\ f.tx.expiry \in Nat
    BY <1>3, <2>1 DEF Entry
  <2>4. Saturating(daa - FlashPruneBuffer) \in Int
    BY LimitsAreNumbers DEF Saturating
  <2>5. Recorded(r, f) \/ f.tx.expiry <= Saturating(daa - FlashPruneBuffer)
    BY <2>2, <2>3, <2>4
  <2>6. f.tx.expiry <= Saturating(daa - FlashPruneBuffer) => Late(f.tx, n)
    BY <2>3, <2>4 DEF Late
  <2> QED BY Zenon, <2>5, <2>6
<1>8. Guarded(r, applied, n)
  <2> SUFFICES ASSUME NEW f \in applied, f.tx.kind = "flash" PROVE Recorded(r, f) \/ Late(f.tx, n)
    BY Zenon DEF Guarded
  <2>1. f.tx.from \in Account
    BY <1>3, <1>6
  <2>2. CASE f \in acc.applied
    <3>1. Recorded(acc.store, f) \/ Late(f.tx, n)
      BY Zenon, <2>2 DEF Sound, Guarded
    <3>2. Recorded(acc.store, f) => Recorded(t, f)
      BY Zenon, <1>5, <2>1 DEF Recorded
    <3> QED BY Zenon, <1>7, <3>1, <3>2
  <2>3. CASE f \in fresh
    <3>1. Recorded(t, f)
      BY <1>5, <2>3 DEF Recorded
    <3> QED BY Zenon, <1>7, <3>1
  <2> QED BY Zenon, <2>2, <2>3
<1>9. ASSUME NEW f \in acc.applied, NEW g \in fresh, f.tx.id = g.tx.id PROVE FALSE
  <2>1. f.tx \in Txs /\ g.tx \in E /\ g.tx \in Txs /\ f.tx.from \in Account
    BY <1>3, <1>4, <1>9 DEF Sound
  <2>2. f.tx = g.tx
    BY Zenon, <1>9, <2>1, SameId
  <2>3. f.tx.kind = "flash" /\ daa <= f.tx.expiry /\ ~IsFlashReplay(acc.store, f.tx)
    BY Zenon, <2>1, <2>2
  <2>4. ~Recorded(acc.store, f)
    <3>1. Entry(f.tx, f.block).id = f.tx.id
      BY DEF Entry
    <3> QED BY Zenon, <2>3, <3>1 DEF Recorded, IsFlashReplay
  <2>5. ~Late(f.tx, n)
    <3>1. f.tx.expiry \in Nat
      BY <1>3, <2>1
    <3> QED BY <2>3, <3>1 DEF Late
  <2> QED BY Zenon, <2>3, <2>4, <2>5 DEF Sound, Guarded
<1>10. Once(applied)
  <2> SUFFICES ASSUME NEW f \in applied, NEW g \in applied, f.tx.kind = "flash", f.tx.id = g.tx.id PROVE f = g
    BY Zenon DEF Once
  <2>1. CASE f \in acc.applied /\ g \in acc.applied
    BY Zenon, <2>1 DEF Sound, Once
  <2>2. CASE f \in fresh /\ g \in fresh
    <3>1. f.tx = g.tx
      BY <1>4, <2>2, SameId
    <3> QED BY <2>2, <3>1
  <2> QED BY Zenon, <1>9, <2>1, <2>2
<1>11. StoreShape(r)
  BY Zenon, <1>5, PruningKeepsOthers
<1>12. Sound(next, n)
  <2> HIDE DEF r, applied
  <2> QED BY <1>6, <1>8, <1>10, <1>11 DEF Sound
<1> HIDE DEF next
<1> QED BY Zenon, <1>1, <1>12

LEMMA ApplyBlockIsSound ==
  ASSUME body \in Bodies, NEW n \in Nat, NEW daa \in Nat, n <= daa, Saturating(daa - FlashPruneBuffer) < n,
         NEW acc, Sound(acc, n), NEW b \in Block
  PROVE  Sound(ApplyBlock(acc, b, daa), n)
<1> DEFINE rewarded == [acc EXCEPT !.store = CreditReward(@, b)]
           executed == FoldInOrder(LAMBDA t, tx : ApplyAccountTx(t, tx, b), rewarded, OfKind(b, "account"))
<1>1. /\ StoreShape(CreditReward(acc.store, b))
      /\ \A a \in Account : CreditReward(acc.store, b)[a].flashes = acc.store[a].flashes
  <2> DEFINE fee == Subsidy[b] \div 20
             mined == UpdateBalance(acc.store, Miner, Subsidy[b] - fee)
  <2>1. StoreShape(mined) /\ \A a \in Account : mined[a].flashes = acc.store[a].flashes
    BY UpdateKeepsFlashes DEF Sound
  <2> HIDE DEF mined
  <2>2. /\ StoreShape(UpdateBalance(mined, Treasury, fee))
        /\ \A a \in Account : UpdateBalance(mined, Treasury, fee)[a].flashes = mined[a].flashes
    BY <2>1, UpdateKeepsFlashes
  <2>3. CreditReward(acc.store, b) = UpdateBalance(mined, Treasury, fee)
    BY Zenon DEF CreditReward, mined
  <2> QED BY Zenon, <2>1, <2>2, <2>3
<1>2. DOMAIN rewarded = {"store", "applied"} /\ rewarded.store = CreditReward(acc.store, b) /\ rewarded.applied = acc.applied
  BY DEF Sound
<1> HIDE DEF rewarded
<1>3. \A f \in acc.applied : f.tx.from \in Account
  BY BodiesHoldTransactions DEF Sound, Txs
<1>4. Guarded(rewarded.store, rewarded.applied, n)
  BY Zenon, <1>1, <1>2, <1>3 DEF Sound, Guarded, Recorded
<1>5. Sound(rewarded, n)
  BY Zenon, <1>1, <1>2, <1>4 DEF Sound
<1>6. OfKind(b, "account") \in Seq({tx \in Txs : tx.kind = "account"})
  BY OfKindIsSelection
<1>7. Sound(executed, n)
  BY Zenon, <1>5, <1>6, ApplyAccountTxsAreSound
<1> HIDE DEF executed
<1>8. Sound(ApplyFlashBatch(executed, b, daa), n)
  BY Zenon, <1>7, ApplyFlashBatchIsSound
<1> QED BY Zenon, <1>8 DEF ApplyBlock, executed, rewarded

-----------------------------------------------------------------------------
(* The selected chain of a block: blocks up to it, down to genesis. *)
LEMMA ChainsGoDown ==
  ASSUME NEW b \in Block \cup {0}
  PROVE  Chain[b] \subseteq (Block \cup {0}) \cap (0 .. b) /\ 0 \in Chain[b]
<1> DEFINE X == Block \cup {0}
           rank == [x \in X |-> x]
           IsF(g) == g = [x \in X |-> IF x = Genesis THEN {Genesis} ELSE {x} \cup g[SelectedParent[x]]]
<1>1. X \in SUBSET Nat /\ rank \in [X -> Nat]
  BY BlocksAreNumbers
<1>2. \A x \in X : x # 0 => SelectedParent[x] \in X /\ SelectedParent[x] < x
  BY BlocksAreNumbers, ParentsAreLighter
<1>3. \A x \in X : x # 0 => SelectedParent[x] \in X /\ rank[SelectedParent[x]] < rank[x]
  BY Zenon, <1>2
<1>4. IsF(Chain)
  <2> HIDE DEF rank
  <2>1. PICK g : IsRecursion(g, "chain", {0}, X, 0, SelectedParent, [x \in X |-> x], <<>>, 0)
    <3> HIDE DEF X
    <3> QED BY Zenon, <1>1, <1>3, Recursion
  <2>2. \A acc, x : Step("chain", acc, x, <<>>, 0) = {x} \cup acc
    BY DEF Step
  <2>3. IsF(g)
    <3> DEFINE el == [x \in X |-> x]
               one(x) == IF x = 0 THEN {0} ELSE Step("chain", g[SelectedParent[x]], el[x], <<>>, 0)
               other(x) == IF x = Genesis THEN {Genesis} ELSE {x} \cup g[SelectedParent[x]]
    <3>1. \A x \in X : one(x) = other(x)
      BY Zenon, <2>2 DEF Genesis
    <3>2. [x \in X |-> one(x)] = [x \in X |-> other(x)]
      <4> HIDE DEF one, other, X
      <4> QED BY Zenon, <3>1
    <3> QED BY Zenon, <2>1, <3>2 DEF IsRecursion
  <2>4. Chain = CHOOSE h : IsF(h)
    BY Zenon DEF Chain, Genesis
  <2>5. \E h : IsF(h)
    BY Zenon, <2>3
  <2> HIDE DEF IsF
  <2> QED BY Zenon, <2>4, <2>5
<1> DEFINE bad == {x \in X : ~(Chain[x] \subseteq X \cap (0 .. x) /\ 0 \in Chain[x])}
<1>5. ASSUME NEW x \in bad PROVE \E y \in bad : rank[y] < rank[x]
  <2>1. x \in X /\ Chain[x] = IF x = 0 THEN {0} ELSE {x} \cup Chain[SelectedParent[x]]
    BY Zenon, <1>4, <1>5 DEF Genesis
  <2>2. x # 0
    <3>1. ASSUME x = 0 PROVE FALSE
      BY <1>5, <2>1, <3>1
    <3> QED BY <3>1
  <2>3. SelectedParent[x] \in X /\ SelectedParent[x] < x /\ SelectedParent[x] \in Nat /\ x \in Nat
    BY <1>1, <1>2, <2>1, <2>2
  <2>4. SelectedParent[x] \in bad
    BY <1>5, <2>1, <2>2, <2>3
  <2>5. rank[SelectedParent[x]] < rank[x]
    BY Zenon, <1>3, <2>1, <2>2
  <2> QED BY Zenon, <2>4, <2>5
<1>6. bad = {}
  <2> HIDE DEF rank, X
  <2>1. bad \in SUBSET X
    OBVIOUS
  <2> HIDE DEF bad
  <2>2. \A x \in bad : \E y \in bad : rank[y] < rank[x]
    BY Zenon, <1>5
  <2>3. rank \in [X -> Nat]
    BY Zenon, <1>1
  <2> QED BY <2>1, <2>2, <2>3, Descent
<1> QED BY Zenon, <1>6

(* Unwinding the removed blocks. *)
LEMMA UnwindBlocksKeep ==
  ASSUME body \in Bodies, NEW s, StoreShape(s), NEW n \in Nat, NEW R \in SUBSET Block, R \in SUBSET (0 .. n)
  PROVE  Keeps(s, MapThenFoldSet(LAMBDA b, t : UnwindBlock(t, b), s, LAMBDA b : b, Min, R), R)
<1> DEFINE IsF(g) == g = [u \in SUBSET R |-> IF u = {} THEN s ELSE UnwindBlock(g[u \ {Min(u)}], Min(u))]
           f == CHOOSE g : IsF(g)
           good == {u \in SUBSET R : Keeps(s, f[u], R)}
<1>1. MapThenFoldSet(LAMBDA b, t : UnwindBlock(t, b), s, LAMBDA b : b, Min, R) = f[R]
  BY DEF MapThenFoldSet
<1>2. \A u : Pick("unwind block", u) = Min(u)
  BY DEF Pick
<1>3. \A t, x : Step("unwind block", t, x, <<>>, 0) = UnwindBlock(t, x)
  BY DEF Step
<1>4. IsF(f)
  <2>1. PICK g : IsFold(g, "unwind block", s, R, <<>>, 0)
    BY Zenon, FoldExists
  <2>2. IsF(g)
    <3> DEFINE one(u) == IF u = {} THEN s
                         ELSE Step("unwind block", g[u \ {Pick("unwind block", u)}], Pick("unwind block", u), <<>>, 0)
               other(u) == IF u = {} THEN s ELSE UnwindBlock(g[u \ {Min(u)}], Min(u))
    <3>1. \A u : one(u) = other(u)
      BY Zenon, <1>2, <1>3
    <3>2. [u \in SUBSET R |-> one(u)] = [u \in SUBSET R |-> other(u)]
      <4> HIDE DEF one, other
      <4> QED BY Zenon, <3>1
    <3> QED BY Zenon, <2>1, <3>2 DEF IsFold
  <2>3. \E h : IsF(h)
    BY Zenon, <2>2
  <2> HIDE DEF IsF
  <2> QED BY Zenon, <2>3
<1> HIDE DEF f
<1>5. {} \in good
  <2>1. Keeps(s, s, R)
    BY DEF Keeps
  <2>2. f[{}] = s
    BY Zenon, <1>4
  <2> QED BY Zenon, <2>1, <2>2
<1>6. ASSUME NEW u \in SUBSET R, u # {}, u \ {Pick("unwind block", u)} \in good PROVE u \in good
  <2>1. Min(u) \in R
    BY Zenon, <1>6, PickIsElement
  <2>2. f[u] = UnwindBlock(f[u \ {Min(u)}], Min(u)) /\ Keeps(s, f[u \ {Min(u)}], R)
    BY Zenon, <1>2, <1>4, <1>6
  <2>3. Keeps(s, UnwindBlock(f[u \ {Min(u)}], Min(u)), R)
    BY Zenon, <2>1, <2>2, UnwindBlockKeeps
  <2>4. Keeps(s, f[u], R)
    BY Zenon, <2>2, <2>3
  <2> QED BY Zenon, <2>4
<1>7. R \in good
  <2> HIDE DEF good
  <2> QED BY Zenon, <1>5, <1>6, FoldInduction
<1> QED BY Zenon, <1>1, <1>7

(* Applying the added blocks. *)
LEMMA ApplyBlocksAreSound ==
  ASSUME body \in Bodies, NEW n \in Nat, NEW daa \in Nat, n <= daa, Saturating(daa - FlashPruneBuffer) < n,
         NEW acc, Sound(acc, n), NEW m \in Nat, NEW A \in SUBSET Block, A \in SUBSET (0 .. m)
  PROVE  Sound(MapThenFoldSet(LAMBDA b, t : ApplyBlock(t, b, daa), acc, LAMBDA b : b, Max, A), n)
<1> DEFINE IsF(g) == g = [u \in SUBSET A |-> IF u = {} THEN acc ELSE ApplyBlock(g[u \ {Max(u)}], Max(u), daa)]
           f == CHOOSE g : IsF(g)
           good == {u \in SUBSET A : Sound(f[u], n)}
<1>1. MapThenFoldSet(LAMBDA b, t : ApplyBlock(t, b, daa), acc, LAMBDA b : b, Max, A) = f[A]
  BY DEF MapThenFoldSet
<1>2. \A u : Pick("apply block", u) = Max(u)
  BY DEF Pick
<1>3. \A t, x : Step("apply block", t, x, <<>>, daa) = ApplyBlock(t, x, daa)
  BY DEF Step
<1>4. \A t, x : Sound(t, n) /\ x \in Block => Sound(ApplyBlock(t, x, daa), n)
  BY Zenon, ApplyBlockIsSound
<1>5. IsF(f)
  <2>1. PICK g : IsFold(g, "apply block", acc, A, <<>>, daa)
    BY Zenon, FoldExists
  <2>2. IsF(g)
    <3> DEFINE one(u) == IF u = {} THEN acc
                         ELSE Step("apply block", g[u \ {Pick("apply block", u)}], Pick("apply block", u), <<>>, daa)
               other(u) == IF u = {} THEN acc ELSE ApplyBlock(g[u \ {Max(u)}], Max(u), daa)
    <3>1. \A u : one(u) = other(u)
      BY Zenon, <1>2, <1>3
    <3>2. [u \in SUBSET A |-> one(u)] = [u \in SUBSET A |-> other(u)]
      <4> HIDE DEF one, other
      <4> QED BY Zenon, <3>1
    <3> QED BY Zenon, <2>1, <3>2 DEF IsFold
  <2>3. \E h : IsF(h)
    BY Zenon, <2>2
  <2> HIDE DEF IsF
  <2> QED BY Zenon, <2>3
<1> HIDE DEF f
<1>6. {} \in good
  <2>1. f[{}] = acc
    BY Zenon, <1>5
  <2> QED BY Zenon, <2>1
<1>7. ASSUME NEW u \in SUBSET A, u # {}, u \ {Pick("apply block", u)} \in good PROVE u \in good
  <2>1. Max(u) \in Block
    BY Zenon, <1>7, PickIsElement
  <2>2. f[u] = ApplyBlock(f[u \ {Max(u)}], Max(u), daa) /\ Sound(f[u \ {Max(u)}], n)
    BY Zenon, <1>2, <1>5, <1>7
  <2>3. Sound(ApplyBlock(f[u \ {Max(u)}], Max(u), daa), n)
    BY Zenon, <1>4, <2>1, <2>2
  <2>4. Sound(f[u], n)
    BY Zenon, <2>2, <2>3
  <2> QED BY Zenon, <2>4
<1>8. A \in good
  <2> HIDE DEF good
  <2> QED BY Zenon, <1>6, <1>7, FoldInduction
<1> QED BY Zenon, <1>1, <1>8

-----------------------------------------------------------------------------
(* The inductive invariant: while the scores are steady, every flash in     *)
(* force is recorded in its sender's account or has expired for every       *)
(* score that is still steady, and no two of them share an id.              *)
LowestSteady == Saturating(peak - FlashPruneBuffer) + 1

LedgerInv ==
    /\ body \in Bodies
    /\ sink \in Block \cup {0}
    /\ peak \in Nat
    /\ steady \in BOOLEAN
    /\ steady => Sound([store |-> store, applied |-> inForce], LowestSteady)

LEMMA InitIsSound == Init => LedgerInv
<1> SUFFICES ASSUME Init PROVE LedgerInv
  OBVIOUS
<1> DEFINE acc == [store |-> store, applied |-> inForce]
<1>1. DOMAIN acc = {"store", "applied"} /\ acc.store = store /\ acc.applied = {}
  BY DEF Init
<1>2. StoreShape(store)
  BY DEF Init, StoreShape
<1>3. Guarded(store, {}, LowestSteady) /\ Once({})
  BY Zenon DEF Guarded, Once
<1> HIDE DEF acc
<1>4. Sound(acc, LowestSteady)
  BY <1>1, <1>2, <1>3 DEF Sound
<1>5. peak \in Nat /\ steady \in BOOLEAN
  BY DEF Init
<1> QED BY Zenon, <1>4, <1>5 DEF LedgerInv, Init, Genesis, acc

(* A score that keeps the run steady: what is pruned with it has expired    *)
(* for every score that is steady after it, and it is one of these.         *)
LEMMA SteadyScore ==
  ASSUME peak \in Nat, NEW daa \in Nat \ {0}, daa + FlashPruneBuffer > peak
  PROVE  LET top == Max({peak, daa})
             n == Saturating(top - FlashPruneBuffer) + 1
         IN  /\ top \in Nat /\ n \in Nat
             /\ n <= daa /\ Saturating(daa - FlashPruneBuffer) < n /\ LowestSteady <= n /\ LowestSteady \in Nat
<1>1. Max({peak, daa}) = IF peak <= daa THEN daa ELSE peak
  BY DEF Max
<1>2. FlashPruneBuffer \in Nat \ {0}
  BY LimitsAreNumbers
<1> QED BY <1>1, <1>2 DEF Saturating, LowestSteady

(* What is unwound leaves the history; the rest stays recorded. *)
LEMMA UnwoundIsSound ==
  ASSUME LedgerInv, steady, NEW n \in Nat, LowestSteady <= n, LowestSteady \in Nat,
         NEW s, NEW R, Keeps(store, s, R)
  PROVE  Sound([store |-> s, applied |-> {f \in inForce : f.block \notin R}], n)
<1> DEFINE before == [store |-> store, applied |-> inForce]
           applied == {f \in inForce : f.block \notin R}
           after == [store |-> s, applied |-> applied]
<1>1. before.store = store /\ before.applied = inForce
  OBVIOUS
<1>2. Sound(before, LowestSteady)
  BY Zenon DEF LedgerInv
<1> HIDE DEF before
<1>3. inForce \in SUBSET [tx : Txs, block : Block] /\ Guarded(store, inForce, LowestSteady) /\ Once(inForce)
  BY <1>1, <1>2 DEF Sound
<1>4. Guarded(s, applied, n)
  <2> SUFFICES ASSUME NEW f \in applied, f.tx.kind = "flash" PROVE Recorded(s, f) \/ Late(f.tx, n)
    BY Zenon DEF Guarded
  <2>1. f \in inForce /\ f.block \notin R /\ f.tx.from \in Account
    BY <1>3, BodiesHoldTransactions DEF LedgerInv, Txs
  <2>2. Recorded(store, f) \/ Late(f.tx, LowestSteady)
    BY Zenon, <1>3, <2>1 DEF Guarded
  <2>3. Recorded(store, f) => Recorded(s, f)
    <3>1. Entry(f.tx, f.block).block = f.block
      BY DEF Entry
    <3> QED BY Zenon, <2>1, <3>1 DEF Recorded, Keeps
  <2>4. Late(f.tx, LowestSteady) => Late(f.tx, n)
    <3>1. f.tx.expiry \in Nat
      BY <1>3, <2>1, BodiesHoldTransactions DEF LedgerInv, Txs
    <3> QED BY <3>1 DEF Late
  <2> QED BY Zenon, <2>2, <2>3, <2>4
<1>5. Once(applied)
  BY Zenon, <1>3 DEF Once
<1>6. applied \in SUBSET [tx : Txs, block : Block]
  BY Zenon, <1>3
<1>7. DOMAIN after = {"store", "applied"} /\ after.store = s /\ after.applied = applied
  OBVIOUS
<1> HIDE DEF after, applied
<1>8. Sound(after, n)
  BY <1>4, <1>5, <1>6, <1>7 DEF Sound, Keeps
<1> QED BY Zenon, <1>8 DEF after, applied

LEMMA CommitIsSound ==
  ASSUME LedgerInv, NEW new \in Block, NEW daa \in VirtualDaaScores(new), CommitVirtualState(new, daa)
  PROVE  LedgerInv'
<1> DEFINE removed == Chain[sink] \ Chain[new]
           added == Chain[new] \ Chain[sink]
           s == MapThenFoldSet(LAMBDA b, t : UnwindBlock(t, b), store, LAMBDA b : b, Min, removed)
           unwound == [store |-> s, applied |-> {f \in inForce : f.block \notin removed}]
           result == MapThenFoldSet(LAMBDA b, acc : ApplyBlock(acc, b, daa), unwound, LAMBDA b : b, Max, added)
           n == Saturating(Max({peak, daa}) - FlashPruneBuffer) + 1
<1>1. /\ new > sink /\ sink' = new /\ body' = body
      /\ store' = result.store /\ inForce' = result.applied
      /\ peak' = Max({peak, daa}) /\ steady' = (steady /\ daa + FlashPruneBuffer > peak)
  BY Zenon DEF CommitVirtualState
<1>2. sink \in Block \cup {0} /\ sink \in Nat /\ new \in Nat /\ body \in Bodies /\ peak \in Nat /\ steady \in BOOLEAN
  BY BlocksAreNumbers DEF LedgerInv
<1>3. daa \in Nat \ {0} /\ FlashPruneBuffer \in Nat
  BY BlocksAreNumbers, LimitsAreNumbers DEF VirtualDaaScores
<1> HIDE DEF removed, added, s, unwound, result
<1>4. peak' \in Nat /\ steady' \in BOOLEAN
  <2>1. Max({peak, daa}) = IF peak <= daa THEN daa ELSE peak
    BY <1>2, <1>3 DEF Max
  <2>2. peak' \in Nat
    BY <1>1, <1>2, <1>3, <2>1
  <2> QED BY Zenon, <1>1, <2>2
<1>5. ASSUME steady' PROVE Sound([store |-> store, applied |-> inForce], LowestSteady)'
  <2>1. steady /\ daa + FlashPruneBuffer > peak
    BY Zenon, <1>1, <1>5
  <2>2. /\ n \in Nat /\ n <= daa /\ Saturating(daa - FlashPruneBuffer) < n
        /\ LowestSteady <= n /\ LowestSteady \in Nat
    BY Zenon, <1>2, <1>3, <2>1, SteadyScore
  <2>3. n = LowestSteady'
    BY Zenon, <1>1 DEF LowestSteady
  <2> HIDE DEF n
  <2>4. removed \in SUBSET Block /\ removed \in SUBSET (0 .. sink) /\ added \in SUBSET Block /\ added \in SUBSET (0 .. new)
    <3>1. /\ Chain[sink] \subseteq (Block \cup {0}) \cap (0 .. sink) /\ 0 \in Chain[sink]
          /\ Chain[new] \subseteq (Block \cup {0}) \cap (0 .. new) /\ 0 \in Chain[new]
      BY <1>2, ChainsGoDown
    <3> QED BY <3>1 DEF removed, added
  <2>5. StoreShape(store)
    <3> DEFINE acc == [store |-> store, applied |-> inForce]
    <3>1. acc.store = store
      OBVIOUS
    <3> HIDE DEF acc
    <3>2. Sound(acc, LowestSteady)
      BY Zenon, <2>1 DEF LedgerInv, acc
    <3> QED BY Zenon, <3>1, <3>2 DEF Sound
  <2>6. Keeps(store, s, removed)
    BY Zenon, <1>2, <2>4, <2>5, UnwindBlocksKeep DEF s
  <2>7. Sound(unwound, n)
    BY Zenon, <2>1, <2>2, <2>6, UnwoundIsSound DEF unwound
  <2>8. Sound(result, n)
    BY Zenon, <1>2, <1>3, <2>2, <2>4, <2>7, ApplyBlocksAreSound DEF result
  <2>9. Txs' = Txs
    BY Zenon, <1>1 DEF Txs
  <2>10. DOMAIN [store |-> store', applied |-> inForce'] = {"store", "applied"}
    OBVIOUS
  <2>11. /\ [store |-> store', applied |-> inForce'].store = store'
         /\ [store |-> store', applied |-> inForce'].applied = inForce'
    OBVIOUS
  <2>12. StoreShape(store)' /\ Guarded(store, inForce, LowestSteady)' /\ Once(inForce)'
    BY Zenon, <1>1, <2>3, <2>8 DEF Sound, StoreShape, Guarded, Recorded, Entry, Late, Once
  <2>13. (inForce \in SUBSET [tx : Txs, block : Block])'
    BY Zenon, <1>1, <2>8, <2>9 DEF Sound
  <2> QED BY Zenon, <2>10, <2>11, <2>12, <2>13 DEF Sound
<1> QED BY Zenon, <1>1, <1>2, <1>4, <1>5 DEF LedgerInv

(* A flash transaction that several blocks carry takes effect at most once  *)
(* on the selected chain, for any blocks, bodies and accounts and through   *)
(* any sequence of reorganizations in which the score of the virtual block  *)
(* does not fall by FLASH_PRUNE_BUFFER: validate_flash_batch finds the      *)
(* entry of the first time in the sender's account, or prune_recent_flashes *)
(* dropped it after the transaction had expired for all scores to come.     *)
THEOREM FlashTakesEffectOnce == Spec => []FlashOnce
<1>1. Init => LedgerInv
  BY InitIsSound
<1>2. LedgerInv /\ [Next]_vars => LedgerInv'
  <2> SUFFICES ASSUME LedgerInv, [Next]_vars PROVE LedgerInv'
    OBVIOUS
  <2>1. CASE Next
    BY Zenon, <2>1, CommitIsSound DEF Next
  <2>2. CASE UNCHANGED vars
    BY <2>2 DEF vars, LedgerInv, LowestSteady, Sound, StoreShape, Guarded, Recorded, Entry, Late, Once, Txs
  <2> QED BY Zenon, <2>1, <2>2
<1>3. LedgerInv => FlashOnce
  <2> SUFFICES ASSUME LedgerInv, steady PROVE Once(inForce)
    BY Zenon DEF FlashOnce, Once
  <2> DEFINE acc == [store |-> store, applied |-> inForce]
  <2>1. acc.applied = inForce
    OBVIOUS
  <2> HIDE DEF acc
  <2>2. Sound(acc, LowestSteady)
    BY Zenon DEF LedgerInv, acc
  <2> QED BY Zenon, <2>1, <2>2 DEF Sound
<1> QED BY <1>1, <1>2, <1>3, PTL DEF Spec
=============================================================================

----------------------- MODULE SahyadriConsensusProofs -----------------------
(***************************************************************************)
(* The block DAG for every number of blocks and every order of arrival:    *)
(* its depth points are exact while the pruning point moves, and every     *)
(* mergeset is coloured greedily.                                          *)
(*                                                                         *)
(* DagInv is the shape of the DAG: selected chains are linear, pasts are   *)
(* closed, and blue score and blue work grow along them.  It rests on what *)
(* the folds over a mergeset compute, and these on the least-number        *)
(* principle for finite sets.  BlueInv adds what the colouring relies on:  *)
(* every blue set is a k-cluster, and the sizes memoized along its chain   *)
(* are those of the blue anticones.                                        *)
(***************************************************************************)
EXTENDS SahyadriConsensus, FiniteSetTheorems, TLAPS

-----------------------------------------------------------------------------
(* Selected chains are linear and end in genesis; scores grow along them. *)
ChainShape ==
    \A b \in Known :
        /\ b \in chain[b] /\ Genesis \in chain[b]
        /\ b # Genesis => gd[b].selected \in parents[b] /\ chain[b] = {b} \cup chain[gd[b].selected]
        /\ \A a \in chain[b] : chain[a] \subseteq chain[b] /\ (a # b => gd[a].blueScore < gd[b].blueScore)
        /\ \A a, c \in chain[b] : a \in chain[c] \/ c \in chain[a]

(* Pasts are closed, and every block is heavier than what is in its past. *)
PastShape ==
    \A b \in Known :
        /\ chain[b] \subseteq past[b]
        /\ b \notin parents[b]
        /\ past[b] = {b} \cup UNION {past[p] : p \in parents[b]}
        /\ \A a \in past[b] : past[a] \subseteq past[b] /\ (a # b => gd[a].blueWork < gd[b].blueWork)

(* Where the points begin: genesis has none, and is a pruning point. *)
FirstPoints ==
    /\ gd[Genesis].blueScore = 0 /\ gd[Genesis].finality = Origin /\ gd[Genesis].mergeRoot = Origin
    /\ Genesis \in pastPoints

DagInv ==
    /\ DagTypeOK /\ Genesis \in Known /\ chain[Genesis] = {Genesis}
    /\ ChainShape /\ PastShape /\ FirstPoints /\ DepthPointsExact

-----------------------------------------------------------------------------
(* Every nonempty set of naturals has a least element: the induction of    *)
(* all proofs below that need one.                                         *)
LEMMA LeastNumber ==
  ASSUME NEW T \in SUBSET Nat, T # {}
  PROVE  \E n \in T : \A m \in T : n <= m
<1>1. PICK k \in T : TRUE
  OBVIOUS
<1> DEFINE U == {0 .. m : m \in {n \in T : n <= k}}
           R == StrictSubsetOrdering(0 .. k)
<1>2. IsWellFoundedOn(R, SUBSET (0 .. k))
  <2>1. IsFiniteSet(0 .. k)
    BY FS_Interval
  <2>2. FiniteSubsetsOf(0 .. k) = SUBSET (0 .. k)
    BY <2>1, FS_FiniteSubsetsOfFinite, Zenon
  <2>3. IsWellFoundedOn(R, FiniteSubsetsOf(0 .. k))
    BY FS_StrictSubsetOrderingWellFounded, Zenon
  <2> QED BY <2>2, <2>3, Zenon
<1>3. U \subseteq SUBSET (0 .. k) /\ U # {}
  OBVIOUS
<1>4. PICK I \in U : \A J \in U : ~(<<J, I>> \in R)
  <2> HIDE DEF U, R
  <2> QED BY Zenon, <1>2, <1>3, WFMin
<1>5. PICK n \in T : n <= k /\ I = 0 .. n
  OBVIOUS
<1>6. ASSUME NEW m \in T, m < n PROVE FALSE
  <2>1. 0 .. m \in U /\ 0 .. m \subseteq 0 .. n /\ 0 .. m # 0 .. n
    BY <1>5, <1>6
  <2> QED BY Zenon, <2>1, <1>3, <1>4, <1>5 DEF StrictSubsetOrdering
<1> QED BY <1>6

(* A strict subset of a finite set has fewer elements. *)
LEMMA SmallerSubset ==
  ASSUME NEW S, NEW T, IsFiniteSet(S), T \subseteq S
  PROVE  /\ IsFiniteSet(T) /\ Cardinality(T) \in Nat /\ Cardinality(S) \in Nat
         /\ Cardinality(T) <= Cardinality(S)
         /\ T # S => Cardinality(T) < Cardinality(S)
<1>1. /\ IsFiniteSet(T) /\ Cardinality(T) <= Cardinality(S)
      /\ (Cardinality(S) = Cardinality(T) => S = T)
  BY FS_Subset
<1>2. Cardinality(S) \in Nat /\ Cardinality(T) \in Nat
  BY <1>1, FS_CardinalityType
<1> QED BY <1>1, <1>2

LEMMA KnownFinite ==
  ASSUME DagTypeOK, NEW S, S \subseteq Known
  PROVE  IsFiniteSet(S) /\ Cardinality(S) \in Nat
<1>1. IsFiniteSet(Block)
  BY FS_Interval, BoundAssumption DEF Block
<1> QED BY <1>1, SmallerSubset DEF DagTypeOK

-----------------------------------------------------------------------------
(* SortableBlock's order is a strict total order on the known blocks. *)
LEMMA LessIsOrder ==
  ASSUME DagTypeOK, NEW a \in Known, NEW b \in Known
  PROVE  /\ ~Less(a, a)
         /\ a = b \/ Less(a, b) \/ Less(b, a)
         /\ \A c \in Known : Less(a, b) /\ Less(b, c) => Less(a, c)
<1>1. \A x \in Known : x \in Nat /\ gd[x].blueWork \in Nat
  BY BoundAssumption DEF DagTypeOK, Block
<1> QED BY <1>1 DEF Less

(* find_selected_parent, as every other search for the largest block of a  *)
(* set, finds it.                                                          *)
LEMMA SelectedParentIsMax ==
  ASSUME DagTypeOK, NEW S, S \subseteq Known, S # {}
  PROVE  /\ FindSelectedParent(S) \in S
         /\ \A q \in S \ {FindSelectedParent(S)} : Less(q, FindSelectedParent(S))
<1> DEFINE Above(x) == {c \in S : Less(x, c)}
           T == {Cardinality(Above(x)) : x \in S}
<1>1. \A x \in S : IsFiniteSet(Above(x)) /\ Cardinality(Above(x)) \in Nat
  BY KnownFinite
<1>2. PICK n \in T : \A m \in T : n <= m
  <2> HIDE DEF Above
  <2>1. T \in SUBSET Nat /\ T # {}
    BY <1>1
  <2> HIDE DEF T
  <2> QED BY <2>1, LeastNumber
<1>3. PICK p \in S : n = Cardinality(Above(p))
  OBVIOUS
<1>4. ASSUME NEW q \in S, q # p, ~Less(q, p) PROVE FALSE
  <2>1. Less(p, q)
    BY <1>4, LessIsOrder
  <2>2. Above(q) \subseteq Above(p)
    BY <2>1, LessIsOrder
  <2>3. q \in Above(p) /\ q \notin Above(q)
    BY <2>1, LessIsOrder
  <2> HIDE DEF Above
  <2>4. Cardinality(Above(q)) < Cardinality(Above(p))
    BY <1>1, <2>2, <2>3, SmallerSubset
  <2> QED BY <1>1, <1>2, <1>3, <2>4
<1>5. \E x \in S : \A q \in S \ {x} : Less(q, x)
  BY <1>4
<1> QED BY <1>5, Zenon DEF FindSelectedParent

(* The highest of a set of blocks by blue score. *)
LEMMA HighestScore ==
  ASSUME DagTypeOK, NEW S, S \subseteq Known, S # {}
  PROVE  \E x \in S : \A y \in S : gd[y].blueScore <= gd[x].blueScore
<1> DEFINE Above(x) == {c \in S : gd[x].blueScore < gd[c].blueScore}
           T == {Cardinality(Above(x)) : x \in S}
<1>1. \A x \in S : IsFiniteSet(Above(x)) /\ Cardinality(Above(x)) \in Nat
  BY KnownFinite
<1>2. PICK n \in T : \A m \in T : n <= m
  <2> HIDE DEF Above
  <2>1. T \in SUBSET Nat /\ T # {}
    BY <1>1
  <2> HIDE DEF T
  <2> QED BY <2>1, LeastNumber
<1>3. PICK p \in S : n = Cardinality(Above(p))
  OBVIOUS
<1>4. \A x \in S : gd[x].blueScore \in Nat
  BY DEF DagTypeOK
<1>5. ASSUME NEW q \in S, ~(gd[q].blueScore <= gd[p].blueScore) PROVE FALSE
  <2>1. Above(q) \subseteq Above(p) /\ q \in Above(p) /\ q \notin Above(q)
    BY <1>4, <1>5
  <2> HIDE DEF Above
  <2>2. Cardinality(Above(q)) < Cardinality(Above(p))
    BY <1>1, <2>1, SmallerSubset
  <2> QED BY <1>1, <1>2, <1>3, <2>2
<1> QED BY <1>5

(* SortBlocks lists the blocks of a set in ascending order. *)
LEMMA SortedBlocks ==
  ASSUME DagTypeOK, NEW S, S \subseteq Known
  PROVE  /\ SortBlocks(S) \in Seq(S) /\ Len(SortBlocks(S)) = Cardinality(S)
         /\ \A i \in 1 .. Cardinality(S) :
               Cardinality({c \in S : Less(c, SortBlocks(S)[i])}) = i - 1
<1> DEFINE Below(x) == {c \in S : Less(c, x)}
           n == Cardinality(S)
           f == [x \in S |-> Cardinality(Below(x)) + 1]
<1>1. IsFiniteSet(S) /\ n \in Nat
  BY KnownFinite
<1>2. \A x \in S : Below(x) \subseteq S /\ Below(x) # S
  BY LessIsOrder
<1>3. \A x \in S : IsFiniteSet(Below(x)) /\ Cardinality(Below(x)) \in 0 .. n - 1
  <2> HIDE DEF Below
  <2> QED BY <1>1, <1>2, SmallerSubset
<1>4. ASSUME NEW x \in S, NEW y \in S, Less(x, y)
      PROVE  Cardinality(Below(x)) < Cardinality(Below(y))
  <2>1. Below(x) \subseteq Below(y) /\ x \in Below(y) /\ x \notin Below(x)
    BY <1>4, LessIsOrder
  <2> HIDE DEF Below
  <2> QED BY <1>3, <2>1, SmallerSubset
<1>5. f \in Injection(S, 1 .. n)
  <2> HIDE DEF Below
  <2>1. f \in [S -> 1 .. n]
    BY <1>1, <1>3
  <2>2. ASSUME NEW x \in S, NEW y \in S, f[x] = f[y] PROVE x = y
    <3>1. Cardinality(Below(x)) = Cardinality(Below(y))
      BY <1>3, <2>2
    <3>2. ~Less(x, y) /\ ~Less(y, x)
      BY <1>3, <1>4, <3>1
    <3> QED BY <3>2, LessIsOrder
  <2> HIDE DEF f
  <2> QED BY <2>1, <2>2 DEF Injection, IsInjective
<1>6. f \in Surjection(S, 1 .. n)
  <2> HIDE DEF f
  <2>1. IsFiniteSet(1 .. n) /\ Cardinality(1 .. n) = n
    BY <1>1, FS_Interval
  <2> QED BY <1>5, <2>1, FS_Injection
<1>7. \A i \in 1 .. n : \E b \in S : Cardinality(Below(b)) = i - 1
  <2> HIDE DEF Below, n
  <2>1. \A i \in 1 .. n : \E b \in S : f[b] = i
    BY <1>6, Zenon DEF Surjection
  <2>2. \A b \in S : f[b] = Cardinality(Below(b)) + 1 /\ Cardinality(Below(b)) \in Int
    BY <1>1, <1>3 DEF n
  <2> HIDE DEF f
  <2> QED BY <2>1, <2>2
<1>8. SortBlocks(S) = [i \in 1 .. n |-> CHOOSE b \in S : Cardinality(Below(b)) = i - 1]
  BY DEF SortBlocks
<1>9. \A i \in 1 .. n : /\ SortBlocks(S)[i] \in S
                        /\ Cardinality(Below(SortBlocks(S)[i])) = i - 1
  <2> HIDE DEF Below, n
  <2> SUFFICES ASSUME NEW i \in 1 .. n
               PROVE  SortBlocks(S)[i] \in S /\ Cardinality(Below(SortBlocks(S)[i])) = i - 1
    OBVIOUS
  <2>1. SortBlocks(S)[i] = CHOOSE b \in S : Cardinality(Below(b)) = i - 1
    BY <1>8
  <2>2. \E b \in S : Cardinality(Below(b)) = i - 1
    BY <1>7
  <2> QED BY <2>1, <2>2, Zenon
<1>10. SortBlocks(S) \in Seq(S) /\ Len(SortBlocks(S)) = n
  <2> HIDE DEF Below
  <2> QED BY <1>1, <1>8, <1>9
<1> QED BY <1>9, <1>10

-----------------------------------------------------------------------------
(* The greedy colouring's test of a candidate: P is the blue set of the    *)
(* selected parent, S the blue set so far.                                 *)
Joins(S, c, P) == Cardinality(S \ P) <= K /\ IsKCluster(S \cup {c})

(* The steps of the folds, the colouring of a mergeset, the greedy         *)
(* colouring it is compared with and the sum of the work of the blues s,   *)
(* and the order in which they take the elements.                          *)
FoldStep(kind, acc, x, s) ==
    CASE kind = "colour" -> Colour(acc, x)
      [] kind = "join" -> IF Joins(acc, x, s) THEN acc \cup {x} ELSE acc
      [] OTHER -> work[s[x]] + acc
FoldPick(kind, u) == IF kind = "sum" THEN CHOOSE x \in u : TRUE ELSE FindSelectedParent(u)

IsRecursion(g, kind, base, s, D) ==
    g = [u \in SUBSET D |->
            IF u = {} THEN base
            ELSE FoldStep(kind, g[u \ {FoldPick(kind, u)}], FoldPick(kind, u), s)]

(* The function that a fold computes on the subsets of a finite set exists: *)
(* by induction on the size of the subsets.                                 *)
LEMMA FoldRecursion ==
  ASSUME NEW D, IsFiniteSet(D), NEW s, NEW base, NEW kind,
         \A u \in SUBSET D : u # {} => FoldPick(kind, u) \in u
  PROVE  \E g : IsRecursion(g, kind, base, s, D)
<1> DEFINE Pick(u) == FoldPick(kind, u)
           Upto(k) == {u \in SUBSET D : Cardinality(u) <= k}
           Value(g, u) == IF u = {} THEN base ELSE FoldStep(kind, g[u \ {Pick(u)}], Pick(u), s)
           Solved(k) == \E g : g = [u \in Upto(k) |-> Value(g, u)]
           T == {k \in Nat : ~Solved(k)}
<1>1. /\ Cardinality(D) \in Nat
      /\ \A u \in SUBSET D : /\ IsFiniteSet(u) /\ Cardinality(u) \in Nat
                             /\ Cardinality(u) <= Cardinality(D)
  BY SmallerSubset
<1>2. ASSUME NEW u \in SUBSET D, u # {}
      PROVE  Cardinality(u \ {Pick(u)}) = Cardinality(u) - 1 /\ u \ {Pick(u)} \in SUBSET D
  <2>1. Pick(u) \in u
    BY <1>2
  <2> HIDE DEF Upto, Value, Pick
  <2>2. Cardinality(u \ {Pick(u)}) = Cardinality(u) - 1
    BY <1>1, <2>1, FS_RemoveElement
  <2> QED BY <2>2
<1> HIDE DEF Pick
<1>3. Solved(0)
  <2>1. \A u \in Upto(0) : u = {}
    <3>1. \A u \in SUBSET D : Cardinality(u) <= 0 => Cardinality(u) = 0
      BY <1>1
    <3> QED BY <1>1, <3>1, FS_EmptySet, Zenon
  <2>2. [u \in Upto(0) |-> base] = [u \in Upto(0) |-> Value([v \in Upto(0) |-> base], u)]
    BY <2>1
  <2> QED BY Zenon, <2>2
<1>4. ASSUME NEW k \in Nat, Solved(k) PROVE Solved(k + 1)
  <2>1. PICK g : g = [u \in Upto(k) |-> Value(g, u)]
    BY Zenon, <1>4
  <2> DEFINE h == [u \in Upto(k + 1) |-> Value(g, u)]
  <2>2. \A u \in Upto(k) : u \in Upto(k + 1) /\ g[u] = h[u]
    <3>1. \A u \in Upto(k) : u \in Upto(k + 1)
      BY <1>1
    <3>2. \A u \in Upto(k) : g[u] = Value(g, u)
      <4> HIDE DEF Value, Upto
      <4> QED BY <2>1
    <3> HIDE DEF Value, Upto
    <3> QED BY <3>1, <3>2
  <2>3. ASSUME NEW u \in Upto(k + 1) PROVE Value(h, u) = Value(g, u)
    <3>1. CASE u = {}
      BY <3>1
    <3>2. CASE u # {}
      <4>1. u \ {Pick(u)} \in Upto(k)
        <5>1. u \in SUBSET D /\ Cardinality(u) <= k + 1 /\ Cardinality(u) \in Nat
          BY <1>1
        <5>2. Cardinality(u \ {Pick(u)}) = Cardinality(u) - 1 /\ u \ {Pick(u)} \in SUBSET D
          BY <1>2, <3>2, <5>1
        <5> QED BY <5>1, <5>2
      <4>2. h[u \ {Pick(u)}] = g[u \ {Pick(u)}]
        <5> HIDE DEF h, Upto
        <5> QED BY <2>2, <4>1
      <4> HIDE DEF h
      <4> QED BY <3>2, <4>2
    <3> QED BY <3>1, <3>2
  <2>4. h = [u \in Upto(k + 1) |-> Value(h, u)]
    <3> HIDE DEF Value, Upto
    <3> QED BY <2>3
  <2> HIDE DEF h, Value, Upto
  <2> QED BY <2>4
<1>5. \A k \in Nat : Solved(k)
  <2> SUFFICES ASSUME T # {} PROVE FALSE
    <3> HIDE DEF Solved
    <3> QED OBVIOUS
  <2>1. PICK k \in T : \A m \in T : k <= m
    <3>1. T \in SUBSET Nat
      <4> HIDE DEF Solved
      <4> QED OBVIOUS
    <3> HIDE DEF T
    <3> QED BY <3>1, LeastNumber
  <2> HIDE DEF Solved
  <2>2. k # 0
    BY <1>3, <2>1
  <2>3. k - 1 \in Nat /\ k - 1 \notin T
    BY <2>1, <2>2
  <2>4. Solved((k - 1) + 1)
    BY <1>4, <2>3
  <2> QED BY <2>1, <2>4
<1>6. Upto(Cardinality(D)) = SUBSET D
  BY <1>1
<1>7. Solved(Cardinality(D))
  <2> HIDE DEF Solved
  <2> QED BY <1>1, <1>5
<1> HIDE DEF Upto
<1> QED BY Zenon, <1>6, <1>7 DEF IsRecursion, Pick

(* A property of the subsets of a finite set that passes from a set with   *)
(* an element less to the set holds of all; bad are the counterexamples.   *)
LEMMA SubsetInduction ==
  ASSUME NEW D, IsFiniteSet(D), NEW bad \in SUBSET (SUBSET D),
         \A u \in bad : \E x \in u : u \ {x} \in bad
  PROVE  bad = {}
<1> SUFFICES ASSUME bad # {} PROVE FALSE
  OBVIOUS
<1> DEFINE T == {Cardinality(u) : u \in bad}
<1>1. \A u \in bad : IsFiniteSet(u) /\ Cardinality(u) \in Nat
  BY SmallerSubset
<1>2. T \in SUBSET Nat /\ T # {}
  BY <1>1
<1>3. PICK k \in T : \A m \in T : k <= m
  <2> HIDE DEF T
  <2> QED BY <1>2, LeastNumber
<1>4. PICK u \in bad : k = Cardinality(u)
  OBVIOUS
<1>5. PICK x \in u : u \ {x} \in bad
  OBVIOUS
<1>6. Cardinality(u \ {x}) = Cardinality(u) - 1
  BY <1>1, FS_RemoveElement
<1>7. Cardinality(u \ {x}) \in T
  BY <1>5
<1> HIDE DEF T
<1>8. k <= Cardinality(u \ {x}) /\ Cardinality(u) \in Nat
  BY <1>1, <1>3, <1>7
<1> QED BY <1>4, <1>6, <1>8

(* The shape of consensus data while the mergeset is coloured. *)
DataShape(d, sp) ==
    /\ DOMAIN d = {"selected", "blues", "reds", "sizes", "blueScore", "blueWork"}
    /\ d.selected = sp
    /\ d.blues \in Seq(Known) /\ d.blues # <<>>

LEMMA ColourFold ==
  ASSUME DagTypeOK, NEW D, D \subseteq Known, NEW sp, NEW base, DataShape(base, sp)
  PROVE  DataShape(FoldInOrder(Colour, base, D), sp)
<1> DEFINE Pick(u) == FindSelectedParent(u)
           IsFold(g) == g = [u \in SUBSET D |-> IF u = {} THEN base ELSE Colour(g[u \ {Pick(u)}], Pick(u))]
           f == CHOOSE g : IsFold(g)
<1>1. FoldInOrder(Colour, base, D) = f[D]
  BY DEF FoldInOrder, MapThenFoldSet
<1>2. \A u \in SUBSET D : u # {} => Pick(u) \in u
  BY SelectedParentIsMax
<1>3. IsFiniteSet(D)
  BY KnownFinite
<1>4. IsFold(f)
  <2>1. \E g : IsRecursion(g, "colour", base, 0, D)
    BY Zenon, <1>2, <1>3, FoldRecursion DEF FoldPick
  <2>2. \E g : IsFold(g)
    BY Zenon, <2>1 DEF IsRecursion, FoldStep, FoldPick
  <2> HIDE DEF IsFold
  <2> QED BY <2>2, Zenon
<1> HIDE DEF f, Pick
<1> DEFINE bad == {u \in SUBSET D : ~DataShape(f[u], sp)}
<1>5. ASSUME NEW u \in bad PROVE \E x \in u : u \ {x} \in bad
  <2>1. f[u] = IF u = {} THEN base ELSE Colour(f[u \ {Pick(u)}], Pick(u))
    BY Zenon, <1>4
  <2>2. u # {}
    BY <2>1
  <2>3. Pick(u) \in u /\ Pick(u) \in Known
    BY <1>2, <2>2
  <2>4. ASSUME NEW d, DataShape(d, sp), NEW c \in Known PROVE DataShape(Colour(d, c), sp)
    BY <2>4 DEF Colour, AddBlue, DataShape
  <2>5. ~DataShape(f[u \ {Pick(u)}], sp)
    BY <2>1, <2>2, <2>3, <2>4
  <2> QED BY <2>3, <2>5
<1>6. bad = {}
  <2> HIDE DEF bad
  <2>1. bad \in SUBSET (SUBSET D)
    BY DEF bad
  <2> QED BY Zenon, <1>3, <1>5, <2>1, SubsetInduction
<1>7. DataShape(f[D], sp)
  BY <1>6
<1> QED BY <1>1, <1>7

LEMMA WorkFold ==
  ASSUME NEW data, data.blues \in Seq(Known), data.blues # <<>>, work \in [Known -> Nat \ {0}]
  PROVE  AddedBlueWork(data) \in Nat \ {0}
<1> DEFINE s == data.blues
           D == 1 .. Len(s)
           Pick(u) == CHOOSE x \in u : TRUE
           IsFold(g) == g = [u \in SUBSET D |-> IF u = {} THEN 0 ELSE work[s[Pick(u)]] + g[u \ {Pick(u)}]]
           f == CHOOSE g : IsFold(g)
<1>1. D = DOMAIN s /\ D # {} /\ \A i \in D : work[s[i]] \in Nat \ {0}
  <2>1. Len(s) \in Nat \ {0} /\ D = DOMAIN s /\ \A i \in D : s[i] \in Known
    OBVIOUS
  <2>2. 1 \in D
    BY <2>1
  <2> HIDE DEF D, s
  <2> QED BY <2>1, <2>2
<1>2. AddedBlueWork(data) = f[D]
  BY Zenon, <1>1 DEF AddedBlueWork, MapThenSumSet, MapThenFoldSet
<1>3. \A u \in SUBSET D : u # {} => Pick(u) \in u
  OBVIOUS
<1>4. IsFiniteSet(D)
  BY FS_Interval
<1> HIDE DEF D, s
<1>5. IsFold(f)
  <2>1. \E g : IsRecursion(g, "sum", 0, s, D)
    <3>1. \A u \in SUBSET D : u # {} => FoldPick("sum", u) \in u
      BY <1>3 DEF FoldPick
    <3> QED BY Zenon, <1>4, <3>1, FoldRecursion
  <2>2. PICK g : IsRecursion(g, "sum", 0, s, D)
    BY <2>1
  <2>3. IsFold(g)
    <3>1. \A u : FoldPick("sum", u) = Pick(u)
      BY DEF FoldPick
    <3>2. \A acc, x : FoldStep("sum", acc, x, s) = work[s[x]] + acc
      BY DEF FoldStep
    <3> HIDE DEF Pick
    <3> QED BY <2>2, <3>1, <3>2, Zenon DEF IsRecursion
  <2>4. \E h : IsFold(h)
    BY Zenon, <2>3
  <2> HIDE DEF IsFold
  <2> QED BY <2>4, Zenon
<1> HIDE DEF f, Pick
<1> DEFINE Right(u) == f[u] \in Nat /\ (u # {} => f[u] # 0)
           bad == {u \in SUBSET D : ~Right(u)}
<1>6. ASSUME NEW u \in bad PROVE \E x \in u : u \ {x} \in bad
  <2>1. f[u] = IF u = {} THEN 0 ELSE work[s[Pick(u)]] + f[u \ {Pick(u)}]
    BY Zenon, <1>5
  <2>2. u # {}
    BY <2>1
  <2>3. Pick(u) \in u /\ work[s[Pick(u)]] \in Nat \ {0}
    BY <1>1, <1>3, <2>2
  <2>4. f[u \ {Pick(u)}] \notin Nat
    <3> SUFFICES ASSUME f[u \ {Pick(u)}] \in Nat PROVE FALSE
      OBVIOUS
    <3>1. f[u] \in Nat \ {0}
      <4>1. f[u] = work[s[Pick(u)]] + f[u \ {Pick(u)}]
        BY <2>1, <2>2
      <4> HIDE DEF bad
      <4> QED BY <2>3, <4>1
    <3> QED BY <3>1
  <2> QED BY Zenon, <2>3, <2>4
<1>7. bad = {}
  <2> HIDE DEF bad
  <2>1. bad \in SUBSET (SUBSET D)
    BY DEF bad
  <2> QED BY Zenon, <1>4, <1>6, <2>1, SubsetInduction
<1>8. Right(D)
  <2> HIDE DEF Right
  <2> QED BY <1>7, Zenon
<1> QED BY <1>1, <1>2, <1>8

(* What sahyadri_consensus computes for a set of parents. *)
LEMMA ConsensusDataFacts ==
  ASSUME DagTypeOK, NEW ps, ps \subseteq Known, FindSelectedParent(ps) \in Known
  PROVE  LET d == ConsensusData(ps)
             sp == FindSelectedParent(ps)
         IN  /\ DataShape(d, sp)
             /\ d.blueScore \in Nat /\ gd[sp].blueScore < d.blueScore
             /\ d.blueWork \in Nat /\ gd[sp].blueWork < d.blueWork
<1> DEFINE sp == FindSelectedParent(ps)
           M == UnorderedMergeset(sp, ps)
           new == [selected |-> sp, blues |-> <<sp>>, reds |-> <<>>, sizes |-> [p \in {sp} |-> 0],
                   blueScore |-> 0, blueWork |-> 0]
           data == FoldInOrder(Colour, new, M)
<1>1. M \subseteq Known
  BY DEF DagTypeOK, UnorderedMergeset
<1>2. DataShape(new, sp)
  <2> HIDE DEF sp
  <2>1. sp \in Known
    BY DEF sp
  <2> QED BY <2>1 DEF DataShape
<1>3. DataShape(data, sp)
  <2> HIDE DEF M, new, sp
  <2> QED BY <1>1, <1>2, ColourFold
<1> HIDE DEF data, M, new
<1>4. ConsensusData(ps) = [data EXCEPT !.blueScore = gd[sp].blueScore + Len(data.blues),
                                       !.blueWork = gd[sp].blueWork + AddedBlueWork(data)]
  BY DEF ConsensusData, data, new, M
<1> HIDE DEF sp
<1>5. Len(data.blues) \in Nat \ {0}
  BY <1>3 DEF DataShape
<1>6. AddedBlueWork(data) \in Nat \ {0}
  <2>1. work \in [Known -> Nat \ {0}]
    BY WorksAssumption DEF DagTypeOK
  <2> QED BY <1>3, <2>1, WorkFold DEF DataShape
<1>7. gd[sp].blueScore \in Nat /\ gd[sp].blueWork \in Nat
  BY DEF DagTypeOK, sp
<1> DEFINE d == ConsensusData(ps)
<1>8. /\ DOMAIN d = DOMAIN data
      /\ d.selected = data.selected /\ d.blues = data.blues
      /\ d.blueScore = gd[sp].blueScore + Len(data.blues)
      /\ d.blueWork = gd[sp].blueWork + AddedBlueWork(data)
  BY <1>3, <1>4 DEF DataShape
<1> HIDE DEF d
<1>9. DataShape(d, sp)
  BY <1>3, <1>8 DEF DataShape
<1>10. /\ d.blueScore \in Nat /\ gd[sp].blueScore < d.blueScore
       /\ d.blueWork \in Nat /\ gd[sp].blueWork < d.blueWork
  BY <1>5, <1>6, <1>7, <1>8
<1> QED BY <1>9, <1>10 DEF d, sp

-----------------------------------------------------------------------------
LEMMA ChainAntisymmetric ==
  ASSUME DagInv, NEW a \in Known, NEW b \in Known, a \in chain[b], b \in chain[a]
  PROVE  a = b
<1>1. gd[a].blueScore \in Nat /\ gd[b].blueScore \in Nat
  BY DEF DagInv, DagTypeOK
<1>2. a # b => gd[a].blueScore < gd[b].blueScore /\ gd[b].blueScore < gd[a].blueScore
  BY DEF DagInv, ChainShape
<1> QED BY <1>1, <1>2

(* Blocks of a chain are told apart by the lengths of their own chains. *)
LEMMA ChainPosition ==
  ASSUME DagInv, NEW b \in Known, NEW x \in chain[b], NEW y \in chain[b],
         Cardinality(chain[x]) = Cardinality(chain[y])
  PROVE  x = y
<1>1. x \in Known /\ y \in Known /\ chain[x] \subseteq Known /\ chain[y] \subseteq Known
  BY DEF DagInv, DagTypeOK
<1>2. IsFiniteSet(chain[x]) /\ IsFiniteSet(chain[y])
  BY <1>1, KnownFinite DEF DagInv
<1>3. x \in chain[x] /\ y \in chain[y]
  BY <1>1 DEF DagInv, ChainShape
<1>4. CASE x \in chain[y]
  <2>1. chain[x] \subseteq chain[y]
    BY <1>1, <1>4 DEF DagInv, ChainShape
  <2>2. chain[x] = chain[y]
    BY <1>2, <2>1, SmallerSubset
  <2> QED BY <1>1, <1>3, <1>4, <2>2, ChainAntisymmetric
<1>5. CASE y \in chain[x]
  <2>1. chain[y] \subseteq chain[x]
    BY <1>1, <1>5 DEF DagInv, ChainShape
  <2>2. chain[x] = chain[y]
    BY <1>2, <2>1, SmallerSubset
  <2> QED BY <1>1, <1>3, <1>5, <2>2, ChainAntisymmetric
<1> QED BY <1>4, <1>5 DEF DagInv, ChainShape

LEMMA ChainOfSelected ==
  ASSUME DagInv, NEW b \in Known, b # Genesis
  PROVE  /\ gd[b].selected \in Known /\ gd[b].selected \in chain[b]
         /\ Cardinality(chain[b]) = Cardinality(chain[gd[b].selected]) + 1
<1> DEFINE sp == gd[b].selected
<1>1. sp \in parents[b] /\ chain[b] = {b} \cup chain[sp]
  BY DEF DagInv, ChainShape
<1>2. sp \in Known /\ chain[sp] \subseteq Known
  BY <1>1 DEF DagInv, DagTypeOK
<1>3. sp \in chain[sp] /\ sp \in chain[b]
  BY <1>1, <1>2 DEF DagInv, ChainShape
<1>4. sp # b
  BY <1>1 DEF DagInv, PastShape
<1>5. b \notin chain[sp]
  BY <1>2, <1>3, <1>4, ChainAntisymmetric
<1>6. IsFiniteSet(chain[sp])
  BY <1>2, KnownFinite DEF DagInv
<1> HIDE DEF sp
<1>7. Cardinality(chain[sp] \cup {b}) = Cardinality(chain[sp]) + 1
  BY Zenon, <1>5, <1>6, FS_AddElement
<1> QED BY <1>1, <1>2, <1>3, <1>7 DEF sp

-----------------------------------------------------------------------------
(* The split point of two chains is the top of what they share. *)
LEMMA SplitIsCommon ==
  ASSUME DagInv, NEW a \in Known, NEW b \in Known
  PROVE  /\ SplitPoint(a, b) \in Known
         /\ chain[SplitPoint(a, b)] = chain[a] \cap chain[b]
         /\ SplitPoint(a, b) \in chain[a] \cap chain[b]
<1> DEFINE S == chain[a] \cap chain[b]
           m == SplitPoint(a, b)
<1>1. S \subseteq Known /\ S # {}
  BY DEF DagInv, ChainShape, DagTypeOK
<1>2. m \in S /\ \A q \in S \ {m} : Less(q, m)
  BY <1>1, SelectedParentIsMax DEF SplitPoint, DagInv
<1> HIDE DEF m
<1>3. chain[m] \subseteq S
  BY <1>1, <1>2 DEF DagInv, ChainShape
<1>4. ASSUME NEW x \in S PROVE x \in chain[m]
  <2>1. CASE x = m
    BY <1>1, <2>1 DEF DagInv, ChainShape
  <2>2. CASE x # m /\ m \in chain[x]
    <3>1. m \in past[x]
      BY <1>1, <2>2 DEF DagInv, PastShape
    <3>2. gd[m].blueWork < gd[x].blueWork
      BY <1>1, <2>2, <3>1 DEF DagInv, PastShape
    <3>3. gd[m].blueWork \in Nat /\ gd[x].blueWork \in Nat
      BY <1>1, <1>2 DEF DagInv, DagTypeOK
    <3> QED BY <1>2, <2>2, <3>2, <3>3 DEF Less
  <2>3. x \in chain[m] \/ m \in chain[x]
    BY <1>2 DEF DagInv, ChainShape
  <2> QED BY <2>1, <2>2, <2>3
<1> QED BY <1>1, <1>2, <1>3, <1>4 DEF m

(* The path from a to c lists the blocks of the chain of c above m, where  *)
(* the chains part, by their position.                                     *)
LEMMA PathPositions ==
  ASSUME DagInv, NEW a \in Known, NEW c \in Known, NEW m \in Known,
         chain[m] = chain[a] \cap chain[c]
  PROVE  LET s == ChainPath(a, c)
         IN  /\ s \in Seq(chain[c] \ chain[a])
             /\ Len(s) = Cardinality(chain[c]) - Cardinality(chain[m])
             /\ \A i \in 1 .. Len(s) : Cardinality(chain[s[i]]) = Cardinality(chain[m]) + i
<1> DEFINE D == chain[c] \ chain[a]
           s == ChainPath(a, c)
<1>1. D \subseteq Known /\ chain[c] \subseteq Known /\ chain[m] \subseteq Known
  BY DEF DagInv, DagTypeOK
<1>2. /\ s \in Seq(D) /\ Len(s) = Cardinality(D)
      /\ \A i \in 1 .. Cardinality(D) : Cardinality({x \in D : Less(x, s[i])}) = i - 1
  <2> HIDE DEF D
  <2> QED BY Zenon, <1>1, SortedBlocks DEF DagInv, ChainPath, D
<1>3. /\ IsFiniteSet(chain[c]) /\ Cardinality(chain[c]) \in Nat
      /\ IsFiniteSet(chain[m]) /\ Cardinality(chain[m]) \in Nat
      /\ IsFiniteSet(D) /\ Cardinality(D) \in Nat
  <2> HIDE DEF D
  <2> QED BY <1>1, KnownFinite DEF DagInv
<1>4. Cardinality(D) = Cardinality(chain[c]) - Cardinality(chain[m])
  <2>1. Cardinality(D) = Cardinality(chain[c]) - Cardinality(chain[c] \cap chain[a])
    BY Zenon, <1>3, FS_Difference
  <2>2. chain[c] \cap chain[a] = chain[m]
    OBVIOUS
  <2> QED BY <2>1, <2>2
<1>5. ASSUME NEW i \in 1 .. Len(s) PROVE Cardinality(chain[s[i]]) = Cardinality(chain[m]) + i
  <2> DEFINE x == s[i]
             B == {y \in D : Less(y, x)}
  <2>1. x \in D /\ Cardinality(B) = i - 1
    <3> HIDE DEF s, D
    <3> QED BY <1>2
  <2> HIDE DEF x, s
  <2>2. x \in Known /\ x \in chain[c] /\ x \notin chain[a]
    BY <1>1, <2>1
  <2>3. B \subseteq Known /\ IsFiniteSet(B)
    <3>1. B \subseteq Known
      BY <1>1
    <3> HIDE DEF B
    <3> QED BY <3>1, KnownFinite DEF DagInv
  <2>4. x \notin B
    BY <2>2, LessIsOrder DEF DagInv
  <2>5. ASSUME NEW y \in D PROVE Less(y, x) <=> y \in chain[x] /\ y # x
    <3>1. y \in Known /\ y \in chain[c]
      BY <1>1
    <3>2. gd[x].blueWork \in Nat /\ gd[y].blueWork \in Nat /\ ~Less(x, x)
      BY <2>2, <3>1, LessIsOrder DEF DagInv, DagTypeOK
    <3>3. ASSUME NEW v \in Known, NEW w \in Known, v \in chain[w], v # w
          PROVE  gd[v].blueWork < gd[w].blueWork
      BY <3>3 DEF DagInv, PastShape
    <3>4. y \in chain[x] \/ x \in chain[y]
      BY <2>2, <3>1 DEF DagInv, ChainShape
    <3> QED BY <2>2, <3>1, <3>2, <3>3, <3>4 DEF Less
  <2>6. chain[x] = chain[m] \cup (B \cup {x})
    <3>1. x \in chain[x] /\ chain[x] \subseteq chain[c]
      BY <2>2 DEF DagInv, ChainShape
    <3>2. chain[m] \subseteq chain[x]
      <4>1. m \in chain[m]
        BY DEF DagInv, ChainShape
      <4>2. m \in chain[a] /\ m \in chain[c]
        BY <4>1
      <4>3. x \in chain[m] \/ m \in chain[x]
        BY <2>2, <4>2 DEF DagInv, ChainShape
      <4>4. m \in chain[x]
        BY <2>2, <4>3
      <4> QED BY <2>2, <4>4 DEF DagInv, ChainShape
    <3>3. chain[x] \subseteq chain[m] \cup (B \cup {x})
      BY <2>5, <3>1
    <3>4. B \cup {x} \subseteq chain[x]
      BY <2>5, <3>1
    <3> QED BY <3>2, <3>3, <3>4
  <2>7. Cardinality(B \cup {x}) = i /\ IsFiniteSet(B \cup {x})
    <3> HIDE DEF B
    <3>1. IsFiniteSet(B \cup {x}) /\ Cardinality(B \cup {x}) = Cardinality(B) + 1
      BY <2>3, <2>4, FS_AddElement
    <3>2. i \in Int
      OBVIOUS
    <3> QED BY <2>1, <3>1, <3>2
  <2>8. chain[m] \cap (B \cup {x}) = {}
    BY <2>2
  <2>9. Cardinality(chain[m] \cup (B \cup {x})) = Cardinality(chain[m]) + i - 0
    <3> DEFINE X == B \cup {x}
    <3>1. IsFiniteSet(X) /\ Cardinality(X) = i
      BY <2>7
    <3>2. Cardinality(chain[m] \cap X) = 0
      BY Zenon, <2>8, FS_EmptySet
    <3> HIDE DEF X, B
    <3>3. Cardinality(chain[m] \cup X) = Cardinality(chain[m]) + Cardinality(X) - Cardinality(chain[m] \cap X)
      BY <1>3, <3>1, FS_Union
    <3> QED BY <3>1, <3>2, <3>3 DEF X
  <2>10. Cardinality(chain[x]) = Cardinality(chain[m]) + i
    <3> HIDE DEF B
    <3>1. i \in Int
      OBVIOUS
    <3> QED BY <1>3, <2>6, <2>9, <3>1
  <2> QED BY <2>10 DEF x
<1> HIDE DEF s
<1>6. /\ s \in Seq(chain[c] \ chain[a])
      /\ Len(s) = Cardinality(chain[c]) - Cardinality(chain[m])
      /\ \A i \in 1 .. Len(s) : Cardinality(chain[s[i]]) = Cardinality(chain[m]) + i
  BY Zenon, <1>2, <1>4, <1>5
<1> QED BY Zenon, <1>6 DEF s

(* The path from a block of a chain to its end is that part of the chain. *)
LEMMA PathIsChain ==
  ASSUME DagInv, NEW c \in Known, NEW m \in chain[c]
  PROVE  LET s == ChainPath(m, c)
         IN  /\ s \in Seq(Known)
             /\ s = <<>> => m = c
             /\ s # <<>> => s[Len(s)] = c /\ gd[s[1]].selected = m
             /\ \A i \in 1 .. Len(s) - 1 : gd[s[i + 1]].selected = s[i]
             /\ \A i \in 1 .. Len(s) : s[i] # Genesis /\ s[i] \in chain[c]
<1> DEFINE s == ChainPath(m, c)
<1>1. m \in Known /\ chain[c] \subseteq Known /\ c \in chain[c] /\ chain[m] \subseteq chain[c] /\ Genesis \in chain[m]
  BY DEF DagInv, DagTypeOK, ChainShape
<1>2. chain[m] = chain[m] \cap chain[c]
  BY <1>1
<1>3. /\ s \in Seq(chain[c] \ chain[m])
      /\ Len(s) = Cardinality(chain[c]) - Cardinality(chain[m])
      /\ \A i \in 1 .. Len(s) : Cardinality(chain[s[i]]) = Cardinality(chain[m]) + i
  BY Zenon, <1>1, <1>2, PathPositions
<1>4. Cardinality(chain[c]) \in Nat /\ Cardinality(chain[m]) \in Nat
  BY <1>1, KnownFinite DEF DagInv
<1> HIDE DEF s
<1>5. Len(s) \in Nat /\ \A i \in 1 .. Len(s) : s[i] \in chain[c] /\ s[i] \notin chain[m]
  BY <1>3
<1>6. \A i \in 1 .. Len(s) : s[i] # Genesis /\ s[i] \in chain[c] /\ s[i] \in Known
  BY <1>1, <1>5
<1>7. s \in Seq(Known)
  BY <1>3, <1>6
<1>8. ASSUME s = <<>> PROVE m = c
  <2>1. Cardinality(chain[c]) = Cardinality(chain[m])
    BY <1>3, <1>4, <1>8
  <2> QED BY <1>1, <2>1, ChainPosition
<1>9. ASSUME NEW i \in 1 .. Len(s)
      PROVE  /\ gd[s[i]].selected \in chain[c]
             /\ Cardinality(chain[gd[s[i]].selected]) = Cardinality(chain[m]) + i - 1
  <2>1. /\ gd[s[i]].selected \in Known /\ gd[s[i]].selected \in chain[s[i]]
        /\ Cardinality(chain[s[i]]) = Cardinality(chain[gd[s[i]].selected]) + 1
    BY <1>6, ChainOfSelected
  <2>2. chain[s[i]] \subseteq chain[c]
    BY <1>6 DEF DagInv, ChainShape
  <2>3. Cardinality(chain[gd[s[i]].selected]) \in Nat
    BY Zenon, <1>1, <2>1, <2>2, KnownFinite DEF DagInv, DagTypeOK
  <2>4. Cardinality(chain[s[i]]) = Cardinality(chain[m]) + i
    BY <1>3
  <2>5. i \in Int
    OBVIOUS
  <2>6. Cardinality(chain[gd[s[i]].selected]) = Cardinality(chain[m]) + i - 1
    BY <1>4, <2>1, <2>3, <2>4, <2>5
  <2> QED BY <2>1, <2>2, <2>6
<1>10. ASSUME s # <<>> PROVE s[Len(s)] = c /\ gd[s[1]].selected = m
  <2>1. Len(s) \in 1 .. Len(s) /\ 1 \in 1 .. Len(s)
    BY <1>3, <1>10
  <2>2. Cardinality(chain[s[Len(s)]]) = Cardinality(chain[c])
    BY <1>3, <1>4, <2>1
  <2>3. s[Len(s)] = c
    BY <1>1, <1>6, <2>1, <2>2, ChainPosition
  <2>4. Cardinality(chain[gd[s[1]].selected]) = Cardinality(chain[m])
    BY <1>4, <1>9, <2>1
  <2>5. gd[s[1]].selected = m
    BY <1>9, <2>1, <2>4, ChainPosition
  <2> QED BY <2>3, <2>5
<1>11. ASSUME NEW i \in 1 .. Len(s) - 1 PROVE gd[s[i + 1]].selected = s[i]
  <2>1. i \in 1 .. Len(s) /\ i + 1 \in 1 .. Len(s) /\ i \in Nat
    BY <1>5
  <2>2. Cardinality(chain[gd[s[i + 1]].selected]) = Cardinality(chain[m]) + (i + 1) - 1
    BY <1>9, <2>1
  <2>3. Cardinality(chain[s[i]]) = Cardinality(chain[m]) + i
    BY <1>3, <2>1
  <2>4. Cardinality(chain[gd[s[i + 1]].selected]) = Cardinality(chain[s[i]])
    BY <1>4, <2>1, <2>2, <2>3
  <2> QED BY <1>6, <1>9, <2>1, <2>4, ChainPosition
<1> QED BY <1>6, <1>7, <1>8, <1>10, <1>11 DEF s

-----------------------------------------------------------------------------
(* A store numbers the chain of block b: its entry i is the block of the   *)
(* chain with i blocks below it.                                           *)
Numbers(store, b) ==
    /\ DOMAIN store = 0 .. Cardinality(chain[b]) - 1
    /\ \A i \in DOMAIN store : store[i] \in chain[b] /\ Cardinality(chain[store[i]]) = i + 1

(* Cutting off what is not on the chain of c and appending the path to c   *)
(* turns a numbering of the chain of a into one of the chain of c.         *)
LEMMA Renumbered ==
  ASSUME DagInv, NEW a \in Known, NEW c \in Known, NEW store, Numbers(store, a)
  PROVE  LET added == ChainPath(a, c)
             split == Cardinality(DOMAIN store) - 1 - Cardinality(chain[a] \ chain[c])
             new == [i \in 0 .. split + Len(added) |-> IF i <= split THEN store[i] ELSE added[i - split]]
         IN  Numbers(new, c)
<1> DEFINE m == SplitPoint(a, c)
           na == Cardinality(chain[a])
           nc == Cardinality(chain[c])
           nm == Cardinality(chain[m])
           added == ChainPath(a, c)
           removed == Cardinality(chain[a] \ chain[c])
           split == Cardinality(DOMAIN store) - 1 - removed
           new == [i \in 0 .. split + Len(added) |-> IF i <= split THEN store[i] ELSE added[i - split]]
<1>0. /\ DOMAIN store = 0 .. na - 1
      /\ \A i \in DOMAIN store : store[i] \in chain[a] /\ Cardinality(chain[store[i]]) = i + 1
  BY DEF Numbers
<1>1. m \in Known /\ chain[m] = chain[a] \cap chain[c] /\ m \in chain[a]
  BY SplitIsCommon
<1>2. IsFiniteSet(chain[a]) /\ IsFiniteSet(chain[c]) /\ chain[a] \subseteq Known /\ chain[c] \subseteq Known
  <2>1. chain[a] \subseteq Known /\ chain[c] \subseteq Known /\ IsFiniteSet(Known)
    BY KnownFinite DEF DagInv, DagTypeOK
  <2> QED BY <2>1, FS_Subset
<1>3. na \in Nat /\ nc \in Nat /\ nm \in Nat /\ nm <= nc /\ nm <= na /\ removed = na - nm
  <2>1. IsFiniteSet(chain[m]) /\ chain[m] \subseteq chain[a] /\ chain[m] \subseteq chain[c]
    BY <1>1, <1>2, FS_Subset
  <2>2. nm <= na /\ nm <= nc
    BY <1>2, <2>1, FS_Subset
  <2>3. na \in Nat /\ nc \in Nat /\ nm \in Nat
    BY <1>2, <2>1, FS_CardinalityType
  <2>4. removed = na - Cardinality(chain[a] \cap chain[c])
    BY Zenon, <1>2, FS_Difference
  <2> QED BY <1>1, <2>2, <2>3, <2>4
<1>4. Cardinality(DOMAIN store) = na
  <2> HIDE DEF na
  <2>1. 0 \in Int /\ na - 1 \in Int
    BY <1>3
  <2>2. Cardinality(0 .. na - 1) = IF 0 > na - 1 THEN 0 ELSE (na - 1) - 0 + 1
    BY <2>1, FS_Interval
  <2> QED BY <1>0, <1>3, <2>2
<1>5. /\ added \in Seq(chain[c] \ chain[a]) /\ Len(added) = nc - nm
      /\ \A i \in 1 .. Len(added) : Cardinality(chain[added[i]]) = nm + i
  BY Zenon, <1>1, PathPositions
<1>6. new = [i \in 0 .. ((na - 1) - removed) + Len(added) |->
                IF i <= (na - 1) - removed THEN store[i] ELSE added[i - ((na - 1) - removed)]]
  BY <1>4
<1> HIDE DEF m, na, nc, nm, added, removed, split, new
<1>7. new = [i \in 0 .. nc - 1 |-> IF i <= nm - 1 THEN store[i] ELSE added[i - (nm - 1)]]
  <2>1. (na - 1) - removed = nm - 1 /\ ((na - 1) - removed) + Len(added) = nc - 1
    BY <1>3, <1>5
  <2> QED BY <1>6, <2>1
<1>8. ASSUME NEW i \in 0 .. nc - 1
      PROVE  new[i] \in chain[c] /\ Cardinality(chain[new[i]]) = i + 1
  <2>1. CASE i <= nm - 1
    <3>1. new[i] = store[i] /\ i \in DOMAIN store
      BY <1>0, <1>3, <1>7, <2>1
    <3>2. store[i] \in chain[a] /\ store[i] \in Known /\ Cardinality(chain[store[i]]) = i + 1
      BY <1>0, <1>2, <3>1
    <3>3. store[i] \in chain[m] \/ m \in chain[store[i]]
      BY <1>1, <3>2 DEF DagInv, ChainShape
    <3>4. CASE m \in chain[store[i]]
      <4>1. chain[m] \subseteq chain[store[i]] /\ IsFiniteSet(chain[store[i]])
        <5>1. chain[store[i]] \subseteq chain[a]
          BY <3>2 DEF DagInv, ChainShape
        <5> QED BY <1>2, <3>2, <3>4, <5>1, FS_Subset DEF DagInv, ChainShape
      <4>2. nm <= Cardinality(chain[store[i]])
        BY <4>1, FS_Subset DEF nm
      <4>3. Cardinality(chain[store[i]]) = nm
        BY <1>3, <2>1, <3>2, <4>2
      <4>4. store[i] = m
        BY Zenon, <1>1, <3>2, <4>3, ChainPosition DEF nm
      <4> QED BY <1>1, <3>1, <3>2, <4>4 DEF DagInv, ChainShape
    <3>5. CASE store[i] \in chain[m]
      BY <1>1, <3>1, <3>2, <3>5
    <3> QED BY <3>3, <3>4, <3>5
  <2>2. CASE ~(i <= nm - 1)
    <3> DEFINE j == i - (nm - 1)
    <3>1. new[i] = added[j] /\ j \in 1 .. Len(added) /\ nm + j = i + 1
      BY <1>3, <1>5, <1>7, <2>2
    <3> HIDE DEF j
    <3>2. added[j] \in chain[c] /\ Cardinality(chain[added[j]]) = nm + j
      BY <1>5, <3>1
    <3> QED BY <3>1, <3>2
  <2> QED BY <2>1, <2>2
<1>9. DOMAIN new = 0 .. nc - 1
  BY <1>7
<1>10. Numbers(new, c)
  BY <1>8, <1>9 DEF Numbers, nc
<1> QED BY <1>10 DEF new, split, removed, added

(* Such a store holds the whole chain, each block above its selected parent. *)
LEMMA NumbersChain ==
  ASSUME DagInv, NEW b \in Known, NEW store, Numbers(store, b)
  PROVE  /\ Range(store) = chain[b]
         /\ \A i \in DOMAIN store \ {0} : gd[store[i]].selected = store[i - 1]
<1> DEFINE n == Cardinality(chain[b])
<1>1. chain[b] \subseteq Known /\ IsFiniteSet(chain[b]) /\ n \in Nat
  <2>1. chain[b] \subseteq Known /\ IsFiniteSet(Known)
    BY KnownFinite DEF DagInv, DagTypeOK
  <2>2. IsFiniteSet(chain[b])
    BY <2>1, FS_Subset
  <2> QED BY <2>1, <2>2, FS_CardinalityType
<1>2. /\ DOMAIN store = 0 .. n - 1
      /\ \A i \in DOMAIN store : store[i] \in chain[b] /\ Cardinality(chain[store[i]]) = i + 1
  BY DEF Numbers
<1>3. ASSUME NEW x \in chain[b]
      PROVE  /\ Cardinality(chain[x]) - 1 \in DOMAIN store
             /\ store[Cardinality(chain[x]) - 1] = x
  <2>1. chain[x] \subseteq chain[b] /\ x \in chain[x]
    BY <1>1 DEF DagInv, ChainShape
  <2>2. IsFiniteSet(chain[x]) /\ Cardinality(chain[x]) <= n
    BY <1>1, <2>1, FS_Subset
  <2>3. Cardinality(chain[x]) \in Nat /\ Cardinality(chain[x]) # 0
    BY <2>1, <2>2, FS_CardinalityType, FS_EmptySet
  <2> HIDE DEF n
  <2> DEFINE i == Cardinality(chain[x]) - 1
  <2>4. i \in 0 .. n - 1 /\ i + 1 = Cardinality(chain[x])
    BY <1>1, <2>2, <2>3
  <2>5. store[i] \in chain[b] /\ Cardinality(chain[store[i]]) = Cardinality(chain[x])
    BY <1>2, <2>4
  <2>6. store[i] = x
    BY <2>5, ChainPosition
  <2> QED BY <1>2, <2>4, <2>6
<1>4. Range(store) = chain[b]
  BY <1>2, <1>3 DEF Range
<1>5. ASSUME NEW i \in DOMAIN store \ {0}
      PROVE  gd[store[i]].selected = store[i - 1]
  <2> DEFINE y == store[i]
             sp == gd[y].selected
  <2>1. y \in chain[b] /\ y \in Known /\ Cardinality(chain[y]) = i + 1 /\ i \in Nat \ {0}
    BY <1>1, <1>2
  <2> HIDE DEF y, n
  <2>2. y # Genesis
    <3>1. Cardinality(chain[Genesis]) = 1
      BY Zenon, FS_Singleton DEF DagInv
    <3> QED BY <2>1, <3>1
  <2>3. sp \in chain[y] /\ Cardinality(chain[y]) = Cardinality(chain[sp]) + 1
    BY <2>1, <2>2, ChainOfSelected
  <2>4. sp \in chain[b]
    BY <2>1, <2>3 DEF DagInv, ChainShape
  <2> HIDE DEF sp
  <2>5. store[Cardinality(chain[sp]) - 1] = sp
    BY <1>3, <2>4
  <2>6. Cardinality(chain[sp]) \in Nat
    <3>1. chain[sp] \subseteq chain[b]
      BY <2>4 DEF DagInv, ChainShape
    <3> QED BY <1>1, <3>1, FS_Subset, FS_CardinalityType
  <2>7. Cardinality(chain[sp]) - 1 = i - 1
    BY <2>1, <2>3, <2>6
  <2> QED BY <2>5, <2>7 DEF sp, y
<1> QED BY <1>4, <1>5

-----------------------------------------------------------------------------
(* calculate_block_at_depth is exact if the point of the selected parent   *)
(* is: the block at the depth is not below that point, and if that is      *)
(* ORIGIN, not below the pruning point.                                    *)
LEMMA PointIsExact ==
  ASSUME DagInv, NEW data, data.selected \in Known, data.blueScore \in Nat,
         gd[data.selected].blueScore < data.blueScore, NEW depth \in Nat, NEW stored,
         data.selected = Genesis => stored = Origin,
         data.selected # Genesis => IsDepthPoint(stored, gd[data.selected], depth)
  PROVE  IsDepthPoint(BlockAtDepth(data, depth, stored), data, depth)
<1> DEFINE sp == data.selected
           start == IF stored = Origin THEN pruningPoint ELSE stored
           below == {x \in chain[sp] : /\ IsChainAncestorOf(start, x)
                                      /\ gd[x].blueScore < data.blueScore - depth}
           best == CHOOSE x \in below : \A y \in below : gd[y].blueScore <= gd[x].blueScore
           point == BlockAtDepth(data, depth, stored)
           Off == \/ data.blueScore < gd[pruningPoint].blueScore + depth
                  \/ ~IsChainAncestorOf(pruningPoint, sp)
<1>1. point = IF data.blueScore < depth THEN Genesis ELSE IF Off THEN Origin
              ELSE IF below = {} THEN start ELSE best
  BY Zenon DEF BlockAtDepth
<1>2. /\ chain[sp] \subseteq Known /\ Genesis \in chain[sp] /\ pruningPoint \in Known /\ pruningPoint \in pastPoints
      /\ \A x \in Known : gd[x].blueScore \in Nat /\ x # Origin /\ x \in chain[x]
  <2>1. \A x \in Known : x \in Block /\ gd[x].blueScore \in Nat
    BY Zenon DEF DagInv, DagTypeOK
  <2>2. \A x \in Block : x # Origin
    BY DEF Block, Origin
  <2>3. chain[sp] \subseteq Known /\ Genesis \in chain[sp] /\ \A x \in Known : x \in chain[x]
    BY Zenon DEF DagInv, DagTypeOK, ChainShape
  <2>4. pruningPoint \in Known /\ pruningPoint \in pastPoints
    BY DEF DagInv, DagTypeOK
  <2> QED BY Zenon, <2>1, <2>2, <2>3, <2>4
<1>3. \A x, y \in chain[sp] : x \notin chain[y] =>
          y \in chain[x] /\ chain[y] \subseteq chain[x] /\ gd[y].blueScore < gd[x].blueScore
  BY <1>2 DEF DagInv, ChainShape
<1> HIDE DEF point
<1>4. CASE data.blueScore < depth
  BY Zenon, <1>1, <1>4 DEF IsDepthPoint, point
<1>5. CASE ~(data.blueScore < depth) /\ Off
  BY Zenon, <1>1, <1>5 DEF IsDepthPoint, IsChainAncestorOf, point
<1>6. CASE ~(data.blueScore < depth) /\ ~Off
  <2>1. /\ start \in chain[sp] /\ gd[start].blueScore + depth <= data.blueScore
        /\ gd[start].blueScore + depth = data.blueScore => start \in pastPoints
    <3>1. CASE stored = Origin
      BY <1>2, <1>6, <3>1 DEF IsChainAncestorOf
    <3>2. CASE stored # Origin
      <4>1. sp # Genesis /\ IsDepthPoint(stored, gd[sp], depth) /\ start = stored
        BY <3>2
      <4>2. gd[sp].blueScore \in Nat
        BY <1>2
      <4>3. CASE gd[sp].blueScore < depth
        <5>1. stored = Genesis
          BY <4>1, <4>3 DEF IsDepthPoint
        <5> QED BY <1>2, <1>6, <4>1, <5>1 DEF DagInv, FirstPoints
      <4>4. CASE ~(gd[sp].blueScore < depth)
        <5>1. IsAtDepth(stored, gd[sp], depth)
          BY <3>2, <4>1, <4>4 DEF IsDepthPoint
        <5>2. stored \in chain[gd[sp].selected] /\ gd[stored].blueScore + depth <= gd[sp].blueScore
          <6>1. gd[stored].blueScore \in Nat
            BY <1>2, <4>1, <5>1, ChainOfSelected DEF IsAtDepth, DagInv, DagTypeOK
          <6> QED BY <4>2, <5>1, <6>1 DEF IsAtDepth
        <5>3. stored \in chain[sp]
          BY <4>1, <5>2, ChainOfSelected DEF DagInv, ChainShape
        <5> QED BY <1>2, <4>1, <4>2, <5>2, <5>3
      <4> QED BY <4>3, <4>4
    <3> QED BY <3>1, <3>2
  <2> HIDE DEF start
  <2>2. point # Origin /\ IsAtDepth(point, data, depth)
    <3>1. CASE below = {}
      <4>1. point = start
        BY <1>1, <1>6, <3>1
      <4>2. ASSUME NEW y \in chain[sp] \ chain[start] PROVE data.blueScore <= gd[y].blueScore + depth
        <5>1. start \in chain[y]
          BY <1>3, <2>1
        <5>2. ~(gd[y].blueScore < data.blueScore - depth)
          BY <3>1, <5>1 DEF IsChainAncestorOf
        <5> QED BY <1>2, <5>2
      <4>3. gd[start].blueScore \in Nat /\ start # Origin
        BY <1>2, <2>1
      <4> QED BY <2>1, <4>1, <4>2, <4>3 DEF IsAtDepth
    <3>2. CASE below # {}
      <4>1. point = best
        BY <1>1, <1>6, <3>2
      <4>2. best \in below /\ \A y \in below : gd[y].blueScore <= gd[best].blueScore
        <5>1. below \subseteq Known
          BY <1>2
        <5> HIDE DEF below
        <5>2. \E z \in below : \A y \in below : gd[y].blueScore <= gd[z].blueScore
          BY <3>2, <5>1, HighestScore DEF DagInv
        <5> QED BY Zenon, <5>2
      <4> HIDE DEF best
      <4>3. best \in chain[sp] /\ start \in chain[best] /\ gd[best].blueScore < data.blueScore - depth
        BY <4>2 DEF IsChainAncestorOf
      <4>4. ASSUME NEW y \in chain[sp] \ chain[best] PROVE data.blueScore <= gd[y].blueScore + depth
        <5>1. start \in chain[y] /\ gd[best].blueScore < gd[y].blueScore
          BY <1>3, <4>3
        <5>2. gd[y].blueScore \in Nat /\ gd[best].blueScore \in Nat
          BY <1>2, <4>3
        <5>3. ~(gd[y].blueScore < data.blueScore - depth)
          BY <4>2, <5>1, <5>2 DEF IsChainAncestorOf
        <5> QED BY <5>2, <5>3
      <4>5. gd[best].blueScore \in Nat /\ best # Origin
        BY <1>2, <4>3
      <4> QED BY <4>1, <4>3, <4>4, <4>5 DEF IsAtDepth
    <3> QED BY <3>1, <3>2
  <2> QED BY Zenon, <1>6, <2>2 DEF IsDepthPoint, point
<1> QED BY Zenon, <1>4, <1>5, <1>6

(* A depth point is ORIGIN or on the chain. *)
LEMMA PointOnChain ==
  ASSUME DagInv, NEW data, data.selected \in Known, NEW depth, NEW x, IsDepthPoint(x, data, depth)
  PROVE  x = Origin \/ x \in chain[data.selected]
<1>1. Genesis \in chain[data.selected]
  BY DEF DagInv, ChainShape
<1> QED BY Zenon, <1>1 DEF IsDepthPoint, IsAtDepth

(* So is the finality point of any data, that of the virtual block included. *)
LEMMA FinalityPointOnChain ==
  ASSUME DagInv, NEW data, data.selected \in Known
  PROVE  FinalityPoint(data) = Origin \/ FinalityPoint(data) \in chain[data.selected]
<1> DEFINE sp == data.selected
           stored == gd[sp].finality
           start == IF stored = Origin THEN pruningPoint ELSE stored
           below == {x \in chain[sp] : /\ IsChainAncestorOf(start, x)
                                      /\ gd[x].blueScore < data.blueScore - FinalityDepth}
           best == CHOOSE x \in below : \A y \in below : gd[y].blueScore <= gd[x].blueScore
           none == \/ data.blueScore < gd[pruningPoint].blueScore + FinalityDepth
                   \/ ~IsChainAncestorOf(pruningPoint, sp)
<1>1. FinalityPoint(data) = IF data.blueScore < FinalityDepth THEN Genesis ELSE IF none THEN Origin
                            ELSE IF below = {} THEN start ELSE best
  BY Zenon DEF FinalityPoint, BlockAtDepth
<1>2. chain[sp] \subseteq Known /\ Genesis \in chain[sp]
  BY Zenon DEF DagInv, DagTypeOK, ChainShape
<1>3. stored = Origin \/ stored \in chain[sp]
  <2>1. CASE sp = Genesis
    BY <2>1 DEF DagInv, FirstPoints
  <2>2. CASE sp # Genesis
    <3>1. IsDepthPoint(stored, gd[sp], FinalityDepth)
      BY Zenon, <2>2 DEF DagInv, DepthPointsExact
    <3>2. gd[sp].selected \in Known /\ chain[gd[sp].selected] \subseteq chain[sp]
      BY Zenon, <2>2, ChainOfSelected DEF DagInv, ChainShape
    <3> QED BY Zenon, <3>1, <3>2, PointOnChain
  <2> QED BY <2>1, <2>2
<1>4. ~none => start \in chain[sp]
  BY Zenon, <1>3 DEF IsChainAncestorOf
<1>5. below # {} => best \in chain[sp]
  <2>1. below \subseteq Known /\ below \subseteq chain[sp]
    BY Zenon, <1>2
  <2> HIDE DEF below
  <2>2. below # {} => \E z \in below : \A y \in below : gd[y].blueScore <= gd[z].blueScore
    BY <2>1, HighestScore DEF DagInv
  <2> QED BY Zenon, <2>1, <2>2
<1> HIDE DEF none, start, below, best
<1> QED BY Zenon, <1>1, <1>2, <1>4, <1>5

(* The points of virtual data are exact like those of a header. *)
LEMMA VirtualPointIsExact ==
  ASSUME DagInv, NEW data, data.selected \in Known, data.blueScore \in Nat, gd[data.selected].blueScore < data.blueScore
  PROVE  /\ IsDepthPoint(FinalityPoint(data), data, FinalityDepth)
         /\ IsDepthPoint(MergeDepthRoot(data), data, MergeDepth)
<1> DEFINE sp == data.selected
<1>1. sp = Genesis => gd[sp].finality = Origin /\ gd[sp].mergeRoot = Origin
  BY DEF DagInv, FirstPoints
<1>2. sp # Genesis => /\ IsDepthPoint(gd[sp].finality, gd[sp], FinalityDepth)
                      /\ IsDepthPoint(gd[sp].mergeRoot, gd[sp], MergeDepth)
  BY Zenon DEF DagInv, DepthPointsExact
<1> QED BY Zenon, <1>1, <1>2, PointIsExact, DepthAssumption DEF FinalityPoint, MergeDepthRoot

(* What is known of a block stays as it is when others arrive. *)
DagGrows ==
    /\ Known \subseteq Known'
    /\ \A x \in Known : /\ parents'[x] = parents[x] /\ past'[x] = past[x]
                        /\ chain'[x] = chain[x] /\ gd'[x] = gd[x]

(* A finality point stays while headers arrive. *)
LEMMA FinalityPointStays ==
  ASSUME DagInv, DagGrows, pruningPoint' = pruningPoint, NEW data, data.selected \in Known
  PROVE  FinalityPoint(data)' = FinalityPoint(data)
<1> DEFINE sp == data.selected
           start == IF gd[sp].finality = Origin THEN pruningPoint ELSE gd[sp].finality
           none == \/ data.blueScore < gd[pruningPoint].blueScore + FinalityDepth
                   \/ pruningPoint \notin chain[sp]
           below == {x \in chain[sp] : start \in chain[x] /\ gd[x].blueScore < data.blueScore - FinalityDepth}
           Best(x) == x \in below /\ \A y \in below : gd[y].blueScore <= gd[x].blueScore
           one == FinalityPoint(data)
           other == FinalityPoint(data)'
<1>1. one = IF data.blueScore < FinalityDepth THEN Genesis
            ELSE IF none THEN Origin
            ELSE IF below = {} THEN start
            ELSE CHOOSE x \in below : \A y \in below : gd[y].blueScore <= gd[x].blueScore
  BY DEF FinalityPoint, BlockAtDepth, IsChainAncestorOf
<1>2. other = IF data.blueScore < FinalityDepth THEN Genesis
              ELSE IF none' THEN Origin
              ELSE IF below' = {} THEN start'
              ELSE CHOOSE x \in below' : \A y \in below' : gd'[y].blueScore <= gd'[x].blueScore
  BY DEF FinalityPoint, BlockAtDepth, IsChainAncestorOf
<1>3. start' = start /\ chain'[sp] = chain[sp] /\ none' = none
  <2>1. pruningPoint \in Known
    BY DEF DagInv, DagTypeOK
  <2> QED BY <2>1 DEF DagGrows
<1>4. chain[sp] \subseteq Known
  BY DEF DagInv, DagTypeOK
<1>5. \A x \in chain[sp] : chain'[x] = chain[x] /\ gd'[x] = gd[x]
  BY <1>4 DEF DagGrows
<1>6. below' = below
  BY <1>3, <1>5
<1>7. below \subseteq chain[sp] /\ \A x \in below : gd'[x] = gd[x]
  BY <1>5
<1> HIDE DEF below, start, none, one, other
<1>8. ASSUME below # {}, ~(data.blueScore < FinalityDepth), ~none PROVE one = other
  <2>1. \E x : Best(x)
    BY <1>4, <1>7, <1>8, HighestScore DEF DagInv
  <2>2. Best(one)
    BY <1>1, <1>8, <2>1, Zenon
  <2>3. \E x \in below' : \A y \in below' : gd'[y].blueScore <= gd'[x].blueScore
    BY <1>6, <1>7, <2>1
  <2>4. below' # {} /\ ~(data.blueScore < FinalityDepth) /\ ~none'
    BY <1>3, <1>6, <1>8
  <2>5. other \in below' /\ \A y \in below' : gd'[y].blueScore <= gd'[other].blueScore
    BY <1>2, <2>3, <2>4, Zenon
  <2>6. Best(other)
    BY <1>6, <1>7, <2>5
  <2>7. one \in chain[sp] /\ other \in chain[sp] /\ one \in Known /\ other \in Known
    BY <1>4, <1>7, <2>2, <2>6
  <2>8. gd[one].blueScore = gd[other].blueScore /\ gd[one].blueScore \in Nat
    BY <2>2, <2>6, <2>7 DEF DagInv, DagTypeOK
  <2>9. one \in chain[other] \/ other \in chain[one]
    BY <2>7 DEF DagInv, ChainShape
  <2> QED BY <2>7, <2>8, <2>9 DEF DagInv, ChainShape
<1>9. (below = {} \/ none \/ data.blueScore < FinalityDepth) => one = other
  BY Zenon, <1>1, <1>2, <1>3, <1>6
<1> QED BY <1>8, <1>9 DEF one, other

(* A depth point in terms of the stores it is read from: it stays one while *)
(* headers arrive and while the pruning point moves up.                     *)
Fits(ch, g, pp, points, point, data, depth) ==
    IF data.blueScore < depth THEN point = Genesis
    ELSE IF point # Origin
    THEN /\ point \in ch[data.selected]
         /\ \/ g[point].blueScore + depth < data.blueScore
            \/ g[point].blueScore + depth = data.blueScore /\ point \in points
         /\ \A x \in ch[data.selected] \ ch[point] : data.blueScore <= g[x].blueScore + depth
    ELSE pp \notin ch[data.selected] \/ data.blueScore < g[pp].blueScore + depth

LEMMA DepthPointFits ==
  ASSUME NEW point, NEW data, NEW depth
  PROVE  IsDepthPoint(point, data, depth) = Fits(chain, gd, pruningPoint, pastPoints, point, data, depth)
BY Zenon DEF IsDepthPoint, IsAtDepth, Fits

LEMMA FitsStays ==
  ASSUME NEW X, NEW ch, NEW g, NEW ch2, NEW g2, \A x \in X : ch2[x] = ch[x] /\ g2[x] = g[x] /\ ch[x] \subseteq X,
         NEW pp \in X, NEW points, NEW point, NEW data, data.selected \in X, NEW depth,
         Fits(ch, g, pp, points, point, data, depth)
  PROVE  Fits(ch2, g2, pp, points, point, data, depth)
<1>1. ch2[data.selected] = ch[data.selected] /\ g2[pp] = g[pp]
  BY Zenon
<1>2. \A x \in ch[data.selected] : ch2[x] = ch[x] /\ g2[x] = g[x]
  BY Zenon
<1> QED BY Zenon, <1>1, <1>2 DEF Fits

LEMMA AddHeaderKeepsDag ==
  ASSUME DagInv, NEW b \in Block, NEW ps \in SUBSET Known, AddHeader(b, ps)
  PROVE  DagInv' /\ DagGrows /\ Known' = Known \cup {b} /\ b \notin Known
<1> DEFINE d == ConsensusData(ps)
           sp == d.selected
           newData == [selected |-> d.selected, blues |-> d.blues, reds |-> d.reds,
                       sizes |-> d.sizes, blueScore |-> d.blueScore, blueWork |-> d.blueWork,
                       mergeRoot |-> MergeDepthRoot(d), finality |-> FinalityPoint(d)]
<1>1. PICK w \in Works : work' = WithEntry(work, b, w)
  BY Zenon DEF AddHeader
<1>2. /\ b \notin Known /\ ps # {}
      /\ parents' = WithEntry(parents, b, ps)
      /\ past' = WithEntry(past, b, {b} \cup UNION {past[p] : p \in ps})
      /\ chain' = WithEntry(chain, b, {b} \cup chain[sp])
      /\ gd' = WithEntry(gd, b, newData)
      /\ pruningPoint' = pruningPoint /\ pastPoints' = pastPoints
  BY Zenon DEF AddHeader, ValidParents
<1>3. /\ sp \in ps /\ d.blueScore \in Nat /\ gd[sp].blueScore < d.blueScore
      /\ d.blueWork \in Nat /\ gd[sp].blueWork < d.blueWork
      /\ \A q \in ps \ {sp} : Less(q, sp)
  <2>1. /\ FindSelectedParent(ps) \in ps
        /\ \A q \in ps \ {FindSelectedParent(ps)} : Less(q, FindSelectedParent(ps))
    BY Zenon, <1>2, SelectedParentIsMax DEF DagInv
  <2>2. /\ DataShape(d, FindSelectedParent(ps))
        /\ d.blueScore \in Nat /\ gd[FindSelectedParent(ps)].blueScore < d.blueScore
        /\ d.blueWork \in Nat /\ gd[FindSelectedParent(ps)].blueWork < d.blueWork
    BY Zenon, <2>1, ConsensusDataFacts DEF DagInv
  <2> HIDE DEF d
  <2>3. sp = FindSelectedParent(ps)
    BY <2>2 DEF DataShape
  <2> QED BY <2>1, <2>2, <2>3
<1> HIDE DEF d
<1> DEFINE fin == FinalityPoint(d)
           root == MergeDepthRoot(d)
<1>4. sp \in Known /\ chain[sp] \subseteq Known
  BY Zenon, <1>3 DEF DagInv, DagTypeOK
<1>5. IsDepthPoint(fin, d, FinalityDepth) /\ IsDepthPoint(root, d, MergeDepth)
  BY Zenon, <1>3, <1>4, VirtualPointIsExact
<1>6. (fin = Origin \/ fin \in chain[sp]) /\ (root = Origin \/ root \in chain[sp])
  BY Zenon, <1>4, <1>5, PointOnChain
<1>7. /\ newData.selected = sp /\ newData.blueScore = d.blueScore /\ newData.blueWork = d.blueWork
      /\ newData.finality = fin /\ newData.mergeRoot = root
  OBVIOUS
<1> HIDE DEF newData, fin, root
<1> DEFINE newPast == {b} \cup UNION {past[p] : p \in ps}
           newChain == {b} \cup chain[sp]
<1>8. DOMAIN past = Known /\ DOMAIN chain = Known /\ DOMAIN gd = Known /\ DOMAIN work = Known
  BY Zenon DEF DagInv, DagTypeOK
<1>9. /\ Known' = Known \cup {b}
      /\ parents' = [x \in Known' |-> IF x = b THEN ps ELSE parents[x]]
      /\ work' = [x \in Known' |-> IF x = b THEN w ELSE work[x]]
      /\ past' = [x \in Known' |-> IF x = b THEN newPast ELSE past[x]]
      /\ chain' = [x \in Known' |-> IF x = b THEN newChain ELSE chain[x]]
      /\ gd' = [x \in Known' |-> IF x = b THEN newData ELSE gd[x]]
  <2> HIDE DEF newPast, newChain
  <2>1. Known' = Known \cup {b}
    BY Zenon, <1>2 DEF WithEntry, Known
  <2> QED BY Zenon, <1>1, <1>2, <1>8, <2>1 DEF WithEntry, Known, newPast, newChain
<1>10. /\ DagGrows
       /\ b \in Known' /\ parents'[b] = ps /\ work'[b] = w /\ past'[b] = newPast
       /\ chain'[b] = newChain /\ gd'[b] = newData
  <2> HIDE DEF newPast, newChain
  <2> QED BY Zenon, <1>2, <1>9 DEF DagGrows
<1>11. newPast \subseteq Known' /\ newChain \subseteq Known'
  BY <1>3, <1>4, <1>9 DEF DagInv, DagTypeOK
<1>12. newChain \subseteq newPast
  BY <1>3, <1>4 DEF DagInv, PastShape
<1> HIDE DEF sp
<1>13. DagTypeOK'
  <2> HIDE DEF newPast, newChain
  <2>1. Known' \subseteq Block
    BY Zenon, <1>9 DEF DagInv, DagTypeOK
  <2>2. parents' \in [Known' -> SUBSET Known'] /\ work' \in [Known' -> Works \cup {GenesisWork}]
    BY Zenon, <1>9 DEF DagInv, DagTypeOK
  <2>3. past' \in [Known' -> SUBSET Known'] /\ chain' \in [Known' -> SUBSET Known']
    BY <1>9, <1>11 DEF DagInv, DagTypeOK
  <2>4. ASSUME NEW x \in Known'
        PROVE  /\ gd'[x].blueScore \in Nat /\ gd'[x].blueWork \in Nat
               /\ gd'[x].finality \in Known' \cup {Origin} /\ gd'[x].mergeRoot \in Known' \cup {Origin}
    BY Zenon, <1>3, <1>4, <1>6, <1>7, <1>9 DEF DagInv, DagTypeOK
  <2>5. DOMAIN gd' = Known'
    BY Zenon, <1>9
  <2>6. (pruningPoint \in pastPoints /\ pastPoints \subseteq Known)'
    BY Zenon, <1>2, <1>9 DEF DagInv, DagTypeOK
  <2> QED BY <2>1, <2>2, <2>3, <2>4, <2>5, <2>6 DEF DagTypeOK
<1>14. \A x \in Known : chain[x] \subseteq Known /\ past[x] \subseteq Known /\ parents[x] \subseteq Known
  BY DEF DagInv, DagTypeOK
<1>15. ChainShape'
  <2> SUFFICES ASSUME NEW x \in Known'
               PROVE  /\ x \in chain'[x] /\ Genesis \in chain'[x]
                      /\ x # Genesis => /\ gd'[x].selected \in parents'[x]
                                        /\ chain'[x] = {x} \cup chain'[gd'[x].selected]
                      /\ \A a \in chain'[x] : /\ chain'[a] \subseteq chain'[x]
                                              /\ (a # x => gd'[a].blueScore < gd'[x].blueScore)
                      /\ \A a, c \in chain'[x] : a \in chain'[c] \/ c \in chain'[a]
    BY DEF ChainShape
  <2>1. CASE x \in Known
    <3>1. chain'[x] = chain[x] /\ gd'[x] = gd[x] /\ parents'[x] = parents[x]
      BY Zenon, <1>10, <2>1 DEF DagGrows
    <3>2. \A a \in chain[x] : chain'[a] = chain[a] /\ gd'[a] = gd[a]
      BY <1>10, <1>14, <2>1 DEF DagGrows
    <3>3. x # Genesis => /\ gd[x].selected \in parents[x]
                         /\ chain'[gd[x].selected] = chain[gd[x].selected]
      BY Zenon, <1>10, <1>14, <2>1 DEF DagGrows, DagInv, ChainShape
    <3> QED BY <2>1, <3>1, <3>2, <3>3 DEF DagInv, ChainShape
  <2>2. CASE x = b
    <3>1. chain'[x] = {x} \cup chain[sp] /\ gd'[x].selected = sp /\ gd'[x].blueScore = d.blueScore
      BY <1>7, <1>10, <2>2
    <3>2. chain'[sp] = chain[sp] /\ gd'[sp] = gd[sp] /\ sp \in parents'[x]
      BY Zenon, <1>3, <1>4, <1>10, <2>2 DEF DagGrows
    <3>3. \A a \in chain[sp] : chain'[a] = chain[a] /\ gd'[a] = gd[a] /\ a # b
      BY Zenon, <1>2, <1>4, <1>10 DEF DagGrows
    <3>4. \A a \in chain[sp] : gd[a].blueScore < d.blueScore
      <4>1. \A a \in chain[sp] : gd[a].blueScore \in Nat /\ (a # sp => gd[a].blueScore < gd[sp].blueScore)
        BY Zenon, <1>4 DEF DagInv, DagTypeOK, ChainShape
      <4>2. gd[sp].blueScore \in Nat
        BY <1>4 DEF DagInv, DagTypeOK
      <4> QED BY <1>3, <4>1, <4>2
    <3>5. Genesis \in chain[sp] /\ \A a \in chain[sp] : chain[a] \subseteq chain[sp]
      BY Zenon, <1>4 DEF DagInv, ChainShape
    <3>6. \A a, c \in chain[sp] : a \in chain[c] \/ c \in chain[a]
      BY Zenon, <1>4 DEF DagInv, ChainShape
    <3>7. \A a \in chain'[x] : /\ chain'[a] \subseteq chain'[x]
                              /\ (a # x => gd'[a].blueScore < gd'[x].blueScore)
      BY <2>2, <3>1, <3>3, <3>4, <3>5
    <3>8. \A a, c \in chain'[x] : a \in chain'[c] \/ c \in chain'[a]
      BY <2>2, <3>1, <3>3, <3>6
    <3> QED BY Zenon, <3>1, <3>2, <3>5, <3>7, <3>8
  <2> QED BY Zenon, <1>9, <2>1, <2>2
<1>16. PastShape'
  <2> SUFFICES ASSUME NEW x \in Known'
               PROVE  /\ chain'[x] \subseteq past'[x]
                      /\ x \notin parents'[x]
                      /\ past'[x] = {x} \cup UNION {past'[p] : p \in parents'[x]}
                      /\ \A a \in past'[x] : /\ past'[a] \subseteq past'[x]
                                             /\ (a # x => gd'[a].blueWork < gd'[x].blueWork)
    BY Zenon DEF PastShape
  <2>1. CASE x \in Known
    <3>1. chain'[x] = chain[x] /\ gd'[x] = gd[x] /\ parents'[x] = parents[x] /\ past'[x] = past[x]
      BY Zenon, <1>10, <2>1 DEF DagGrows
    <3>2. \A a \in past[x] : past'[a] = past[a] /\ gd'[a] = gd[a]
      BY <1>10, <1>14, <2>1 DEF DagGrows
    <3>3. \A a \in parents[x] : past'[a] = past[a]
      BY <1>10, <1>14, <2>1 DEF DagGrows
    <3>4. UNION {past'[p] : p \in parents[x]} = UNION {past[p] : p \in parents[x]}
      BY Zenon, <3>3
    <3> QED BY Zenon, <2>1, <3>1, <3>2, <3>4 DEF DagInv, PastShape
  <2>2. CASE x = b
    <3>1. past'[x] = {x} \cup UNION {past[p] : p \in ps} /\ gd'[x].blueWork = d.blueWork /\ parents'[x] = ps
      BY <1>7, <1>10, <2>2
    <3>2. \A p \in ps : past'[p] = past[p]
      BY <1>10 DEF DagGrows
    <3>3. UNION {past'[p] : p \in ps} = UNION {past[p] : p \in ps}
      BY <3>2
    <3>4. ASSUME NEW p \in ps, NEW a \in past[p]
          PROVE  /\ a \in Known /\ a # b /\ past'[a] = past[a] /\ past[a] \subseteq past[p]
                 /\ gd'[a] = gd[a] /\ gd[a].blueWork < d.blueWork
      <4>1. a \in Known /\ a # b
        BY <1>2, <1>14
      <4>2. past'[a] = past[a] /\ gd'[a] = gd[a] /\ past[a] \subseteq past[p]
        BY Zenon, <1>10, <4>1 DEF DagGrows, DagInv, PastShape
      <4>3. gd[a].blueWork \in Nat /\ gd[p].blueWork \in Nat /\ gd[sp].blueWork \in Nat
        BY Zenon, <1>4, <4>1 DEF DagInv, DagTypeOK
      <4>4. a = p \/ gd[a].blueWork < gd[p].blueWork
        BY DEF DagInv, PastShape
      <4>5. gd[p].blueWork <= gd[sp].blueWork
        BY <1>3, <4>3 DEF Less
      <4> QED BY <1>3, <4>1, <4>2, <4>3, <4>4, <4>5
    <3>5. \A a \in past'[x] : /\ past'[a] \subseteq past'[x]
                             /\ (a # x => gd'[a].blueWork < gd'[x].blueWork)
      BY <2>2, <3>1, <3>4
    <3> QED BY Zenon, <1>2, <1>10, <1>12, <2>2, <3>1, <3>3, <3>5
  <2> QED BY Zenon, <1>9, <2>1, <2>2
<1>17. FirstPoints'
  BY Zenon, <1>2, <1>10 DEF DagGrows, DagInv, FirstPoints
<1>18. DepthPointsExact'
  <2> HIDE DEF newPast, newChain
  <2>1. \A x \in Known : chain'[x] = chain[x] /\ gd'[x] = gd[x] /\ chain[x] \subseteq Known
    BY Zenon, <1>10, <1>14 DEF DagGrows
  <2>2. pruningPoint \in Known
    BY DEF DagInv, DagTypeOK
  <2>3. ASSUME NEW x \in Known', x # Genesis
        PROVE  /\ Fits(chain', gd', pruningPoint', pastPoints', gd'[x].mergeRoot, gd'[x], MergeDepth)
               /\ Fits(chain', gd', pruningPoint', pastPoints', gd'[x].finality, gd'[x], FinalityDepth)
    <3>1. CASE x \in Known
      <4>1. gd[x].selected \in Known
        BY Zenon, <2>3, <3>1, ChainOfSelected
      <4>2. /\ Fits(chain, gd, pruningPoint, pastPoints, gd[x].mergeRoot, gd[x], MergeDepth)
            /\ Fits(chain, gd, pruningPoint, pastPoints, gd[x].finality, gd[x], FinalityDepth)
        BY Zenon, <2>3, <3>1, DepthPointFits DEF DagInv, DepthPointsExact
      <4> DEFINE Stays(point, data, depth) == Fits(chain, gd, pruningPoint, pastPoints, point, data, depth)
                    => Fits(chain', gd', pruningPoint, pastPoints, point, data, depth)
      <4>3. \A point, data, depth : data.selected \in Known => Stays(point, data, depth)
        BY Zenon, <2>1, <2>2, FitsStays
      <4>4. /\ Fits(chain', gd', pruningPoint, pastPoints, gd[x].mergeRoot, gd[x], MergeDepth)
            /\ Fits(chain', gd', pruningPoint, pastPoints, gd[x].finality, gd[x], FinalityDepth)
        BY Zenon, <4>1, <4>2, <4>3
      <4> QED BY Zenon, <1>2, <2>1, <3>1, <4>4
    <3>2. CASE x = b
      <4>1. /\ Fits(chain, gd, pruningPoint, pastPoints, root, d, MergeDepth)
            /\ Fits(chain, gd, pruningPoint, pastPoints, fin, d, FinalityDepth)
        BY Zenon, <1>5, DepthPointFits
      <4>2. /\ Fits(chain', gd', pruningPoint, pastPoints, root, d, MergeDepth)
            /\ Fits(chain', gd', pruningPoint, pastPoints, fin, d, FinalityDepth)
        BY Zenon, <1>4, <2>1, <2>2, <4>1, FitsStays DEF sp
      <4>3. /\ Fits(chain', gd', pruningPoint, pastPoints, root, newData, MergeDepth)
            /\ Fits(chain', gd', pruningPoint, pastPoints, fin, newData, FinalityDepth)
        BY Zenon, <1>7, <4>2 DEF Fits, sp
      <4> QED BY Zenon, <1>2, <1>7, <1>10, <3>2, <4>3
    <3> QED BY Zenon, <1>9, <3>1, <3>2
  <2>4. DepthPointsExact' = (\A x \in Known' \ {Genesis} :
            /\ Fits(chain', gd', pruningPoint', pastPoints', gd'[x].mergeRoot, gd'[x], MergeDepth)
            /\ Fits(chain', gd', pruningPoint', pastPoints', gd'[x].finality, gd'[x], FinalityDepth))
    BY Zenon DEF DepthPointsExact, IsDepthPoint, IsAtDepth, Fits
  <2> QED BY Zenon, <2>3, <2>4
<1>19. Genesis \in Known' /\ chain'[Genesis] = {Genesis}
  BY Zenon, <1>10 DEF DagGrows, DagInv
<1> QED BY Zenon, <1>2, <1>9, <1>10, <1>13, <1>15, <1>16, <1>17, <1>18, <1>19 DEF DagInv

-----------------------------------------------------------------------------
LEMMA InitDag ==
  ASSUME DagInit
  PROVE  DagInv
<1>1. Known = {Genesis} /\ parents[Genesis] = {} /\ past[Genesis] = {Genesis} /\ chain[Genesis] = {Genesis}
  BY Zenon DEF DagInit, Known
<1>2. /\ gd[Genesis].blueScore = 0 /\ gd[Genesis].blueWork = 0
      /\ gd[Genesis].mergeRoot = Origin /\ gd[Genesis].finality = Origin
      /\ pruningPoint = Genesis /\ pastPoints = {Genesis}
  BY DEF DagInit
<1>3. DagTypeOK
  <2>1. Known \subseteq Block
    BY <1>1, BoundAssumption DEF Block, Genesis
  <2>2. /\ parents \in [Known -> SUBSET Known] /\ work \in [Known -> Works \cup {GenesisWork}]
        /\ past \in [Known -> SUBSET Known] /\ chain \in [Known -> SUBSET Known] /\ DOMAIN gd = Known
    BY Zenon, <1>1 DEF DagInit
  <2> QED BY <1>1, <1>2, <2>1, <2>2 DEF DagTypeOK
<1>4. ChainShape
  BY Zenon, <1>1, <1>2 DEF ChainShape
<1>5. PastShape
  BY <1>1, <1>2 DEF PastShape
<1>6. FirstPoints /\ DepthPointsExact
  BY Zenon, <1>1, <1>2 DEF FirstPoints, DepthPointsExact
<1> QED BY Zenon, <1>1, <1>3, <1>4, <1>5, <1>6 DEF DagInv

LEMMA DagUnchanged ==
  ASSUME DagInv, UNCHANGED dagVars
  PROVE  DagInv'
<1>1. /\ parents' = parents /\ work' = work /\ past' = past /\ chain' = chain /\ gd' = gd
      /\ pruningPoint' = pruningPoint /\ pastPoints' = pastPoints
  BY DEF dagVars
<1>2. Known' = Known
  BY <1>1 DEF Known
<1>3. DagTypeOK' /\ (Genesis \in Known)' /\ (chain[Genesis] = {Genesis})'
  BY Zenon, <1>1, <1>2 DEF DagInv, DagTypeOK
<1>4. ChainShape'
  BY <1>1, <1>2 DEF DagInv, ChainShape
<1>5. PastShape'
  BY <1>1, <1>2 DEF DagInv, PastShape
<1>6. FirstPoints' /\ DepthPointsExact'
  BY Zenon, <1>1, <1>2 DEF DagInv, FirstPoints, DepthPointsExact, IsDepthPoint, IsAtDepth
<1> QED BY <1>3, <1>4, <1>5, <1>6 DEF DagInv

(* Moving the pruning point up takes no point from a block, and gives none  *)
(* a duty it did not have: what the old point was not deep enough for, the  *)
(* new one is not either.                                                   *)
LEMMA AdvanceKeepsDag ==
  ASSUME DagInv, NEW p \in Known, NEW tip \in Known, AdvancePruningPoint(p, tip)
  PROVE  DagInv'
<1>1. /\ parents' = parents /\ work' = work /\ past' = past /\ chain' = chain /\ gd' = gd
      /\ pruningPoint' = p /\ pastPoints' = pastPoints \cup {p} /\ p # pruningPoint /\ pruningPoint \in chain[p]
  BY DEF AdvancePruningPoint, IsChainAncestorOf
<1>2. Known' = Known
  BY <1>1 DEF Known
<1>3. DagTypeOK' /\ (Genesis \in Known)' /\ (chain[Genesis] = {Genesis})'
  <2>1. (pruningPoint \in pastPoints /\ pastPoints \subseteq Known)'
    BY <1>1, <1>2 DEF DagInv, DagTypeOK
  <2> QED BY Zenon, <1>1, <1>2, <2>1 DEF DagInv, DagTypeOK
<1>4. ChainShape'
  BY <1>1, <1>2 DEF DagInv, ChainShape
<1>5. PastShape'
  BY <1>1, <1>2 DEF DagInv, PastShape
<1>6. FirstPoints'
  BY <1>1 DEF DagInv, FirstPoints
<1>7. gd[pruningPoint].blueScore \in Nat /\ gd[p].blueScore \in Nat /\ gd[pruningPoint].blueScore < gd[p].blueScore
  BY <1>1 DEF DagInv, DagTypeOK, ChainShape
<1>8. ASSUME NEW x \in Known \ {Genesis}, NEW depth \in Nat, NEW point,
             Fits(chain, gd, pruningPoint, pastPoints, point, gd[x], depth)
      PROVE  Fits(chain, gd, p, pastPoints \cup {p}, point, gd[x], depth)
  <2>1. gd[x].selected \in Known /\ gd[x].blueScore \in Nat
    BY ChainOfSelected DEF DagInv, DagTypeOK
  <2>2. p \in chain[gd[x].selected] => pruningPoint \in chain[gd[x].selected]
    BY <1>1, <2>1 DEF DagInv, ChainShape
  <2>3. gd[x].blueScore < gd[pruningPoint].blueScore + depth => gd[x].blueScore < gd[p].blueScore + depth
    BY <1>7, <2>1
  <2> QED BY Zenon, <1>8, <2>2, <2>3 DEF Fits
<1>9. DepthPointsExact'
  <2>1. ASSUME NEW x \in Known \ {Genesis}
        PROVE  /\ Fits(chain, gd, p, pastPoints \cup {p}, gd[x].mergeRoot, gd[x], MergeDepth)
               /\ Fits(chain, gd, p, pastPoints \cup {p}, gd[x].finality, gd[x], FinalityDepth)
    BY Zenon, <1>8, DepthPointFits, DepthAssumption DEF DagInv, DepthPointsExact
  <2>2. DepthPointsExact' = (\A x \in Known' \ {Genesis} :
            /\ Fits(chain', gd', pruningPoint', pastPoints', gd'[x].mergeRoot, gd'[x], MergeDepth)
            /\ Fits(chain', gd', pruningPoint', pastPoints', gd'[x].finality, gd'[x], FinalityDepth))
    BY Zenon DEF DepthPointsExact, IsDepthPoint, IsAtDepth, Fits
  <2> QED BY Zenon, <1>1, <1>2, <2>1, <2>2
<1> QED BY Zenon, <1>3, <1>4, <1>5, <1>6, <1>9 DEF DagInv

(* Finality points and merge depth roots are exact, whatever the blocks,   *)
(* the depths, the order of arrival and the moves of the pruning point: a  *)
(* point of calculate_block_at_depth is the last chain block deep enough,  *)
(* and is missing only if the pruning point is not below the block or not  *)
(* deep enough.                                                            *)
THEOREM DepthPoints == DagSpec => []DepthPointsExact
<1>1. DagInit => DagInv
  BY InitDag
<1>2. DagInv /\ [DagNext]_dagVars => DagInv'
  <2> SUFFICES ASSUME DagInv, [DagNext]_dagVars PROVE DagInv'
    OBVIOUS
  <2>1. CASE DagNext
    BY <2>1, AddHeaderKeepsDag, AdvanceKeepsDag DEF DagNext
  <2>2. CASE UNCHANGED dagVars
    BY <2>2, DagUnchanged
  <2> QED BY <2>1, <2>2
<1>3. DagInv => DepthPointsExact
  BY DEF DagInv
<1> QED BY <1>1, <1>2, <1>3, PTL DEF DagSpec

-----------------------------------------------------------------------------
(* The entries of the size of a block's blue anticone on a chain; the      *)
(* highest of them says n.                                                 *)
Holders(b, p) == {x \in chain[b] \ {Genesis} : p \in DOMAIN gd[x].sizes}
Memoized(b, p, n) ==
    \E h \in Holders(b, p) : gd[h].sizes[p] = n /\ \A q \in Holders(b, p) \ {h} : Less(q, h)

(* What the colouring of a mergeset starts from, and what was blue when a  *)
(* block of the mergeset M had its turn, if the blues end up as G.         *)
StartBlues(sp) == BlueSet(sp) \cup {sp}
BluesBefore(G, M, sp, c) == StartBlues(sp) \cup {y \in G \cap M : Less(y, c)}

(* G is the result of the greedy colouring of M: each block of M is in G   *)
(* just when it passes the test against what was blue before it.           *)
IsGreedy(G, M, sp) ==
    /\ StartBlues(sp) \subseteq G /\ G \subseteq StartBlues(sp) \cup M
    /\ \A c \in M : c \in G <=> Joins(BluesBefore(G, M, sp, c), c, BlueSet(sp))

(* The blue sets of the known blocks: k-clusters, greedily coloured, and   *)
(* with the right sizes memoized along the chain.                          *)
BlueInv ==
    \A b \in Known :
        /\ Range(gd[b].blues) \subseteq past[b] \ {b}
        /\ IsKCluster(BlueSet(b))
        /\ \A p \in BlueSet(b) : Memoized(b, p, Cardinality(BlueAnticone(p, BlueSet(b))))
        /\ b # Genesis => IsGreedy(BlueSet(b), UnorderedMergeset(gd[b].selected, parents[b]), gd[b].selected)

-----------------------------------------------------------------------------
(* A block that becomes blue adds one to the blue anticones of the blues   *)
(* in its own anticone, and leaves the others as they are.                 *)
LEMMA AnticoneGrows ==
  ASSUME DagInv, NEW S, S \subseteq Known, NEW c \in Known, c \notin S
  PROVE  /\ BlueAnticone(c, S \cup {c}) = BlueAnticone(c, S)
         /\ \A p \in S : Cardinality(BlueAnticone(p, S)) \in Nat
         /\ Cardinality(BlueAnticone(c, S)) \in Nat
         /\ \A p \in BlueAnticone(c, S) :
              Cardinality(BlueAnticone(p, S \cup {c})) = Cardinality(BlueAnticone(p, S)) + 1
         /\ \A p \in S \ BlueAnticone(c, S) : BlueAnticone(p, S \cup {c}) = BlueAnticone(p, S)
<1>1. \A x : IsFiniteSet(BlueAnticone(x, S)) /\ Cardinality(BlueAnticone(x, S)) \in Nat
  BY KnownFinite DEF DagInv, BlueAnticone
<1>2. c \in past[c]
  BY DEF DagInv, PastShape
<1>3. BlueAnticone(c, S \cup {c}) = BlueAnticone(c, S)
  BY <1>2 DEF BlueAnticone, Anticone, IsDagAncestorOf
<1>4. ASSUME NEW p \in BlueAnticone(c, S)
      PROVE  Cardinality(BlueAnticone(p, S \cup {c})) = Cardinality(BlueAnticone(p, S)) + 1
  <2>1. BlueAnticone(p, S \cup {c}) = BlueAnticone(p, S) \cup {c} /\ c \notin BlueAnticone(p, S)
    BY DEF BlueAnticone, Anticone
  <2> QED BY Zenon, <1>1, <2>1, FS_AddElement
<1>5. ASSUME NEW p \in S \ BlueAnticone(c, S)
      PROVE  BlueAnticone(p, S \cup {c}) = BlueAnticone(p, S)
  BY DEF BlueAnticone, Anticone
<1> QED BY Zenon, <1>1, <1>3, <1>4, <1>5

(* A k-cluster with one more block is one if the block has at most K blues *)
(* in its anticone, none of which has K in its own already.                *)
LEMMA ClusterGrows ==
  ASSUME DagInv, NEW S, S \subseteq Known, NEW c \in Known, c \notin S, IsKCluster(S)
  PROVE  IsKCluster(S \cup {c}) <=>
            /\ Cardinality(BlueAnticone(c, S)) <= K
            /\ \A p \in BlueAnticone(c, S) : Cardinality(BlueAnticone(p, S)) # K
<1> DEFINE n(p) == Cardinality(BlueAnticone(p, S))
           m(p) == Cardinality(BlueAnticone(p, S \cup {c}))
           A == BlueAnticone(c, S)
<1>1. /\ m(c) = n(c) /\ n(c) \in Nat /\ \A p \in S : n(p) \in Nat
      /\ \A p \in A : m(p) = n(p) + 1
      /\ \A p \in S \ A : m(p) = n(p)
  BY Zenon, AnticoneGrows
<1>2. \A p \in S : n(p) <= K
  BY Zenon DEF IsKCluster
<1>3. IsKCluster(S \cup {c}) <=> m(c) <= K /\ \A p \in S : m(p) <= K
  BY Zenon DEF IsKCluster
<1>4. A \subseteq S
  BY DEF BlueAnticone
<1> HIDE DEF n, m, A
<1>5. (\A p \in S : m(p) <= K) <=> \A p \in A : n(p) # K
  BY <1>1, <1>2, <1>4, KAssumption
<1> QED BY <1>1, <1>3, <1>5 DEF n, A

(* The highest of the entries is the one that is found. *)
LEMMA MemoizedIsFound ==
  ASSUME DagInv, NEW b \in Known, NEW p, NEW n, Memoized(b, p, n)
  PROVE  Holders(b, p) # {} /\ gd[FindSelectedParent(Holders(b, p))].sizes[p] = n
<1>1. PICK h \in Holders(b, p) : gd[h].sizes[p] = n /\ \A q \in Holders(b, p) \ {h} : Less(q, h)
  BY DEF Memoized
<1>2. Holders(b, p) \subseteq Known
  BY Zenon DEF Holders, DagInv, DagTypeOK
<1> DEFINE g == FindSelectedParent(Holders(b, p))
<1>3. g \in Holders(b, p) /\ \A q \in Holders(b, p) \ {g} : Less(q, g)
  BY Zenon, <1>1, <1>2, SelectedParentIsMax DEF DagInv
<1> HIDE DEF g
<1>4. g = h
  <2> SUFFICES ASSUME g # h PROVE FALSE
    OBVIOUS
  <2>1. Less(g, h) /\ Less(h, g)
    BY <1>1, <1>3
  <2> QED BY Zenon, <1>1, <1>2, <1>3, <2>1, LessIsOrder DEF DagInv
<1> QED BY <1>1, <1>4 DEF g

(* What blue_anticone_size returns. *)
LEMMA SizeFound ==
  ASSUME DagInv, NEW d, d.selected \in Known, NEW p
  PROVE  /\ p \in DOMAIN d.sizes => BlueAnticoneSize(p, d) = d.sizes[p]
         /\ \A n : p \notin DOMAIN d.sizes /\ Memoized(d.selected, p, n) => BlueAnticoneSize(p, d) = n
         /\ p \notin DOMAIN d.sizes /\ BlueAnticoneSize(p, d) \in Nat => Memoized(d.selected, p, BlueAnticoneSize(p, d))
<1> DEFINE H == Holders(d.selected, p)
<1>1. BlueAnticoneSize(p, d) =
        IF p \in DOMAIN d.sizes THEN d.sizes[p]
        ELSE IF H = {} THEN -1 ELSE gd[FindSelectedParent(H)].sizes[p]
  BY Zenon DEF BlueAnticoneSize, Holders
<1>2. H \subseteq Known
  BY Zenon DEF Holders, DagInv, DagTypeOK
<1>3. ASSUME NEW n, p \notin DOMAIN d.sizes, Memoized(d.selected, p, n) PROVE BlueAnticoneSize(p, d) = n
  BY Zenon, <1>1, <1>3, MemoizedIsFound
<1>4. ASSUME p \notin DOMAIN d.sizes, BlueAnticoneSize(p, d) \in Nat
      PROVE  Memoized(d.selected, p, BlueAnticoneSize(p, d))
  <2>1. H # {}
    BY <1>1, <1>4
  <2>2. FindSelectedParent(H) \in H /\ \A q \in H \ {FindSelectedParent(H)} : Less(q, FindSelectedParent(H))
    BY Zenon, <1>2, <2>1, SelectedParentIsMax DEF DagInv
  <2> QED BY Zenon, <1>1, <1>4, <2>1, <2>2 DEF Memoized
<1> QED BY Zenon, <1>1, <1>3, <1>4

-----------------------------------------------------------------------------
(* A mergeset M of a block with selected parent sp. *)
IsMergeset(M, sp) == sp \in Known /\ M \subseteq Known /\ M \cap past[sp] = {}

(* The turn of block c of the mergeset M, after the blocks u. *)
Turn(c, u, M) == u \subseteq M /\ c \in M \ u /\ \A y \in u : Less(y, c)

(* The blue set so far. *)
Blues(d) == BlueSet(d.selected) \cup Range(d.blues)

(* The consensus data after the blocks u of the mergeset M were coloured. *)
Coloured(d, u, M, sp) ==
    /\ DataShape(d, sp)
    /\ sp \in Range(d.blues) /\ Range(d.blues) \subseteq {sp} \cup u
    /\ Len(d.blues) = Cardinality(Range(d.blues)) /\ Len(d.blues) <= K + 1
    /\ IsKCluster(Blues(d))
    /\ \A p \in Blues(d) : BlueAnticoneSize(p, d) = Cardinality(BlueAnticone(p, Blues(d)))
    /\ \A y \in u : y \in Blues(d) <=> Joins(BluesBefore(Blues(d), M, sp, y), y, BlueSet(sp))

(* The blue set of a block is in its past. *)
LEMMA BlueSetInPast ==
  ASSUME DagInv, BlueInv, NEW b \in Known
  PROVE  BlueSet(b) \subseteq past[b] \ {b} /\ past[b] \subseteq Known /\ b \in past[b]
<1>1. past[b] \subseteq Known /\ chain[b] \subseteq past[b] /\ b \in past[b]
  BY DEF DagInv, DagTypeOK, PastShape
<1>2. ASSUME NEW x \in chain[b] PROVE Range(gd[x].blues) \subseteq past[b] \ {b}
  <2>1. x \in Known /\ x \in past[b]
    BY <1>1
  <2>2. Range(gd[x].blues) \subseteq past[x] \ {x} /\ past[x] \subseteq past[b]
    BY Zenon, <2>1 DEF DagInv, PastShape, BlueInv
  <2>3. x # b => b \notin past[x]
    <3>1. gd[x].blueWork \in Nat /\ gd[b].blueWork \in Nat
      BY <2>1 DEF DagInv, DagTypeOK
    <3>2. x # b => gd[x].blueWork < gd[b].blueWork
      BY <2>1 DEF DagInv, PastShape
    <3>3. x # b /\ b \in past[x] => gd[b].blueWork < gd[x].blueWork
      BY <2>1 DEF DagInv, PastShape
    <3> QED BY <3>1, <3>2, <3>3
  <2> QED BY Zenon, <2>2, <2>3
<1> QED BY <1>1, <1>2 DEF BlueSet

(* The peers that check_blue_candidate visits on its way down the chain    *)
(* are all the blues in the candidate's anticone.                          *)
LEMMA PeersAreAnticone ==
  ASSUME DagInv, BlueInv, NEW M, NEW sp, IsMergeset(M, sp), NEW u, NEW c, Turn(c, u, M),
         NEW d, d.selected = sp, Range(d.blues) \subseteq {sp} \cup u
  PROVE  /\ c \in Known /\ Blues(d) \subseteq Known /\ c \notin Blues(d)
         /\ BluePeers(d, c) = BlueAnticone(c, Blues(d))
<1>1. /\ sp \in Known /\ c \in Known /\ u \subseteq Known /\ c \notin past[sp] /\ c \notin u
      /\ past[sp] \subseteq Known /\ BlueSet(sp) \subseteq past[sp] /\ sp \in past[sp]
  BY Zenon, BlueSetInPast DEF IsMergeset, Turn
<1>2. Blues(d) \subseteq past[sp] \cup u
  BY Zenon, <1>1 DEF Blues
<1>3. ASSUME NEW y \in past[sp] \cup u PROVE c \notin past[y] /\ y # c
  <2>1. CASE y \in past[sp]
    BY Zenon, <1>1, <2>1 DEF DagInv, PastShape
  <2>2. CASE y \in u
    <3>1. Less(y, c) /\ y \in Known /\ y # c
      BY Zenon, <1>1, <2>2 DEF Turn
    <3>2. c \in past[y] => Less(c, y)
      BY Zenon, <1>1, <3>1 DEF DagInv, PastShape, Less
    <3> QED BY Zenon, <1>1, <3>1, <3>2, LessIsOrder DEF DagInv
  <2> QED BY Zenon, <2>1, <2>2
<1>4. ASSUME NEW x \in chain[sp], IsDagAncestorOf(x, c) PROVE Range(gd[x].blues) \subseteq past[c]
  <2>1. x \in Known
    BY Zenon, <1>1 DEF DagInv, DagTypeOK
  <2> QED BY Zenon, <1>1, <1>4, <2>1 DEF IsDagAncestorOf, BlueInv, DagInv, PastShape
<1> DEFINE above == {x \in chain[sp] : ~IsDagAncestorOf(x, c)}
           blues == Range(d.blues) \cup UNION {Range(gd[x].blues) : x \in above}
<1>5. BluePeers(d, c) = {p \in blues : ~IsDagAncestorOf(p, c)}
  BY DEF BluePeers
<1>6. \A p : p \in Blues(d) /\ p \notin past[c] <=> p \in blues /\ p \notin past[c]
  BY <1>4 DEF Blues, BlueSet
<1>7. BluePeers(d, c) = {p \in Blues(d) : p \notin past[c]}
  <2> HIDE DEF blues
  <2> QED BY Zenon, <1>5, <1>6 DEF IsDagAncestorOf
<1>8. BlueAnticone(c, Blues(d)) = {p \in Blues(d) : p \notin past[c]}
  BY Zenon, <1>2, <1>3 DEF BlueAnticone, Anticone, IsDagAncestorOf
<1> QED BY Zenon, <1>1, <1>2, <1>3, <1>7, <1>8

(* check_blue_candidate on the memoized sizes is the test of the greedy    *)
(* colouring.                                                              *)
LEMMA CandidateTest ==
  ASSUME DagInv, BlueInv, NEW M, NEW sp, IsMergeset(M, sp), NEW u, NEW c, Turn(c, u, M),
         NEW d, Coloured(d, u, M, sp)
  PROVE  /\ IsBlueCandidate(d, c) <=> Joins(Blues(d), c, BlueSet(sp))
         /\ BluesBefore(Blues(d), M, sp, c) = Blues(d)
<1>1. /\ d.selected = sp /\ sp \in Range(d.blues) /\ Range(d.blues) \subseteq {sp} \cup u
      /\ Len(d.blues) = Cardinality(Range(d.blues)) /\ Len(d.blues) <= K + 1 /\ Len(d.blues) \in Nat
      /\ IsKCluster(Blues(d))
      /\ \A p \in Blues(d) : BlueAnticoneSize(p, d) = Cardinality(BlueAnticone(p, Blues(d)))
  BY DEF Coloured, DataShape
<1>2. /\ c \in Known /\ Blues(d) \subseteq Known /\ c \notin Blues(d)
      /\ BluePeers(d, c) = BlueAnticone(c, Blues(d))
  BY <1>1, PeersAreAnticone
<1>3. BlueSet(sp) \subseteq past[sp] \ {sp} /\ sp \in past[sp]
  BY Zenon, BlueSetInPast DEF IsMergeset
<1>4. Blues(d) \ BlueSet(sp) = Range(d.blues)
  BY Zenon, <1>1, <1>3 DEF Blues, Turn, IsMergeset
<1>5. Len(d.blues) # K + 1 <=> Cardinality(Blues(d) \ BlueSet(sp)) <= K
  <2>1. Cardinality(Blues(d) \ BlueSet(sp)) = Len(d.blues)
    BY Zenon, <1>1, <1>4
  <2> QED BY <1>1, <2>1, KAssumption
<1>6. BlueAnticone(c, Blues(d)) \subseteq Blues(d)
  BY DEF BlueAnticone
<1>7. IsBlueCandidate(d, c) <=>
        /\ Cardinality(Blues(d) \ BlueSet(sp)) <= K
        /\ Cardinality(BlueAnticone(c, Blues(d))) <= K
        /\ \A p \in BlueAnticone(c, Blues(d)) : Cardinality(BlueAnticone(p, Blues(d))) # K
  BY Zenon, <1>1, <1>2, <1>5, <1>6 DEF IsBlueCandidate
<1>8. IsBlueCandidate(d, c) <=> Joins(Blues(d), c, BlueSet(sp))
  BY Zenon, <1>1, <1>2, <1>7, ClusterGrows DEF Joins
<1>9. BluesBefore(Blues(d), M, sp, c) = Blues(d)
  BY Zenon, <1>1, <1>3 DEF BluesBefore, StartBlues, Blues, Turn, IsMergeset
<1> QED BY <1>8, <1>9

(* What was blue before a block that had its turn does not change. *)
LEMMA BeforeStays ==
  ASSUME DagInv, NEW M, NEW sp, IsMergeset(M, sp), NEW u, NEW c, Turn(c, u, M),
         NEW G, NEW y \in u
  PROVE  BluesBefore(G \cup {c}, M, sp, y) = BluesBefore(G, M, sp, y)
<1>1. Less(y, c) /\ y \in Known /\ c \in Known
  BY DEF Turn, IsMergeset
<1>2. ~Less(c, y)
  BY Zenon, <1>1, LessIsOrder DEF DagInv
<1> QED BY <1>2 DEF BluesBefore

LEMMA RangeAppend ==
  ASSUME NEW S, NEW s \in Seq(S), NEW c \in S
  PROVE  Range(Append(s, c)) = Range(s) \cup {c}
<1> DEFINE t == Append(s, c)
           n == Len(s)
<1>1. n \in Nat /\ DOMAIN s = 1 .. n /\ DOMAIN t = 1 .. n + 1
  OBVIOUS
<1>2. t[n + 1] = c /\ \A i \in 1 .. n : t[i] = s[i]
  OBVIOUS
<1> HIDE DEF t, n
<1>3. ASSUME NEW i \in 1 .. n + 1 PROVE t[i] \in Range(s) \cup {c}
  <2>1. CASE i = n + 1
    BY <1>2, <2>1
  <2>2. CASE i \in 1 .. n
    BY <1>1, <1>2, <2>2 DEF Range
  <2> QED BY <1>1, <2>1, <2>2
<1>4. c \in Range(t)
  <2>1. n + 1 \in DOMAIN t
    BY <1>1
  <2> QED BY <1>2, <2>1 DEF Range
<1>5. ASSUME NEW i \in 1 .. n PROVE s[i] \in Range(t)
  <2>1. i \in DOMAIN t
    BY <1>1
  <2> QED BY <1>2, <2>1 DEF Range
<1> QED BY <1>1, <1>3, <1>4, <1>5 DEF Range, t

(* The consensus data with one more blue. *)
LEMMA BlueAdded ==
  ASSUME NEW d, NEW sp, DataShape(d, sp), NEW c \in Known, c \notin Range(d.blues), c \notin BluePeers(d, c)
  PROVE  LET e == AddBlue(d, c)
         IN  /\ DataShape(e, sp)
             /\ Range(e.blues) = Range(d.blues) \cup {c} /\ Len(e.blues) = Len(d.blues) + 1
             /\ DOMAIN e.sizes = BluePeers(d, c) \cup {c} \cup DOMAIN d.sizes
             /\ e.sizes[c] = Cardinality(BluePeers(d, c))
             /\ \A p \in BluePeers(d, c) : e.sizes[p] = BlueAnticoneSize(p, d) + 1
             /\ \A p \in DOMAIN d.sizes \ (BluePeers(d, c) \cup {c}) : e.sizes[p] = d.sizes[p]
<1> DEFINE P == BluePeers(d, c)
           n(p) == BlueAnticoneSize(p, d)
           m == Cardinality(P)
           D == DOMAIN d.sizes \cup P \cup {c}
           sizes == [p \in D |-> IF p = c THEN m ELSE IF p \in P THEN n(p) + 1 ELSE d.sizes[p]]
           e == AddBlue(d, c)
<1>1. e = [d EXCEPT !.blues = Append(d.blues, c), !.sizes = sizes]
  BY DEF AddBlue
<1>2. /\ DOMAIN sizes = D /\ sizes[c] = m
      /\ \A p \in P : sizes[p] = n(p) + 1
      /\ \A p \in DOMAIN d.sizes \ (P \cup {c}) : sizes[p] = d.sizes[p]
  <2> HIDE DEF n, m
  <2> QED OBVIOUS
<1> HIDE DEF sizes
<1>3. /\ DOMAIN e = DOMAIN d /\ e.selected = d.selected
      /\ e.blues = Append(d.blues, c) /\ e.sizes = sizes
  BY <1>1 DEF DataShape
<1> HIDE DEF e
<1>4. d.blues \in Seq(Known) /\ e.blues \in Seq(Known) /\ e.blues # <<>> /\ Len(e.blues) = Len(d.blues) + 1
  BY <1>3 DEF DataShape
<1>5. Range(e.blues) = Range(d.blues) \cup {c}
  BY <1>3, <1>4, RangeAppend
<1>6. DataShape(e, sp)
  BY <1>3, <1>4 DEF DataShape
<1> QED BY Zenon, <1>2, <1>3, <1>4, <1>5, <1>6 DEF e, P, n, m

(* A candidate that passes the test becomes blue. *)
LEMMA BlueTurn ==
  ASSUME DagInv, BlueInv, NEW M, NEW sp, IsMergeset(M, sp), NEW u, NEW c, Turn(c, u, M),
         NEW d, Coloured(d, u, M, sp), IsBlueCandidate(d, c)
  PROVE  Coloured(AddBlue(d, c), u \cup {c}, M, sp)
<1> DEFINE e == AddBlue(d, c)
           S == Blues(d)
           P == BluePeers(d, c)
           n(p) == Cardinality(BlueAnticone(p, S))
           m(p) == Cardinality(BlueAnticone(p, S \cup {c}))
<1>1. /\ DataShape(d, sp) /\ d.selected = sp /\ sp \in Range(d.blues) /\ Range(d.blues) \subseteq {sp} \cup u
      /\ Len(d.blues) = Cardinality(Range(d.blues)) /\ Len(d.blues) <= K + 1 /\ Len(d.blues) \in Nat
      /\ \A p \in S : BlueAnticoneSize(p, d) = n(p)
      /\ \A y \in u : y \in S <=> Joins(BluesBefore(S, M, sp, y), y, BlueSet(sp))
  <2>1. d.blues \in Seq(Known) /\ d.selected = sp
    BY Zenon DEF Coloured, DataShape
  <2>2. Len(d.blues) \in Nat
    BY <2>1
  <2> QED BY Zenon, <2>1, <2>2 DEF Coloured
<1>2. c \in Known /\ S \subseteq Known /\ c \notin S /\ P = BlueAnticone(c, S)
  BY <1>1, PeersAreAnticone
<1>3. sp \in Known /\ P \subseteq S /\ Range(d.blues) \subseteq S
  BY Zenon, <1>2 DEF IsMergeset, BlueAnticone, Blues
<1>4. Joins(S, c, BlueSet(sp)) /\ BluesBefore(S, M, sp, c) = S
  BY Zenon, CandidateTest
<1>5. /\ DataShape(e, sp)
      /\ Range(e.blues) = Range(d.blues) \cup {c} /\ Len(e.blues) = Len(d.blues) + 1
      /\ DOMAIN e.sizes = P \cup {c} \cup DOMAIN d.sizes
      /\ e.sizes[c] = Cardinality(P)
      /\ \A p \in P : e.sizes[p] = BlueAnticoneSize(p, d) + 1
      /\ \A p \in DOMAIN d.sizes \ (P \cup {c}) : e.sizes[p] = d.sizes[p]
  <2>1. c \notin Range(d.blues) /\ c \notin P
    BY <1>2, <1>3
  <2> HIDE DEF S
  <2> QED BY Zenon, <1>1, <1>2, <2>1, BlueAdded
<1>6. /\ m(c) = n(c) /\ \A p \in S : n(p) \in Nat
      /\ \A p \in P : m(p) = n(p) + 1
      /\ \A p \in S \ P : m(p) = n(p)
  BY Zenon, <1>2, AnticoneGrows
<1> HIDE DEF e
<1>7. e.selected = sp /\ Blues(e) = S \cup {c}
  BY Zenon, <1>1, <1>5 DEF DataShape, Blues
<1> HIDE DEF S, P, n, m
<1>8. Len(e.blues) = Cardinality(Range(e.blues)) /\ Len(e.blues) <= K + 1
  <2>1. IsFiniteSet(Range(d.blues)) /\ c \notin Range(d.blues)
    BY Zenon, <1>2, <1>3, KnownFinite DEF DagInv
  <2>2. Cardinality(Range(d.blues) \cup {c}) = Cardinality(Range(d.blues)) + 1
    BY Zenon, <2>1, FS_AddElement
  <2>3. Len(d.blues) # K + 1
    BY DEF IsBlueCandidate
  <2>4. /\ Len(d.blues) \in Nat /\ Len(d.blues) = Cardinality(Range(d.blues)) /\ Len(d.blues) <= K + 1
        /\ Range(e.blues) = Range(d.blues) \cup {c} /\ Len(e.blues) = Len(d.blues) + 1
    BY Zenon, <1>1, <1>5
  <2> QED BY <2>2, <2>3, <2>4, KAssumption
<1>9. IsKCluster(S \cup {c})
  BY <1>4 DEF Joins
<1>10. ASSUME NEW p \in S \cup {c} PROVE BlueAnticoneSize(p, e) = m(p)
  <2>1. p \in DOMAIN e.sizes => BlueAnticoneSize(p, e) = e.sizes[p]
    BY Zenon, <1>3, <1>7, SizeFound
  <2>2. CASE p = c
    BY Zenon, <1>2, <1>5, <1>6, <2>1, <2>2 DEF n
  <2>3. CASE p \in P
    BY Zenon, <1>1, <1>3, <1>5, <1>6, <2>1, <2>3
  <2>4. CASE p \in S \ P /\ p \in DOMAIN d.sizes
    <3>1. d.sizes[p] = BlueAnticoneSize(p, d)
      BY Zenon, <1>1, <1>3, <2>4, SizeFound
    <3> QED BY Zenon, <1>1, <1>2, <1>5, <1>6, <2>1, <2>4, <3>1
  <2>5. CASE p \in S \ P /\ p \notin DOMAIN d.sizes
    <3>1. Memoized(sp, p, n(p))
      BY Zenon, <1>1, <1>3, <1>6, <2>5, SizeFound
    <3>2. p \notin DOMAIN e.sizes
      BY Zenon, <1>2, <1>5, <2>5
    <3>3. BlueAnticoneSize(p, e) = n(p)
      BY Zenon, <1>3, <1>7, <3>1, <3>2, SizeFound
    <3> QED BY <1>6, <2>5, <3>3
  <2> QED BY <2>2, <2>3, <2>4, <2>5
<1>11. ASSUME NEW y \in u \cup {c}
       PROVE  y \in S \cup {c} <=> Joins(BluesBefore(S \cup {c}, M, sp, y), y, BlueSet(sp))
  <2>1. CASE y \in u
    <3>1. y # c
      BY <2>1 DEF Turn
    <3>2. BluesBefore(S \cup {c}, M, sp, y) = BluesBefore(S, M, sp, y)
      BY <2>1, BeforeStays
    <3>3. y \in S \cup {c} <=> y \in S
      BY <3>1
    <3> QED BY Zenon, <1>1, <2>1, <3>2, <3>3
  <2>2. CASE y = c
    <3>1. ~Less(c, c)
      BY Zenon, <1>2, LessIsOrder DEF DagInv
    <3>2. BluesBefore(S \cup {c}, M, sp, c) = BluesBefore(S, M, sp, c)
      BY <3>1 DEF BluesBefore
    <3> QED BY <1>4, <2>2, <3>2
  <2> QED BY <2>1, <2>2
<1>12. sp \in Range(e.blues) /\ Range(e.blues) \subseteq {sp} \cup (u \cup {c})
  BY Zenon, <1>1, <1>5
<1> QED BY Zenon, <1>5, <1>7, <1>8, <1>9, <1>10, <1>11, <1>12 DEF Coloured, m, e

(* One that does not becomes red. *)
LEMMA RedTurn ==
  ASSUME DagInv, BlueInv, NEW M, NEW sp, IsMergeset(M, sp), NEW u, NEW c, Turn(c, u, M),
         NEW d, Coloured(d, u, M, sp), ~IsBlueCandidate(d, c)
  PROVE  Coloured([d EXCEPT !.reds = Append(@, c)], u \cup {c}, M, sp)
<1> DEFINE e == [d EXCEPT !.reds = Append(@, c)]
<1>1. DataShape(d, sp) /\ Range(d.blues) \subseteq {sp} \cup u
  BY Zenon DEF Coloured
<1>2. DOMAIN e = DOMAIN d /\ e.selected = d.selected /\ e.blues = d.blues /\ e.sizes = d.sizes
  BY <1>1 DEF DataShape
<1> HIDE DEF e
<1>3. DataShape(e, sp) /\ Blues(e) = Blues(d)
  BY Zenon, <1>1, <1>2 DEF DataShape, Blues
<1>4. \A p : BlueAnticoneSize(p, e) = BlueAnticoneSize(p, d)
  BY Zenon, <1>2 DEF BlueAnticoneSize
<1>5. c \notin Blues(d)
  BY Zenon, <1>1, PeersAreAnticone DEF DataShape
<1>6. ~Joins(BluesBefore(Blues(d), M, sp, c), c, BlueSet(sp))
  BY Zenon, CandidateTest
<1>7. \A y \in u \cup {c} : y \in Blues(d) <=> Joins(BluesBefore(Blues(d), M, sp, y), y, BlueSet(sp))
  BY Zenon, <1>5, <1>6 DEF Coloured
<1> QED BY <1>2, <1>3, <1>4, <1>7, Zenon DEF Coloured, e

-----------------------------------------------------------------------------
(* The blocks of M are taken in ascending order: u is a beginning of M. *)
Beginning(u, M) == \A x \in u, y \in M \ u : Less(x, y)

(* Without its largest block a beginning is one, and it is that block's turn. *)
LEMMA LastTurn ==
  ASSUME DagInv, NEW M, M \subseteq Known, NEW u, u \subseteq M, u # {}, Beginning(u, M)
  PROVE  LET c == FindSelectedParent(u)
             v == u \ {c}
         IN  /\ c \in u /\ Turn(c, v, M) /\ Beginning(v, M) /\ u = v \cup {c}
             /\ \A y \in M : Less(y, c) <=> y \in v
<1> DEFINE c == FindSelectedParent(u)
           v == u \ {c}
<1>1. c \in u /\ \A q \in v : Less(q, c)
  BY Zenon, SelectedParentIsMax DEF DagInv
<1> HIDE DEF c
<1>2. Turn(c, v, M) /\ u = v \cup {c}
  BY <1>1 DEF Turn
<1>3. Beginning(v, M)
  BY <1>1 DEF Beginning
<1>4. ASSUME NEW y \in M, Less(y, c) PROVE y \in v
  <2>1. y \in Known /\ c \in Known
    BY <1>1
  <2>2. ~Less(c, y) /\ y # c
    BY Zenon, <1>4, <2>1, LessIsOrder DEF DagInv
  <2> QED BY <1>1, <2>2 DEF Beginning
<1> QED BY Zenon, <1>1, <1>2, <1>3, <1>4 DEF c

(* The colouring of a mergeset, turn by turn. *)
LEMMA ColouredFold ==
  ASSUME DagInv, BlueInv, NEW M, NEW sp, IsMergeset(M, sp), NEW base, Coloured(base, {}, M, sp)
  PROVE  Coloured(FoldInOrder(Colour, base, M), M, M, sp)
<1> DEFINE Pick(u) == FindSelectedParent(u)
           IsFold(g) == g = [u \in SUBSET M |-> IF u = {} THEN base ELSE Colour(g[u \ {Pick(u)}], Pick(u))]
           f == CHOOSE g : IsFold(g)
<1>1. FoldInOrder(Colour, base, M) = f[M]
  BY Zenon DEF FoldInOrder, MapThenFoldSet
<1>2. M \subseteq Known /\ IsFiniteSet(M)
  BY Zenon, KnownFinite DEF IsMergeset, DagInv
<1>3. \A u \in SUBSET M : u # {} => Pick(u) \in u
  BY Zenon, <1>2, SelectedParentIsMax DEF DagInv
<1>4. IsFold(f)
  <2>1. \E g : IsRecursion(g, "colour", base, 0, M)
    BY Zenon, <1>2, <1>3, FoldRecursion DEF FoldPick
  <2>2. \E g : IsFold(g)
    BY <2>1 DEF IsRecursion, FoldStep, FoldPick
  <2> HIDE DEF IsFold
  <2> QED BY <2>2, Zenon
<1> HIDE DEF f
<1> DEFINE bad == {u \in SUBSET M : Beginning(u, M) /\ ~Coloured(f[u], u, M, sp)}
<1>5. ASSUME NEW u \in bad PROVE \E x \in u : u \ {x} \in bad
  <2> DEFINE c == FindSelectedParent(u)
             v == u \ {c}
  <2>1. f[u] = IF u = {} THEN base ELSE Colour(f[v], c)
    BY Zenon, <1>4
  <2>2. u # {} /\ u \subseteq M /\ Beginning(u, M) /\ ~Coloured(f[u], u, M, sp)
    BY Zenon, <2>1
  <2>3. c \in u /\ Turn(c, v, M) /\ Beginning(v, M) /\ u = v \cup {c}
    BY Zenon, <1>2, <2>2, LastTurn
  <2> HIDE DEF c, v
  <2>4. f[u] = Colour(f[v], c)
    BY Zenon, <2>1, <2>2
  <2>5. ~Coloured(f[v], v, M, sp)
    <3> SUFFICES ASSUME Coloured(f[v], v, M, sp) PROVE Coloured(f[u], v \cup {c}, M, sp)
      BY Zenon, <2>2, <2>3
    <3>1. CASE IsBlueCandidate(f[v], c)
      <4>1. f[u] = AddBlue(f[v], c)
        BY <2>4, <3>1 DEF Colour
      <4>2. Coloured(AddBlue(f[v], c), v \cup {c}, M, sp)
        BY Zenon, <2>3, <3>1, BlueTurn
      <4> QED BY Zenon, <4>1, <4>2
    <3>2. CASE ~IsBlueCandidate(f[v], c)
      <4>1. f[u] = [f[v] EXCEPT !.reds = Append(@, c)]
        BY <2>4, <3>2 DEF Colour
      <4> QED BY <2>3, <3>2, <4>1, RedTurn
    <3> QED BY Zenon, <3>1, <3>2
  <2> QED BY Zenon, <2>2, <2>3, <2>5 DEF v
<1>6. bad = {}
  <2> HIDE DEF bad
  <2>1. bad \in SUBSET (SUBSET M)
    BY Zenon DEF bad
  <2> QED BY <1>2, <1>5, <2>1, SubsetInduction
<1>7. Beginning(M, M)
  BY DEF Beginning
<1>8. Coloured(f[M], M, M, sp)
  BY Zenon, <1>6, <1>7
<1> QED BY Zenon, <1>1, <1>8

(* What the greedy colouring, taken turn by turn, ends with. *)
LEMMA GreedyFold ==
  ASSUME DagInv, NEW b \in Known,
         NEW sp, sp = gd[b].selected, NEW M, M = UnorderedMergeset(sp, parents[b]), M \subseteq Known,
         NEW G, IsGreedy(G, M, sp)
  PROVE  ReferenceBlues(b) = G
<1> DEFINE P == BlueSet(sp)
           base == StartBlues(sp)
           Pick(u) == FindSelectedParent(u)
           Step(S, c) == IF Joins(S, c, P) THEN S \cup {c} ELSE S
           IsFold(g) == g = [u \in SUBSET M |-> IF u = {} THEN base ELSE Step(g[u \ {Pick(u)}], Pick(u))]
           f == CHOOSE g : IsFold(g)
<1>1. ReferenceBlues(b) = f[M]
  BY Zenon DEF ReferenceBlues, FoldInOrder, MapThenFoldSet, StartBlues, Joins
<1>2. IsFiniteSet(M)
  BY Zenon, KnownFinite DEF DagInv
<1>3. \A u \in SUBSET M : u # {} => Pick(u) \in u
  BY Zenon, SelectedParentIsMax DEF DagInv
<1>4. IsFold(f)
  <2>1. \A u : FoldPick("join", u) = Pick(u)
    BY Zenon DEF FoldPick
  <2>2. \A S, c : FoldStep("join", S, c, P) = Step(S, c)
    BY DEF FoldStep
  <2> HIDE DEF Pick, Step, base, P
  <2>3. PICK g : IsRecursion(g, "join", base, P, M)
    BY Zenon, <1>2, <1>3, <2>1, FoldRecursion
  <2>4. IsFold(g)
    <3> DEFINE one(u) == IF u = {} THEN base
                         ELSE FoldStep("join", g[u \ {FoldPick("join", u)}], FoldPick("join", u), P)
               other(u) == IF u = {} THEN base ELSE Step(g[u \ {Pick(u)}], Pick(u))
    <3>1. g = [u \in SUBSET M |-> one(u)]
      BY Zenon, <2>3 DEF IsRecursion
    <3>2. \A u \in SUBSET M : one(u) = other(u)
      BY Zenon, <2>1, <2>2
    <3>3. [u \in SUBSET M |-> one(u)] = [u \in SUBSET M |-> other(u)]
      <4> HIDE DEF one, other
      <4> QED BY Zenon, <3>2
    <3> QED BY Zenon, <3>1, <3>3
  <2>5. \E h : IsFold(h)
    BY Zenon, <2>4
  <2> HIDE DEF IsFold
  <2> QED BY <2>5, Zenon
<1> HIDE DEF f, base, P, Step, Pick
<1> DEFINE bad == {u \in SUBSET M : Beginning(u, M) /\ f[u] # base \cup (G \cap u)}
<1>5. ASSUME NEW u \in bad PROVE \E x \in u : u \ {x} \in bad
  <2> DEFINE c == FindSelectedParent(u)
             v == u \ {c}
  <2>1. f[u] = IF u = {} THEN base ELSE Step(f[v], c)
    BY Zenon, <1>4 DEF Pick
  <2>2. u # {} /\ u \subseteq M /\ Beginning(u, M) /\ f[u] # base \cup (G \cap u)
    BY Zenon, <2>1
  <2>3. /\ c \in u /\ Beginning(v, M) /\ u = v \cup {c} /\ v \subseteq M /\ c \in M
        /\ \A y \in M : Less(y, c) <=> y \in v
    BY Zenon, <2>2, LastTurn
  <2> HIDE DEF c, v
  <2>4. f[u] = Step(f[v], c)
    BY Zenon, <2>1, <2>2
  <2>5. BluesBefore(G, M, sp, c) = base \cup (G \cap v)
    BY Zenon, <2>3 DEF BluesBefore, base
  <2>6. c \in G <=> Joins(base \cup (G \cap v), c, P)
    BY Zenon, <2>3, <2>5 DEF IsGreedy, P
  <2>7. f[v] # base \cup (G \cap v)
    <3> SUFFICES ASSUME f[v] = base \cup (G \cap v) PROVE f[u] = base \cup (G \cap u)
      BY Zenon, <2>2
    <3>1. CASE c \in G
      BY Zenon, <2>3, <2>4, <2>6, <3>1 DEF Step
    <3>2. CASE c \notin G
      BY Zenon, <2>3, <2>4, <2>6, <3>2 DEF Step
    <3> QED BY Zenon, <3>1, <3>2
  <2> QED BY Zenon, <2>2, <2>3, <2>7 DEF v
<1>6. bad = {}
  <2> HIDE DEF bad
  <2>1. bad \in SUBSET (SUBSET M)
    BY Zenon DEF bad
  <2>2. \A u \in bad : \E x \in u : u \ {x} \in bad
    BY Zenon, <1>5
  <2> QED BY Zenon, <1>2, <2>1, <2>2, SubsetInduction
<1>7. Beginning(M, M)
  BY DEF Beginning
<1>8. f[M] = base \cup (G \cap M)
  BY Zenon, <1>6, <1>7
<1>9. base \cup (G \cap M) = G
  BY Zenon DEF IsGreedy, base
<1> QED BY Zenon, <1>1, <1>8, <1>9

-----------------------------------------------------------------------------
(* The colouring starts with the selected parent as the only new blue. *)
LEMMA StartColoured ==
  ASSUME DagInv, BlueInv, NEW M, NEW sp, IsMergeset(M, sp),
         NEW new, new = [selected |-> sp, blues |-> <<sp>>, reds |-> <<>>, sizes |-> [p \in {sp} |-> 0],
                         blueScore |-> 0, blueWork |-> 0]
  PROVE  Coloured(new, {}, M, sp)
<1> DEFINE B == BlueSet(sp)
<1>1. sp \in Known /\ B \subseteq past[sp] \ {sp} /\ past[sp] \subseteq Known
  BY Zenon, BlueSetInPast DEF IsMergeset
<1>2. DataShape(new, sp) /\ new.selected = sp /\ Len(new.blues) = 1 /\ DOMAIN new.sizes = {sp} /\ new.sizes[sp] = 0
  BY <1>1 DEF DataShape
<1>3. Range(new.blues) = {sp}
  BY DEF Range
<1>4. Blues(new) = B \cup {sp} /\ Cardinality({sp}) = 1
  BY Zenon, <1>2, <1>3, FS_Singleton DEF Blues
<1>5. BlueAnticone(sp, B) = {} /\ Cardinality({}) = 0
  BY Zenon, <1>1, FS_EmptySet DEF BlueAnticone, Anticone, IsDagAncestorOf
<1>6. IsKCluster(B) /\ B \subseteq Known /\ sp \notin B
  BY Zenon, <1>1 DEF BlueInv
<1>7. IsKCluster(B \cup {sp})
  <2>1. Cardinality(BlueAnticone(sp, B)) <= K
    BY <1>5, KAssumption
  <2> QED BY Zenon, <1>1, <1>5, <1>6, <2>1, ClusterGrows
<1>8. ASSUME NEW p \in B \cup {sp}
      PROVE  BlueAnticoneSize(p, new) = Cardinality(BlueAnticone(p, B \cup {sp}))
  <2>1. CASE p = sp
    <3>1. BlueAnticone(sp, B \cup {sp}) = {}
      BY Zenon, <1>1, <1>5, <1>6, AnticoneGrows
    <3>2. BlueAnticoneSize(sp, new) = 0
      BY Zenon, <1>1, <1>2, SizeFound
    <3> QED BY Zenon, <1>5, <2>1, <3>1, <3>2
  <2>2. CASE p \in B
    <3>1. Memoized(sp, p, Cardinality(BlueAnticone(p, B)))
      BY Zenon, <1>1, <2>2 DEF BlueInv
    <3>2. BlueAnticoneSize(p, new) = Cardinality(BlueAnticone(p, B))
      BY Zenon, <1>1, <1>2, <1>6, <2>2, <3>1, SizeFound
    <3>3. BlueAnticone(p, B \cup {sp}) = BlueAnticone(p, B)
      BY Zenon, <1>1, <1>5, <1>6, <2>2, AnticoneGrows
    <3> QED BY Zenon, <3>2, <3>3
  <2> QED BY Zenon, <2>1, <2>2
<1>9. Len(new.blues) = Cardinality(Range(new.blues)) /\ Len(new.blues) <= K + 1
  <2>1. 1 <= K + 1
    BY KAssumption
  <2> QED BY Zenon, <1>2, <1>3, <1>4, <2>1
<1> QED BY Zenon, <1>2, <1>3, <1>4, <1>7, <1>8, <1>9 DEF Coloured

(* What sahyadri_consensus computes for a set of parents is the greedy     *)
(* colouring.                                                              *)
LEMMA ConsensusDataColoured ==
  ASSUME DagInv, BlueInv, NEW ps, ps \subseteq Known, ps # {},
         NEW sp, sp = FindSelectedParent(ps), NEW M, M = UnorderedMergeset(sp, ps)
  PROVE  IsMergeset(M, sp) /\ Coloured(ConsensusData(ps), M, M, sp)
<1> DEFINE new == [selected |-> sp, blues |-> <<sp>>, reds |-> <<>>, sizes |-> [p \in {sp} |-> 0],
                   blueScore |-> 0, blueWork |-> 0]
           data == FoldInOrder(Colour, new, M)
           d == ConsensusData(ps)
<1>1. sp \in Known
  BY Zenon, SelectedParentIsMax DEF DagInv
<1>2. IsMergeset(M, sp)
  BY <1>1 DEF IsMergeset, UnorderedMergeset, DagInv, DagTypeOK
<1>3. Coloured(new, {}, M, sp)
  BY Zenon, <1>2, StartColoured
<1> HIDE DEF new
<1>4. Coloured(data, M, M, sp)
  BY <1>2, <1>3, ColouredFold
<1> HIDE DEF data
<1>5. d = [data EXCEPT !.blueScore = gd[sp].blueScore + Len(data.blues),
                       !.blueWork = gd[sp].blueWork + AddedBlueWork(data)]
  BY DEF ConsensusData, data, new
<1>6. DOMAIN d = DOMAIN data /\ d.selected = data.selected /\ d.blues = data.blues /\ d.sizes = data.sizes
  BY <1>4, <1>5 DEF Coloured, DataShape
<1> HIDE DEF d
<1>7. DataShape(d, sp) /\ Blues(d) = Blues(data) /\ \A p : BlueAnticoneSize(p, d) = BlueAnticoneSize(p, data)
  <2>1. DataShape(d, sp)
    BY Zenon, <1>4, <1>6 DEF Coloured, DataShape
  <2>2. Blues(d) = Blues(data) /\ \A p : BlueAnticoneSize(p, d) = BlueAnticoneSize(p, data)
    BY Zenon, <1>6 DEF Blues, BlueAnticoneSize
  <2> QED BY <2>1, <2>2
<1>8. Coloured(d, M, M, sp)
  BY Zenon, <1>4, <1>6, <1>7 DEF Coloured
<1> QED BY <1>2, <1>8 DEF d

-----------------------------------------------------------------------------
(* What is said of known blocks stays true when others arrive. *)
LEMMA BluesStay ==
  ASSUME DagInv, DagGrows
  PROVE  /\ \A x \in Known : BlueSet(x)' = BlueSet(x)
         /\ \A x, y \in Known : (Less(x, y)' <=> Less(x, y)) /\ (Anticone(x, y)' <=> Anticone(x, y))
         /\ \A S \in SUBSET Known : IsKCluster(S)' <=> IsKCluster(S)
         /\ \A x \in Known : \A p, n : Memoized(x, p, n) => Memoized(x, p, n)'
<1>1. \A x \in Known : chain[x] \subseteq Known /\ past[x] \subseteq Known
  BY Zenon DEF DagInv, DagTypeOK
<1>2. ASSUME NEW x \in Known PROVE BlueSet(x)' = BlueSet(x)
  <2>1. chain'[x] = chain[x] /\ \A y \in chain[x] : gd'[y] = gd[y]
    BY Zenon, <1>1 DEF DagGrows
  <2> QED BY Zenon, <2>1 DEF BlueSet
<1>3. \A x, y \in Known : (Less(x, y)' <=> Less(x, y)) /\ (Anticone(x, y)' <=> Anticone(x, y))
  BY Zenon DEF DagGrows, Less, Anticone, IsDagAncestorOf
<1>4. ASSUME NEW S \in SUBSET Known PROVE IsKCluster(S)' <=> IsKCluster(S)
  <2>1. ASSUME NEW x \in S PROVE BlueAnticone(x, S)' = BlueAnticone(x, S)
    BY Zenon, <1>3 DEF BlueAnticone
  <2> QED BY Zenon, <2>1 DEF IsKCluster
<1>5. ASSUME NEW x \in Known, NEW p, NEW n, Memoized(x, p, n) PROVE Memoized(x, p, n)'
  <2>1. chain'[x] = chain[x] /\ \A y \in chain[x] : gd'[y] = gd[y]
    BY <1>1 DEF DagGrows
  <2>2. Holders(x, p)' = Holders(x, p) /\ Holders(x, p) \subseteq chain[x]
    BY <2>1 DEF Holders
  <2>3. PICK h \in Holders(x, p) : gd[h].sizes[p] = n /\ \A q \in Holders(x, p) \ {h} : Less(q, h)
    BY <1>5 DEF Memoized
  <2>4. \A q \in Holders(x, p) \ {h} : Less(q, h)'
    BY Zenon, <1>1, <1>3, <2>2, <2>3
  <2> QED BY Zenon, <2>1, <2>2, <2>3, <2>4 DEF Memoized
<1> QED BY Zenon, <1>2, <1>3, <1>4, <1>5

LEMMA GreedyStays ==
  ASSUME DagInv, DagGrows, NEW sp \in Known, NEW M \in SUBSET Known, NEW G \in SUBSET Known, IsGreedy(G, M, sp),
         BlueSet(sp) \subseteq Known
  PROVE  IsGreedy(G, M, sp)'
<1>1. BlueSet(sp)' = BlueSet(sp) /\ StartBlues(sp)' = StartBlues(sp)
  BY Zenon, BluesStay DEF StartBlues
<1>2. ASSUME NEW c \in M
      PROVE  Joins(BluesBefore(G, M, sp, c), c, BlueSet(sp))' <=> Joins(BluesBefore(G, M, sp, c), c, BlueSet(sp))
  <2>1. \A y \in G : Less(y, c)' <=> Less(y, c)
    BY Zenon, BluesStay
  <2>2. BluesBefore(G, M, sp, c)' = BluesBefore(G, M, sp, c)
    BY Zenon, <1>1, <2>1 DEF BluesBefore
  <2>3. BluesBefore(G, M, sp, c) \cup {c} \in SUBSET Known
    BY DEF BluesBefore, StartBlues
  <2> DEFINE S == BluesBefore(G, M, sp, c)
  <2>4. PICK T : T = S
    OBVIOUS
  <2>5. IsKCluster(T \cup {c})' <=> IsKCluster(T \cup {c})
    BY Zenon, <2>3, <2>4, BluesStay
  <2>6. PICK P : P = BlueSet(sp)
    OBVIOUS
  <2>7. Joins(T, c, P)' <=> Joins(T, c, P)
    BY <2>5 DEF Joins
  <2>8. S' = T /\ BlueSet(sp)' = P
    BY Zenon, <1>1, <2>2, <2>4, <2>6
  <2> QED BY Zenon, <2>4, <2>6, <2>7, <2>8 DEF Joins
<1>3. StartBlues(sp)' \subseteq G /\ G \subseteq StartBlues(sp)' \cup M
  BY Zenon, <1>1 DEF IsGreedy
<1> QED BY Zenon, <1>2, <1>3 DEF IsGreedy

(* What AddHeader stores for a block b above ps: d colours the mergeset M. *)
Stored(b, ps, d, sp, M) ==
    /\ IsMergeset(M, sp) /\ Coloured(d, M, M, sp) /\ sp \in ps /\ b \notin Known /\ b # Genesis
    /\ BlueSet(b)' = Blues(d) /\ Blues(d) \subseteq Known
    /\ gd'[b].selected = sp /\ gd'[b].blues = d.blues /\ gd'[b].sizes = d.sizes
    /\ parents'[b] = ps /\ chain'[b] = {b} \cup chain[sp]
    /\ past'[b] = {b} \cup UNION {past[p] : p \in ps}

(* The blue set of the new block. *)
LEMMA NewBlues ==
  ASSUME DagInv, BlueInv, NEW b \in Block, NEW ps \in SUBSET Known, AddHeader(b, ps),
         NEW d, d = ConsensusData(ps), NEW sp, sp = FindSelectedParent(ps),
         NEW M, M = UnorderedMergeset(sp, ps)
  PROVE  Stored(b, ps, d, sp, M)
<1>1. ps # {} /\ b \notin Known
  BY Zenon DEF AddHeader, ValidParents
<1>2. IsMergeset(M, sp) /\ Coloured(d, M, M, sp)
  BY Zenon, <1>1, ConsensusDataColoured
<1>3. sp \in ps /\ d.selected = sp
  BY Zenon, <1>1, <1>2, SelectedParentIsMax DEF DagInv, Coloured, DataShape
<1>4. /\ parents' = WithEntry(parents, b, ps)
      /\ past' = WithEntry(past, b, {b} \cup UNION {past[p] : p \in ps})
      /\ chain' = WithEntry(chain, b, {b} \cup chain[d.selected])
      /\ gd' = WithEntry(gd, b,
                 [selected |-> d.selected, blues |-> d.blues, reds |-> d.reds,
                  sizes |-> d.sizes, blueScore |-> d.blueScore, blueWork |-> d.blueWork,
                  mergeRoot |-> MergeDepthRoot(d), finality |-> FinalityPoint(d)])
  BY Zenon DEF AddHeader
<1>5. /\ gd'[b].selected = sp /\ gd'[b].blues = d.blues /\ gd'[b].sizes = d.sizes
      /\ parents'[b] = ps /\ chain'[b] = {b} \cup chain[sp]
      /\ past'[b] = {b} \cup UNION {past[p] : p \in ps}
  BY Zenon, <1>3, <1>4 DEF WithEntry
<1>6. DagGrows
  BY AddHeaderKeepsDag
<1>7. \A x \in chain[sp] : gd'[x] = gd[x]
  BY Zenon, <1>3, <1>6 DEF DagGrows, DagInv, DagTypeOK
<1>8. BlueSet(b)' = Blues(d)
  BY <1>3, <1>5, <1>7 DEF BlueSet, Blues
<1>9. Blues(d) \subseteq Known
  <2>1. BlueSet(sp) \subseteq Known
    BY Zenon, <1>3, BlueSetInPast
  <2>2. Range(d.blues) \subseteq {sp} \cup M /\ M \subseteq Known
    BY Zenon, <1>2 DEF Coloured, IsMergeset
  <2> QED BY <1>3, <2>1, <2>2 DEF Blues
<1>10. b # Genesis
  BY Zenon, <1>1 DEF DagInv
<1> QED BY Zenon, <1>1, <1>2, <1>3, <1>5, <1>8, <1>9, <1>10 DEF Stored

(* The sizes that the new block finds on its chain are right. *)
LEMMA NewMemo ==
  ASSUME DagInv, BlueInv, NEW b \in Block, NEW ps \in SUBSET Known, AddHeader(b, ps),
         NEW d, d = ConsensusData(ps), NEW p \in Blues(d), NEW n, n = Cardinality(BlueAnticone(p, Blues(d)))
  PROVE  Memoized(b, p, n)'
<1>1. PICK sp : sp = FindSelectedParent(ps)
  OBVIOUS
<1>2. PICK M : M = UnorderedMergeset(sp, ps)
  OBVIOUS
<1>3. /\ IsMergeset(M, sp) /\ Coloured(d, M, M, sp) /\ sp \in ps /\ b \notin Known /\ b # Genesis
      /\ Blues(d) \subseteq Known /\ gd'[b].sizes = d.sizes /\ chain'[b] = {b} \cup chain[sp]
  <2>1. Stored(b, ps, d, sp, M)
    BY Zenon, <1>1, <1>2, NewBlues
  <2> QED BY Zenon, <2>1 DEF Stored
<1>4. DagInv' /\ DagGrows /\ b \in Known'
  BY AddHeaderKeepsDag
<1>5. d.selected = sp /\ BlueAnticoneSize(p, d) = n /\ n \in Nat /\ sp \in Known
  <2>1. BlueAnticone(p, Blues(d)) \subseteq Known
    BY Zenon, <1>3 DEF BlueAnticone
  <2>2. Cardinality(BlueAnticone(p, Blues(d))) \in Nat
    BY Zenon, <2>1, KnownFinite DEF DagInv
  <2> QED BY Zenon, <1>3, <2>2 DEF Coloured, DataShape, IsMergeset
<1>6. Memoized(b, p, n)'
  <2>1. CASE p \in DOMAIN d.sizes
    <3>1. b \in Holders(b, p)' /\ gd'[b].sizes[p] = n
      <4>1. d.sizes[p] = n
        BY Zenon, <1>5, <2>1, SizeFound
      <4> QED BY Zenon, <1>3, <2>1, <4>1 DEF Holders
    <3>2. \A q \in Holders(b, p)' \ {b} : Less(q, b)'
      <4>1. \A q \in chain'[b] \ {b} : gd'[q].blueWork < gd'[b].blueWork
        BY Zenon, <1>4 DEF DagInv, PastShape
      <4> QED BY Zenon, <4>1 DEF Holders, Less
    <3> QED BY Zenon, <3>1, <3>2 DEF Memoized
  <2>2. CASE p \notin DOMAIN d.sizes
    <3>1. Memoized(sp, p, n)'
      <4>1. Memoized(sp, p, n)
        BY Zenon, <1>5, <2>2, SizeFound
      <4> QED BY Zenon, <1>4, <1>5, <4>1, BluesStay
    <3>2. chain'[sp] = chain[sp]
      BY Zenon, <1>4, <1>5 DEF DagGrows
    <3>3. Holders(b, p)' = Holders(sp, p)'
      BY Zenon, <1>3, <2>2, <3>2 DEF Holders
    <3> QED BY Zenon, <3>1, <3>3 DEF Memoized
  <2> QED BY <2>1, <2>2
<1> QED BY <1>6

LEMMA NewGreedy ==
  ASSUME DagInv, BlueInv, NEW b \in Block, NEW ps \in SUBSET Known, AddHeader(b, ps),
         NEW d, d = ConsensusData(ps)
  PROVE  IsGreedy(BlueSet(b), UnorderedMergeset(gd[b].selected, parents[b]), gd[b].selected)'
<1>1. PICK sp : sp = FindSelectedParent(ps)
  OBVIOUS
<1>2. PICK M : M = UnorderedMergeset(sp, ps)
  OBVIOUS
<1>3. /\ IsMergeset(M, sp) /\ Coloured(d, M, M, sp) /\ sp \in ps
      /\ BlueSet(b)' = Blues(d) /\ Blues(d) \subseteq Known
      /\ gd'[b].selected = sp /\ parents'[b] = ps
  <2>1. Stored(b, ps, d, sp, M)
    BY Zenon, <1>1, <1>2, NewBlues
  <2> QED BY Zenon, <2>1 DEF Stored
<1>4. PICK G : G = Blues(d)
  OBVIOUS
<1>5. IsGreedy(G, M, sp)
  <2>1. d.selected = sp /\ sp \in Range(d.blues) /\ Range(d.blues) \subseteq {sp} \cup M
    BY Zenon, <1>3 DEF Coloured, DataShape
  <2>2. StartBlues(sp) \subseteq G /\ G \subseteq StartBlues(sp) \cup M
    BY <1>4, <2>1 DEF StartBlues, Blues
  <2>3. \A c \in M : c \in G <=> Joins(BluesBefore(G, M, sp, c), c, BlueSet(sp))
    BY Zenon, <1>3, <1>4 DEF Coloured
  <2> QED BY <2>2, <2>3 DEF IsGreedy
<1>6. DagGrows
  BY AddHeaderKeepsDag
<1>7. IsGreedy(G, M, sp)'
  <2>1. M \in SUBSET Known /\ G \in SUBSET Known /\ sp \in Known /\ BlueSet(sp) \subseteq Known
    BY Zenon, <1>3, <1>4, BlueSetInPast DEF IsMergeset
  <2> QED BY Zenon, <1>5, <1>6, <2>1, GreedyStays
<1>8. UnorderedMergeset(gd[b].selected, parents[b])' = M
  <2>1. past'[sp] = past[sp] /\ \A p \in ps : past'[p] = past[p]
    BY Zenon, <1>3, <1>6 DEF DagGrows, IsMergeset
  <2>2. UNION {past'[p] : p \in ps} = UNION {past[p] : p \in ps}
    BY Zenon, <2>1
  <2> QED BY Zenon, <1>2, <1>3, <2>1, <2>2 DEF UnorderedMergeset
<1>9. BlueSet(b)' = G /\ (gd[b].selected)' = sp
  BY Zenon, <1>3, <1>4
<1> QED BY Zenon, <1>7, <1>8, <1>9

(* The blue set of a known block stays as it is. *)
LEMMA OldBluesStay ==
  ASSUME DagInv, BlueInv, DagGrows, NEW x \in Known
  PROVE  /\ Range(gd'[x].blues) \subseteq past'[x] \ {x}
         /\ IsKCluster(BlueSet(x))'
         /\ \A p \in BlueSet(x)' : Memoized(x, p, Cardinality(BlueAnticone(p, BlueSet(x))))'
         /\ x # Genesis => IsGreedy(BlueSet(x), UnorderedMergeset(gd[x].selected, parents[x]), gd[x].selected)'
<1>1. gd'[x] = gd[x] /\ past'[x] = past[x] /\ parents'[x] = parents[x]
  BY Zenon DEF DagGrows
<1>2. PICK G : G = BlueSet(x)
  OBVIOUS
<1>3. BlueSet(x)' = G /\ G \in SUBSET Known
  BY Zenon, <1>2, BluesStay, BlueSetInPast
<1>4. Range(gd'[x].blues) \subseteq past'[x] \ {x}
  BY Zenon, <1>1 DEF BlueInv
<1>5. IsKCluster(G)'
  <2>1. IsKCluster(G)
    BY Zenon, <1>2 DEF BlueInv
  <2> QED BY Zenon, <1>3, <2>1, BluesStay
<1>6. ASSUME NEW p \in G PROVE Memoized(x, p, Cardinality(BlueAnticone(p, BlueSet(x))))'
  <2>1. PICK n : n = Cardinality(BlueAnticone(p, G))
    OBVIOUS
  <2>2. Memoized(x, p, n)
    BY Zenon, <1>2, <2>1 DEF BlueInv
  <2>3. Memoized(x, p, n)'
    BY Zenon, <2>2, BluesStay
  <2>4. BlueAnticone(p, BlueSet(x))' = BlueAnticone(p, G)
    BY Zenon, <1>3, BluesStay DEF BlueAnticone
  <2> QED BY Zenon, <2>1, <2>3, <2>4
<1>7. ASSUME x # Genesis
      PROVE  IsGreedy(BlueSet(x), UnorderedMergeset(gd[x].selected, parents[x]), gd[x].selected)'
  <2>1. PICK sp : sp = gd[x].selected
    OBVIOUS
  <2>2. PICK M : M = UnorderedMergeset(sp, parents[x])
    OBVIOUS
  <2>3. IsGreedy(G, M, sp)
    BY Zenon, <1>2, <1>7, <2>1, <2>2 DEF BlueInv
  <2>4. sp \in Known /\ parents[x] \subseteq Known /\ \A p \in Known : past[p] \subseteq Known
    BY Zenon, <1>7, <2>1, ChainOfSelected DEF DagInv, DagTypeOK
  <2>5. M \in SUBSET Known /\ BlueSet(sp) \subseteq Known
    BY Zenon, <2>2, <2>4, BlueSetInPast DEF UnorderedMergeset
  <2>6. IsGreedy(G, M, sp)'
    BY Zenon, <1>3, <2>3, <2>4, <2>5, GreedyStays
  <2>7. UnorderedMergeset(gd[x].selected, parents[x])' = M
    <3>1. past'[sp] = past[sp] /\ \A p \in parents[x] : past'[p] = past[p]
      BY Zenon, <2>4 DEF DagGrows
    <3>2. UNION {past'[p] : p \in parents[x]} = UNION {past[p] : p \in parents[x]}
      BY <3>1
    <3> QED BY Zenon, <1>1, <2>1, <2>2, <3>1, <3>2 DEF UnorderedMergeset
  <2>8. (gd[x].selected)' = sp
    BY Zenon, <1>1, <2>1
  <2> QED BY Zenon, <1>3, <2>6, <2>7, <2>8
<1>8. IsKCluster(BlueSet(x))'
  BY Zenon, <1>3, <1>5
<1>9. \A p \in BlueSet(x)' : Memoized(x, p, Cardinality(BlueAnticone(p, BlueSet(x))))'
  BY Zenon, <1>3, <1>6
<1> QED BY Zenon, <1>4, <1>7, <1>8, <1>9

LEMMA AddHeaderKeepsBlues ==
  ASSUME DagInv, BlueInv, NEW b \in Block, NEW ps \in SUBSET Known, AddHeader(b, ps)
  PROVE  BlueInv'
<1>1. DagInv' /\ DagGrows /\ Known' = Known \cup {b} /\ b \notin Known
  BY AddHeaderKeepsDag
<1>2. ASSUME NEW x \in Known
      PROVE  /\ Range(gd'[x].blues) \subseteq past'[x] \ {x}
             /\ IsKCluster(BlueSet(x))'
             /\ \A p \in BlueSet(x)' : Memoized(x, p, Cardinality(BlueAnticone(p, BlueSet(x))))'
             /\ x # Genesis => IsGreedy(BlueSet(x), UnorderedMergeset(gd[x].selected, parents[x]), gd[x].selected)'
  BY Zenon, <1>1, OldBluesStay
<1>3. /\ Range(gd'[b].blues) \subseteq past'[b] \ {b}
      /\ IsKCluster(BlueSet(b))'
      /\ \A p \in BlueSet(b)' : Memoized(b, p, Cardinality(BlueAnticone(p, BlueSet(b))))'
      /\ IsGreedy(BlueSet(b), UnorderedMergeset(gd[b].selected, parents[b]), gd[b].selected)'
  <2>1. PICK d : d = ConsensusData(ps)
    OBVIOUS
  <2>2. PICK sp : sp = FindSelectedParent(ps)
    OBVIOUS
  <2>3. PICK M : M = UnorderedMergeset(sp, ps)
    OBVIOUS
  <2>4. /\ IsMergeset(M, sp) /\ Coloured(d, M, M, sp) /\ sp \in ps
        /\ BlueSet(b)' = Blues(d) /\ Blues(d) \subseteq Known
        /\ gd'[b].blues = d.blues /\ past'[b] = {b} \cup UNION {past[p] : p \in ps}
    <3>1. Stored(b, ps, d, sp, M)
      BY Zenon, <2>1, <2>2, <2>3, NewBlues
    <3> QED BY Zenon, <3>1 DEF Stored
  <2>5. PICK G : G = Blues(d)
    OBVIOUS
  <2>6. Range(gd'[b].blues) \subseteq past'[b] \ {b}
    <3>1. Range(d.blues) \subseteq {sp} \cup M
      BY Zenon, <2>4 DEF Coloured
    <3>2. M \subseteq UNION {past[p] : p \in ps} /\ sp \in past[sp]
      BY Zenon, <2>3, <2>4, BlueSetInPast DEF UnorderedMergeset, IsMergeset
    <3>3. b \notin M /\ b # sp
      BY Zenon, <1>1, <2>4 DEF IsMergeset
    <3> QED BY Zenon, <2>4, <3>1, <3>2, <3>3
  <2>7. IsKCluster(BlueSet(b))'
    <3>1. IsKCluster(G) /\ G \in SUBSET Known
      BY Zenon, <2>4, <2>5 DEF Coloured
    <3>2. IsKCluster(G)'
      BY Zenon, <1>1, <3>1, BluesStay
    <3> QED BY Zenon, <2>4, <2>5, <3>2
  <2>8. ASSUME NEW p \in G PROVE Memoized(b, p, Cardinality(BlueAnticone(p, BlueSet(b))))'
    <3>1. PICK n : n = Cardinality(BlueAnticone(p, G))
      OBVIOUS
    <3>2. Memoized(b, p, n)'
      BY Zenon, <2>1, <2>5, <3>1, NewMemo
    <3>3. BlueAnticone(p, BlueSet(b))' = BlueAnticone(p, G)
      BY Zenon, <1>1, <2>4, <2>5, BluesStay DEF BlueAnticone
    <3> QED BY Zenon, <3>1, <3>2, <3>3
  <2>9. \A p \in BlueSet(b)' : Memoized(b, p, Cardinality(BlueAnticone(p, BlueSet(b))))'
    BY Zenon, <2>4, <2>5, <2>8
  <2>10. IsGreedy(BlueSet(b), UnorderedMergeset(gd[b].selected, parents[b]), gd[b].selected)'
    BY Zenon, <2>1, NewGreedy
  <2> QED BY Zenon, <2>6, <2>7, <2>9, <2>10
<1> QED BY Zenon, <1>1, <1>2, <1>3 DEF BlueInv

LEMMA InitBlues ==
  ASSUME DagInit
  PROVE  BlueInv
<1>1. Known = {Genesis} /\ chain[Genesis] = {Genesis} /\ gd[Genesis].blues = <<>>
  BY Zenon DEF DagInit, Known
<1>2. Range(gd[Genesis].blues) = {}
  <2>1. DOMAIN gd[Genesis].blues = {}
    BY <1>1
  <2> QED BY Zenon, <2>1 DEF Range
<1>3. BlueSet(Genesis) = {}
  BY Zenon, <1>1, <1>2 DEF BlueSet
<1> QED BY Zenon, <1>1, <1>2, <1>3 DEF BlueInv, IsKCluster

LEMMA BluesUnchanged ==
  ASSUME DagInv, BlueInv, UNCHANGED <<parents, work, past, chain, gd>>
  PROVE  BlueInv'
<1>1. Known' = Known /\ DagGrows
  BY Zenon DEF Known, DagGrows
<1> QED BY Zenon, <1>1, OldBluesStay DEF BlueInv

(* The colouring of every mergeset, from the sizes memoized on the chain,  *)
(* is the greedy one, whatever the DAG, the order of arrival and K; and    *)
(* every blue set is a k-cluster (sahyadri_consensus, check_blue_candidate *)
(* and blue_anticone_size in protocol.rs).                                 *)
THEOREM GreedyColouring == DagSpec => [](ColouringIsGreedy /\ \A b \in Known : IsKCluster(BlueSet(b)))
<1>1. DagInit => DagInv /\ BlueInv
  BY InitDag, InitBlues
<1>2. DagInv /\ BlueInv /\ [DagNext]_dagVars => DagInv' /\ BlueInv'
  <2> SUFFICES ASSUME DagInv, BlueInv, [DagNext]_dagVars PROVE DagInv' /\ BlueInv'
    OBVIOUS
  <2>1. CASE DagNext
    <3>1. CASE \E b \in Block, ps \in SUBSET Known : AddHeader(b, ps)
      BY Zenon, <3>1, AddHeaderKeepsDag, AddHeaderKeepsBlues
    <3>2. CASE \E p, tip \in Known : AdvancePruningPoint(p, tip)
      <4>1. UNCHANGED <<parents, work, past, chain, gd>>
        BY <3>2 DEF AdvancePruningPoint
      <4> QED BY Zenon, <3>2, <4>1, AdvanceKeepsDag, BluesUnchanged
    <3> QED BY Zenon, <2>1, <3>1, <3>2 DEF DagNext
  <2>2. CASE UNCHANGED dagVars
    BY <2>2, DagUnchanged, BluesUnchanged DEF dagVars
  <2> QED BY <2>1, <2>2
<1>3. DagInv /\ BlueInv => ColouringIsGreedy /\ \A b \in Known : IsKCluster(BlueSet(b))
  <2> SUFFICES ASSUME DagInv, BlueInv PROVE ColouringIsGreedy /\ \A b \in Known : IsKCluster(BlueSet(b))
    OBVIOUS
  <2>1. ASSUME NEW b \in Known \ {Genesis} PROVE BlueSet(b) = ReferenceBlues(b)
    <3>1. PICK sp : sp = gd[b].selected
      OBVIOUS
    <3>2. PICK M : M = UnorderedMergeset(sp, parents[b])
      OBVIOUS
    <3>3. M \subseteq Known
      BY <3>2 DEF UnorderedMergeset, DagInv, DagTypeOK
    <3>4. IsGreedy(BlueSet(b), M, sp)
      BY <3>1, <3>2 DEF BlueInv
    <3> QED BY <3>1, <3>2, <3>3, <3>4, GreedyFold
  <2> QED BY <2>1 DEF BlueInv, ColouringIsGreedy
<1> QED BY <1>1, <1>2, <1>3, PTL DEF DagSpec
=============================================================================

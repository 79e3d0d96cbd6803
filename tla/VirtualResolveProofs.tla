------------------------ MODULE VirtualResolveProofs ------------------------
(***************************************************************************)
(* The resolution of the virtual block, for every DAG and every            *)
(* interleaving of the processors: statuses follow the chains, the search  *)
(* succeeds and finds the heaviest valid block, the sink never leaves the  *)
(* finality point, and the selected chain store is the chain of the sink.  *)
(*                                                                         *)
(* VirtInv says what the search has established so far: which blocks it    *)
(* need not look at again, and how much of the walk to the candidate is    *)
(* verified.  StoreInv numbers the selected chain.                         *)
(***************************************************************************)
EXTENDS VirtualResolve, SahyadriConsensusProofs

-----------------------------------------------------------------------------
Statuses == {"HeaderOnly", "StatePendingVerification", "StateValid", "DisqualifiedFromChain"}

SearchTypeOK ==
    /\ DOMAIN search = DOMAIN Resting
    /\ search.phase \in {"idle", "pop", "walk", "pick"}
    /\ search.tips \subseteq Known
    /\ search.heap \subseteq Known
    /\ search.path \in Seq(Known)

StatusInv ==
    /\ status \in [Known -> Statuses]
    /\ tips \subseteq Known
    /\ Sink \in Known /\ pruningPoint = Genesis
    /\ \A t \in tips : HasBody(t)
    /\ \A b \in Known : HasBody(b) => /\ \A a \in past[b] : HasBody(a)
                                      /\ \E t \in tips : b \in past[t]

Under(S) == UNION {past[t] : t \in S}

(* The candidates from which everything still of interest can be reached. *)
Frontier == IF search.phase = "walk" THEN search.heap \cup {search.candidate} ELSE search.heap

(* What a search that is under way was started with. *)
SnapshotInv ==
    search.phase # "idle" =>
        /\ search.finality = VirtualFinalityPoint
        /\ Sink \in Under(search.tips)

(* While it looks for a candidate: every block that could still be the     *)
(* sink is below the frontier, and diff is a verified block.               *)
CoverInv ==
    search.phase \in {"pop", "walk"} =>
        /\ \A h \in search.heap : HasBody(h)
        /\ \A b \in Under(search.tips) : IsChainAncestorOf(search.finality, b)
                => status[b] = "DisqualifiedFromChain" \/ b \in Under(Frontier)
        /\ search.diff \in Known /\ status[search.diff] = "StateValid"

CandidateInv ==
    search.phase \in {"walk", "pick"} =>
        /\ search.candidate \in Known
        /\ IsChainAncestorOf(search.finality, search.candidate)

(* What is left of the walk is a chain that starts above diff, unless one  *)
(* of its blocks was disqualified, and ends in the candidate.              *)
WalkInv ==
    search.phase = "walk" =>
        LET path == search.path IN
        /\ \A h \in search.heap : Less(h, search.candidate)
        /\ path = <<>> => search.diff = search.candidate \/ status[search.candidate] = "DisqualifiedFromChain"
        /\ path # <<>> =>
              /\ path[Len(path)] = search.candidate
              /\ \/ gd[path[1]].selected = search.diff
                 \/ gd[path[1]].selected \in Known /\ status[gd[path[1]].selected] = "DisqualifiedFromChain"
        /\ \A i \in 1 .. Len(path) - 1 : gd[path[i + 1]].selected = path[i]
        /\ \A i \in 1 .. Len(path) : path[i] # Genesis /\ HasBody(path[i])

PickInv == search.phase = "pick" => status[search.candidate] = "StateValid"

VirtInv ==
    /\ SearchTypeOK /\ StatusInv /\ ValidChains /\ SnapshotInv /\ CoverInv
    /\ CandidateInv /\ WalkInv /\ PickInv /\ HeaviestValidSink

-----------------------------------------------------------------------------
(* The selected chain store numbers the chain of the sink. *)
StoreInv == Numbers(chainStore, Sink)

-----------------------------------------------------------------------------
(* The virtual finality point is on the chain of the sink ... *)
LEMMA FinalityOnChain ==
  ASSUME DagInv, Sink \in Known, pruningPoint = Genesis
  PROVE  VirtualFinalityPoint \in chain[Sink]
<1>1. FinalityPoint(virt.data) = Origin \/ FinalityPoint(virt.data) \in chain[Sink]
  BY FinalityPointOnChain DEF Sink
<1>2. Genesis \in chain[Sink]
  BY DEF DagInv, ChainShape
<1> QED BY Zenon, <1>1, <1>2 DEF VirtualFinalityPoint

(* ... and stays while headers arrive. *)
LEMMA FinalityStable ==
  ASSUME DagInv, DagGrows, Sink \in Known, virt' = virt, pruningPoint' = pruningPoint
  PROVE  VirtualFinalityPoint' = VirtualFinalityPoint
<1>1. PICK data : data = virt.data
  OBVIOUS
<1>2. FinalityPoint(data)' = FinalityPoint(data)
  BY <1>1, FinalityPointStays DEF Sink
<1>3. PICK point : point = FinalityPoint(data)
  OBVIOUS
<1>4. VirtualFinalityPoint = IF point # Origin /\ pruningPoint \in chain[point] THEN point ELSE pruningPoint
  BY Zenon, <1>1, <1>3 DEF VirtualFinalityPoint, IsChainAncestorOf
<1>5. virt'.data = data
  BY <1>1
<1>6. FinalityPoint(virt.data)' = FinalityPoint(data)'
  BY <1>5 DEF FinalityPoint, BlockAtDepth, IsChainAncestorOf
<1>7. VirtualFinalityPoint' = IF point # Origin /\ pruningPoint' \in chain'[point] THEN point ELSE pruningPoint'
  BY Zenon, <1>2, <1>3, <1>6 DEF VirtualFinalityPoint, IsChainAncestorOf
<1>8. point # Origin => chain'[point] = chain[point]
  <2>1. point = Origin \/ point \in chain[Sink]
    BY <1>1, <1>3, FinalityPointOnChain DEF Sink
  <2> QED BY <2>1 DEF DagInv, DagTypeOK, DagGrows
<1> QED BY Zenon, <1>4, <1>7, <1>8

-----------------------------------------------------------------------------
(* Replacing a candidate by its parents loses nothing but the candidate:   *)
(* every other block below it that has the finality point on its chain is  *)
(* still below the heap.                                                   *)
LEMMA ReplaceCovers ==
  ASSUME DagInv, NEW c \in Known, NEW H, H \subseteq Known,
         NEW x \in Under(H \cup {c}), x # c, IsChainAncestorOf(search.finality, x)
  PROVE  x \in Under(ReplaceByParents(c, H))
<1>1. CASE \E h \in H : x \in past[h]
  BY <1>1 DEF Under, ReplaceByParents
<1>2. CASE ~\E h \in H : x \in past[h]
  <2>1. x \in past[c]
    BY <1>2 DEF Under
  <2>2. PICK p \in parents[c] : x \in past[p]
    BY <2>1 DEF DagInv, PastShape
  <2>3. p \in Known /\ x \in Known
    BY <2>2 DEF DagInv, DagTypeOK
  <2>4. search.finality \in past[x]
    BY <2>3 DEF IsChainAncestorOf, DagInv, PastShape
  <2>5. search.finality \in past[p]
    BY <2>2, <2>3, <2>4 DEF DagInv, PastShape
  <2>6. \A h \in H : p \notin past[h]
    BY <1>2, <2>2, <2>3 DEF DagInv, PastShape
  <2>7. p \in ReplaceByParents(c, H)
    BY <2>2, <2>5, <2>6 DEF ReplaceByParents, IsDagAncestorOf
  <2> QED BY <2>2, <2>7 DEF Under
<1> QED BY <1>1, <1>2

-----------------------------------------------------------------------------
(* The third part of ValidChains follows from the second. *)
ValidBelow == \A b \in Known : status[b] = "StateValid" => \A a \in chain[b] : status[a] = "StateValid"

LEMMA ValidChainsFrom ==
  ASSUME status[Sink] = "StateValid", ValidBelow
  PROVE  ValidChains
BY DEF ValidChains, ValidBelow, IsChainAncestorOf

LEMMA InitVirt ==
  ASSUME Init
  PROVE  VirtInv /\ StoreInv
<1>1. DagInv
  BY InitDag DEF Init
<1>2. Known = {Genesis} /\ past[Genesis] = {Genesis} /\ chain[Genesis] = {Genesis}
  BY DEF Init, DagInit, Known
<1>3. Sink = Genesis
  <2>1. FindSelectedParent({Genesis}) = Genesis
    BY <1>1, <1>2, SelectedParentIsMax DEF DagInv
  <2>2. DataShape(ConsensusData({Genesis}), FindSelectedParent({Genesis}))
    BY <1>1, <1>2, <2>1, ConsensusDataFacts DEF DagInv
  <2>3. virt.data = ConsensusData({Genesis})
    BY DEF Init
  <2> QED BY <2>1, <2>2, <2>3 DEF DataShape, Sink
<1>4. /\ search = Resting /\ search.phase = "idle" /\ search.tips = {} /\ search.heap = {} /\ search.path = <<>>
  BY DEF Init, Resting
<1>5. SearchTypeOK
  BY <1>4 DEF SearchTypeOK
<1>6. StatusInv
  BY <1>2, <1>3 DEF StatusInv, Init, DagInit, Statuses, HasBody
<1>7. ValidChains
  <2>1. status[Genesis] = "StateValid"
    BY DEF Init
  <2> QED BY <1>2, <1>3, <2>1, ValidChainsFrom DEF ValidBelow
<1>8. SnapshotInv /\ CoverInv /\ CandidateInv /\ WalkInv /\ PickInv /\ HeaviestValidSink
  BY <1>4 DEF SnapshotInv, CoverInv, CandidateInv, WalkInv, PickInv, HeaviestValidSink
<1>9. StoreInv
  <2>1. chainStore = [i \in {0} |-> Genesis]
    BY DEF Init
  <2>2. Cardinality(chain[Genesis]) = 1
    BY <1>2, FS_Singleton
  <2>3. 0 .. Cardinality(chain[Sink]) - 1 = {0}
    BY <1>3, <2>2
  <2>4. DOMAIN chainStore = {0} /\ chainStore[0] = Genesis /\ Cardinality(chain[chainStore[0]]) = 0 + 1
    BY <2>1, <2>2
  <2> QED BY <1>2, <1>3, <2>3, <2>4 DEF StoreInv, Numbers
<1> QED BY <1>5, <1>6, <1>7, <1>8, <1>9 DEF VirtInv

-----------------------------------------------------------------------------
(* A header arrives while the virtual processor is at any step. *)
LEMMA CommitHeaderKeeps ==
  ASSUME DagInv, VirtInv, NEW b \in Block, NEW ps \in SUBSET Known, CommitHeader(b, ps)
  PROVE  VirtInv'
<1>1. DagGrows /\ Known' = Known \cup {b} /\ b \notin Known
  BY AddHeaderKeepsDag DEF CommitHeader
<1>2. /\ search' = search /\ virt' = virt /\ tips' = tips /\ Sink' = Sink /\ Sink \in Known
      /\ pruningPoint' = pruningPoint /\ pruningPoint = Genesis
  BY DEF CommitHeader, AddHeader, virtVars, Sink, VirtInv, StatusInv
<1>3. /\ status' \in [Known' -> Statuses] /\ status'[b] = "HeaderOnly"
      /\ \A x \in Known : status'[x] = status[x]
  <2>1. status' = [x \in Known' |-> IF x = b THEN "HeaderOnly" ELSE status[x]]
    BY <1>1 DEF CommitHeader, WithEntry, VirtInv, StatusInv
  <2> QED BY <1>1, <2>1 DEF Statuses, VirtInv, StatusInv
<1>4. \A x \in Known : /\ past'[x] = past[x] /\ chain'[x] = chain[x] /\ gd'[x] = gd[x]
                       /\ past[x] \subseteq Known /\ chain[x] \subseteq Known
  BY <1>1 DEF DagGrows, DagInv, DagTypeOK
<1>5. VirtualFinalityPoint' = VirtualFinalityPoint
  BY <1>1, <1>2, FinalityStable
<1>6. /\ search.tips \subseteq Known /\ search.heap \subseteq Known /\ search.path \in Seq(Known)
      /\ \A i \in 1 .. Len(search.path) : search.path[i] \in Known
  BY DEF VirtInv, SearchTypeOK
<1>7. SearchTypeOK'
  BY <1>1, <1>2, <1>6 DEF VirtInv, SearchTypeOK, Resting
<1>8. StatusInv'
  <2>1. tips \subseteq Known /\ \A t \in tips : HasBody(t)
    BY DEF VirtInv, StatusInv
  <2>2. \A x \in Known : HasBody(x)' <=> HasBody(x)
    BY <1>3 DEF HasBody
  <2>3. ~HasBody(b)'
    BY <1>3 DEF HasBody
  <2>4. ASSUME NEW x \in Known, HasBody(x)
        PROVE  (\A a \in past'[x] : HasBody(a)') /\ \E t \in tips : x \in past'[t]
    BY <1>4, <2>1, <2>2, <2>4 DEF VirtInv, StatusInv
  <2> QED BY <1>1, <1>2, <1>3, <2>1, <2>2, <2>3, <2>4 DEF StatusInv
<1>9. ValidChains'
  <2>1. status[Sink] = "StateValid" /\ ValidBelow
    BY DEF VirtInv, ValidChains, ValidBelow
  <2>2. status'[Sink'] = "StateValid"
    BY <1>2, <1>3, <2>1
  <2>3. ASSUME NEW x \in Known', status'[x] = "StateValid", NEW a \in chain'[x]
        PROVE  status'[a] = "StateValid"
    <3>1. x \in Known /\ status[x] = "StateValid"
      BY <1>1, <1>3, <2>3
    <3> QED BY <1>3, <1>4, <2>1, <2>3, <3>1 DEF ValidBelow
  <2> QED BY <2>2, <2>3 DEF ValidChains, IsChainAncestorOf
<1>10. /\ Under(search.tips)' = Under(search.tips)
       /\ Under(search.tips) \subseteq Known
  BY <1>2, <1>4, <1>6 DEF Under
<1>11. SnapshotInv'
  BY <1>2, <1>5, <1>10 DEF VirtInv, SnapshotInv
<1>12. ASSUME search.phase \in {"walk", "pick"}
       PROVE  search.candidate \in Known /\ IsChainAncestorOf(search.finality, search.candidate)
  BY <1>12 DEF VirtInv, CandidateInv
<1>13. CoverInv'
  <2> SUFFICES ASSUME search.phase \in {"pop", "walk"} PROVE CoverInv'
    BY <1>2 DEF CoverInv
  <2>1. Frontier' = Frontier /\ Frontier \subseteq Known
    BY <1>2, <1>6, <1>12 DEF Frontier
  <2>2. Under(Frontier)' = Under(Frontier)
    BY <1>4, <2>1 DEF Under
  <2>3. \A h \in search.heap : HasBody(h)'
    BY <1>3, <1>6 DEF HasBody, VirtInv, CoverInv
  <2>4. search.diff \in Known' /\ status'[search.diff] = "StateValid"
    BY <1>1, <1>3 DEF VirtInv, CoverInv
  <2>5. ASSUME NEW x \in Under(search.tips), search.finality \in chain'[x]
        PROVE  status'[x] = "DisqualifiedFromChain" \/ x \in Under(Frontier)
    <3>1. x \in Known /\ IsChainAncestorOf(search.finality, x)
      BY <1>4, <1>10, <2>5 DEF IsChainAncestorOf
    <3> QED BY <1>3, <3>1 DEF VirtInv, CoverInv
  <2> QED BY <1>2, <1>10, <2>2, <2>3, <2>4, <2>5 DEF CoverInv, IsChainAncestorOf
<1>14. CandidateInv'
  BY <1>1, <1>2, <1>4, <1>12 DEF CandidateInv, IsChainAncestorOf
<1>15. WalkInv'
  <2> SUFFICES ASSUME search.phase = "walk" PROVE WalkInv'
    BY Zenon, <1>2 DEF WalkInv
  <2> DEFINE path == search.path
  <2>1. search.candidate \in Known
    BY <1>12
  <2>2. \A h \in search.heap : Less(h, search.candidate)'
    BY Zenon, <1>2, <1>4, <1>6, <2>1 DEF Less, VirtInv, WalkInv
  <2>3. path = <<>> => search.diff = search.candidate \/ status'[search.candidate] = "DisqualifiedFromChain"
    BY Zenon, <1>3, <2>1 DEF VirtInv, WalkInv
  <2>4. path # <<>> =>
              /\ path[Len(path)] = search.candidate
              /\ \/ gd'[path[1]].selected = search.diff
                 \/ gd'[path[1]].selected \in Known' /\ status'[gd'[path[1]].selected] = "DisqualifiedFromChain"
    <3> SUFFICES ASSUME path # <<>>
                 PROVE  /\ path[Len(path)] = search.candidate
                        /\ \/ gd'[path[1]].selected = search.diff
                           \/ /\ gd'[path[1]].selected \in Known'
                              /\ status'[gd'[path[1]].selected] = "DisqualifiedFromChain"
      OBVIOUS
    <3>1. path[1] \in Known
      BY <1>6
    <3> QED BY <1>1, <1>3, <1>4, <3>1 DEF VirtInv, WalkInv
  <2>5. \A i \in 1 .. Len(path) - 1 : gd'[path[i + 1]].selected = path[i]
    <3> SUFFICES ASSUME NEW i \in 1 .. Len(path) - 1 PROVE gd'[path[i + 1]].selected = path[i]
      OBVIOUS
    <3>1. path[i + 1] \in Known
      BY <1>6
    <3> QED BY Zenon, <1>4, <3>1 DEF VirtInv, WalkInv
  <2>6. \A i \in 1 .. Len(path) : path[i] # Genesis /\ HasBody(path[i])'
    BY Zenon, <1>3, <1>6, <1>2 DEF HasBody, VirtInv, WalkInv
  <2> QED BY Zenon, <1>2, <2>2, <2>3, <2>4, <2>5, <2>6 DEF WalkInv
<1>16. PickInv'
  BY <1>2, <1>3, <1>12 DEF VirtInv, PickInv
<1>17. HeaviestValidSink'
  <2> SUFFICES ASSUME search.phase = "pick", NEW x \in Under(search.tips),
                      search.finality \in chain'[x], Less(search.candidate, x)'
               PROVE  status'[x] = "DisqualifiedFromChain"
    BY Zenon, <1>2, <1>10 DEF HeaviestValidSink, Under, IsChainAncestorOf
  <2>1. x \in Known /\ search.candidate \in Known
    BY <1>10, <1>12
  <2>2. search.finality \in chain[x] /\ Less(search.candidate, x)
    BY Zenon, <1>2, <1>4, <2>1 DEF Less
  <2> QED BY Zenon, <1>3, <2>1, <2>2 DEF VirtInv, HeaviestValidSink, Under, IsChainAncestorOf
<1> QED BY <1>7, <1>8, <1>9, <1>11, <1>13, <1>14, <1>15, <1>16, <1>17 DEF VirtInv

-----------------------------------------------------------------------------
(* The steps that add no header. *)
LEMMA CommitBodyKeeps ==
  ASSUME DagInv, VirtInv, NEW b \in Known, CommitBody(b)
  PROVE  VirtInv'
<1>1. /\ parents' = parents /\ past' = past /\ chain' = chain /\ gd' = gd /\ Known' = Known
      /\ search' = search /\ virt' = virt /\ Sink' = Sink /\ pruningPoint' = pruningPoint
      /\ tips' = (tips \ parents[b]) \cup {b}
      /\ status[b] = "HeaderOnly" /\ \A p \in parents[b] : HasBody(p)
  BY DEF CommitBody, dagVars, virtVars, Sink, Known
<1>2. /\ status' \in [Known -> Statuses] /\ status'[b] = "StatePendingVerification"
      /\ \A x \in Known \ {b} : status'[x] = status[x]
  BY Zenon DEF CommitBody, VirtInv, StatusInv, Statuses
<1>3. /\ \A x \in Known : status[x] \in {"StateValid", "DisqualifiedFromChain"} => status'[x] = status[x]
      /\ \A x \in Known : HasBody(x) => HasBody(x)'
      /\ \A x \in Known : status'[x] \in {"StateValid", "DisqualifiedFromChain"} => status'[x] = status[x]
  BY <1>1, <1>2 DEF HasBody
<1>4. \A x \in Known : past[x] \subseteq Known /\ chain[x] \subseteq Known /\ parents[x] \subseteq Known
  BY Zenon DEF DagInv, DagTypeOK
<1>5. SearchTypeOK'
  BY Zenon, <1>1 DEF VirtInv, SearchTypeOK, Resting
<1>6. StatusInv'
  <2>1. tips' \subseteq Known /\ \A t \in tips' : HasBody(t)'
    BY Zenon, <1>1, <1>2, <1>3 DEF VirtInv, StatusInv, HasBody
  <2>2. ASSUME NEW x \in Known, HasBody(x)'
        PROVE  \A a \in past[x] : HasBody(a)'
    <3>1. CASE x = b
      <4>1. past[b] = {b} \cup UNION {past[p] : p \in parents[b]}
        BY DEF DagInv, PastShape
      <4>2. ASSUME NEW p \in parents[b], NEW a \in past[p] PROVE HasBody(a)'
        <5>1. p \in Known /\ HasBody(p) /\ a \in Known
          BY <1>1, <1>4
        <5> QED BY <1>3, <5>1 DEF VirtInv, StatusInv
      <4> QED BY <2>2, <3>1, <4>1, <4>2
    <3>2. CASE x # b
      <4>1. HasBody(x)
        BY <1>2, <2>2, <3>2 DEF HasBody
      <4> QED BY Zenon, <1>3, <1>4, <4>1 DEF VirtInv, StatusInv
    <3> QED BY <3>1, <3>2
  <2>3. ASSUME NEW x \in Known, HasBody(x)'
        PROVE  \E t \in tips' : x \in past[t]
    <3>1. CASE x = b
      BY <1>1, <3>1 DEF DagInv, PastShape
    <3>2. CASE x # b
      <4>1. HasBody(x)
        BY <1>2, <2>3, <3>2 DEF HasBody
      <4>2. PICK t \in tips : x \in past[t]
        BY <4>1 DEF VirtInv, StatusInv
      <4>3. CASE t \in parents[b]
        <5>1. x \in past[b]
          BY <4>2, <4>3 DEF DagInv, PastShape
        <5> QED BY <1>1, <5>1
      <4> QED BY <1>1, <4>2, <4>3
    <3> QED BY <3>1, <3>2
  <2>4. Sink \in Known /\ pruningPoint = Genesis
    BY DEF VirtInv, StatusInv
  <2> QED BY Zenon, <1>1, <1>2, <2>1, <2>2, <2>3, <2>4 DEF StatusInv
<1>7. ValidChains'
  <2>1. status[Sink] = "StateValid" /\ ValidBelow /\ Sink \in Known
    BY DEF VirtInv, ValidChains, ValidBelow, StatusInv
  <2>2. status'[Sink'] = "StateValid"
    BY <1>1, <1>3, <2>1
  <2>3. ASSUME NEW x \in Known', status'[x] = "StateValid", NEW a \in chain'[x]
        PROVE  status'[a] = "StateValid"
    BY <1>1, <1>3, <1>4, <2>1, <2>3 DEF ValidBelow
  <2> QED BY <2>2, <2>3 DEF ValidChains, IsChainAncestorOf
<1>8. VirtualFinalityPoint' = VirtualFinalityPoint /\ Under(search.tips)' = Under(search.tips)
      /\ Under(Frontier)' = Under(Frontier) /\ Under(search.tips) \subseteq Known
  <2>1. VirtualFinalityPoint' = VirtualFinalityPoint
    BY <1>1 DEF VirtualFinalityPoint, FinalityPoint, BlockAtDepth, IsChainAncestorOf
  <2> QED BY <1>1, <1>4, <2>1 DEF Under, Frontier, VirtInv, SearchTypeOK
<1>9. SnapshotInv'
  BY <1>1, <1>8 DEF VirtInv, SnapshotInv
<1>10. CoverInv'
  <2> SUFFICES ASSUME search.phase \in {"pop", "walk"} PROVE CoverInv'
    BY Zenon, <1>1 DEF CoverInv
  <2>1. \A h \in search.heap : HasBody(h)'
    BY Zenon, <1>3 DEF VirtInv, CoverInv, SearchTypeOK
  <2>2. search.diff \in Known /\ status'[search.diff] = "StateValid"
    BY Zenon, <1>3 DEF VirtInv, CoverInv
  <2>3. \A x \in Under(search.tips) : IsChainAncestorOf(search.finality, x)
                => status'[x] = "DisqualifiedFromChain" \/ x \in Under(Frontier)
    BY Zenon, <1>3, <1>8 DEF VirtInv, CoverInv
  <2> QED BY <1>1, <1>8, <2>1, <2>2, <2>3 DEF CoverInv, IsChainAncestorOf
<1>11. CandidateInv'
  BY <1>1 DEF VirtInv, CandidateInv, IsChainAncestorOf
<1>12. WalkInv'
  <2> SUFFICES ASSUME search.phase = "walk" PROVE WalkInv'
    BY Zenon, <1>1 DEF WalkInv
  <2> DEFINE path == search.path
  <2>1. search.candidate \in Known /\ path \in Seq(Known)
    BY DEF VirtInv, CandidateInv, SearchTypeOK
  <2>2. \A i \in 1 .. Len(path) : path[i] # Genesis /\ HasBody(path[i])'
    BY <1>1, <1>3, <2>1 DEF HasBody, VirtInv, WalkInv
  <2>3. \A h \in search.heap : Less(h, search.candidate)'
    BY Zenon, <1>1 DEF VirtInv, WalkInv, Less
  <2>4. path = <<>> => search.diff = search.candidate \/ status'[search.candidate] = "DisqualifiedFromChain"
    BY Zenon, <1>3, <2>1 DEF VirtInv, WalkInv
  <2>5. path # <<>> =>
              /\ path[Len(path)] = search.candidate
              /\ \/ gd[path[1]].selected = search.diff
                 \/ gd[path[1]].selected \in Known /\ status'[gd[path[1]].selected] = "DisqualifiedFromChain"
    <3> SUFFICES ASSUME path # <<>>
                 PROVE  /\ path[Len(path)] = search.candidate
                        /\ \/ gd[path[1]].selected = search.diff
                           \/ /\ gd[path[1]].selected \in Known
                              /\ status'[gd[path[1]].selected] = "DisqualifiedFromChain"
      OBVIOUS
    <3> QED BY Zenon, <1>3 DEF VirtInv, WalkInv
  <2>6. \A i \in 1 .. Len(path) - 1 : gd[path[i + 1]].selected = path[i]
    BY Zenon DEF VirtInv, WalkInv
  <2> QED BY Zenon, <1>1, <2>2, <2>3, <2>4, <2>5, <2>6 DEF WalkInv
<1>13. PickInv'
  BY Zenon, <1>1, <1>3 DEF VirtInv, PickInv, CandidateInv
<1>14. HeaviestValidSink'
  <2> SUFFICES ASSUME search.phase = "pick", NEW x \in Under(search.tips),
                      IsChainAncestorOf(search.finality, x), Less(search.candidate, x)
               PROVE  status'[x] = "DisqualifiedFromChain"
    BY Zenon, <1>1, <1>8 DEF HeaviestValidSink, Under, IsChainAncestorOf, Less
  <2> QED BY Zenon, <1>3, <1>8 DEF VirtInv, HeaviestValidSink, Under
<1> QED BY <1>5, <1>6, <1>7, <1>9, <1>10, <1>11, <1>12, <1>13, <1>14 DEF VirtInv

(* The parts of VirtInv that do not mention the search, when only the      *)
(* search takes a step.                                                    *)
LEMMA StoresUnchanged ==
  ASSUME VirtInv, UNCHANGED <<dagVars, status, tips, virt>>
  PROVE  /\ parents' = parents /\ past' = past /\ chain' = chain /\ gd' = gd /\ Known' = Known
         /\ Sink' = Sink /\ VirtualFinalityPoint' = VirtualFinalityPoint
         /\ StatusInv' /\ ValidChains'
<1>1. /\ parents' = parents /\ past' = past /\ chain' = chain /\ gd' = gd /\ Known' = Known
      /\ Sink' = Sink /\ status' = status /\ tips' = tips /\ virt' = virt /\ pruningPoint' = pruningPoint
  BY DEF dagVars, Known, Sink
<1>2. VirtualFinalityPoint' = VirtualFinalityPoint
  BY <1>1 DEF VirtualFinalityPoint, FinalityPoint, BlockAtDepth, IsChainAncestorOf
<1>3. StatusInv'
  BY <1>1 DEF VirtInv, StatusInv, HasBody
<1>4. ValidChains'
  BY Zenon, <1>1 DEF VirtInv, ValidChains, IsChainAncestorOf
<1> QED BY <1>1, <1>2, <1>3, <1>4

LEMMA StartResolveKeeps ==
  ASSUME DagInv, VirtInv, StartResolve
  PROVE  VirtInv'
<1> DEFINE fp == VirtualFinalityPoint
           snapshot == {t \in tips : IsDagAncestorOf(fp, t)}
<1>1. /\ parents' = parents /\ past' = past /\ chain' = chain /\ gd' = gd /\ Known' = Known
      /\ Sink' = Sink /\ VirtualFinalityPoint' = VirtualFinalityPoint
      /\ StatusInv' /\ ValidChains' /\ status' = status
  BY StoresUnchanged DEF StartResolve, virtVars
<1>2. search' = [Resting EXCEPT !.phase = "pop", !.tips = snapshot, !.heap = snapshot,
                                !.finality = fp, !.diff = Sink]
  BY DEF StartResolve
<1>3. /\ DOMAIN search' = DOMAIN Resting /\ search'.phase = "pop" /\ search'.tips = snapshot
      /\ search'.heap = snapshot /\ search'.finality = fp /\ search'.diff = Sink /\ search'.path = <<>>
  <2> HIDE DEF snapshot, fp
  <2> QED BY <1>2 DEF Resting
<1>4. snapshot \subseteq Known /\ (\A t \in snapshot : HasBody(t)) /\ Sink \in Known /\ status[Sink] = "StateValid"
  BY Zenon DEF VirtInv, StatusInv, ValidChains
<1>5. SearchTypeOK'
  <2>1. DOMAIN Resting' = DOMAIN Resting
    BY Zenon DEF Resting
  <2> QED BY <1>1, <1>3, <1>4, <2>1 DEF SearchTypeOK
<1>6. Sink \in Under(snapshot)
  <2>1. HasBody(Sink)
    BY <1>4 DEF HasBody
  <2>2. PICK t \in tips : Sink \in past[t]
    BY Zenon, <1>4, <2>1 DEF VirtInv, StatusInv
  <2>3. t \in Known
    BY Zenon DEF VirtInv, StatusInv
  <2>4. fp \in past[Sink]
    BY Zenon, <1>4, FinalityOnChain DEF DagInv, PastShape, VirtInv, StatusInv
  <2>5. fp \in past[t]
    BY Zenon, <2>2, <2>3, <2>4 DEF DagInv, PastShape
  <2> HIDE DEF fp
  <2> QED BY <2>2, <2>5 DEF Under, IsDagAncestorOf
<1> HIDE DEF snapshot, fp
<1>7. SnapshotInv'
  BY <1>1, <1>3, <1>6 DEF SnapshotInv, Under, fp
<1>8. Frontier' = snapshot /\ Under(search.tips)' = Under(snapshot) /\ Under(Frontier)' = Under(snapshot)
  BY <1>1, <1>3 DEF Frontier, Under
<1>9. CoverInv'
  BY Zenon, <1>1, <1>3, <1>4, <1>8 DEF CoverInv, HasBody
<1>10. CandidateInv' /\ WalkInv' /\ PickInv' /\ HeaviestValidSink'
  BY Zenon, <1>3 DEF CandidateInv, WalkInv, PickInv, HeaviestValidSink
<1> QED BY <1>1, <1>5, <1>7, <1>9, <1>10 DEF VirtInv

LEMMA PopKeeps ==
  ASSUME DagInv, VirtInv, PopCandidate
  PROVE  VirtInv'
<1> DEFINE c == FindSelectedParent(search.heap)
           rest == search.heap \ {c}
           split == SplitPoint(search.diff, c)
<1>1. /\ parents' = parents /\ past' = past /\ chain' = chain /\ gd' = gd /\ Known' = Known
      /\ Sink' = Sink /\ VirtualFinalityPoint' = VirtualFinalityPoint
      /\ StatusInv' /\ ValidChains' /\ status' = status
  BY StoresUnchanged DEF PopCandidate, virtVars
<1>2. /\ search.phase = "pop" /\ DOMAIN search = DOMAIN Resting /\ search.heap \subseteq Known
      /\ search.tips \subseteq Known /\ search.diff \in Known /\ status[search.diff] = "StateValid"
      /\ search.path \in Seq(Known) /\ \A h \in search.heap : HasBody(h)
  BY DEF PopCandidate, VirtInv, SearchTypeOK, CoverInv
<1>3. /\ c \in search.heap /\ c \in Known /\ rest \subseteq Known /\ search.heap = rest \cup {c}
      /\ \A h \in rest : Less(h, c)
  BY <1>2, SelectedParentIsMax DEF PopCandidate, DagInv
<1>4. /\ search.finality = VirtualFinalityPoint /\ Sink \in Under(search.tips)
      /\ \A x \in Under(search.tips) : IsChainAncestorOf(search.finality, x)
                => status[x] = "DisqualifiedFromChain" \/ x \in Under(search.heap)
  BY Zenon, <1>2 DEF VirtInv, SnapshotInv, CoverInv, Frontier
<1>5. DOMAIN Resting' = DOMAIN Resting
  BY DEF Resting
<1>6. CASE IsChainAncestorOf(search.finality, c) /\ status[c] # "DisqualifiedFromChain"
  <2>1. search' = [search EXCEPT !.phase = "walk", !.heap = rest, !.candidate = c,
                                 !.diff = split, !.path = ChainPath(split, c)]
    BY <1>6 DEF PopCandidate
  <2>2. /\ split \in Known /\ split \in chain[search.diff] /\ split \in chain[c]
    BY Zenon, <1>2, <1>3, SplitIsCommon
  <2> DEFINE s == ChainPath(split, c)
  <2>3. /\ s \in Seq(Known)
        /\ s = <<>> => split = c
        /\ s # <<>> => s[Len(s)] = c /\ gd[s[1]].selected = split
        /\ \A i \in 1 .. Len(s) - 1 : gd[s[i + 1]].selected = s[i]
        /\ \A i \in 1 .. Len(s) : s[i] # Genesis /\ s[i] \in chain[c]
    BY Zenon, <1>3, <2>2, PathIsChain
  <2> HIDE DEF c, rest, split, s
  <2>4. /\ DOMAIN search' = DOMAIN search /\ search'.phase = "walk" /\ search'.heap = rest
        /\ search'.candidate = c /\ search'.diff = split /\ search'.path = s
        /\ search'.tips = search.tips /\ search'.finality = search.finality
    BY <1>2, <2>1 DEF Resting, s
  <2>5. SearchTypeOK'
    BY Zenon, <1>1, <1>2, <1>3, <1>5, <2>3, <2>4 DEF SearchTypeOK
  <2>6. SnapshotInv'
    BY Zenon, <1>1, <1>4, <2>4 DEF SnapshotInv, Under
  <2>7. Frontier' = search.heap /\ Under(search.tips)' = Under(search.tips)
        /\ Under(Frontier)' = Under(search.heap)
    BY Zenon, <1>1, <1>3, <2>4 DEF Frontier, Under
  <2>8. status[split] = "StateValid"
    BY Zenon, <1>2, <2>2 DEF VirtInv, ValidChains
  <2>9. CoverInv'
    BY Zenon, <1>1, <1>2, <1>3, <1>4, <2>2, <2>4, <2>7, <2>8 DEF CoverInv, HasBody, IsChainAncestorOf
  <2>10. CandidateInv'
    BY Zenon, <1>1, <1>3, <1>6, <2>4 DEF CandidateInv, IsChainAncestorOf
  <2>11. \A i \in 1 .. Len(s) : HasBody(s[i])
    <3>1. HasBody(c) /\ chain[c] \subseteq past[c]
      BY Zenon, <1>2, <1>3 DEF DagInv, PastShape
    <3> QED BY Zenon, <1>3, <2>3, <3>1 DEF VirtInv, StatusInv
  <2>12. \A h \in rest : Less(h, search.candidate)'
    BY Zenon, <1>1, <1>3, <2>4 DEF Less
  <2>13. WalkInv'
    <3> SUFFICES /\ \A h \in rest : Less(h, search.candidate)'
                 /\ s = <<>> => split = c
                 /\ s # <<>> => s[Len(s)] = c /\ gd[s[1]].selected = split
                 /\ \A i \in 1 .. Len(s) - 1 : gd[s[i + 1]].selected = s[i]
                 /\ \A i \in 1 .. Len(s) : s[i] # Genesis /\ HasBody(s[i])
      BY Zenon, <1>1, <2>4 DEF WalkInv, HasBody
    <3> QED BY Zenon, <2>3, <2>11, <2>12
  <2>14. PickInv' /\ HeaviestValidSink'
    BY Zenon, <2>4 DEF PickInv, HeaviestValidSink
  <2> QED BY <1>1, <2>5, <2>6, <2>9, <2>10, <2>13, <2>14 DEF VirtInv
<1>7. CASE ~(IsChainAncestorOf(search.finality, c) /\ status[c] # "DisqualifiedFromChain")
  <2> DEFINE new == ReplaceByParents(c, rest)
  <2>1. search' = [search EXCEPT !.heap = new]
    BY <1>7 DEF PopCandidate
  <2>2. \A x \in Under(search.heap) : x # c /\ IsChainAncestorOf(search.finality, x) => x \in Under(new)
    <3> HIDE DEF c, rest
    <3> QED BY Zenon, <1>3, ReplaceCovers
  <2>3. new \subseteq rest \cup parents[c]
    BY Zenon DEF ReplaceByParents
  <2> HIDE DEF c, rest, new
  <2>4. parents[c] \subseteq Known /\ parents[c] \subseteq past[c]
    <3>1. parents[c] \subseteq Known
      BY Zenon, <1>3 DEF DagInv, DagTypeOK
    <3>2. \A p \in parents[c] : p \in past[p]
      BY Zenon, <3>1 DEF DagInv, PastShape, ChainShape
    <3> QED BY <1>3, <3>1, <3>2 DEF DagInv, PastShape
  <2>5. new \subseteq Known /\ \A h \in new : HasBody(h)
    BY Zenon, <1>2, <1>3, <2>3, <2>4 DEF VirtInv, StatusInv
  <2>6. /\ DOMAIN search' = DOMAIN search /\ search'.phase = "pop" /\ search'.heap = new
        /\ search'.diff = search.diff /\ search'.path = search.path
        /\ search'.tips = search.tips /\ search'.finality = search.finality
    BY <1>2, <2>1 DEF Resting
  <2>7. SearchTypeOK'
    BY Zenon, <1>1, <1>2, <1>5, <2>5, <2>6 DEF SearchTypeOK
  <2>8. SnapshotInv'
    BY Zenon, <1>1, <1>4, <2>6 DEF SnapshotInv, Under
  <2>9. Under(search.tips)' = Under(search.tips) /\ Under(Frontier)' = Under(new)
    BY Zenon, <1>1, <2>6 DEF Frontier, Under
  <2>10. ASSUME NEW x \in Under(search.tips), IsChainAncestorOf(search.finality, x)
         PROVE  status[x] = "DisqualifiedFromChain" \/ x \in Under(new)
    BY Zenon, <1>4, <1>7, <2>2, <2>10 DEF c
  <2>11. CoverInv'
    BY Zenon, <1>1, <1>2, <2>5, <2>6, <2>9, <2>10 DEF CoverInv, HasBody, IsChainAncestorOf
  <2>12. CandidateInv' /\ WalkInv' /\ PickInv' /\ HeaviestValidSink'
    BY Zenon, <2>6 DEF CandidateInv, WalkInv, PickInv, HeaviestValidSink
  <2> QED BY <1>1, <2>7, <2>8, <2>11, <2>12 DEF VirtInv
<1> QED BY <1>6, <1>7

(* One block of the walk: it becomes, or stays, valid on top of a valid    *)
(* selected parent; or it becomes, or stays, disqualified.                 *)
LEMMA VerifyKeeps ==
  ASSUME DagInv, VirtInv, VerifyChainBlock
  PROVE  VirtInv'
<1> DEFINE path == search.path
           b == Head(path)
           rest == Tail(path)
<1>1. /\ parents' = parents /\ past' = past /\ chain' = chain /\ gd' = gd /\ Known' = Known
      /\ Sink' = Sink /\ virt' = virt /\ tips' = tips /\ pruningPoint' = pruningPoint
  BY Zenon DEF VerifyChainBlock, dagVars, virtVars, Known, Sink
<1>2. VirtualFinalityPoint' = VirtualFinalityPoint
  BY <1>1 DEF VirtualFinalityPoint, FinalityPoint, BlockAtDepth, IsChainAncestorOf
<1>3. /\ search.phase = "walk" /\ path # <<>> /\ DOMAIN search = DOMAIN Resting
      /\ search.heap \subseteq Known /\ search.tips \subseteq Known /\ path \in Seq(Known)
      /\ search.candidate \in Known /\ search.diff \in Known /\ status[search.diff] = "StateValid"
      /\ status \in [Known -> Statuses] /\ Sink \in Known
  BY Zenon DEF VerifyChainBlock, VirtInv, SearchTypeOK, CandidateInv, CoverInv, StatusInv
<1>4. /\ b = path[1] /\ b \in Known /\ b # Genesis /\ HasBody(b) /\ rest \in Seq(Known)
      /\ Len(rest) = Len(path) - 1 /\ \A i \in 1 .. Len(rest) : rest[i] = path[i + 1]
  <2>1. Len(path) \in Nat \ {0} /\ b = path[1] /\ 1 \in 1 .. Len(path) /\ b \in Known
    BY <1>3
  <2>2. path[1] # Genesis /\ HasBody(path[1])
    BY Zenon, <1>3, <2>1 DEF VirtInv, WalkInv
  <2>3. /\ rest \in Seq(Known) /\ Len(rest) = Len(path) - 1
        /\ \A i \in 1 .. Len(rest) : rest[i] = path[i + 1]
    BY <1>3
  <2> HIDE DEF b, rest
  <2> QED BY Zenon, <2>1, <2>2, <2>3
<1>5. ValidBelow /\ status[Sink] = "StateValid"
  BY DEF VirtInv, ValidChains, ValidBelow
<1>6. gd[b].selected \in chain[b] /\ gd[b].selected \in Known /\ chain[b] = {b} \cup chain[gd[b].selected]
  BY Zenon, <1>4, ChainOfSelected DEF DagInv, ChainShape
<1> DEFINE Passes == /\ gd[b].selected = search.diff /\ status' = [status EXCEPT ![b] = "StateValid"]
                     /\ search' = [search EXCEPT !.path = rest, !.diff = b]
                     /\ status[b] # "DisqualifiedFromChain"
           Fails == /\ status[b] # "StateValid" /\ status' = [status EXCEPT ![b] = "DisqualifiedFromChain"]
                    /\ search' = [search EXCEPT !.path = rest, !.diff = search.diff]
<1>7. Passes \/ Fails
  <2>1. CASE gd[b].selected # search.diff /\ WalkOn(FALSE, "DisqualifiedFromChain")
    <3>1. gd[b].selected = search.diff \/ status[gd[b].selected] = "DisqualifiedFromChain"
      BY Zenon, <1>3, <1>4 DEF VirtInv, WalkInv
    <3>2. status[b] # "StateValid"
      BY Zenon, <1>4, <1>5, <1>6, <2>1, <3>1 DEF ValidBelow
    <3> QED BY <2>1, <3>2 DEF WalkOn
  <2>2. CASE gd[b].selected = search.diff /\ status[b] = "StateValid" /\ WalkOn(TRUE, status[b])
    BY <2>2 DEF WalkOn
  <2>3. CASE gd[b].selected = search.diff /\ status[b] = "DisqualifiedFromChain" /\ WalkOn(FALSE, status[b])
    BY <2>3 DEF WalkOn
  <2>4. CASE /\ gd[b].selected = search.diff /\ status[b] = "StatePendingVerification"
             /\ WalkOn(TRUE, "StateValid")
    BY <2>4 DEF WalkOn
  <2>5. CASE /\ gd[b].selected = search.diff /\ status[b] = "StatePendingVerification"
             /\ WalkOn(FALSE, "DisqualifiedFromChain")
    BY <2>5 DEF WalkOn
  <2> HIDE DEF Passes, Fails
  <2> QED BY Zenon, <2>1, <2>2, <2>3, <2>4, <2>5 DEF VerifyChainBlock
<1> HIDE DEF b, rest
<1>8. /\ status' \in [Known -> Statuses] /\ \A x \in Known \ {b} : status'[x] = status[x]
      /\ status'[b] \in {"StateValid", "DisqualifiedFromChain"}
      /\ status[b] \in {"StateValid", "DisqualifiedFromChain"} => status'[b] = status[b]
  BY <1>3, <1>4, <1>7 DEF Statuses
<1>9. /\ \A x \in Known : status[x] \in {"StateValid", "DisqualifiedFromChain"} => status'[x] = status[x]
      /\ \A x \in Known : HasBody(x)' <=> HasBody(x)
  BY Zenon, <1>4, <1>8 DEF HasBody
<1>10. /\ DOMAIN search' = DOMAIN search /\ search'.phase = "walk" /\ search'.heap = search.heap
       /\ search'.candidate = search.candidate /\ search'.path = rest
       /\ search'.tips = search.tips /\ search'.finality = search.finality
       /\ (Passes => search'.diff = b) /\ (Fails => search'.diff = search.diff)
  BY Zenon, <1>3, <1>7 DEF Resting
<1>11. Passes => status'[b] = "StateValid" /\ gd[b].selected = search.diff
  BY <1>3, <1>4
<1>12. Fails => status'[b] = "DisqualifiedFromChain" /\ status[b] # "StateValid"
  BY <1>3, <1>4
<1> HIDE DEF Passes, Fails
<1>13. \A x \in Known : past[x] \subseteq Known /\ chain[x] \subseteq Known
  BY Zenon DEF DagInv, DagTypeOK
<1>14. SearchTypeOK'
  <2>1. DOMAIN Resting' = DOMAIN Resting
    BY DEF Resting
  <2> QED BY Zenon, <1>1, <1>3, <1>4, <1>10, <2>1 DEF SearchTypeOK
<1>15. StatusInv'
  <2>1. tips \subseteq Known /\ (\A t \in tips : HasBody(t)')
    BY Zenon, <1>9 DEF VirtInv, StatusInv
  <2>2. ASSUME NEW x \in Known, HasBody(x)'
        PROVE  (\A a \in past[x] : HasBody(a)') /\ \E t \in tips : x \in past[t]
    BY Zenon, <1>9, <1>13, <2>2 DEF VirtInv, StatusInv
  <2>3. pruningPoint' = Genesis
    BY Zenon, <1>1 DEF VirtInv, StatusInv
  <2> QED BY Zenon, <1>1, <1>3, <1>8, <2>1, <2>2, <2>3 DEF StatusInv
<1>16. ValidChains'
  <2>1. status'[Sink'] = "StateValid"
    BY Zenon, <1>1, <1>3, <1>5, <1>9
  <2>2. ASSUME NEW x \in Known, status'[x] = "StateValid", NEW a \in chain[x]
        PROVE  status'[a] = "StateValid"
    <3>1. CASE status[x] = "StateValid"
      <4>1. status[a] = "StateValid" /\ a \in Known
        BY Zenon, <1>5, <1>13, <3>1 DEF ValidBelow
      <4> QED BY <1>9, <4>1
    <3>2. CASE status[x] # "StateValid"
      <4>1. x = b /\ Passes
        BY Zenon, <1>7, <1>8, <1>12, <2>2, <3>2
      <4>2. CASE a = b
        BY Zenon, <1>11, <4>1, <4>2
      <4>3. CASE a \in chain[search.diff]
        <5>1. status[a] = "StateValid" /\ a \in Known
          BY Zenon, <1>3, <1>5, <1>13, <4>3 DEF ValidBelow
        <5> QED BY <1>9, <5>1
      <4> QED BY Zenon, <1>6, <1>11, <2>2, <4>1, <4>2, <4>3
    <3> QED BY <3>1, <3>2
  <2> QED BY <1>1, <2>1, <2>2 DEF ValidChains, IsChainAncestorOf
<1>17. Under(search.tips)' = Under(search.tips) /\ Under(Frontier)' = Under(Frontier)
       /\ Under(search.tips) \subseteq Known
  BY Zenon, <1>1, <1>3, <1>10, <1>13 DEF Under, Frontier
<1>18. SnapshotInv'
  BY Zenon, <1>1, <1>2, <1>3, <1>10, <1>17 DEF VirtInv, SnapshotInv
<1>19. CoverInv'
  <2>1. \A h \in search.heap : HasBody(h)'
    BY Zenon, <1>3, <1>9 DEF VirtInv, CoverInv
  <2>2. \A x \in Under(search.tips) : IsChainAncestorOf(search.finality, x)
                => status'[x] = "DisqualifiedFromChain" \/ x \in Under(Frontier)
    BY Zenon, <1>3, <1>9, <1>17 DEF VirtInv, CoverInv
  <2>3. search'.diff \in Known /\ status'[search'.diff] = "StateValid"
    BY Zenon, <1>3, <1>4, <1>7, <1>9, <1>10, <1>11
  <2> QED BY Zenon, <1>1, <1>10, <1>17, <2>1, <2>2, <2>3 DEF CoverInv, IsChainAncestorOf
<1>20. CandidateInv'
  BY Zenon, <1>1, <1>3, <1>10 DEF VirtInv, CandidateInv, IsChainAncestorOf
<1>21. WalkInv'
  <2>1. \A h \in search.heap : Less(h, search.candidate)'
    BY Zenon, <1>1, <1>3, <1>10 DEF VirtInv, WalkInv, Less
  <2>2. /\ path[Len(path)] = search.candidate
        /\ \A i \in 1 .. Len(path) - 1 : gd[path[i + 1]].selected = path[i]
        /\ \A i \in 1 .. Len(path) : path[i] # Genesis /\ HasBody(path[i]) /\ path[i] \in Known
    <3>1. path \in Seq(Known) /\ path # <<>> /\ search.phase = "walk"
      BY Zenon, <1>3
    <3>2. /\ path[Len(path)] = search.candidate
          /\ \A i \in 1 .. Len(path) - 1 : gd[path[i + 1]].selected = path[i]
          /\ \A i \in 1 .. Len(path) : path[i] # Genesis /\ HasBody(path[i])
      BY Zenon, <3>1 DEF VirtInv, WalkInv
    <3>3. \A i \in 1 .. Len(path) : path[i] \in Known
      <4> HIDE DEF path
      <4> QED BY <3>1
    <3> QED BY Zenon, <3>2, <3>3
  <2>3. Len(path) \in Nat \ {0} /\ Len(rest) \in Nat
    BY <1>3, <1>4
  <2>4. ASSUME rest = <<>> PROVE search'.diff = search.candidate \/ status'[search.candidate] = "DisqualifiedFromChain"
    <3>1. b = search.candidate
      BY <1>4, <2>2, <2>3, <2>4
    <3> QED BY Zenon, <1>7, <1>10, <1>12, <3>1
  <2>5. ASSUME rest # <<>>
        PROVE  /\ rest[Len(rest)] = search.candidate
               /\ \/ gd[rest[1]].selected = search'.diff
                  \/ gd[rest[1]].selected \in Known /\ status'[gd[rest[1]].selected] = "DisqualifiedFromChain"
    <3>1. Len(rest) \in 1 .. Len(rest) /\ 1 \in 1 .. Len(rest) /\ 1 \in 1 .. Len(path) - 1
      BY <1>4, <2>3, <2>5
    <3>2. rest[Len(rest)] = path[Len(path)] /\ rest[1] = path[1 + 1]
      BY <1>4, <2>3, <3>1
    <3>3. gd[rest[1]].selected = b
      BY Zenon, <1>4, <2>2, <3>1, <3>2
    <3> QED BY Zenon, <1>4, <1>7, <1>10, <1>12, <2>2, <3>2, <3>3
  <2>6. ASSUME NEW i \in 1 .. Len(rest) - 1 PROVE gd[rest[i + 1]].selected = rest[i]
    <3>1. i \in 1 .. Len(rest) /\ i + 1 \in 1 .. Len(rest) /\ i + 1 \in 1 .. Len(path) - 1
      BY <1>4, <2>3
    <3>2. rest[i] = path[i + 1] /\ rest[i + 1] = path[(i + 1) + 1]
      BY Zenon, <1>4, <3>1
    <3> QED BY Zenon, <2>2, <3>1, <3>2
  <2>7. ASSUME NEW i \in 1 .. Len(rest) PROVE rest[i] # Genesis /\ status'[rest[i]] # "HeaderOnly"
    <3>1. i + 1 \in 1 .. Len(path) /\ rest[i] = path[i + 1]
      BY <1>4, <2>3
    <3>2. path[i + 1] # Genesis /\ HasBody(path[i + 1]) /\ path[i + 1] \in Known
      BY Zenon, <2>2, <3>1
    <3>3. rest[i] \in Known /\ HasBody(rest[i])
      BY Zenon, <3>1, <3>2 DEF HasBody
    <3>4. status'[rest[i]] # "HeaderOnly"
      BY Zenon, <1>8, <3>3 DEF HasBody
    <3> QED BY Zenon, <3>1, <3>2, <3>4
  <2> QED BY Zenon, <1>1, <1>10, <2>1, <2>4, <2>5, <2>6, <2>7 DEF WalkInv, HasBody
<1>22. PickInv' /\ HeaviestValidSink'
  BY Zenon, <1>10 DEF PickInv, HeaviestValidSink
<1> QED BY <1>14, <1>15, <1>16, <1>18, <1>19, <1>20, <1>21, <1>22 DEF VirtInv

(* The walk is over: whatever is heavier than a verified candidate is      *)
(* disqualified, since everything else is below the frontier.              *)
LEMMA EndWalkKeeps ==
  ASSUME DagInv, VirtInv, EndWalk
  PROVE  VirtInv'
<1> DEFINE c == search.candidate
<1>1. /\ parents' = parents /\ past' = past /\ chain' = chain /\ gd' = gd /\ Known' = Known
      /\ Sink' = Sink /\ VirtualFinalityPoint' = VirtualFinalityPoint
      /\ StatusInv' /\ ValidChains' /\ status' = status
  BY Zenon, StoresUnchanged DEF EndWalk, virtVars
<1>2. /\ search.phase = "walk" /\ search.path = <<>> /\ DOMAIN search = DOMAIN Resting
      /\ search.heap \subseteq Known /\ search.tips \subseteq Known /\ search.path \in Seq(Known)
      /\ search.diff \in Known /\ status[search.diff] = "StateValid"
      /\ \A h \in search.heap : HasBody(h)
      /\ c \in Known /\ IsChainAncestorOf(search.finality, c)
      /\ \A h \in search.heap : Less(h, c)
      /\ search.diff = c \/ status[c] = "DisqualifiedFromChain"
  BY Zenon DEF EndWalk, VirtInv, SearchTypeOK, CoverInv, CandidateInv, WalkInv
<1>3. /\ search.finality = VirtualFinalityPoint /\ Sink \in Under(search.tips)
      /\ \A x \in Under(search.tips) : IsChainAncestorOf(search.finality, x)
                => status[x] = "DisqualifiedFromChain" \/ x \in Under(search.heap \cup {c})
  BY Zenon, <1>2 DEF VirtInv, SnapshotInv, CoverInv, Frontier
<1>4. DOMAIN Resting' = DOMAIN Resting
  BY DEF Resting
<1>5. \A x \in Known : past[x] \subseteq Known
  BY Zenon DEF DagInv, DagTypeOK
<1>6. CASE search.diff = c /\ \E order : search' = [search EXCEPT !.phase = "pick", !.heap = {}, !.queue = order,
                                                                  !.parents = <<c>>, !.size = 1]
  <2>1. /\ DOMAIN search' = DOMAIN search /\ search'.phase = "pick" /\ search'.heap = {}
        /\ search'.candidate = c /\ search'.path = search.path
        /\ search'.tips = search.tips /\ search'.finality = search.finality
    BY <1>2, <1>6 DEF Resting
  <2> HIDE DEF c
  <2>2. SearchTypeOK'
    BY Zenon, <1>1, <1>2, <1>4, <2>1 DEF SearchTypeOK
  <2>3. SnapshotInv'
    BY Zenon, <1>1, <1>3, <2>1 DEF SnapshotInv, Under
  <2>4. CandidateInv'
    BY Zenon, <1>1, <1>2, <2>1 DEF CandidateInv, IsChainAncestorOf
  <2>5. PickInv'
    BY <1>1, <1>2, <1>6, <2>1 DEF PickInv
  <2>6. ASSUME NEW x \in Under(search.tips), IsChainAncestorOf(search.finality, x), Less(c, x)
        PROVE  status[x] = "DisqualifiedFromChain"
    <3> SUFFICES ASSUME x \in Under(search.heap \cup {c}) PROVE FALSE
      BY Zenon, <1>3, <2>6
    <3>1. PICK h \in search.heap \cup {c} : x \in past[h]
      BY Zenon DEF Under
    <3>2. h \in Known /\ x \in Known
      BY Zenon, <1>2, <1>5, <3>1
    <3>3. x = h \/ gd[x].blueWork < gd[h].blueWork
      BY Zenon, <3>1, <3>2 DEF DagInv, PastShape
    <3>4. gd[x].blueWork \in Nat /\ gd[h].blueWork \in Nat /\ x \in Nat
      BY <3>2, BoundAssumption DEF DagInv, DagTypeOK, Block
    <3>5. x = h \/ Less(x, h)
      BY Zenon, <3>3 DEF Less
    <3>6. Less(c, h)
      BY Zenon, <1>2, <2>6, <3>2, <3>5, LessIsOrder DEF DagInv
    <3>7. h = c \/ Less(h, c)
      BY Zenon, <1>2, <3>1
    <3> QED BY Zenon, <1>2, <3>2, <3>6, <3>7, LessIsOrder DEF DagInv
  <2>7. HeaviestValidSink'
    <3>1. (UNION {past[t] : t \in search.tips})' = Under(search.tips)
      BY Zenon, <1>1, <2>1 DEF Under
    <3> QED BY Zenon, <1>1, <2>1, <2>6, <3>1 DEF HeaviestValidSink, IsChainAncestorOf, Less
  <2>8. CoverInv' /\ WalkInv'
    BY Zenon, <2>1 DEF CoverInv, WalkInv
  <2> QED BY <1>1, <2>2, <2>3, <2>4, <2>5, <2>7, <2>8 DEF VirtInv
<1>7. CASE /\ search.diff # c
           /\ search' = [search EXCEPT !.phase = "pop", !.heap = ReplaceByParents(c, @), !.candidate = Origin]
  <2> DEFINE new == ReplaceByParents(c, search.heap)
  <2>1. search' = [search EXCEPT !.phase = "pop", !.heap = new, !.candidate = Origin]
    BY <1>7
  <2>2. \A x \in Under(search.heap \cup {c}) : x # c /\ IsChainAncestorOf(search.finality, x) => x \in Under(new)
    BY Zenon, <1>2, ReplaceCovers
  <2>3. new \subseteq search.heap \cup parents[c]
    BY DEF ReplaceByParents
  <2> HIDE DEF c, new
  <2>4. parents[c] \subseteq Known /\ parents[c] \subseteq past[c]
    <3>1. parents[c] \subseteq Known
      BY Zenon, <1>2 DEF DagInv, DagTypeOK
    <3>2. \A p \in parents[c] : p \in past[p]
      BY <3>1 DEF DagInv, PastShape, ChainShape
    <3> QED BY <1>2, <3>1, <3>2 DEF DagInv, PastShape
  <2>5. HasBody(c) /\ status[c] = "DisqualifiedFromChain"
    BY <1>2, <1>7 DEF HasBody
  <2>6. new \subseteq Known /\ \A h \in new : HasBody(h)
    BY Zenon, <1>2, <2>3, <2>4, <2>5 DEF VirtInv, StatusInv
  <2>7. /\ DOMAIN search' = DOMAIN search /\ search'.phase = "pop" /\ search'.heap = new
        /\ search'.diff = search.diff /\ search'.path = search.path
        /\ search'.tips = search.tips /\ search'.finality = search.finality
    BY <1>2, <2>1 DEF Resting
  <2>8. SearchTypeOK'
    BY Zenon, <1>1, <1>2, <1>4, <2>6, <2>7 DEF SearchTypeOK
  <2>9. SnapshotInv'
    BY Zenon, <1>1, <1>3, <2>7 DEF SnapshotInv, Under
  <2>10. Under(search.tips)' = Under(search.tips) /\ Under(Frontier)' = Under(new)
    BY <1>1, <2>7 DEF Frontier, Under
  <2>11. ASSUME NEW x \in Under(search.tips), IsChainAncestorOf(search.finality, x)
         PROVE  status[x] = "DisqualifiedFromChain" \/ x \in Under(new)
    BY Zenon, <1>3, <2>2, <2>5, <2>11
  <2>12. CoverInv'
    BY Zenon, <1>1, <1>2, <2>6, <2>7, <2>10, <2>11 DEF CoverInv, HasBody, IsChainAncestorOf
  <2>13. CandidateInv' /\ WalkInv' /\ PickInv' /\ HeaviestValidSink'
    BY <2>7 DEF CandidateInv, WalkInv, PickInv, HeaviestValidSink
  <2> QED BY <1>1, <2>8, <2>9, <2>12, <2>13 DEF VirtInv
<1> QED BY Zenon, <1>6, <1>7 DEF EndWalk

LEMMA PickParentKeeps ==
  ASSUME DagInv, VirtInv, PickParent
  PROVE  VirtInv'
<1>1. /\ parents' = parents /\ past' = past /\ chain' = chain /\ gd' = gd /\ Known' = Known
      /\ Sink' = Sink /\ VirtualFinalityPoint' = VirtualFinalityPoint
      /\ StatusInv' /\ ValidChains' /\ status' = status
  BY StoresUnchanged DEF PickParent, virtVars
<1>2. \/ \E q, ps, n : search' = [search EXCEPT !.queue = q, !.parents = ps, !.size = n]
      \/ \E q : search' = [search EXCEPT !.queue = q]
  BY Zenon DEF PickParent
<1>3. DOMAIN search = DOMAIN Resting /\ search.phase = "pick"
  BY DEF PickParent, VirtInv, SearchTypeOK
<1>4. /\ DOMAIN search' = DOMAIN search /\ search'.phase = "pick" /\ search'.tips = search.tips
      /\ search'.heap = search.heap /\ search'.path = search.path
      /\ search'.finality = search.finality /\ search'.candidate = search.candidate
  BY Zenon, <1>2, <1>3 DEF Resting
<1>5. DOMAIN Resting' = DOMAIN Resting
  BY DEF Resting
<1>6. SearchTypeOK'
  BY Zenon, <1>1, <1>4, <1>5 DEF VirtInv, SearchTypeOK
<1>7. SnapshotInv'
  BY Zenon, <1>1, <1>3, <1>4 DEF VirtInv, SnapshotInv, Under
<1>8. CandidateInv' /\ PickInv'
  BY Zenon, <1>1, <1>3, <1>4 DEF VirtInv, CandidateInv, PickInv, IsChainAncestorOf
<1>9. HeaviestValidSink'
  BY Zenon, <1>1, <1>3, <1>4 DEF VirtInv, HeaviestValidSink, IsChainAncestorOf, Less
<1>10. CoverInv' /\ WalkInv'
  BY Zenon, <1>4 DEF CoverInv, WalkInv
<1> QED BY Zenon, <1>1, <1>6, <1>7, <1>8, <1>9, <1>10 DEF VirtInv

(* An idle search claims nothing but that the stores are in order. *)
LEMMA IdleKeeps ==
  ASSUME StatusInv', ValidChains', DOMAIN search' = DOMAIN Resting, search'.phase = "idle",
         search'.tips = {}, search'.heap = {}, search'.path = <<>>
  PROVE  VirtInv'
<1>1. DOMAIN Resting' = DOMAIN Resting
  BY Zenon DEF Resting
<1>2. search'.path \in Seq(Known')
  OBVIOUS
<1>3. SearchTypeOK'
  BY Zenon, <1>1, <1>2 DEF SearchTypeOK
<1>4. SnapshotInv' /\ CoverInv' /\ CandidateInv'
  BY Zenon DEF SnapshotInv, CoverInv, CandidateInv
<1>5. WalkInv' /\ PickInv' /\ HeaviestValidSink'
  BY Zenon DEF WalkInv, PickInv, HeaviestValidSink
<1> QED BY Zenon, <1>3, <1>4, <1>5 DEF VirtInv

(* What a commit does: either nothing, or the sink becomes the candidate. *)
LEMMA CommitVirtualKeeps ==
  ASSUME DagInv, VirtInv, CommitVirtual
  PROVE  VirtInv'
<1>1. /\ parents' = parents /\ past' = past /\ chain' = chain /\ gd' = gd /\ Known' = Known
      /\ status' = status /\ tips' = tips /\ pruningPoint' = pruningPoint
  BY DEF CommitVirtual, dagVars, Known
<1>2. Sink' \in Known /\ status[Sink'] = "StateValid"
  <2>1. CASE virt' = NewVirtual /\ NewVirtual.data.selected = search.candidate
    <3>1. Sink' = search.candidate
      BY Zenon, <2>1 DEF Sink
    <3> QED BY <3>1 DEF CommitVirtual, VirtInv, CandidateInv, PickInv
  <2>2. CASE virt' = virt
    BY Zenon, <2>2 DEF Sink, VirtInv, StatusInv, ValidChains
  <2> QED BY <2>1, <2>2 DEF CommitVirtual, virtVars
<1>3. StatusInv'
  BY Zenon, <1>1, <1>2 DEF VirtInv, StatusInv, HasBody
<1>4. ValidChains'
  BY Zenon, <1>1, <1>2 DEF VirtInv, ValidChains, IsChainAncestorOf
<1>5. /\ DOMAIN search' = DOMAIN Resting /\ search'.phase = "idle"
      /\ search'.tips = {} /\ search'.heap = {} /\ search'.path = <<>>
  BY DEF CommitVirtual, Resting
<1> QED BY Zenon, <1>3, <1>4, <1>5, IdleKeeps

LEMMA CrashKeeps ==
  ASSUME DagInv, VirtInv, Crash
  PROVE  VirtInv'
<1>1. StatusInv' /\ ValidChains'
  BY StoresUnchanged DEF Crash, virtVars
<1>2. /\ DOMAIN search' = DOMAIN Resting /\ search'.phase = "idle"
      /\ search'.tips = {} /\ search'.heap = {} /\ search'.path = <<>>
  BY Zenon DEF Crash, Resting
<1> QED BY <1>1, <1>2, IdleKeeps

LEMMA StutterKeeps ==
  ASSUME VirtInv, UNCHANGED vars
  PROVE  VirtInv'
<1>1. /\ parents' = parents /\ past' = past /\ chain' = chain /\ gd' = gd /\ Known' = Known
      /\ Sink' = Sink /\ VirtualFinalityPoint' = VirtualFinalityPoint
      /\ StatusInv' /\ ValidChains' /\ status' = status /\ search' = search
  BY Zenon, StoresUnchanged DEF vars
<1>2. SearchTypeOK' /\ SnapshotInv'
  BY Zenon, <1>1 DEF VirtInv, SearchTypeOK, SnapshotInv, Under, Resting
<1>3. CandidateInv' /\ PickInv'
  BY Zenon, <1>1 DEF VirtInv, CandidateInv, PickInv, IsChainAncestorOf
<1>4. Under(search.tips)' = Under(search.tips) /\ Under(Frontier)' = Under(Frontier)
  BY <1>1 DEF Under, Frontier
<1>5. CoverInv'
  BY Zenon, <1>1, <1>4 DEF VirtInv, CoverInv, HasBody, IsChainAncestorOf
<1>6. WalkInv'
  BY Zenon, <1>1 DEF VirtInv, WalkInv, HasBody, Less
<1>7. HeaviestValidSink'
  BY Zenon, <1>1 DEF VirtInv, HeaviestValidSink, IsChainAncestorOf, Less
<1> QED BY Zenon, <1>1, <1>2, <1>3, <1>5, <1>6, <1>7 DEF VirtInv

-----------------------------------------------------------------------------
(* Only a new header and a commit touch what the numbering speaks of. *)
LEMMA StoreInvStep ==
  ASSUME DagInv, VirtInv, StoreInv, [Next]_vars
  PROVE  StoreInv'
<1>1. Sink \in Known /\ chain[Sink] \subseteq Known
  BY Zenon DEF VirtInv, StatusInv, DagInv, DagTypeOK
<1>2. ASSUME \A x \in Known : chain'[x] = chain[x], virt' = virt, chainStore' = chainStore
      PROVE  StoreInv'
  <2>1. Sink' = Sink /\ chain'[Sink] = chain[Sink]
    BY <1>1, <1>2 DEF Sink
  <2>2. \A i \in DOMAIN chainStore : chainStore[i] \in Known
    BY <1>1 DEF StoreInv, Numbers
  <2> QED BY Zenon, <1>2, <2>1, <2>2 DEF StoreInv, Numbers
<1>3. ASSUME NEW b \in Block, NEW ps \in SUBSET Known, CommitHeader(b, ps)
      PROVE  StoreInv'
  BY Zenon, <1>2, <1>3, AddHeaderKeepsDag DEF CommitHeader, DagGrows, virtVars
<1>4. ASSUME NEW b \in Known, CommitBody(b)
      PROVE  StoreInv'
  BY Zenon, <1>2, <1>4 DEF CommitBody, dagVars, virtVars
<1>5. CASE StartResolve
  BY <1>2, <1>5 DEF StartResolve, dagVars, virtVars
<1>6. CASE PopCandidate
  BY <1>2, <1>6 DEF PopCandidate, dagVars, virtVars
<1>7. CASE VerifyChainBlock
  BY Zenon, <1>2, <1>7 DEF VerifyChainBlock, dagVars, virtVars
<1>8. CASE EndWalk
  BY Zenon, <1>2, <1>8 DEF EndWalk, dagVars, virtVars
<1>9. CASE PickParent
  BY <1>2, <1>9 DEF PickParent, dagVars, virtVars
<1>10. CASE CommitVirtual
  <2>1. chain' = chain
    BY <1>10 DEF CommitVirtual, dagVars
  <2>2. CASE virt' = virt /\ chainStore' = chainStore
    BY <1>2, <2>1, <2>2
  <2>3. CASE /\ virt' = NewVirtual /\ NewVirtual.data.selected = search.candidate
             /\ chainStore' = ApplyChanges(chainStore, Sink, search.candidate)
    <3>1. Sink' = search.candidate
      BY Zenon, <2>3 DEF Sink
    <3>2. search.candidate \in Known
      BY <1>10 DEF CommitVirtual, VirtInv, CandidateInv
    <3> DEFINE new == ApplyChanges(chainStore, Sink, search.candidate)
    <3>3. Numbers(new, search.candidate)
      BY Zenon, <1>1, <3>2, Renumbered DEF StoreInv, ApplyChanges
    <3> HIDE DEF new
    <3>4. chainStore' = new
      BY Zenon, <2>3 DEF new
    <3> QED BY Zenon, <2>1, <3>1, <3>3, <3>4 DEF StoreInv, Numbers
  <2> QED BY <1>10, <2>2, <2>3 DEF CommitVirtual, virtVars
<1>11. CASE Crash
  BY <1>2, <1>11 DEF Crash, dagVars, virtVars
<1>12. CASE UNCHANGED vars
  BY Zenon, <1>2, <1>12 DEF vars, dagVars
<1> QED BY <1>3, <1>4, <1>5, <1>6, <1>7, <1>8, <1>9, <1>10, <1>11, <1>12 DEF Next, VirtualStep

-----------------------------------------------------------------------------
LEMMA DagStep ==
  ASSUME DagInv, [Next]_vars
  PROVE  DagInv'
<1>1. ASSUME NEW b \in Block, NEW ps \in SUBSET Known, CommitHeader(b, ps) PROVE DagInv'
  BY Zenon, <1>1, AddHeaderKeepsDag DEF CommitHeader
<1>2. ASSUME NEW b \in Known, CommitBody(b) PROVE DagInv'
  BY Zenon, <1>2, DagUnchanged DEF CommitBody
<1>3. CASE VirtualStep
  BY Zenon, <1>3, DagUnchanged
     DEF VirtualStep, StartResolve, PopCandidate, VerifyChainBlock, EndWalk, PickParent, CommitVirtual
<1>4. CASE Crash
  BY <1>4, DagUnchanged DEF Crash
<1>5. CASE UNCHANGED vars
  BY Zenon, <1>5, DagUnchanged DEF vars
<1> QED BY <1>1, <1>2, <1>3, <1>4, <1>5 DEF Next

LEMMA VirtStep ==
  ASSUME DagInv, VirtInv, [Next]_vars
  PROVE  VirtInv'
<1>1. CASE VirtualStep
  BY <1>1, StartResolveKeeps, PopKeeps, VerifyKeeps, EndWalkKeeps, PickParentKeeps, CommitVirtualKeeps
     DEF VirtualStep
<1> QED BY Zenon, <1>1, CommitHeaderKeeps, CommitBodyKeeps, CrashKeeps, StutterKeeps DEF Next

(* The inductive invariant of the virtual processor. *)
LEMMA Invariance == Spec => [](DagInv /\ VirtInv /\ StoreInv)
<1>1. Init => DagInv /\ VirtInv /\ StoreInv
  BY Zenon, InitDag, InitVirt DEF Init
<1>2. DagInv /\ VirtInv /\ StoreInv /\ [Next]_vars => (DagInv /\ VirtInv /\ StoreInv)'
  BY DagStep, VirtStep, StoreInvStep
<1> QED BY <1>1, <1>2, PTL DEF Spec

(* A block is valid only if its whole chain is, whatever walks are         *)
(* interrupted and wherever the processor crashes: the walk of             *)
(* calculate_registry_unit_state_relatively may stop at a valid block.     *)
THEOREM StatusFollowsChain == Spec => []ValidChains
<1>1. VirtInv => ValidChains
  BY DEF VirtInv
<1> QED BY <1>1, Invariance, PTL

(* The search of sink_search_algorithm never runs out of candidates, in a  *)
(* DAG of any size: the previous sink is below some tip and still valid,   *)
(* so it stays below the frontier until a candidate is found.              *)
THEOREM SearchNeverFails == Spec => []SearchSucceeds
<1>1. DagInv /\ VirtInv => SearchSucceeds
  <2> SUFFICES ASSUME DagInv, VirtInv, search.phase = "pop", search.heap = {} PROVE FALSE
    BY Zenon DEF SearchSucceeds, HeapExhausted
  <2>1. search.finality = VirtualFinalityPoint /\ Sink \in Under(search.tips)
    BY Zenon DEF VirtInv, SnapshotInv
  <2>2. Sink \in Known /\ status[Sink] = "StateValid" /\ pruningPoint = Genesis
    BY Zenon DEF VirtInv, StatusInv, ValidChains
  <2>3. IsChainAncestorOf(search.finality, Sink)
    BY Zenon, <2>1, <2>2, FinalityOnChain DEF IsChainAncestorOf
  <2>4. Sink \in Under({})
    BY Zenon, <2>1, <2>2, <2>3 DEF VirtInv, CoverInv, Frontier
  <2> QED BY Zenon, <2>4 DEF Under
<1> QED BY <1>1, Invariance, PTL

(* The candidate it settles on is the heaviest block that can be the sink: *)
(* every heavier block above the finality point, in the past of the tips   *)
(* the search began with, was found to be disqualified.                    *)
THEOREM SearchFindsHeaviest == Spec => []HeaviestValidSink
<1>1. VirtInv => HeaviestValidSink
  BY DEF VirtInv
<1> QED BY <1>1, Invariance, PTL

(* No search gives up work or finality: commit_virtual_state moves the     *)
(* sink only to a block at least as heavy as the old one, on a chain       *)
(* through the finality point of the old virtual state.                    *)
THEOREM SinkNeverRetreats == Spec => SinkAdvances
<1>1. ASSUME DagInv, VirtInv, [Next]_vars, Sink' # Sink
      PROVE  gd[Sink].blueWork <= gd[Sink'].blueWork /\ VirtualFinalityPoint \in chain[Sink']
  <2>1. CASE CommitVirtual /\ NewVirtual.data.selected = search.candidate /\ virt' = NewVirtual
    <3> DEFINE c == search.candidate
    <3>1. Sink' = c
      BY Zenon, <2>1 DEF Sink
    <3>2. search.phase = "pick"
      BY <2>1 DEF CommitVirtual
    <3>3. c \in Known /\ search.finality \in chain[c] /\ search.finality = VirtualFinalityPoint
      BY Zenon, <1>1, <3>2 DEF VirtInv, CandidateInv, SnapshotInv, IsChainAncestorOf
    <3>4. Sink \in Under(search.tips) /\ Sink \in Known /\ status[Sink] = "StateValid" /\ pruningPoint = Genesis
      BY Zenon, <1>1, <3>2 DEF VirtInv, SnapshotInv, StatusInv, ValidChains
    <3>5. IsChainAncestorOf(search.finality, Sink)
      BY Zenon, <1>1, <3>3, <3>4, FinalityOnChain DEF IsChainAncestorOf
    <3>6. ~Less(c, Sink)
      BY Zenon, <1>1, <3>2, <3>4, <3>5 DEF VirtInv, HeaviestValidSink, Under
    <3>7. gd[Sink].blueWork \in Nat /\ gd[c].blueWork \in Nat
      BY Zenon, <1>1, <3>3, <3>4 DEF DagInv, DagTypeOK
    <3> HIDE DEF c
    <3>8. gd[Sink].blueWork <= gd[c].blueWork
      BY <3>6, <3>7 DEF Less
    <3> QED BY Zenon, <3>1, <3>3, <3>8
  <2>2. virt' # virt
    BY <1>1 DEF Sink
  <2>3. ~(UNCHANGED vars) /\ ~Crash /\ (\A b \in Known : ~CommitBody(b))
        /\ \A b \in Block, ps \in SUBSET Known : ~CommitHeader(b, ps)
    BY Zenon, <2>2 DEF vars, virtVars, Crash, CommitBody, CommitHeader
  <2>4. ~StartResolve /\ ~PopCandidate /\ ~VerifyChainBlock /\ ~EndWalk /\ ~PickParent
    BY Zenon, <2>2 DEF virtVars, StartResolve, PopCandidate, VerifyChainBlock, EndWalk, PickParent
  <2>5. CommitVirtual
    BY <1>1, <2>3, <2>4 DEF Next, VirtualStep
  <2> QED BY Zenon, <2>1, <2>2, <2>5 DEF CommitVirtual, virtVars
<1>2. DagInv /\ VirtInv /\ [Next]_vars =>
        [Sink' # Sink => /\ gd[Sink].blueWork <= gd[Sink'].blueWork
                         /\ VirtualFinalityPoint \in chain[Sink']]_vars
  BY Zenon, <1>1
<1> QED BY <1>2, Invariance, PTL DEF Spec, SinkAdvances

(* After any sequence of reorganizations, failed resolutions and crashes   *)
(* the selected chain store is the sink's chain, in order and without      *)
(* gaps: apply_changes removes and adds the right number of blocks.        *)
THEOREM ChainStoreIsSinkChain == Spec => []ChainStoreMatchesSink
<1>1. DagInv /\ VirtInv /\ StoreInv => ChainStoreMatchesSink
  BY NumbersChain DEF VirtInv, StatusInv, StoreInv, ChainStoreMatchesSink
<1> QED BY <1>1, Invariance, PTL
=============================================================================

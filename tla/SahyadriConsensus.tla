------------------------- MODULE SahyadriConsensus -------------------------
(***************************************************************************)
(* The block DAG and its colouring                                         *)
(* (consensus/src/processes/sahyadri_consensus): when the header of a      *)
(* block is accepted, its selected parent, its mergeset, the colours of    *)
(* the mergeset, its blue score and blue work, and its merge depth root    *)
(* and finality point are computed and stored.                             *)
(*                                                                         *)
(* A block is its hash, a number, so that ties in blue work are broken as  *)
(* the code breaks them; blocks arrive in any order that puts parents      *)
(* first.  The pruning processor moves the pruning point up; all blocks    *)
(* below it stay readable here.                                            *)
(***************************************************************************)
EXTENDS Integers, Sequences, FiniteSets, FiniteSetsExt, Functions

CONSTANTS
    MaxHash,            \* bound: blocks are 0 .. MaxHash, genesis is 0
    Works, GenesisWork, \* the work a block's bits, and genesis', may stand for
    K,                  \* the k-cluster parameter
    MaxBlockParents, MergesetSizeLimit,
    MergeDepth, FinalityDepth, PruningDepth

ASSUME BoundAssumption == MaxHash \in Nat
ASSUME KAssumption == K \in Nat
ASSUME WorksAssumption == Works \cup {GenesisWork} \subseteq Nat \ {0}
ASSUME DepthAssumption == MergeDepth \in Nat /\ FinalityDepth \in Nat /\ PruningDepth \in Nat

VARIABLES
    parents,  \* relations store: known block -> its direct parents
    work,     \* headers store: the work of a block's bits
    past,     \* reachability: the inclusive past of a block
    chain,    \* reachability: the block's inclusive selected-parent chain
    gd,       \* sahyadri_consensus_store and depth_store
    pruningPoint, pastPoints    \* the pruning point, and past_pruning_points_store with it

dagVars == <<parents, work, past, chain, gd, pruningPoint, pastPoints>>

-----------------------------------------------------------------------------
Genesis == 0
Origin == -1
Block == 0 .. MaxHash
Known == DOMAIN parents

IsDagAncestorOf(a, b) == a \in past[b]
IsChainAncestorOf(a, b) == a \in chain[b]
Anticone(a, b) == ~IsDagAncestorOf(a, b) /\ ~IsDagAncestorOf(b, a)

(* SortableBlock: by blue work, then by hash. *)
Less(a, b) ==
    \/ gd[a].blueWork < gd[b].blueWork
    \/ gd[a].blueWork = gd[b].blueWork /\ a < b

FindSelectedParent(ps) == CHOOSE p \in ps : \A q \in ps \ {p} : Less(q, p)

(* What the search from the other parents collects: everything they bring  *)
(* that is not in the past of the selected parent.                         *)
UnorderedMergeset(sp, ps) == (UNION {past[p] : p \in ps}) \ past[sp]

(* The blocks of a set in ascending order: a block comes after as many as  *)
(* are less than it.                                                       *)
SortBlocks(S) ==
    [i \in 1 .. Cardinality(S) |-> CHOOSE b \in S : Cardinality({c \in S : Less(c, b)}) = i - 1]

(* What a loop over the blocks of a set in ascending order computes. *)
FoldInOrder(step(_, _), start, S) ==
    MapThenFoldSet(LAMBDA b, acc : step(acc, b), start, LAMBDA b : b, FindSelectedParent, S)

(* blue_anticone_size: the entry of the block's own map or, on the way     *)
(* down the chain, of the first that has one.  Genesis is not looked up.   *)
BlueAnticoneSize(block, data) ==
    LET holders == {x \in chain[data.selected] \ {Genesis} : block \in DOMAIN gd[x].sizes}
    IN  IF block \in DOMAIN data.sizes THEN data.sizes[block]
        ELSE IF holders = {} THEN -1    \* the code panics
        ELSE gd[FindSelectedParent(holders)].sizes[block]

(* The blue peers that check_blue_candidate visits: those of the new block *)
(* and of its chain, down to the first chain block in the candidate's      *)
(* past, that are not in the candidate's past themselves.                  *)
BluePeers(data, c) ==
    LET above == {x \in chain[data.selected] : ~IsDagAncestorOf(x, c)}
        blues == Range(data.blues) \cup UNION {Range(gd[x].blues) : x \in above}
    IN  {p \in blues : ~IsDagAncestorOf(p, c)}

(* Mutant: the anticones of the peers are not looked at. *)
IsBlueIgnoringPeers(data, c) ==
    /\ Len(data.blues) # K + 1
    /\ Cardinality(BluePeers(data, c)) <= K

IsBlueCandidate(data, c) ==
    /\ Len(data.blues) # K + 1
    /\ Cardinality(BluePeers(data, c)) <= K
    /\ \A p \in BluePeers(data, c) : BlueAnticoneSize(p, data) # K

AddBlue(data, c) ==
    LET peers == BluePeers(data, c)
        size(p) == IF p = c THEN Cardinality(peers)
                   ELSE IF p \in peers THEN BlueAnticoneSize(p, data) + 1 ELSE data.sizes[p]
    IN  [data EXCEPT !.blues = Append(@, c),
                     !.sizes = [p \in DOMAIN @ \cup peers \cup {c} |-> size(p)]]

Colour(data, c) ==
    IF IsBlueCandidate(data, c) THEN AddBlue(data, c) ELSE [data EXCEPT !.reds = Append(@, c)]

AddedBlueWork(data) == MapThenSumSet(LAMBDA i : work[data.blues[i]], DOMAIN data.blues)

(* sahyadri_consensus: colour the mergeset in order, then sum up. *)
ConsensusData(ps) ==
    LET sp == FindSelectedParent(ps)
        new == [selected |-> sp, blues |-> <<sp>>, reds |-> <<>>, sizes |-> [p \in {sp} |-> 0],
                blueScore |-> 0, blueWork |-> 0]
        data == FoldInOrder(Colour, new, UnorderedMergeset(sp, ps))
    IN  [data EXCEPT !.blueScore = gd[sp].blueScore + Len(data.blues),
                     !.blueWork = gd[sp].blueWork + AddedBlueWork(data)]

-----------------------------------------------------------------------------
(* calculate_chain_path: the blocks above block a on the chain of b,       *)
(* lowest first, and the block at which the two chains part.               *)
ChainPath(a, b) == SortBlocks(chain[b] \ chain[a])

SplitPoint(a, b) == FindSelectedParent(chain[a] \cap chain[b])

-----------------------------------------------------------------------------
(* Mutant: the walk also takes a block of exactly the required score. *)
BlockUpToDepth(data, depth, stored) ==
    LET start == IF stored = Origin THEN pruningPoint ELSE stored
        below == {x \in chain[data.selected] : /\ IsChainAncestorOf(start, x)
                                               /\ gd[x].blueScore <= data.blueScore - depth}
    IN  IF data.blueScore < depth THEN Genesis
        ELSE IF \/ data.blueScore < gd[pruningPoint].blueScore + depth
                \/ ~IsChainAncestorOf(pruningPoint, data.selected) THEN Origin
        ELSE IF below = {} THEN start
        ELSE CHOOSE x \in below : \A y \in below : gd[y].blueScore <= gd[x].blueScore

(* calculate_block_at_depth: walk up the chain from the selected parent's  *)
(* own point, or from the pruning point if that is ORIGIN.                 *)
BlockAtDepth(data, depth, stored) ==
    LET start == IF stored = Origin THEN pruningPoint ELSE stored
        below == {x \in chain[data.selected] : /\ IsChainAncestorOf(start, x)
                                               /\ gd[x].blueScore < data.blueScore - depth}
    IN  IF data.blueScore < depth THEN Genesis
        ELSE IF \/ data.blueScore < gd[pruningPoint].blueScore + depth
                \/ ~IsChainAncestorOf(pruningPoint, data.selected) THEN Origin
        ELSE IF below = {} THEN start
        ELSE CHOOSE x \in below : \A y \in below : gd[y].blueScore <= gd[x].blueScore

MergeDepthRoot(data) == BlockAtDepth(data, MergeDepth, gd[data.selected].mergeRoot)
FinalityPoint(data) == BlockAtDepth(data, FinalityDepth, gd[data.selected].finality)

KosherizingBlues(data, root) == {b \in Range(data.blues) : IsChainAncestorOf(root, b)}

(* The reds that violate the merge bound and that no blue kosherizes;      *)
(* every block is above ORIGIN.                                            *)
BadReds(data) ==
    LET root == MergeDepthRoot(data)
    IN  {r \in Range(data.reds) :
            /\ root # Origin /\ ~IsDagAncestorOf(root, r)
            /\ \A b \in KosherizingBlues(data, root) : ~IsDagAncestorOf(r, b)}

-----------------------------------------------------------------------------
DagInit ==
    /\ parents = [b \in {Genesis} |-> {}]
    /\ work = [b \in {Genesis} |-> GenesisWork]
    /\ past = [b \in {Genesis} |-> {Genesis}]
    /\ chain = [b \in {Genesis} |-> {Genesis}]
    /\ gd = [b \in {Genesis} |->
                 [selected |-> Origin, blues |-> <<>>, reds |-> <<>>, sizes |-> <<>>,
                  blueScore |-> 0, blueWork |-> 0, mergeRoot |-> Origin, finality |-> Origin]]
    /\ pruningPoint = Genesis
    /\ pastPoints = {Genesis}

(* A store with an entry for a new block. *)
WithEntry(f, b, entry) == [c \in DOMAIN f \cup {b} |-> IF c = b THEN entry ELSE f[c]]

(* Direct parents that validate_parent_relations accepts. *)
ValidParents(ps) ==
    /\ ps # {} /\ Cardinality(ps) <= MaxBlockParents
    /\ \A p, q \in ps : p # q => ~IsDagAncestorOf(p, q)

(* A header passes validation and is committed with its consensus data. *)
AddHeader(b, ps) ==
    LET data == ConsensusData(ps) IN
    /\ b \notin Known
    /\ ValidParents(ps)
    /\ \E p \in ps : IsDagAncestorOf(pruningPoint, p)
    /\ Len(data.blues) + Len(data.reds) <= MergesetSizeLimit
    /\ BadReds(data) = {}
    /\ parents' = WithEntry(parents, b, ps)
    /\ past' = WithEntry(past, b, {b} \cup UNION {past[p] : p \in ps})
    /\ chain' = WithEntry(chain, b, {b} \cup chain[data.selected])
    /\ gd' = WithEntry(gd, b,
                 [selected |-> data.selected, blues |-> data.blues, reds |-> data.reds,
                  sizes |-> data.sizes, blueScore |-> data.blueScore, blueWork |-> data.blueWork,
                  mergeRoot |-> MergeDepthRoot(data), finality |-> FinalityPoint(data)])
    /\ \E w \in Works : work' = WithEntry(work, b, w)
    /\ UNCHANGED <<pruningPoint, pastPoints>>

(* The pruning processor takes a higher block, of sufficient depth below a *)
(* sink, on the chain of the sink and of the present point.                *)
AdvancePruningPoint(p, tip) ==
    /\ IsChainAncestorOf(p, tip) /\ p # pruningPoint /\ IsChainAncestorOf(pruningPoint, p)
    /\ gd[p].blueScore + PruningDepth <= gd[tip].blueScore
    /\ pruningPoint' = p
    /\ pastPoints' = pastPoints \cup {p}
    /\ UNCHANGED <<parents, work, past, chain, gd>>

DagNext ==
    \/ \E b \in Block, ps \in SUBSET Known : AddHeader(b, ps)
    \/ \E p, tip \in Known : AdvancePruningPoint(p, tip)

DagSpec == DagInit /\ [][DagNext]_dagVars

-----------------------------------------------------------------------------
(* Types of the relations and of the data stored with each header. *)
DagTypeOK ==
    /\ Known \subseteq Block
    /\ parents \in [Known -> SUBSET Known]
    /\ work \in [Known -> Works \cup {GenesisWork}]
    /\ past \in [Known -> SUBSET Known]
    /\ chain \in [Known -> SUBSET Known]
    /\ DOMAIN gd = Known
    /\ \A b \in Known : /\ gd[b].blueScore \in Nat /\ gd[b].blueWork \in Nat
                        /\ gd[b].finality \in Known \cup {Origin} /\ gd[b].mergeRoot \in Known \cup {Origin}
    /\ pruningPoint \in pastPoints /\ pastPoints \subseteq Known

(* The blue set of a block: the blues of its whole selected chain. *)
BlueSet(b) == UNION {Range(gd[x].blues) : x \in chain[b]}

BlueAnticone(x, S) == {y \in S : Anticone(x, y)}

IsKCluster(S) == \A x \in S : Cardinality(BlueAnticone(x, S)) <= K

(* The greedy colouring of the mergeset by definition: a block joins if at  *)
(* most K others did and the blue set stays a k-cluster.                    *)
ReferenceBlues(b) ==
    LET sp == gd[b].selected
        join(S, c) == IF Cardinality(S \ BlueSet(sp)) <= K /\ IsKCluster(S \cup {c}) THEN S \cup {c} ELSE S
    IN  FoldInOrder(join, BlueSet(sp) \cup {sp}, UnorderedMergeset(sp, parents[b]))

(* The colouring computed from memoized sizes is the greedy one.  In        *)
(* particular every blue set is a k-cluster, which the assertion "found     *)
(* blue anticone larger than K" of protocol.rs relies on, although the code *)
(* only ever looks at the sizes it memoized on the way.                     *)
ColouringIsGreedy == \A b \in Known \ {Genesis} : BlueSet(b) = ReferenceBlues(b)

(* The block at some depth below a block with this data, by definition: on  *)
(* the chain of the selected parent, the highest whose score is lower by    *)
(* more than the depth, or a pruning point lower by exactly the depth.      *)
IsAtDepth(point, data, depth) ==
    /\ point \in chain[data.selected]
    /\ \/ gd[point].blueScore + depth < data.blueScore
       \/ gd[point].blueScore + depth = data.blueScore /\ point \in pastPoints
    /\ \A x \in chain[data.selected] \ chain[point] : data.blueScore <= gd[x].blueScore + depth

(* What calculate_block_at_depth should return: genesis for a block of low  *)
(* score; else the block at that depth, or ORIGIN, but not once the pruning *)
(* point is on the chain and deep enough.                                   *)
IsDepthPoint(point, data, depth) ==
    IF data.blueScore < depth THEN point = Genesis
    ELSE IF point # Origin THEN IsAtDepth(point, data, depth)
    ELSE \/ pruningPoint \notin chain[data.selected]
         \/ data.blueScore < gd[pruningPoint].blueScore + depth

(* The stored merge depth roots and finality points are exact, although     *)
(* each is searched from that of the selected parent only, which may be     *)
(* missing, and while the pruning point moves.                              *)
DepthPointsExact ==
    \A b \in Known \ {Genesis} :
        /\ IsDepthPoint(gd[b].mergeRoot, gd[b], MergeDepth)
        /\ IsDepthPoint(gd[b].finality, gd[b], FinalityDepth)
=============================================================================

-------------------------- MODULE SparseMerkleTree --------------------------
(***************************************************************************)
(* The sparse Merkle tree of crypto/smt, and trees derived from one        *)
(* another through overlays, as block verification does.                   *)
(*                                                                         *)
(* The hash of a node is the node itself: hashing is injective and no      *)
(* collision is modelled.  A store is the set of nodes it holds, so a node *)
(* that is not in the store is a missing one.                              *)
(***************************************************************************)
EXTENDS Integers, Sequences, FiniteSets, SequencesExt, FiniteSetsExt

CONSTANTS
    Key,          \* bit strings of length TreeDepth
    Value,
    TreeDepth,
    MaxUpdates,   \* in a behaviour
    MaxTrees      \* committed, besides the empty one

ASSUME KeyAssumption == Key \subseteq [1 .. TreeDepth -> {0, 1}]

VARIABLES
    base,    \* the persistent node store
    trees,   \* history: the committed [root, entries]
    overlay, \* the overlay store in use: [open, root, pending, entries]
    updates  \* counts the updates

vars == <<base, trees, overlay, updates>>

-----------------------------------------------------------------------------
Empty == <<>>
Leaf(k, v) == <<"leaf", k, v>>
Branch(l, r) == <<"branch", l, r>>
Missing == <<"missing">>
None == "none"
Unread == "missing"
NoKey == <<>>

IsLeaf(n) == n # Empty /\ n[1] = "leaf"

Bit(k, depth) == k[depth + 1]

(* Operations return the new root and the nodes they put.  An error is the *)
(* root Missing.                                                           *)
RECURSIVE Split(_, _, _)
Split(depth, a, b) ==
    LET bit == Bit(a[2], depth)
        pair(x, y) == IF bit = 0 THEN Branch(x, y) ELSE Branch(y, x)
    IN  IF bit # Bit(b[2], depth)
        THEN [root |-> pair(a, b), puts |-> {a, b, pair(a, b)}]
        ELSE LET child == Split(depth + 1, a, b)
             IN  [root |-> pair(child.root, Empty), puts |-> child.puts \cup {pair(child.root, Empty)}]

(* Mutant: a branch with one leaf is not collapsed. *)
NormalizeKeepsBranch(store, l, r, puts) ==
    IF l = Empty /\ r = Empty THEN [root |-> Empty, puts |-> puts]
    ELSE [root |-> Branch(l, r), puts |-> puts \cup {Branch(l, r)}]

(* is_leaf reads the only child that is left. *)
Normalize(store, l, r, puts) ==
    LET only == IF l = Empty THEN r ELSE l
    IN  CASE l = Empty /\ r = Empty -> [root |-> Empty, puts |-> puts]
          [] l # Empty /\ r # Empty -> [root |-> Branch(l, r), puts |-> puts \cup {Branch(l, r)}]
          [] OTHER -> IF only \notin store \cup puts THEN [root |-> Missing, puts |-> puts]
                      ELSE IF IsLeaf(only) THEN [root |-> only, puts |-> puts]
                      ELSE [root |-> Branch(l, r), puts |-> puts \cup {Branch(l, r)}]

(* Setting a key, or deleting it when the value is None. *)
RECURSIVE UpdateAt(_, _, _, _, _)
UpdateAt(store, node, depth, k, v) ==
    LET same == [root |-> node, puts |-> {}]
        set == IF v = None THEN [root |-> Empty, puts |-> {}] ELSE [root |-> Leaf(k, v), puts |-> {Leaf(k, v)}]
    IN  IF node = Empty THEN set
        ELSE IF node \notin store THEN [root |-> Missing, puts |-> {}]
        ELSE IF IsLeaf(node)
        THEN IF node[2] = k THEN set ELSE IF v = None THEN same ELSE Split(depth, node, Leaf(k, v))
        ELSE LET left == Bit(k, depth) = 0
                 child == UpdateAt(store, IF left THEN node[2] ELSE node[3], depth + 1, k, v)
             IN  IF child.root = Missing THEN child
                 ELSE IF left THEN Normalize(store, child.root, node[3], child.puts)
                      ELSE Normalize(store, node[2], child.root, child.puts)

(* get: the value of a key, None, or Unread when a node is missing. *)
RECURSIVE GetAt(_, _, _, _)
GetAt(store, node, depth, k) ==
    IF node = Empty THEN None
    ELSE IF node \notin store THEN Unread
    ELSE IF IsLeaf(node) THEN (IF node[2] = k THEN node[3] ELSE None)
    ELSE GetAt(store, IF Bit(k, depth) = 0 THEN node[2] ELSE node[3], depth + 1, k)

(* prove: the siblings from the root down, and where the path ends. *)
RECURSIVE Prove(_, _, _, _)
Prove(store, node, depth, k) ==
    IF node = Empty THEN [siblings |-> <<>>, terminal |-> Empty]
    ELSE IF node \notin store THEN [siblings |-> <<>>, terminal |-> Missing]
    ELSE IF IsLeaf(node) THEN [siblings |-> <<>>, terminal |-> node]
    ELSE LET left == Bit(k, depth) = 0
             rest == Prove(store, IF left THEN node[2] ELSE node[3], depth + 1, k)
         IN  [rest EXCEPT !.siblings = <<IF left THEN node[3] ELSE node[2]>> \o @]

(* The root that a proof leads to, hashed from the terminal up. *)
RECURSIVE RootFrom(_, _, _, _)
RootFrom(k, siblings, depth, terminal) ==
    IF depth = Len(siblings) THEN terminal
    ELSE LET h == RootFrom(k, siblings, depth + 1, terminal)
         IN  IF Bit(k, depth) = 0 THEN Branch(h, siblings[depth + 1]) ELSE Branch(siblings[depth + 1], h)

ComputeRoot(k, proof) == RootFrom(k, proof.siblings, 0, proof.terminal)

SharesPrefix(a, b, n) == \A i \in 0 .. n - 1 : Bit(a, i) = Bit(b, i)

VerifyInclusion(root, k, v, proof) ==
    proof.terminal = Leaf(k, v) /\ ComputeRoot(k, proof) = root

(* Mutant: any other leaf is taken as evidence of absence. *)
VerifyExclusionAnywhere(root, k, proof) ==
    IF proof.terminal = Empty THEN ComputeRoot(k, proof) = root
    ELSE /\ proof.terminal[2] # k
         /\ ComputeRoot(proof.terminal[2], proof) = root

VerifyExclusion(root, k, proof) ==
    IF proof.terminal = Empty THEN ComputeRoot(k, proof) = root
    ELSE /\ proof.terminal[2] # k
         /\ SharesPrefix(proof.terminal[2], k, Len(proof.siblings))
         /\ ComputeRoot(k, proof) = root

-----------------------------------------------------------------------------
(* leaves_after: a page of leaves above a key, in ascending order. *)
Less(a, b) == \E i \in 1 .. TreeDepth : a[i] < b[i] /\ \A j \in 1 .. i - 1 : a[j] = b[j]

SetBit(path, depth) == [path EXCEPT ![depth + 1] = 1]
SubtreeMax(path, depth) == [i \in 1 .. TreeDepth |-> IF i > depth THEN 1 ELSE path[i]]
ZeroKey == [i \in 1 .. TreeDepth |-> 0]

(* Mutant: a subtree is skipped by its smallest key. *)
SkipByMinimum(path, depth, after) == after # NoKey /\ (path = after \/ Less(path, after))

Skip(path, depth, after) ==
    /\ after # NoKey
    /\ SubtreeMax(path, depth) = after \/ Less(SubtreeMax(path, depth), after)

(* The stack of the traversal holds [node, depth, path], top first. *)
RECURSIVE Traverse(_, _, _, _, _)
Traverse(store, stack, after, limit, out) ==
    IF stack = <<>> \/ Len(out) >= limit THEN out
    ELSE LET top == Head(stack)
             rest == Tail(stack)
         IN  IF top.node = Empty \/ Skip(top.path, top.depth, after) THEN Traverse(store, rest, after, limit, out)
             ELSE IF top.node \notin store THEN <<Missing>>
             ELSE IF IsLeaf(top.node)
             THEN Traverse(store, rest, after, limit,
                           IF after = NoKey THEN Append(out, top.node)
                           ELSE IF Less(after, top.node[2]) THEN Append(out, top.node) ELSE out)
             ELSE Traverse(store, <<[node |-> top.node[2], depth |-> top.depth + 1, path |-> top.path],
                             [node |-> top.node[3], depth |-> top.depth + 1, path |-> SetBit(top.path, top.depth)]>>
                           \o rest, after, limit, out)

LeavesAfter(store, root, after, limit) ==
    IF root = Empty \/ limit = 0 THEN <<>>
    ELSE Traverse(store, <<[node |-> root, depth |-> 0, path |-> ZeroKey]>>, after, limit, <<>>)

-----------------------------------------------------------------------------
NoEntries == [k \in Key |-> None]
Closed == [open |-> FALSE, root |-> Empty, pending |-> {}, entries |-> NoEntries]

Init ==
    /\ base = {}
    /\ trees = {[root |-> Empty, entries |-> NoEntries]}
    /\ overlay = Closed
    /\ updates = 0

(* An overlay on the store, for a block whose parent committed to a tree. *)
OpenOverlay(t) ==
    /\ ~overlay.open
    /\ overlay' = [Closed EXCEPT !.open = TRUE, !.root = t.root, !.entries = t.entries]
    /\ UNCHANGED <<base, trees, updates>>

(* update: reads hit the pending nodes first, then the base. *)
Update(k, v) ==
    LET result == UpdateAt(base \cup overlay.pending, overlay.root, 0, k, v)
    IN  /\ overlay.open /\ updates < MaxUpdates
        /\ overlay' = [overlay EXCEPT !.root = result.root, !.pending = @ \cup result.puts,
                                      !.entries[k] = v]
        /\ updates' = updates + 1
        /\ UNCHANGED <<base, trees>>

(* Mutant: only the nodes of the last change are written. *)
PersistRootOnly ==
    /\ overlay.open /\ Cardinality(trees) <= MaxTrees
    /\ base' = base \cup ({overlay.root} \cap overlay.pending)
    /\ trees' = trees \cup {[root |-> overlay.root, entries |-> overlay.entries]}
    /\ overlay' = Closed
    /\ UNCHANGED updates

(* into_pending and insert_sync_many. *)
Persist ==
    /\ overlay.open /\ Cardinality(trees) <= MaxTrees
    /\ base' = base \cup overlay.pending
    /\ trees' = trees \cup {[root |-> overlay.root, entries |-> overlay.entries]}
    /\ overlay' = Closed
    /\ UNCHANGED updates

(* A template, or a block that could not be computed. *)
Discard ==
    /\ overlay.open
    /\ overlay' = Closed
    /\ UNCHANGED <<base, trees, updates>>

Next ==
    \/ \E t \in trees : OpenOverlay(t)
    \/ \E k \in Key : \E v \in Value \cup {None} : Update(k, v)
    \/ Persist
    \/ Discard

Spec == Init /\ [][Next]_vars

-----------------------------------------------------------------------------
(* The tree a set of entries stands for: a subtree with one leaf is that   *)
(* leaf.                                                                   *)
RECURSIVE Canonical(_, _)
Canonical(leaves, depth) ==
    CASE leaves = {} -> Empty
      [] Cardinality(leaves) = 1 -> CHOOSE l \in leaves : TRUE
      [] OTHER -> Branch(Canonical({l \in leaves : Bit(l[2], depth) = 0}, depth + 1),
                         Canonical({l \in leaves : Bit(l[2], depth) = 1}, depth + 1))

LeavesIn(entries) == {Leaf(k, entries[k]) : k \in {j \in Key : entries[j] # None}}

(* Every committed tree, and the one under construction, with the nodes    *)
(* its readers see.                                                        *)
InUse ==
    {[root |-> t.root, entries |-> t.entries, store |-> base] : t \in trees}
    \cup {[root |-> overlay.root, entries |-> overlay.entries, store |-> base \cup overlay.pending]}

(* The root depends only on the set of (key, value) pairs, never on the    *)
(* order of insertions, overwrites and deletions.                          *)
RootIsCanonical == \A t \in InUse : t.root = Canonical(LeavesIn(t.entries), 0)

(* Every tree ever committed stays readable from the persistent store,     *)
(* whatever was derived from it or discarded since.                        *)
TreesAreReadable ==
    \A t \in InUse : \A k \in Key : GetAt(t.store, t.root, 0, k) = t.entries[k]

(* prove convinces the verifiers of what the tree holds, and of nothing    *)
(* else: no path of this tree, with any terminal, supports a false claim.  *)
ProofsDecide ==
    \A t \in InUse :
        LET paths == {Prove(t.store, t.root, 0, k).siblings : k \in Key}
            terminals == {Empty} \cup {Leaf(k, v) : k \in Key, v \in Value}
        IN  \A k \in Key :
              /\ t.entries[k] # None => VerifyInclusion(t.root, k, t.entries[k], Prove(t.store, t.root, 0, k))
              /\ t.entries[k] = None => VerifyExclusion(t.root, k, Prove(t.store, t.root, 0, k))
              /\ \A s \in paths : \A n \in terminals :
                   LET proof == [siblings |-> s, terminal |-> n]
                   IN  /\ VerifyExclusion(t.root, k, proof) => t.entries[k] = None
                       /\ \A v \in Value : VerifyInclusion(t.root, k, v, proof) => t.entries[k] = v

(* A page of leaves_after is what a sorted list of the entries has above   *)
(* the key, so a node that syncs page by page misses and repeats nothing.  *)
PagesAreExact ==
    \A t \in InUse :
        LET sorted == SetToSortSeq(LeavesIn(t.entries), LAMBDA l, m : Less(l[2], m[2]))
        IN  \A after \in Key \cup {NoKey} : \A limit \in 1 .. 2 :
              LET above == SelectSeq(sorted, LAMBDA l : IF after = NoKey THEN TRUE ELSE Less(after, l[2]))
              IN  LeavesAfter(t.store, t.root, after, limit) = SubSeq(above, 1, Min({limit, Len(above)}))
=============================================================================

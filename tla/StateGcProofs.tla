--------------------------- MODULE StateGcProofs ---------------------------
(***************************************************************************)
(* What the collector may delete, for any tree of blocks, any states and   *)
(* any number of collections and crashes.                                  *)
(*                                                                         *)
(* SettledStatesKept is not inductive: it needs what a collection has      *)
(* found so far (GcInv) and what a verification has left to write          *)
(* (VirtInv).                                                              *)
(***************************************************************************)
EXTENDS StateGc, TLAPS

Clean(b) == Past[b] \cap raced = {}

(* While a block is verified, its states are stored or about to be. *)
VirtInv ==
    virt.at # "idle" =>
        /\ virt.block \in headers
        /\ verdict[virt.block] = "none"
        /\ virt.todo \subseteq Leaves[virt.block]
        /\ Clean(virt.block) => Leaves[virt.block] \subseteq states \cup virt.todo
        /\ virt.at = "states" => virt.block \in nodes

(* What a collection has done with a block it must look at. *)
Walked(b) == b \in gc.live \cup gc.missed \/ Leaves[b] \subseteq gc.marked

(* A collection of prune looks at every header, since none is added under  *)
(* the write lock; one of the virtual thread at every valid block, since   *)
(* the thread verifies none meanwhile.                                     *)
GcInv ==
    /\ gc.at = "off" <=> gc.by = "nobody"
    /\ gc.by = "virtual" => virt.at = "idle"
    /\ gc.at \in {"mark", "delete"} =>
           /\ gc.live \cup gc.missed \subseteq headers
           /\ gc.marked \subseteq UNION {Leaves[b] : b \in headers}
           /\ \A b \in headers : gc.by = "prune" \/ verdict[b] = "valid" => Walked(b)
    /\ gc.at = "collect" => gc.marked = {} /\ gc.missed = {}
    /\ gc.at = "delete" => /\ gc.live = {}
                           /\ gc.listed \cap gc.marked = {}
                           /\ states \ gc.listed \subseteq UNION {Leaves[b] : b \in headers}

Inv == TypeOK /\ SettledStatesKept /\ HonestBlocksValid /\ StatesAreSwept /\ VirtInv /\ GcInv

(* What a block writes and reads is between its own tree and its parent's. *)
LEMMA TreeChanges ==
    ASSUME NEW b \in Block
    PROVE  /\ Leaves[b] \subseteq LeavesOf(Parent[b]) \cup Changed(b)
           /\ Reads(b) \subseteq LeavesOf(Parent[b])
           /\ Leaves[b] \subseteq State
           /\ Changed(b) \subseteq Leaves[b]
  BY DEF Changed, Reads, State

(* The invariant holds when the stores are empty. *)
LEMMA InitInv == Init => Inv
  BY DEF Init, Inv, TypeOK, SettledStatesKept, HonestBlocksValid, StatesAreSwept, VirtInv, GcInv,
         Resting, NoGc, State

(* The parent of a block that may be verified has all its states, unless a *)
(* race reached it.                                                        *)
LEMMA ParentIsThere ==
    ASSUME Inv, NEW b \in Block, Clean(Parent[b]),
           Parent[b] # Genesis => Parent[b] \in headers /\ verdict[Parent[b]] = "valid"
    PROVE  LeavesOf(Parent[b]) \subseteq states
  BY ParentAssumption DEF Inv, SettledStatesKept, LeavesOf, Clean

(* Every step preserves it, action by action. *)
LEMMA NextInv ==
    ASSUME Inv, [Next]_vars
    PROVE  Inv'
  <1> USE DEF Inv
  <1>1. ASSUME NEW b \in Block, CommitHeader(b) PROVE Inv'
    <2>1. TypeOK'
      BY <1>1 DEF CommitHeader, WriteLocked, TypeOK
    <2>2. SettledStatesKept' /\ HonestBlocksValid'
      BY <1>1 DEF CommitHeader, WriteLocked, TypeOK, SettledStatesKept, HonestBlocksValid
    <2>3. VirtInv'
      BY <1>1 DEF CommitHeader, WriteLocked, TypeOK, VirtInv, Clean
    <2>4. GcInv' /\ StatesAreSwept'
      BY <1>1 DEF CommitHeader, WriteLocked, TypeOK, GcInv, Walked, StatesAreSwept, VirtInv
    <2> QED BY <2>1, <2>2, <2>3, <2>4
  <1>2. ASSUME NEW b \in Block, StartVerify(b) PROVE Inv'
    <2>a. Clean(Parent[b]) => LeavesOf(Parent[b]) \subseteq states
      BY <1>2, ParentIsThere DEF StartVerify
    <2>b. Clean(b) => Clean(Parent[b])
      BY TreeAssumption DEF Clean
    <2>1. TypeOK'
      BY <1>2, <2>a, <2>b, TreeChanges DEF StartVerify, VirtualIsFree, TypeOK
    <2>2. SettledStatesKept' /\ HonestBlocksValid'
      BY <1>2, <2>a, TreeChanges DEF StartVerify, VirtualIsFree, TypeOK, SettledStatesKept, HonestBlocksValid, Clean
    <2>3. VirtInv'
      BY <1>2, <2>a, <2>b, TreeChanges DEF StartVerify, VirtualIsFree, TypeOK, VirtInv, Clean
    <2>4. GcInv' /\ StatesAreSwept'
      BY <1>2, <2>a, <2>b, TreeChanges DEF StartVerify, VirtualIsFree, TypeOK, GcInv, Walked, StatesAreSwept, VirtInv
    <2> QED BY <2>1, <2>2, <2>3, <2>4
  <1>3. ASSUME NEW b \in Block, CommitChainBlock(b) PROVE Inv'
    <2>1. TypeOK'
      BY <1>3, TreeChanges DEF CommitChainBlock, TypeOK
    <2>2. SettledStatesKept' /\ HonestBlocksValid'
      BY <1>3, TreeChanges DEF CommitChainBlock, TypeOK, SettledStatesKept, HonestBlocksValid
    <2>3. VirtInv'
      BY <1>3, TreeChanges DEF CommitChainBlock, TypeOK, VirtInv, Clean
    <2>4. GcInv' /\ StatesAreSwept'
      BY <1>3, TreeChanges DEF CommitChainBlock, TypeOK, GcInv, Walked, StatesAreSwept, VirtInv
    <2> QED BY <2>1, <2>2, <2>3, <2>4
  <1>4. CASE InsertNodes
    <2>1. TypeOK'
      BY <1>4 DEF InsertNodes, TypeOK, VirtInv
    <2>2. SettledStatesKept' /\ HonestBlocksValid'
      BY <1>4 DEF InsertNodes, TypeOK, SettledStatesKept, HonestBlocksValid
    <2>3. VirtInv'
      BY <1>4 DEF InsertNodes, TypeOK, VirtInv, Clean
    <2>4. GcInv' /\ StatesAreSwept'
      BY <1>4 DEF InsertNodes, TypeOK, GcInv, Walked, StatesAreSwept, VirtInv
    <2> QED BY <2>1, <2>2, <2>3, <2>4
  <1>5. ASSUME NEW s \in State, InsertState(s) PROVE Inv'
    <2>1. TypeOK'
      BY <1>5 DEF InsertState, TypeOK
    <2>2. SettledStatesKept' /\ HonestBlocksValid'
      BY <1>5 DEF InsertState, TypeOK, SettledStatesKept, HonestBlocksValid
    <2>3. VirtInv'
      BY <1>5 DEF InsertState, TypeOK, VirtInv, Clean
    <2>4. GcInv' /\ StatesAreSwept'
      BY <1>5 DEF InsertState, TypeOK, GcInv, Walked, StatesAreSwept, VirtInv
    <2> QED BY <2>1, <2>2, <2>3, <2>4
  <1>6. CASE MarkValid
    <2>1. TypeOK'
      BY <1>6 DEF MarkValid, Resting, TypeOK
    <2>2. SettledStatesKept' /\ HonestBlocksValid'
      BY <1>6 DEF MarkValid, Resting, TypeOK, SettledStatesKept, HonestBlocksValid, VirtInv, Clean
    <2>3. VirtInv'
      BY <1>6 DEF MarkValid, Resting, TypeOK, VirtInv, Clean
    <2>4. GcInv' /\ StatesAreSwept'
      BY <1>6 DEF MarkValid, Resting, TypeOK, GcInv, Walked, StatesAreSwept, VirtInv
    <2> QED BY <2>1, <2>2, <2>3, <2>4
  <1>7. ASSUME NEW pp \in Block, NEW gone \in SUBSET Prunable(pp), Prune(pp, gone) PROVE Inv'
    <2>1. TypeOK'
      BY <1>7 DEF Prune, Prunable, NoGc, TypeOK
    <2>2. SettledStatesKept' /\ HonestBlocksValid'
      BY <1>7 DEF Prune, Prunable, NoGc, TypeOK, SettledStatesKept, HonestBlocksValid
    <2>3. VirtInv'
      BY <1>7 DEF Prune, Prunable, NoGc, TypeOK, VirtInv, Clean
    <2>4. GcInv' /\ StatesAreSwept'
      BY <1>7 DEF Prune, Prunable, NoGc, TypeOK, GcInv, Walked, StatesAreSwept, VirtInv
    <2> QED BY <2>1, <2>2, <2>3, <2>4
  <1>8. CASE ForceGc
    <2>1. TypeOK'
      BY <1>8 DEF ForceGc, NoGc, TypeOK
    <2>2. SettledStatesKept' /\ HonestBlocksValid'
      BY <1>8 DEF ForceGc, NoGc, TypeOK, SettledStatesKept, HonestBlocksValid
    <2>3. VirtInv'
      BY <1>8 DEF ForceGc, NoGc, TypeOK, VirtInv, Clean
    <2>4. GcInv' /\ StatesAreSwept'
      BY <1>8 DEF ForceGc, NoGc, TypeOK, GcInv, Walked, StatesAreSwept, VirtInv
    <2> QED BY <2>1, <2>2, <2>3, <2>4
  <1>9. CASE CollectRoots
    <2>1. TypeOK'
      BY <1>9 DEF CollectRoots, TypeOK
    <2>2. SettledStatesKept' /\ HonestBlocksValid'
      BY <1>9 DEF CollectRoots, TypeOK, SettledStatesKept, HonestBlocksValid
    <2>3. VirtInv'
      BY <1>9 DEF CollectRoots, TypeOK, VirtInv, Clean
    <2>4. GcInv' /\ StatesAreSwept'
      BY <1>9 DEF CollectRoots, TypeOK, GcInv, Walked, StatesAreSwept, VirtInv
    <2> QED BY <2>1, <2>2, <2>3, <2>4
  <1>10. ASSUME NEW b \in Block, NEW found \in SUBSET Leaves[b], MarkRoot(b, found) PROVE Inv'
    <2>a. found \subseteq State
      BY <1>10, TreeChanges
    <2>1. TypeOK'
      BY <1>10, <2>a, Zenon DEF MarkRoot, TypeOK
    <2>2. SettledStatesKept' /\ HonestBlocksValid'
      BY <1>10 DEF MarkRoot, TypeOK, SettledStatesKept, HonestBlocksValid
    <2>3. VirtInv'
      BY <1>10 DEF MarkRoot, TypeOK, VirtInv, Clean
    <2>4. GcInv' /\ StatesAreSwept'
      BY <1>10 DEF MarkRoot, TypeOK, GcInv, Walked, StatesAreSwept, VirtInv
    <2> QED BY <2>1, <2>2, <2>3, <2>4
  <1>11. CASE ListStates
    <2>1. TypeOK'
      BY <1>11 DEF ListStates, TypeOK
    <2>2. SettledStatesKept' /\ HonestBlocksValid'
      BY <1>11 DEF ListStates, TypeOK, SettledStatesKept, HonestBlocksValid
    <2>3. VirtInv'
      BY <1>11 DEF ListStates, TypeOK, VirtInv, Clean
    <2>4. GcInv' /\ StatesAreSwept'
      BY <1>11 DEF ListStates, TypeOK, GcInv, Walked, StatesAreSwept, VirtInv
    <2> QED BY <2>1, <2>2, <2>3, <2>4
  <1>12. CASE DeleteStates
    <2>a. \A b \in headers : gc.by = "prune" \/ verdict[b] = "valid" => b \in gc.missed \/ Leaves[b] \cap gc.listed = {}
      BY <1>12 DEF DeleteStates, GcInv, Walked
    <2>b. raced \subseteq raced' /\ \A b \in gc.missed : verdict[b] = "valid" \/ virt.block = b => b \in raced'
      BY <1>12 DEF DeleteStates
    <2>c. headers \subseteq Block /\ \A b \in Block : b \in Past[b]
      BY TreeAssumption DEF TypeOK
    <2>1. TypeOK'
      BY <1>12 DEF DeleteStates, TypeOK
    <2>2. SettledStatesKept' /\ HonestBlocksValid'
      <3>1. SettledStatesKept'
        <4> SUFFICES ASSUME NEW b \in headers, verdict[b] = "valid", Past[b] \cap raced' = {}
                     PROVE  b \in nodes /\ Leaves[b] \subseteq states \ gc.listed
          BY <1>12 DEF DeleteStates, SettledStatesKept
        <4>1. b \notin gc.missed
          BY <2>b, <2>c
        <4>2. b \in nodes /\ Leaves[b] \subseteq states
          BY <2>b DEF SettledStatesKept
        <4> QED BY <2>a, <4>1, <4>2
      <3>2. HonestBlocksValid'
        BY <1>12, <2>b DEF DeleteStates, HonestBlocksValid
      <3> QED BY <3>1, <3>2
    <2>3. VirtInv'
      <3> SUFFICES ASSUME virt.at # "idle", Past[virt.block] \cap raced' = {}
                   PROVE  Leaves[virt.block] \subseteq (states \ gc.listed) \cup virt.todo
        BY <1>12 DEF DeleteStates, VirtInv, Clean
      <3>1. virt.block \in headers /\ Leaves[virt.block] \subseteq states \cup virt.todo
        BY <2>b DEF VirtInv, Clean
      <3>2. virt.block \notin gc.missed
        BY <2>b, <2>c, <3>1
      <3>3. gc.by = "prune"
        BY <1>12 DEF DeleteStates, TypeOK, GcInv
      <3> QED BY <2>a, <3>1, <3>2, <3>3
    <2>4. GcInv' /\ StatesAreSwept'
      BY <1>12 DEF DeleteStates, TypeOK, GcInv, Walked, StatesAreSwept, VirtInv
    <2> QED BY <2>1, <2>2, <2>3, <2>4
  <1>13. CASE EndGc
    <2>1. TypeOK'
      BY <1>13 DEF EndGc, NoGc, TypeOK
    <2>2. SettledStatesKept' /\ HonestBlocksValid'
      BY <1>13 DEF EndGc, NoGc, TypeOK, SettledStatesKept, HonestBlocksValid
    <2>3. VirtInv'
      BY <1>13 DEF EndGc, NoGc, TypeOK, VirtInv, Clean
    <2>4. GcInv' /\ StatesAreSwept'
      BY <1>13 DEF EndGc, NoGc, TypeOK, GcInv, Walked, StatesAreSwept, VirtInv
    <2> QED BY <2>1, <2>2, <2>3, <2>4
  <1>14. CASE Crash
    <2>1. TypeOK'
      BY <1>14 DEF Crash, NoGc, Resting, TypeOK
    <2>2. SettledStatesKept' /\ HonestBlocksValid'
      BY <1>14 DEF Crash, NoGc, Resting, TypeOK, SettledStatesKept, HonestBlocksValid
    <2>3. VirtInv'
      BY <1>14 DEF Crash, NoGc, Resting, TypeOK, VirtInv, Clean
    <2>4. GcInv' /\ StatesAreSwept'
      BY <1>14 DEF Crash, NoGc, Resting, TypeOK, GcInv, Walked, StatesAreSwept, VirtInv
    <2> QED BY <2>1, <2>2, <2>3, <2>4
  <1>15. CASE UNCHANGED vars
    BY <1>15 DEF vars, TypeOK, SettledStatesKept, HonestBlocksValid, StatesAreSwept, VirtInv, GcInv, Walked, Clean
  <1> QED
    BY <1>1, <1>2, <1>3, <1>4, <1>5, <1>6, <1>7, <1>8, <1>9, <1>10, <1>11, <1>12, <1>13, <1>14, <1>15 DEF Next

(* So it holds throughout. *)
LEMMA Inductive == Spec => []Inv
  <1>1. Inv /\ [Next]_vars => Inv'
    BY NextInv
  <1> QED
    BY <1>1, InitInv, PTL DEF Spec

(* A collection, in prune or forced, deletes no state that a retained      *)
(* valid block reaches, unless that block or one below it was being        *)
(* verified while the collection had passed its root (mark_and_sweep).     *)
THEOREM CollectionIsSafe == Spec => []SettledStatesKept
  <1>1. Inv => SettledStatesKept
    BY DEF Inv
  <1> QED BY <1>1, Inductive, PTL

(* verify_block_state reads a default account in place of a deleted one    *)
(* only on top of such a block.                                            *)
THEOREM RejectionNeedsRace == Spec => []HonestBlocksValid
  <1>1. Inv => HonestBlocksValid
    BY DEF Inv
  <1> QED BY <1>1, Inductive, PTL

(* A collection leaves no state that only pruned blocks reach, whatever    *)
(* the virtual thread writes meanwhile.                                    *)
THEOREM CollectionIsComplete == Spec => []StatesAreSwept
  <1>1. Inv => StatesAreSwept
    BY DEF Inv
  <1> QED BY <1>1, Inductive, PTL
=============================================================================

------------------------------ MODULE StateGc ------------------------------
(***************************************************************************)
(* The content-addressed stores behind the account commitment, and their   *)
(* garbage collector.  Verifying a block writes the tree nodes of its root *)
(* and the states it changed; mark_and_sweep deletes the states that no    *)
(* root of a retained header reaches.  prune always ends with it, under    *)
(* the pruning lock, which the virtual thread does not take to verify; an  *)
(* environment variable adds runs of it on the virtual thread itself.      *)
(*                                                                         *)
(* The tree of a block is the set of states at its leaves; crypto/smt is   *)
(* not modelled here.  DID documents are states like any other.            *)
(***************************************************************************)
EXTENDS Naturals, FiniteSets

CONSTANTS
    Block,        \* the blocks above genesis
    Genesis,
    Parent,       \* Block -> its selected parent
    Leaves,       \* Block -> the states under its account commitment
    MaxCrashes,
    ForcedGc      \* SAHYADRI_GC_EVERY_N_BLOCKS is set

ASSUME ForcedAssumption == ForcedGc \in BOOLEAN

ASSUME ParentAssumption ==
    /\ Genesis \notin Block
    /\ Parent \in [Block -> Block \cup {Genesis}]

VARIABLES
    headers,  \* headers_store
    nodes,    \* smt_nodes_store: blocks whose root and inner nodes are stored
    states,   \* account_states_store and did_states_store
    verdict,  \* Block -> "none", "valid" or "bad"
    roots,    \* account_roots_store: Block -> "none", "right" or "wrong"
    virt,     \* the virtual thread: [at, block, todo]
    gc,       \* the collector: [at, by, live, missed, marked, listed]
    raced,    \* history: blocks verified while a collection missed their nodes
    crashes   \* history: how often the node crashed

vars == <<headers, nodes, states, verdict, roots, virt, gc, raced, crashes>>

-----------------------------------------------------------------------------
State == UNION {Leaves[b] : b \in Block}

LeavesOf(b) == IF b = Genesis THEN {} ELSE Leaves[b]

(* The snapshots a block writes, and the ones it reads for the accounts it *)
(* touches.  A missing one is read as the default state.                   *)
Changed(b) == Leaves[b] \ LeavesOf(Parent[b])
Reads(b) == LeavesOf(Parent[b]) \ Leaves[b]

Resting == [at |-> "idle", block |-> Genesis, todo |-> {}]
NoGc == [at |-> "off", by |-> "nobody", live |-> {}, missed |-> {}, marked |-> {}, listed |-> {}]

(* The pruning lock: the collector of prune holds it for writing, the one  *)
(* of the virtual thread for reading.                                      *)
WriteLocked == gc.by = "prune"
VirtualIsFree == gc.by # "virtual"

Init ==
    /\ headers = {}
    /\ nodes = {}
    /\ states = {}
    /\ verdict = [b \in Block |-> "none"]
    /\ roots = [b \in Block |-> "none"]
    /\ virt = Resting
    /\ gc = NoGc
    /\ raced = {}
    /\ crashes = 0

-----------------------------------------------------------------------------
(* process_header, under the pruning lock. *)
CommitHeader(b) ==
    /\ ~WriteLocked
    /\ b \notin headers /\ verdict[b] = "none"
    /\ Parent[b] \in headers \cup {Genesis}
    /\ headers' = headers \cup {b}
    /\ UNCHANGED <<nodes, states, verdict, roots, virt, gc, raced, crashes>>

(* verify_block_state computes the root: it is the one in the header only  *)
(* if every state it reads was there.  What a rejected block wrote is junk *)
(* that no root reaches, and left out.                                     *)
StartVerify(b) ==
    /\ virt.at = "idle" /\ VirtualIsFree
    /\ b \in headers /\ verdict[b] = "none"
    /\ Parent[b] # Genesis => Parent[b] \in headers /\ verdict[Parent[b]] = "valid"
    /\ IF Reads(b) \subseteq states
       THEN virt' = [at |-> "nodes", block |-> b, todo |-> Changed(b)] /\ UNCHANGED verdict
       ELSE verdict' = [verdict EXCEPT ![b] = "bad"] /\ UNCHANGED virt
    /\ UNCHANGED <<headers, nodes, states, roots, gc, raced, crashes>>

(* insert_sync_many writes node by node; this is the last one, after which *)
(* the whole tree can be walked.                                           *)
InsertNodes ==
    /\ virt.at = "nodes"
    /\ nodes' = nodes \cup {virt.block}
    /\ virt' = [virt EXCEPT !.at = "states"]
    /\ UNCHANGED <<headers, states, verdict, roots, gc, raced, crashes>>

(* Mutant: a batch whose write is left to the commit. *)
InsertStateLater(s) ==
    /\ virt.at = "states"
    /\ s \in virt.todo
    /\ virt' = [virt EXCEPT !.todo = @ \ {s}]
    /\ UNCHANGED <<headers, nodes, states, verdict, roots, gc, raced, crashes>>

(* insert_sync: every snapshot in a write of its own. *)
InsertState(s) ==
    /\ virt.at = "states"
    /\ s \in virt.todo
    /\ states' = states \cup {s}
    /\ virt' = [virt EXCEPT !.todo = @ \ {s}]
    /\ UNCHANGED <<headers, nodes, verdict, roots, gc, raced, crashes>>

(* commit_block_state *)
MarkValid ==
    /\ virt.at = "states" /\ virt.todo = {}
    /\ verdict' = [verdict EXCEPT ![virt.block] = "valid"]
    /\ virt' = Resting
    /\ UNCHANGED <<headers, nodes, states, roots, gc, raced, crashes>>

(* commit_virtual_state for a block that joins the chain: the root and the *)
(* snapshots once more, in the batch of the new virtual state.             *)
CommitChainBlock(b) ==
    LET complete == Reads(b) \subseteq states
    IN  /\ virt.at = "idle" /\ VirtualIsFree
        /\ b \in headers /\ verdict[b] = "valid" /\ roots[b] = "none"
        /\ Parent[b] # Genesis => roots[Parent[b]] # "none"
        /\ roots' = [roots EXCEPT ![b] = IF complete THEN "right" ELSE "wrong"]
        /\ nodes' = IF complete THEN nodes \cup {b} ELSE nodes
        /\ states' = IF complete THEN states \cup Changed(b) ELSE states
        /\ UNCHANGED <<headers, verdict, virt, gc, raced, crashes>>

-----------------------------------------------------------------------------
Past[b \in Block \cup {Genesis}] ==
    IF b = Genesis THEN {Genesis} ELSE {b} \cup Past[Parent[b]]

(* Selected parents form a tree, so the recursion ends at genesis. *)
ASSUME TreeAssumption == \A b \in Block : Past[b] = {b} \cup Past[Parent[b]]

(* prune deletes headers below the pruning point, a block of the chain     *)
(* that every unfinished block is above of, keeps some of them, and goes   *)
(* on to the collector under the same write lock.                          *)
Prunable(pp) == {b \in headers : pp \notin Past[b]}

Prune(pp, gone) ==
    /\ gc.at = "off"
    /\ pp \in headers /\ roots[pp] # "none"
    /\ \A b \in headers : verdict[b] = "none" => pp \in Past[b]
    /\ gone \subseteq Prunable(pp)
    /\ headers' = headers \ gone
    /\ gc' = [NoGc EXCEPT !.at = "collect", !.by = "prune"]
    /\ UNCHANGED <<nodes, states, verdict, roots, virt, raced, crashes>>

(* The forced trigger at the end of a commit. *)
ForceGc ==
    /\ ForcedGc
    /\ gc.at = "off" /\ virt.at = "idle" /\ \E b \in Block : roots[b] # "none"
    /\ gc' = [NoGc EXCEPT !.at = "collect", !.by = "virtual"]
    /\ UNCHANGED <<headers, nodes, states, verdict, roots, virt, raced, crashes>>

(* Mutant: only the blocks of the chain are live. *)
CollectChainRoots ==
    /\ gc.at = "collect"
    /\ gc' = [gc EXCEPT !.at = "mark", !.live = {b \in headers : roots[b] # "none"}]
    /\ roots' = [b \in Block |-> IF b \in headers THEN roots[b] ELSE "none"]
    /\ UNCHANGED <<headers, nodes, states, verdict, virt, raced, crashes>>

(* mark_and_sweep, 1 and 2: the live roots; roots without a header go. *)
CollectRoots ==
    /\ gc.at = "collect"
    /\ gc' = [gc EXCEPT !.at = "mark", !.live = headers]
    /\ roots' = [b \in Block |-> IF b \in headers THEN roots[b] ELSE "none"]
    /\ UNCHANGED <<headers, nodes, states, verdict, virt, raced, crashes>>

(* 3: the walk from one live root.  While some of its nodes are not stored *)
(* it reaches the leaves of the others only.                               *)
MarkRoot(b, found) ==
    /\ gc.at = "mark" /\ b \in gc.live
    /\ found \subseteq Leaves[b]
    /\ b \in nodes => found = Leaves[b]
    /\ gc' = [gc EXCEPT !.live = @ \ {b}, !.marked = @ \cup found,
                        !.missed = IF b \in nodes THEN @ ELSE @ \cup {b}]
    /\ UNCHANGED <<headers, nodes, states, verdict, roots, virt, raced, crashes>>

(* Mutant: every stored tree is taken as live. *)
ListUnstored ==
    /\ gc.at = "mark" /\ gc.live = {}
    /\ gc' = [gc EXCEPT !.at = "delete", !.listed = states \ UNION {Leaves[b] : b \in nodes}]
    /\ UNCHANGED <<headers, nodes, states, verdict, roots, virt, raced, crashes>>

(* 4 and 5: the nodes are counted, the states are listed and deleted. *)
ListStates ==
    /\ gc.at = "mark" /\ gc.live = {}
    /\ gc' = [gc EXCEPT !.at = "delete", !.listed = states \ gc.marked]
    /\ UNCHANGED <<headers, nodes, states, verdict, roots, virt, raced, crashes>>

DeleteStates ==
    /\ gc.at = "delete"
    /\ states' = states \ gc.listed
    /\ gc' = [gc EXCEPT !.at = "done"]
    /\ raced' = raced \cup {b \in gc.missed : verdict[b] = "valid" \/ virt.block = b}
    /\ UNCHANGED <<headers, nodes, verdict, roots, virt, crashes>>

EndGc ==
    /\ gc.at = "done"
    /\ gc' = NoGc
    /\ UNCHANGED <<headers, nodes, states, verdict, roots, virt, raced, crashes>>

(* All writes are synchronous: a crash loses what the threads were doing. *)
Crash ==
    /\ crashes < MaxCrashes
    /\ virt.at # "idle" \/ gc.at # "off"
    /\ virt' = Resting /\ gc' = NoGc
    /\ crashes' = crashes + 1
    /\ UNCHANGED <<headers, nodes, states, verdict, roots, raced>>

Next ==
    \/ \E b \in Block : CommitHeader(b) \/ StartVerify(b) \/ CommitChainBlock(b)
    \/ InsertNodes \/ (\E s \in State : InsertState(s)) \/ MarkValid
    \/ \E pp \in Block : \E gone \in SUBSET Prunable(pp) : Prune(pp, gone)
    \/ (\E b \in Block : \E found \in SUBSET Leaves[b] : MarkRoot(b, found))
    \/ ForceGc \/ CollectRoots \/ ListStates \/ DeleteStates \/ EndGc
    \/ Crash

Spec == Init /\ [][Next]_vars

-----------------------------------------------------------------------------
(* Types of the stores and the two threads. *)
TypeOK ==
    /\ headers \subseteq Block /\ nodes \subseteq Block
    /\ states \subseteq State
    /\ verdict \in [Block -> {"none", "valid", "bad"}]
    /\ roots \in [Block -> {"none", "right", "wrong"}]
    /\ virt \in [at : {"idle", "nodes", "states"}, block : Block \cup {Genesis}, todo : SUBSET State]
    /\ gc \in [at : {"off", "collect", "mark", "delete", "done"}, by : {"nobody", "prune", "virtual"},
               live : SUBSET Block, missed : SUBSET Block, marked : SUBSET State, listed : SUBSET State]
    /\ raced \subseteq Block /\ crashes \in Nat

(* The state of every valid block whose header is retained can be read:    *)
(* the collector never deletes what a future block may build upon.         *)
LiveStatesKept ==
    \A b \in headers : verdict[b] = "valid" => b \in nodes /\ Leaves[b] \subseteq states

(* How far a race with the collector of prune reaches: the state of a      *)
(* valid retained block can be read unless the block, or one below it, was *)
(* being verified while a collection had passed its root unfinished.       *)
SettledStatesKept ==
    \A b \in headers : verdict[b] = "valid" /\ Past[b] \cap raced = {}
                           => b \in nodes /\ Leaves[b] \subseteq states

(* A block whose header commits to the right root is disqualified only on  *)
(* top of such a block: no other read of verify_block_state falls back to  *)
(* the default account.                                                    *)
HonestBlocksValid == \A b \in Block : verdict[b] = "bad" => Past[Parent[b]] \cap raced # {}

(* After a collection every stored state belongs to a retained block.      *)
StatesAreSwept == gc.at = "done" => states \subseteq UNION {Leaves[b] : b \in headers}
=============================================================================

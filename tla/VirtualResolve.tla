--------------------------- MODULE VirtualResolve ---------------------------
(***************************************************************************)
(* Resolution of the virtual block (pipeline/virtual_processor): whenever  *)
(* block bodies arrived, search for the new sink in the past of the body   *)
(* tips, verify the chain blocks on the way to each candidate, pick the    *)
(* virtual parents and commit the virtual state together with the selected *)
(* chain store.                                                            *)
(*                                                                         *)
(* The header and body processors add blocks between any two steps of the  *)
(* virtual processor.  The process may crash between any two steps: the    *)
(* stores survive, the search and the channel do not.  Whether a block's   *)
(* state verifies is a choice made once, when the block is verified.  The  *)
(* pruning point does not move: it is genesis throughout.                  *)
(***************************************************************************)
EXTENDS SahyadriConsensus

CONSTANT MaxCrashes     \* bound on the number of crashes

VARIABLES
    status,      \* statuses_store
    tips,        \* body_tips_store
    inbox,       \* does the virtual channel hold messages?
    virt,        \* the virtual state: its parents and its consensus data
    chainStore,  \* selected_chain_store: the block at each index, from 0
    search,      \* the local state of resolve_virtual (its finality point stays, as history)
    crashes

virtVars == <<virt, chainStore>>
vars == <<dagVars, status, tips, inbox, virt, chainStore, search, crashes>>

Sink == virt.data.selected
HasBody(b) == status[b] # "HeaderOnly"

Resting == [phase |-> "idle", tips |-> {}, heap |-> {}, finality |-> Origin, diff |-> Origin,
            candidate |-> Origin, path |-> <<>>, queue |-> <<>>, parents |-> <<>>, size |-> 0]

(* virtual_finality_point *)
VirtualFinalityPoint ==
    LET point == FinalityPoint(virt.data)
    IN  IF point # Origin /\ IsChainAncestorOf(pruningPoint, point) THEN point ELSE pruningPoint

Init ==
    /\ DagInit
    /\ status = [b \in {Genesis} |-> "StateValid"]
    /\ tips = {Genesis}
    /\ inbox = FALSE
    /\ virt = [parents |-> {Genesis}, data |-> ConsensusData({Genesis})]
    /\ chainStore = [i \in {0} |-> Genesis]
    /\ search = Resting
    /\ crashes = 0

-----------------------------------------------------------------------------
(* The header processor commits a header. *)
CommitHeader(b, ps) ==
    /\ AddHeader(b, ps)
    /\ status' = WithEntry(status, b, "HeaderOnly")
    /\ UNCHANGED <<tips, inbox, virtVars, search, crashes>>

(* The body processor commits a body, all of whose parents have bodies,    *)
(* updates the body tips, and forwards the block to the virtual processor. *)
CommitBody(b) ==
    /\ status[b] = "HeaderOnly"
    /\ \A p \in parents[b] : HasBody(p)
    /\ status' = [status EXCEPT ![b] = "StatePendingVerification"]
    /\ tips' = (tips \ parents[b]) \cup {b}
    /\ inbox' = TRUE
    /\ UNCHANGED <<dagVars, virtVars, search, crashes>>

-----------------------------------------------------------------------------
(* worker, resolve_virtual: drain the channel and snapshot the tips that   *)
(* are in the future of the finality point.                                *)
StartResolve ==
    /\ search.phase = "idle" /\ inbox
    /\ inbox' = FALSE
    /\ LET fp == VirtualFinalityPoint
           snapshot == {t \in tips : IsDagAncestorOf(fp, t)}
       IN  search' = [Resting EXCEPT !.phase = "pop", !.tips = snapshot, !.heap = snapshot,
                                     !.finality = fp, !.diff = Sink]
    /\ UNCHANGED <<dagVars, status, tips, virtVars, crashes>>

(* Mutant: only blocks strictly above the finality point are pushed. *)
ReplaceAboveFinality(c, heap) ==
    heap \cup {p \in parents[c] \ {search.finality} : \A h \in heap : ~IsDagAncestorOf(p, h)}

(* Mutant: the search follows selected parents only. *)
ReplaceBySelectedParent(c, heap) == heap \cup ({gd[c].selected} \ {Origin})

(* The rest of an iteration of sink_search_algorithm whose candidate was   *)
(* not taken: its parents replace it in the heap, except those in the past *)
(* of the heap or not in the future of the finality point.                 *)
ReplaceByParents(c, heap) ==
    heap \cup {p \in parents[c] : /\ IsDagAncestorOf(search.finality, p)
                                  /\ \A h \in heap : ~IsDagAncestorOf(p, h)}

(* Mutant: the finality point need not be on the candidate's chain. *)
PopIgnoresFinality ==
    /\ search.phase = "pop" /\ search.heap # {}
    /\ LET c == FindSelectedParent(search.heap)
           rest == search.heap \ {c}
           split == SplitPoint(search.diff, c)
       IN  IF status[c] # "DisqualifiedFromChain"
           THEN search' = [search EXCEPT !.phase = "walk", !.heap = rest, !.candidate = c,
                                         !.diff = split, !.path = ChainPath(split, c)]
           ELSE search' = [search EXCEPT !.heap = ReplaceByParents(c, rest)]
    /\ UNCHANGED <<dagVars, status, tips, inbox, virtVars, crashes>>

(* Pop the heaviest candidate; unless it violates finality or is known to  *)
(* be disqualified, walk its chain from the split point with the block     *)
(* verified last.                                                          *)
PopCandidate ==
    /\ search.phase = "pop" /\ search.heap # {}
    /\ LET c == FindSelectedParent(search.heap)
           rest == search.heap \ {c}
           split == SplitPoint(search.diff, c)
       IN  IF IsChainAncestorOf(search.finality, c) /\ status[c] # "DisqualifiedFromChain"
           THEN search' = [search EXCEPT !.phase = "walk", !.heap = rest, !.candidate = c,
                                         !.diff = split, !.path = ChainPath(split, c)]
           ELSE search' = [search EXCEPT !.heap = ReplaceByParents(c, rest)]
    /\ UNCHANGED <<dagVars, status, tips, inbox, virtVars, crashes>>

(* The critical error of the search: no candidate is left. *)
HeapExhausted == search.phase = "pop" /\ search.heap = {}

(* One block of the walk of calculate_registry_unit_state_relatively. *)
WalkOn(valid, statusOfBlock) ==
    LET b == Head(search.path) IN
    /\ status' = [status EXCEPT ![b] = statusOfBlock]
    /\ search' = [search EXCEPT !.path = Tail(@), !.diff = IF valid THEN b ELSE @]

(* Mutant: a disqualified selected parent does not disqualify the block. *)
VerifyOnItsOwn ==
    /\ search.phase = "walk" /\ search.path # <<>>
    /\ LET b == Head(search.path)
       IN  \/ status[b] = "StateValid" /\ WalkOn(TRUE, status[b])
           \/ status[b] = "DisqualifiedFromChain" /\ WalkOn(FALSE, status[b])
           \/ /\ status[b] = "StatePendingVerification"
              /\ WalkOn(TRUE, "StateValid") \/ WalkOn(FALSE, "DisqualifiedFromChain")
    /\ UNCHANGED <<dagVars, tips, inbox, virtVars, crashes>>

VerifyChainBlock ==
    /\ search.phase = "walk" /\ search.path # <<>>
    /\ LET b == Head(search.path)
       IN  \/ gd[b].selected # search.diff /\ WalkOn(FALSE, "DisqualifiedFromChain")
           \/ /\ gd[b].selected = search.diff
              /\ \/ status[b] = "StateValid" /\ WalkOn(TRUE, status[b])
                 \/ status[b] = "DisqualifiedFromChain" /\ WalkOn(FALSE, status[b])
                 \/ /\ status[b] = "StatePendingVerification"
                    /\ WalkOn(TRUE, "StateValid") \/ WalkOn(FALSE, "DisqualifiedFromChain")
    /\ UNCHANGED <<dagVars, tips, inbox, virtVars, crashes>>

(* The order in which pick_virtual_parents considers the candidates: the   *)
(* first half of the parents' places by blue work, the others shuffled,    *)
(* all of them cut to three times the parents' limit.                      *)
CandidateOrders(S) ==
    LET n == Cardinality(S)
        half == Min({n, MaxBlockParents \div 2})
        limit == Min({n, MaxBlockParents * 3})
    IN  {s \in [1 .. limit -> S] : /\ \A i \in 1 .. half : s[i] = SortBlocks(S)[n - i + 1]
                                   /\ \A i, j \in 1 .. limit : s[i] = s[j] => i = j}

(* The walk is over: the candidate becomes the sink, and the candidates at *)
(* least as heavy as its merge depth root compete to be virtual parents;   *)
(* or the search goes on below it.                                         *)
EndWalk ==
    /\ search.phase = "walk" /\ search.path = <<>>
    /\ LET c == search.candidate
           root == gd[c].mergeRoot
           heavy == {h \in search.heap : root # Origin => gd[h].blueWork >= gd[root].blueWork}
       IN  \/ /\ search.diff = c
              /\ \E order \in CandidateOrders(heavy) :
                    search' = [search EXCEPT !.phase = "pick", !.heap = {}, !.queue = order,
                                             !.parents = <<c>>, !.size = 1]
           \/ /\ search.diff # c
              /\ search' = [search EXCEPT !.phase = "pop", !.heap = ReplaceByParents(c, @), !.candidate = Origin]
    /\ UNCHANGED <<dagVars, status, tips, inbox, virtVars, crashes>>

-----------------------------------------------------------------------------
(* mergeset_increase: what a candidate adds to the virtual mergeset. *)
Increase(c) == past[c] \ UNION {past[p] : p \in Range(search.parents)}

(* The blocks of the increase first reached d steps below the candidate. *)
Level(c, d) ==
    LET below(S) == (UNION {parents[x] : x \in S}) \cap Increase(c)
        \* seen, last: everything reached so far, and what was reached last
        level[i \in 0 .. d] ==
            IF i = 0 THEN [seen |-> {c}, last |-> {c}]
            ELSE LET above == level[i - 1]
                 IN  [seen |-> above.seen \cup below(above.last), last |-> below(above.last) \ above.seen]
    IN  level[d]

(* Where the traversal may stop when the increase exceeds the budget: at   *)
(* the level that exhausts it.  Which block of the level depends on the    *)
(* order of parents inside headers.                                        *)
Cutoffs(c, budget) ==
    LET d == CHOOSE d \in 1 .. Cardinality(Known) :
                 /\ Cardinality(Level(c, d).seen) > budget
                 /\ Cardinality(Level(c, d - 1).seen) <= budget
    IN  Level(c, d).last

Budget == MergesetSizeLimit - search.size

LimitsReached == search.size >= MergesetSizeLimit \/ Len(search.parents) >= MaxBlockParents

(* Accept the next candidate, or reject it and queue one in its past. *)
PickParent ==
    /\ search.phase = "pick" /\ search.queue # <<>> /\ ~LimitsReached
    /\ LET c == Head(search.queue)
           rest == Tail(search.queue)
           increase == Cardinality(Increase(c))
       IN  \/ /\ increase <= Budget
              /\ search' = [search EXCEPT !.queue = rest, !.parents = Append(@, c), !.size = @ + increase]
           \/ /\ increase > Budget
              /\ \E n \in Cutoffs(c, Budget) :
                    search' = [search EXCEPT !.queue =
                        IF \E q \in Range(rest) : IsDagAncestorOf(q, n) THEN rest
                        ELSE Append(SelectSeq(rest, LAMBDA q : ~IsDagAncestorOf(n, q)), n)]
    /\ UNCHANGED <<dagVars, status, tips, inbox, virtVars, crashes>>

(* Mutant: parents that lead to a bad red are kept. *)
AllParents(ps) == ps

(* remove_bounded_merge_breaking_parents *)
KosherParents(ps) ==
    {p \in ps : \A r \in BadReds(ConsensusData(ps)) : ~IsDagAncestorOf(r, p)}

NewVirtual ==
    LET ps == KosherParents(Range(search.parents))
    IN  [parents |-> ps, data |-> ConsensusData(ps)]

(* Mutant: the removed blocks keep their places. *)
AppendChanges(store, from, to) ==
    LET highest == Cardinality(DOMAIN store) - 1
        added == ChainPath(from, to)
    IN  [i \in 0 .. highest + Len(added) |-> IF i <= highest THEN store[i] ELSE added[i - highest]]

(* calculate_chain_path and SelectedChainStore::apply_changes *)
ApplyChanges(store, from, to) ==
    LET highest == Cardinality(DOMAIN store) - 1
        split == highest - Cardinality(chain[from] \ chain[to])
        added == ChainPath(from, to)
    IN  [i \in 0 .. split + Len(added) |-> IF i <= split THEN store[i] ELSE added[i - split]]

(* Mutant: the channel is drained once more after the commit. *)
CommitAndDrain ==
    /\ search.phase = "pick" /\ (search.queue = <<>> \/ LimitsReached)
    /\ virt' = NewVirtual
    /\ chainStore' = ApplyChanges(chainStore, Sink, search.candidate)
    /\ search' = [Resting EXCEPT !.finality = search.finality]
    /\ inbox' = FALSE
    /\ UNCHANGED <<dagVars, status, tips, crashes>>

(* commit_virtual_state: one batch.  If the selected parent of virtual is  *)
(* not the sink that was found, resolve_virtual gives up.                  *)
CommitVirtual ==
    /\ search.phase = "pick" /\ (search.queue = <<>> \/ LimitsReached)
    /\ IF NewVirtual.data.selected = search.candidate
       THEN /\ virt' = NewVirtual
            /\ chainStore' = ApplyChanges(chainStore, Sink, search.candidate)
       ELSE UNCHANGED virtVars
    /\ search' = [Resting EXCEPT !.finality = search.finality]
    /\ UNCHANGED <<dagVars, status, tips, inbox, crashes>>

(* The process dies and starts again from its stores. *)
Crash ==
    /\ crashes < MaxCrashes
    /\ crashes' = crashes + 1
    /\ search' = Resting
    /\ inbox' = FALSE
    /\ UNCHANGED <<dagVars, status, tips, virtVars>>

-----------------------------------------------------------------------------
VirtualStep ==
    \/ StartResolve
    \/ PopCandidate
    \/ VerifyChainBlock
    \/ EndWalk
    \/ PickParent
    \/ CommitVirtual

Next ==
    \/ \E b \in Block, ps \in SUBSET Known : CommitHeader(b, ps)
    \/ \E b \in Known : CommitBody(b)
    \/ VirtualStep
    \/ Crash

Spec == Init /\ [][Next]_vars

(* The virtual worker is a thread of its own and is never starved: unless  *)
(* it waits for a message again and again, it takes steps again and again. *)
(* Every step of it changes the local state of the search.                 *)
VirtualFairness ==
    \/ []<>(search.phase = "idle" /\ ~inbox)
    \/ []<><<search' # search>>_vars

FairSpec == Spec /\ VirtualFairness

-----------------------------------------------------------------------------
(* Types of the statuses, the virtual state and the search. *)
TypeOK ==
    /\ DagTypeOK
    /\ status \in [Known -> {"HeaderOnly", "StatePendingVerification", "StateValid", "DisqualifiedFromChain"}]
    /\ tips \subseteq Known
    /\ inbox \in BOOLEAN
    /\ virt.parents \subseteq Known
    /\ chainStore \in [0 .. Cardinality(DOMAIN chainStore) - 1 -> Known]
    /\ search.phase \in {"idle", "pop", "walk", "pick"}
    /\ search.heap \subseteq Known
    /\ search.size \in 0 .. MergesetSizeLimit
    /\ search.parents \in Seq(Known) /\ Len(search.parents) <= MaxBlockParents
    /\ crashes \in 0 .. MaxCrashes

(* The search never exhausts its heap, however many candidates are          *)
(* disqualified: the previous sink is always found again.                   *)
SearchSucceeds == ~HeapExhausted

(* The search finds the heaviest block in the past of the tips it started   *)
(* from that keeps the finality point on its chain and whose chain          *)
(* verifies: everything heavier was disqualified.                           *)
HeaviestValidSink ==
    search.phase = "pick" =>
        \A b \in UNION {past[t] : t \in search.tips} :
            IsChainAncestorOf(search.finality, b) /\ Less(search.candidate, b)
                => status[b] = "DisqualifiedFromChain"

(* A block is valid only if its whole chain is, also after a crash in the   *)
(* middle of a walk: the early exit of the walk at a valid block relies on  *)
(* it.  The sink is valid.                                                  *)
ValidChains ==
    /\ status[Sink] = "StateValid"
    /\ \A b \in Known : status[b] = "StateValid" => \A a \in chain[b] : status[a] = "StateValid"
    /\ \A b \in Known : status[b] = "DisqualifiedFromChain" =>
            \A d \in Known : IsChainAncestorOf(b, d) => status[d] # "StateValid"

(* The selected chain store holds the chain of the sink, in order, after    *)
(* any sequence of reorganizations.                                         *)
ChainStoreMatchesSink ==
    /\ Range(chainStore) = chain[Sink]
    /\ \A i \in DOMAIN chainStore \ {0} : gd[chainStore[i]].selected = chainStore[i - 1]

(* A block that builds on the virtual parents passes the header rules: its  *)
(* parents are an antichain within the limit, its mergeset is within the    *)
(* limit and merges no block below the merge bound.                         *)
TemplateIsValid ==
    /\ ValidParents(virt.parents)
    /\ Len(virt.data.blues) + Len(virt.data.reds) <= MergesetSizeLimit
    /\ BadReds(virt.data) = {}

(* The sink only ever moves to a heavier block that has the finality point  *)
(* of the previous virtual state on its chain.                              *)
SinkAdvances ==
    [][Sink' # Sink => /\ gd[Sink].blueWork <= gd[Sink'].blueWork
                       /\ VirtualFinalityPoint \in chain[Sink']]_vars

(* Once blocks stop arriving, the virtual state settles on a sink that no   *)
(* other block with a body beats, if it keeps the finality point that the   *)
(* last search went by: that of the virtual state before it, which may be   *)
(* higher than the new one when virtual merges fewer blocks than before.    *)
(* A crash drops the messages to the virtual processor, and nothing is      *)
(* resolved until the next body comes; so a crash is excused.               *)
VirtualCatchesUp ==
    <>[](\/ crashes > 0
         \/ /\ search.phase = "idle"
            /\ \A b \in Known : HasBody(b) /\ IsChainAncestorOf(search.finality, b) /\ Less(Sink, b)
                    => status[b] = "DisqualifiedFromChain")
=============================================================================

------------------------------ MODULE Pruning ------------------------------
(***************************************************************************)
(* Pruning points, the pruning processor and its recovery after a crash.   *)
(*                                                                         *)
(* Headers, bodies and chain blocks arrive while the pruning processor     *)
(* moves the pruning point, walks the registry position up to it and       *)
(* deletes what is below the retention root, one database batch after the  *)
(* other.  A crash loses everything that is not in a batch already         *)
(* written; the recovery workflow completes the work on the next message.  *)
(* The node is not archival.  Catchup through a downloaded pruning proof   *)
(* is not modelled, so the transitional flags stay clear.                  *)
(***************************************************************************)
EXTENDS Integers, Sequences, FiniteSets, SequencesExt

CONSTANTS
    Block,            \* naturals; every block is above its parents
    Parents,          \* Block -> SUBSET Block
    SelectedParent,   \* Block -> Block, Origin for the genesis
    BlueScore,        \* Block -> Nat
    Timestamp,        \* Block -> Nat
    FinalityDepth,    \* F
    PruningDepth,     \* P
    RetentionPeriod,  \* a time span, or 0: the retention root is the pruning point
    Window(_),        \* the blocks of the level-0 proof and of the DAA window of a pruning point
    Upper(_),         \* the headers that the higher proof levels add
    MaxCrashes

Genesis == 0
Origin == -1
None == -2

ASSUME DagAssumption ==
    /\ Genesis \in Block /\ Block \subseteq Nat
    /\ SelectedParent[Genesis] = Origin /\ Parents[Genesis] = {}
    /\ \A b \in Block \ {Genesis} :
         /\ SelectedParent[b] \in Parents[b]
         /\ Parents[b] \subseteq {p \in Block : p < b}
         /\ BlueScore[b] > BlueScore[SelectedParent[b]]
ASSUME DepthAssumption == FinalityDepth \in Nat \ {0} /\ PruningDepth \in Nat \ {0}

VARIABLES
    store,    \* per-block data: [headers, relations, bodies, samples, points, tips, index]
    tree,     \* the reachability tree: a block's parent, None when it has no entry
    meta,     \* pruning stores: [pps, position, root, checkpoint]
    sink,     \* the sink of the virtual state
    inbox,    \* the pruning channel: the last sink sent, or None
    job,      \* the pruning thread
    crashes

vars == <<store, tree, meta, sink, inbox, job, crashes>>

-----------------------------------------------------------------------------
(* A block and its ancestors. *)
Past[b \in Block] == {b} \cup UNION {Past[p] : p \in Parents[b]}
IsAncestor(a, b) == a \in Past[b]

ChainPast[b \in Block] == IF b = Genesis THEN {b} ELSE {b} \cup ChainPast[SelectedParent[b]]

PruningPoint == meta.pps[Len(meta.pps)]
Verified(b) == store.samples[b] # None

FinalityScore(b) == BlueScore[b] \div FinalityDepth
IsPruningSample(b, ancestor) == FinalityScore(ancestor) < FinalityScore(b)
Steps == (PruningDepth + FinalityDepth - 1) \div FinalityDepth

HasHeader(b) == b \in store.headers

(* The most recent sample below a block, None when a lookup fails. *)
SampleFromPov(b) ==
    LET parent == SelectedParent[b]
        sample == store.samples[parent]
    IN  CASE parent = Genesis -> Genesis
          [] sample \notin Block -> None
          [] OTHER -> IF ~HasHeader(sample) THEN None
                      ELSE IF IsPruningSample(parent, sample) THEN parent ELSE sample

DeepEnough(sample, b) == BlueScore[sample] + PruningDepth <= BlueScore[b]

(* expected_header_pruning_point: walk down the samples to one deep enough. *)
PointFromPov(b) ==
    LET parent == SelectedParent[b]
        walk[c \in Block, steps \in 1 .. Cardinality(Block)] ==
            CASE c = Genesis -> c
              [] ~HasHeader(c) -> None
              [] DeepEnough(c, b) -> c
              [] IsPruningSample(b, parent) /\ steps = Steps -> c
              [] c = store.points[parent] -> c
              [] OTHER -> IF store.samples[c] \in Block THEN walk[store.samples[c], steps + 1] ELSE None
    IN  IF SampleFromPov(b) = None THEN None ELSE walk[SampleFromPov(b), 1]

(* next_pruning_points, from the one after the current point to the sink's. *)
NextPruningPoints(b) ==
    LET upTo[c \in Block] ==
            IF c = PruningPoint THEN <<>>
            ELSE IF store.samples[c] \in Block THEN Append(upTo[store.samples[c]], c) ELSE <<None>>
        point == PointFromPov(b)
    IN  IF b = Genesis \/ BlueScore[PruningPoint] + PruningDepth > BlueScore[b] THEN <<>>
        ELSE IF point = None THEN <<None>>
        ELSE IF BlueScore[point] <= BlueScore[PruningPoint] THEN <<>>
        ELSE upTo[point]

(* advance_retention_period_root: the last sample that covers the period. *)
RetentionRoot(point) ==
    LET target == IF Timestamp[sink] > RetentionPeriod THEN Timestamp[sink] - RetentionPeriod ELSE 0
        walk[c \in Block] ==
            CASE c = meta.root -> c
              [] ~HasHeader(c) -> None
              [] Timestamp[c] <= target -> c
              [] OTHER -> IF store.samples[c] \in Block THEN walk[store.samples[c]] ELSE None
    IN  IF RetentionPeriod = 0 THEN point ELSE walk[point]

DepthConfirmed(point) == BlueScore[sink] >= BlueScore[point] + PruningDepth

Children(b) == {c \in Block : tree[c] = b}

-----------------------------------------------------------------------------
Idle == [pc |-> "idle", recovered |-> FALSE, sink |-> None, cursor |-> None, point |-> None, root |-> None,
         current |-> None, queue |-> <<>>, keep |-> {}, relations |-> {}, upper |-> {}, headers |-> {}, then |-> "idle"]

Init ==
    /\ store = [headers |-> {Genesis}, relations |-> {Genesis}, bodies |-> {Genesis},
                samples |-> [b \in Block |-> IF b = Genesis THEN Origin ELSE None],
                points |-> [b \in Block |-> Genesis], tips |-> {Genesis}, index |-> {Genesis}]
    /\ tree = [b \in Block |-> IF b = Genesis THEN Origin ELSE None]
    /\ meta = [pps |-> <<Genesis>>, position |-> Genesis, root |-> Genesis, checkpoint |-> Genesis]
    /\ sink = Genesis
    /\ inbox = None
    /\ job = Idle
    /\ crashes = 0

(* The pruning lock is held from the pruning of the tips to the end of the *)
(* collection, except where the traversal yields: before a deletion.       *)
WriteLocked == job.pc = "visit"

(* A header and its body.  A block must have a parent in the future of the *)
(* pruning point.                                                          *)
InsertBlock(b) ==
    /\ b \notin store.headers /\ tree[b] = None /\ ~WriteLocked
    /\ Parents[b] \subseteq store.relations
    /\ \E p \in Parents[b] : IsAncestor(PruningPoint, p)
    /\ store' = [store EXCEPT !.headers = @ \cup {b}, !.relations = @ \cup {b}, !.bodies = @ \cup {b},
                              !.tips = (@ \ Parents[b]) \cup {b}]
    /\ tree' = [tree EXCEPT ![b] = SelectedParent[b]]
    /\ UNCHANGED <<meta, sink, inbox, job, crashes>>

(* The finality point of a virtual block that merges its sink only: the    *)
(* highest block of the chain whose score is below the required one, the   *)
(* pruning point when that is higher.                                      *)
VirtualFinalityPoint ==
    LET deep == {c \in ChainPast[sink] : BlueScore[c] + FinalityDepth <= BlueScore[sink]}
        point == IF deep = {} THEN Genesis ELSE CHOOSE c \in deep : deep \subseteq ChainPast[c]
    IN  IF PruningPoint \in ChainPast[point] THEN point ELSE PruningPoint

(* A tip that the sink search may select: heavier than the sink, and with  *)
(* the finality point on its chain.                                        *)
MayBecomeSink(t) ==
    t \in store.tips /\ BlueScore[t] > BlueScore[sink] /\ VirtualFinalityPoint \in ChainPast[t]

(* The next block that the sink search verifies on the way to such a tip.  *)
Candidate(b) ==
    /\ b \in store.bodies /\ ~Verified(b) /\ Verified(SelectedParent[b])
    /\ \E t \in Block : MayBecomeSink(t) /\ b \in ChainPast[t]

(* verify_header_pruning_point and commit_block_state. *)
VerifyBlock(b) ==
    /\ Candidate(b)
    /\ HasHeader(SelectedParent[b]) /\ PointFromPov(b) # None
    /\ store' = [store EXCEPT !.samples[b] = SampleFromPov(b), !.points[b] = PointFromPov(b)]
    /\ UNCHANGED <<tree, meta, sink, inbox, job, crashes>>

(* The commit of a new sink, and the message to the pruning processor,     *)
(* which replaces one that was not yet received.                           *)
MoveSink(b) ==
    /\ MayBecomeSink(b) /\ Verified(b)
    /\ store' = [store EXCEPT !.index = (@ \cap ChainPast[b]) \cup (ChainPast[b] \ ChainPast[sink])]
    /\ sink' = b
    /\ inbox' = b
    /\ UNCHANGED <<tree, meta, job, crashes>>

(* A block that leaves the sink where it is. *)
Notify ==
    /\ inbox = None
    /\ inbox' = sink
    /\ UNCHANGED <<store, tree, meta, sink, job, crashes>>

-----------------------------------------------------------------------------
(* worker: take a message; the first one triggers the recovery. *)
Receive ==
    /\ job.pc = "idle" /\ inbox # None
    /\ inbox' = None
    /\ job' = [job EXCEPT !.pc = IF job.recovered THEN "move" ELSE "recover", !.sink = inbox]
    /\ UNCHANGED <<store, tree, meta, sink, crashes>>

(* What follows a recovered position: the interrupted data pruning, if any. *)
AfterPosition(j) ==
    IF meta.checkpoint # meta.root
    THEN [j EXCEPT !.pc = "prepare", !.point = PruningPoint, !.root = meta.root, !.then = "move"]
    ELSE [j EXCEPT !.pc = "move"]

(* Mutant: an interrupted data pruning is not resumed. *)
RecoverPositionOnly ==
    /\ job.pc = "recover"
    /\ job' = IF ~DepthConfirmed(PruningPoint) THEN [job EXCEPT !.pc = "idle"]
              ELSE [job EXCEPT !.recovered = TRUE, !.pc = "move"]
    /\ UNCHANGED <<store, tree, meta, sink, inbox, crashes>>

(* recover_pruning_workflows_if_needed. *)
Recover ==
    /\ job.pc = "recover"
    /\ job' = IF ~DepthConfirmed(PruningPoint)
              THEN [job EXCEPT !.pc = "idle"]
              ELSE IF meta.position # PruningPoint
              THEN [job EXCEPT !.recovered = TRUE, !.pc = "advance", !.cursor = meta.position, !.then = "move"]
              ELSE AfterPosition([job EXCEPT !.recovered = TRUE])
    /\ UNCHANGED <<store, tree, meta, sink, inbox, crashes>>

(* advance_pruning_point_if_possible, up to its batch. *)
MovePruningPoint ==
    LET next == NextPruningPoints(job.sink)
        point == next[Len(next)]
    IN  /\ job.pc = "move"
        /\ \/ /\ next = <<>>
              /\ job' = [job EXCEPT !.pc = "idle"]
              /\ UNCHANGED meta
           \/ /\ next # <<>> /\ None \notin Range(next) /\ RetentionRoot(point) # None
              /\ meta' = [meta EXCEPT !.pps = @ \o next, !.root = RetentionRoot(point)]
              /\ job' = [job EXCEPT !.pc = IF DepthConfirmed(point) THEN "advance" ELSE "idle",
                                    !.cursor = PruningPoint, !.then = "idle"]
        /\ UNCHANGED <<store, tree, sink, inbox, crashes>>

(* advance_pruning_registry_unitset: one chain block, one batch. *)
AdvancePosition ==
    LET next == CHOOSE b \in ChainPast[PruningPoint] : SelectedParent[b] = job.cursor
    IN  /\ job.pc = "advance"
        /\ meta' = [meta EXCEPT !.position = next]
        /\ job' = IF next # PruningPoint THEN [job EXCEPT !.cursor = next]
                  ELSE IF job.then = "move" THEN AfterPosition(job)
                  ELSE [job EXCEPT !.pc = "prepare", !.point = PruningPoint, !.root = meta.root]
        /\ UNCHANGED <<store, tree, sink, inbox, crashes>>

(* Mutant: the anticone of the pruning point is not kept. *)
PrepareWithoutAnticone ==
    /\ job.pc = "prepare"
    /\ job' = [job EXCEPT !.pc = "tips", !.keep = {job.point},
                          !.relations = {job.point} \cup Window(job.point), !.upper = Upper(job.point),
                          !.headers = Range(SubSeq(meta.pps, 1, Len(meta.pps) - 1))]
    /\ UNCHANGED <<store, tree, meta, sink, inbox, crashes>>

(* prune: what the pruning point, its anticone and its proof need. *)
PrepareProof ==
    LET anticone == {b \in Past[sink] : ~IsAncestor(b, job.point) /\ ~IsAncestor(job.point, b)}
    IN  /\ job.pc = "prepare"
        /\ job' = [job EXCEPT !.pc = "tips", !.keep = anticone \cup {job.point},
                              !.relations = anticone \cup {job.point} \cup Window(job.point),
                              !.upper = Upper(job.point),
                              !.headers = Range(SubSeq(meta.pps, 1, Len(meta.pps) - 1))]
        /\ UNCHANGED <<store, tree, meta, sink, inbox, crashes>>

(* The first batch: tips and the selected chain index. *)
PruneTips ==
    /\ job.pc = "tips"
    /\ store' = [store EXCEPT !.tips = {t \in @ : IsAncestor(job.point, t)},
                              !.index = IF job.root \in @ THEN {b \in @ : BlueScore[b] >= BlueScore[job.root]} ELSE @]
    /\ job' = [job EXCEPT !.pc = "visit", !.queue = SetToSeq(Children(Origin))]
    /\ UNCHANGED <<tree, meta, sink, inbox, crashes>>

(* Mutant: the children of a block are not traversed when it is retained. *)
VisitLeavesOnly ==
    LET current == Head(job.queue)
    IN  /\ job.pc = "visit" /\ job.queue # <<>>
        /\ job' = IF IsAncestor(job.root, current) THEN [job EXCEPT !.queue = Tail(@)]
                  ELSE [job EXCEPT !.queue = Tail(@) \o (IF current \in job.relations \cup job.upper THEN <<>> ELSE SetToSeq(Children(current))),
                                   !.pc = "delete", !.current = current]
        /\ UNCHANGED <<store, tree, meta, sink, inbox, crashes>>

(* One iteration of the traversal, up to the point where it may yield. *)
Visit ==
    LET current == Head(job.queue)
    IN  /\ job.pc = "visit" /\ job.queue # <<>>
        /\ job' = IF IsAncestor(job.root, current) THEN [job EXCEPT !.queue = Tail(@)]
                  ELSE [job EXCEPT !.queue = Tail(@) \o SetToSeq(Children(current)), !.pc = "delete", !.current = current]
        /\ UNCHANGED <<store, tree, meta, sink, inbox, crashes>>

DeleteAllHeaders(b, s) ==
    IF b \in job.relations \cup job.upper
    THEN [s EXCEPT !.bodies = @ \ {b}, !.samples[b] = IF b \in job.headers THEN @ ELSE None,
                   !.relations = IF b \in job.relations THEN @ ELSE @ \ {b}]
    ELSE [s EXCEPT !.bodies = @ \ {b}, !.samples[b] = None, !.relations = @ \ {b}, !.headers = @ \ {b}]

(* A block of the proof keeps its header; one of its level 0 its relations *)
(* too; a past pruning point its header and its sample.                    *)
DeleteData(b, s) ==
    IF b \in job.relations \cup job.upper
    THEN [s EXCEPT !.bodies = @ \ {b}, !.samples[b] = IF b \in job.headers THEN @ ELSE None,
                   !.relations = IF b \in job.relations THEN @ ELSE @ \ {b}]
    ELSE [s EXCEPT !.bodies = @ \ {b}, !.samples[b] = IF b \in job.headers THEN @ ELSE None,
                   !.relations = @ \ {b}, !.headers = IF b \in job.headers THEN @ ELSE @ \ {b}]

(* The rest of the iteration: one batch.  A block that leaves the tree     *)
(* hands its children to its parent.                                       *)
Delete ==
    LET b == job.current
    IN  /\ job.pc = "delete"
        /\ store' = IF b \in job.keep THEN store ELSE DeleteData(b, store)
        /\ tree' = IF b \in job.keep \cup job.relations \cup job.upper THEN tree
                   ELSE [c \in Block |-> IF c = b THEN None ELSE IF tree[c] = b THEN tree[b] ELSE tree[c]]
        /\ job' = [job EXCEPT !.pc = "visit", !.current = None]
        /\ UNCHANGED <<meta, sink, inbox, crashes>>

(* The collection of the account state (module StateGc) ends the locked part. *)
EndTraversal ==
    /\ job.pc = "visit" /\ job.queue = <<>>
    /\ job' = [job EXCEPT !.pc = "checkpoint"]
    /\ UNCHANGED <<store, tree, meta, sink, inbox, crashes>>

(* Mutant: the checkpoint is the pruning point. *)
CheckpointAtPoint ==
    /\ job.pc = "checkpoint"
    /\ meta' = [meta EXCEPT !.checkpoint = job.point]
    /\ job' = [Idle EXCEPT !.pc = job.then, !.recovered = TRUE, !.sink = job.sink]
    /\ UNCHANGED <<store, tree, sink, inbox, crashes>>

WriteCheckpoint ==
    /\ job.pc = "checkpoint"
    /\ meta' = [meta EXCEPT !.checkpoint = job.root]
    /\ job' = [Idle EXCEPT !.pc = job.then, !.recovered = TRUE, !.sink = job.sink]
    /\ UNCHANGED <<store, tree, sink, inbox, crashes>>

(* A crash, or a shutdown at one of the points that check for it. *)
Crash ==
    /\ crashes < MaxCrashes
    /\ job # Idle \/ inbox # None
    /\ job' = Idle
    /\ inbox' = None
    /\ crashes' = crashes + 1
    /\ UNCHANGED <<store, tree, meta, sink>>

Prune ==
    \/ Receive \/ Recover \/ MovePruningPoint \/ AdvancePosition \/ PrepareProof \/ PruneTips
    \/ Visit \/ Delete \/ EndTraversal \/ WriteCheckpoint

Next ==
    \/ \E b \in Block : InsertBlock(b) \/ VerifyBlock(b) \/ MoveSink(b)
    \/ Notify
    \/ Prune
    \/ Crash

(* The pruning thread runs, and blocks keep arriving. *)
Fairness == WF_vars(Prune) /\ WF_vars(Notify)

Spec == Init /\ [][Next]_vars /\ Fairness

-----------------------------------------------------------------------------
(* Types of the block stores, the pruning stores and the tree. *)
TypeOK ==
    /\ store.headers \subseteq Block /\ store.bodies \subseteq store.headers /\ store.relations \subseteq store.headers
    /\ store.samples \in [Block -> Block \cup {Origin, None}]
    /\ tree \in [Block -> Block \cup {Origin, None}]
    /\ meta.pps \in Seq(Block) /\ {meta.position, meta.root, meta.checkpoint, sink} \subseteq Block

(* No lookup that the code unwraps fails: pruning leaves the headers and   *)
(* the samples that the pruning point queries of later blocks walk, the    *)
(* registry position is a chain ancestor of the pruning point, and the     *)
(* root to prune to is in the chain index.                                 *)
LookupsSucceed ==
    /\ \A b \in Block : Candidate(b) => HasHeader(SelectedParent[b]) /\ PointFromPov(b) # None
    /\ job.pc = "move" =>
         LET next == NextPruningPoints(job.sink)
         IN  next # <<>> => None \notin Range(next) /\ RetentionRoot(next[Len(next)]) # None
    /\ job.pc = "advance" => job.cursor \in ChainPast[PruningPoint] \ {PruningPoint}
    /\ job.pc = "tips" /\ job.root = job.point => job.root \in store.index

(* Whatever the crashes, a block in the future of the retention root has   *)
(* its body, its relations and a place in the reachability tree, and so    *)
(* does the merged anticone of the pruning point.                          *)
RetainedBlocksKept ==
    \A b \in Past[sink] :
        IsAncestor(meta.root, b) \/ ~IsAncestor(b, PruningPoint)
            => b \in store.bodies /\ b \in store.relations /\ tree[b] # None

(* The retention checkpoint is written only when the data below it is      *)
(* gone, in one go or across crashes: no body is left outside its future   *)
(* and its merged anticone.                                                *)
CheckpointMeansPruned ==
    \A b \in store.bodies :
        IsAncestor(meta.checkpoint, b) \/ (b \in Past[sink] /\ ~IsAncestor(b, meta.checkpoint))

(* The pruning point moves up the chain by whole samples, never closer to  *)
(* the sink than the pruning depth, also when it was derived from a sink   *)
(* that has been replaced since; and neither the retention root nor the    *)
(* checkpoint ever moves back or overtakes it.                             *)
PointsAdvance ==
    [][ /\ IsPrefix(meta.pps, meta'.pps)
        /\ meta.pps # meta'.pps => DeepEnough(PruningPoint', sink)
        /\ meta.root \in ChainPast[meta'.root] /\ meta'.root \in ChainPast[PruningPoint']
        /\ meta.checkpoint \in ChainPast[meta'.checkpoint] /\ meta'.checkpoint \in ChainPast[meta'.root] ]_vars

(* Interrupted pruning is completed: the data below the retention root and *)
(* the position reach the pruning stores' values.                          *)
PruningCompletes == []<>(meta.checkpoint = meta.root /\ meta.position = PruningPoint)
=============================================================================

--------------------------- MODULE BlockPipeline ---------------------------
(***************************************************************************)
(* The block pipeline: validate_and_insert_block sends a task to the       *)
(* header processor, which sends it on to the body processor, which sends  *)
(* it on to the virtual processor; Exit travels the same way and ends at   *)
(* the pruning processor.  The header and the body processor are two       *)
(* instances of the dependency manager of BlockTaskDeps, joined by         *)
(* unbounded FIFO channels and by the statuses store.                      *)
(*                                                                         *)
(* Validation is abstracted to its outcome.  A block's hash commits to its *)
(* header and, through the merkle root, to its transactions, so header and *)
(* body validity belong to the block; a submission may come without a body *)
(* or with transactions that do not match the merkle root.                 *)
(***************************************************************************)
EXTENDS Naturals, Sequences

CONSTANTS
    Block, DirectParents,
    Task, BlockOf,
    BodyOf,      \* Task -> "none" (header-only) | "match" | "mismatch"
    Trusted,     \* the tasks submitted as BlockTask::Trusted
    HeaderRule,  \* Block -> "ok" or the validation it fails: "isolation", "prePow", "postPow"
    BodyRule     \* Block -> "ok" | "bad" (in isolation) | "badInContext"

ASSUME BlockOfType == BlockOf \in [Task -> Block]
ASSUME DirectParentsType == DirectParents \in [Block -> SUBSET Block]
ASSUME HeaderRuleType == HeaderRule \in [Block -> {"ok", "isolation", "prePow", "postPow"}]
ASSUME BodyRuleType == BodyRule \in [Block -> {"ok", "bad", "badInContext"}]
ASSUME BodyOfType == BodyOf \in [Task -> {"none", "match", "mismatch"}]

VARIABLES
    hdrPending, hdrTaken, hdrDependents, hdrQueued, hdrWorker, hdrRegistered, hdrBefore, hdrEnded,
    bodyPending, bodyTaken, bodyDependents, bodyQueued, bodyWorker, bodyRegistered, bodyBefore, bodyEnded,
    blockChan, bodyChan, virtChan,  \* the channels into the three processors
    pruningExit,    \* has Exit been sent to the pruning processor?
    hdrRes, bodyRes,  \* result of the processing under way, per block, or "validated"
    status,         \* statuses_store
    tips,           \* body_tips_store
    virtBatch,      \* the messages the virtual worker is handling
    virtWorker,
    answer,         \* the block result and the virtual result of each task
    submitted       \* history: the tasks in submission order, and Exit

hdrVars == <<hdrPending, hdrTaken, hdrDependents, hdrQueued, hdrWorker, hdrRegistered, hdrBefore, hdrEnded>>
bodyVars == <<bodyPending, bodyTaken, bodyDependents, bodyQueued, bodyWorker, bodyRegistered, bodyBefore, bodyEnded>>
virtVars == <<virtBatch, virtWorker, pruningExit>>
storeVars == <<status, tips>>
vars == <<hdrVars, bodyVars, virtVars, storeVars, blockChan, bodyChan, virtChan, hdrRes, bodyRes, answer, submitted>>

Hdr == INSTANCE BlockTaskDeps WITH
    pending <- hdrPending, taken <- hdrTaken, dependents <- hdrDependents, queued <- hdrQueued,
    worker <- hdrWorker, registered <- hdrRegistered, before <- hdrBefore, ended <- hdrEnded

Body == INSTANCE BlockTaskDeps WITH
    pending <- bodyPending, taken <- bodyTaken, dependents <- bodyDependents, queued <- bodyQueued,
    worker <- bodyWorker, registered <- bodyRegistered, before <- bodyBefore, ended <- bodyEnded

-----------------------------------------------------------------------------
Exit == 0
ASSUME ExitIsNoTask == Exit \notin Task

None == "none"
Statuses == {"Invalid", "HeaderOnly", "PendingVerification", "StateValid", "Disqualified"}
Errors == {"KnownInvalid", "MissingParents", "InvalidParent", "HeaderError", "BadMerkleRoot", "BodyError"}

HasBlockBody(s) == s \in {"PendingVerification", "StateValid", "Disqualified"}

Init ==
    /\ Hdr!Init /\ Body!Init
    /\ blockChan = <<>> /\ bodyChan = <<>> /\ virtChan = <<>>
    /\ pruningExit = FALSE
    /\ hdrRes = [b \in Block |-> None] /\ bodyRes = [b \in Block |-> None]
    /\ status = [b \in Block |-> None]
    /\ tips = {}
    /\ virtBatch = <<>> /\ virtWorker = "receiving"
    /\ answer = [t \in Task |-> [block |-> None, virtual |-> None]]
    /\ submitted = <<>>

(* validate_and_insert_block_impl; a caller may submit at any time. *)
Submit(t) ==
    /\ \A i \in 1 .. Len(submitted) : submitted[i] # t
    /\ blockChan' = Append(blockChan, t)
    /\ submitted' = Append(submitted, t)
    /\ UNCHANGED <<hdrVars, bodyVars, virtVars, storeVars, bodyChan, virtChan, hdrRes, bodyRes, answer>>

SignalExit ==
    /\ \A i \in 1 .. Len(submitted) : submitted[i] # Exit
    /\ blockChan' = Append(blockChan, Exit)
    /\ submitted' = Append(submitted, Exit)
    /\ UNCHANGED <<hdrVars, bodyVars, virtVars, storeVars, bodyChan, virtChan, hdrRes, bodyRes, answer>>

-----------------------------------------------------------------------------
(* The header processor. *)

(* Mutant: on Exit the worker does not wait for its pool. *)
HdrReceiveNoWait ==
    /\ blockChan # <<>>
    /\ blockChan' = Tail(blockChan)
    /\ IF Head(blockChan) = Exit
       THEN /\ hdrWorker = "receiving" /\ hdrWorker' = "idle"
            /\ UNCHANGED <<hdrPending, hdrTaken, hdrDependents, hdrQueued, hdrRegistered, hdrBefore, hdrEnded>>
       ELSE Hdr!Register(Head(blockChan))
    /\ UNCHANGED <<bodyVars, virtVars, storeVars, bodyChan, virtChan, hdrRes, bodyRes, answer, submitted>>

HdrReceive ==
    /\ blockChan # <<>>
    /\ blockChan' = Tail(blockChan)
    /\ IF Head(blockChan) = Exit THEN Hdr!WaitForIdle ELSE Hdr!Register(Head(blockChan))
    /\ UNCHANGED <<bodyVars, virtVars, storeVars, bodyChan, virtChan, hdrRes, bodyRes, answer, submitted>>

HdrTryBegin(b) ==
    /\ Hdr!TryBegin(b)
    /\ UNCHANGED <<bodyVars, virtVars, storeVars, blockChan, bodyChan, virtChan, hdrRes, bodyRes, answer, submitted>>

(* validate_header: in isolation, the parents, the rules before and after  *)
(* the proof of work; validate_trusted_header: in isolation only.          *)
ValidateHeader(t) ==
    LET b == BlockOf[t] IN
    IF HeaderRule[b] = "isolation" THEN "HeaderError"
    ELSE IF t \in Trusted THEN "ok"
    ELSE IF \E p \in DirectParents[b] : status[p] = "Invalid" THEN "InvalidParent"
    ELSE IF \E p \in DirectParents[b] : status[p] = None THEN "MissingParents"
    ELSE IF HeaderRule[b] # "ok" THEN "HeaderError"
    ELSE "ok"

(* Mutant: a block that is known only by its header is processed again. *)
ProcessHeaderAgain(b) ==
    LET v == ValidateHeader(Head(hdrPending[b])) IN
    /\ hdrTaken[b] /\ hdrRes[b] = None
    /\ IF status[b] \in {None, "HeaderOnly"}
       THEN hdrRes' = [hdrRes EXCEPT ![b] = IF v = "ok" THEN "validated" ELSE v]
       ELSE hdrRes' = [hdrRes EXCEPT ![b] = IF status[b] = "Invalid" THEN "KnownInvalid" ELSE status[b]]
    /\ UNCHANGED <<hdrVars, bodyVars, virtVars, storeVars, blockChan, bodyChan, virtChan, bodyRes, answer, submitted>>

(* process_header up to the commit.  Only a failure of post_pow_validation *)
(* marks the block.                                                        *)
ProcessHeader(b) ==
    LET t == Head(hdrPending[b])
        v == ValidateHeader(t)
    IN
    /\ hdrTaken[b] /\ hdrRes[b] = None
    /\ \/ /\ status[b] # None
          /\ hdrRes' = [hdrRes EXCEPT ![b] = IF status[b] = "Invalid" THEN "KnownInvalid" ELSE status[b]]
          /\ UNCHANGED status
       \/ /\ status[b] = None /\ v = "ok"
          /\ hdrRes' = [hdrRes EXCEPT ![b] = "validated"]
          /\ UNCHANGED status
       \/ /\ status[b] = None /\ v # "ok"
          /\ hdrRes' = [hdrRes EXCEPT ![b] = v]
          /\ status' = IF v = "HeaderError" /\ HeaderRule[b] = "postPow"
                       THEN [status EXCEPT ![b] = "Invalid"] ELSE status
    /\ UNCHANGED <<hdrVars, bodyVars, virtVars, tips, blockChan, bodyChan, virtChan, bodyRes, answer, submitted>>

(* commit_header / commit_trusted_header *)
CommitHeader(b) ==
    /\ hdrTaken[b] /\ hdrRes[b] = "validated"
    /\ hdrRes' = [hdrRes EXCEPT ![b] = "HeaderOnly"]
    /\ status' = [status EXCEPT ![b] = "HeaderOnly"]
    /\ UNCHANGED <<hdrVars, bodyVars, virtVars, tips, blockChan, bodyChan, virtChan, bodyRes, answer, submitted>>

(* Mutant: the task is not sent on to the body processor. *)
HdrEndForgetsBody(b) ==
    LET t == Head(hdrPending[b]) IN
    /\ hdrTaken[b] /\ hdrRes[b] \notin {None, "validated"}
    /\ Hdr!End(b)
    /\ hdrRes' = [hdrRes EXCEPT ![b] = None]
    /\ answer' = IF hdrRes[b] \in Errors \/ BodyOf[t] = "none"
                 THEN [answer EXCEPT ![t] = [block |-> hdrRes[b], virtual |-> hdrRes[b]]] ELSE answer
    /\ UNCHANGED <<bodyVars, virtVars, storeVars, blockChan, bodyChan, virtChan, bodyRes, submitted>>

(* end with the header processor's callback: answer the caller, or send    *)
(* the task to the body processor while the manager's lock is held.        *)
HdrEnd(b) ==
    LET t == Head(hdrPending[b]) IN
    /\ hdrTaken[b] /\ hdrRes[b] \notin {None, "validated"}
    /\ Hdr!End(b)
    /\ hdrRes' = [hdrRes EXCEPT ![b] = None]
    /\ IF hdrRes[b] \in Errors \/ BodyOf[t] = "none"
       THEN /\ answer' = [answer EXCEPT ![t] = [block |-> hdrRes[b], virtual |-> hdrRes[b]]]
            /\ UNCHANGED bodyChan
       ELSE /\ bodyChan' = Append(bodyChan, t)
            /\ UNCHANGED answer
    /\ UNCHANGED <<bodyVars, virtVars, storeVars, blockChan, virtChan, bodyRes, submitted>>

HdrPassExit ==
    /\ Hdr!PassExit
    /\ bodyChan' = Append(bodyChan, Exit)
    /\ UNCHANGED <<bodyVars, virtVars, storeVars, blockChan, virtChan, hdrRes, bodyRes, answer, submitted>>

-----------------------------------------------------------------------------
(* The body processor. *)

(* Mutant: on Exit the worker does not wait for its pool. *)
BodyReceiveNoWait ==
    /\ bodyChan # <<>>
    /\ bodyChan' = Tail(bodyChan)
    /\ IF Head(bodyChan) = Exit
       THEN /\ bodyWorker = "receiving" /\ bodyWorker' = "idle"
            /\ UNCHANGED <<bodyPending, bodyTaken, bodyDependents, bodyQueued, bodyRegistered, bodyBefore, bodyEnded>>
       ELSE Body!Register(Head(bodyChan))
    /\ UNCHANGED <<hdrVars, virtVars, storeVars, blockChan, virtChan, hdrRes, bodyRes, answer, submitted>>

BodyReceive ==
    /\ bodyChan # <<>>
    /\ bodyChan' = Tail(bodyChan)
    /\ IF Head(bodyChan) = Exit THEN Body!WaitForIdle ELSE Body!Register(Head(bodyChan))
    /\ UNCHANGED <<hdrVars, virtVars, storeVars, blockChan, virtChan, hdrRes, bodyRes, answer, submitted>>

BodyTryBegin(b) ==
    /\ Body!TryBegin(b)
    /\ UNCHANGED <<hdrVars, virtVars, storeVars, blockChan, bodyChan, virtChan, hdrRes, bodyRes, answer, submitted>>

(* validate_body: in isolation (merkle root first), then the parents'      *)
(* bodies, then the other rules in context.                                *)
ValidateBody(t) ==
    LET b == BlockOf[t] IN
    IF BodyOf[t] = "mismatch" THEN "BadMerkleRoot"
    ELSE IF BodyRule[b] = "bad" THEN "BodyError"
    ELSE IF t \in Trusted THEN "ok"
    ELSE IF \E p \in DirectParents[b] : ~HasBlockBody(status[p]) THEN "MissingParents"
    ELSE IF BodyRule[b] = "badInContext" THEN "BodyError"
    ELSE "ok"

(* Mutant: every failure marks the block invalid. *)
ProcessBodyMarksAll(b) ==
    LET v == ValidateBody(Head(bodyPending[b])) IN
    /\ bodyTaken[b] /\ bodyRes[b] = None
    /\ \/ /\ status[b] # "HeaderOnly"
          /\ bodyRes' = [bodyRes EXCEPT ![b] = IF status[b] = "Invalid" THEN "KnownInvalid" ELSE status[b]]
          /\ UNCHANGED storeVars
       \/ /\ status[b] = "HeaderOnly"
          /\ bodyRes' = [bodyRes EXCEPT ![b] = IF v = "ok" THEN "validated" ELSE v]
          /\ status' = IF v = "ok" THEN status ELSE [status EXCEPT ![b] = "Invalid"]
          /\ UNCHANGED tips
    /\ UNCHANGED <<hdrVars, bodyVars, virtVars, blockChan, bodyChan, virtChan, hdrRes, answer, submitted>>

(* process_body up to commit_body. *)
ProcessBody(b) ==
    LET t == Head(bodyPending[b])
        v == ValidateBody(t)
    IN
    /\ bodyTaken[b] /\ bodyRes[b] = None
    /\ \/ /\ status[b] # "HeaderOnly"
          /\ bodyRes' = [bodyRes EXCEPT ![b] = IF status[b] = "Invalid" THEN "KnownInvalid" ELSE status[b]]
          /\ UNCHANGED storeVars
       \/ /\ status[b] = "HeaderOnly" /\ v = "ok"
          /\ bodyRes' = [bodyRes EXCEPT ![b] = "validated"]
          /\ UNCHANGED storeVars
       \/ /\ status[b] = "HeaderOnly" /\ v # "ok"
          /\ bodyRes' = [bodyRes EXCEPT ![b] = v]
          /\ status' = IF v \in {"BadMerkleRoot", "MissingParents"}
                       THEN status ELSE [status EXCEPT ![b] = "Invalid"]
          /\ UNCHANGED tips
    /\ UNCHANGED <<hdrVars, bodyVars, virtVars, blockChan, bodyChan, virtChan, hdrRes, answer, submitted>>

(* commit_body: the parents stop being tips. *)
CommitBody(b) ==
    /\ bodyTaken[b] /\ bodyRes[b] = "validated"
    /\ bodyRes' = [bodyRes EXCEPT ![b] = "PendingVerification"]
    /\ status' = [status EXCEPT ![b] = "PendingVerification"]
    /\ tips' = (tips \ DirectParents[b]) \cup {b}
    /\ UNCHANGED <<hdrVars, bodyVars, virtVars, blockChan, bodyChan, virtChan, hdrRes, answer, submitted>>

(* end with the body processor's callback. *)
BodyEnd(b) ==
    LET t == Head(bodyPending[b]) IN
    /\ bodyTaken[b] /\ bodyRes[b] \notin {None, "validated"}
    /\ Body!End(b)
    /\ bodyRes' = [bodyRes EXCEPT ![b] = None]
    /\ IF bodyRes[b] \in Errors \/ t \in Trusted
       THEN /\ answer' = [answer EXCEPT ![t] = [block |-> bodyRes[b], virtual |-> bodyRes[b]]]
            /\ UNCHANGED virtChan
       ELSE /\ answer' = [answer EXCEPT ![t].block = bodyRes[b]]
            /\ virtChan' = Append(virtChan, t)
    /\ UNCHANGED <<hdrVars, virtVars, storeVars, blockChan, bodyChan, hdrRes, submitted>>

BodyPassExit ==
    /\ Body!PassExit
    /\ virtChan' = Append(virtChan, Exit)
    /\ UNCHANGED <<hdrVars, virtVars, storeVars, blockChan, bodyChan, hdrRes, bodyRes, answer, submitted>>

-----------------------------------------------------------------------------
(* The virtual processor's worker. *)

(* Receive one message and drain the channel; a first Exit ends the loop. *)
VirtReceive ==
    /\ virtWorker = "receiving" /\ virtChan # <<>>
    /\ IF Head(virtChan) = Exit
       THEN /\ virtWorker' = "exiting"
            /\ virtChan' = Tail(virtChan)
            /\ UNCHANGED virtBatch
       ELSE /\ virtWorker' = "resolving"
            /\ virtBatch' = virtChan
            /\ virtChan' = <<>>
    /\ UNCHANGED <<hdrVars, bodyVars, pruningExit, storeVars, blockChan, bodyChan, hdrRes, bodyRes, answer, submitted>>

(* resolve_virtual settles any of the blocks that have a body; the chain   *)
(* it selects is the subject of VirtualResolve.                            *)
ResolveVirtual ==
    /\ virtWorker = "resolving"
    /\ \E verdict \in [{b \in Block : status[b] = "PendingVerification"} ->
                          {"PendingVerification", "StateValid", "Disqualified"}] :
          status' = [b \in Block |-> IF b \in DOMAIN verdict THEN verdict[b] ELSE status[b]]
    /\ virtWorker' = "answering"
    /\ UNCHANGED <<hdrVars, bodyVars, virtBatch, pruningExit, tips, blockChan, bodyChan, virtChan, hdrRes, bodyRes, answer, submitted>>

(* Answer the batch in order from one snapshot of the statuses, up to Exit. *)
VirtAnswer ==
    /\ virtWorker = "answering"
    /\ LET upToExit == {i \in 1 .. Len(virtBatch) : \A j \in 1 .. i : virtBatch[j] # Exit}
           answered == {virtBatch[i] : i \in {j \in upToExit : status[BlockOf[virtBatch[j]]] # None}}
       IN  /\ answer' = [t \in Task |-> IF t \in answered
                                        THEN [answer[t] EXCEPT !.virtual = status[BlockOf[t]]]
                                        ELSE answer[t]]
           /\ virtWorker' = IF upToExit = 1 .. Len(virtBatch) THEN "receiving" ELSE "exiting"
    /\ virtBatch' = <<>>
    /\ UNCHANGED <<hdrVars, bodyVars, pruningExit, storeVars, blockChan, bodyChan, virtChan, hdrRes, bodyRes, submitted>>

VirtPassExit ==
    /\ virtWorker = "exiting"
    /\ virtWorker' = "exited"
    /\ pruningExit' = TRUE
    /\ UNCHANGED <<hdrVars, bodyVars, virtBatch, storeVars, blockChan, bodyChan, virtChan, hdrRes, bodyRes, answer, submitted>>

(* All processors returned and every caller has submitted. *)
Shutdown ==
    /\ virtWorker = "exited"
    /\ UNCHANGED vars

Next ==
    \/ \E t \in Task : Submit(t)
    \/ SignalExit
    \/ HdrReceive \/ HdrPassExit
    \/ \E b \in Block : HdrTryBegin(b) \/ ProcessHeader(b) \/ CommitHeader(b) \/ HdrEnd(b)
    \/ BodyReceive \/ BodyPassExit
    \/ \E b \in Block : BodyTryBegin(b) \/ ProcessBody(b) \/ CommitBody(b) \/ BodyEnd(b)
    \/ VirtReceive \/ ResolveVirtual \/ VirtAnswer \/ VirtPassExit
    \/ Shutdown

(* Every worker thread and every spawned job is eventually scheduled.      *)
(* Nothing forces a caller to submit or the node to shut down.             *)
Fairness ==
    /\ WF_vars(HdrReceive) /\ WF_vars(HdrPassExit)
    /\ WF_vars(BodyReceive) /\ WF_vars(BodyPassExit)
    /\ \A b \in Block : /\ WF_vars(HdrTryBegin(b)) /\ WF_vars(ProcessHeader(b))
                        /\ WF_vars(CommitHeader(b)) /\ WF_vars(HdrEnd(b))
                        /\ WF_vars(BodyTryBegin(b)) /\ WF_vars(ProcessBody(b))
                        /\ WF_vars(CommitBody(b)) /\ WF_vars(BodyEnd(b))
    /\ WF_vars(VirtReceive) /\ WF_vars(ResolveVirtual) /\ WF_vars(VirtAnswer) /\ WF_vars(VirtPassExit)

Spec == Init /\ [][Next]_vars
FairSpec == Spec /\ Fairness

-----------------------------------------------------------------------------
WasSubmitted(t) == \E i \in 1 .. Len(submitted) : submitted[i] = t

(* Was m submitted, and t after it? *)
Precedes(m, t) == \E i, j \in 1 .. Len(submitted) : i < j /\ submitted[i] = m /\ submitted[j] = t

(* Types of both managers, the stores and the answers. *)
TypeOK ==
    /\ Hdr!TypeOK /\ Body!TypeOK
    /\ status \in [Block -> Statuses \cup {None}]
    /\ tips \subseteq Block
    /\ answer \in [Task -> [block : Statuses \cup Errors \cup {None}, virtual : Statuses \cup Errors \cup {None}]]

(* A complete submission of a valid block.  A trusted one is not tested    *)
(* for the rules before the proof of work.                                 *)
IsSound(t) ==
    /\ BodyOf[t] = "match"
    /\ HeaderRule[BlockOf[t]] = "ok" \/ (t \in Trusted /\ HeaderRule[BlockOf[t]] = "prePow")
    /\ BodyRule[BlockOf[t]] = "ok"

(* The sound submissions whose parents were soundly submitted before them: *)
(* the union of the sets of submissions in which every task finds a        *)
(* submission of each parent of its block before it.                       *)
SoundlySubmitted ==
    UNION {S \in SUBSET Task : \A t \in S :
              /\ WasSubmitted(t) /\ ~Precedes(Exit, t) /\ IsSound(t)
              /\ \A p \in DirectParents[BlockOf[t]] : \E u \in S : BlockOf[u] = p /\ Precedes(u, t)}

(* Concurrency never costs a valid block its acceptance: when blocks are    *)
(* submitted parents first, none of them is answered with an error (such as *)
(* MissingParents), however the three processors interleave and whatever    *)
(* else is submitted in between.                                            *)
TopologicalSubmissionAccepted ==
    \A t \in SoundlySubmitted :
        /\ answer[t].block = None \/ HasBlockBody(answer[t].block)
        /\ answer[t].virtual = None \/ HasBlockBody(answer[t].virtual)

(* When the pruning processor is told to exit, every task submitted before  *)
(* the exit signal has been answered to both of its callers: shutdown never *)
(* drops a block in flight between two processors.                          *)
AnsweredBeforeExit ==
    pruningExit => \A t \in Task : Precedes(t, Exit) =>
        answer[t].block # None /\ answer[t].virtual # None

(* The header processor and the body processor each use the manager by its  *)
(* own specification, so what is proved of the manager holds for both.      *)
ProcessorsImplementManager == Hdr!Spec /\ Body!Spec

(* A status never goes back: what the header stage found unknown it commits  *)
(* as header-only, and what the body stage found without a body it commits,  *)
(* after validations in which other stages go on; a commit never takes a     *)
(* body, or a mark of invalidity, from a block.                              *)
StatusNeverGoesBack ==
    [][\A b \in Block : /\ HasBlockBody(status[b]) => HasBlockBody(status'[b])
                        /\ status[b] = "Invalid" => status'[b] = "Invalid"]_vars

(* Both futures of every submission complete, unless it came after Exit,    *)
(* and Exit itself gets through: the single wait of wait_for_idle does not  *)
(* miss the signal of end.  As a submission and its answers stay, it is     *)
(* enough that, again and again, nothing that was submitted is open.        *)
EverySubmissionAnswered ==
    []<>(/\ \A t \in Task :
                WasSubmitted(t) /\ ~Precedes(Exit, t) => answer[t].block # None /\ answer[t].virtual # None
         /\ WasSubmitted(Exit) => pruningExit)
=============================================================================

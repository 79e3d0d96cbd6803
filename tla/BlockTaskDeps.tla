--------------------------- MODULE BlockTaskDeps ---------------------------
(***************************************************************************)
(* The dependency manager of the block pipeline                            *)
(* (consensus/src/pipeline/deps_manager.rs) together with the worker loop  *)
(* and the thread pool that drive it.  The header processor and the body   *)
(* processor each own one such manager.                                    *)
(*                                                                         *)
(* A single worker thread receives tasks and registers them; threads of a  *)
(* pool run queue_block, which is try_begin, the processing proper, and    *)
(* end.  Every operation of the manager runs under one mutex and is one    *)
(* action here.  The processing proper happens between Begin and End and   *)
(* does not touch the manager.                                             *)
(***************************************************************************)
EXTENDS Naturals, Sequences

CONSTANTS
    Block,          \* block hashes
    Task,           \* submissions: several may carry the same block
    BlockOf,        \* the block a task carries
    DirectParents   \* header.direct_parents(), per block

ASSUME BlockOfType == BlockOf \in [Task -> Block]
ASSUME DirectParentsType == DirectParents \in [Block -> SUBSET Block]

VARIABLES
    pending,     \* hash -> queue of tasks of its group; <<>> = no entry in the map
    taken,       \* hash -> is the front task taken by try_begin?
    dependents,  \* hash -> hashes waiting for the group to complete
    queued,      \* hash -> number of queue_block(hash) jobs spawned, not yet begun
    worker,      \* where the receiving thread is
    registered,  \* history: the tasks registered so far
    before,      \* history: the tasks registered before a given task was
    ended        \* history: the tasks whose end callback ran

vars == <<pending, taken, dependents, queued, worker, registered, before, ended>>

-----------------------------------------------------------------------------
IsPending(b) == pending[b] # <<>>

Idle == \A b \in Block : ~IsPending(b)

Init ==
    /\ pending = [b \in Block |-> <<>>]
    /\ taken = [b \in Block |-> FALSE]
    /\ dependents = [b \in Block |-> {}]
    /\ queued = [b \in Block |-> 0]
    /\ worker = "receiving"
    /\ registered = {}
    /\ before = [t \in Task |-> {}]
    /\ ended = {}

(* Mutant: a job is spawned for every task, not only for a new group. *)
RegisterAlwaysSpawns(t) ==
    /\ worker = "receiving"
    /\ t \notin registered
    /\ pending' = [pending EXCEPT ![BlockOf[t]] = Append(@, t)]
    /\ queued' = [queued EXCEPT ![BlockOf[t]] = @ + 1]
    /\ registered' = registered \cup {t}
    /\ before' = [before EXCEPT ![t] = registered]
    /\ UNCHANGED <<taken, dependents, worker, ended>>

(* The worker registers a task; a job is spawned only for a new group. *)
Register(t) ==
    LET b == BlockOf[t] IN
    /\ worker = "receiving"
    /\ t \notin registered
    /\ pending' = [pending EXCEPT ![b] = Append(@, t)]
    /\ queued' = IF IsPending(b) THEN queued ELSE [queued EXCEPT ![b] = @ + 1]
    /\ registered' = registered \cup {t}
    /\ before' = [before EXCEPT ![t] = registered]
    /\ UNCHANGED <<taken, dependents, worker, ended>>

(* try_begin finds a pending parent (the first in header order; the order  *)
(* is arbitrary, so any) and leaves the hash with that parent's group.     *)
Postpone(b) ==
    /\ queued[b] > 0
    /\ queued' = [queued EXCEPT ![b] = @ - 1]
    /\ \E p \in DirectParents[b] :
          /\ IsPending(p)
          /\ dependents' = [dependents EXCEPT ![p] = @ \cup {b}]
    /\ UNCHANGED <<pending, taken, worker, registered, before, ended>>

(* Mutant: the parents are not looked up in the pending map. *)
BeginIgnoresParents(b) ==
    /\ queued[b] > 0
    /\ queued' = [queued EXCEPT ![b] = @ - 1]
    /\ taken' = [taken EXCEPT ![b] = TRUE]
    /\ UNCHANGED <<pending, dependents, worker, registered, before, ended>>

(* try_begin finds no pending parent and takes the front task. *)
Begin(b) ==
    /\ queued[b] > 0
    /\ \A p \in DirectParents[b] : ~IsPending(p)
    /\ queued' = [queued EXCEPT ![b] = @ - 1]
    /\ taken' = [taken EXCEPT ![b] = TRUE]
    /\ UNCHANGED <<pending, dependents, worker, registered, before, ended>>

(* Mutant: the dependents of a completed group are not returned. *)
NextTasksNoDependents(b) == IF Tail(pending[b]) = <<>> THEN {} ELSE {b}

(* What end returns to be spawned: the hash itself while its group has     *)
(* more tasks, the dependents of the group once it is removed.             *)
NextTasks(b) == IF Tail(pending[b]) = <<>> THEN dependents[b] ELSE {b}

(* Mutant: end signals as soon as its own group is complete. *)
EndSignalsEarly(b) ==
    /\ taken[b]
    /\ pending' = [pending EXCEPT ![b] = Tail(@)]
    /\ taken' = [taken EXCEPT ![b] = FALSE]
    /\ dependents' = IF Tail(pending[b]) = <<>> THEN [dependents EXCEPT ![b] = {}] ELSE dependents
    /\ queued' = [c \in Block |-> IF c \in NextTasks(b) THEN queued[c] + 1 ELSE queued[c]]
    /\ ended' = ended \cup {Head(pending[b])}
    /\ worker' = IF worker = "waiting" /\ Tail(pending[b]) = <<>> THEN "idle" ELSE worker
    /\ UNCHANGED <<registered, before>>

(* end: pop the front task, run the callback under the lock, signal the    *)
(* waiting worker when the map is empty, spawn what became runnable.       *)
End(b) ==
    /\ taken[b]
    /\ pending' = [pending EXCEPT ![b] = Tail(@)]
    /\ taken' = [taken EXCEPT ![b] = FALSE]
    /\ dependents' = IF Tail(pending[b]) = <<>> THEN [dependents EXCEPT ![b] = {}] ELSE dependents
    /\ queued' = [c \in Block |-> IF c \in NextTasks(b) THEN queued[c] + 1 ELSE queued[c]]
    /\ ended' = ended \cup {Head(pending[b])}
    /\ worker' = IF worker = "waiting" /\ \A c \in Block : pending'[c] = <<>>
                 THEN "idle" ELSE worker
    /\ UNCHANGED <<registered, before>>

(* The worker received Exit and calls wait_for_idle, which waits on the    *)
(* condition variable at most once.                                        *)
WaitForIdle ==
    /\ worker = "receiving"
    /\ worker' = IF Idle THEN "idle" ELSE "waiting"
    /\ UNCHANGED <<pending, taken, dependents, queued, registered, before, ended>>

(* The worker passes Exit on to the following processor and returns. *)
PassExit ==
    /\ worker = "idle"
    /\ worker' = "exited"
    /\ UNCHANGED <<pending, taken, dependents, queued, registered, before, ended>>

Exited == worker = "exited" /\ UNCHANGED vars

TryBegin(b) == Postpone(b) \/ Begin(b)

Next ==
    \/ \E t \in Task : Register(t)
    \/ \E b \in Block : Postpone(b) \/ Begin(b) \/ End(b)
    \/ WaitForIdle
    \/ PassExit
    \/ Exited

Spec == Init /\ [][Next]_vars

-----------------------------------------------------------------------------
(* Types of the pending map, the spawned jobs, the worker and the history. *)
TypeOK ==
    /\ pending \in [Block -> Seq(Task)]
    /\ taken \in [Block -> BOOLEAN]
    /\ dependents \in [Block -> SUBSET Block]
    /\ queued \in [Block -> Nat]
    /\ worker \in {"receiving", "waiting", "idle", "exited"}
    /\ registered \subseteq Task
    /\ before \in [Task -> SUBSET Task]
    /\ ended \subseteq Task

(* The panics of try_begin and end (lines 222-224, 247-248 and 255) are     *)
(* unreachable: a spawned job always finds its group, with a front task     *)
(* that nobody has taken, and no hash is ever run by two threads at once.   *)
NoPanic ==
    \A b \in Block :
        /\ queued[b] > 0 => IsPending(b) /\ ~taken[b] /\ queued[b] = 1
        /\ taken[b] => IsPending(b)

(* No group is forgotten: each pending hash is run by a thread, is spawned, *)
(* or waits with a parent whose group is itself still pending, and with     *)
(* one parent only.                                                         *)
NoLostGroup ==
    \A b \in Block : IsPending(b) =>
        \/ taken[b]
        \/ queued[b] = 1
        \/ \E p \in DirectParents[b] :
              /\ IsPending(p)
              /\ b \in dependents[p]
              /\ \A q \in Block : b \in dependents[q] => q = p

(* The order of the end callbacks, which is the order in which the next     *)
(* stage receives the blocks, respects the DAG and the submission order: a  *)
(* task ends only after every task that was registered before it for one of *)
(* its direct parents, or for the same hash.                                *)
ParentsEndFirst ==
    \A t \in ended : \A u \in before[t] :
        BlockOf[u] \in DirectParents[BlockOf[t]] \cup {BlockOf[t]} => u \in ended

(* Once the worker is past wait_for_idle nothing is left behind: no task is *)
(* pending, no job is spawned and no thread runs, so nothing can be sent    *)
(* to the next stage after its Exit.                                        *)
IdleIsFinal ==
    worker \in {"idle", "exited"} =>
        /\ registered = ended
        /\ \A b \in Block : queued[b] = 0 /\ ~taken[b]
=============================================================================

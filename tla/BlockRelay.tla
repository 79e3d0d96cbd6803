----------------------------- MODULE BlockRelay -----------------------------
(***************************************************************************)
(* How announced blocks reach consensus: one relay flow per peer (the loop *)
(* of HandleRelayInvsFlow), the map of requested blocks and the pool of    *)
(* orphan blocks the flows share (FlowContext), the task spawned for every *)
(* relayed block that takes its orphan children, and the IBD flow, which   *)
(* fetches the past of a block too far ahead and revalidates the pool.     *)
(*                                                                         *)
(* A block is its blue work, so parents are smaller numbers.  Consensus is *)
(* the set `known' of blocks with bodies and the set `pipe' of submitted   *)
(* ones; a block waits there for parents that are there too, which is what *)
(* BlockPipeline shows of the pipeline.  Blocks are valid, and the node is *)
(* not in the transitional state of a pruning catch-up.                    *)
(*                                                                         *)
(* The functions of the pool run under its lock.  They read the status of  *)
(* several blocks on the way; a status only ever changes to known, and a   *)
(* scan here reads them all at once.                                       *)
(***************************************************************************)
EXTENDS Integers, Sequences, FiniteSets, Functions

CONSTANTS Peer,          \* the connected peers
          Block,         \* the blocks above genesis
          Parents,       \* direct parents, [Block -> SUBSET (Block \cup {0})]
          MaxOrphans,    \* max_orphans
          Threshold,     \* virtual's merge depth blue work threshold
          Announced,     \* the blocks each peer announces, in any order
          MaxFailures,   \* bound on peers leaving and IBDs failing
          None

ASSUME RelayAssumption ==
  /\ Block \subseteq Nat \ {0} /\ IsFiniteSet(Block)
  /\ Parents \in [Block -> SUBSET (Block \cup {0})]
  /\ \A b \in Block : Parents[b] # {} /\ \A p \in Parents[b] : p < b
  /\ MaxOrphans \in Nat \ {0}
  /\ Threshold \in Nat
  /\ Announced \in [Peer -> SUBSET Block]
  /\ MaxFailures \in Nat
  /\ None \notin Block \cup Peer

VARIABLES
  known,      \* blocks with a body in consensus
  pipe,       \* blocks submitted to consensus and not yet processed
  orphans,    \* the orphan pool
  requests,   \* shared_block_requests: "none", "waiting" or "obtained"
  invs,       \* per peer, announcements not yet dequeued
  indirect,   \* per peer, indirect_invs: the queue of orphan roots
  flow,       \* per peer, the relay loop: its step and its current inv
  posts,      \* blocks whose on_new_block task is to take the pool lock
  job,        \* per peer, the block handed to its IBD flow
  ibd,        \* the running IBD and its progress through the pool
  unorphaned, \* history: blocks that went to consensus out of the pool
  stranded,   \* history: blocks inserted by an IBD that then failed
  failures    \* peers that left and IBDs that failed, up to MaxFailures

vars == <<known, pipe, orphans, requests, invs, indirect, flow, posts, job,
          ibd, unorphaned, stranded, failures>>

Idle == [pc |-> "idle", hash |-> None, isOrphanRoot |-> FALSE, within |-> FALSE]

Closed == [Idle EXCEPT !.pc = "closed"]

\* The job channel of an IBD flow that has ended.
Exited == 0

NoIbd == [peer |-> None, block |-> None, inserted |-> {}, roots |-> {},
          queued |-> None, locked |-> FALSE]

Init ==
  /\ known = {0}
  /\ pipe = {}
  /\ orphans = {}
  /\ requests = [b \in Block |-> "none"]
  /\ invs = Announced
  /\ indirect = [p \in Peer |-> <<>>]
  /\ flow = [p \in Peer |-> Idle]
  /\ posts = {}
  /\ job = [p \in Peer |-> None]
  /\ ibd = NoIbd
  /\ unorphaned = {}
  /\ stranded = {}
  /\ failures = 0
-----------------------------------------------------------------------------
(* The orphan pool. *)

\* get_orphan_roots searches from the parents of b on through the orphans.  The
\* orphan ancestors it finds are the least set that holds the orphan parents of
\* b and of its own members.
OrphanAncestors(b) ==
  {a \in orphans :
     \A W \in SUBSET orphans :
       (\A o \in W \cup {b} : Parents[o] \cap orphans \subseteq W) => a \in W}

Visited(b) == UNION {Parents[o] : o \in OrphanAncestors(b) \cup {b}}

\* Mutant of Roots: a block consensus has counts as missing.
RootsOutsidePool(b) == Visited(b) \ orphans

Roots(b) == (Visited(b) \ orphans) \ known

\* Mutant of Taken: the children of the root are taken whatever else they miss.
TakenChildren(root) == {o \in orphans : root \in Parents[o]}

\* The orphans unorphan_blocks takes from the pool: starting at the children of
\* root, the ones all of whose parents are in consensus or taken with them.
Taken(root) ==
  UNION {T \in SUBSET (orphans \ {root}) :
           \A o \in T : /\ Parents[o] \subseteq known \cup T
                        /\ Parents[o] \cap (T \cup {root}) # {}}

\* unorphan_blocks: the root leaves the pool, the orphans it completes go to
\* consensus.
UnorphanBlocks(root) ==
  /\ orphans' = orphans \ (Taken(root) \cup {root})
  /\ pipe' = pipe \cup Taken(root)
  /\ unorphaned' = unorphaned \cup Taken(root)

\* The pool after b is added: at the limit an orphan that is no ancestor of b
\* makes room, and b is not kept when the draws only hit ancestors.
AddedPools(b) ==
  IF Cardinality(orphans) < MaxOrphans
  THEN {orphans \cup {b}}
  ELSE {(orphans \ {e}) \cup {b} : e \in orphans \ OrphanAncestors(b)}
         \cup IF OrphanAncestors(b) = {} THEN {} ELSE {orphans}

\* Nobody else is inside the pool's lock.
PoolFree == ~ibd.locked
-----------------------------------------------------------------------------
(* The shared map of requested blocks. *)

\* Dropping the RequestScope removes the entry, whoever took it over.
DropScope(b) == requests' = [requests EXCEPT ![b] = "none"]

\* try_adding_request_impl: a free entry is taken; one that is still waiting
\* is taken over once REQUEST_SCOPE_WAIT_TIME has passed.
MayRequest(b) == requests[b] \in {"none", "waiting"}

MayRefuse(b) == requests[b] # "none"
-----------------------------------------------------------------------------
(* The relay flow of a peer. *)

Goto(p, pc) == flow' = [flow EXCEPT ![p].pc = pc]

Done(p) == flow' = [flow EXCEPT ![p] = Idle]

Inv(b, isOrphanRoot, within) ==
  [pc |-> "idle", hash |-> b, isOrphanRoot |-> isOrphanRoot, within |-> within]

\* enqueue_orphan_roots, in the order the search found them.
EnqueueRoots(p, S, queue, within) ==
  \E s \in Bijection(1 .. Cardinality(S), S) :
    indirect' = [indirect EXCEPT
      ![p] = queue \o [i \in DOMAIN s |-> Inv(s[i], TRUE, within)]]

\* What the loop does with a dequeued inv, whose queue is then `queue': known
\* blocks are skipped, a known orphan has its roots enqueued, and any other
\* block is requested unless IBD runs on a node out of sync or another flow has
\* requested it.
HandleInv(p, inv, queue) ==
  \/ /\ inv.hash \in known \/ (inv.hash \in orphans /\ Roots(inv.hash) = {})
     /\ indirect' = [indirect EXCEPT ![p] = queue]
     /\ UNCHANGED <<flow, requests>>
  \/ /\ inv.hash \in orphans \ known
     /\ Roots(inv.hash) # {}
     /\ EnqueueRoots(p, Roots(inv.hash), queue, inv.within)
     /\ UNCHANGED <<flow, requests>>
  \/ /\ inv.hash \notin known \cup orphans
     /\ ibd.peer # None \/ MayRefuse(inv.hash)
     /\ indirect' = [indirect EXCEPT ![p] = queue]
     /\ UNCHANGED <<flow, requests>>
  \/ /\ inv.hash \notin known \cup orphans
     /\ MayRequest(inv.hash)
     /\ requests' = [requests EXCEPT ![inv.hash] = "waiting"]
     /\ flow' = [flow EXCEPT ![p] = [inv EXCEPT !.pc = "requested"]]
     /\ indirect' = [indirect EXCEPT ![p] = queue]

\* dequeue takes the indirect invs first.
DequeueIndirect(p) ==
  /\ flow[p].pc = "idle"
  /\ indirect[p] # <<>>
  /\ PoolFree
  /\ HandleInv(p, Head(indirect[p]), Tail(indirect[p]))
  /\ UNCHANGED <<known, pipe, orphans, invs, posts, job, ibd, unorphaned,
                 stranded, failures>>

Dequeue(p) ==
  /\ flow[p].pc = "idle"
  /\ indirect[p] = <<>>
  /\ PoolFree
  /\ \E b \in invs[p] :
       /\ invs' = [invs EXCEPT ![p] = @ \ {b}]
       /\ HandleInv(p, Inv(b, FALSE, FALSE), <<>>)
  /\ UNCHANGED <<known, pipe, orphans, posts, job, ibd, unorphaned, stranded,
                 failures>>

\* The requested block arrives.  One below virtual's merge depth root is
\* skipped, unless it was enqueued as a root; any other is submitted.
ReceiveBlock(p) ==
  LET b == flow[p].hash IN
  /\ flow[p].pc = "requested"
  /\ IF b <= Threshold /\ ~flow[p].isOrphanRoot
     THEN DropScope(b) /\ Done(p) /\ UNCHANGED pipe
     ELSE /\ requests' = [requests EXCEPT
               ![b] = IF @ = "none" THEN @ ELSE "obtained"]
          /\ pipe' = pipe \cup ({b} \ known)
          /\ Goto(p, "submitted")
  /\ UNCHANGED <<known, orphans, invs, indirect, posts, job, ibd, unorphaned,
                 stranded, failures>>

\* Consensus answers, and the loop goes on: the block was inserted, and the
\* task for it is spawned.
BlockInserted(p) ==
  LET b == flow[p].hash IN
  /\ flow[p].pc \in {"submitted", "retry"}
  /\ b \in known
  /\ posts' = posts \cup {b}
  /\ DropScope(b)
  /\ Done(p)
  /\ UNCHANGED <<known, pipe, orphans, invs, indirect, job, ibd, unorphaned,
                 stranded, failures>>

\* Consensus answers MissingParents; process_orphan begins.  It ends there when
\* another flow has added the block, goes on to the pool when the inv or the
\* running IBD puts the block within range, and else asks the peer.
MissingParents(p) ==
  LET b == flow[p].hash IN
  /\ flow[p].pc = "submitted"
  /\ b \notin pipe \cup known
  /\ PoolFree
  /\ IF b \in orphans
     THEN DropScope(b) /\ Done(p)
     ELSE /\ \/ (flow[p].within \/ ibd.peer # None) /\ Goto(p, "orphan")
             \/ ~flow[p].within /\ Goto(p, "locating")
          /\ UNCHANGED requests
  /\ UNCHANGED <<known, pipe, orphans, invs, indirect, posts, job, ibd,
                 unorphaned, stranded, failures>>

\* The peer's locator holds a known block (the block is within the orphan
\* resolution range), or the block is handed to this peer's IBD flow.
LocatorWithin(p) ==
  /\ flow[p].pc = "locating"
  /\ flow' = [flow EXCEPT ![p].pc = "orphan", ![p].within = TRUE]
  /\ UNCHANGED <<known, pipe, orphans, requests, invs, indirect, posts, job,
                 ibd,
                 unorphaned, stranded, failures>>

TryTriggerIbd(p) ==
  LET b == flow[p].hash IN
  /\ flow[p].pc = "locating"
  /\ job[p] # Exited
  /\ job' = [job EXCEPT ![p] = IF @ # None /\ @ > b THEN @ ELSE b]
  /\ DropScope(b)
  /\ Done(p)
  /\ UNCHANGED <<known, pipe, orphans, invs, indirect, posts, ibd, unorphaned,
                 stranded, failures>>

\* add_orphan.  With no missing root the orphan ancestors go to consensus and
\* the block after them, to be awaited; else the block is added and the flow
\* turns to its roots.
AddOrphan(p) ==
  LET b == flow[p].hash IN
  /\ flow[p].pc = "orphan"
  /\ PoolFree
  /\ \/ /\ b \in orphans
        /\ DropScope(b) /\ Done(p)
        /\ UNCHANGED <<pipe, orphans, indirect, unorphaned>>
     \/ /\ b \notin orphans
        /\ Roots(b) = {}
        /\ orphans' = orphans \ OrphanAncestors(b)
        /\ pipe' = pipe \cup ((OrphanAncestors(b) \cup {b}) \ known)
        /\ unorphaned' = unorphaned \cup OrphanAncestors(b)
        /\ Goto(p, "retry")
        /\ UNCHANGED <<requests, indirect>>
     \/ /\ b \notin orphans
        /\ Roots(b) # {}
        /\ orphans' \in AddedPools(b)
        /\ IF b \in orphans'
           THEN EnqueueRoots(p, Roots(b), indirect[p], flow[p].within)
           ELSE UNCHANGED indirect
        /\ DropScope(b) /\ Done(p)
        /\ UNCHANGED <<pipe, unorphaned>>
  /\ UNCHANGED <<known, invs, posts, job, ibd, stranded, failures>>

\* Mutant of Disconnect: the entry outlives the flow.
DisconnectKeepsScope(p) ==
  /\ flow[p].pc \in {"idle", "requested", "locating"}
  /\ failures < MaxFailures
  /\ failures' = failures + 1
  /\ flow' = [flow EXCEPT ![p] = Closed]
  /\ invs' = [invs EXCEPT ![p] = {}]
  /\ indirect' = [indirect EXCEPT ![p] = <<>>]
  /\ UNCHANGED <<known, pipe, orphans, requests, posts, job, ibd, unorphaned,
                 stranded>>

\* The peer does not answer in time, leaves, or its IBD flow has exited: the flow
\* ends and its scope is dropped.
Disconnect(p) ==
  /\ failures < MaxFailures
  /\ failures' = failures + 1
  /\ flow[p].pc \in {"idle", "requested", "locating"}
  /\ flow' = [flow EXCEPT ![p] = Closed]
  /\ IF flow[p].pc = "idle" THEN UNCHANGED requests ELSE DropScope(flow[p].hash)
  /\ invs' = [invs EXCEPT ![p] = {}]
  /\ indirect' = [indirect EXCEPT ![p] = <<>>]
  /\ UNCHANGED <<known, pipe, orphans, posts, job, ibd, unorphaned, stranded>>

\* The task of a relayed block takes the pool lock.
OnNewBlock(b) ==
  /\ b \in posts
  /\ PoolFree
  /\ posts' = posts \ {b}
  /\ UnorphanBlocks(b)
  /\ UNCHANGED <<known, requests, invs, indirect, flow, job, ibd, stranded,
                 failures>>

\* Consensus finishes a block none of whose parents is still on its way.
ProcessBlock(b) ==
  /\ b \in pipe
  /\ Parents[b] \cap pipe = {}
  /\ pipe' = pipe \ {b}
  /\ known' = IF Parents[b] \subseteq known THEN known \cup {b} ELSE known
  /\ UNCHANGED <<orphans, requests, invs, indirect, flow, posts, job, ibd,
                 unorphaned, stranded, failures>>
-----------------------------------------------------------------------------
(* The IBD flow of a peer. *)

\* The blocks whose bodies IBD fetches for a relay block: itself and its past.
Past ==
  [b \in Block |->
     {x \in Block : \A V \in SUBSET Block :
        b \in V /\ (\A c \in V : Parents[c] \cap Block \subseteq V) => x \in V}]

Missing == Past[ibd.block] \ known

\* A block is taken from the job channel; it starts IBD only when none runs.
IbdStart(p) ==
  /\ job[p] \notin {None, Exited}
  /\ job' = [job EXCEPT ![p] = None]
  /\ ibd' = IF ibd.peer = None
            THEN [NoIbd EXCEPT !.peer = p, !.block = job[p]]
            ELSE ibd
  /\ UNCHANGED <<known, pipe, orphans, requests, invs, indirect, flow, posts,
                 unorphaned, stranded, failures>>

\* sync_missing_block_bodies submits the next missing body in topological order.
IbdInsert(b) ==
  /\ ibd.peer # None
  /\ ~ibd.locked
  /\ b \in Missing \ ibd.inserted
  /\ Parents[b] \subseteq known \cup ibd.inserted
  /\ pipe' = pipe \cup {b}
  /\ ibd' = [ibd EXCEPT !.inserted = @ \cup {b}]
  /\ UNCHANGED <<known, orphans, requests, invs, indirect, flow, posts, job,
                 unorphaned, stranded, failures>>

\* An error ends IBD without revalidating the pool, and ends the flow.
IbdFail ==
  /\ failures < MaxFailures
  /\ failures' = failures + 1
  /\ ibd.peer # None
  /\ ~ibd.locked
  /\ stranded' = stranded \cup ibd.inserted
  /\ job' = [job EXCEPT ![ibd.peer] = Exited]
  /\ ibd' = NoIbd
  /\ UNCHANGED <<known, pipe, orphans, requests, invs, indirect, flow, posts,
                 unorphaned>>

\* revalidate_orphans takes the lock, removes the orphans consensus has, and
\* finds the ones all of whose parents it has.
RevalidateOrphans ==
  LET left == orphans \ known IN
  /\ ibd.peer # None
  /\ ~ibd.locked
  /\ Missing = {}
  /\ orphans' = left
  /\ ibd' = [ibd EXCEPT !.locked = TRUE,
               !.roots = {o \in left : Parents[o] \subseteq known \ left}]
  /\ UNCHANGED <<known, pipe, requests, invs, indirect, flow, posts, job,
                 unorphaned, stranded, failures>>

\* Each such root is submitted, and then its descendants that are processable
\* by then are taken.
QueueRoot(b) ==
  /\ ibd.locked
  /\ ibd.queued = None
  /\ b \in ibd.roots
  /\ pipe' = pipe \cup ({b} \ known)
  /\ unorphaned' = unorphaned \cup {b}
  /\ ibd' = [ibd EXCEPT !.roots = @ \ {b}, !.queued = b]
  /\ UNCHANGED <<known, orphans, requests, invs, indirect, flow, posts, job,
                 stranded, failures>>

UnorphanRoot ==
  /\ ibd.locked
  /\ ibd.queued # None
  /\ UnorphanBlocks(ibd.queued)
  /\ ibd' = [ibd EXCEPT !.queued = None]
  /\ UNCHANGED <<known, requests, invs, indirect, flow, posts, job, stranded,
                 failures>>

\* The lock is released and IBD is over.
IbdDone ==
  /\ ibd.locked
  /\ ibd.queued = None
  /\ ibd.roots = {}
  /\ ibd' = NoIbd
  /\ UNCHANGED <<known, pipe, orphans, requests, invs, indirect, flow, posts,
                 job,
                 unorphaned, stranded, failures>>
-----------------------------------------------------------------------------
Next ==
  \/ \E p \in Peer :
       \/ DequeueIndirect(p) \/ Dequeue(p) \/ ReceiveBlock(p) \/ BlockInserted(p)
       \/ MissingParents(p) \/ LocatorWithin(p) \/ TryTriggerIbd(p) \/ AddOrphan(p)
       \/ Disconnect(p) \/ IbdStart(p)
  \/ \E b \in Block :
       OnNewBlock(b) \/ ProcessBlock(b) \/ IbdInsert(b) \/ QueueRoot(b)
  \/ IbdFail \/ RevalidateOrphans \/ UnorphanRoot \/ IbdDone

Spec == Init /\ [][Next]_vars
-----------------------------------------------------------------------------
(* Properties. *)

Holds(p, b) == flow[p].pc \notin {"idle", "closed"} /\ flow[p].hash = b

\* An entry of the shared request map belongs to a flow that still has the
\* block in hand: whichever way a flow ends, and whoever took its entry over,
\* no entry is left that keeps every peer from being asked for the block.
RequestsAreHeld ==
  \A b \in Block : requests[b] # "none" => \E p \in Peer : Holds(p, b)

\* A block that went from the orphan pool to consensus is not lost: the pool let
\* it go only when consensus has, or is about to have, all its parents.
UnorphanedAreKept ==
  unorphaned \subseteq known \cup pipe

\* An orphan whose parents all reached consensus is taken: a flow or a spawned
\* task is about to take it on behalf of one of them, or the running IBD is.
\* The exceptions are a parent that came out of the pool itself, whose children
\* nobody looks for once it is inserted, and one inserted by an IBD that failed.
OrphansAreTaken ==
  \A o \in orphans : Parents[o] \subseteq known =>
    \/ o \in known
    \/ ibd.peer # None
    \/ \E b \in Parents[o] :
         \/ b \in posts \cup unorphaned \cup stranded
         \/ \E p \in Peer : Holds(p, b) /\ flow[p].pc \in {"submitted", "retry"}
=============================================================================

-------------------------- MODULE BlockRelayProofs --------------------------
(***************************************************************************)
(* The three properties of BlockRelay for any block DAG, any peers and     *)
(* announcements, any size of the orphan pool and any number of failures.  *)
(*                                                                         *)
(* RequestsAreHeld is inductive by itself.  The other two need to know     *)
(* where a block on its way through consensus came from (PipeIsOwned),     *)
(* that consensus holds the past of what it holds (KnownIsClosed), and     *)
(* what IBD has found under the pool's lock (LockedRoots).                 *)
(***************************************************************************)
EXTENDS BlockRelay, FiniteSetTheorems, TLAPS

Steps == {"idle", "requested", "submitted", "locating", "orphan", "retry", "closed"}

Invs == [pc : {"idle"}, hash : Block, isOrphanRoot : BOOLEAN, within : BOOLEAN]

Flows == [pc : Steps, hash : Block \cup {None}, isOrphanRoot : BOOLEAN, within : BOOLEAN]

Ibds == [peer : Peer \cup {None}, block : Block \cup {None}, inserted : SUBSET Block,
         roots : SUBSET Block, queued : Block \cup {None}, locked : BOOLEAN]

TypeInv ==
  /\ known \subseteq Block \cup {0} /\ 0 \in known
  /\ pipe \subseteq Block
  /\ orphans \subseteq Block
  /\ requests \in [Block -> {"none", "waiting", "obtained"}]
  /\ invs \in [Peer -> SUBSET Block]
  /\ indirect \in [Peer -> Seq(Invs)]
  /\ flow \in [Peer -> Flows]
  /\ \A p \in Peer : flow[p].pc \notin {"idle", "closed"} => flow[p].hash \in Block
  /\ posts \subseteq Block
  /\ job \in [Peer -> Block \cup {None, Exited}]
  /\ ibd \in Ibds
  /\ unorphaned \subseteq Block
  /\ stranded \subseteq Block

\* Consensus has the parents of every block it has.
KnownIsClosed == \A b \in known \cap Block : Parents[b] \subseteq known

\* A block out of the pool is in consensus or on its way, and so are its parents.
UnorphanedParents ==
  \A b \in unorphaned : b \in known \cup pipe /\ Parents[b] \subseteq known \cup unorphaned

\* What IBD holds while it runs, and while it has the pool's lock.
LockedRoots ==
  /\ ibd.peer = None => ~ibd.locked /\ ibd.inserted = {}
  /\ ibd.peer # None => ibd.block \in Block /\ ibd.inserted \subseteq Past[ibd.block]
  /\ ~ibd.locked => ibd.roots = {} /\ ibd.queued = None
  /\ \A r \in ibd.roots : Parents[r] \subseteq known

\* A flow awaits the answer of consensus for b.
Awaited(b) == \E p \in Peer : flow[p].hash = b /\ flow[p].pc \in {"submitted", "retry"}

\* Every block on its way was submitted by the pool, by IBD or by a flow that
\* still awaits it.
PipeIsOwned ==
  \A b \in pipe \ known :
    \/ b \in unorphaned \cup stranded
    \/ ~ibd.locked /\ b \in ibd.inserted
    \/ Awaited(b)

\* Somebody is going to take the children of b, or nobody is but b is one of
\* the exceptions.
Taker(b) ==
  \/ b \in posts \cup unorphaned \cup stranded
  \/ ~ibd.locked /\ b \in ibd.inserted
  \/ Awaited(b)

\* OrphansAreTaken, with what IBD does for an orphan told apart.
TakersExist ==
  \A o \in orphans : Parents[o] \subseteq known =>
    \/ o \in known \cup ibd.roots \cup {ibd.queued}
    \/ \E b \in Parents[o] : Taker(b)

RelayInv ==
  /\ TypeInv
  /\ KnownIsClosed
  /\ LockedRoots
  /\ PipeIsOwned
  /\ TakersExist
-----------------------------------------------------------------------------
(* Lemmas about the pool. *)

LEMMA RootsType ==
  ASSUME TypeInv, NEW b \in Block
  PROVE  Roots(b) \subseteq Block /\ OrphanAncestors(b) \subseteq orphans
<1>1. OrphanAncestors(b) \subseteq orphans
  BY DEF OrphanAncestors
<1>2. \A o \in OrphanAncestors(b) \cup {b} : Parents[o] \subseteq Block \cup {0}
  BY <1>1, RelayAssumption, Zenon DEF TypeInv
<1> QED BY <1>1, <1>2 DEF Roots, Visited, TypeInv

\* With no missing root, the parents of the orphan ancestors and of the block
\* itself are in consensus or orphan ancestors too.
LEMMA NoRootsMeansKnown ==
  ASSUME NEW b, Roots(b) = {}, NEW o \in OrphanAncestors(b) \cup {b}
  PROVE  Parents[o] \subseteq known \cup OrphanAncestors(b)
<1> SUFFICES ASSUME NEW x \in Parents[o] PROVE x \in known \cup OrphanAncestors(b)
  OBVIOUS
<1>1. x \in Visited(b)
  BY DEF Visited
<1>2. CASE x \notin orphans
  BY <1>1, <1>2 DEF Roots
<1>3. CASE x \in orphans
  BY <1>3 DEF OrphanAncestors
<1> QED BY <1>2, <1>3

\* A block all of whose parents are in consensus has no missing root.
LEMMA KnownMeansNoRoots ==
  ASSUME TypeInv, KnownIsClosed, NEW b \in Block, Parents[b] \subseteq known
  PROVE  Roots(b) = {}
<1>1. \A o \in (known \cap orphans) \cup {b} :
         Parents[o] \cap orphans \subseteq known \cap orphans
  BY DEF KnownIsClosed, TypeInv
<1>2. OrphanAncestors(b) \subseteq known \cap orphans
  BY <1>1, Zenon DEF OrphanAncestors
<1>3. \A o \in OrphanAncestors(b) \cup {b} : Parents[o] \subseteq known
  BY <1>2 DEF KnownIsClosed, TypeInv
<1> QED BY <1>3 DEF Roots, Visited

\* What is taken with a root leaves nothing behind that consensus could miss.
LEMMA TakenParents ==
  ASSUME NEW root, NEW o \in Taken(root)
  PROVE  o \in orphans /\ Parents[o] \subseteq known \cup Taken(root)
BY DEF Taken

\* A child of the root all of whose parents are in consensus is taken.
LEMMA ChildrenAreTaken ==
  ASSUME NEW root, NEW o \in orphans, o # root, root \in Parents[o], Parents[o] \subseteq known
  PROVE  o \in Taken(root)
<1> DEFINE T == {o}
<1>1. /\ T \in SUBSET (orphans \ {root})
      /\ \A x \in T : /\ Parents[x] \subseteq known \cup T
                      /\ Parents[x] \cap (T \cup {root}) # {}
  OBVIOUS
<1> HIDE DEF T
<1>2. o \in T
  BY DEF T
<1> QED BY <1>1, <1>2 DEF Taken

LEMMA EnqueueType ==
  ASSUME TypeInv, NEW p \in Peer, NEW S \in SUBSET Block, NEW queue \in Seq(Invs),
         NEW within \in BOOLEAN, EnqueueRoots(p, S, queue, within)
  PROVE  indirect' \in [Peer -> Seq(Invs)]
<1>1. PICK s \in Bijection(1 .. Cardinality(S), S) : indirect' = [indirect EXCEPT
         ![p] = queue \o [i \in DOMAIN s |-> Inv(s[i], TRUE, within)]]
  BY Zenon DEF EnqueueRoots
<1> DEFINE t == [i \in DOMAIN s |-> Inv(s[i], TRUE, within)]
<1>2. Cardinality(S) \in Nat
  BY FS_Subset, FS_CardinalityType, RelayAssumption, Zenon
<1>3. s \in [1 .. Cardinality(S) -> S]
  BY DEF Bijection, Injection
<1>4. t \in [1 .. Cardinality(S) -> Invs]
  <2>1. \A i \in 1 .. Cardinality(S) : s[i] \in Block
    BY <1>3
  <2>2. \A h \in Block : Inv(h, TRUE, within) \in Invs
    BY DEF Inv, Invs
  <2> QED BY <1>3, <2>1, <2>2, Zenon
<1> HIDE DEF t
<1>5. t \in Seq(Invs)
  BY <1>2, <1>4
<1>6. queue \o t \in Seq(Invs)
  BY <1>5
<1>7. indirect' = [indirect EXCEPT ![p] = queue \o t]
  BY <1>1 DEF t
<1> QED BY <1>6, <1>7 DEF TypeInv
-----------------------------------------------------------------------------
(* Type correctness. *)

LEMMA HandleInvType ==
  ASSUME TypeInv, NEW p \in Peer, NEW inv \in Invs, NEW queue \in Seq(Invs),
         flow[p].pc = "idle", HandleInv(p, inv, queue)
  PROVE  /\ indirect' \in [Peer -> Seq(Invs)]
         /\ requests' \in [Block -> {"none", "waiting", "obtained"}]
         /\ flow' \in [Peer -> Flows]
         /\ \A q \in Peer : flow'[q].pc \notin {"idle", "closed"} => flow'[q].hash \in Block
<1>1. inv.hash \in Block /\ inv.within \in BOOLEAN
  BY DEF Invs
<1>2. CASE /\ indirect' = [indirect EXCEPT ![p] = queue]
           /\ UNCHANGED <<flow, requests>>
  BY <1>2 DEF TypeInv
<1>3. CASE /\ EnqueueRoots(p, Roots(inv.hash), queue, inv.within)
           /\ UNCHANGED <<flow, requests>>
  BY <1>1, <1>3, RootsType, EnqueueType, Zenon DEF TypeInv
<1>4. CASE /\ requests' = [requests EXCEPT ![inv.hash] = "waiting"]
           /\ flow' = [flow EXCEPT ![p] = [inv EXCEPT !.pc = "requested"]]
           /\ indirect' = [indirect EXCEPT ![p] = queue]
  <2>1. [inv EXCEPT !.pc = "requested"] \in Flows
    BY DEF Invs, Flows, Steps
  <2>2. [inv EXCEPT !.pc = "requested"].hash \in Block
    BY DEF Invs
  <2> QED BY <1>1, <1>4, <2>1, <2>2 DEF TypeInv
<1> QED BY <1>2, <1>3, <1>4 DEF HandleInv

LEMMA FlowType ==
  ASSUME TypeInv, NEW p \in Peer
  PROVE  /\ flow[p] \in Flows
         /\ flow[p].pc \notin {"idle", "closed"} => flow[p].hash \in Block
         /\ Idle \in Flows /\ Closed \in Flows
         /\ Idle.pc = "idle" /\ Closed.pc = "closed"
BY Zenon DEF TypeInv, Idle, Closed, Flows, Steps

LEMMA GotoType ==
  ASSUME TypeInv, NEW p \in Peer, flow[p].hash \in Block, NEW pc \in Steps, Goto(p, pc)
  PROVE  /\ flow' \in [Peer -> Flows]
         /\ \A q \in Peer : flow'[q].pc \notin {"idle", "closed"} => flow'[q].hash \in Block
<1>1. flow' = [flow EXCEPT ![p] = [flow[p] EXCEPT !.pc = pc]]
  BY DEF Goto, TypeInv
<1>2. [flow[p] EXCEPT !.pc = pc] \in Flows
  BY Zenon DEF TypeInv, Flows
<1>3. [flow[p] EXCEPT !.pc = pc].hash = flow[p].hash
  BY DEF TypeInv, Flows
<1> QED BY <1>1, <1>2, <1>3 DEF TypeInv

LEMMA PeerSteps ==
  ASSUME TypeInv, NEW p \in Peer,
         \/ ReceiveBlock(p) \/ BlockInserted(p) \/ MissingParents(p)
         \/ LocatorWithin(p) \/ TryTriggerIbd(p) \/ Disconnect(p)
  PROVE  TypeInv'
<1> DEFINE b == flow[p].hash
<1>0. /\ flow[p] \in Flows
      /\ flow[p].pc \notin {"idle", "closed"} => b \in Block
      /\ Idle \in Flows /\ Closed \in Flows
      /\ Idle.pc = "idle" /\ Closed.pc = "closed"
  BY FlowType
<1>1. CASE ReceiveBlock(p)
  <2>1. b \in Block
    BY <1>0, <1>1 DEF ReceiveBlock
  <2>2. CASE DropScope(b) /\ Done(p) /\ UNCHANGED pipe
    BY <1>0, <1>1, <2>1, <2>2 DEF ReceiveBlock, DropScope, Done, TypeInv
  <2>3. CASE /\ requests' = [requests EXCEPT ![b] = IF @ = "none" THEN @ ELSE "obtained"]
             /\ pipe' = pipe \cup ({b} \ known)
             /\ Goto(p, "submitted")
    <3>1. /\ flow' \in [Peer -> Flows]
          /\ \A q \in Peer : flow'[q].pc \notin {"idle", "closed"} => flow'[q].hash \in Block
      BY <2>1, <2>3, GotoType DEF Steps
    <3>2. requests' \in [Block -> {"none", "waiting", "obtained"}]
      BY <2>1, <2>3 DEF TypeInv
    <3> QED BY <1>1, <2>1, <2>3, <3>1, <3>2 DEF ReceiveBlock, TypeInv
  <2> QED BY <1>1, <2>2, <2>3 DEF ReceiveBlock
<1>2. CASE BlockInserted(p)
  BY <1>0, <1>2 DEF BlockInserted, DropScope, Done, TypeInv
<1>3. CASE MissingParents(p)
  <2>1. b \in Block
    BY <1>0, <1>3 DEF MissingParents
  <2>2. CASE DropScope(b) /\ Done(p)
    BY <1>0, <1>3, <2>1, <2>2 DEF MissingParents, DropScope, Done, TypeInv
  <2>3. CASE (Goto(p, "orphan") \/ Goto(p, "locating")) /\ UNCHANGED requests
    <3>1. /\ flow' \in [Peer -> Flows]
          /\ \A q \in Peer : flow'[q].pc \notin {"idle", "closed"} => flow'[q].hash \in Block
      BY <2>1, <2>3, GotoType DEF Steps
    <3> QED BY <1>3, <2>3, <3>1 DEF MissingParents, TypeInv
  <2> QED BY <1>3, <2>2, <2>3 DEF MissingParents
<1>4. CASE LocatorWithin(p)
  BY <1>0, <1>4, Zenon DEF LocatorWithin, TypeInv, Flows, Steps
<1>5. CASE TryTriggerIbd(p)
  BY <1>0, <1>5 DEF TryTriggerIbd, DropScope, Done, TypeInv
<1>6. CASE Disconnect(p)
  BY <1>0, <1>6 DEF Disconnect, DropScope, TypeInv
<1> QED BY <1>1, <1>2, <1>3, <1>4, <1>5, <1>6

LEMMA AddOrphanType ==
  ASSUME TypeInv, NEW p \in Peer, AddOrphan(p)
  PROVE  TypeInv'
<1> DEFINE b == flow[p].hash
<1>0. /\ flow[p] \in Flows /\ flow[p].within \in BOOLEAN
      /\ b \in Block
      /\ Idle \in Flows /\ Idle.pc = "idle"
  BY FlowType DEF AddOrphan, Flows
<1>1. Roots(b) \subseteq Block /\ OrphanAncestors(b) \subseteq orphans
  BY <1>0, RootsType
<1>2. indirect[p] \in Seq(Invs)
  BY DEF TypeInv
<1>3. indirect' \in [Peer -> Seq(Invs)]
  <2>1. CASE indirect' = indirect
    BY <2>1 DEF TypeInv
  <2>2. CASE EnqueueRoots(p, Roots(b), indirect[p], flow[p].within)
    BY <1>0, <1>1, <1>2, <2>2, EnqueueType
  <2> QED BY <2>1, <2>2 DEF AddOrphan
<1>4. orphans' \subseteq orphans \cup {b}
  BY DEF AddOrphan, AddedPools
<1>5. pipe' \subseteq Block /\ unorphaned' \subseteq Block
  BY <1>0, <1>1 DEF AddOrphan, TypeInv
<1>6. requests' \in [Block -> {"none", "waiting", "obtained"}]
  BY <1>0 DEF AddOrphan, DropScope, TypeInv
<1>7. /\ flow' \in [Peer -> Flows]
      /\ \A q \in Peer : flow'[q].pc \notin {"idle", "closed"} => flow'[q].hash \in Block
  <2>1. Done(p) \/ Goto(p, "retry")
    BY DEF AddOrphan
  <2>2. CASE Done(p)
    BY <1>0, <2>2 DEF Done, TypeInv
  <2>3. CASE Goto(p, "retry")
    BY <1>0, <2>3, GotoType DEF Steps
  <2> QED BY <2>1, <2>2, <2>3
<1> QED BY <1>0, <1>3, <1>4, <1>5, <1>6, <1>7 DEF AddOrphan, TypeInv

LEMMA DequeueType ==
  ASSUME TypeInv, NEW p \in Peer, DequeueIndirect(p) \/ Dequeue(p)
  PROVE  TypeInv'
<1>1. CASE DequeueIndirect(p)
  <2>1. Head(indirect[p]) \in Invs /\ Tail(indirect[p]) \in Seq(Invs)
    BY <1>1 DEF DequeueIndirect, TypeInv
  <2> QED BY <1>1, <2>1, HandleInvType, Zenon DEF DequeueIndirect, TypeInv
<1>2. CASE Dequeue(p)
  <2>1. PICK b \in invs[p] : /\ invs' = [invs EXCEPT ![p] = @ \ {b}]
                             /\ HandleInv(p, Inv(b, FALSE, FALSE), <<>>)
    BY <1>2, Zenon DEF Dequeue
  <2>2. Inv(b, FALSE, FALSE) \in Invs /\ <<>> \in Seq(Invs)
    BY DEF Inv, Invs, TypeInv
  <2>3. invs' \in [Peer -> SUBSET Block]
    BY <2>1 DEF TypeInv
  <2> QED BY <1>2, <2>1, <2>2, <2>3, HandleInvType, Zenon DEF Dequeue, TypeInv
<1> QED BY <1>1, <1>2

LEMMA UnorphanType ==
  ASSUME TypeInv, NEW root, UnorphanBlocks(root)
  PROVE  /\ orphans' \subseteq Block
         /\ pipe' \subseteq Block
         /\ unorphaned' \subseteq Block
<1>1. Taken(root) \subseteq Block
  BY TakenParents DEF TypeInv
<1> QED BY <1>1 DEF UnorphanBlocks, TypeInv

LEMMA OtherSteps ==
  ASSUME TypeInv,
         \/ \E p \in Peer : IbdStart(p)
         \/ \E b \in Block : OnNewBlock(b) \/ ProcessBlock(b) \/ IbdInsert(b) \/ QueueRoot(b)
         \/ IbdFail \/ RevalidateOrphans \/ UnorphanRoot \/ IbdDone
  PROVE  TypeInv'
<1>0. NoIbd \in Ibds
  BY DEF NoIbd, Ibds
<1>1. ASSUME NEW p \in Peer, IbdStart(p) PROVE TypeInv'
  <2>1. job[p] \in Block
    BY <1>1, Zenon DEF IbdStart, TypeInv
  <2>2. [NoIbd EXCEPT !.peer = p, !.block = job[p]] \in Ibds
    BY <2>1, Zenon DEF NoIbd, Ibds
  <2> QED BY <1>1, <2>2, Zenon DEF IbdStart, TypeInv
<1>2. ASSUME NEW b \in Block, OnNewBlock(b) PROVE TypeInv'
  BY <1>2, UnorphanType DEF OnNewBlock, TypeInv
<1>3. ASSUME NEW b \in Block, ProcessBlock(b) PROVE TypeInv'
  BY <1>3 DEF ProcessBlock, TypeInv
<1>4. ASSUME NEW b \in Block, IbdInsert(b) PROVE TypeInv'
  BY <1>4, Zenon DEF IbdInsert, TypeInv, Ibds
<1>5. ASSUME NEW b \in Block, QueueRoot(b) PROVE TypeInv'
  BY <1>5, Zenon DEF QueueRoot, TypeInv, Ibds
<1>6. CASE IbdFail
  BY <1>0, <1>6 DEF IbdFail, TypeInv, Ibds
<1>7. CASE RevalidateOrphans
  BY <1>7, Zenon DEF RevalidateOrphans, TypeInv, Ibds
<1>8. CASE UnorphanRoot
  <2>1. ibd' \in Ibds
    BY <1>8, Zenon DEF UnorphanRoot, TypeInv, Ibds
  <2> QED BY <1>8, <2>1, UnorphanType DEF UnorphanRoot, TypeInv
<1>9. CASE IbdDone
  BY <1>0, <1>9 DEF IbdDone, TypeInv
<1> QED BY <1>1, <1>2, <1>3, <1>4, <1>5, <1>6, <1>7, <1>8, <1>9

LEMMA TypeStep == TypeInv /\ [Next]_vars => TypeInv'
<1> SUFFICES ASSUME TypeInv, [Next]_vars PROVE TypeInv'
  OBVIOUS
<1>1. CASE UNCHANGED vars
  BY <1>1 DEF vars, TypeInv
<1>2. CASE Next
  BY <1>2, PeerSteps, AddOrphanType, DequeueType, OtherSteps DEF Next
<1> QED BY <1>1, <1>2

LEMMA TypeInit == Init => TypeInv
BY RelayAssumption DEF Init, TypeInv, Idle, Flows, Steps, NoIbd, Ibds
-----------------------------------------------------------------------------
(* Requests. *)

\* A flow that goes back to idle, or ends, drops the entry of the block it held.
LEMMA DroppingKeepsHeld ==
  ASSUME TypeInv, RequestsAreHeld, NEW p \in Peer, NEW f \in {Idle, Closed},
         flow' = [flow EXCEPT ![p] = f],
         flow[p].pc \in {"idle", "closed"} \/ DropScope(flow[p].hash),
         flow[p].pc \in {"idle", "closed"} => UNCHANGED requests
  PROVE  RequestsAreHeld'
<1> SUFFICES ASSUME NEW b \in Block, requests'[b] # "none"
             PROVE  \E q \in Peer : Holds(q, b)'
  BY DEF RequestsAreHeld
<1>1. requests[b] # "none" /\ (flow[p].pc \in {"idle", "closed"} \/ flow[p].hash # b)
  BY DEF DropScope, TypeInv
<1>2. PICK q \in Peer : Holds(q, b)
  BY <1>1 DEF RequestsAreHeld
<1>3. q # p /\ flow'[q] = flow[q]
  BY <1>1, <1>2 DEF Holds, TypeInv
<1> QED BY <1>2, <1>3 DEF Holds

\* A flow that goes on with the block it holds keeps the entry alive.
LEMMA GoingOnKeepsHeld ==
  ASSUME TypeInv, RequestsAreHeld, NEW p \in Peer,
         flow[p].pc \notin {"idle", "closed"}, flow'[p].pc \notin {"idle", "closed"},
         flow'[p].hash = flow[p].hash, \A q \in Peer \ {p} : flow'[q] = flow[q],
         \A b \in Block : requests'[b] # "none" => requests[b] # "none"
  PROVE  RequestsAreHeld'
BY DEF RequestsAreHeld, Holds

LEMMA GotoFacts ==
  ASSUME TypeInv, NEW p \in Peer, NEW pc, Goto(p, pc)
  PROVE  /\ flow'[p].pc = pc /\ flow'[p].hash = flow[p].hash
         /\ \A q \in Peer \ {p} : flow'[q] = flow[q]
BY DEF Goto, TypeInv, Flows

LEMMA HandleInvKeepsHeld ==
  ASSUME TypeInv, RequestsAreHeld, NEW p \in Peer, NEW inv \in Invs, NEW queue,
         flow[p].pc = "idle", HandleInv(p, inv, queue)
  PROVE  RequestsAreHeld'
<1>1. CASE UNCHANGED <<flow, requests>>
  BY <1>1 DEF RequestsAreHeld, Holds
<1>2. CASE /\ requests' = [requests EXCEPT ![inv.hash] = "waiting"]
           /\ flow' = [flow EXCEPT ![p] = [inv EXCEPT !.pc = "requested"]]
  <2> SUFFICES ASSUME NEW b \in Block, requests'[b] # "none"
               PROVE  \E q \in Peer : Holds(q, b)'
    BY DEF RequestsAreHeld
  <2>1. CASE b = inv.hash
    <3>1. flow'[p].pc = "requested" /\ flow'[p].hash = b
      BY <1>2, <2>1 DEF Invs, TypeInv
    <3> QED BY <3>1 DEF Holds
  <2>2. CASE b # inv.hash
    <3>1. PICK q \in Peer : Holds(q, b)
      BY <1>2, <2>2 DEF RequestsAreHeld, TypeInv
    <3>2. q # p /\ flow'[q] = flow[q]
      BY <1>2, <3>1 DEF Holds, TypeInv
    <3> QED BY <3>1, <3>2 DEF Holds
  <2> QED BY <2>1, <2>2
<1> QED BY <1>1, <1>2 DEF HandleInv

\* In every instance each entry of the request map is held by a flow, so that no
\* block is kept from being requested by a flow that has ended.
THEOREM EveryRequestIsHeld == Spec => []RequestsAreHeld
<1>1. Init => RequestsAreHeld
  BY DEF Init, RequestsAreHeld
<1>2. TypeInv /\ RequestsAreHeld /\ [Next]_vars => RequestsAreHeld'
  <2> SUFFICES ASSUME TypeInv, RequestsAreHeld, [Next]_vars PROVE RequestsAreHeld'
    OBVIOUS
  <2>1. CASE UNCHANGED <<flow, requests>>
    BY <2>1 DEF RequestsAreHeld, Holds
  <2>2. ASSUME NEW p \in Peer, DequeueIndirect(p) PROVE RequestsAreHeld'
    <3>1. Head(indirect[p]) \in Invs
      BY <2>2 DEF DequeueIndirect, TypeInv
    <3> QED BY <2>2, <3>1, HandleInvKeepsHeld DEF DequeueIndirect
  <2>3. ASSUME NEW p \in Peer, Dequeue(p) PROVE RequestsAreHeld'
    <3>1. PICK b \in invs[p] : HandleInv(p, Inv(b, FALSE, FALSE), <<>>)
      BY <2>3, Zenon DEF Dequeue
    <3>2. Inv(b, FALSE, FALSE) \in Invs
      BY DEF Inv, Invs, TypeInv
    <3> QED BY <2>3, <3>1, <3>2, HandleInvKeepsHeld, Zenon DEF Dequeue
  <2>4. ASSUME NEW p \in Peer, NEW pc \in Steps \ {"idle", "closed"},
               flow[p].pc \notin {"idle", "closed"}, Goto(p, pc),
               \A b \in Block : requests'[b] # "none" => requests[b] # "none"
        PROVE  RequestsAreHeld'
    BY <2>4, GotoFacts, GoingOnKeepsHeld
  <2>5. ASSUME NEW p \in Peer, Done(p), DropScope(flow[p].hash)
        PROVE  RequestsAreHeld'
    <3>1. CASE flow[p].pc \in {"idle", "closed"}
      <4>1. ASSUME NEW b \in Block, requests'[b] # "none"
            PROVE  \E q \in Peer : Holds(q, b)'
        <5>1. requests[b] # "none"
          BY <2>5, <4>1 DEF DropScope, TypeInv
        <5>2. PICK q \in Peer : Holds(q, b)
          BY <5>1 DEF RequestsAreHeld
        <5>3. q # p /\ flow'[q] = flow[q]
          BY <2>5, <3>1, <5>2 DEF Holds, Done, TypeInv
        <5> QED BY <5>2, <5>3 DEF Holds
      <4> QED BY <4>1 DEF RequestsAreHeld
    <3>2. CASE flow[p].pc \notin {"idle", "closed"}
      BY <2>5, <3>2, DroppingKeepsHeld, Zenon DEF Done
    <3> QED BY <3>1, <3>2
  <2>6. ASSUME NEW p \in Peer, ReceiveBlock(p) PROVE RequestsAreHeld'
    <3>1. CASE DropScope(flow[p].hash) /\ Done(p)
      BY <2>5, <3>1
    <3>2. CASE /\ requests' = [requests EXCEPT
                    ![flow[p].hash] = IF @ = "none" THEN @ ELSE "obtained"]
               /\ Goto(p, "submitted")
      <4>1. \A b \in Block : requests'[b] # "none" => requests[b] # "none"
        BY <3>2 DEF TypeInv
      <4>2. flow[p].pc \notin {"idle", "closed"}
        BY <2>6 DEF ReceiveBlock
      <4> QED BY <2>4, <3>2, <4>1, <4>2 DEF Steps
    <3> QED BY <2>6, <3>1, <3>2 DEF ReceiveBlock
  <2>7. ASSUME NEW p \in Peer, BlockInserted(p) \/ TryTriggerIbd(p) PROVE RequestsAreHeld'
    BY <2>5, <2>7 DEF BlockInserted, TryTriggerIbd
  <2>8. ASSUME NEW p \in Peer, MissingParents(p) PROVE RequestsAreHeld'
    <3>1. CASE DropScope(flow[p].hash) /\ Done(p)
      BY <2>5, <3>1
    <3>2. CASE (Goto(p, "orphan") \/ Goto(p, "locating")) /\ UNCHANGED requests
      <4>1. flow[p].pc \notin {"idle", "closed"}
        BY <2>8 DEF MissingParents
      <4> QED BY <2>4, <3>2, <4>1 DEF Steps
    <3> QED BY <2>8, <3>1, <3>2 DEF MissingParents
  <2>9. ASSUME NEW p \in Peer, LocatorWithin(p) PROVE RequestsAreHeld'
    <3>1. /\ flow'[p].pc = "orphan" /\ flow'[p].hash = flow[p].hash
          /\ \A q \in Peer \ {p} : flow'[q] = flow[q]
          /\ flow[p].pc = "locating" /\ UNCHANGED requests
      BY <2>9 DEF LocatorWithin, TypeInv, Flows
    <3> QED BY <3>1, GoingOnKeepsHeld
  <2>10. ASSUME NEW p \in Peer, AddOrphan(p) PROVE RequestsAreHeld'
    <3>1. CASE DropScope(flow[p].hash) /\ Done(p)
      BY <2>5, <3>1
    <3>2. CASE Goto(p, "retry") /\ UNCHANGED requests
      <4>1. flow[p].pc \notin {"idle", "closed"}
        BY <2>10 DEF AddOrphan
      <4> QED BY <2>4, <3>2, <4>1 DEF Steps
    <3> QED BY <2>10, <3>1, <3>2 DEF AddOrphan
  <2>11. ASSUME NEW p \in Peer, Disconnect(p) PROVE RequestsAreHeld'
    BY <2>11, DroppingKeepsHeld, Zenon DEF Disconnect
  <2>12. \/ UNCHANGED <<flow, requests>>
         \/ \E p \in Peer :
              \/ DequeueIndirect(p) \/ Dequeue(p) \/ ReceiveBlock(p) \/ BlockInserted(p)
              \/ MissingParents(p) \/ LocatorWithin(p) \/ TryTriggerIbd(p)
              \/ AddOrphan(p) \/ Disconnect(p)
    BY Zenon DEF Next, vars, IbdStart, OnNewBlock, ProcessBlock, IbdInsert, QueueRoot, IbdFail,
           RevalidateOrphans, UnorphanRoot, IbdDone
  <2> QED BY <2>1, <2>2, <2>3, <2>6, <2>7, <2>8, <2>9, <2>10, <2>11, <2>12
<1> QED BY <1>1, <1>2, TypeInit, TypeStep, PTL DEF Spec
-----------------------------------------------------------------------------
(* Blocks in consensus and out of the pool. *)

LEMMA KnownStep ==
  ASSUME TypeInv, KnownIsClosed, [Next]_vars
  PROVE  KnownIsClosed' /\ known \subseteq known'
<1>1. CASE UNCHANGED known
  BY <1>1 DEF KnownIsClosed
<1>2. ASSUME NEW b \in Block, ProcessBlock(b)
      PROVE  KnownIsClosed' /\ known \subseteq known'
  BY <1>2 DEF ProcessBlock, KnownIsClosed
<1>3. UNCHANGED known \/ \E b \in Block : ProcessBlock(b)
  BY Zenon DEF Next, vars, DequeueIndirect, Dequeue, ReceiveBlock, BlockInserted, MissingParents,
         LocatorWithin, TryTriggerIbd, AddOrphan, Disconnect, IbdStart, OnNewBlock, IbdInsert,
         QueueRoot, IbdFail, RevalidateOrphans, UnorphanRoot, IbdDone
<1> QED BY <1>1, <1>2, <1>3

LEMMA LockedStep ==
  ASSUME TypeInv, KnownIsClosed, LockedRoots, [Next]_vars
  PROVE  LockedRoots'
<1>0. known \subseteq known'
  BY KnownStep
<1>1. CASE UNCHANGED ibd
  BY <1>0, <1>1 DEF LockedRoots
<1>2. ASSUME NEW p \in Peer, IbdStart(p) PROVE LockedRoots'
  <2>1. job[p] \in Block
    BY <1>2 DEF IbdStart, TypeInv
  <2>2. CASE ibd.peer = None
    <3>1. /\ ibd'.peer = p /\ ibd'.block = job[p] /\ ibd'.inserted = {}
          /\ ibd'.roots = {} /\ ibd'.queued = None /\ ibd'.locked = FALSE
      BY <1>2, <2>2 DEF IbdStart, NoIbd
    <3>2. p # None
      BY RelayAssumption
    <3> QED BY <2>1, <3>1, <3>2 DEF LockedRoots
  <2>3. CASE ibd.peer # None
    BY <1>1, <1>2, <2>3 DEF IbdStart
  <2> QED BY <2>2, <2>3
<1>3. ASSUME NEW b \in Block, IbdInsert(b) PROVE LockedRoots'
  <2>1. /\ ibd'.peer = ibd.peer /\ ibd'.block = ibd.block /\ ibd'.inserted = ibd.inserted \cup {b}
        /\ ibd'.roots = ibd.roots /\ ibd'.queued = ibd.queued /\ ibd'.locked = ibd.locked
    BY <1>3 DEF IbdInsert, TypeInv, Ibds
  <2>2. ibd.peer # None /\ b \in Past[ibd.block]
    BY <1>3 DEF IbdInsert, Missing
  <2> QED BY <1>0, <2>1, <2>2 DEF LockedRoots
<1>4. ASSUME NEW b \in Block, QueueRoot(b) PROVE LockedRoots'
  <2>1. /\ ibd'.peer = ibd.peer /\ ibd'.block = ibd.block /\ ibd'.inserted = ibd.inserted
        /\ ibd'.roots = ibd.roots \ {b} /\ ibd'.locked = ibd.locked
    BY <1>4, Zenon DEF QueueRoot, TypeInv, Ibds
  <2>2. ibd.locked
    BY <1>4 DEF QueueRoot
  <2> QED BY <1>0, <2>1, <2>2 DEF LockedRoots
<1>5. CASE IbdFail \/ IbdDone
  <2>1. ibd' = NoIbd
    BY <1>5 DEF IbdFail, IbdDone
  <2> QED BY <2>1 DEF LockedRoots, NoIbd
<1>6. CASE RevalidateOrphans
  <2>1. /\ ibd'.peer = ibd.peer /\ ibd'.block = ibd.block /\ ibd'.inserted = ibd.inserted
        /\ ibd'.locked = TRUE
        /\ \A r \in ibd'.roots : Parents[r] \subseteq known
    BY <1>6 DEF RevalidateOrphans, TypeInv, Ibds
  <2>2. ibd.peer # None
    BY <1>6 DEF RevalidateOrphans
  <2> QED BY <1>0, <2>1, <2>2 DEF LockedRoots
<1>7. CASE UnorphanRoot
  <2>1. /\ ibd'.peer = ibd.peer /\ ibd'.block = ibd.block /\ ibd'.inserted = ibd.inserted
        /\ ibd'.roots = ibd.roots /\ ibd'.queued = None /\ ibd'.locked = ibd.locked
    BY <1>7, Zenon DEF UnorphanRoot, TypeInv, Ibds
  <2> QED BY <1>0, <2>1 DEF LockedRoots
<1>8. \/ UNCHANGED ibd
      \/ \E p \in Peer : IbdStart(p)
      \/ \E b \in Block : IbdInsert(b) \/ QueueRoot(b)
      \/ IbdFail \/ IbdDone \/ RevalidateOrphans \/ UnorphanRoot
  BY Zenon DEF Next, vars, DequeueIndirect, Dequeue, ReceiveBlock, BlockInserted, MissingParents,
         LocatorWithin, TryTriggerIbd, AddOrphan, Disconnect, OnNewBlock, ProcessBlock
<1> QED BY <1>1, <1>2, <1>3, <1>4, <1>5, <1>6, <1>7, <1>8

LEMMA UnorphanKeepsParents ==
  ASSUME UnorphanedParents, NEW root, UnorphanBlocks(root), UNCHANGED known
  PROVE  UnorphanedParents'
<1>1. /\ pipe' = pipe \cup Taken(root) /\ unorphaned' = unorphaned \cup Taken(root)
  BY DEF UnorphanBlocks
<1>2. \A o \in Taken(root) : Parents[o] \subseteq known \cup Taken(root)
  BY TakenParents
<1> HIDE DEF Taken
<1> QED BY <1>1, <1>2 DEF UnorphanedParents

LEMMA UnorphanedStep ==
  ASSUME TypeInv, LockedRoots, UnorphanedParents, [Next]_vars
  PROVE  UnorphanedParents'
<1>1. CASE UNCHANGED <<known, unorphaned>> /\ pipe \subseteq pipe'
  BY <1>1 DEF UnorphanedParents
<1>2. ASSUME NEW b \in Block, ProcessBlock(b) PROVE UnorphanedParents'
  <2> SUFFICES ASSUME NEW u \in unorphaned
               PROVE  u \in known' \cup pipe' /\ Parents[u] \subseteq known' \cup unorphaned
    BY <1>2 DEF ProcessBlock, UnorphanedParents
  <2>1. known \subseteq known' /\ Parents[u] \subseteq known' \cup unorphaned
    BY <1>2 DEF ProcessBlock, UnorphanedParents
  <2>2. CASE u # b
    BY <1>2, <2>1, <2>2 DEF ProcessBlock, UnorphanedParents
  <2>3. CASE u = b
    <3>1. Parents[b] \subseteq known
      BY <1>2, <2>3 DEF ProcessBlock, UnorphanedParents
    <3> QED BY <1>2, <2>1, <2>3, <3>1 DEF ProcessBlock
  <2> QED BY <2>2, <2>3
<1>3. ASSUME NEW p \in Peer, AddOrphan(p) PROVE UnorphanedParents'
  <2> DEFINE b == flow[p].hash
  <2>1. CASE UNCHANGED <<pipe, unorphaned>>
    BY <1>3, <2>1 DEF AddOrphan, UnorphanedParents
  <2>2. CASE /\ Roots(b) = {}
             /\ pipe' = pipe \cup ((OrphanAncestors(b) \cup {b}) \ known)
             /\ unorphaned' = unorphaned \cup OrphanAncestors(b)
    <3>1. \A o \in OrphanAncestors(b) : Parents[o] \subseteq known \cup OrphanAncestors(b)
      BY <2>2, NoRootsMeansKnown
    <3>2. UNCHANGED known
      BY <1>3 DEF AddOrphan
    <3> QED BY <2>2, <3>1, <3>2 DEF UnorphanedParents
  <2> QED BY <1>3, <2>1, <2>2 DEF AddOrphan
<1>4. ASSUME NEW b \in Block, OnNewBlock(b) PROVE UnorphanedParents'
  BY <1>4, UnorphanKeepsParents DEF OnNewBlock
<1>5. CASE UnorphanRoot
  BY <1>5, UnorphanKeepsParents DEF UnorphanRoot
<1>6. ASSUME NEW b \in Block, QueueRoot(b) PROVE UnorphanedParents'
  BY <1>6 DEF QueueRoot, LockedRoots, UnorphanedParents
<1>7. \/ UNCHANGED <<known, unorphaned>> /\ pipe \subseteq pipe'
      \/ \E p \in Peer : AddOrphan(p)
      \/ \E b \in Block : OnNewBlock(b) \/ ProcessBlock(b) \/ QueueRoot(b)
      \/ UnorphanRoot
  BY Zenon DEF Next, vars, DequeueIndirect, Dequeue, ReceiveBlock, BlockInserted, MissingParents,
         LocatorWithin, TryTriggerIbd, Disconnect, IbdStart, IbdInsert, IbdFail,
         RevalidateOrphans, IbdDone
<1> QED BY <1>1, <1>2, <1>3, <1>4, <1>5, <1>6, <1>7

\* In every instance a block the orphan pool handed to consensus is there or on
\* its way: it was not taken from the pool before consensus could process it.
THEOREM NothingIsUnorphanedEarly == Spec => []UnorphanedAreKept
<1> DEFINE I == TypeInv /\ KnownIsClosed /\ LockedRoots /\ UnorphanedParents
<1>1. Init => I
  <2> SUFFICES ASSUME Init PROVE I
    OBVIOUS
  <2>1. TypeInv
    BY TypeInit
  <2>2. KnownIsClosed
    BY RelayAssumption DEF Init, KnownIsClosed
  <2>3. LockedRoots
    BY DEF Init, NoIbd, LockedRoots
  <2>4. UnorphanedParents
    BY DEF Init, UnorphanedParents
  <2> QED BY <2>1, <2>2, <2>3, <2>4
<1>2. I /\ [Next]_vars => I'
  BY TypeStep, KnownStep, LockedStep, UnorphanedStep
<1>3. I => UnorphanedAreKept
  BY DEF UnorphanedParents, UnorphanedAreKept
<1> QED BY <1>1, <1>2, <1>3, PTL DEF Spec
-----------------------------------------------------------------------------
(* Orphans whose parents are in consensus. *)

\* A flow that does not await consensus may do anything.
LEMMA AwaitedStays ==
  ASSUME NEW p \in Peer, flow[p].pc \notin {"submitted", "retry"},
         \A q \in Peer \ {p} : flow'[q] = flow[q], NEW b, Awaited(b)
  PROVE  Awaited(b)'
BY DEF Awaited

LEMMA HandleInvFrame ==
  ASSUME TypeInv, NEW p \in Peer, NEW inv, NEW queue, HandleInv(p, inv, queue)
  PROVE  \A q \in Peer \ {p} : flow'[q] = flow[q]
<1>1. PICK x : flow' = flow \/ flow' = [flow EXCEPT ![p] = x]
  BY DEF HandleInv
<1>2. flow = [q \in Peer |-> flow[q]]
  BY DEF TypeInv
<1> QED BY <1>1, <1>2

\* The steps of a flow that does not await consensus, apart from what it adds
\* to the pool or to consensus.
LEMMA QuietFlow ==
  ASSUME TypeInv, NEW p \in Peer,
         \/ DequeueIndirect(p) \/ Dequeue(p) \/ ReceiveBlock(p) \/ LocatorWithin(p)
         \/ TryTriggerIbd(p) \/ AddOrphan(p) \/ Disconnect(p)
  PROVE  flow[p].pc \notin {"submitted", "retry"} /\ \A q \in Peer \ {p} : flow'[q] = flow[q]
<1>1. CASE DequeueIndirect(p)
  BY <1>1, HandleInvFrame DEF DequeueIndirect
<1>2. CASE Dequeue(p)
  BY <1>2, HandleInvFrame, Zenon DEF Dequeue
<1>3. CASE ReceiveBlock(p)
  BY <1>3 DEF ReceiveBlock, Done, Goto, TypeInv
<1>4. CASE LocatorWithin(p)
  BY <1>4 DEF LocatorWithin, TypeInv
<1>5. CASE TryTriggerIbd(p)
  BY <1>5 DEF TryTriggerIbd, Done, TypeInv
<1>6. CASE AddOrphan(p)
  BY <1>6 DEF AddOrphan, Done, Goto, TypeInv
<1>7. CASE Disconnect(p)
  BY <1>7 DEF Disconnect, TypeInv
<1> QED BY <1>1, <1>2, <1>3, <1>4, <1>5, <1>6, <1>7

\* The block a flow submits is awaited by it.
LEMMA SubmittedIsAwaited ==
  ASSUME TypeInv, NEW p \in Peer, NEW pc \in {"submitted", "retry"}, Goto(p, pc),
         NEW b, b = flow[p].hash
  PROVE  Awaited(b)'
BY GotoFacts DEF Awaited

LEMMA QuietPipe ==
  ASSUME PipeIsOwned, UNCHANGED <<known, ibd, stranded>>, unorphaned \subseteq unorphaned',
         \A b \in pipe \ known : Awaited(b) => Awaited(b)',
         \A b \in pipe' \ pipe : b \in unorphaned' \/ Awaited(b)'
  PROVE  PipeIsOwned'
BY DEF PipeIsOwned

LEMMA PipeStep ==
  ASSUME TypeInv, LockedRoots, PipeIsOwned, [Next]_vars
  PROVE  PipeIsOwned'
<1>1. CASE UNCHANGED vars
  BY <1>1 DEF vars, PipeIsOwned, Awaited
<1>2. ASSUME NEW p \in Peer,
             \/ DequeueIndirect(p) \/ Dequeue(p) \/ LocatorWithin(p) \/ TryTriggerIbd(p)
             \/ Disconnect(p)
      PROVE  PipeIsOwned'
  <2>1. UNCHANGED <<known, pipe, ibd, stranded, unorphaned>>
    BY <1>2, Zenon DEF DequeueIndirect, Dequeue, LocatorWithin, TryTriggerIbd, Disconnect
  <2>2. \A b \in pipe \ known : Awaited(b) => Awaited(b)'
    BY <1>2, QuietFlow, AwaitedStays
  <2> QED BY <2>1, <2>2, QuietPipe
<1>3. ASSUME NEW p \in Peer, ReceiveBlock(p) PROVE PipeIsOwned'
  <2>1. UNCHANGED <<known, ibd, stranded, unorphaned>>
    BY <1>3 DEF ReceiveBlock
  <2>2. \A b \in pipe \ known : Awaited(b) => Awaited(b)'
    BY <1>3, QuietFlow, AwaitedStays
  <2>3. \A b \in pipe' \ pipe : b = flow[p].hash /\ Goto(p, "submitted")
    BY <1>3 DEF ReceiveBlock
  <2>4. \A b \in pipe' \ pipe : Awaited(b)'
    BY <2>3, SubmittedIsAwaited
  <2> QED BY <2>1, <2>2, <2>4, QuietPipe
<1>4. ASSUME NEW p \in Peer, AddOrphan(p) PROVE PipeIsOwned'
  <2>1. UNCHANGED <<known, ibd, stranded>> /\ unorphaned \subseteq unorphaned'
    BY <1>4 DEF AddOrphan
  <2>2. \A b \in pipe \ known : Awaited(b) => Awaited(b)'
    BY <1>4, QuietFlow, AwaitedStays, Zenon
  <2>3. \A b \in pipe' \ pipe : b \in unorphaned' \/ (b = flow[p].hash /\ Goto(p, "retry"))
    BY <1>4 DEF AddOrphan
  <2>4. \A b \in pipe' \ pipe : b \in unorphaned' \/ Awaited(b)'
    BY <2>3, SubmittedIsAwaited
  <2> QED BY <2>1, <2>2, <2>4, QuietPipe
<1>5. ASSUME NEW p \in Peer, BlockInserted(p) \/ MissingParents(p) PROVE PipeIsOwned'
  <2>1. UNCHANGED <<known, pipe, ibd, stranded, unorphaned>>
    BY <1>5, Zenon DEF BlockInserted, MissingParents
  <2>2. flow[p].hash \notin pipe \ known
    BY <1>5, Zenon DEF BlockInserted, MissingParents
  <2>3. \A q \in Peer \ {p} : flow'[q] = flow[q]
    BY <1>5 DEF BlockInserted, MissingParents, Done, Goto, TypeInv
  <2>4. \A b \in pipe \ known : Awaited(b) => Awaited(b)'
    BY <2>2, <2>3 DEF Awaited
  <2> QED BY <2>1, <2>4, QuietPipe
<1>6. ASSUME NEW b \in Block, OnNewBlock(b) PROVE PipeIsOwned'
  <2>1. UNCHANGED <<known, ibd, stranded, flow>> /\ UnorphanBlocks(b)
    BY <1>6 DEF OnNewBlock
  <2> QED BY <2>1 DEF UnorphanBlocks, PipeIsOwned, Awaited
<1>7. ASSUME NEW b \in Block, ProcessBlock(b) PROVE PipeIsOwned'
  BY <1>7 DEF ProcessBlock, PipeIsOwned, Awaited
<1>8. ASSUME NEW p \in Peer, IbdStart(p) PROVE PipeIsOwned'
  <2>1. UNCHANGED <<known, pipe, stranded, unorphaned, flow>>
    BY <1>8 DEF IbdStart
  <2>2. ibd' = ibd \/ ibd.inserted = {}
    BY <1>8 DEF IbdStart, LockedRoots
  <2> QED BY <2>1, <2>2 DEF PipeIsOwned, Awaited
<1>9. ASSUME NEW b \in Block, IbdInsert(b) PROVE PipeIsOwned'
  <2>1. /\ ibd'.locked = ibd.locked /\ ibd'.inserted = ibd.inserted \cup {b} /\ ~ibd.locked
        /\ pipe' = pipe \cup {b} /\ UNCHANGED <<known, stranded, unorphaned, flow>>
    BY <1>9 DEF IbdInsert, TypeInv, Ibds
  <2> QED BY <2>1 DEF PipeIsOwned, Awaited
<1>10. ASSUME NEW b \in Block, QueueRoot(b) PROVE PipeIsOwned'
  <2>1. /\ ibd'.locked = ibd.locked /\ ibd'.inserted = ibd.inserted
        /\ pipe' \subseteq pipe \cup {b} /\ unorphaned' = unorphaned \cup {b}
        /\ UNCHANGED <<known, stranded, flow>>
    BY <1>10, Zenon DEF QueueRoot, TypeInv, Ibds
  <2> QED BY <2>1 DEF PipeIsOwned, Awaited
<1>11. CASE IbdFail
  BY <1>11 DEF IbdFail, PipeIsOwned, Awaited
<1>12. CASE RevalidateOrphans
  <2>1. ibd.inserted \subseteq known
    BY <1>12 DEF RevalidateOrphans, LockedRoots, Missing
  <2>2. UNCHANGED <<known, pipe, stranded, unorphaned, flow>>
    BY <1>12 DEF RevalidateOrphans
  <2> QED BY <2>1, <2>2 DEF PipeIsOwned, Awaited
<1>13. CASE UnorphanRoot
  <2>1. /\ ibd'.locked = ibd.locked /\ ibd'.inserted = ibd.inserted
        /\ UNCHANGED <<known, stranded, flow>>
    BY <1>13, Zenon DEF UnorphanRoot, TypeInv, Ibds
  <2>2. UnorphanBlocks(ibd.queued)
    BY <1>13 DEF UnorphanRoot
  <2> QED BY <2>1, <2>2 DEF UnorphanBlocks, PipeIsOwned, Awaited
<1>14. CASE IbdDone
  BY <1>14 DEF IbdDone, PipeIsOwned, Awaited
<1> QED BY <1>1, <1>2, <1>3, <1>4, <1>5, <1>6, <1>7, <1>8, <1>9, <1>10, <1>11, <1>12,
           <1>13, <1>14 DEF Next

\* Orphans stay in good hands when none is added and what takes them stays.
LEMMA QuietPool ==
  ASSUME TakersExist, UNCHANGED known, orphans' \subseteq orphans,
         ibd.roots \subseteq ibd'.roots \cup {ibd'.queued} \cup (orphans \ orphans'),
         ibd.queued \in {ibd'.queued} \cup (Block \ orphans') \cup {None},
         None \notin orphans',
         \A b \in known : Taker(b) => Taker(b)'
  PROVE  TakersExist'
<1> SUFFICES ASSUME NEW o \in orphans', Parents[o] \subseteq known
             PROVE  \/ o \in known \cup ibd'.roots \cup {ibd'.queued}
                    \/ \E b \in Parents[o] : Taker(b)'
  BY DEF TakersExist
<1>1. \/ o \in known \cup ibd.roots \cup {ibd.queued}
      \/ \E b \in Parents[o] : Taker(b)
  BY DEF TakersExist
<1>2. CASE \E b \in Parents[o] : Taker(b)
  BY <1>2
<1>3. CASE o \in known \cup ibd.roots \cup {ibd.queued}
  BY <1>3
<1> QED BY <1>1, <1>2, <1>3

LEMMA TakersStep ==
  ASSUME TypeInv, KnownIsClosed, LockedRoots, PipeIsOwned, TakersExist, [Next]_vars
  PROVE  TakersExist'
<1>0. None \notin orphans
  BY RelayAssumption, Zenon DEF TypeInv
<1>1. CASE UNCHANGED vars
  BY <1>1 DEF vars, TakersExist, Taker, Awaited
<1>2. ASSUME NEW p \in Peer,
             \/ DequeueIndirect(p) \/ Dequeue(p) \/ ReceiveBlock(p) \/ LocatorWithin(p)
             \/ TryTriggerIbd(p) \/ Disconnect(p)
      PROVE  TakersExist'
  <2>1. UNCHANGED <<known, orphans, posts, ibd, unorphaned, stranded>>
    BY <1>2, Zenon DEF DequeueIndirect, Dequeue, ReceiveBlock, LocatorWithin, TryTriggerIbd,
                Disconnect
  <2>2. \A b \in known : Awaited(b) => Awaited(b)'
    BY <1>2, QuietFlow, AwaitedStays
  <2>3. \A b \in known : Taker(b) => Taker(b)'
    BY <2>1, <2>2 DEF Taker
  <2> QED BY <1>0, <2>1, <2>3, QuietPool
<1>3. ASSUME NEW p \in Peer, AddOrphan(p) PROVE TakersExist'
  <2> DEFINE b == flow[p].hash
  <2>1. /\ UNCHANGED <<known, posts, ibd, stranded>> /\ unorphaned \subseteq unorphaned'
    BY <1>3 DEF AddOrphan
  <2>2. \A x \in known : Awaited(x) => Awaited(x)'
    BY <1>3, QuietFlow, AwaitedStays, Zenon
  <2>3. \A x \in known : Taker(x) => Taker(x)'
    BY <2>1, <2>2 DEF Taker
  <2>4. CASE orphans' \subseteq orphans
    BY <1>0, <2>1, <2>3, <2>4, QuietPool
  <2>5. CASE Roots(b) # {} /\ orphans' \subseteq orphans \cup {b}
    <3>1. b \in Block
      BY <1>3, FlowType DEF AddOrphan
    <3>2. ~(Parents[b] \subseteq known)
      BY <2>5, <3>1, KnownMeansNoRoots
    <3> SUFFICES ASSUME NEW o \in orphans', Parents[o] \subseteq known
                 PROVE  \/ o \in known \cup ibd'.roots \cup {ibd'.queued}
                        \/ \E x \in Parents[o] : Taker(x)'
      BY <2>1, Zenon DEF TakersExist
    <3>3. o \in orphans
      BY <2>5, <3>2
    <3>4. \/ o \in known \cup ibd.roots \cup {ibd.queued}
          \/ \E x \in Parents[o] : Taker(x)
      BY <3>3 DEF TakersExist
    <3> QED BY <2>1, <2>3, <3>4
  <2> QED BY <1>3, <2>4, <2>5 DEF AddOrphan, AddedPools
<1>4. ASSUME NEW p \in Peer, BlockInserted(p) \/ MissingParents(p) PROVE TakersExist'
  <2>1. UNCHANGED <<known, orphans, ibd, unorphaned, stranded>> /\ posts \subseteq posts'
    BY <1>4 DEF BlockInserted, MissingParents
  <2>2. flow[p].hash \notin known \/ flow[p].hash \in posts'
    BY <1>4 DEF BlockInserted, MissingParents
  <2>3. \A q \in Peer \ {p} : flow'[q] = flow[q]
    BY <1>4 DEF BlockInserted, MissingParents, Done, Goto, TypeInv
  <2>4. \A b \in known : Awaited(b) => Awaited(b)' \/ b \in posts'
    BY <2>2, <2>3 DEF Awaited
  <2>5. \A b \in known : Taker(b) => Taker(b)'
    BY <2>1, <2>4 DEF Taker
  <2> QED BY <1>0, <2>1, <2>5, QuietPool
<1>5. ASSUME NEW b \in Block, OnNewBlock(b) PROVE TakersExist'
  <2>1. /\ UNCHANGED <<known, flow, ibd, stranded>> /\ posts' = posts \ {b}
        /\ orphans' = orphans \ (Taken(b) \cup {b}) /\ unorphaned \subseteq unorphaned'
    BY <1>5 DEF OnNewBlock, UnorphanBlocks
  <2> SUFFICES ASSUME NEW o \in orphans', Parents[o] \subseteq known
               PROVE  \/ o \in known \cup ibd.roots \cup {ibd.queued}
                      \/ \E x \in Parents[o] : Taker(x)'
    BY <2>1 DEF TakersExist
  <2>2. o \in orphans /\ o # b /\ o \notin Taken(b)
    BY <2>1
  <2>3. b \notin Parents[o]
    BY <2>2, ChildrenAreTaken
  <2>4. \A x \in Parents[o] : Taker(x) => Taker(x)'
    BY <2>1, <2>3 DEF Taker, Awaited
  <2> QED BY <2>2, <2>4 DEF TakersExist
<1>6. ASSUME NEW b \in Block, ProcessBlock(b) PROVE TakersExist'
  <2>1. /\ UNCHANGED <<orphans, posts, flow, ibd, unorphaned, stranded>> /\ b \in pipe
        /\ known \subseteq known' /\ known' \subseteq known \cup {b}
    BY <1>6 DEF ProcessBlock
  <2> SUFFICES ASSUME NEW o \in orphans, Parents[o] \subseteq known'
               PROVE  \/ o \in known' \cup ibd.roots \cup {ibd.queued}
                      \/ \E x \in Parents[o] : Taker(x)'
    BY <2>1 DEF TakersExist
  <2>2. \A x : Taker(x) => Taker(x)'
    BY <2>1 DEF Taker, Awaited
  <2>3. CASE Parents[o] \subseteq known
    BY <2>1, <2>2, <2>3 DEF TakersExist
  <2>4. CASE ~(Parents[o] \subseteq known)
    <3>1. b \in Parents[o] /\ b \in pipe \ known
      BY <2>1, <2>4
    <3>2. Taker(b)
      BY <3>1 DEF PipeIsOwned, Taker
    <3> QED BY <2>2, <3>1, <3>2
  <2> QED BY <2>3, <2>4
<1>7. ASSUME NEW p \in Peer, IbdStart(p) PROVE TakersExist'
  <2>1. UNCHANGED <<known, orphans, posts, flow, unorphaned, stranded>>
    BY <1>7 DEF IbdStart
  <2>2. CASE ibd' = ibd
    BY <2>1, <2>2 DEF TakersExist, Taker, Awaited
  <2>3. CASE ibd.peer = None
    <3>1. ibd.inserted = {} /\ ibd.roots = {} /\ ibd.queued = None
      BY <2>3 DEF LockedRoots
    <3>2. \A x : Taker(x) => Taker(x)'
      BY <2>1, <3>1 DEF Taker, Awaited
    <3> QED BY <1>0, <2>1, <3>1, <3>2, QuietPool, Zenon
  <2> QED BY <1>7, <2>2, <2>3 DEF IbdStart
<1>8. ASSUME NEW b \in Block, IbdInsert(b) PROVE TakersExist'
  <2>1. /\ UNCHANGED <<known, orphans, posts, flow, unorphaned, stranded>>
        /\ ibd'.roots = ibd.roots /\ ibd'.queued = ibd.queued /\ ibd'.locked = ibd.locked
        /\ ibd.inserted \subseteq ibd'.inserted
    BY <1>8 DEF IbdInsert, TypeInv, Ibds
  <2>2. \A x : Taker(x) => Taker(x)'
    BY <2>1 DEF Taker, Awaited
  <2> QED BY <1>0, <2>1, <2>2, QuietPool
<1>9. ASSUME NEW b \in Block, QueueRoot(b) PROVE TakersExist'
  <2>1. /\ UNCHANGED <<known, orphans, posts, flow, stranded>> /\ unorphaned \subseteq unorphaned'
        /\ ibd'.roots = ibd.roots \ {b} /\ ibd'.queued = b /\ ibd.queued = None
        /\ ibd'.locked = ibd.locked /\ ibd'.inserted = ibd.inserted
    BY <1>9, Zenon DEF QueueRoot, TypeInv, Ibds
  <2>2. \A x : Taker(x) => Taker(x)'
    BY <2>1 DEF Taker, Awaited
  <2> QED BY <1>0, <2>1, <2>2, QuietPool
<1>10. CASE IbdFail
  <2>1. /\ UNCHANGED <<known, orphans, posts, flow, unorphaned>>
        /\ stranded' = stranded \cup ibd.inserted /\ ~ibd.locked
    BY <1>10 DEF IbdFail
  <2>2. ibd.roots = {} /\ ibd.queued = None
    BY <2>1 DEF LockedRoots
  <2>3. \A x : Taker(x) => Taker(x)'
    BY <2>1 DEF Taker, Awaited
  <2> QED BY <1>0, <2>1, <2>2, <2>3, QuietPool
<1>11. CASE RevalidateOrphans
  <2>1. /\ UNCHANGED <<known, posts, flow, unorphaned, stranded>> /\ orphans' = orphans \ known
        /\ ibd'.roots = {o \in orphans \ known : Parents[o] \subseteq known \ (orphans \ known)}
    BY <1>11 DEF RevalidateOrphans, TypeInv, Ibds
  <2>2. \A o \in orphans' : Parents[o] \subseteq known => o \in ibd'.roots
    BY <2>1
  <2> QED BY <2>1, <2>2 DEF TakersExist
<1>12. CASE UnorphanRoot
  <2>1. /\ UNCHANGED <<known, posts, flow, stranded>> /\ unorphaned \subseteq unorphaned'
        /\ orphans' \subseteq orphans \ {ibd.queued} /\ ibd.queued # None
        /\ ibd'.roots = ibd.roots /\ ibd'.queued = None
        /\ ibd'.locked = ibd.locked /\ ibd'.inserted = ibd.inserted
    BY <1>12, Zenon DEF UnorphanRoot, UnorphanBlocks, TypeInv, Ibds
  <2>2. ibd.queued \in Block \ orphans'
    BY <2>1 DEF TypeInv, Ibds
  <2>3. \A x : Taker(x) => Taker(x)'
    BY <2>1 DEF Taker, Awaited
  <2> QED BY <1>0, <2>1, <2>2, <2>3, QuietPool
<1>13. CASE IbdDone
  <2>1. /\ UNCHANGED <<known, orphans, posts, flow, unorphaned, stranded>>
        /\ ibd.locked /\ ibd.roots = {} /\ ibd.queued = None
    BY <1>13 DEF IbdDone
  <2>2. \A x : Taker(x) => Taker(x)'
    BY <2>1 DEF Taker, Awaited
  <2> QED BY <1>0, <2>1, <2>2, QuietPool
<1> QED BY <1>1, <1>2, <1>3, <1>4, <1>5, <1>6, <1>7, <1>8, <1>9, <1>10, <1>11, <1>12, <1>13
        DEF Next

\* In every instance an orphan all of whose parents are in consensus is about to
\* be taken, unless a parent came out of the pool itself or from a failed IBD.
THEOREM OrphansHaveTakers == Spec => []OrphansAreTaken
<1>1. Init => RelayInv
  <2> SUFFICES ASSUME Init PROVE RelayInv
    OBVIOUS
  <2>1. TypeInv
    BY TypeInit
  <2>2. KnownIsClosed
    BY RelayAssumption DEF Init, KnownIsClosed
  <2>3. LockedRoots
    BY DEF Init, NoIbd, LockedRoots
  <2>4. PipeIsOwned /\ TakersExist
    BY DEF Init, PipeIsOwned, TakersExist
  <2> QED BY <2>1, <2>2, <2>3, <2>4 DEF RelayInv
<1>2. RelayInv /\ [Next]_vars => RelayInv'
  BY TypeStep, KnownStep, LockedStep, PipeStep, TakersStep DEF RelayInv
<1>3. RelayInv => OrphansAreTaken
  <2> SUFFICES ASSUME RelayInv, NEW o \in orphans, Parents[o] \subseteq known
               PROVE  \/ o \in known
                      \/ ibd.peer # None
                      \/ \E b \in Parents[o] :
                           \/ b \in posts \cup unorphaned \cup stranded
                           \/ \E p \in Peer : Holds(p, b) /\ flow[p].pc \in {"submitted", "retry"}
    BY DEF OrphansAreTaken
  <2>1. \/ o \in known \cup ibd.roots \cup {ibd.queued}
        \/ \E b \in Parents[o] : Taker(b)
    BY DEF RelayInv, TakersExist
  <2>2. o # None
    BY RelayAssumption DEF RelayInv, TypeInv
  <2>3. ibd.peer = None => ibd.roots = {} /\ ibd.queued = None /\ ibd.inserted = {}
    BY DEF RelayInv, LockedRoots
  <2> QED BY <2>1, <2>2, <2>3 DEF Taker, Awaited, Holds
<1> QED BY <1>1, <1>2, <1>3, PTL DEF Spec
=============================================================================

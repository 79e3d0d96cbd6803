# A TLA+ model of the Sahyadri node

Sahyadri is a block DAG node written in Rust. It descends from a GHOSTDAG node and
adds an account ledger, flash transactions, decentralised identifiers (DIDs), a
sparse Merkle commitment to the accounts and a collector of old account states.
This directory holds TLA+ modules translated from the source, TLC configurations
that check them on small instances, and theorems that TLAPS proves for every
instance. `PROJECT.json` ties each definition to the lines it models.

Contents: [the system](#the-system), [the modules](#the-modules),
[the runs](#the-runs), [the findings](#the-findings), [bounds](#bounds),
[fairness](#fairness), [proofs](#proofs),
[what is not modelled](#what-is-not-modelled), [plan](#plan).

## The system

### How a block travels

0. A **relay flow** per peer dequeues announcements, requests each block from one peer
   at a time through a shared map of requests, and submits it. A block whose parents are
   missing waits in the **orphan pool**, or starts **IBD** when it is too far ahead.
1. `validate_and_insert_block` sends a task to the **header processor** and returns
   two futures, one for the block result and one for the virtual result.
2. The header processor's worker thread registers the task with its **dependency
   manager**; pool threads validate the header, run the **colouring**, and commit.
   A task waits while a parent is being processed.
3. The task goes on to the **body processor**, which has a dependency manager of its
   own, commits the body and updates the body tips.
4. The **virtual processor**, one thread, takes all waiting messages at once,
   searches the new **sink** from the tips, verifies chain blocks on the way, picks
   the parents of the virtual block and commits the new virtual state. The commit
   unwinds and applies the **account ledger**; verification writes the nodes of the
   **sparse Merkle tree** and the account snapshots.
5. The **pruning processor**, one thread, is told the new sink. It moves the pruning
   point, walks the registry position up to it, deletes what is below the retention
   root and runs the **collector** of account states.

An `Exit` message takes the same way and must not overtake a block.

Transactions reach the **mempool** by RPC or from a peer, and leave it with the blocks
that accept them. A fresh node may start from the account tree of a checkpoint, which it
downloads from a peer over **SyncWave** before its consensus starts.

### Inventory

| Part | State | Operations that change it | What is hard |
|---|---|---|---|
| Dependency manager (`pipeline/deps_manager.rs`) | pending groups, dependents | register, try_begin, end, wait_for_idle | duplicates, wake-ups, one-shot condition wait |
| Pipeline (`pipeline/header_processor`, `body_processor`, `consensus/mod.rs`) | channels, statuses, tips, answers | submit, process header and body, answer, exit | three processors write one status; shutdown with blocks in flight |
| Colouring (`processes/sahyadri_consensus`, `block_depth.rs`) | consensus data and depth points of each block | add a header | sizes memoised along the chain; ties; depth boundaries |
| Virtual processor (`pipeline/virtual_processor`) | virtual state, selected chain store, statuses | sink search, chain verification, parent picking, commit | stale tips, disqualified candidates, crash inside a walk |
| Account ledger (`virtual_processor/processor.rs`, `flash_tx.rs`, `account_changes.rs`) | balances, flash lists; the committed accounts | apply and unwind a block, prune flashes | apply and unwind must mirror each other; two parallel ledgers |
| State stores and collector (`model/stores/gc.rs`) | nodes, snapshots, roots | verify, commit, mark, sweep | writers during a sweep |
| Sparse Merkle tree (`crypto/smt`) | node store, overlay | update, persist, discard | canonical form after deletion; paging |
| Pruning (`pipeline/pruning_processor`, `processes/pruning.rs`) | per-block stores, pruning stores | move, advance, prune, recover | one batch after another with crashes between; lookups below the pruning point |
| DIDs | DID documents and their commitment | create, update, deactivate | as the ledger |
| Mempool (`mining`) | pool, frontier, account set, accepted list | validate and insert, replace, evict, accept, expire | checks under a read lock that are used under a write lock |
| Cached store access (`database`) | cache and disk | write, delete, batch | cache ahead of the batch |
| SyncWave (`model/sync_wave.rs`) | the peer's cache, the stores of the fresh node | export, download, verify, load | a cache shared by clients; a crash inside load |
| Proof worker | bounded queue, proof roots | enqueue, prove, chain | full queue, restart |
| Reachability index | intervals, tree | add, reindex, delete | reindexing around the reindex root |
| Consensus manager and factory | active and staging entries | create, commit, cancel | crash between entries |
| IBD, relay, orphans, request scopes (`protocol/flows`) | orphan pool, map of requests | relay, unorphan, request, take over, revalidate | eviction; a request taken over from a slow peer; orphans nobody looks for |
| Address and connection managers | requests, known peers | add, ban, retry | concurrent requests for one address |
| Notification, RPC, bridge, wallet, daemon | subscriptions, jobs | start, stop, notify | order of start and stop |

`PROJECT.json` lists all 33 parts with their status, and 40 hazards at the lines where
they bite. A hazard without a property says why.

## The modules

The code's control is kept: every guard, early return and write, and their order.
Data is abstract: a block is a model value or a number, a validation rule is its
verdict.

**`BlockTaskDeps`** models the dependency manager. `pending`, `taken` and
`dependents` are the map under the mutex; `queued` counts the `queue_block` jobs of
the pool. One action per operation (`Register`, `Postpone` and `Begin` for
`try_begin`, `End`, `WaitForIdle`), because each runs under the mutex. The fields
`registered`, `before` and `ended` are history.

**`BlockPipeline`** composes two instances of `BlockTaskDeps` (`Hdr` and `Body`) with
the three channels, the statuses store, the tips and the answers. The processing of a
header or a body is a step of its own between `TryBegin` and `End`. The property
`ProcessorsImplementManager` says that each processor implements the specification of
the manager. It is checked and proved, so the theorems about the manager carry over.

**`SahyadriConsensus`** models the colouring as the code computes it: the memoised
anticone sizes of the blues, the walk up the selected chain that decides a colour, the
blue score and blue work, the merge depth root and the finality point, and the header
rules that read them (parents, mergeset size, bounded merge). The reference definition
is the greedy one, over the blue set of the whole chain.

**`VirtualResolve`** extends it with the virtual processor: `StartResolve` reads the
tips; `PopCandidate`, `WalkOn`, `VerifyChainBlock` and `EndWalk` are the sink search;
`PickParent` and `CommitVirtual` finish it. Headers and bodies arrive between any two
steps. A crash keeps the stores and loses the search and the channel.

**`AccountLedger`** models what a commit does to the account store: `UnwindBlock` for
the removed blocks, `ApplyBlock` for the added ones, in one batch. `Committed` is the
second ledger, the one `account_changes.rs` computes for the commitment. The history
variable `inForce` records which transactions of the chain took effect. Balances
saturate at zero as in the code.

**`StateGc`** models the content-addressed stores and the collector. The tree of a block
is the set of the snapshots at its leaves. The constant `Trigger` says where the
collector runs: `"pruning"` is the trigger in `prune`, `"virtual"` the one at the end of
a commit on the virtual thread, which an environment variable enables for tests.

**`SparseMerkleTree`** models `crypto/smt` with recursive operators: update, split,
normalise, get, prove, both verifiers and paging, over overlays that are persisted or
discarded. A node is its own hash, so there are no collisions.

**`SyncWave`** extends it with the bootstrap of a fresh node. The peer exports a tree as a
list of nodes in the order of a hash map, followed by the states of the leaves; it keeps
the last export in a cache that its clients share (`OtherClient` replaces it between two
chunks). The node asks for the metadata and the chunks, verifies, and loads with one write
per item, the account root last. An attempt may end at any step, and the stores remain.
The peer is honest. `whole` is history: it records whether the chunks make up one export.

**`Mempool`** models the pool, its frontier, the account set and the accepted list for
transactions of the account model. `PreValidate` runs under the read lock; `Insert`,
`NoRoom` and `Refuse` are what the write lock leads to. Replacement by fee, eviction in
feerate order, new blocks and the three locks of the expiry task may come in between.
Transactions of this model have no inputs, so they have no redeemers and are never
orphans.

**`BlockRelay`** models the relay loop of every peer (`flow`), the shared request map, the
orphan pool, the task spawned for a new block (`posts`) and the IBD flow. Consensus is
abstract: the blocks it has (`known`) and the submitted ones (`pipe`), which wait for
parents on their way. `ParentsEndFirst` of the manager is what justifies this. A block is
its blue work. The walks over the pool are least and greatest sets of orphans.

**`Pruning`** models the pruning points (samples, next points, depth), the pruning
thread one database batch at a time, recovery, the retention root, the keep sets and
the checkpoint. The sink moves only to a block above the virtual finality point, which is
taken from a virtual block that merges its sink alone. What a pruning proof keeps is a pair of constants (`Window`, `Upper`).

**`BlockTaskDepsProofs`**, **`BlockPipelineProofs`**, **`StateGcProofs`**,
**`MempoolProofs`**, **`BlockRelayProofs`**, **`SahyadriConsensusProofs`**,
**`VirtualResolveProofs`** and **`AccountLedgerProofs`** hold the theorems. `MC*.tla` and their `.cfg` files hold the instances. Definitions marked "Mutant"
are faulty variants of the one that follows; each shows that some property notices the
fault. `TypeOK` is checked and proved for the manager and proved for the collector; in the
other modules, where there is one, it documents the state.

## The runs

Run one with `tlc -workers 2 -config X.cfg M`.

| Run | Instance | What holds |
|---|---|---|
| `task_deps` | a diamond of four blocks, the first submitted twice | no unwrap or assertion fails; no pending group is forgotten; a task ends after the earlier tasks of its parents; Exit is last |
| `pipeline` | a chain of three: the first comes trusted and again with the wrong transactions, the second has an invalid body, the third comes header-only and has an invalid header | valid blocks submitted parents first are never refused; every submission before Exit is answered before the pruning processor stops; both processors implement the manager; every submission before Exit, and Exit, get through |
| `colouring` | every DAG of five blocks above genesis, all hash orders, two weights, K = 2 | the memoised colouring is the greedy one, so every blue set is a k-cluster; depth points never retreat |
| `virtual` | four blocks in every hash order, tight limits, finality depth 1, a crash anywhere | the search succeeds; valid blocks have valid chains; the chain store is the sink's chain; the virtual parents make a valid template and select the sink; the sink is the heaviest valid block, only gains work and keeps finality; virtual catches up with the bodies |
| `ledger_flash` | a chain of seven and a fork of two, 512 assignments of bodies | balances are those of the chain; a flash takes effect once; both ledgers agree where no flash is skipped or repeated |
| `gc_virtual` | a chain of three and a fork of two, one crash, `Trigger = "virtual"` | states of valid retained blocks are kept; no honest block is disqualified; the sweep leaves no dead state |
| `pruning` | twelve blocks with a merged side block, an unmerged one and a fork within the finality depth, F = 2, P = 4, a retention period that holds the retention root back at the first pruning point, one crash | the checkpoint means pruned; retained blocks and the chain index stay; every lookup the code unwraps succeeds; points only advance, to points deep enough below the sink; interrupted pruning completes |
| `account_tree` | four keys of three bits, two values, four updates; bootstraps of two trees in chunks of two, one attempt cut short | roots are canonical; committed trees stay readable; proofs decide membership; pages are exact; a node that has the root of a checkpoint can read its whole tree |
| `mempool` | four flash transactions, two of them with one flash id, and a DID operation; a pool of two; two concurrent calls | the indexes agree with the pool; an accepted transaction is not pending; the totals are exact and within the limits |
| `relay` | two peers, four blocks, two places for orphans, two failures | every request is held by a flow; nothing leaves the orphan pool too early; an orphan whose parents arrived is taken, with two named exceptions |
| `ledger_refund` | the fork holds an account transaction | ends in a counterexample, see below |
| `gc_race` | as `gc_virtual`, with `Trigger = "pruning"` | ends in a counterexample, see below |

## The findings

Two runs end in a counterexample. Each shows a disagreement between the code and a
comment beside it, which `PROJECT.json` quotes.

* `ledger_refund`. Unwinding an account transaction is meant to refund the sender and
  mirror the apply path. The refund is guarded by `get_last_tx_id`, which always
  answers zeros, so the receiver is debited and the sender is not refunded.
* `gc_race`. The collector in `prune` relies on the pruning lock to keep commits out.
  The virtual processor verifies blocks without that lock, so the sweep can delete
  snapshots that verification has just written.

The model follows the code in more places where a doc or a comment says otherwise; no
run is kept for them:

* Unwinding deducts the outputs of transactions only; the rewards of a coinbase payload
  stay.
* The flash entries of a removed block are deleted at the first flash of a sender. A
  second flash of that sender in the same block finds nothing and is not refunded.
* The commitment takes every flash of a block, not the accepted ones. A flash in two
  blocks of one chain changes the committed balances twice and the account store once.
* Expiry is documented against the DAA score of the block; the commit uses the score of
  the new virtual block for every block it adds.
* The collector is said to delete unreachable tree nodes; it counts them and deletes
  only the states.
* The load of a SyncWave snapshot is called atomic. It is a write per item, the root last;
  `BootstrapIsComplete` holds because of that order.
* "Never expire high priority transactions" (`transactions_pool.rs`). The expiry task
  collects ids under one lock and removes them under another; a transaction that was
  removed and submitted again with high priority in between is removed.
* The account set is documented to bound the sum of a sender's pending debits. It keeps
  the sum, exactly, and compares it with nothing.
* Orphans are said to be "all unorphaned when IBD completes" (`flow.rs`).
  `revalidate_orphans` submits a root and looks for its descendants before consensus has
  processed it, so they stay in the pool.

Three more things the models show, which no text contradicts. Chunks of two exports (the
cache was replaced between them) may verify and still lack the state of a leaf, hence
`whole` in `BootstrapIsComplete`. With a full pool, a DID operation that arrives or is next
to be evicted makes `limit_transaction_count` unwrap a fee rate that was never calculated;
the model ends the call there (`NoRoom`). An orphan also stays behind when its parent came
out of the pool itself, or from an IBD that failed; `OrphansAreTaken` names both.

The runs that pass avoid these cases by their instance or by their property.
`ledger_flash` keeps account transactions and rewards below the fork and gives a block
at most one flash of each sender (it may repeat that one). Its comparison of the two
ledgers is about chains in which no flash is skipped or repeated. `gc_virtual` and the
theorems about the collector are about the trigger on the virtual thread and about
states, not nodes; with the trigger in `prune`, `LiveStatesKept` fails.

## Bounds

| Bound | Value | Why it is enough for the question |
|---|---|---|
| Tasks in `BlockTaskDeps` | 5 | a diamond has a join and a shared parent; the duplicate makes a group of two. The theorems remove the bound |
| Blocks in `BlockPipeline` | 3, in 4 tasks | a parent in each of the three processors while its child is in another. The theorems remove the bound for the three safety properties, and with it the limits of this instance: here only the first block of the chain is valid |
| `MaxHash` | 4 or 5 | with five blocks and K = 2 a candidate is red because of the anticone of an earlier blue, not only because of its own; four blocks give the sink search a disqualified candidate, a competing tip and a reorganisation. The theorems remove the bound for the colouring, depth points, statuses, the search, the sink and the chain store |
| `MaxCrashes` | 0 or 1 | the crash may fall between any two steps; a crash during the recovery from another is not covered |
| Chain in `AccountLedger` | 8 blocks | two reorganisations in a row, and a flash that expires and is pruned on the way; `FlashPruneBuffer` 2 keeps every reorganisation inside the buffer, as the code assumes. The theorem removes the bound for `FlashOnce` |
| Keys of the tree | 4 of 3 bits | two that split at the last bit, one that splits at the first; deletion collapses two levels |
| `MaxUpdates`, `MaxTrees` | 4, 2 | insert, overwrite and delete, over two generations of trees |
| `Checkpoint`, `ChunkSize` | 2 trees, 2 items | a chunk that ends inside the nodes and one that mixes nodes and states; a tree whose leaves share a state. Bootstraps start from a peer that wrote that one tree |
| Blocks in `Pruning` | 12 | several pruning points, a merged side block and a fork that may overtake the chain |
| `MaximumTransactionCount`, `MempoolSizeLimit` | 2 transactions, 3 bytes | each of the two limits is the one that binds in some state. The theorems remove the bound |
| `MaxScore`, `MaxAccepted` | 1, 1 | a transaction expires while another call is between its locks; the callers are symmetric |
| `MaxOrphans`, `Threshold` | 2, 1 | the third orphan evicts one; the block below the threshold is skipped when announced and fetched only as a root or through IBD |
| `MaxFailures` | 2 | both peers leave, or an IBD fails twice. The theorems remove all bounds of the relay |

`CHECK_DEADLOCK FALSE` appears where a bounded set of blocks runs out: no more can
arrive and the system rests. The other runs check deadlock.

## Fairness

* `BlockPipeline`, for `EverySubmissionAnswered`: weak fairness of every worker thread and
  every spawned job. The workers are threads that block only on their channel, and the pool
  runs each job it is given. Submission and Exit are not fair.
* `VirtualResolve`: the virtual thread is not starved. Either it is idle with an empty
  channel again and again, or it steps again and again. Arrivals and crashes are not
  fair; the instance is finite, so they stop. `VirtualCatchesUp` excuses runs with a crash,
  which drops the messages until the next body comes. It is about the finality point of
  the last search: that of virtual may move back when virtual merges fewer blocks.
* `Pruning`: weak fairness of the pruning thread, and of the notification. The channel
  is lossy at a restart, so the recovery of an interrupted pruning needs a later
  message; `PruningCompletes` therefore assumes that the virtual processor goes on
  resolving blocks.
* The other modules assume no fairness; their properties are safety properties.

## Proofs

`tlapm` checks all of them to the last leaf.

**The dependency manager** (`BlockTaskDepsProofs`), for every set of blocks and tasks and
every parent relation. The assumptions are the types of `BlockOf` and `DirectParents`;
acyclicity is not needed for safety. None of the properties is inductive. `IInv` adds:

* `QueueInv` and `UnendedQueued`: a group's queue is exactly the registered, not yet
  ended tasks of its hash, in registration order;
* `TokenInv`: a pending hash has exactly one token, which is a spawned job, a running
  thread, or a place among the dependents of one pending parent. This is the heart of
  the argument: `Postpone` hands the token to a parent and `End` hands it back;
* `RunInv`: when a task runs, the tasks of its parents that came before it have ended.
  `Begin` establishes it because no parent is pending then;
* `WorkerInv`: past `wait_for_idle` nothing is pending, and nothing registers again.

The theorems are `TypeCorrect`, `PanicFree` (`NoPanic`), `GroupsAreKept`
(`NoLostGroup`), `TopologicalOrder` (`ParentsEndFirst`) and `ExitIsLast`
(`IdleIsFinal`).

**The collector on the virtual thread** (`StateGcProofs`), for every tree of blocks, every
assignment of snapshots and any number of collections and crashes. The assumptions are
`ParentAssumption` and `Trigger = "virtual"`. `LiveStatesKept` needs `VirtInv` (what a
verification has not written yet is on its list) and `GcInv` (no verification runs during
a collection; what was collected, marked and listed so far covers the valid blocks). The
theorems are `CollectionIsSafe`, `NoHonestBlockRejected` and `CollectionIsComplete`.

**The pipeline** (`BlockPipelineProofs`), for every set of blocks and submissions. The
assumptions are the types of `BlockOf` and `DirectParents` and that `Exit` is no task.
`ManagerImplemented` needs little: every step is a step of the manager or leaves it alone,
given that what comes out of a channel is a task. So the invariant of the manager holds
for both instances. `ExitOvertakesNothing` (`AnsweredBeforeExit`) needs an invariant about
what is between the processors, `ChannelsInv`:

* `SubmittedInv`: the first channel holds the last submissions, and what came before Exit
  has been registered when the header worker has received Exit;
* `HdrToBody` and `BodyToVirt`: Exit is the last message of a channel, it is there only
  when the sender has exited, and past Exit the channel and the batch are empty;
* `FlowInv`: a task that ended in a processor was answered, or is in the following channel
  or processor;
* `StatusInv`: what was passed on by the header processor has a status, so the virtual
  worker does answer it.

`ValidBlocksAccepted` (`TopologicalSubmissionAccepted`) needs an invariant about the soundly
submitted tasks, `AcceptInv`:

* `OrderInv`: the header worker registers in submission order, so a task's parents are
  among those registered before it; only registered tasks are answered or travel on;
* `MarkedInv`: a block is marked invalid only for a rule of its own, never for the
  transactions of one submission or for a parent;
* `HdrRun` and `HdrDone`: the header of such a task is not refused, and once it has ended
  the task is in the body channel or beyond. The parents have ended when it runs (the
  manager's `RunInv`), so each of them has a status, and not an invalid one;
* `BodyOrder`: the tasks come to the body processor after their parents, because a header
  task ends, and is sent on under the manager's lock, after its parents;
* `BodyRun` and `BodyDone`: their bodies are not refused either, for the same reason, and a
  block with a body keeps one whatever the virtual processor decides.

`SoundlySubmitted` is the union of the sets of submissions that contain, for each member, an
earlier submission of every parent. That says what a recursion over submission order would,
and can be reasoned about without one.

The lemmas, one per action, use of the managers only `ManagerFacts` and `RunFacts`. The end
of the module takes these from the two instances of `BlockTaskDepsProofs`.

**The mempool** (`MempoolProofs`), for every set of transactions, callers and limits, from
`MempoolAssumption`. The theorems are `PoolIndexesAgree` (`IndexesAgree`) and
`AcceptedLeave` (`AcceptedIsNotPending`). `PoolInv` is the shape of the pool and the
agreement of its indexes. The step that matters is an insertion: the account set refuses a
flash id that is pending after the frontier has been updated, so the indexes would
disagree. The lemma `FlashIdIsFree` shows that it never refuses: what the transaction
double spends was replaced, or there was nothing to replace.

`PoolTotals` (`TotalsAreExact`) also uses `AmountsAssumption`: sizes, debits and limits are
naturals. Its invariant adds that the pool is finite and that the totals are sums over it.
`SumRemove` and `SumSplit` say what such a sum loses with an element or with a part. A
removal takes off debits that are among the ones summed, so the saturating subtraction
never saturates; an insertion goes into a pool that has room, by the condition of the
eviction.

**The relay** (`BlockRelayProofs`), for every set of peers and blocks, from
`RelayAssumption`. The theorems are `EveryRequestIsHeld` (`RequestsAreHeld`),
`NothingIsUnorphanedEarly` (`UnorphanedAreKept`) and `OrphansHaveTakers`
(`OrphansAreTaken`). `RelayInv` adds that what consensus has is closed under parents
(`KnownIsClosed`), what IBD holds under the pool lock (`LockedRoots`), that a block on its
way into consensus came from a flow, the pool or IBD (`PipeIsOwned`), and the last property
with the part of IBD told apart (`TakersExist`).

**The DAG** (`SahyadriConsensusProofs`), for every DAG, K, weights and depths, from
`BoundAssumption`, `KAssumption`, `WorksAssumption` and `DepthAssumption`. The theorems are
`DepthPoints` (`DepthPointsAdvance`) and `GreedyColouring` (`ColouringIsGreedy`, and that
every blue set is a k-cluster). For the first, `DagInv` adds:

* `PastShape`: pasts are closed, acyclic and what the parents have, and work grows along
  them;
* `ChainShape`: the chain of a block is that of its selected parent and the block, so
  chains are totally ordered by blue score;
* `ShallowPoints`: the points of a block are on its chain, and they are genesis while its
  score is below the depth. `calculate_block_at_depth` climbs from the point of the
  selected parent, so it starts on the chain and never passes the target unseen.

For the second, `BlueInv` says that every blue set is a k-cluster, that it is greedily
coloured (`IsGreedy`: a block of the mergeset is blue just when it passes the test against
the blues before it), and that the sizes stored along the chain are right (`Memoized`). The
code never recomputes an anticone size: it takes the one that the highest block of the chain
has stored, which may lie far below. So the proof shows that adding a blue stores a new size
exactly where one changes (`AnticoneGrows`), that this size is then the highest stored one,
and that the walk up the chain, with its early returns, finds a candidate red exactly when
the greedy test does. `Coloured` is the same statement for a mergeset that is coloured in
part, and the induction over the mergeset carries it to the end.

The module also proves what the operators of the model do, for the next one to use: the
selected parent is the heaviest, colouring leaves the selected parent in place and adds up
the work (an induction over the mergeset), and `ChainPath` is the chain between two blocks.

**The virtual processor** (`VirtualResolveProofs`), on the same assumptions, for every
interleaving of header and body processors, crashes and the steps of a search. The
theorems are `StatusFollowsChain` (`ValidChains`), `SearchNeverFails` (`SearchSucceeds`),
`SearchFindsHeaviest` (`HeaviestValidSink`), `SinkNeverRetreats` (`SinkAdvances`) and
`ChainStoreIsSinkChain` (`ChainStoreMatchesSink`). `VirtInv` adds to these:

* `StatusInv`: bodies are closed under pasts, and every body is below a tip;
* `SnapshotInv`: the finality point does not move during a search, and the sink is below
  the tips the search was given;
* `CoverInv`: a block above the finality point that the search was given is disqualified
  or below the frontier, which is the heap and the candidate of a walk. This is the heart
  of the argument: replacing a disqualified candidate by its parents loses only the
  candidate (`ReplaceCovers`). The sink is never disqualified, so the heap is never empty;
* `WalkInv`: what is left of a walk is a chain from the verified block `diff`, or from a
  disqualified one, to the candidate, which is heavier than the heap.

The store needs `StoreInv`: it maps 0 to n - 1 one to one onto the chain of the sink, in
order. `Renumbered` shows that removing one path and adding another keeps this.

**The ledger** (`AccountLedgerProofs`), for every tree of blocks, every assignment of
bodies and every sequence of reorganisations. The theorem is `FlashTakesEffectOnce`
(`FlashOnce`). Besides the types (`BlocksAreNumbers`, `ParentsAreLighter`,
`BodiesHoldTransactions`) it assumes two things of the world:

* `IdsAreHashes`: transactions with one id are one transaction;
* `ScoresKeepUp`: the DAA score of a heavier block is less than `FlashPruneBuffer` below
  that of a lighter one. The code does not enforce this; it is what the buffer is for.
  Without it an entry could be pruned and the transaction be accepted once more by a
  reorganisation to a much lower score.

`LedgerInv` adds that every flash in force is guarded: its entry, with its block, is in the
sender's account, or it has expired for every heavier sink. Unwinding removes only the
entries of removed blocks, whose transactions leave the history with them; applying a batch
drops what is recorded and what has expired; pruning drops what `ScoresKeepUp` shows to
have expired for good. Each is a fold, over the transactions of a block or the blocks of a
path, so the module first proves that the recursive functions behind these folds and behind
`Chain` exist.

Induction in these modules is first-order: a set of counterexamples among the subsets of a
finite set, or among the naturals, has a least element.

Only model-checked:

* liveness: TLAPS does not reason about fairness here;
* `TemplateIsValid` of `VirtualResolve`: removing the parents that break the bounded merge
  rule recolours the mergeset, and nothing in the code shows that the result has no new
  offending red;
* `BalancesAddUp` and `StoreMatchesCommitment` of `AccountLedger`: they hold for the bodies
  of the instance, and the findings say for which bodies they do not;
* `Pruning`: its constants admit every DAG, also those that break the merge depth rule, for
  which its invariants are not claimed;
* `SparseMerkleTree` and `SyncWave`: they are written with recursive operators.

## What is not modelled

* The contents of validation rules: difficulty, median time, mass, scripts, signatures.
  They are pure predicates and enter as verdicts.
* Pruning on an archival node, catch-up through a downloaded proof and the contents of
  the proof.
* In the mempool: transactions with inputs, which consensus no longer accepts, and with
  them orphans, redeemers and revalidation; the sampling of the frontier. A peer's limits
  per sender read the first input and never apply.
* In the relay: invalid blocks, the transitional state of a catch-up, blocks submitted by
  RPC, transaction relay, the negotiation and the headers of IBD and its staging consensus.
* In SyncWave: a dishonest peer.
* DID operations: a store and a commitment like those of the accounts, with other
  payloads.
* The cache in front of the stores. Every module would have it once per store; the modules
  write a store with its batch.
* The proof worker, the consensus manager with its staging entries, the readers-first
  semaphore, the address and connection managers and the notification system. Each has
  state of its own, and none of the modelled parts reads it.
* Reachability intervals, difficulty and median time windows: 64-bit and 320-bit arithmetic
  whose interesting cases are far from a small instance.
* Cryptography, STARK provers and big integers: pure functions over large domains.
* Network and RPC transport, wallet, CLI and wasm: I/O and client programs. They are most
  of the repository's lines.

## Plan

In order of importance to the node:

1. **Cached store access**: cache, batch and disk, with eviction and a crash between the
   cache write and the batch; `set_is_archival_node` of the factory belongs here.
2. **Consensus manager and factory**: staging commit and cancel with a crash between the
   entries; at most one active consensus at start-up.
3. **Proof worker**: the bounded queue against committed roots, with restart.
4. **DIDs and emission**: DID operations as a second ledger; subsidy and treasury split
   against their sum.
5. **Session lock**: the readers-first semaphore, then `Pruning` over it.
6. **Connection manager** and **notification**: retries and requests; start and stop.
7. **Reachability**: interval allocation and reindexing against the ancestor relation.

Theorems to come: `PointsAdvance` of `Pruning`, with the merge depth rule as an assumption on
its DAG, and `StoreMatchesCommitment` of `AccountLedger`, for bodies with at most one flash of
each sender.

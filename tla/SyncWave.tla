------------------------------ MODULE SyncWave ------------------------------
(***************************************************************************)
(* The SyncWave bootstrap: a fresh node downloads the account tree of a    *)
(* checkpoint from a peer in chunks, verifies it and loads it before its   *)
(* consensus starts.  The peer keeps the snapshot it exported last in a    *)
(* cache that all its clients share, and an export lists the nodes in an   *)
(* order of its own (that of a hash map).                                  *)
(*                                                                         *)
(* The peer is honest.  Its tree does not change during a download: nodes  *)
(* are only added to its store, so a later export finds the same ones.     *)
(***************************************************************************)
EXTENDS SparseMerkleTree

CONSTANTS
    DidState,    \* the values that stand for DID documents, the others for accounts
    Checkpoint,  \* bound: the trees, by their entries, that are bootstrapped
    ChunkSize,
    MaxCrashes   \* bound on the attempts that end early

VARIABLES
    cache,   \* of the peer: a snapshot of the checkpoint, or Other
    wave,    \* the attempt of the fresh node (whole: history, the chunks make up one export)
    local,   \* the stores of the fresh node: [nodes, states, root]
    crashes

waveVars == <<cache, wave, local, crashes>>
allVars == <<vars, waveVars>>

Other == <<>>   \* no snapshot of the checkpoint
NoTree == [root |-> Empty, entries |-> NoEntries]
NoMetadata == [nodes |-> 0, chunks |-> 0]
Idle == [phase |-> "idle", tree |-> NoTree, metadata |-> NoMetadata, chunk |-> 0, items |-> <<>>,
         whole |-> FALSE]

-----------------------------------------------------------------------------
(* collect_smt_nodes: every node that is reachable from the root. *)
RECURSIVE CollectSmtNodes(_, _)
CollectSmtNodes(store, node) ==
    IF node = Empty THEN {}
    ELSE IF node \notin store THEN {Missing}
    ELSE IF IsLeaf(node) THEN {node}
    ELSE {node} \cup CollectSmtNodes(store, node[2]) \cup CollectSmtNodes(store, node[3])

Item(kind, content) == [kind |-> kind, content |-> content]

(* The nodes in some order, then the account states and the DID states of  *)
(* the leaves in the same order.                                           *)
Snapshot(order) ==
    LET leaves == SelectSeq(order, IsLeaf)
        accounts == SelectSeq(leaves, LAMBDA l : l[3] \notin DidState)
        dids == SelectSeq(leaves, LAMBDA l : l[3] \in DidState)
    IN  [i \in DOMAIN order |-> Item("node", order[i])]
        \o [i \in DOMAIN accounts |-> Item("account", accounts[i][3])]
        \o [i \in DOMAIN dids |-> Item("did", dids[i][3])]

(* export: every snapshot the peer may build of a tree. *)
Exports(tree) == {Snapshot(order) : order \in SetToSeqs(CollectSmtNodes(base, tree.root))}

(* get_or_export_sync_wave: the cached snapshot, or a new one. *)
Served(tree) == IF cache # Other THEN {cache} ELSE Exports(tree)

TotalChunks(snapshot) == (Len(snapshot) + ChunkSize - 1) \div ChunkSize

Chunk(snapshot, i) ==
    SubSeq(snapshot, i * ChunkSize + 1, Min({(i + 1) * ChunkSize, Len(snapshot)}))

Metadata(snapshot) ==
    [nodes |-> Cardinality({i \in DOMAIN snapshot : snapshot[i].kind = "node"}),
     chunks |-> TotalChunks(snapshot)]

ItemsOf(items, kind) == SelectSeq(items, LAMBDA x : x.kind = kind)

(* verify: the nodes that were downloaded hold the whole tree of the root, *)
(* as many as the metadata say.  That a hash names its content holds of    *)
(* every item of an honest peer.                                           *)
Verify(root, items, declared) ==
    LET index == {x.content : x \in ToSet(ItemsOf(items, "node"))}
        visited == CollectSmtNodes(index, root)
    IN  Missing \notin visited /\ Cardinality(visited) = declared

(* The order in which load writes. *)
LoadOrder(items) == ItemsOf(items, "node") \o ItemsOf(items, "account") \o ItemsOf(items, "did")

-----------------------------------------------------------------------------
WaveInit ==
    /\ Init
    /\ cache = Other
    /\ wave = Idle
    /\ local = [nodes |-> {}, states |-> {}, root |-> Empty]
    /\ crashes = 0

(* bootstrap_from_peer asks for the metadata.  Bound: bootstraps are       *)
(* explored from peers that wrote one tree, in one update per key.         *)
StartBootstrap(t) ==
    /\ wave.phase = "idle" /\ ~overlay.open
    /\ t.entries \in Checkpoint
    /\ base = CollectSmtNodes(base, t.root) /\ updates = Cardinality(LeavesIn(t.entries))
    /\ \E s \in Served(t) :
          /\ cache' = s
          /\ wave' = [Idle EXCEPT !.phase = "download", !.tree = t, !.metadata = Metadata(s)]
    /\ UNCHANGED <<vars, local, crashes>>

(* Another client asks for another block, whose export takes the cache.    *)
OtherClient ==
    /\ wave.phase = "download" /\ cache # Other
    /\ cache' = Other
    /\ UNCHANGED <<vars, wave, local, crashes>>

(* download_sync_wave_chunk_call, and the reply. *)
DownloadChunk ==
    /\ wave.phase = "download" /\ wave.chunk < wave.metadata.chunks
    /\ \E s \in Served(wave.tree) :
          /\ cache' = s
          /\ wave' = [wave EXCEPT !.chunk = @ + 1, !.items = @ \o Chunk(s, wave.chunk)]
    /\ UNCHANGED <<vars, local, crashes>>

(* verify; the node panics when it fails, and starts again. *)
VerifySnapshot ==
    /\ wave.phase = "download" /\ wave.chunk = wave.metadata.chunks
    /\ wave' = IF Verify(wave.tree.root, wave.items, wave.metadata.nodes)
               THEN [wave EXCEPT !.phase = "load", !.items = LoadOrder(@),
                                 !.whole = wave.items \in Exports(wave.tree)]
               ELSE Idle
    /\ UNCHANGED <<vars, cache, local, crashes>>

(* load: a write of its own for every item. *)
LoadItem ==
    /\ wave.phase = "load" /\ wave.items # <<>>
    /\ LET x == Head(wave.items)
       IN  local' = IF x.kind = "node" THEN [local EXCEPT !.nodes = @ \cup {x.content}]
                    ELSE [local EXCEPT !.states = @ \cup {x.content}]
    /\ wave' = [wave EXCEPT !.items = Tail(@)]
    /\ UNCHANGED <<vars, cache, crashes>>

(* Mutant: the root may be written before the states. *)
LoadRootEarly ==
    /\ wave.phase = "load"
    /\ local' = [local EXCEPT !.root = wave.tree.root]
    /\ wave' = IF wave.items = <<>> THEN [wave EXCEPT !.phase = "done"] ELSE wave
    /\ UNCHANGED <<vars, cache, crashes>>

(* The account root of the checkpoint is written last. *)
LoadRoot ==
    /\ wave.phase = "load" /\ wave.items = <<>>
    /\ local' = [local EXCEPT !.root = wave.tree.root]
    /\ wave' = [wave EXCEPT !.phase = "done"]
    /\ UNCHANGED <<vars, cache, crashes>>

(* A request fails, a write fails or the process dies.  The stores remain. *)
Crash ==
    /\ wave.phase \in {"download", "load"} /\ crashes < MaxCrashes
    /\ crashes' = crashes + 1
    /\ wave' = Idle
    /\ UNCHANGED <<vars, cache, local>>

WaveNext ==
    \/ wave.phase = "idle" /\ cache = Other /\ crashes = 0 /\ Next /\ UNCHANGED waveVars
    \/ \E t \in trees \ {NoTree} : StartBootstrap(t)
    \/ OtherClient
    \/ DownloadChunk
    \/ VerifySnapshot
    \/ LoadItem
    \/ LoadRoot
    \/ Crash

WaveSpec == WaveInit /\ [][WaveNext]_allVars

-----------------------------------------------------------------------------
(* Once the root of the checkpoint is stored, the node can read the whole   *)
(* tree from its own store, also when earlier attempts died half way; and   *)
(* it holds the state of every leaf, provided that the chunks make up one   *)
(* export of the peer.                                                      *)
BootstrapIsComplete ==
    local.root # Empty =>
        /\ \A k \in Key : GetAt(local.nodes, local.root, 0, k) = wave.tree.entries[k]
        /\ wave.whole =>
              {wave.tree.entries[k] : k \in Key} \ {None} \subseteq local.states
=============================================================================

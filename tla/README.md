# TLA+ models of starkstream-dna

The repository is a streaming server for Starknet data.  An *ingester* follows
the node, stores blocks in an object store and publishes the canonical chain;
*compaction* packs final blocks into segments and groups; the *chain view* of
every process follows what is published in etcd; *streams* serve clients from
it, searching blocks, segments and groups with the filters of the client.  This
directory holds TLA+ models of these parts, the TLC runs that check them and
TLAPS proofs of the safety properties that matter most.

## The system and its models

| Part | Source | Module |
|---|---|---|
| Canonical chain builder and segments | `common/src/chain.rs` | `CanonicalChain` |
| Reader lookups | `common/src/chain_view/full.rs` | `FullCanonicalChain` |
| Ingestion service | `common/src/ingestion/service.rs`, `mod.rs` | `Ingestion`; what it promises: `PublishedChain` |
| Starknet node (environment) | `starknet/src/ingestion.rs`, `provider/` | `Node` |
| Keys in etcd, watches, options | `common/src/ingestion/state_client.rs`, `options_store.rs`, `etcd/src/` | `StateStore` (for views and compaction), variables of `Ingestion` |
| Chain and block store | `common/src/chain_store.rs`, `block_store.rs` | which objects exist: variables of `Ingestion`, `ChainViewSync`, `Compaction`, `DataStream` |
| Chain view and its synchronisation | `common/src/chain_view/{sync,view}.rs` | `ChainViewSync`, `SegmentMath` |
| Compaction: loop, lock, segment, group and prune task | `common/src/compaction/`, `etcd/src/lock.rs` | `Compaction` |
| Server and data streams | `common/src/server/service.rs`, `common/src/data_stream/` | `DataStream`, `Encoding` (framing) |
| Fragments, indexes, joins, filters, segment and group builders | `common/src/{index,join,query,fragment}.rs`, `common/src/compaction/*_builder.rs`, `starknet/src/{ingestion,filter}` | `Query`, `StarknetBlock`, `StarknetQuery` |

The `MC*` modules hold the instances for TLC, the `*Proofs` modules the
proofs.  `EXTENDS` goes

    CanonicalChain <- FullCanonicalChain <- DataStream (with SegmentMath)
    CanonicalChain <- Node, FullCanonicalChain <- Ingestion
    StateStore, SegmentMath <- ChainViewSync <- Compaction
    Query <- StarknetBlock, Encoding <- StarknetQuery

and for the proofs

    FullCanonicalChain <- CanonicalChainProofs
    Ingestion, CanonicalChainProofs <- IngestionProofs <- PublicationProofs, ReorgProofs
    ChainViewSync <- ChainViewProofs
    Compaction <- CompactionProofs <- CompactedDataProofs
    StarknetQuery <- QueryProofs

A part that reacts to another one sees a small version of it: the view in
`ChainViewSync` follows an ingester and a compactor that only write keys and
snapshots, and the streams of `DataStream` read a view that is moved by a chain
that grows and is cut, a compactor and pending blocks.  What those parts really
do is the subject of their own module, and the properties proved or checked
there (an uploaded segment is immutable, a view shows keys in the order they
were written, a block is pruned only below the grouped cursor) are what the
small versions rely on.

### Ingestion

A block is its hash; `Number` and `Parent` are functions of the hash, so the
constants describe the tree of all forks the node may ever show.  `Vec<Hash>` with
an offset is a function on `first .. last`.  The node's chain grows by a block, is cut back by at
most `MaxReorgDepth` below the highest head ever seen and never below its final block, and
blocks become final.  A reorganization is a cut followed by growth on another
branch, and a branch may be adopted again.

The service is one async task: a handler runs to its end before the next event
is read, and nothing else writes what it writes.  A handler is one action, with
two exceptions.  `initialize` and the walk of `tick_recover` send several requests to a
node that moves in between, so `InitializeChain` is followed by one of
`InitializeResume`, `InitializeRecover`, `InitializeStart`, and every request of the walk is a
`TickRecoverStep`.  A handler with two durable writes has a second action that
stops after the first (`TickTaskBlockFail`: segment uploaded, pointer not moved;
`InitializeStartFail`).  A snapshot has a fresh name and is invisible until the
pointer in etcd moves, so writing it and then failing is `Crash`.

| Code | Actions |
|---|---|
| `initialize`, `get_starting_cursor`, `migrate_legacy_recent_segment` | `InitializeChain`, `InitializeResume`, `InitializeRecover`, `InitializeStart`, `InitializeStartFail` |
| `tick_refresh_head` from the interval / from the websocket | `TickHeadInterval` / `TickNewHead` |
| websocket error or end | `TickNewHeadsReconnect` |
| `tick_refresh_finalized` | `TickRefreshFinalized`, `TickRefreshFinalizedFail` |
| `tick_refresh_pending` | `TickRefreshPending` |
| the spawned tasks | `RunMainTask`, `RunPendingTask` |
| `tick_with_task_result` | `TickTaskBlock`, `TickTaskBlockFail`, `TickTaskReorg`, `TickTaskPendingNone`, `TickTaskPending` |
| `tick_recover` | `TickRecoverStep`, `TickRecoverFail`, `TickRecoverDone` |
| any error, cancellation, lost lock or crash, then the loop of `mod.rs` | `Crash`, `Stop`, then `InitializeChain` |

A cursor is its block, and hashes that differ in leading zeros are the same
block; the finalized block is its number; of the content of a block only
whether its object was written is kept.  `everPublished` is a history variable.
Tasks that `tick_recover` drops from the queue go on running in the code and are not in
the model; they could only write block objects that no guard looks at.
`PublishedChain` is the abstract specification: a publication extends the chain
or cuts it, never below the archived part, and replaces nothing in place.

### Chain view

Every read of etcd or of the object store is a step (`SyncStep`): the ingester, the
compactor and the cleanup of old snapshots move on between two of them.  A watch
sends the events since it was opened, in order; when it breaks it is opened again
later, and the keys are not read again.  A setter of the view wakes who waits at that moment and nobody else,
as `Notify::notify_waiters` does.

### Compaction

Every process competes for the lock, stores or compares its options, waits for
its view and runs the three tasks; each download, upload, delete, read of a
cursor and compare-and-swap is a step.  A lease may expire while its holder
still works, so two compactors can run side by side; requests fail, processes crash, and a lock left by a crash expires.
`put_if_higher` is a read and a transaction that is retried, and a prune task reads the grouped
cursor (`PruneTick`) and then the pruned one (`ReadPruned`).  Every process has its own segment and group
size and is refused when etcd has another of either (`RefuseOptions`).  A task may find a notification gone
that was sent on its way to the wait.  A block is its number, because only finalized
blocks are touched; a segment is written fragment by fragment.

### Streams

A request takes a permit, is validated and becomes a task; the task asks the
view for the block after its position, sends it alone or starts the producer
that walks groups and segments, sends invalidations, and waits at the head for a
new block, a new finalized block or a new pending generation.  Every read of the
view is a step.  The client keeps what it received, drops what is invalidated,
leaves at any moment, also while its request is being handled (`Leave`), and comes back with its last
cursor.  A read that fails ends the request or the stream (`DownloadFails`), and a producer
that fails is told by the stream's own select (`SegmentsFail`).

The chain of the view is cut down to the finalized number and, where it follows a branch
the node has left, below it (`HeadIsCut`): the finalized number is the node's and is
published on its own.  It moves up (`FinalizedMoves`) or, after a restart against a node
that is behind, to any number.  A pending object is written under its
number and generation, over one that a cut has left there, and the file cache of the server may
still have the older copy (`pendingCache`).  `everFinalized` is a history
variable.  A cursor from a segment has no
hash (`ZeroHash`), as in the code.

### Filters and indexes

`Query` has indexes and joins as functions and bitmaps as sets of rows;
`StarknetBlock` cuts a block into fragments, indexes and joins and compiles every kind
of filter; `StarknetQuery` ingests, compacts and searches a chain of one group.
`Encoding` keeps the widths and length prefixes of what is written.

## Runs

`tlc -config <cfg> <module>`; a run called `x` of `MCIngestion` uses
`MCIngestion_x.cfg`, and the others are named in `PROJECT.json`.

| Run | Setting | Properties |
|---|---|---|
| `deep` | tree a0..a3 with branch b2, cuts deeper than the offset, starting block 1, segments of two, lagging finalized block, crashes, fairness | `TypeOK`, `LastIngestedIsBuilderHead`, `PublishedChainIsComplete`, `PublishedBlocksAreStored`, `RecoveryEnds`, `ImplementsPublishedChain` |
| `cursors` | a branch low enough to end in uploaded segments, cuts of two blocks under an offset of three, two tasks, no restart | `CommonBlockIsKept`, `EveryPublishedCursorIsKnown`, `PublishedCursorIsAccepted`, `ReorgTargetsAreAncestors`, `ReadableSegmentsAreImmutable` |
| `pending` | pending blocks, websocket heads, two tasks, crashes, a node that only grows, fairness | `QueueIsConsecutive`, `PendingPointerResolves`, `NewHeadIsIngested` |
| `views` | a view that starts while the ingester starts, publishes, cuts, migrates an old deployment and snapshots are deleted; a watch breaks | `ViewTypeOK`, `QuietViewIsCurrent`, `ViewIsSent`, `SentSnapshotIsShown` |
| `compaction` | two compactors after an expired lease, two pruners, one that fails or crashes, one with another segment size, one with another group size | `CompactionTypeOK`, `ReadableSegmentsExist`, `NoBlockIsLost`, `PrunedBlocksAreGone`, `OneCompactor`, `PruneReachesGrouped`, `CursorsNeverMoveBack` |
| `compaction_live` | one compactor, a growing chain, a missed notification, fairness | `CompactionKeepsUp` |
| `stream` | a client through reorganizations, through compaction and pruning, of finalized data while the node changes its branch or lags, of pending data on either side of a fork; two clients for one permit | `StreamTypeOK`, `ClientHoldsOneBranch`, `FinalizedStreamIsFinal`, `PermitsAreConserved`, `PendingDataExtendsPosition`, `FinalizedClientKeepsBranch`, `LastingBlockIsDelivered`, `PermitIsReturned` |
| `query` | chains of four blocks of four kinds, filters of every kind | `AnswerIsExact`, `NoOperationFails`, `GroupIndexIsComplete`, `FramesAreSound` |

Four runs check what a comment or a protocol file says and are violated by the code; the
`findings` of `PROJECT.json` quote the lines:

* `restart_cursors` - `restore_from_segment` drops `extra_reorgs`, so after a cut and a
  restart a client at a block that was cut off gets an error instead of an
  invalidation (`EveryPublishedCursorIsKnown`).
* `pending_reorg` - after a revert a pending block can be requested while main
  blocks are queued before it, and is announced for another height
  (`PendingPointerResolves`).
* `stale_cursor` - a standby process reads the segmented cursor before its watch
  is open; when it takes over it compacts a segment that exists, from blocks its
  own prune task deletes (`DeletedBlocksAreNotRead`).
* `finalized_fork` - the finality of a block is told from its number; when the node
  leaves a branch and finalizes past the fork before the ingester has followed, a block
  of the old branch is sent as finalized and then invalidated (`FinalizedDataIsKept`).
  What does hold is in `stream`: a client of finalized data never loses a block of the branch the
  node finalizes (`FinalizedClientKeepsBranch`).

Some properties have a hypothesis that leaves a case out, on purpose:

* `NewHeadIsIngested` asks for a head that differs from the one the service knows;
* `QuietViewIsCurrent` speaks of keys the reader was told about since its watch was opened: a change
  before that is what `stale_cursor` is about;
* `OneCompactor` holds until a lease expires under its holder; what two compactors may not break
  is stated by the other properties of `compaction`;
* `FinalizedClientKeepsBranch`, and the label in `FinalizedStreamIsFinal`, hold while the finalized number does not
  move back; that a finalized client gets nothing above every number the view showed holds regardless;
* `PendingDataExtendsPosition` holds while the chain is not cut: after a cut the same number and
  generation name the pending block of the other branch, and the code does not compare
  the parent;
* `AnswerIsExact` takes the keys of an event filter as the code does, which compares the first four
  (`ComparedKeys`); the run has filters of five.

### Bounds

Ingestion: `InitialChain`, the tree and `MaxReorgDepth` bound the node; every tree of a run with
reorganizations has a fork, so a block can be replaced, adopted again and
replaced again.  `ChainSegmentSize` and `ChainSegmentUploadOffset` are small enough that one or
two segments leave the builder.  `deep` has a starting block that is not a
multiple of the segment size, the case in which the name of a segment depends
on the subtraction of the starting block.  `MaxConcurrentTasks` is 2 where the order of
tasks matters.  `MaxGeneration` bounds pending generations and `MaxNotifications` the
websocket heads in flight (0 is a service without `ws_url`).  `deep` has 182,000
distinct states, `cursors` 751,000, `pending` 200,000.

Views: one reader (readers do not interact), three publications so that a
snapshot can be superseded and deleted twice behind a reader, two events in
flight, one broken watch.

Compaction: three processes, of which two at most are deployed together, segments of two blocks and groups of one segment, up
to block 6, so that three segments and two groups are made or made again while the
other compactor is anywhere in its own; `compaction_live` has groups of two
segments.  1,062,852 distinct states, and 163,546 in `compaction_live`.

Streams: chain a0..a4 with a5 or b5 on top, segments of one block and groups of
two, channels of one message, so that a sender blocks after every message;
185,585 distinct states.  Every setting has its own moves, because all of them together
are out of reach: the compacted part does not move while the chain is cut, and
`ClientHoldsOneBranch` meets invalidations in the setting with reorganizations.  Queries: two segments of two blocks make the group,
which starts at block 4 so that numbers and positions differ; 126,240 states.  The node answers the traces
of all transactions of a block or of none, so a transaction without its trace
beside others that have one is not among the inputs.

### Fairness

What the tokio runtime provides: futures are polled and spawned tasks finish.
`FairSpec` of `Ingestion` is weak fairness of the service's own handlers, of the head
interval and of the tasks; nothing is assumed of the node, of failures, of the
websocket or of the pending interval.  `NewHeadIsIngested` asks for a head that
differs from the one the service knows, because nothing is queued after
`initialize` until it differs.  `ViewFairness` is weak fairness of every reader's
service and of no writer.  `CompactionFairness` adds a chain that goes on, because a missed
notification is made up for by the next one only; `LastingBlockIsDelivered` states the same
condition as a hypothesis (`HeadKeepsMoving`).  `StreamFairness` is weak fairness of
requests, streams, producers and of a client that reads.

## Proofs

`tlapm <module>` checks them.  They hold for every block tree, segment size,
offset, starting block, number of tasks, processes and clients.

| Module | Theorems |
|---|---|
| `CanonicalChainProofs` | lemmas only: what grow, shrink, take and restore do to a chain, and what a publication does to a complete view |
| `IngestionProofs` | `Inductive`, `TypeCorrect`, `BuilderHead`, `CompleteChain`, `ImmutableSegments` |
| `PublicationProofs` | `StoredBlocks`, `KnownCursors`, `AcceptedCursors`, `PublicationRefinement`, `ConsecutiveQueue` |
| `ReorgProofs` | `AncestorsOnly`, `CommonBlock`, `RecoveryNeverFails`, `ServiceKeepsRunning` |
| `ChainViewProofs` | `ViewTypes`, `QuietViews` |
| `CompactionProofs` | `OneProcessCompacts`, `NothingIsLost`, `PrunedIsGone`, `PruneIsThorough`, `CursorsMoveForward` |
| `CompactedDataProofs` | `CompactionTypes`, `ReadableData` |
| `QueryProofs` | `GroupMissesNothing` |

### Ingestion: the published chain

Everything rests on `Inductive`, `Spec => []IndInv`, where `IndInv` is `TypeOK` and

* `NodeOK`: the node's chain has a block of the right number at every height;
* `ServiceOK`: a running service has a linked builder whose head is the last
  ingested block, whose first block is that of the published recent segment, and
  a recovery's candidate is on it.  Without the clause on the first block a crash
  after an upload could leave a builder that does not join the uploaded
  segments;
* `PublishedOK`: the published view is `IsView`: the recent segment starts at the
  starting block plus a multiple of the segment size; below it there is a full,
  linked, aligned segment at every multiple; and neighbours are linked.
  `PublishedChainIsComplete` alone is not inductive: it does not say that the
  uploaded segments are full or that the first block of the recent segment is
  where the next segment will be stored.

`TypeCorrect`, `BuilderHead` and `CompleteChain` are consequences.  The heart is
`TickTaskBlock`: the new block extends the builder (`GrowKeepsChain`), taking a
segment splits it in two linked parts (`TakeSplitsChain`), the part that is stored
ends where the recent one begins and its first number is aligned (`SegmentTaken`),
and storing it does not touch anything below the published recent segment
(`StoredUnderRecent`).  The last fact also makes a crash between upload and
publication harmless, and `ImmutableSegments` true.

`StoredBlocks` needs `StoredOK`: the blocks of the builder, of every segment and of the
finished tasks are in the block store; a finished task matters because its block
may be published after a reorganization, when the node no longer has it.

`ConsecutiveQueue` needs `QueueOK`: the numbers asked for by the main tasks in the
queue are exactly `last ingested + 1 .. queued`, with pending tasks anywhere
between them, and there are no tasks before the service ingests.

`PublicationRefinement` is `Spec => ImplementsPublishedChain`.  It needs `ExtendsOK`: the
builder of a running service agrees with the recent snapshot on all of it.  A
block is then a publication that extends the chain (`BlockIsPublished`: the snapshot after a segment was
taken together with the segment shows the same blocks), a recovery is one that
cuts it (`CutIsPublished`), the upload before a failed publication is not seen
(`UploadDoesNotShow`), and every other step stutters.

### Ingestion: reorganizations

`CommonBlock` assumes `ShallowReorgs`: reorganizations are shallower than the upload
offset, and the chain starts at genesis or at a block that reorganizations no longer
reach.  This is what the offset is for (100 blocks by default); `deep` runs
without it.  The invariant `KeptOK` says that every block the service works with was on
the node's chain at some time, and so its ancestors that lie `MaxReorgDepth` or more below the highest
head are there now; the first block of a linked chain is an ancestor of its
last, and it lies that deep because a segment is only taken once the offset is
passed.  `RecoveryNeverFails` follows: `TickRecoverFail` is never taken.
`ServiceKeepsRunning` adds that no request fails and the node does not take finality
back: then no guard or error path in the code ends a service that has
published.

### Ingestion: what clients are told

`AncestorsOnly` (`TargetsOK`): every reorg map sends a block to one of its ancestors.
The ancestors of a block are the least set that holds its parent and the
parents of its members; what is needed of them is that an ancestor of a linked
chain's last block is on the chain, by its number.

`KnownCursors` and `AcceptedCursors` assume `[]KeepsRunning`, that the service does not stop
once it has published; `restart_cursors` shows that they fail without it, and
`ServiceKeepsRunning` that it follows from `Undisturbed`.  The invariant `CursorsOK` says that
every block that was ever published is known: it is canonical, or it is in the
reorg map of the segment that covers its number, or above the head and in
`extra_reorgs`.  It relates the published snapshot and the builder, which has
grown beyond it: a block must stay known through the next take and the next
snapshot (`SnapshotKnows`, `TakeKnows`, `ShrinkKnows`).

### Chain view

`QuietViews` needs what a reader will know once it has handled the events on their way
to it (`Agrees`): the last event about a key carries the key's current value, and if
there is none, a key the reader has heard of is shown with its current value.
`QuietViewIsCurrent` alone, which only speaks of an empty inbox, is not inductive.
The hard case is a snapshot that was deleted before the reader fetched it: it
reads the pointer again and may skip ahead of its inbox, and the events it then
handles must not take it back for good.  The invariant says that as long as the
reader retries, news of a later snapshot is among the events (`FollowerOK`), and
that the snapshot etcd points to exists (`StoreOK`).

### Compaction

`CompactionProofs` shows that every step keeps `Inv`.  Its core:
whatever a process knows of a cursor, in its view, among the events on their way
to it, or read for a compare-and-swap, is at most what etcd says, and equal to it if the
revision is the same.  So the work a late compactor does, from however
old a view, ends at or below the cursors (`KvOK`, `ReadersOK`, `TasksOK`), and a pruner never passes the
grouped cursor (`StoreOK`).  `LockOK` gives `OneProcessCompacts` for as long as no lease has
expired under its holder; the other theorems do not need it.

`CompactedDataProofs` adds `DataInv`.  `ReadableSegmentsExist` speaks of what a view shows;
it is kept because of what nobody has shown yet:

* `KnowledgeOK`: a cursor, wherever it is known, is the last block of a segment (or
  group) of the stored size, counted from the starting block.  It stays so since
  a task begins where some view says that the last one ended;
* `OptionsOK`: a process past the check of the options has the stored segment and group size, so two
  compactors agree on where segments and groups end, whatever sizes other processes
  were started with;
* `DataOK`: every segment and group that ends at or below its cursor is complete;
* `WorkOK`: the work of a task follows on a cursor, or on an older one, and what it has
  uploaded when it writes the cursor is the whole segment or group.

Since by `Inv` a view is never ahead of etcd, what it shows ends at or below the
cursors and is there (`KnownIsComplete`).  `CompactionTypes` comes from `PhaseOK` and `BoundsOK`, the
clauses on phases, waiters and block numbers.

### Queries

`GroupMissesNothing` (`StoredInv`): the segments hold the indexes of exactly the blocks ingested, every block
of a group is in one of its segments, and the index of the group has a block under every key under
which the block's own index has a row.  A filter is the intersection of such
lookups, so a segment skipped by a stream holds nothing the filter asks for.

### Assumptions

The named `ASSUME`s: a tree of blocks whose numbers follow their parents
(`BlockAssumption`), a node that starts with a linked chain (`NodeAssumption`),
positive sizes and offsets, chains of the length of a group (`QueryAssumption`),
initial states of compaction that an earlier compaction can have left
(`CompactionAssumption`, on a chain within the bound of the model), and a `Null`
that is no block, number, builder, segment, pointer or view (`NullIsNoRecord` and the
like).
TLC evaluates all of them on the runs.  `ShallowReorgs`, `Undisturbed` and `KeepsRunning` are
hypotheses of the theorems that name them.

The strengthenings that are furthest from the property they are for, `KeptOK`,
`CursorsOK` and `DataInv`, were checked with TLC on settings like those of `cursors` and
`compaction` before they were proved.  Facts about all positions of a chain are proved
by the least number at which they would fail.

### Only model-checked

* Liveness (`RecoveryEnds`, `NewHeadIsIngested`, `ViewIsSent`, `SentSnapshotIsShown`, `CompactionKeepsUp`,
  `LastingBlockIsDelivered`, `PermitIsReturned`): fairness is out of the prover's reach.
* `AnswerIsExact`, `NoOperationFails`, `FramesAreSound`: they speak of what folds over filters,
  fragments and pieces compute for every input, which needs induction over data.
* `PendingPointerResolves` and the safety properties of `DataStream` (`StreamTypeOK`,
  `ClientHoldsOneBranch`, `FinalizedStreamIsFinal`, `PermitsAreConserved`, `PendingDataExtendsPosition`,
  `FinalizedClientKeepsBranch`): no proof has been written.  What a client holds depends on
  all that it was sent, so the invariant has to relate a message history to the
  chain; the runs are what is known of them.

## Not modelled

The cloud SDK wrappers (`object_store/`; a write is atomic), the file cache as such (a read-through cache, sound
for chain segments because of `ReadableSegmentsAreImmutable`; a copy of a pending object may be older than
the object, which `DataStream` has, and one of a block may outlive the pruned block), the field-by-field conversion of blocks (`starknet/src/proto.rs`),
protocol messages, logging and metrics, server assembly, the command-line,
debugging and benchmark tools, and the Quint specification.  One ingester runs at a
time: its lease is not modelled.  A snapshot the pointer names is not deleted, so the
start from the first block when it is missing (`common/src/ingestion/service.rs:885`) is never
reached.  A size is looked up in etcd and stored in one step, so two holders of an
expired lock do not race to store different sizes.  The finalized block of the
compaction model only moves forward.  `DataStream` has no heartbeat timer, no broken watch
and one connection per client at a time.

Behaviour seen in the code that no run is about:

* segments are uploaded after a number of blocks, final or not; when the node reverts
  below the upload the service fails at every restart;
* a head replaced by its sibling while the block is being fetched is ingested
  and kept until the head changes again;
* a pending `end_cursor` given back as a starting cursor skips the block after the
  head; a `Finalize` message may be ahead of the published chain;
* a single block may be pruned between the check for its segment and its
  download; the stream ends and the client comes back;
* the select of the ingestion loop may drop a head notification that is ready,
  and that of a segment stream an error of its producer;
* an option mismatch returns without unlocking; a lost `Segmented` event keeps a
  compactor busy until it restarts;
* the pending block, its traces and its state update are fetched by separate
  requests (`starknet/src/ingestion.rs:203-224`);
* `EventFilter` ignores keys after the fourth (`starknet/src/filter/event.rs:34-59`), while
  `protocol/proto/starknet/v2/filter.proto:37` speaks of all of them; `AnswerIsExact` is stated for the first four;
* the finalized block moves back when the ingester is restarted against a node that is
  behind (`common/src/ingestion/service.rs:273`); a `Finalize` message may then name a lower
  block than an earlier one;
* compaction chooses blocks by the finalized number alone, as the labels of `finalized_fork` do;
* `l1_data_gas_price` is filled from `l1_gas_price` (`starknet/src/proto.rs:26`).

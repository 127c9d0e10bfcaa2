----------------------------- MODULE Ingestion -----------------------------
(***************************************************************************)
(* The ingestion service (common/src/ingestion/service.rs) with the state  *)
(* it keeps in etcd (common/src/ingestion/state_client.rs) and in the      *)
(* object store (common/src/chain_store.rs, block_store.rs), run by the    *)
(* leader against a node whose chain moves under it.                       *)
(*                                                                         *)
(* The service is one task: a tick handler runs to its end before the next *)
(* starts, so a handler is one action.  It is cut only where the node may  *)
(* move between two of its requests (initialize, the walk of tick_recover) *)
(* and where the process may die between two of its durable writes.        *)
(* Block ingestion tasks run concurrently with the service and with each   *)
(* other.  Any Err of a handler, a cancellation, a lost lock and a crash   *)
(* all end in Stop: what is in memory is lost, what is in etcd and in the  *)
(* object store stays, and a new service initializes from it.              *)
(***************************************************************************)
EXTENDS Node, FullCanonicalChain, Sequences

CONSTANTS
    ChainSegmentUploadOffset,  \* chain_segment_upload_offset_size
    MaxConcurrentTasks,        \* max_concurrent_tasks
    StartingBlock,             \* override_starting_block
    SupportsPending,           \* BlockIngestion::supports_pending
    LaggingFinalized,          \* whether the node may report an older finalized block
    Failures,                  \* whether the service may fail or crash at any point
    MaxGeneration,             \* model bound: pending generations
    MaxNotifications           \* model bound: undelivered new heads; 0 without ws_url

ASSUME IngestionAssumption ==
    /\ ChainSegmentUploadOffset \in Nat \ {0}
    /\ MaxConcurrentTasks \in Nat \ {0}
    /\ StartingBlock \in Nat
    /\ SupportsPending \in BOOLEAN
    /\ LaggingFinalized \in BOOLEAN
    /\ Failures \in BOOLEAN
    /\ MaxGeneration \in Nat
    /\ MaxNotifications \in Nat

VARIABLES
    \* The service, lost when it stops.
    mode,               \* "down", "init" (chain read, state not yet restored), "ingest", "recover"
    head,               \* IngestState.head, RecoverState.existing_head
    finalized,          \* the finalized block number it knows
    lastIngested,       \* last_ingested
    queuedBlockNumber,  \* queued_block_number
    pendingState,       \* pending_block_state
    builder,            \* chain_builder
    taskQueue,          \* task_queue: the spawned tasks, oldest first
    candidate,          \* tick_recover's new_head_candidate
    newHeads,           \* new_heads_stream: heads sent by the node and not yet read
    \* etcd.
    startingBlock,      \* ingestion/starting_block
    etcdFinalized,      \* ingestion/finalized
    recent,             \* the snapshot ingestion/recent points to
    pending,            \* ingestion/pending; 0 when the key is absent
    \* The object store.
    segments,           \* chain segments by first block number
    blockStore,         \* the blocks whose object was written
    pendingStore,       \* the (number, generation) of the pending objects written
    legacy,             \* the single-object recent segment of older versions
    \* History.
    everPublished       \* every block that was canonical in some published snapshot

serviceVars == <<head, finalized, lastIngested, queuedBlockNumber, pendingState,
                 builder, taskQueue, candidate, newHeads>>
etcdVars    == <<startingBlock, etcdFinalized, recent, pending>>
objectVars  == <<segments, blockStore, pendingStore, legacy>>
vars        == <<nodeVars, mode, serviceVars, etcdVars, objectVars, everPublished>>

-----------------------------------------------------------------------------
(* Tasks                                                                   *)

MainTask(n) ==
    [kind |-> "main", number |-> n, generation |-> 0, status |-> "running", block |-> Null]

PendingTask(n, generation) ==
    [kind |-> "pending", number |-> n, generation |-> generation,
     status |-> "running", block |-> Null]

\* Mutant: the head itself is never asked for.
PushCountBelowHead(length, queued, target) ==
    LET room   == MaxConcurrentTasks - length
        wanted == target - queued - 1
    IN  IF room <= 0 \/ wanted <= 0 THEN 0
        ELSE IF room < wanted THEN room ELSE wanted

\* How many block numbers after queued, up to target, fit in the task queue.
PushCount(length, queued, target) ==
    LET room   == MaxConcurrentTasks - length
        wanted == target - queued
    IN  IF room <= 0 \/ wanted <= 0 THEN 0
        ELSE IF room < wanted THEN room ELSE wanted

\* Mutant: the first number pushed is the one already queued.
PushTasksFromQueued(queue, target) ==
    LET count == PushCount(Len(queue), queuedBlockNumber, target)
    IN  /\ taskQueue' = queue \o [i \in 1 .. count |-> MainTask(queuedBlockNumber + i - 1)]
        /\ queuedBlockNumber' = queuedBlockNumber + count

PushTasks(queue, target) ==
    LET count == PushCount(Len(queue), queuedBlockNumber, target)
    IN  /\ taskQueue' = queue \o [i \in 1 .. count |-> MainTask(queuedBlockNumber + i)]
        /\ queuedBlockNumber' = queuedBlockNumber + count

DefaultPendingState == [queued |-> FALSE, generation |-> 0]

-----------------------------------------------------------------------------
(* Durable writes                                                          *)

\* Mutant: the pending key is not deleted.
PublishKeepPending(segment) ==
    /\ recent' = segment
    /\ UNCHANGED pending
    /\ everPublished' = everPublished \cup Range(segment.canonical)

\* publish_recent_segment: the snapshot gets a name of its own, so nobody
\* sees it before the pointer is moved; the pointer write also deletes the
\* pending key, in one transaction.
Publish(segment) ==
    /\ recent' = segment
    /\ pending' = 0
    /\ everPublished' = everPublished \cup Range(segment.canonical)

DontPublish == UNCHANGED <<recent, pending, everPublished>>

\* Mutant: the segment is stored under the name of the segment before it.
PutSegmentUnderPrevious(segment) ==
    LET key == IF segment.previous = Null THEN segment.first ELSE Number[segment.previous.first]
    IN  [first \in DOMAIN segments \cup {key} |->
            IF first = key THEN segment ELSE segments[first]]

PutSegment(segment) ==
    [first \in DOMAIN segments \cup {segment.first} |->
        IF first = segment.first THEN segment ELSE segments[first]]

Stop ==
    /\ mode' = "down"
    /\ head' = Null
    /\ finalized' = 0
    /\ lastIngested' = Null
    /\ queuedBlockNumber' = 0
    /\ pendingState' = DefaultPendingState
    /\ builder' = Null
    /\ taskQueue' = << >>
    /\ candidate' = Null
    /\ newHeads' = << >>

-----------------------------------------------------------------------------
(* initialize                                                              *)

\* The finalized block the node reports.
FinalizedReplies == IF LaggingFinalized THEN 0 .. nodeFinalized ELSE {nodeFinalized}

InitializeChain ==
    /\ mode = "down"
    /\ mode' = "init"
    /\ head' = NodeHead
    /\ \E f \in FinalizedReplies : finalized' = f /\ etcdFinalized' = f
    /\ UNCHANGED <<nodeVars, lastIngested, queuedBlockNumber, pendingState, builder, taskQueue,
                   candidate, newHeads, startingBlock, recent, pending, objectVars,
                   everPublished>>

\* The recent snapshot, or the legacy segment republished as one; the legacy
\* object is then deleted, best effort.
RestoreSegment(segment) ==
    \/ /\ recent # Null
       /\ segment = recent
       /\ DontPublish
       /\ UNCHANGED legacy
    \/ /\ recent = Null
       /\ legacy # Null
       /\ segment = legacy
       /\ Publish(legacy)
       /\ legacy' \in {legacy, Null}

IngestFrom(block) ==
    /\ mode' = "ingest"
    /\ lastIngested' = block
    /\ queuedBlockNumber' = Number[block]
    /\ pendingState' = DefaultPendingState
    /\ candidate' = Null
    /\ newHeads' = << >>

\* The node's block at the height of the given block is that block.
NodeAgrees(block) == NodeHas(Number[block]) /\ nodeChain[Number[block]] = block

InitializeResume ==
    /\ mode = "init"
    /\ \E segment \in {recent, legacy} \ {Null} :
        /\ RestoreSegment(segment)
        /\ builder' = RestoreFromSegment(segment)
        /\ NodeAgrees(LastBlock(segment))
        /\ IngestFrom(LastBlock(segment))
    /\ UNCHANGED <<nodeVars, head, finalized, taskQueue, startingBlock, etcdFinalized,
                   segments, blockStore, pendingStore>>

InitializeRecover ==
    /\ mode = "init"
    /\ \E segment \in {recent, legacy} \ {Null} :
        /\ RestoreSegment(segment)
        /\ builder' = RestoreFromSegment(segment)
        /\ ~NodeAgrees(LastBlock(segment))
        /\ lastIngested' = LastBlock(segment)
        /\ candidate' = LastBlock(segment)
    /\ mode' = "recover"
    /\ UNCHANGED <<nodeVars, head, finalized, queuedBlockNumber, pendingState, taskQueue,
                   newHeads, startingBlock, etcdFinalized, segments, blockStore, pendingStore>>

\* Nothing stored yet: ingest the starting block and publish it.
InitializeStart ==
    /\ mode = "init"
    /\ recent = Null /\ legacy = Null
    /\ NodeHas(StartingBlock)
    /\ LET block == nodeChain[StartingBlock] IN
        /\ startingBlock' = StartingBlock
        /\ blockStore' = blockStore \cup {block}
        /\ builder' = Grow(Null, block)
        /\ Publish(CurrentSegment(Grow(Null, block)))
        /\ IngestFrom(block)
    /\ UNCHANGED <<nodeVars, head, finalized, taskQueue, etcdFinalized, segments,
                   pendingStore, legacy>>

\* The same, ended by an error or a crash after the starting block number,
\* or also the block object, was written.
InitializeStartFail ==
    /\ Failures \/ ~NodeHas(StartingBlock)
    /\ mode = "init"
    /\ recent = Null /\ legacy = Null
    /\ startingBlock' = StartingBlock
    /\ blockStore' \in {blockStore} \cup
         {blockStore \cup {nodeChain[n]} : n \in {StartingBlock} \cap (0 .. nodeHeight)}
    /\ Stop
    /\ UNCHANGED <<nodeVars, etcdFinalized, recent, pending, segments, pendingStore, legacy,
                   everPublished>>

-----------------------------------------------------------------------------
(* tick_ingest                                                             *)

\* Leave Ingest for Recover.  The head stays what it was (existing_head) and
\* the walk starts from the last ingested block.
EnterRecover ==
    /\ mode' = "recover"
    /\ candidate' = lastIngested
    /\ newHeads' = << >>
    /\ UNCHANGED <<head, finalized, lastIngested, queuedBlockNumber, pendingState, builder>>

\* A new head at or below what was ingested that is lower than the head, or
\* another block at its height.
HeadRevertsIngested(newHead) ==
    /\ Number[lastIngested] >= Number[newHead]
    /\ \/ Number[head] > Number[newHead]
       \/ Number[head] = Number[newHead] /\ head # newHead

\* tick_refresh_head, with the stream of new heads that is left.
TickRefreshHead(newHead, heads) ==
    \/ /\ newHead = head
       /\ newHeads' = heads
       /\ UNCHANGED <<mode, head, finalized, lastIngested, queuedBlockNumber, pendingState,
                      builder, taskQueue, candidate>>
    \/ /\ newHead # head
       /\ HeadRevertsIngested(newHead)
       /\ EnterRecover
       /\ UNCHANGED taskQueue
    \/ /\ newHead # head
       /\ ~HeadRevertsIngested(newHead)
       /\ head' = newHead
       /\ PushTasks(taskQueue, Number[newHead])
       /\ newHeads' = heads
       /\ UNCHANGED <<mode, finalized, lastIngested, pendingState, builder, candidate>>

\* The head refresh interval: ask the node for its head.
TickHeadInterval ==
    /\ mode = "ingest"
    /\ TickRefreshHead(NodeHead, newHeads)
    /\ UNCHANGED <<nodeVars, etcdVars, objectVars, everPublished>>

\* A head from the websocket; the node may have moved since it was sent.
TickNewHead ==
    /\ mode = "ingest"
    /\ newHeads # << >>
    /\ TickRefreshHead(Head(newHeads), Tail(newHeads))
    /\ UNCHANGED <<nodeVars, etcdVars, objectVars, everPublished>>

\* The websocket failed or ended: subscribe again; undelivered heads are lost.
TickNewHeadsReconnect ==
    /\ mode = "ingest"
    /\ newHeads # << >>
    /\ newHeads' = << >>
    /\ UNCHANGED <<nodeVars, mode, head, finalized, lastIngested, queuedBlockNumber,
                   pendingState, builder, taskQueue, candidate, etcdVars, objectVars,
                   everPublished>>

TickRefreshFinalized ==
    /\ mode = "ingest"
    /\ \E f \in FinalizedReplies :
        /\ f > finalized
        /\ finalized' = f
        /\ etcdFinalized' = f
    /\ UNCHANGED <<nodeVars, mode, head, lastIngested, queuedBlockNumber, pendingState, builder,
                   taskQueue, candidate, newHeads, startingBlock, recent, pending, objectVars,
                   everPublished>>

\* The node reports an older finalized block: the handler fails.
TickRefreshFinalizedFail ==
    /\ mode = "ingest"
    /\ \E f \in FinalizedReplies : f < finalized
    /\ Stop
    /\ UNCHANGED <<nodeVars, etcdVars, objectVars, everPublished>>

\* The pending refresh interval; its select guard asks for head = lastIngested.
TickRefreshPending ==
    /\ mode = "ingest"
    /\ SupportsPending
    /\ head = lastIngested
    /\ ~pendingState.queued
    /\ pendingState.generation < MaxGeneration
    /\ taskQueue' = Append(taskQueue, PendingTask(Number[lastIngested] + 1,
                                                  pendingState.generation + 1))
    /\ pendingState' = [pendingState EXCEPT !.queued = TRUE]
    /\ UNCHANGED <<nodeVars, mode, head, finalized, lastIngested, queuedBlockNumber, builder,
                   candidate, newHeads, etcdVars, objectVars, everPublished>>

-----------------------------------------------------------------------------
(* The spawned tasks, each a request to the node and a write to the store. *)

\* Mutant: the block object is not written.
DontStoreBlock(block) == UNCHANGED blockStore

StoreBlock(block) == blockStore' = blockStore \cup {block}

\* ingest_block_by_number: fetch the block the node now has at that number.
RunMainTask(i) ==
    /\ taskQueue[i].kind = "main"
    /\ taskQueue[i].status = "running"
    /\ \/ /\ NodeHas(taskQueue[i].number)
          /\ LET block == nodeChain[taskQueue[i].number] IN
              /\ taskQueue' = [taskQueue EXCEPT ![i].status = "done", ![i].block = block]
              /\ StoreBlock(block)
       \/ /\ ~NodeHas(taskQueue[i].number)
          /\ taskQueue' = [taskQueue EXCEPT ![i].status = "notFound"]
          /\ UNCHANGED blockStore
    /\ UNCHANGED <<nodeVars, mode, head, finalized, lastIngested, queuedBlockNumber,
                   pendingState, builder, candidate, newHeads, etcdVars, segments,
                   pendingStore, legacy, everPublished>>

\* ingest_pending_block: the node has no pending block, or one of another
\* height, or the expected one, which is stored under its generation.
RunPendingTask(i) ==
    /\ taskQueue[i].kind = "pending"
    /\ taskQueue[i].status = "running"
    /\ \/ /\ taskQueue' = [taskQueue EXCEPT ![i].status = "none"]
          /\ UNCHANGED pendingStore
       \/ /\ nodeHeight + 1 = taskQueue[i].number
          /\ taskQueue' = [taskQueue EXCEPT ![i].status = "done"]
          /\ pendingStore' = pendingStore \cup {<<taskQueue[i].number, taskQueue[i].generation>>}
    /\ UNCHANGED <<nodeVars, mode, head, finalized, lastIngested, queuedBlockNumber,
                   pendingState, builder, candidate, newHeads, etcdVars, segments, blockStore,
                   legacy, everPublished>>

-----------------------------------------------------------------------------
(* tick_with_task_result: the oldest task has finished.                    *)

TaskFinished(kind, status) ==
    /\ mode = "ingest"
    /\ taskQueue # << >>
    /\ Head(taskQueue).kind = kind
    /\ Head(taskQueue).status = status

\* Mutant: the segment is taken as soon as it is complete.
SegmentIsDueNoOffset(chain) == SegmentSize(chain) > ChainSegmentSize

SegmentIsDue(chain) ==
    SegmentSize(chain) >= ChainSegmentSize + ChainSegmentUploadOffset

\* The recent snapshot is published for a non-finalized block and whenever a
\* segment was uploaded.
RecentIsDue(block) ==
    Number[block] >= finalized \/ SegmentIsDue(Grow(builder, block))

TickTaskBlock ==
    /\ TaskFinished("main", "done")
    /\ LET block == Head(taskQueue).block
           grown == Grow(builder, block)
           next  == IF SegmentIsDue(grown) THEN AfterTake(grown, ChainSegmentSize) ELSE grown
       IN
        /\ CanGrow(builder, block)
        /\ SegmentIsDue(grown) => CanTakeSegment(grown, ChainSegmentSize)
        /\ builder' = next
        /\ segments' = IF SegmentIsDue(grown)
                       THEN PutSegment(TakenSegment(grown, ChainSegmentSize))
                       ELSE segments
        /\ IF RecentIsDue(block) THEN Publish(CurrentSegment(next)) ELSE DontPublish
        /\ lastIngested' = block
    /\ PushTasks(Tail(taskQueue), Number[head])
    /\ pendingState' = DefaultPendingState
    /\ UNCHANGED <<nodeVars, mode, head, finalized, candidate, newHeads, startingBlock,
                   etcdFinalized, blockStore, pendingStore, legacy>>

\* The same, ended by an error or a crash after the segment was uploaded and
\* before the recent snapshot was published.
TickTaskBlockFail ==
    /\ Failures
    /\ TaskFinished("main", "done")
    /\ LET grown == Grow(builder, Head(taskQueue).block) IN
        /\ CanGrow(builder, Head(taskQueue).block)
        /\ SegmentIsDue(grown)
        /\ segments' = PutSegment(TakenSegment(grown, ChainSegmentSize))
    /\ Stop
    /\ UNCHANGED <<nodeVars, etcdVars, blockStore, pendingStore, legacy, everPublished>>

\* The block does not extend the chain, or is gone from the node.
TickTaskReorg ==
    /\ \/ TaskFinished("main", "notFound")
       \/ /\ TaskFinished("main", "done")
          /\ ~CanGrow(builder, Head(taskQueue).block)
    /\ EnterRecover
    /\ taskQueue' = Tail(taskQueue)
    /\ UNCHANGED <<nodeVars, etcdVars, objectVars, everPublished>>

TickTaskPendingNone ==
    /\ TaskFinished("pending", "none")
    /\ pendingState' = [pendingState EXCEPT !.queued = FALSE]
    /\ taskQueue' = Tail(taskQueue)
    /\ UNCHANGED <<nodeVars, mode, head, finalized, lastIngested, queuedBlockNumber, builder,
                   candidate, newHeads, etcdVars, objectVars, everPublished>>

TickTaskPending ==
    /\ TaskFinished("pending", "done")
    /\ pending' = Head(taskQueue).generation
    /\ pendingState' = [queued |-> FALSE, generation |-> Head(taskQueue).generation]
    /\ taskQueue' = Tail(taskQueue)
    /\ UNCHANGED <<nodeVars, mode, head, finalized, lastIngested, queuedBlockNumber, builder,
                   candidate, newHeads, startingBlock, etcdFinalized, recent, objectVars,
                   everPublished>>

-----------------------------------------------------------------------------
(* tick_recover: walk down the builder's chain, one request per block, to  *)
(* the first block the node also has.                                      *)

\* Mutant: the walk does not move.
SameCandidate == candidate

CandidateBelow == builder.canonical[Number[candidate] - 1]

TickRecoverStep ==
    /\ mode = "recover"
    /\ ~NodeAgrees(candidate)
    /\ Number[candidate] > builder.first
    /\ candidate' = CandidateBelow
    /\ UNCHANGED <<nodeVars, mode, head, finalized, lastIngested, queuedBlockNumber,
                   pendingState, builder, taskQueue, newHeads, etcdVars, objectVars,
                   everPublished>>

\* The walk leaves the recent segment, or reaches block 0.
TickRecoverFail ==
    /\ mode = "recover"
    /\ ~NodeAgrees(candidate)
    /\ Number[candidate] <= builder.first
    /\ Stop
    /\ UNCHANGED <<nodeVars, etcdVars, objectVars, everPublished>>

\* Tasks dropped from the queue are detached, not aborted.  They are left out
\* here: all they can still do is add to blockStore and pendingStore, which no
\* guard reads, or write an object again.
TickRecoverDone ==
    /\ mode = "recover"
    /\ NodeAgrees(candidate)
    /\ taskQueue' = << >>
    /\ builder' = Shrink(builder, candidate)
    /\ Publish(CurrentSegment(Shrink(builder, candidate)))
    /\ IngestFrom(candidate)
    /\ UNCHANGED <<nodeVars, head, finalized, startingBlock, etcdFinalized, objectVars>>

\* The service fails, is cancelled or crashes between two handlers, or in a
\* handler before its first durable write.
Crash ==
    /\ Failures
    /\ mode # "down"
    /\ Stop
    /\ UNCHANGED <<nodeVars, etcdVars, objectVars, everPublished>>

-----------------------------------------------------------------------------

\* A subscriber is told of every block that becomes the head.
NotifyNewHead(block) ==
    newHeads' = IF mode = "ingest" /\ Len(newHeads) < MaxNotifications
                THEN Append(newHeads, block)
                ELSE newHeads

NodeStep ==
    /\ \/ \E block \in Block : NodeGrow(block) /\ NotifyNewHead(block)
       \/ \E n \in 0 .. nodeHeight : NodeRevert(n) /\ UNCHANGED newHeads
       \/ \E n \in 0 .. nodeHeight : NodeFinalize(n) /\ UNCHANGED newHeads
    /\ UNCHANGED <<mode, head, finalized, lastIngested, queuedBlockNumber, pendingState,
                   builder, taskQueue, candidate, etcdVars, objectVars, everPublished>>

\* A legacy deployment has ingested the initial chain.
LegacySegment ==
    [previous |-> Null, first |-> 0, last |-> InitialHeight, canonical |-> InitialChain,
     reorgs |-> NoReorgs, extraReorgs |-> NoReorgs]

Init ==
    /\ NodeInit
    /\ mode = "down"
    /\ head = Null
    /\ finalized = 0
    /\ lastIngested = Null
    /\ queuedBlockNumber = 0
    /\ pendingState = DefaultPendingState
    /\ builder = Null
    /\ taskQueue = << >>
    /\ candidate = Null
    /\ newHeads = << >>
    /\ etcdFinalized = 0
    /\ recent = Null
    /\ pending = 0
    /\ segments = [n \in {} |-> Null]
    /\ pendingStore = {}
    /\ everPublished = {}
    /\ \/ legacy = Null /\ startingBlock = Null /\ blockStore = {}
       \/ legacy = LegacySegment /\ startingBlock = 0 /\ blockStore = Range(InitialChain)

ServiceStep ==
    \/ InitializeChain
    \/ InitializeResume
    \/ InitializeRecover
    \/ InitializeStart
    \/ InitializeStartFail
    \/ TickHeadInterval
    \/ TickNewHead
    \/ TickNewHeadsReconnect
    \/ TickRefreshFinalized
    \/ TickRefreshFinalizedFail
    \/ TickRefreshPending
    \/ TickTaskBlock
    \/ TickTaskBlockFail
    \/ TickTaskReorg
    \/ TickTaskPendingNone
    \/ TickTaskPending
    \/ TickRecoverStep
    \/ TickRecoverFail
    \/ TickRecoverDone

TaskStep == \E i \in 1 .. Len(taskQueue) : RunMainTask(i) \/ RunPendingTask(i)

Next == NodeStep \/ ServiceStep \/ TaskStep \/ Crash

Spec == Init /\ [][Next]_vars

\* The runtime polls the service's futures and the spawned tasks; the head
\* refresh interval keeps firing.  The node and failures owe nothing.
FairSpec ==
    /\ Spec
    /\ WF_vars(InitializeChain)
    /\ WF_vars(InitializeResume \/ InitializeRecover \/ InitializeStart)
    /\ WF_vars(TickHeadInterval)
    /\ WF_vars(TickTaskBlock \/ TickTaskReorg \/ TickTaskPendingNone \/ TickTaskPending)
    /\ WF_vars(TickRecoverStep \/ TickRecoverFail \/ TickRecoverDone)
    /\ WF_vars(TaskStep)

-----------------------------------------------------------------------------
(* Properties                                                              *)

\* A main task that is done holds the block it fetched.
Task ==
    {task \in [kind : {"main", "pending"}, number : Nat, generation : Nat,
               status : {"running", "done", "notFound", "none"}, block : Block \cup {Null}] :
        task.kind = "main" /\ task.status = "done" => task.block \in Block}

ServiceTypeOK ==
    /\ mode \in {"down", "init", "ingest", "recover"}
    /\ head \in Block \cup {Null}
    /\ finalized \in Nat
    /\ lastIngested \in Block \cup {Null}
    /\ queuedBlockNumber \in Nat
    /\ pendingState \in [queued : BOOLEAN, generation : Nat]
    /\ builder = Null \/ IsBuilder(builder)
    /\ taskQueue \in Seq(Task)
    /\ candidate \in Block \cup {Null}
    /\ newHeads \in Seq(Block)

StoreTypeOK ==
    /\ startingBlock \in Nat \cup {Null}
    /\ etcdFinalized \in Nat
    /\ recent = Null \/ IsSegment(recent)
    /\ pending \in Nat
    /\ DOMAIN segments \subseteq Nat
    /\ \A n \in DOMAIN segments : IsSegment(segments[n])
    /\ blockStore \subseteq Block
    /\ pendingStore \subseteq Nat \X Nat
    /\ legacy = Null \/ IsSegment(legacy)
    /\ everPublished \subseteq Block

\* Type invariant: every variable of the service, of etcd and of the object
\* store has the shape the code gives it.
TypeOK == ServiceTypeOK /\ StoreTypeOK

Running == mode \in {"ingest", "recover"}

\* What a reader that follows the pointer sees.
View == [starting |-> startingBlock, recent |-> recent, store |-> segments]

PublishedRange == startingBlock .. recent.last

\* The last ingested block is the head of the builder, and the block
\* tick_recover has walked down to is on the builder's chain: the check
\* "This should never happen but we check just in case" of tick_recover and
\* the error returns of shrink are never taken.
LastIngestedIsBuilderHead ==
    Running =>
        /\ builder # Null
        /\ lastIngested = LastBlock(builder)
        /\ mode = "recover" => CanShrink(builder, candidate)

MainTasks == {i \in DOMAIN taskQueue : taskQueue[i].kind = "main"}

\* The tasks in the queue ask, in this order and once each, for the numbers
\* from the block after the last ingested one up to queued_block_number: no
\* block is skipped or asked for twice, whatever heads were seen in between.
QueueIsConsecutive ==
    mode = "ingest" =>
        /\ Number[lastIngested] <= queuedBlockNumber
        /\ {taskQueue[i].number : i \in MainTasks} = Number[lastIngested] + 1 .. queuedBlockNumber
        /\ \A i, j \in MainTasks : i < j => taskQueue[i].number < taskQueue[j].number

\* At every moment, also between the writes of a handler and after a crash,
\* a reader finds every block from the starting block to the published head,
\* in the segment where it looks for it, each the parent of the next.
PublishedChainIsComplete ==
    recent # Null =>
        \A n \in PublishedRange :
            /\ CanonicalBlock(View, n) # Null
            /\ n > startingBlock =>
                    Parent[CanonicalBlock(View, n)] = CanonicalBlock(View, n - 1)

\* The object of every published block was written before the block was
\* published.
PublishedBlocksAreStored ==
    recent # Null =>
        \A n \in PublishedRange : CanonicalBlock(View, n) \in blockStore

\* The first block of the builder stays on the node's chain as long as
\* reorganizations are shallower than the upload offset, so that tick_recover
\* always finds a common block in the recent segment.
CommonBlockIsKept ==
    Running => NodeAgrees(builder.canonical[builder.first])

\* A client that is told to roll back is sent to an ancestor of its block:
\* "the most recent common block between the old and new chain" is at least
\* a block of the old chain, however often the block was reorged and adopted
\* again.
ReorgTargetsAreAncestors ==
    /\ recent # Null => AncestorTargets(recent.reorgs) /\ AncestorTargets(recent.extraReorgs)
    /\ \A n \in DOMAIN segments : AncestorTargets(segments[n].reorgs)

\* A client at any block that was ever published as canonical can go on: it
\* is given the next block, told it is at the head, or told to roll back.
EveryPublishedCursorIsKnown ==
    recent # Null =>
        \A b \in everPublished : GetNextCursor(View, CursorOf(b)).kind # "error"

\* When such a client comes back with its cursor, the server accepts the
\* cursor if its number is in range, also if the block was reorged meanwhile.
PublishedCursorIsAccepted ==
    recent # Null =>
        \A b \in everPublished :
            GetCanonical(View, Number[b]).kind = "canonical" =>
                ValidateCursor(View, CursorOf(b)) = Reply("valid", b)

\* Uploaded segments below the recent one are never rewritten: readers keep
\* them in their file cache for ever.
ReadableSegmentsAreImmutable ==
    [][\A n \in DOMAIN segments :
            recent # Null /\ n < recent.first =>
                n \in DOMAIN segments' /\ segments'[n] = segments[n]]_vars

\* The published chain as one function, and the lowest block a cut may keep.
PublishedBlocks ==
    IF recent = Null THEN [n \in {} |-> Null]
    ELSE [n \in PublishedRange |-> CanonicalBlock(View, n)]

ArchivedBelow == IF recent = Null THEN 0 ELSE recent.first

Published == INSTANCE PublishedChain WITH chain <- PublishedBlocks, archived <- ArchivedBelow

\* Ingestion implements PublishedChain: one publication extends the published
\* chain or cuts it back, never below the uploaded segments, and never
\* replaces a block by another one at the same height.
ImplementsPublishedChain == Published!Spec

\* The pending generation in etcd names an object that exists for the block
\* after the published head, where consumers look for it.
PendingPointerResolves ==
    pending # 0 => <<recent.last + 1, pending>> \in pendingStore

\* A walk for a common block ends, whatever the node does meanwhile.
RecoveryEnds == mode = "recover" ~> mode # "recover"

\* While the node only grows and no pending block is asked for, a head that
\* differs from the one the service knows is eventually ingested, unless the
\* service restarts or goes to recovery.
NewHeadIsIngested ==
    [](\A i \in DOMAIN taskQueue : taskQueue[i].kind = "main")
        => (mode = "ingest" /\ head # NodeHead ~> lastIngested = NodeHead \/ mode # "ingest")

====

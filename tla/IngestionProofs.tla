--------------------------- MODULE IngestionProofs ---------------------------
(***************************************************************************)
(* The ingestion service keeps its types, its builder in step with the     *)
(* last ingested block, and the published chain complete, for every block  *)
(* tree, every configuration and any number of reorganizations, failures   *)
(* and restarts.                                                           *)
(***************************************************************************)
EXTENDS Ingestion, CanonicalChainProofs

-----------------------------------------------------------------------------
(* The inductive invariant                                                 *)

\* The node's chain has one block of the right number at every height.
NodeOK ==
    /\ nodeHeight \in Nat
    /\ nodeFinalized \in Nat
    /\ tallest \in Nat
    /\ nodeChain \in [0 .. nodeHeight -> Block]
    /\ \A n \in 0 .. nodeHeight : Number[nodeChain[n]] = n

\* A running service has a builder whose head is the last ingested block and
\* whose first block is the first block of the recent snapshot; a service
\* that looks for a common block is on the builder's chain.
ServiceOK ==
    /\ mode # "down" => head \in Block
    /\ Running =>
        /\ IsBuilder(builder)
        /\ IsLinked(builder)
        /\ lastIngested = LastBlock(builder)
        /\ recent # Null
        /\ builder.first = recent.first
        /\ builder.canonical[builder.first] = recent.canonical[recent.first]
    /\ mode = "recover" => candidate \in Block /\ CanShrink(builder, candidate)

\* What is published is a complete view, and a legacy segment starts at the
\* starting block 0 that was stored with it.
PublishedOK ==
    /\ recent # Null => IsView(View)
    /\ legacy # Null => IsLinked(legacy) /\ legacy.first = 0 /\ startingBlock = 0

IndInv == TypeOK /\ NodeOK /\ ServiceOK /\ PublishedOK

-----------------------------------------------------------------------------
(* Sequences                                                               *)

\* The first element and the rest of a sequence that is not empty.
LEMMA HeadAndTail ==
    ASSUME NEW S, NEW s \in Seq(S), s # << >>
    PROVE  /\ Head(s) \in S /\ Head(s) = s[1] /\ Len(s) \in Nat \ {0}
           /\ Tail(s) \in Seq(S) /\ Len(Tail(s)) = Len(s) - 1
           /\ \A i \in 1 .. Len(s) - 1 : Tail(s)[i] = s[i + 1]
OBVIOUS

\* What two sequences give when one follows the other.
LEMMA Concatenation ==
    ASSUME NEW S, NEW s \in Seq(S), NEW t \in Seq(S)
    PROVE  /\ Len(s \o t) = Len(s) + Len(t)
           /\ \A i \in 1 .. Len(s) : (s \o t)[i] = s[i]
           /\ \A i \in Len(s) + 1 .. Len(s) + Len(t) : (s \o t)[i] = t[i - Len(s)]
OBVIOUS

-----------------------------------------------------------------------------
(* The task queue                                                          *)

\* The tasks pushed by push_ingest_block_by_number and
\* push_ingest_pending_block are tasks.
LEMMA TasksAreTasks ==
    /\ \A n \in Nat : MainTask(n) \in Task
    /\ \A n, generation \in Nat : PendingTask(n, generation) \in Task
BY Zenon DEF MainTask, PendingTask, Task

\* The number of tasks pushed is a natural number.
LEMMA PushCountIsNat ==
    ASSUME NEW length \in Nat, NEW queued \in Nat, NEW target \in Nat
    PROVE  PushCount(length, queued, target) \in Nat
BY IngestionAssumption DEF PushCount

\* Pushing tasks keeps the type of the queue and of queued_block_number.
LEMMA PushTasksType ==
    ASSUME NEW queue \in Seq(Task), NEW target \in Nat, queuedBlockNumber \in Nat,
           PushTasks(queue, target)
    PROVE  taskQueue' \in Seq(Task) /\ queuedBlockNumber' \in Nat
<1> DEFINE count == PushCount(Len(queue), queuedBlockNumber, target)
           pushed == [i \in 1 .. count |-> MainTask(queuedBlockNumber + i)]
<1>0. Len(queue) \in Nat
  OBVIOUS
<1>1. count \in Nat
  BY <1>0, PushCountIsNat, Zenon
<1>2. pushed \in Seq(Task)
  <2>1. \A i \in 1 .. count : MainTask(queuedBlockNumber + i) \in Task
    BY <1>1, TasksAreTasks
  <2> QED BY <1>1, <2>1
<1>3. taskQueue' = queue \o pushed /\ queuedBlockNumber' = queuedBlockNumber + count
  BY Zenon DEF PushTasks
<1> HIDE DEF count, pushed
<1> QED BY <1>1, <1>2, <1>3

\* A task that ends stays a task.
LEMMA EndedTask ==
    ASSUME NEW task \in Task, NEW status \in {"running", "done", "notFound", "none"},
           status # "done" \/ task.kind # "main"
    PROVE  [task EXCEPT !.status = status] \in Task
BY Zenon DEF Task

\* A task that has fetched its block is a task.
LEMMA FetchedTask ==
    ASSUME NEW task \in Task, NEW block \in Block
    PROVE  [task EXCEPT !.status = "done", !.block = block] \in Task
BY Zenon DEF Task

\* Replacing one task by a task keeps the type of the queue.
LEMMA QueueUpdate ==
    ASSUME NEW queue \in Seq(Task), NEW i \in 1 .. Len(queue), NEW task \in Task
    PROVE  [queue EXCEPT ![i] = task] \in Seq(Task)
OBVIOUS

-----------------------------------------------------------------------------
(* Handlers that end, and handlers that only change the service.           *)

\* A stopped service satisfies what is required of the service.
LEMMA StopIsOK ==
    ASSUME Stop
    PROVE  ServiceTypeOK' /\ ServiceOK'
<1>1. ServiceTypeOK'
  BY DEF Stop, ServiceTypeOK, DefaultPendingState
<1>2. ServiceOK'
  BY Zenon DEF Stop, ServiceOK, Running
<1> QED BY <1>1, <1>2, Zenon

\* Nothing a reader sees has changed.
LEMMA StoresUnchanged ==
    ASSUME StoreTypeOK /\ PublishedOK /\ UNCHANGED <<etcdVars, objectVars, everPublished>>
    PROVE  /\ StoreTypeOK' /\ PublishedOK'
           /\ recent' = recent /\ startingBlock' = startingBlock /\ segments' = segments
<1>1. /\ recent' = recent /\ startingBlock' = startingBlock /\ segments' = segments
      /\ legacy' = legacy /\ etcdFinalized' = etcdFinalized /\ pending' = pending
      /\ blockStore' = blockStore /\ pendingStore' = pendingStore
      /\ everPublished' = everPublished
  BY Zenon DEF etcdVars, objectVars
<1>2. StoreTypeOK'
  BY <1>1, Zenon DEF StoreTypeOK
<1>3. PublishedOK'
  BY <1>1, Zenon DEF PublishedOK, View
<1> QED BY <1>1, <1>2, <1>3, Zenon

\* The conditions on the node depend on the node only.
LEMMA NodeUnchanged ==
    ASSUME NodeOK /\ UNCHANGED nodeVars
    PROVE  NodeOK'
BY Zenon DEF NodeOK, nodeVars

\* Entering Ingest at a block gives the service the right types.
LEMMA IngestFromType ==
    ASSUME NEW block \in Block, IngestFrom(block), head' \in Block, finalized' \in Nat,
           taskQueue' \in Seq(Task), IsBuilder(builder')
    PROVE  ServiceTypeOK'
<1>1. /\ mode' = "ingest" /\ lastIngested' = block /\ queuedBlockNumber' = Number[block]
      /\ pendingState' = DefaultPendingState /\ candidate' = Null /\ newHeads' = << >>
  BY Zenon DEF IngestFrom
<1>2. queuedBlockNumber' \in Nat
  BY <1>1, BlockAssumption, Zenon
<1>3. newHeads' \in Seq(Block)
  BY <1>1
<1>4. pendingState' \in [queued : BOOLEAN, generation : Nat]
  BY <1>1, Zenon DEF DefaultPendingState
<1> QED BY <1>1, <1>2, <1>3, <1>4, Zenon DEF ServiceTypeOK

\* The walk for a common block starts on the builder's chain.
LEMMA EnterRecoverIsOK ==
    ASSUME ServiceTypeOK, ServiceOK, mode = "ingest", EnterRecover, recent' = recent,
           taskQueue' \in Seq(Task)
    PROVE  ServiceTypeOK' /\ ServiceOK'
<1>1. /\ mode' = "recover" /\ candidate' = lastIngested /\ newHeads' = << >>
      /\ head' = head /\ finalized' = finalized /\ lastIngested' = lastIngested
      /\ queuedBlockNumber' = queuedBlockNumber /\ pendingState' = pendingState
      /\ builder' = builder
  BY Zenon DEF EnterRecover
<1>2. ServiceTypeOK'
  BY <1>1 DEF ServiceTypeOK
<1>3. IsBuilder(builder) /\ lastIngested = LastBlock(builder)
  BY Zenon DEF ServiceOK, Running
<1>4. lastIngested \in Block /\ CanShrink(builder, lastIngested)
  BY <1>3, ChainFields, ChainsAreNotNull DEF CanShrink, LastBlock
<1>5. ServiceOK'
  BY <1>1, <1>4, Zenon DEF ServiceOK, Running
<1> QED BY <1>2, <1>5, Zenon

\* tick_refresh_head keeps the invariant of the service.
LEMMA TickRefreshHeadIsOK ==
    ASSUME ServiceTypeOK, ServiceOK, mode = "ingest", NEW newHead \in Block,
           NEW heads \in Seq(Block), TickRefreshHead(newHead, heads), recent' = recent
    PROVE  ServiceTypeOK' /\ ServiceOK'
<1>1. CASE /\ newHead = head /\ newHeads' = heads
           /\ UNCHANGED <<mode, head, finalized, lastIngested, queuedBlockNumber, pendingState,
                          builder, taskQueue, candidate>>
  <2>1. ServiceTypeOK'
    BY <1>1, Zenon DEF ServiceTypeOK
  <2>2. ServiceOK'
    BY <1>1, Zenon DEF ServiceOK, Running
  <2> QED BY <2>1, <2>2, Zenon
<1>2. CASE EnterRecover /\ UNCHANGED taskQueue
  <2>1. taskQueue' \in Seq(Task)
    BY <1>2, Zenon DEF ServiceTypeOK
  <2> QED BY <1>2, <2>1, EnterRecoverIsOK, Zenon
<1>3. CASE /\ head' = newHead
           /\ PushTasks(taskQueue, Number[newHead])
           /\ newHeads' = heads
           /\ UNCHANGED <<mode, finalized, lastIngested, pendingState, builder, candidate>>
  <2>1. Number[newHead] \in Nat /\ taskQueue \in Seq(Task) /\ queuedBlockNumber \in Nat
    BY BlockAssumption, Zenon DEF ServiceTypeOK
  <2>2. taskQueue' \in Seq(Task) /\ queuedBlockNumber' \in Nat
    BY <1>3, <2>1, PushTasksType, Zenon
  <2>3. ServiceTypeOK'
    BY <1>3, <2>2, Zenon DEF ServiceTypeOK
  <2>4. ServiceOK'
    BY <1>3, Zenon DEF ServiceOK, Running
  <2> QED BY <2>3, <2>4, Zenon
<1> QED BY <1>1, <1>2, <1>3, Zenon DEF TickRefreshHead

-----------------------------------------------------------------------------
(* The node and the spawned tasks                                          *)

\* A step of the node keeps the inductive invariant.
LEMMA NodeStepIsOK ==
    ASSUME IndInv /\ NodeStep
    PROVE  IndInv'
<1>1. /\ UNCHANGED <<mode, head, finalized, lastIngested, queuedBlockNumber, pendingState,
                     builder, taskQueue, candidate>>
      /\ UNCHANGED <<etcdVars, objectVars, everPublished>>
  BY Zenon DEF NodeStep
<1>2. StoreTypeOK' /\ PublishedOK' /\ recent' = recent
  BY <1>1, StoresUnchanged, Zenon DEF IndInv, TypeOK
<1>3. NodeOK' /\ newHeads' \in Seq(Block)
  <2>1. newHeads \in Seq(Block)
    BY Zenon DEF IndInv, TypeOK, ServiceTypeOK
  <2>2. ASSUME NEW block \in Block, NodeGrow(block), NotifyNewHead(block)
        PROVE  NodeOK' /\ newHeads' \in Seq(Block)
    <3>1. newHeads' \in Seq(Block)
      BY <2>1, <2>2 DEF NotifyNewHead
    <3>2. NodeHead \in Block /\ Number[NodeHead] = nodeHeight /\ nodeHeight \in Nat
      BY DEF IndInv, NodeOK, NodeHead
    <3>3. Number[block] = nodeHeight + 1
      BY <2>2, <3>2, BlockAssumption, Zenon DEF NodeGrow
    <3>4. /\ nodeHeight' = nodeHeight + 1 /\ nodeFinalized' \in Nat /\ tallest' \in Nat
          /\ nodeChain' = [n \in 0 .. nodeHeight + 1 |->
                              IF n = nodeHeight + 1 THEN block ELSE nodeChain[n]]
      BY <2>2, <3>2 DEF NodeGrow, IndInv, NodeOK
    <3>5. /\ nodeChain' \in [0 .. nodeHeight + 1 -> Block]
          /\ \A n \in 0 .. nodeHeight + 1 : Number[nodeChain'[n]] = n
      BY <3>2, <3>3, <3>4 DEF IndInv, NodeOK
    <3> QED BY <3>1, <3>2, <3>4, <3>5 DEF NodeOK
  <2>3. ASSUME NEW n \in 0 .. nodeHeight, NodeRevert(n), UNCHANGED newHeads
        PROVE  NodeOK' /\ newHeads' \in Seq(Block)
    <3>1. /\ nodeHeight' = n /\ nodeChain' = [m \in 0 .. n |-> nodeChain[m]]
          /\ nodeFinalized' \in Nat /\ tallest' \in Nat
      BY <2>3, Zenon DEF NodeRevert, Restrict, IndInv, NodeOK
    <3> QED BY <2>1, <2>3, <3>1 DEF IndInv, NodeOK
  <2>4. ASSUME NEW n \in 0 .. nodeHeight, NodeFinalize(n), UNCHANGED newHeads
        PROVE  NodeOK' /\ newHeads' \in Seq(Block)
    BY <2>1, <2>4 DEF NodeFinalize, IndInv, NodeOK
  <2> QED BY <2>2, <2>3, <2>4, Zenon DEF NodeStep
<1>4. ServiceTypeOK'
  BY <1>1, <1>3, Zenon DEF IndInv, TypeOK, ServiceTypeOK
<1>5. ServiceOK'
  BY <1>1, <1>2, Zenon DEF IndInv, ServiceOK, Running
<1> QED BY <1>2, <1>3, <1>4, <1>5, Zenon DEF IndInv, TypeOK

\* A step of an ingestion task keeps the inductive invariant.
LEMMA TaskStepIsOK ==
    ASSUME NEW i \in 1 .. Len(taskQueue), IndInv /\ (RunMainTask(i) \/ RunPendingTask(i))
    PROVE  IndInv'
<1>1. taskQueue \in Seq(Task) /\ taskQueue[i] \in Task /\ i \in DOMAIN taskQueue
  BY DEF IndInv, TypeOK, ServiceTypeOK
<1>2. taskQueue[i].number \in Nat /\ taskQueue[i].generation \in Nat
  BY <1>1, Zenon DEF Task
<1>3. /\ UNCHANGED <<mode, head, finalized, lastIngested, queuedBlockNumber, pendingState,
                     builder, candidate, newHeads>>
      /\ UNCHANGED <<nodeVars, etcdVars, segments, legacy, everPublished>>
  BY Zenon DEF RunMainTask, RunPendingTask
<1>4. /\ taskQueue' \in Seq(Task) /\ blockStore' \subseteq Block
      /\ pendingStore' \subseteq Nat \X Nat
  <2>1. blockStore \subseteq Block /\ pendingStore \subseteq Nat \X Nat
    BY Zenon DEF IndInv, TypeOK, StoreTypeOK
  <2>2. ASSUME NEW status \in {"notFound", "none"},
               taskQueue' = [taskQueue EXCEPT ![i].status = status]
        PROVE  taskQueue' \in Seq(Task)
    <3>1. [taskQueue[i] EXCEPT !.status = status] \in Task
      BY <1>1, EndedTask, Zenon
    <3> QED BY <1>1, <2>2, <3>1, QueueUpdate, Zenon
  <2>3. CASE RunMainTask(i) /\ NodeHas(taskQueue[i].number)
    <3> DEFINE block == nodeChain[taskQueue[i].number]
    <3>1. /\ taskQueue' = [taskQueue EXCEPT ![i].status = "done", ![i].block = block]
          /\ blockStore' = blockStore \cup {block} /\ pendingStore' = pendingStore
      BY <2>3, Zenon DEF RunMainTask, StoreBlock
    <3>2. block \in Block
      BY <2>3, Zenon DEF NodeHas, IndInv, NodeOK
    <3> HIDE DEF block
    <3>3. [taskQueue[i] EXCEPT !.status = "done", !.block = block] \in Task
      BY <1>1, <3>2, FetchedTask, Zenon
    <3>4. taskQueue' = [taskQueue EXCEPT ![i] =
                            [taskQueue[i] EXCEPT !.status = "done", !.block = block]]
      BY <1>1, <3>1, Zenon
    <3>5. taskQueue' \in Seq(Task)
      BY <1>1, <3>3, <3>4, QueueUpdate, Zenon
    <3> QED BY <2>1, <3>1, <3>2, <3>5, Zenon
  <2>4. CASE RunMainTask(i) /\ ~NodeHas(taskQueue[i].number)
    BY <2>1, <2>2, <2>4, Zenon DEF RunMainTask
  <2>5. CASE RunPendingTask(i) /\ taskQueue' = [taskQueue EXCEPT ![i].status = "none"]
                               /\ UNCHANGED pendingStore
    BY <2>1, <2>2, <2>5, Zenon DEF RunPendingTask
  <2>6. CASE /\ RunPendingTask(i) /\ taskQueue' = [taskQueue EXCEPT ![i].status = "done"]
             /\ pendingStore' = pendingStore \cup
                    {<<taskQueue[i].number, taskQueue[i].generation>>}
    <3>1. taskQueue[i].kind = "pending" /\ blockStore' = blockStore
      BY <2>6, Zenon DEF RunPendingTask
    <3>2. [taskQueue[i] EXCEPT !.status = "done"] \in Task
      BY <1>1, <3>1, EndedTask, Zenon
    <3>3. taskQueue' \in Seq(Task)
      BY <1>1, <2>6, <3>2, QueueUpdate, Zenon
    <3> QED BY <1>2, <2>1, <2>6, <3>1, <3>3
  <2> QED BY <2>3, <2>4, <2>5, <2>6, Zenon DEF RunMainTask, RunPendingTask
<1>5. ServiceTypeOK'
  BY <1>3, <1>4, Zenon DEF IndInv, TypeOK, ServiceTypeOK
<1>6. StoreTypeOK'
  BY <1>3, <1>4, Zenon DEF IndInv, TypeOK, StoreTypeOK, etcdVars
<1>7. ServiceOK'
  BY <1>3, Zenon DEF IndInv, ServiceOK, Running, etcdVars
<1>8. PublishedOK'
  BY <1>3, Zenon DEF IndInv, PublishedOK, View, etcdVars
<1> QED BY <1>3, <1>5, <1>6, <1>7, <1>8, NodeUnchanged, Zenon DEF IndInv, TypeOK

-----------------------------------------------------------------------------
(* initialize                                                              *)

\* A linked segment that starts at the starting block is a complete view
\* with any store.
LEMMA FirstView ==
    ASSUME NEW v, IsSegment(v.recent) /\ IsLinked(v.recent) /\ v.starting = v.recent.first
    PROVE  IsView(v)
<1>1. v.starting \in Nat /\ v.recent.first \in Nat /\ v.recent.last \in Nat
  BY ChainFields, Zenon
<1>2. IsArchived(v)
  BY <1>1, StartingIsAligned DEF IsArchived
<1>3. ASSUME NEW n \in v.starting + 1 .. v.recent.last
      PROVE  Parent[CanonicalBlock(v, n)] = CanonicalBlock(v, n - 1)
  <2>1. /\ n \in v.starting .. v.recent.last /\ n - 1 \in v.starting .. v.recent.last
        /\ n >= v.recent.first /\ n - 1 >= v.recent.first
    BY <1>1
  <2>2. /\ CanonicalBlock(v, n) = v.recent.canonical[n]
        /\ CanonicalBlock(v, n - 1) = v.recent.canonical[n - 1]
    BY <1>2, <2>1, CanonicalBlockIs, Zenon
  <2> QED BY <2>2, Zenon DEF IsLinked
<1> QED BY <1>2, <1>3, Zenon DEF IsView, IsJoined

\* The canonical blocks of a segment are blocks.
LEMMA PublishedBlocksAreBlocks ==
    ASSUME NEW s, IsSegment(s)
    PROVE  Range(s.canonical) \subseteq Block
BY ChainFields DEF Range

\* The restored segment is published, unless it already was.
LEMMA RestoreSegmentIsOK ==
    ASSUME IndInv, NEW segment, RestoreSegment(segment),
           UNCHANGED <<startingBlock, etcdFinalized, segments, blockStore, pendingStore>>
    PROVE  /\ StoreTypeOK' /\ PublishedOK'
           /\ IsSegment(segment) /\ IsLinked(segment) /\ recent' = segment /\ recent' # Null
<1>1. CASE recent # Null /\ segment = recent /\ DontPublish /\ UNCHANGED legacy
  <2>1. UNCHANGED <<etcdVars, objectVars, everPublished>>
    BY <1>1, Zenon DEF DontPublish, etcdVars, objectVars
  <2>2. StoreTypeOK' /\ PublishedOK' /\ recent' = recent
    BY <2>1, StoresUnchanged, Zenon DEF IndInv, TypeOK
  <2>3. IsSegment(recent) /\ IsLinked(recent)
    BY <1>1, Zenon DEF IndInv, PublishedOK, IsView, IsArchived, View
  <2> QED BY <1>1, <2>2, <2>3, Zenon
<1>2. CASE recent = Null /\ legacy # Null /\ segment = legacy /\ Publish(legacy)
           /\ legacy' \in {legacy, Null}
  <2>1. IsSegment(legacy) /\ IsLinked(legacy) /\ legacy.first = 0 /\ startingBlock = 0
    BY <1>2, Zenon DEF IndInv, TypeOK, StoreTypeOK, PublishedOK
  <2>2. /\ recent' = legacy /\ pending' = 0
        /\ everPublished' = everPublished \cup Range(legacy.canonical)
    BY <1>2, Zenon DEF Publish
  <2>3. IsView(View')
    <3>1. View'.starting = 0 /\ View'.recent = legacy
      BY <2>1, <2>2, Zenon DEF View
    <3> QED BY <2>1, <3>1, FirstView, Zenon
  <2>4. StoreTypeOK'
    BY <1>2, <2>1, <2>2, PublishedBlocksAreBlocks, Zenon DEF IndInv, TypeOK, StoreTypeOK
  <2>5. PublishedOK'
    BY <1>2, <2>1, <2>3, Zenon DEF PublishedOK
  <2> QED BY <1>2, <2>1, <2>2, <2>4, <2>5, Zenon
<1> QED BY <1>1, <1>2, Zenon DEF RestoreSegment

\* Reading the head and the finalized block keeps the inductive invariant.
LEMMA InitializeChainIsOK ==
    ASSUME IndInv /\ InitializeChain
    PROVE  IndInv'
<1>1. PICK f \in FinalizedReplies : finalized' = f /\ etcdFinalized' = f
  BY Zenon DEF InitializeChain
<1>2. f \in Nat /\ NodeHead \in Block
  BY <1>1 DEF FinalizedReplies, NodeHead, IndInv, NodeOK
<1>3. /\ mode' = "init" /\ head' = NodeHead
      /\ UNCHANGED <<nodeVars, lastIngested, queuedBlockNumber, pendingState, builder, taskQueue,
                     candidate, newHeads, startingBlock, recent, pending, objectVars,
                     everPublished>>
  BY Zenon DEF InitializeChain
<1>4. ServiceTypeOK'
  BY <1>1, <1>2, <1>3, Zenon DEF IndInv, TypeOK, ServiceTypeOK
<1>5. StoreTypeOK'
  BY <1>1, <1>2, <1>3, Zenon DEF IndInv, TypeOK, StoreTypeOK, objectVars
<1>6. ServiceOK'
  BY <1>2, <1>3, Zenon DEF ServiceOK, Running
<1>7. PublishedOK'
  BY <1>3, Zenon DEF IndInv, PublishedOK, View, objectVars
<1> QED BY <1>3, <1>4, <1>5, <1>6, <1>7, NodeUnchanged, Zenon DEF IndInv, TypeOK

\* Resuming from the published or the legacy segment keeps the inductive
\* invariant.
LEMMA InitializeResumeIsOK ==
    ASSUME IndInv /\ InitializeResume
    PROVE  IndInv'
<1>1. PICK segment : /\ RestoreSegment(segment)
                     /\ builder' = RestoreFromSegment(segment)
                     /\ IngestFrom(LastBlock(segment))
  BY Zenon DEF InitializeResume
<1>2. /\ mode = "init"
      /\ UNCHANGED <<nodeVars, head, finalized, taskQueue, startingBlock, etcdFinalized,
                     segments, blockStore, pendingStore>>
  BY Zenon DEF InitializeResume
<1>3. /\ StoreTypeOK' /\ PublishedOK'
      /\ IsSegment(segment) /\ IsLinked(segment) /\ recent' = segment /\ recent' # Null
  BY <1>1, <1>2, RestoreSegmentIsOK, Zenon
<1>4. /\ IsBuilder(builder') /\ IsLinked(builder') /\ builder'.first = segment.first
      /\ builder'.last = segment.last /\ builder'.canonical = segment.canonical
  BY <1>1, <1>3, RestoreKeepsChain, Zenon
<1>5. LastBlock(segment) \in Block /\ Number[LastBlock(segment)] \in Nat
  BY <1>3, ChainFields, Zenon
<1>6. /\ mode' = "ingest" /\ lastIngested' = LastBlock(segment)
      /\ queuedBlockNumber' = Number[LastBlock(segment)]
      /\ pendingState' = DefaultPendingState /\ candidate' = Null /\ newHeads' = << >>
  BY <1>1, Zenon DEF IngestFrom
<1>7. ServiceTypeOK'
  BY <1>2, <1>4, <1>5, <1>6 DEF IndInv, TypeOK, ServiceTypeOK, DefaultPendingState
<1>8. ServiceOK'
  BY <1>2, <1>3, <1>4, <1>6, Zenon DEF IndInv, ServiceOK, Running, LastBlock
<1> QED BY <1>2, <1>3, <1>7, <1>8, NodeUnchanged, Zenon DEF IndInv, TypeOK

\* Starting in recovery keeps the inductive invariant.
LEMMA InitializeRecoverIsOK ==
    ASSUME IndInv /\ InitializeRecover
    PROVE  IndInv'
<1>1. PICK segment : /\ RestoreSegment(segment)
                     /\ builder' = RestoreFromSegment(segment)
                     /\ lastIngested' = LastBlock(segment)
                     /\ candidate' = LastBlock(segment)
  BY Zenon DEF InitializeRecover
<1>2. /\ mode = "init" /\ mode' = "recover"
      /\ UNCHANGED <<nodeVars, head, finalized, queuedBlockNumber, pendingState, taskQueue,
                     newHeads, startingBlock, etcdFinalized, segments, blockStore, pendingStore>>
  BY Zenon DEF InitializeRecover
<1>3. /\ StoreTypeOK' /\ PublishedOK'
      /\ IsSegment(segment) /\ IsLinked(segment) /\ recent' = segment /\ recent' # Null
  BY <1>1, <1>2, RestoreSegmentIsOK, Zenon
<1>4. /\ IsBuilder(builder') /\ IsLinked(builder') /\ builder'.first = segment.first
      /\ builder'.last = segment.last /\ builder'.canonical = segment.canonical
  BY <1>1, <1>3, RestoreKeepsChain, Zenon
<1>5. LastBlock(builder') \in Block /\ LastBlock(builder') = LastBlock(segment)
  BY <1>4, ChainFields, Zenon DEF LastBlock
<1>6. CanShrink(builder', LastBlock(builder'))
  <2>1. /\ builder'.first \in Nat /\ builder'.last \in Nat /\ builder'.first <= builder'.last
        /\ Number[LastBlock(builder')] = builder'.last /\ builder' # Null
    BY <1>4, ChainFields, ChainsAreNotNull, Zenon DEF LastBlock
  <2>2. builder'.last \in builder'.first .. builder'.last
    BY <2>1
  <2> QED BY <1>4, <2>1, <2>2, Zenon DEF CanShrink, LastBlock
<1>7. ServiceTypeOK'
  BY <1>1, <1>2, <1>4, <1>5, Zenon DEF IndInv, TypeOK, ServiceTypeOK
<1>8. ServiceOK'
  BY <1>1, <1>2, <1>3, <1>4, <1>5, <1>6, Zenon DEF IndInv, ServiceOK, Running
<1> QED BY <1>2, <1>3, <1>7, <1>8, NodeUnchanged, Zenon DEF IndInv, TypeOK

\* Publishing the starting block keeps the inductive invariant.
LEMMA InitializeStartIsOK ==
    ASSUME IndInv /\ InitializeStart
    PROVE  IndInv'
<1> DEFINE block == nodeChain[StartingBlock]
           grown == Grow(Null, block)
<1>1. /\ mode = "init" /\ legacy = Null /\ NodeHas(StartingBlock)
      /\ startingBlock' = StartingBlock /\ blockStore' = blockStore \cup {block}
      /\ builder' = grown /\ Publish(CurrentSegment(grown)) /\ IngestFrom(block)
      /\ UNCHANGED <<nodeVars, head, finalized, taskQueue, etcdFinalized, segments,
                     pendingStore, legacy>>
  BY Zenon DEF InitializeStart
<1>2. block \in Block /\ Number[block] = StartingBlock /\ StartingBlock \in Nat
  BY <1>1, IngestionAssumption, Zenon DEF NodeHas, IndInv, NodeOK
<1> HIDE DEF block
<1>3. /\ IsBuilder(grown) /\ IsLinked(grown) /\ LastBlock(grown) = block
      /\ grown.first = StartingBlock
  BY <1>2, GrowEmpty, Zenon
<1> HIDE DEF grown
<1>4. /\ IsSegment(recent') /\ IsLinked(recent') /\ recent'.first = grown.first
      /\ recent'.canonical = grown.canonical /\ pending' = 0
      /\ everPublished' = everPublished \cup Range(recent'.canonical)
  BY <1>1, <1>3, CurrentSegmentKeepsChain, Zenon DEF Publish
<1>5. IsView(View')
  <2>1. View'.starting = StartingBlock /\ View'.recent = recent'
    BY <1>1, Zenon DEF View
  <2> QED BY <1>3, <1>4, <2>1, FirstView, Zenon
<1>6. /\ mode' = "ingest" /\ lastIngested' = block /\ queuedBlockNumber' = Number[block]
      /\ pendingState' = DefaultPendingState /\ candidate' = Null /\ newHeads' = << >>
  BY <1>1, Zenon DEF IngestFrom
<1>7. ServiceTypeOK'
  <2>1. finalized' \in Nat /\ taskQueue' \in Seq(Task)
    BY <1>1, Zenon DEF IndInv, TypeOK, ServiceTypeOK
  <2>2. head' \in Block
    BY <1>1, Zenon DEF IndInv, ServiceOK
  <2>3. IsBuilder(builder')
    BY <1>1, <1>3, Zenon
  <2> QED BY <1>1, <1>2, <2>1, <2>2, <2>3, IngestFromType, Zenon
<1>8. StoreTypeOK'
  BY <1>1, <1>2, <1>4, PublishedBlocksAreBlocks, Zenon DEF IndInv, TypeOK, StoreTypeOK
<1>9. ServiceOK'
  BY <1>1, <1>3, <1>4, <1>6, ChainsAreNotNull, Zenon DEF IndInv, ServiceOK, Running
<1>10. PublishedOK'
  BY <1>1, <1>5, Zenon DEF PublishedOK
<1> QED BY <1>1, <1>7, <1>8, <1>9, <1>10, NodeUnchanged, Zenon DEF IndInv, TypeOK

\* A failed first start keeps the inductive invariant.
LEMMA InitializeStartFailIsOK ==
    ASSUME IndInv /\ InitializeStartFail
    PROVE  IndInv'
<1>1. /\ recent = Null /\ legacy = Null /\ startingBlock' = StartingBlock /\ Stop
      /\ UNCHANGED <<nodeVars, etcdFinalized, recent, pending, segments, pendingStore, legacy,
                     everPublished>>
  BY Zenon DEF InitializeStartFail
<1>2. blockStore' \subseteq Block
  BY DEF InitializeStartFail, IndInv, TypeOK, StoreTypeOK, NodeOK
<1>3. StoreTypeOK'
  BY <1>1, <1>2, IngestionAssumption, Zenon DEF IndInv, TypeOK, StoreTypeOK
<1>4. PublishedOK'
  BY <1>1, Zenon DEF PublishedOK
<1> QED BY <1>1, <1>3, <1>4, StopIsOK, NodeUnchanged, Zenon DEF IndInv, TypeOK

-----------------------------------------------------------------------------
(* tick_with_task_result                                                   *)

\* A main task that is done holds a block.
LEMMA FinishedTask ==
    ASSUME NEW kind, NEW status, IndInv /\ TaskFinished(kind, status)
    PROVE  /\ mode = "ingest" /\ Head(taskQueue) \in Task /\ Tail(taskQueue) \in Seq(Task)
           /\ kind = "main" /\ status = "done" => Head(taskQueue).block \in Block
<1>1. taskQueue \in Seq(Task) /\ taskQueue # << >>
  BY Zenon DEF TaskFinished, IndInv, TypeOK, ServiceTypeOK
<1>2. Head(taskQueue) \in Task /\ Tail(taskQueue) \in Seq(Task)
  BY <1>1, HeadAndTail, Zenon
<1> QED BY <1>2, Zenon DEF TaskFinished, Task

\* Storing a segment adds or replaces one object.
LEMMA PutSegmentIs ==
    ASSUME NEW s
    PROVE  /\ DOMAIN PutSegment(s) = DOMAIN segments \cup {s.first}
           /\ PutSegment(s)[s.first] = s
           /\ \A n \in DOMAIN segments : n # s.first => PutSegment(s)[n] = segments[n]
BY Zenon DEF PutSegment

\* Storing a segment keeps the type of the chain store.
LEMMA PutSegmentType ==
    ASSUME NEW s, StoreTypeOK /\ IsSegment(s)
    PROVE  /\ DOMAIN PutSegment(s) \subseteq Nat
           /\ \A n \in DOMAIN PutSegment(s) : IsSegment(PutSegment(s)[n])
<1> DEFINE put == PutSegment(s)
<1>1. s.first \in Nat
  BY ChainFields, Zenon
<1>2. /\ DOMAIN put = DOMAIN segments \cup {s.first} /\ put[s.first] = s
      /\ \A n \in DOMAIN segments : n # s.first => put[n] = segments[n]
  BY PutSegmentIs, Zenon
<1> HIDE DEF put
<1>3. DOMAIN put \subseteq Nat
  BY <1>1, <1>2, Zenon DEF StoreTypeOK
<1>4. ASSUME NEW n \in DOMAIN put
      PROVE  IsSegment(put[n])
  BY <1>2, Zenon DEF StoreTypeOK
<1> QED BY <1>3, <1>4, Zenon DEF put

\* A builder that has grown by the block of a finished task.
LEMMA GrownBuilder ==
    ASSUME IndInv /\ TaskFinished("main", "done") /\ CanGrow(builder, Head(taskQueue).block)
    PROVE  LET grown == Grow(builder, Head(taskQueue).block) IN
           /\ IsBuilder(grown) /\ IsLinked(grown)
           /\ LastBlock(grown) = Head(taskQueue).block
           /\ recent # Null /\ IsView(View)
           /\ grown.first = recent.first
           /\ grown.canonical[grown.first] = recent.canonical[grown.first]
<1>1. mode = "ingest" /\ Head(taskQueue).block \in Block
  BY FinishedTask, Zenon
<1>2. /\ IsBuilder(builder) /\ IsLinked(builder) /\ recent # Null /\ IsView(View)
      /\ builder.first = recent.first
      /\ builder.canonical[builder.first] = recent.canonical[recent.first]
  BY <1>1, Zenon DEF IndInv, ServiceOK, PublishedOK, Running
<1>3. builder.first \in builder.first .. builder.last
  <2>1. builder.first \in Nat /\ builder.last \in Nat /\ builder.first <= builder.last
    BY <1>2, ChainFields, Zenon
  <2> QED BY <2>1
<1> DEFINE grown == Grow(builder, Head(taskQueue).block)
<1>4. /\ IsBuilder(grown) /\ IsLinked(grown) /\ LastBlock(grown) = Head(taskQueue).block
      /\ grown.first = builder.first
      /\ \A n \in builder.first .. builder.last : grown.canonical[n] = builder.canonical[n]
  BY <1>1, <1>2, GrowKeepsChain, Zenon
<1> HIDE DEF grown
<1>5. grown.canonical[grown.first] = recent.canonical[grown.first]
  BY <1>2, <1>3, <1>4, Zenon
<1> QED BY <1>2, <1>4, <1>5, Zenon DEF grown

\* Ingesting a block, with the upload of a segment and the publication,
\* keeps the inductive invariant.
LEMMA TickTaskBlockIsOK ==
    ASSUME IndInv /\ TickTaskBlock
    PROVE  IndInv'
<1> DEFINE block == Head(taskQueue).block
           grown == Grow(builder, block)
           due   == SegmentIsDue(grown)
           taken == TakenSegment(grown, ChainSegmentSize)
           left  == AfterTake(grown, ChainSegmentSize)
           next  == IF due THEN left ELSE grown
<1>1. /\ TaskFinished("main", "done") /\ CanGrow(builder, block)
      /\ due => CanTakeSegment(grown, ChainSegmentSize)
      /\ builder' = next
      /\ segments' = IF due THEN PutSegment(taken) ELSE segments
      /\ IF RecentIsDue(block) THEN Publish(CurrentSegment(next)) ELSE DontPublish
      /\ lastIngested' = block
      /\ PushTasks(Tail(taskQueue), Number[head])
      /\ pendingState' = DefaultPendingState
      /\ UNCHANGED <<nodeVars, mode, head, finalized, candidate, newHeads, startingBlock,
                     etcdFinalized, blockStore, pendingStore, legacy>>
  BY Zenon DEF TickTaskBlock
<1>2. due => RecentIsDue(block)
  BY Zenon DEF RecentIsDue
<1>3. mode = "ingest" /\ block \in Block /\ Tail(taskQueue) \in Seq(Task) /\ head \in Block
  BY <1>1, FinishedTask, Zenon DEF IndInv, ServiceOK
<1>4. /\ IsBuilder(grown) /\ IsLinked(grown) /\ LastBlock(grown) = block
      /\ recent # Null /\ IsView(View) /\ grown.first = recent.first
      /\ grown.canonical[grown.first] = recent.canonical[grown.first]
  BY <1>1, GrownBuilder, Zenon
<1>5. ChainSegmentSize \in Nat \ {0}
  BY ChainSegmentSizeAssumption, Zenon
<1> HIDE DEF block, grown, due
<1>6. due => /\ IsSegment(taken) /\ taken.first = grown.first
             /\ IsBuilder(left) /\ IsLinked(left) /\ LastBlock(left) = LastBlock(grown)
  BY <1>1, <1>4, <1>5, TakeSplitsChain, Zenon
<1>7. IsBuilder(next) /\ IsLinked(next) /\ LastBlock(next) = block
  BY <1>4, <1>6, Zenon
<1> HIDE DEF taken, left
<1>8. taskQueue' \in Seq(Task) /\ queuedBlockNumber' \in Nat
  <2>1. Number[head] \in Nat /\ queuedBlockNumber \in Nat
    BY <1>3, BlockAssumption, Zenon DEF IndInv, TypeOK, ServiceTypeOK
  <2> QED BY <1>1, <1>3, <2>1, PushTasksType, Zenon
<1>9. ServiceTypeOK'
  BY <1>1, <1>3, <1>7, <1>8, Zenon DEF IndInv, TypeOK, ServiceTypeOK, DefaultPendingState
<1>10. StoreTypeOK /\ DOMAIN segments' \subseteq Nat /\ \A n \in DOMAIN segments' : IsSegment(segments'[n])
  <2>1. StoreTypeOK
    BY Zenon DEF IndInv, TypeOK
  <2>2. CASE due
    BY <1>1, <1>6, <2>1, <2>2, PutSegmentType, Zenon
  <2>3. CASE ~due
    BY <1>1, <2>1, <2>3, Zenon DEF StoreTypeOK
  <2> QED BY <2>1, <2>2, <2>3, Zenon
<1>11. View' = [starting |-> startingBlock, recent |-> recent', store |-> segments']
  BY <1>1, Zenon DEF View
<1>12. View.starting = startingBlock /\ View.recent = recent /\ View.store = segments
  BY Zenon DEF View
<1>13. CASE RecentIsDue(block)
  <2> DEFINE s == CurrentSegment(next)
  <2>1. /\ recent' = s /\ pending' = 0
        /\ everPublished' = everPublished \cup Range(s.canonical)
    BY <1>1, <1>13, Zenon DEF Publish
  <2>2. IsSegment(s) /\ s.first = next.first /\ s.canonical = next.canonical
    BY <1>7, CurrentSegmentKeepsChain, Zenon
  <2>3. IsView(View')
    <3>1. CASE due
      <4>1. segments' = PutSegment(taken) /\ next = left
        BY <1>1, <3>1, Zenon
      <4>2. /\ DOMAIN segments' = DOMAIN segments \cup {grown.first}
            /\ segments'[grown.first] = taken
            /\ \A n \in DOMAIN segments : n # grown.first => segments'[n] = segments[n]
        BY <1>6, <3>1, <4>1, PutSegmentIs, Zenon
      <4>3. /\ View'.starting = startingBlock /\ View'.store = segments'
            /\ View'.recent = CurrentSegment(AfterTake(grown, ChainSegmentSize))
        BY <1>11, <2>1, <4>1, Zenon DEF left
      <4>4. CanTakeSegment(grown, ChainSegmentSize)
        BY <1>1, <3>1, Zenon
      <4>5. View'.store[grown.first] = TakenSegment(grown, ChainSegmentSize)
        BY <4>2, <4>3, Zenon DEF taken
      <4>6. /\ grown.first = View.recent.first
            /\ grown.canonical[grown.first] = View.recent.canonical[grown.first]
            /\ View'.starting = View.starting /\ grown.first \in DOMAIN View'.store
            /\ DOMAIN View.store \subseteq DOMAIN View'.store
            /\ \A n \in DOMAIN View.store : n # grown.first => View'.store[n] = View.store[n]
        BY <1>4, <1>12, <4>2, <4>3, Zenon
      <4> HIDE DEF next
      <4> QED BY <1>4, <4>3, <4>4, <4>5, <4>6, SegmentTaken, Zenon
    <3>2. CASE ~due
      <4>1. View' = [starting |-> View.starting, recent |-> CurrentSegment(grown),
                     store |-> View.store]
        BY <1>1, <1>11, <1>12, <2>1, <3>2, Zenon
      <4> QED BY <1>4, <1>12, <4>1, RecentReplaced, Zenon
    <3> QED BY <3>1, <3>2, Zenon
  <2> HIDE DEF s, next
  <2>4. StoreTypeOK'
    BY <1>1, <1>10, <2>1, <2>2, PublishedBlocksAreBlocks, Zenon DEF StoreTypeOK
  <2>5. ServiceOK'
    BY <1>1, <1>3, <1>7, <2>1, <2>2, ChainsAreNotNull, Zenon DEF ServiceOK, Running
  <2>6. PublishedOK'
    BY <1>1, <2>3, Zenon DEF IndInv, PublishedOK
  <2> QED BY <1>1, <1>9, <2>4, <2>5, <2>6, NodeUnchanged, Zenon DEF IndInv, TypeOK
<1>14. CASE ~RecentIsDue(block)
  <2>1. recent' = recent /\ pending' = pending /\ everPublished' = everPublished
    BY <1>1, <1>14, Zenon DEF DontPublish
  <2>2. ~due /\ segments' = segments /\ next = grown
    BY <1>1, <1>2, <1>14, Zenon
  <2>3. StoreTypeOK'
    BY <1>1, <1>10, <2>1, <2>2, Zenon DEF StoreTypeOK
  <2>4. ServiceOK'
    BY <1>1, <1>3, <1>4, <2>1, <2>2, Zenon DEF ServiceOK, Running
  <2>5. PublishedOK'
    BY <1>1, <2>1, <2>2, Zenon DEF IndInv, PublishedOK, View
  <2> QED BY <1>1, <1>9, <2>3, <2>4, <2>5, NodeUnchanged, Zenon DEF IndInv, TypeOK
<1> QED BY <1>13, <1>14, Zenon

\* A failure between the upload of a segment and the publication keeps the
\* inductive invariant.
LEMMA TickTaskBlockFailIsOK ==
    ASSUME IndInv /\ TickTaskBlockFail
    PROVE  IndInv'
<1> DEFINE grown == Grow(builder, Head(taskQueue).block)
           taken == TakenSegment(grown, ChainSegmentSize)
<1>1. /\ TaskFinished("main", "done") /\ CanGrow(builder, Head(taskQueue).block)
      /\ SegmentIsDue(grown) /\ segments' = PutSegment(taken) /\ Stop
      /\ UNCHANGED <<nodeVars, etcdVars, blockStore, pendingStore, legacy, everPublished>>
  BY Zenon DEF TickTaskBlockFail
<1>2. /\ IsBuilder(grown) /\ IsLinked(grown)
      /\ recent # Null /\ IsView(View) /\ grown.first = recent.first
  BY <1>1, GrownBuilder, Zenon
<1> HIDE DEF grown
<1>3. CanTakeSegment(grown, ChainSegmentSize) /\ ChainSegmentSize \in Nat \ {0}
  BY <1>1, <1>2, ChainFields, ChainsAreNotNull, ChainSegmentSizeAssumption, IngestionAssumption
  DEF SegmentIsDue, SegmentSize, CanTakeSegment
<1>4. IsSegment(taken) /\ taken.first = recent.first
  BY <1>2, <1>3, TakeSplitsChain, Zenon
<1> HIDE DEF taken
<1>5. StoreTypeOK'
  BY <1>1, <1>4, PutSegmentType, Zenon DEF IndInv, TypeOK, StoreTypeOK, etcdVars
<1>6. IsView(View')
  <2>1. /\ View'.starting = View.starting /\ View'.recent = View.recent
        /\ View'.store = PutSegment(taken) /\ View.store = segments /\ View.recent = recent
    BY <1>1, Zenon DEF View, etcdVars
  <2>2. /\ DOMAIN PutSegment(taken) = DOMAIN segments \cup {recent.first}
        /\ \A n \in DOMAIN segments : n # recent.first => PutSegment(taken)[n] = segments[n]
    BY <1>4, PutSegmentIs, Zenon
  <2>3. /\ View.recent.first \in DOMAIN View'.store
        /\ DOMAIN View.store \subseteq DOMAIN View'.store
        /\ \A n \in DOMAIN View.store : n # View.recent.first => View'.store[n] = View.store[n]
    BY <2>1, <2>2, Zenon
  <2> QED BY <1>2, <2>1, <2>3, StoredUnderRecent, Zenon
<1>7. PublishedOK'
  BY <1>1, <1>6, Zenon DEF IndInv, PublishedOK, etcdVars
<1> QED BY <1>1, <1>5, <1>7, StopIsOK, NodeUnchanged, Zenon DEF IndInv, TypeOK

\* Announcing a pending block keeps the inductive invariant.
LEMMA TickTaskPendingIsOK ==
    ASSUME IndInv /\ (TickTaskPending \/ TickTaskPendingNone)
    PROVE  IndInv'
<1>1. /\ Head(taskQueue) \in Task /\ taskQueue' = Tail(taskQueue) /\ Tail(taskQueue) \in Seq(Task)
  BY FinishedTask, Zenon DEF TickTaskPending, TickTaskPendingNone
<1>2. Head(taskQueue).generation \in Nat
  BY <1>1, Zenon DEF Task
<1>3. pendingState \in [queued : BOOLEAN, generation : Nat] /\ pending \in Nat
  BY Zenon DEF IndInv, TypeOK, ServiceTypeOK, StoreTypeOK
<1>4. pendingState' \in [queued : BOOLEAN, generation : Nat] /\ pending' \in Nat
  <2>1. CASE TickTaskPending
    BY <1>2, <2>1, Zenon DEF TickTaskPending
  <2>2. CASE TickTaskPendingNone
    BY <1>3, <2>2, Zenon DEF TickTaskPendingNone, etcdVars
  <2> QED BY <2>1, <2>2, Zenon
<1>5. UNCHANGED <<nodeVars, mode, head, finalized, lastIngested, queuedBlockNumber, builder,
                  candidate, newHeads, startingBlock, etcdFinalized, recent, objectVars,
                  everPublished>>
  BY Zenon DEF TickTaskPending, TickTaskPendingNone, etcdVars
<1>6. ServiceTypeOK'
  BY <1>1, <1>4, <1>5, Zenon DEF IndInv, TypeOK, ServiceTypeOK
<1>7. StoreTypeOK'
  BY <1>4, <1>5, Zenon DEF IndInv, TypeOK, StoreTypeOK, objectVars
<1>8. ServiceOK'
  BY <1>5, Zenon DEF IndInv, ServiceOK, Running
<1>9. PublishedOK'
  BY <1>5, Zenon DEF IndInv, PublishedOK, View, objectVars
<1> QED BY <1>5, <1>6, <1>7, <1>8, <1>9, NodeUnchanged, Zenon DEF IndInv, TypeOK

-----------------------------------------------------------------------------
(* tick_recover                                                            *)

\* One step of the walk of tick_recover keeps the inductive invariant.
LEMMA TickRecoverStepIsOK ==
    ASSUME IndInv /\ TickRecoverStep
    PROVE  ServiceTypeOK' /\ ServiceOK'
<1>1. /\ mode = "recover" /\ Number[candidate] > builder.first
      /\ candidate' = builder.canonical[Number[candidate] - 1]
      /\ UNCHANGED <<mode, head, finalized, lastIngested, queuedBlockNumber,
                     pendingState, builder, taskQueue, newHeads>>
      /\ recent' = recent
  BY Zenon DEF TickRecoverStep, CandidateBelow, etcdVars
<1>2. IsBuilder(builder) /\ candidate \in Block /\ CanShrink(builder, candidate)
  BY <1>1, Zenon DEF IndInv, ServiceOK, Running
<1>3. /\ builder.first \in Nat /\ builder.last \in Nat
      /\ \A n \in builder.first .. builder.last :
            builder.canonical[n] \in Block /\ Number[builder.canonical[n]] = n
  BY <1>2, ChainFields, Zenon
<1>4. Number[candidate] - 1 \in builder.first .. builder.last
  BY <1>1, <1>2, <1>3 DEF CanShrink
<1>5. candidate' \in Block /\ CanShrink(builder, candidate')
  BY <1>1, <1>2, <1>3, <1>4, Zenon DEF CanShrink
<1>6. ServiceTypeOK'
  BY <1>1, <1>5, Zenon DEF IndInv, TypeOK, ServiceTypeOK
<1>7. ServiceOK'
  BY <1>1, <1>5, Zenon DEF IndInv, ServiceOK, Running
<1> QED BY <1>6, <1>7, Zenon

\* Shrinking to the common block and publishing keeps the inductive invariant.
LEMMA TickRecoverDoneIsOK ==
    ASSUME IndInv /\ TickRecoverDone
    PROVE  IndInv'
<1> DEFINE cut == Shrink(builder, candidate)
<1>1. /\ mode = "recover" /\ taskQueue' = << >> /\ builder' = cut
      /\ Publish(CurrentSegment(cut)) /\ IngestFrom(candidate)
      /\ UNCHANGED <<nodeVars, head, finalized, startingBlock, etcdFinalized, objectVars>>
  BY Zenon DEF TickRecoverDone
<1>2. /\ IsBuilder(builder) /\ IsLinked(builder) /\ candidate \in Block
      /\ CanShrink(builder, candidate) /\ head \in Block
      /\ recent # Null /\ IsView(View) /\ builder.first = recent.first
      /\ builder.canonical[builder.first] = recent.canonical[recent.first]
  BY <1>1, Zenon DEF IndInv, ServiceOK, PublishedOK, Running
<1>3. /\ IsBuilder(cut) /\ IsLinked(cut) /\ LastBlock(cut) = candidate
      /\ cut.first = recent.first
      /\ \A n \in cut.first .. cut.last : cut.canonical[n] = builder.canonical[n]
  BY <1>2, ShrinkKeepsChain, Zenon
<1> HIDE DEF cut
<1>4. cut.canonical[cut.first] = recent.canonical[cut.first]
  <2>1. cut.first \in cut.first .. cut.last
    <3>1. cut.first \in Nat /\ cut.last \in Nat /\ cut.first <= cut.last
      BY <1>3, ChainFields, Zenon
    <3> QED BY <3>1
  <2> QED BY <1>2, <1>3, <2>1, Zenon
<1>5. /\ IsSegment(recent') /\ recent'.first = cut.first /\ recent'.canonical = cut.canonical
      /\ recent' = CurrentSegment(cut) /\ pending' = 0
      /\ everPublished' = everPublished \cup Range(recent'.canonical)
  BY <1>1, <1>3, CurrentSegmentKeepsChain, Zenon DEF Publish
<1>6. IsView(View')
  <2>1. View.starting = startingBlock /\ View.recent = recent /\ View.store = segments
    BY Zenon DEF View
  <2>2. View' = [starting |-> View.starting, recent |-> CurrentSegment(cut), store |-> View.store]
    BY <1>1, <1>5, <2>1, Zenon DEF View, objectVars
  <2> QED BY <1>2, <1>3, <1>4, <2>1, <2>2, RecentReplaced, Zenon
<1>7. /\ mode' = "ingest" /\ lastIngested' = candidate /\ queuedBlockNumber' = Number[candidate]
      /\ pendingState' = DefaultPendingState /\ candidate' = Null /\ newHeads' = << >>
  BY <1>1, Zenon DEF IngestFrom
<1>8. ServiceTypeOK'
  <2>1. finalized' \in Nat
    BY <1>1, Zenon DEF IndInv, TypeOK, ServiceTypeOK
  <2>2. taskQueue' \in Seq(Task)
    BY <1>1
  <2>3. IsBuilder(builder') /\ head' \in Block
    BY <1>1, <1>2, <1>3, Zenon
  <2> QED BY <1>1, <1>2, <2>1, <2>2, <2>3, IngestFromType, Zenon
<1>9. StoreTypeOK'
  BY <1>1, <1>5, PublishedBlocksAreBlocks, Zenon DEF IndInv, TypeOK, StoreTypeOK, objectVars
<1>10. ServiceOK'
  BY <1>1, <1>2, <1>3, <1>5, <1>7, ChainsAreNotNull, Zenon DEF ServiceOK, Running
<1>11. PublishedOK'
  BY <1>1, <1>6, Zenon DEF IndInv, PublishedOK, objectVars
<1> QED BY <1>1, <1>8, <1>9, <1>10, <1>11, NodeUnchanged, Zenon DEF IndInv, TypeOK

-----------------------------------------------------------------------------
(* Every step                                                              *)

\* The handlers that leave etcd and the object store alone.
QuietStep ==
    \/ TickHeadInterval \/ TickNewHead \/ TickNewHeadsReconnect \/ TickRefreshPending
    \/ TickTaskReorg \/ TickRecoverStep
    \/ TickRefreshFinalizedFail \/ TickRecoverFail \/ Crash

\* A step that leaves the node and the stores alone keeps the inductive
\* invariant.
LEMMA QuietStepIsOK ==
    ASSUME IndInv /\ QuietStep
    PROVE  IndInv'
<1>1. UNCHANGED <<nodeVars, etcdVars, objectVars, everPublished>>
  BY Zenon DEF QuietStep, TickHeadInterval, TickNewHead, TickNewHeadsReconnect, TickRefreshPending,
         TickTaskReorg, TickRecoverStep, TickRefreshFinalizedFail, TickRecoverFail, Crash
<1>2. /\ StoreTypeOK' /\ PublishedOK' /\ recent' = recent
  BY <1>1, StoresUnchanged, Zenon DEF IndInv, TypeOK
<1>3. NodeOK'
  BY <1>1, NodeUnchanged, Zenon DEF IndInv
<1>4. ServiceTypeOK /\ ServiceOK /\ newHeads \in Seq(Block) /\ taskQueue \in Seq(Task)
  BY Zenon DEF IndInv, TypeOK, ServiceTypeOK
<1> SUFFICES ServiceTypeOK' /\ ServiceOK'
  BY <1>2, <1>3, Zenon DEF IndInv, TypeOK
<1>5. CASE TickHeadInterval
  <2>1. NodeHead \in Block
    BY DEF NodeHead, IndInv, NodeOK
  <2> QED BY <1>2, <1>4, <1>5, <2>1, TickRefreshHeadIsOK, Zenon DEF TickHeadInterval
<1>6. CASE TickNewHead
  <2>1. Head(newHeads) \in Block /\ Tail(newHeads) \in Seq(Block)
    BY <1>4, <1>6, HeadAndTail, Zenon DEF TickNewHead
  <2> QED BY <1>2, <1>4, <1>6, <2>1, TickRefreshHeadIsOK, Zenon DEF TickNewHead
<1>7. CASE TickNewHeadsReconnect
  <2>1. ServiceTypeOK'
    BY <1>4, <1>7 DEF TickNewHeadsReconnect, ServiceTypeOK
  <2>2. ServiceOK'
    BY <1>2, <1>4, <1>7, Zenon DEF TickNewHeadsReconnect, ServiceOK, Running
  <2> QED BY <2>1, <2>2, Zenon
<1>8. CASE TickRefreshPending
  <2>1. lastIngested \in Block
    BY <1>4, <1>8, ChainFields, Zenon DEF TickRefreshPending, ServiceOK, Running
  <2>2. /\ pendingState \in [queued : BOOLEAN, generation : Nat]
        /\ Number[lastIngested] + 1 \in Nat
    BY <1>4, <2>1, BlockAssumption DEF ServiceTypeOK
  <2>3. PendingTask(Number[lastIngested] + 1, pendingState.generation + 1) \in Task
    BY <2>2, TasksAreTasks
  <2>4. taskQueue' \in Seq(Task) /\ pendingState' \in [queued : BOOLEAN, generation : Nat]
    <3> DEFINE task == PendingTask(Number[lastIngested] + 1, pendingState.generation + 1)
    <3>1. taskQueue' = Append(taskQueue, task)
      BY <1>8, Zenon DEF TickRefreshPending
    <3>2. pendingState' = [pendingState EXCEPT !.queued = TRUE]
      BY <1>8, Zenon DEF TickRefreshPending
    <3>3. pendingState' \in [queued : BOOLEAN, generation : Nat]
      BY <2>2, <3>2, Zenon
    <3> HIDE DEF task
    <3>4. task \in Task
      BY <2>3, Zenon DEF task
    <3> QED BY <1>4, <3>1, <3>3, <3>4
  <2>5. UNCHANGED <<mode, head, finalized, lastIngested, queuedBlockNumber, builder,
                    candidate, newHeads>>
    BY <1>8, Zenon DEF TickRefreshPending
  <2>6. ServiceTypeOK'
    BY <1>4, <2>4, <2>5, Zenon DEF ServiceTypeOK
  <2>7. ServiceOK'
    BY <1>2, <1>4, <2>5, Zenon DEF ServiceOK, Running
  <2> QED BY <2>6, <2>7, Zenon
<1>9. CASE TickTaskReorg
  <2>1. mode = "ingest" /\ taskQueue' \in Seq(Task) /\ EnterRecover
    BY <1>9, FinishedTask, Zenon DEF TickTaskReorg
  <2> QED BY <1>2, <1>4, <2>1, EnterRecoverIsOK, Zenon
<1>10. CASE TickRecoverStep
  BY <1>10, TickRecoverStepIsOK, Zenon
<1>11. CASE TickRefreshFinalizedFail \/ TickRecoverFail \/ Crash
  BY <1>11, StopIsOK, Zenon DEF TickRefreshFinalizedFail, TickRecoverFail, Crash
<1> QED BY <1>5, <1>6, <1>7, <1>8, <1>9, <1>10, <1>11, Zenon DEF QuietStep

\* Refreshing the finalized block keeps the inductive invariant.
LEMMA TickRefreshFinalizedIsOK ==
    ASSUME IndInv /\ TickRefreshFinalized
    PROVE  IndInv'
<1>1. PICK f \in FinalizedReplies : finalized' = f /\ etcdFinalized' = f
  BY Zenon DEF TickRefreshFinalized
<1>2. f \in Nat
  BY <1>1 DEF FinalizedReplies, IndInv, NodeOK
<1>3. UNCHANGED <<nodeVars, mode, head, lastIngested, queuedBlockNumber, pendingState, builder,
                  taskQueue, candidate, newHeads, startingBlock, recent, pending, objectVars,
                  everPublished>>
  BY Zenon DEF TickRefreshFinalized
<1>4. ServiceTypeOK'
  BY <1>1, <1>2, <1>3, Zenon DEF IndInv, TypeOK, ServiceTypeOK
<1>5. StoreTypeOK'
  BY <1>1, <1>2, <1>3, Zenon DEF IndInv, TypeOK, StoreTypeOK, objectVars
<1>6. ServiceOK'
  BY <1>3, Zenon DEF IndInv, ServiceOK, Running
<1>7. PublishedOK'
  BY <1>3, Zenon DEF IndInv, PublishedOK, View, objectVars
<1> QED BY <1>3, <1>4, <1>5, <1>6, <1>7, NodeUnchanged, Zenon DEF IndInv, TypeOK

\* The inductive invariant holds initially.
LEMMA InitIsOK ==
    ASSUME Init
    PROVE  IndInv
<1>1. NodeOK
  BY NodeAssumption, Zenon DEF Init, NodeInit, NodeOK
<1>2. ServiceTypeOK
  <2>1. taskQueue \in Seq(Task) /\ newHeads \in Seq(Block)
    BY DEF Init
  <2>2. pendingState \in [queued : BOOLEAN, generation : Nat]
    BY Zenon DEF Init, DefaultPendingState
  <2> QED BY <2>1, <2>2, Zenon DEF Init, ServiceTypeOK
<1>3. ServiceOK
  BY Zenon DEF Init, ServiceOK, Running
<1>4. IsSegment(LegacySegment) /\ IsLinked(LegacySegment) /\ LegacySegment.first = 0
  <2> DEFINE s == LegacySegment
  <2>1. s = [previous |-> Null, first |-> 0, last |-> InitialHeight, canonical |-> InitialChain,
             reorgs |-> NoReorgs, extraReorgs |-> NoReorgs]
    BY Zenon DEF LegacySegment
  <2> HIDE DEF s
  <2>2. s.first = 0 /\ s.last = InitialHeight /\ s.canonical = InitialChain
    BY <2>1, Zenon
  <2>3. InitialChain \in Canonical
    BY NodeAssumption, CanonicalIntro, Zenon
  <2>4. s \in Segment
    <3>1. NoReorgs \in ReorgMap /\ InitialHeight \in Nat
      BY NodeAssumption, ReorgMaps, Zenon
    <3> QED BY <2>1, <2>3, <3>1, Zenon DEF Segment
  <2>5. IsChain(s)
    BY <2>2, NodeAssumption DEF IsChain
  <2>6. IsLinked(s)
    BY <2>2, NodeAssumption DEF IsLinked
  <2> QED BY <2>2, <2>4, <2>5, <2>6, Zenon DEF s, IsSegment
<1>5. Range(InitialChain) \subseteq Block
  BY NodeAssumption DEF Range
<1>6. StoreTypeOK
  <2>1. /\ legacy = Null \/ IsSegment(legacy)
        /\ startingBlock \in Nat \cup {Null}
        /\ blockStore \subseteq Block
    BY <1>4, <1>5 DEF Init
  <2>2. /\ etcdFinalized \in Nat /\ recent = Null /\ pending \in Nat
        /\ pendingStore \subseteq Nat \X Nat /\ everPublished \subseteq Block
    BY Zenon DEF Init
  <2>3. DOMAIN segments = {}
    BY Zenon DEF Init
  <2> QED BY <2>1, <2>2, <2>3, Zenon DEF StoreTypeOK
<1>7. PublishedOK
  BY <1>4, Zenon DEF Init, PublishedOK
<1> QED BY <1>1, <1>2, <1>3, <1>6, <1>7, Zenon DEF IndInv, TypeOK

\* Every step keeps the inductive invariant.
LEMMA NextIsOK ==
    ASSUME IndInv /\ [Next]_vars
    PROVE  IndInv'
<1>1. CASE NodeStep
  BY <1>1, NodeStepIsOK, Zenon
<1>2. CASE TaskStep
  BY <1>2, TaskStepIsOK, Zenon DEF TaskStep
<1>3. CASE ServiceStep \/ Crash
  <2>1. CASE QuietStep
    BY <2>1, QuietStepIsOK, Zenon
  <2>2. CASE InitializeChain \/ InitializeResume \/ InitializeRecover \/ InitializeStart
             \/ InitializeStartFail
    BY <2>2, InitializeChainIsOK, InitializeResumeIsOK, InitializeRecoverIsOK,
       InitializeStartIsOK, InitializeStartFailIsOK, Zenon
  <2>3. CASE TickTaskBlock \/ TickTaskBlockFail \/ TickTaskPending \/ TickTaskPendingNone
             \/ TickRecoverDone \/ TickRefreshFinalized
    BY <2>3, TickTaskBlockIsOK, TickTaskBlockFailIsOK, TickTaskPendingIsOK, TickRecoverDoneIsOK,
       TickRefreshFinalizedIsOK, Zenon
  <2> QED BY <1>3, <2>1, <2>2, <2>3, Zenon DEF ServiceStep, QuietStep
<1>4. CASE UNCHANGED vars
  <2>1. UNCHANGED <<nodeVars, mode, serviceVars, etcdVars, objectVars, everPublished>>
    BY <1>4, Zenon DEF vars
  <2>2. StoreTypeOK' /\ PublishedOK' /\ recent' = recent /\ NodeOK'
    BY <2>1, StoresUnchanged, NodeUnchanged, Zenon DEF IndInv, TypeOK
  <2>3. ServiceTypeOK'
    BY <2>1, Zenon DEF serviceVars, IndInv, TypeOK, ServiceTypeOK
  <2>4. ServiceOK'
    BY <2>1, <2>2, Zenon DEF serviceVars, IndInv, ServiceOK, Running
  <2> QED BY <2>2, <2>3, <2>4, Zenon DEF IndInv, TypeOK
<1> QED BY <1>1, <1>2, <1>3, <1>4, Zenon DEF Next

\* The invariant holds in every reachable state.
THEOREM Inductive == Spec => []IndInv
<1>1. Init => IndInv
  BY InitIsOK, Zenon
<1>2. IndInv /\ [Next]_vars => IndInv'
  BY NextIsOK, Zenon
<1> QED BY <1>1, <1>2, PTL DEF Spec

\* Type correctness: whatever the service, its tasks, the node and failures
\* do, every variable keeps the shape the code gives it.
THEOREM TypeCorrect == Spec => []TypeOK
<1>1. IndInv => TypeOK
  BY Zenon DEF IndInv
<1> QED BY <1>1, Inductive, PTL

\* The head of the builder is the last ingested block and the walk of
\* tick_recover never leaves the builder's chain, so shrink never fails.
THEOREM BuilderHead == Spec => []LastIngestedIsBuilderHead
<1>1. IndInv => LastIngestedIsBuilderHead
  BY ChainsAreNotNull, Zenon DEF IndInv, ServiceOK, LastIngestedIsBuilderHead
<1> QED BY <1>1, Inductive, PTL

\* A reader always finds the whole chain from the starting block to the
\* published head, each block the parent of the next, for every segment size,
\* upload offset and depth of reorganization, and across failures at any
\* point.
THEOREM CompleteChain == Spec => []PublishedChainIsComplete
<1>1. ASSUME IndInv, recent # Null, NEW n \in PublishedRange
      PROVE  /\ CanonicalBlock(View, n) # Null
             /\ n > startingBlock =>
                    Parent[CanonicalBlock(View, n)] = CanonicalBlock(View, n - 1)
  <2>1. IsView(View)
    BY <1>1, Zenon DEF IndInv, PublishedOK
  <2>2. View.starting = startingBlock /\ View.recent = recent
    BY Zenon DEF View
  <2>3. n \in View.starting .. View.recent.last
    BY <2>2, Zenon DEF PublishedRange
  <2>4. CanonicalBlock(View, n) # Null
    BY <2>1, <2>3, CanonicalBlockIs, BlockAssumption, Zenon DEF IsView
  <2>5. startingBlock \in Nat /\ recent.last \in Nat
    <3>1. View.starting \in Nat /\ IsSegment(View.recent)
      BY <2>1, Zenon DEF IsView, IsArchived
    <3> QED BY <2>2, <3>1, ChainFields, Zenon
  <2>6. ASSUME n > startingBlock
        PROVE  Parent[CanonicalBlock(View, n)] = CanonicalBlock(View, n - 1)
    <3>1. n \in startingBlock .. recent.last
      BY <2>2, <2>3, Zenon
    <3>2. n \in startingBlock + 1 .. recent.last
      BY <2>5, <2>6, <3>1
    <3>3. n \in View.starting + 1 .. View.recent.last
      BY <2>2, <3>2, Zenon
    <3> QED BY <2>1, <3>3, Zenon DEF IsView, IsJoined
  <2> QED BY <2>4, <2>6, Zenon
<1>2. IndInv => PublishedChainIsComplete
  BY <1>1, Zenon DEF PublishedChainIsComplete
<1> QED BY <1>2, Inductive, PTL

\* No step rewrites a chain segment that a reader of the present snapshot may
\* have cached: an upload only touches the number where the recent segment
\* starts.
THEOREM ImmutableSegments == Spec => ReadableSegmentsAreImmutable
<1>1. ASSUME IndInv, [Next]_vars, NEW n \in DOMAIN segments, recent # Null, n < recent.first
      PROVE  n \in DOMAIN segments' /\ segments'[n] = segments[n]
  <2>1. CASE segments' = segments
    BY <2>1, Zenon
  <2>2. ASSUME TaskFinished("main", "done"), CanGrow(builder, Head(taskQueue).block),
               NEW s, s.first = Grow(builder, Head(taskQueue).block).first,
               segments' = PutSegment(s)
        PROVE  n \in DOMAIN segments' /\ segments'[n] = segments[n]
    <3>1. s.first = recent.first
      BY <1>1, <2>2, GrownBuilder, Zenon
    <3>2. n \in Nat /\ recent.first \in Nat
      BY <1>1, ChainFields, Zenon DEF IndInv, TypeOK, StoreTypeOK
    <3>3. n # s.first
      BY <1>1, <3>1, <3>2
    <3>4. n \in DOMAIN PutSegment(s) /\ PutSegment(s)[n] = segments[n]
      BY <3>3, PutSegmentIs, Zenon
    <3> QED BY <2>2, <3>4, Zenon
  <2>3. CASE TickTaskBlock
    BY <2>1, <2>2, <2>3, Zenon DEF TickTaskBlock, TakenSegment
  <2>4. CASE TickTaskBlockFail
    BY <2>2, <2>4, Zenon DEF TickTaskBlockFail, TakenSegment
  <2>5. CASE NodeStep \/ TaskStep \/ Crash \/ UNCHANGED vars
    BY <2>1, <2>5, Zenon
       DEF NodeStep, TaskStep, RunMainTask, RunPendingTask, Crash, vars, objectVars
  <2>6. CASE ServiceStep /\ ~TickTaskBlock /\ ~TickTaskBlockFail
    BY <2>1, <2>6, Zenon DEF ServiceStep, InitializeChain, InitializeResume, InitializeRecover,
        InitializeStart, InitializeStartFail, TickHeadInterval, TickNewHead,
        TickNewHeadsReconnect, TickRefreshFinalized, TickRefreshFinalizedFail,
        TickRefreshPending, TickTaskReorg, TickTaskPendingNone, TickTaskPending,
        TickRecoverStep, TickRecoverFail, TickRecoverDone, objectVars
  <2> QED BY <1>1, <2>3, <2>4, <2>5, <2>6, Zenon DEF Next
<1>2. IndInv /\ [Next]_vars =>
        [\A n \in DOMAIN segments : recent # Null /\ n < recent.first =>
            n \in DOMAIN segments' /\ segments'[n] = segments[n]]_vars
  BY <1>1, Zenon
<1> QED BY <1>2, Inductive, PTL DEF Spec, ReadableSegmentsAreImmutable

-----------------------------------------------------------------------------
(* The steps by what they do to the published state                        *)

\* The steps that neither publish nor upload nor touch the builder.
SilentStep ==
    \/ NodeStep \/ TaskStep \/ QuietStep
    \/ TickTaskPending \/ TickTaskPendingNone \/ TickRefreshFinalized \/ InitializeChain
    \/ UNCHANGED vars

\* A silent step leaves what readers see and the builder of a running service
\* alone; stored blocks stay stored.
LEMMA SilentStepIsSilent ==
    ASSUME SilentStep
    PROVE  /\ recent' = recent /\ startingBlock' = startingBlock /\ segments' = segments
           /\ legacy' = legacy /\ blockStore \subseteq blockStore'
           /\ Running' => Running /\ builder' = builder
<1>1. CASE NodeStep
  BY <1>1, Zenon DEF NodeStep, etcdVars, objectVars, Running
<1>2. CASE TaskStep
  BY <1>2, Zenon
     DEF TaskStep, RunMainTask, RunPendingTask, StoreBlock, etcdVars, objectVars, Running
<1>3. CASE QuietStep
  <2>1. UNCHANGED <<etcdVars, objectVars>>
    BY <1>3, Zenon DEF QuietStep, TickHeadInterval, TickNewHead, TickNewHeadsReconnect,
        TickRefreshPending, TickTaskReorg, TickRecoverStep, TickRefreshFinalizedFail,
        TickRecoverFail, Crash
  <2>2. CASE TickRefreshFinalizedFail \/ TickRecoverFail \/ Crash
    BY <2>1, <2>2, Zenon DEF TickRefreshFinalizedFail, TickRecoverFail, Crash, Stop, Running,
        etcdVars, objectVars
  <2>3. CASE TickHeadInterval \/ TickNewHead
    BY <2>1, <2>3, Zenon
       DEF TickHeadInterval, TickNewHead, TickRefreshHead, EnterRecover, Running,
        etcdVars, objectVars
  <2>4. CASE TickNewHeadsReconnect \/ TickRefreshPending \/ TickTaskReorg \/ TickRecoverStep
    BY <2>1, <2>4, Zenon
       DEF TickNewHeadsReconnect, TickRefreshPending, TickTaskReorg, TickRecoverStep,
        EnterRecover, TaskFinished, Running, etcdVars, objectVars
  <2> QED BY <1>3, <2>2, <2>3, <2>4, Zenon DEF QuietStep
<1>4. CASE TickTaskPending \/ TickTaskPendingNone \/ TickRefreshFinalized
  BY <1>4, Zenon
     DEF TickTaskPending, TickTaskPendingNone, TickRefreshFinalized, etcdVars, objectVars,
      Running
<1>5. CASE InitializeChain
  BY <1>5, Zenon DEF InitializeChain, objectVars, Running
<1>6. CASE UNCHANGED vars
  BY <1>6, Zenon DEF vars, serviceVars, etcdVars, objectVars, Running
<1> QED BY <1>1, <1>2, <1>3, <1>4, <1>5, <1>6, Zenon DEF SilentStep

\* The other steps.
LEMMA StepKinds ==
    ASSUME [Next]_vars
    PROVE  \/ SilentStep
           \/ InitializeResume \/ InitializeRecover \/ InitializeStart \/ InitializeStartFail
           \/ TickTaskBlock \/ TickTaskBlockFail \/ TickRecoverDone
BY Zenon DEF Next, ServiceStep, SilentStep, QuietStep

\* The service has not stopped since it first published.
KeepsRunning == recent # Null => Running

-----------------------------------------------------------------------------
(* The steps that publish                                                  *)

\* initialize goes on from the published segment, or publishes the legacy one.
LEMMA RestoreStep ==
    ASSUME IndInv /\ (InitializeResume \/ InitializeRecover)
    PROVE  \E s : /\ IsSegment(s) /\ IsLinked(s) /\ recent' = s
                  /\ \/ recent # Null /\ s = recent
                     \/ recent = Null /\ legacy # Null /\ s = legacy
                  /\ builder' = RestoreFromSegment(s)
                  /\ IsBuilder(builder') /\ builder'.first = s.first /\ builder'.last = s.last
                  /\ builder'.canonical = s.canonical
                  /\ startingBlock' = startingBlock /\ segments' = segments
                  /\ blockStore' = blockStore /\ legacy' \in {legacy, Null}
                  /\ mode = "init" /\ taskQueue' = taskQueue /\ UNCHANGED nodeVars
<1>1. PICK s : RestoreSegment(s) /\ builder' = RestoreFromSegment(s)
  BY Zenon DEF InitializeResume, InitializeRecover
<1>2. UNCHANGED <<startingBlock, etcdFinalized, segments, blockStore, pendingStore, taskQueue, nodeVars>>
  BY Zenon DEF InitializeResume, InitializeRecover
<1>3. IsSegment(s) /\ IsLinked(s) /\ recent' = s
  BY <1>1, <1>2, RestoreSegmentIsOK, Zenon
<1>4. /\ IsBuilder(builder') /\ builder'.first = s.first /\ builder'.last = s.last
      /\ builder'.canonical = s.canonical
  BY <1>1, <1>3, RestoreKeepsChain, Zenon
<1>5. /\ \/ recent # Null /\ s = recent
         \/ recent = Null /\ legacy # Null /\ s = legacy
      /\ legacy' \in {legacy, Null}
  BY <1>1, Zenon DEF RestoreSegment
<1>6. mode = "init"
  BY Zenon DEF InitializeResume, InitializeRecover
<1> QED BY <1>1, <1>2, <1>3, <1>4, <1>5, <1>6, Zenon

\* The builder with the block of the oldest task, before a segment is taken.
Grown == Grow(builder, Head(taskQueue).block)

\* What a handled block does to the builder, the uploaded segments and the
\* snapshot.
LEMMA BlockStep ==
    ASSUME IndInv /\ TickTaskBlock
    PROVE  /\ TaskFinished("main", "done") /\ CanGrow(builder, Head(taskQueue).block)
           /\ \/ /\ ~SegmentIsDue(Grown)
                 /\ builder' = Grown /\ segments' = segments
                 /\ recent' \in {recent, CurrentSegment(Grown)}
              \/ /\ SegmentIsDue(Grown) /\ CanTakeSegment(Grown, ChainSegmentSize)
                 /\ builder' = AfterTake(Grown, ChainSegmentSize)
                 /\ segments' = PutSegment(TakenSegment(Grown, ChainSegmentSize))
                 /\ recent' = CurrentSegment(builder')
           /\ PushTasks(Tail(taskQueue), Number[head])
           /\ lastIngested' = Head(taskQueue).block
           /\ UNCHANGED <<nodeVars, mode, head, startingBlock, blockStore, legacy>>
<1> DEFINE block == Head(taskQueue).block
           next  == IF SegmentIsDue(Grown) THEN AfterTake(Grown, ChainSegmentSize) ELSE Grown
<1>1. /\ TaskFinished("main", "done") /\ CanGrow(builder, block)
      /\ SegmentIsDue(Grown) => CanTakeSegment(Grown, ChainSegmentSize)
      /\ builder' = next
      /\ segments' = IF SegmentIsDue(Grown)
                     THEN PutSegment(TakenSegment(Grown, ChainSegmentSize)) ELSE segments
      /\ IF RecentIsDue(block) THEN Publish(CurrentSegment(next)) ELSE DontPublish
      /\ PushTasks(Tail(taskQueue), Number[head])
      /\ lastIngested' = block
      /\ UNCHANGED <<nodeVars, mode, head, startingBlock, blockStore, legacy>>
  BY Zenon DEF TickTaskBlock, Grown
<1>2. SegmentIsDue(Grown) => RecentIsDue(block)
  BY Zenon DEF RecentIsDue, Grown
<1>3. RecentIsDue(block) => recent' = CurrentSegment(next)
  BY <1>1, Zenon DEF Publish
<1>4. ~RecentIsDue(block) => recent' = recent
  BY <1>1, Zenon DEF DontPublish
<1>5. CASE SegmentIsDue(Grown)
  BY <1>1, <1>2, <1>3, <1>5, Zenon
<1>6. CASE ~SegmentIsDue(Grown)
  BY <1>1, <1>3, <1>4, <1>6, Zenon
<1> QED BY <1>1, <1>5, <1>6, Zenon

\* The grown builder.
LEMMA GrownFacts ==
    ASSUME IndInv /\ TaskFinished("main", "done") /\ CanGrow(builder, Head(taskQueue).block)
    PROVE  /\ mode = "ingest" /\ Head(taskQueue).block \in Block
           /\ IsBuilder(builder) /\ IsLinked(builder) /\ recent # Null /\ IsView(View)
           /\ IsBuilder(Grown) /\ IsLinked(Grown)
           /\ Grown.first = builder.first /\ builder.first = recent.first
           /\ Grown.last = builder.last + 1
           /\ LastBlock(Grown) = Head(taskQueue).block
           /\ Grown.canonical[Grown.first] = recent.canonical[Grown.first]
           /\ \A n \in builder.first .. builder.last : Grown.canonical[n] = builder.canonical[n]
<1>1. mode = "ingest" /\ Head(taskQueue).block \in Block
  BY FinishedTask, Zenon
<1>2. IsBuilder(builder) /\ IsLinked(builder) /\ builder.first = recent.first
  BY <1>1, Zenon DEF IndInv, ServiceOK, Running
<1> QED BY <1>1, <1>2, GrownBuilder, GrowKeepsChain, Zenon DEF Grown

\* A segment is taken only from a builder that has more blocks than it.
LEMMA DueSegmentIsTaken ==
    ASSUME NEW c, IsBuilder(c) /\ SegmentIsDue(c)
    PROVE  CanTakeSegment(c, ChainSegmentSize) /\ ChainSegmentSize \in Nat \ {0}
BY ChainFields, ChainsAreNotNull, ChainSegmentSizeAssumption, IngestionAssumption
DEF SegmentIsDue, SegmentSize, CanTakeSegment

\* What the end of a recovery publishes.
LEMMA RecoverStep ==
    ASSUME IndInv /\ TickRecoverDone
    PROVE  LET cut == Shrink(builder, candidate) IN
           /\ mode = "recover" /\ IsBuilder(builder) /\ IsLinked(builder) /\ recent # Null
           /\ IsView(View) /\ candidate \in Block /\ CanShrink(builder, candidate)
           /\ builder.first = recent.first /\ NodeAgrees(candidate)
           /\ builder' = cut /\ recent' = CurrentSegment(cut)
           /\ IsBuilder(cut) /\ IsLinked(cut) /\ cut.first = builder.first
           /\ cut.last = Number[candidate] /\ LastBlock(cut) = candidate
           /\ cut.canonical[cut.first] = recent.canonical[cut.first]
           /\ \A n \in cut.first .. cut.last : cut.canonical[n] = builder.canonical[n]
           /\ taskQueue' = << >> /\ IngestFrom(candidate)
           /\ UNCHANGED <<nodeVars, head, startingBlock, objectVars>>
<1> DEFINE cut == Shrink(builder, candidate)
<1>1. /\ mode = "recover" /\ builder' = cut /\ recent' = CurrentSegment(cut)
      /\ NodeAgrees(candidate) /\ taskQueue' = << >> /\ IngestFrom(candidate)
      /\ UNCHANGED <<nodeVars, head, startingBlock, objectVars>>
  BY Zenon DEF TickRecoverDone, Publish
<1>2. /\ IsBuilder(builder) /\ IsLinked(builder) /\ candidate \in Block
      /\ CanShrink(builder, candidate) /\ recent # Null /\ IsView(View)
      /\ builder.first = recent.first
      /\ builder.canonical[builder.first] = recent.canonical[recent.first]
  BY <1>1, Zenon DEF IndInv, ServiceOK, PublishedOK, Running
<1>3. /\ IsBuilder(cut) /\ IsLinked(cut) /\ LastBlock(cut) = candidate
      /\ cut.first = builder.first /\ cut.last = Number[candidate]
      /\ \A n \in cut.first .. cut.last : cut.canonical[n] = builder.canonical[n]
  BY <1>2, ShrinkKeepsChain, Zenon
<1> HIDE DEF cut
<1>4. cut.first \in cut.first .. cut.last
  <2>1. cut.first \in Nat /\ cut.last \in Nat /\ cut.first <= cut.last
    BY <1>3, ChainFields, Zenon
  <2> QED BY <2>1
<1>5. cut.canonical[cut.first] = recent.canonical[cut.first]
  BY <1>2, <1>3, <1>4, Zenon
<1> QED BY <1>1, <1>2, <1>3, <1>5, Zenon DEF cut

-----------------------------------------------------------------------------
(* The finished tasks of the queue                                         *)

\* What a step does to the task queue.
LEMMA QueueKinds ==
    ASSUME IndInv /\ [Next]_vars
    PROVE  \/ taskQueue' = taskQueue
           \/ taskQueue' = << >>
           \/ taskQueue # << >> /\ taskQueue' = Tail(taskQueue)
           \/ \E target \in Nat : PushTasks(taskQueue, target)
           \/ taskQueue # << >> /\ \E target \in Nat : PushTasks(Tail(taskQueue), target)
           \/ TickRefreshPending
           \/ \E i \in 1 .. Len(taskQueue) : RunMainTask(i) \/ RunPendingTask(i)
<1>1. \A block \in Block : Number[block] \in Nat
  BY BlockAssumption, Zenon
<1>2. mode # "down" => head \in Block
  BY Zenon DEF IndInv, ServiceOK
<1>3. CASE SilentStep
  <2>1. CASE NodeStep \/ InitializeChain \/ TickRefreshFinalized
    BY <2>1, Zenon DEF NodeStep, InitializeChain, TickRefreshFinalized
  <2>2. CASE TaskStep
    BY <2>2, Zenon DEF TaskStep
  <2>3. CASE UNCHANGED vars
    BY <2>3, Zenon DEF vars, serviceVars
  <2>4. CASE TickTaskPending \/ TickTaskPendingNone
    BY <2>4, Zenon DEF TickTaskPending, TickTaskPendingNone, TaskFinished
  <2>5. CASE QuietStep
    <3>1. CASE TickRefreshFinalizedFail \/ TickRecoverFail \/ Crash
      BY <3>1, Zenon DEF TickRefreshFinalizedFail, TickRecoverFail, Crash, Stop
    <3>2. CASE TickTaskReorg
      BY <3>2, Zenon DEF TickTaskReorg, TaskFinished
    <3>3. CASE TickHeadInterval \/ TickNewHead
      <4>1. NodeHead \in Block
        BY DEF IndInv, NodeOK, NodeHead
      <4>2. newHeads # << >> => Head(newHeads) \in Block
        BY HeadAndTail, Zenon DEF IndInv, TypeOK, ServiceTypeOK
      <4> QED BY <1>1, <3>3, <4>1, <4>2, Zenon
                 DEF TickHeadInterval, TickNewHead, TickRefreshHead
    <3>4. CASE TickNewHeadsReconnect \/ TickRecoverStep
      BY <3>4, Zenon DEF TickNewHeadsReconnect, TickRecoverStep
    <3> QED BY <2>5, <3>1, <3>2, <3>3, <3>4, Zenon DEF QuietStep
  <2> QED BY <1>3, <2>1, <2>2, <2>3, <2>4, <2>5, Zenon DEF SilentStep
<1>4. CASE InitializeResume \/ InitializeRecover \/ InitializeStart
  BY <1>4, Zenon DEF InitializeResume, InitializeRecover, InitializeStart
<1>5. CASE InitializeStartFail \/ TickTaskBlockFail
  BY <1>5, Zenon DEF InitializeStartFail, TickTaskBlockFail, Stop
<1>6. CASE TickTaskBlock
  BY <1>1, <1>2, <1>6, Zenon DEF TickTaskBlock, TaskFinished
<1>7. CASE TickRecoverDone
  BY <1>7, Zenon DEF TickRecoverDone
<1> QED BY <1>3, <1>4, <1>5, <1>6, <1>7, StepKinds, Zenon

\* The tasks of a queue to which tasks are pushed: first the old ones, then
\* running ones.
LEMMA PushedQueue ==
    ASSUME NEW queue \in Seq(Task), NEW target \in Nat, queuedBlockNumber \in Nat,
           PushTasks(queue, target)
    PROVE  \E count \in Nat :
           /\ Len(taskQueue') = Len(queue) + count
           /\ queuedBlockNumber' = queuedBlockNumber + count
           /\ \A i \in 1 .. Len(queue) : taskQueue'[i] = queue[i]
           /\ \A i \in Len(queue) + 1 .. Len(queue) + count :
                    taskQueue'[i] = MainTask(queuedBlockNumber + (i - Len(queue)))
<1> DEFINE count == PushCount(Len(queue), queuedBlockNumber, target)
           pushed == [i \in 1 .. count |-> MainTask(queuedBlockNumber + i)]
<1>1. Len(queue) \in Nat
  OBVIOUS
<1>2. count \in Nat
  BY <1>1, PushCountIsNat, Zenon
<1>3. pushed \in Seq(Task) /\ Len(pushed) = count
  <2>1. \A i \in 1 .. count : MainTask(queuedBlockNumber + i) \in Task
    BY <1>2, TasksAreTasks
  <2> QED BY <1>2, <2>1
<1>4. taskQueue' = queue \o pushed /\ queuedBlockNumber' = queuedBlockNumber + count
  BY Zenon DEF PushTasks
<1>5. \A i \in 1 .. count : pushed[i] = MainTask(queuedBlockNumber + i)
  BY Zenon
<1> HIDE DEF count, pushed
<1>6. /\ Len(taskQueue') = Len(queue) + count
      /\ \A i \in 1 .. Len(queue) : taskQueue'[i] = queue[i]
  BY <1>1, <1>2, <1>3, <1>4, Concatenation, Zenon
<1>7. ASSUME NEW i \in Len(queue) + 1 .. Len(queue) + count
      PROVE  taskQueue'[i] = MainTask(queuedBlockNumber + (i - Len(queue)))
  <2>1. i - Len(queue) \in 1 .. count /\ i \in 1 .. Len(queue) + count /\ ~(i <= Len(queue))
    BY <1>1, <1>2
  <2>2. taskQueue'[i] = pushed[i - Len(queue)]
    BY <1>1, <1>2, <1>3, <1>4, <2>1, Concatenation, Zenon
  <2> QED BY <1>5, <2>1, <2>2, Zenon
<1> QED BY <1>2, <1>4, <1>6, <1>7, Zenon

\* The tail of the task queue.
LEMMA QueueTail ==
    ASSUME IndInv /\ taskQueue # << >>
    PROVE  /\ Tail(taskQueue) \in Seq(Task) /\ Len(taskQueue) \in Nat \ {0}
           /\ Len(Tail(taskQueue)) = Len(taskQueue) - 1 /\ Head(taskQueue) = taskQueue[1]
           /\ \A i \in 1 .. Len(taskQueue) - 1 : Tail(taskQueue)[i] = taskQueue[i + 1]
<1>1. taskQueue \in Seq(Task)
  BY Zenon DEF IndInv, TypeOK, ServiceTypeOK
<1>2. Tail(taskQueue) \in Seq(Task) /\ Len(Tail(taskQueue)) = Len(taskQueue) - 1
  BY <1>1, HeadAndTail, Zenon
<1>3. Len(taskQueue) \in Nat \ {0} /\ Head(taskQueue) = taskQueue[1]
  BY <1>1, HeadAndTail, Zenon
<1> QED BY <1>1, <1>2, <1>3

\* A finished task of the queue was one before the step, or has fetched the
\* node's block and stored it in this step.
LEMMA FinishedTasks ==
    ASSUME IndInv, [Next]_vars, NEW i \in 1 .. Len(taskQueue'),
           taskQueue'[i].kind = "main", taskQueue'[i].status = "done"
    PROVE  \/ \E j \in 1 .. Len(taskQueue) : taskQueue'[i] = taskQueue[j]
           \/ /\ taskQueue'[i].number \in 0 .. nodeHeight
              /\ taskQueue'[i].block = nodeChain[taskQueue'[i].number]
              /\ taskQueue'[i].block \in blockStore'
              /\ UNCHANGED nodeVars
<1>1. taskQueue \in Seq(Task) /\ queuedBlockNumber \in Nat /\ Len(taskQueue) \in Nat
  BY DEF IndInv, TypeOK, ServiceTypeOK
<1>2. CASE taskQueue' = taskQueue
  BY <1>2, Zenon
<1>3. CASE taskQueue' = << >>
  BY <1>3
<1>4. CASE taskQueue # << >> /\ taskQueue' = Tail(taskQueue)
  <2>1. /\ Len(taskQueue') = Len(taskQueue) - 1
        /\ \A k \in 1 .. Len(taskQueue) - 1 : taskQueue'[k] = taskQueue[k + 1]
    BY <1>4, QueueTail, Zenon
  <2>2. taskQueue'[i] = taskQueue[i + 1] /\ i + 1 \in 1 .. Len(taskQueue)
    BY <1>1, <2>1
  <2> QED BY <2>2, Zenon
<1>5. ASSUME NEW queue \in Seq(Task), NEW target \in Nat, PushTasks(queue, target)
      PROVE  i \in 1 .. Len(queue) /\ taskQueue'[i] = queue[i]
  <2>1. PICK count \in Nat :
           /\ Len(taskQueue') = Len(queue) + count
           /\ \A k \in 1 .. Len(queue) : taskQueue'[k] = queue[k]
           /\ \A k \in Len(queue) + 1 .. Len(queue) + count :
                    taskQueue'[k] = MainTask(queuedBlockNumber + (k - Len(queue)))
    BY <1>1, <1>5, PushedQueue, Zenon
  <2>2. ASSUME ~(i \in 1 .. Len(queue)) PROVE FALSE
    <3>1. i \in Len(queue) + 1 .. Len(queue) + count
      BY <2>1, <2>2
    <3>2. taskQueue'[i] = MainTask(queuedBlockNumber + (i - Len(queue)))
      BY <2>1, <3>1, Zenon
    <3>3. taskQueue'[i].status = "running"
      BY <3>2 DEF MainTask
    <3> QED BY <3>3, Zenon
  <2> QED BY <2>1, <2>2, Zenon
<1>6. CASE \E target \in Nat : PushTasks(taskQueue, target)
  BY <1>1, <1>5, <1>6, Zenon
<1>7. CASE taskQueue # << >> /\ \E target \in Nat : PushTasks(Tail(taskQueue), target)
  <2>1. /\ Tail(taskQueue) \in Seq(Task) /\ Len(Tail(taskQueue)) = Len(taskQueue) - 1
        /\ \A k \in 1 .. Len(taskQueue) - 1 : Tail(taskQueue)[k] = taskQueue[k + 1]
    BY <1>7, QueueTail, Zenon
  <2>2. i \in 1 .. Len(Tail(taskQueue)) /\ taskQueue'[i] = Tail(taskQueue)[i]
    BY <1>5, <1>7, <2>1, Zenon
  <2>3. taskQueue'[i] = taskQueue[i + 1] /\ i + 1 \in 1 .. Len(taskQueue)
    BY <1>1, <2>1, <2>2
  <2> QED BY <2>3, Zenon
<1>8. CASE TickRefreshPending
  <2> DEFINE task == PendingTask(Number[lastIngested] + 1, pendingState.generation + 1)
  <2>1. taskQueue' = Append(taskQueue, task) /\ task.kind = "pending"
    BY <1>8, Zenon DEF TickRefreshPending, PendingTask
  <2> HIDE DEF task
  <2>2. /\ Len(taskQueue') = Len(taskQueue) + 1 /\ taskQueue'[Len(taskQueue) + 1] = task
        /\ \A k \in 1 .. Len(taskQueue) : taskQueue'[k] = taskQueue[k]
    BY <1>1, <2>1
  <2>3. i # Len(taskQueue) + 1
    BY <2>1, <2>2, Zenon
  <2> QED BY <1>1, <2>2, <2>3
<1>9. ASSUME NEW k \in 1 .. Len(taskQueue), RunMainTask(k) \/ RunPendingTask(k)
      PROVE  \/ \E j \in 1 .. Len(taskQueue) : taskQueue'[i] = taskQueue[j]
             \/ /\ taskQueue'[i].number \in 0 .. nodeHeight
                /\ taskQueue'[i].block = nodeChain[taskQueue'[i].number]
                /\ taskQueue'[i].block \in blockStore'
                /\ UNCHANGED nodeVars
  <2>1. taskQueue[k] \in Task /\ k \in DOMAIN taskQueue
    BY <1>1
  <2>2. UNCHANGED nodeVars
    BY <1>9, Zenon DEF RunMainTask, RunPendingTask
  <2>3. ASSUME NEW task, taskQueue' = [taskQueue EXCEPT ![k] = task]
        PROVE  /\ i \in 1 .. Len(taskQueue)
               /\ i # k => taskQueue'[i] = taskQueue[i]
               /\ i = k => taskQueue'[i] = task
    <3>1. taskQueue = [n \in 1 .. Len(taskQueue) |-> taskQueue[n]]
      BY <1>1
    <3>2. taskQueue' = [n \in 1 .. Len(taskQueue) |-> IF n = k THEN task ELSE taskQueue[n]]
      BY <2>3, <3>1, Zenon
    <3>3. Len(taskQueue') = Len(taskQueue)
      BY <1>1, <3>2
    <3> QED BY <3>2, <3>3, Zenon
  <2>4. ASSUME NEW status \in {"notFound", "none"},
               taskQueue' = [taskQueue EXCEPT ![k].status = status]
        PROVE  i \in 1 .. Len(taskQueue) /\ taskQueue'[i] = taskQueue[i]
    <3>1. [taskQueue[k] EXCEPT !.status = status].status = status
      BY <2>1, Zenon DEF Task
    <3> QED BY <2>3, <2>4, <3>1, Zenon
  <2>5. CASE RunMainTask(k) /\ NodeHas(taskQueue[k].number)
    <3> DEFINE block == nodeChain[taskQueue[k].number]
               task  == [taskQueue[k] EXCEPT !.status = "done", !.block = block]
    <3>1. /\ taskQueue' = [taskQueue EXCEPT ![k].status = "done", ![k].block = block]
          /\ blockStore' = blockStore \cup {block}
      BY <2>5, Zenon DEF RunMainTask, StoreBlock
    <3>2. task.number = taskQueue[k].number /\ task.block = block
      BY <2>1, Zenon DEF Task
    <3>3. taskQueue' = [taskQueue EXCEPT ![k] = task]
      BY <2>1, <3>1, Zenon
    <3>4. task.number \in 0 .. nodeHeight /\ task.block = nodeChain[task.number]
      BY <2>5, <3>2, Zenon DEF NodeHas
    <3> HIDE DEF task
    <3>5. i = k => taskQueue'[i] = task
      BY <2>3, <3>3, Zenon
    <3>6. i # k => i \in 1 .. Len(taskQueue) /\ taskQueue'[i] = taskQueue[i]
      BY <2>3, <3>3, Zenon
    <3>7. CASE i = k
      BY <2>2, <3>1, <3>2, <3>4, <3>5, <3>7
    <3> QED BY <3>6, <3>7, Zenon
  <2>6. CASE RunMainTask(k) /\ ~NodeHas(taskQueue[k].number)
    BY <2>4, <2>6, Zenon DEF RunMainTask
  <2>7. CASE RunPendingTask(k)
    <3>1. taskQueue[k].kind = "pending"
      BY <2>7, Zenon DEF RunPendingTask
    <3>2. CASE taskQueue' = [taskQueue EXCEPT ![k].status = "none"]
      BY <2>4, <3>2, Zenon
    <3>3. CASE taskQueue' = [taskQueue EXCEPT ![k].status = "done"]
      <4>1. [taskQueue[k] EXCEPT !.status = "done"].kind = "pending"
        BY <2>1, <3>1, Zenon DEF Task
      <4>2. i # k
        BY <2>3, <3>3, <4>1, Zenon
      <4> QED BY <2>3, <3>3, <4>2, Zenon
    <3> QED BY <2>7, <3>2, <3>3, Zenon DEF RunPendingTask
  <2> QED BY <1>9, <2>5, <2>6, <2>7, Zenon
<1> QED BY <1>2, <1>3, <1>4, <1>6, <1>7, <1>8, <1>9, QueueKinds, Zenon

=============================================================================

------------------------- MODULE PublicationProofs -------------------------
(***************************************************************************)
(* What the service publishes, and what readers and clients may rely on:   *)
(* every published block is stored, and the task queue asks for            *)
(* consecutive blocks; while the service does not stop, a client at any    *)
(* block that was ever published can go on; and each publication extends   *)
(* the published chain or cuts it above the uploaded segments, which is    *)
(* what PublishedChain promises.                                           *)
(***************************************************************************)
EXTENDS IngestionProofs

-----------------------------------------------------------------------------
(* Published blocks are stored                                             *)

BlocksIn(c, store) == \A n \in c.first .. c.last : c.canonical[n] \in store

\* Every block the service or a reader can reach has been stored: those of
\* the builder, of the published and the uploaded segments and of the
\* finished tasks.
StoredOK ==
    /\ Running => BlocksIn(builder, blockStore)
    /\ recent # Null => BlocksIn(recent, blockStore)
    /\ legacy # Null => BlocksIn(legacy, blockStore)
    /\ \A n \in DOMAIN segments : BlocksIn(segments[n], blockStore)
    /\ \A i \in 1 .. Len(taskQueue) :
        taskQueue[i].kind = "main" /\ taskQueue[i].status = "done" =>
            taskQueue[i].block \in blockStore

\* Stored blocks stay stored.
LEMMA BlocksStayIn ==
    ASSUME NEW c, NEW store, NEW more, store \subseteq more /\ BlocksIn(c, store)
    PROVE  BlocksIn(c, more)
BY Zenon DEF BlocksIn

\* No step deletes the object of a block.
LEMMA StoreGrows ==
    ASSUME [Next]_vars
    PROVE  blockStore \subseteq blockStore'
<1>1. CASE SilentStep
  BY <1>1, SilentStepIsSilent, Zenon
<1>2. CASE InitializeResume \/ InitializeRecover \/ InitializeStart
  BY <1>2, Zenon DEF InitializeResume, InitializeRecover, InitializeStart
<1>3. CASE InitializeStartFail
  BY <1>3, Zenon DEF InitializeStartFail
<1>4. CASE TickTaskBlock \/ TickTaskBlockFail \/ TickRecoverDone
  BY <1>4, Zenon DEF TickTaskBlock, TickTaskBlockFail, TickRecoverDone, objectVars
<1> QED BY <1>1, <1>2, <1>3, <1>4, StepKinds, Zenon

\* The blocks of the grown builder are stored, and so are those of the
\* segment taken from it and those that are left.
LEMMA GrownIsStored ==
    ASSUME IndInv, StoredOK, TaskFinished("main", "done"),
           CanGrow(builder, Head(taskQueue).block)
    PROVE  /\ BlocksIn(Grown, blockStore)
           /\ SegmentIsDue(Grown) =>
                /\ BlocksIn(TakenSegment(Grown, ChainSegmentSize), blockStore)
                /\ BlocksIn(AfterTake(Grown, ChainSegmentSize), blockStore)
<1>1. /\ mode = "ingest" /\ IsBuilder(builder) /\ IsBuilder(Grown) /\ IsLinked(Grown)
      /\ Grown.first = builder.first /\ Grown.last = builder.last + 1
      /\ LastBlock(Grown) = Head(taskQueue).block
      /\ \A n \in builder.first .. builder.last : Grown.canonical[n] = builder.canonical[n]
  BY GrownFacts, Zenon
<1>2. Head(taskQueue).block \in blockStore
  <2>1. taskQueue # << >> /\ Head(taskQueue).kind = "main" /\ Head(taskQueue).status = "done"
    BY Zenon DEF TaskFinished
  <2>2. Head(taskQueue) = taskQueue[1] /\ 1 \in 1 .. Len(taskQueue)
    BY <2>1, QueueTail
  <2> QED BY <2>1, <2>2, Zenon DEF StoredOK
<1>3. ASSUME NEW n \in Grown.first .. Grown.last
      PROVE  Grown.canonical[n] \in blockStore
  <2>1. builder.first \in Nat /\ builder.last \in Nat
    BY <1>1, ChainFields, Zenon
  <2>2. CASE n = builder.last + 1
    BY <1>1, <1>2, <2>2, Zenon DEF LastBlock
  <2>3. CASE n # builder.last + 1
    <3>1. n \in builder.first .. builder.last
      BY <1>1, <2>1, <2>3
    <3>2. builder.canonical[n] \in blockStore
      BY <1>1, <3>1, Zenon DEF StoredOK, Running, BlocksIn
    <3> QED BY <1>1, <3>1, <3>2, Zenon
  <2> QED BY <2>2, <2>3, Zenon
<1>4. ASSUME SegmentIsDue(Grown)
      PROVE  /\ BlocksIn(TakenSegment(Grown, ChainSegmentSize), blockStore)
             /\ BlocksIn(AfterTake(Grown, ChainSegmentSize), blockStore)
  <2> DEFINE taken == TakenSegment(Grown, ChainSegmentSize)
             left  == AfterTake(Grown, ChainSegmentSize)
  <2>1. CanTakeSegment(Grown, ChainSegmentSize) /\ ChainSegmentSize \in Nat \ {0}
    BY <1>1, <1>4, DueSegmentIsTaken, Zenon
  <2>2. /\ taken.first = Grown.first /\ taken.last = Grown.first + ChainSegmentSize - 1
        /\ left.first = Grown.first + ChainSegmentSize /\ left.last = Grown.last
        /\ \A n \in taken.first .. taken.last : taken.canonical[n] = Grown.canonical[n]
        /\ \A n \in left.first .. left.last : left.canonical[n] = Grown.canonical[n]
    BY <1>1, <2>1, TakeSplitsChain, Zenon
  <2> HIDE DEF taken, left
  <2>3. Grown.first \in Nat /\ Grown.last \in Nat
    BY <1>1, ChainFields, Zenon
  <2>4. Grown.last - Grown.first >= ChainSegmentSize
    BY <2>1, Zenon DEF CanTakeSegment
  <2>5. \A n \in taken.first .. taken.last : n \in Grown.first .. Grown.last
    BY <2>1, <2>2, <2>3, <2>4
  <2>6. \A n \in left.first .. left.last : n \in Grown.first .. Grown.last
    BY <2>1, <2>2, <2>3
  <2>7. BlocksIn(taken, blockStore) /\ BlocksIn(left, blockStore)
    BY <1>3, <2>2, <2>5, <2>6, Zenon DEF BlocksIn
  <2> QED BY <2>7, Zenon DEF taken, left
<1> QED BY <1>3, <1>4, Zenon DEF BlocksIn

\* Uploading a stored segment.
LEMMA PutStoredSegment ==
    ASSUME NEW s, NEW store, BlocksIn(s, store),
           \A n \in DOMAIN segments : BlocksIn(segments[n], store)
    PROVE  \A n \in DOMAIN PutSegment(s) : BlocksIn(PutSegment(s)[n], store)
<1> DEFINE put == PutSegment(s)
<1>1. /\ DOMAIN put = DOMAIN segments \cup {s.first} /\ put[s.first] = s
      /\ \A n \in DOMAIN segments : n # s.first => put[n] = segments[n]
  BY PutSegmentIs, Zenon
<1> HIDE DEF put
<1>2. \A n \in DOMAIN put : BlocksIn(put[n], store)
  BY <1>1, Zenon
<1> QED BY <1>2, Zenon DEF put

\* The snapshot of a builder has the builder's blocks.
LEMMA SnapshotIsStored ==
    ASSUME NEW c, NEW store, IsBuilder(c) /\ IsLinked(c) /\ BlocksIn(c, store)
    PROVE  BlocksIn(CurrentSegment(c), store)
BY CurrentSegmentKeepsChain, Zenon DEF BlocksIn

\* Every step keeps the blocks in reach stored.
LEMMA StoredStep ==
    ASSUME IndInv /\ IndInv' /\ StoredOK /\ [Next]_vars
    PROVE  StoredOK'
<1>1. blockStore \subseteq blockStore'
  BY StoreGrows, Zenon
<1>2. ASSUME NEW i \in 1 .. Len(taskQueue'),
             taskQueue'[i].kind = "main", taskQueue'[i].status = "done"
      PROVE  taskQueue'[i].block \in blockStore'
  BY <1>1, <1>2, FinishedTasks, Zenon DEF StoredOK
<1>3. /\ recent # Null => BlocksIn(recent, blockStore')
      /\ legacy # Null => BlocksIn(legacy, blockStore')
      /\ Running => BlocksIn(builder, blockStore')
      /\ \A n \in DOMAIN segments : BlocksIn(segments[n], blockStore')
  BY <1>1, BlocksStayIn, Zenon DEF StoredOK
<1>4. SUFFICES /\ Running' => BlocksIn(builder', blockStore')
               /\ recent' # Null => BlocksIn(recent', blockStore')
               /\ legacy' # Null => BlocksIn(legacy', blockStore')
               /\ \A n \in DOMAIN segments' : BlocksIn(segments'[n], blockStore')
  BY <1>2, Zenon DEF StoredOK
<1>5. CASE SilentStep
  <2>1. /\ recent' = recent /\ segments' = segments /\ legacy' = legacy
        /\ Running' => Running /\ builder' = builder
    BY <1>5, SilentStepIsSilent, Zenon
  <2> QED BY <1>3, <2>1, Zenon
<1>6. CASE InitializeResume \/ InitializeRecover
  <2>1. PICK s : /\ recent' = s
                 /\ \/ recent # Null /\ s = recent
                    \/ recent = Null /\ legacy # Null /\ s = legacy
                 /\ builder'.first = s.first /\ builder'.last = s.last
                 /\ builder'.canonical = s.canonical
                 /\ segments' = segments /\ legacy' \in {legacy, Null}
    BY <1>6, RestoreStep, Zenon
  <2>2. BlocksIn(s, blockStore')
    BY <1>3, <2>1, Zenon
  <2>3. BlocksIn(builder', blockStore')
    BY <2>1, <2>2, Zenon DEF BlocksIn
  <2> QED BY <1>3, <2>1, <2>2, <2>3, Zenon
<1>7. CASE InitializeStart
  <2> DEFINE block == nodeChain[StartingBlock]
  <2>1. /\ blockStore' = blockStore \cup {block} /\ builder' = Grow(Null, block)
        /\ recent' = CurrentSegment(Grow(Null, block)) /\ segments' = segments
        /\ legacy' = legacy /\ block \in Block
    BY <1>7, IngestionAssumption, Zenon DEF InitializeStart, Publish, NodeHas, IndInv, NodeOK
  <2> HIDE DEF block
  <2>2. /\ IsBuilder(builder') /\ IsLinked(builder')
        /\ builder'.first = Number[block] /\ builder'.last = Number[block]
        /\ builder'.canonical = [n \in {Number[block]} |-> block] /\ Number[block] \in Nat
    BY <2>1, GrowEmpty, BlockAssumption, Zenon
  <2>3. BlocksIn(builder', blockStore')
    <3>1. \A n \in builder'.first .. builder'.last : n = Number[block]
      BY <2>2
    <3> QED BY <2>1, <2>2, <3>1, Zenon DEF BlocksIn
  <2>4. BlocksIn(recent', blockStore')
    BY <2>1, <2>2, <2>3, SnapshotIsStored, Zenon
  <2> QED BY <1>3, <2>1, <2>3, <2>4, Zenon
<1>8. CASE InitializeStartFail
  <2>1. recent' = recent /\ segments' = segments /\ legacy' = legacy /\ mode' = "down"
    BY <1>8, Zenon DEF InitializeStartFail, Stop
  <2> QED BY <1>3, <2>1, Zenon DEF Running
<1>9. CASE TickTaskBlock
  <2>1. /\ TaskFinished("main", "done") /\ CanGrow(builder, Head(taskQueue).block)
        /\ \/ /\ ~SegmentIsDue(Grown)
              /\ builder' = Grown /\ segments' = segments
              /\ recent' \in {recent, CurrentSegment(Grown)}
           \/ /\ SegmentIsDue(Grown)
              /\ builder' = AfterTake(Grown, ChainSegmentSize)
              /\ segments' = PutSegment(TakenSegment(Grown, ChainSegmentSize))
              /\ recent' = CurrentSegment(builder')
        /\ mode' = mode /\ blockStore' = blockStore /\ legacy' = legacy
    BY <1>9, BlockStep, Zenon
  <2>2. /\ BlocksIn(Grown, blockStore)
        /\ SegmentIsDue(Grown) =>
             /\ BlocksIn(TakenSegment(Grown, ChainSegmentSize), blockStore)
             /\ BlocksIn(AfterTake(Grown, ChainSegmentSize), blockStore)
    BY <2>1, GrownIsStored, Zenon
  <2>3. IsBuilder(builder') /\ IsLinked(builder')
    BY <2>1, Zenon DEF IndInv, ServiceOK, Running, TaskFinished
  <2>4. BlocksIn(builder', blockStore')
    BY <2>1, <2>2, Zenon
  <2>5. BlocksIn(CurrentSegment(builder'), blockStore')
    BY <2>3, <2>4, SnapshotIsStored, Zenon
  <2>6. recent' # Null => BlocksIn(recent', blockStore')
    BY <1>3, <2>1, <2>5, Zenon
  <2>7. \A n \in DOMAIN segments' : BlocksIn(segments'[n], blockStore')
    BY <1>3, <2>1, <2>2, PutStoredSegment, Zenon
  <2> QED BY <1>3, <2>1, <2>4, <2>6, <2>7, Zenon
<1>10. CASE TickTaskBlockFail
  <2>1. /\ TaskFinished("main", "done") /\ CanGrow(builder, Head(taskQueue).block)
        /\ SegmentIsDue(Grown) /\ mode' = "down"
        /\ segments' = PutSegment(TakenSegment(Grown, ChainSegmentSize))
        /\ recent' = recent /\ blockStore' = blockStore /\ legacy' = legacy
    BY <1>10, Zenon DEF TickTaskBlockFail, Stop, Grown, etcdVars
  <2>2. BlocksIn(TakenSegment(Grown, ChainSegmentSize), blockStore')
    BY <2>1, GrownIsStored, Zenon
  <2>3. \A n \in DOMAIN segments' : BlocksIn(segments'[n], blockStore')
    BY <1>3, <2>1, <2>2, PutStoredSegment, Zenon
  <2> QED BY <1>3, <2>1, <2>3, Zenon DEF Running
<1>11. CASE TickRecoverDone
  <2> DEFINE cut == Shrink(builder, candidate)
  <2>1. /\ mode = "recover" /\ IsBuilder(builder) /\ builder' = cut /\ recent' = CurrentSegment(cut)
        /\ IsBuilder(cut) /\ IsLinked(cut) /\ CanShrink(builder, candidate)
        /\ cut.first = builder.first /\ cut.last = Number[candidate]
        /\ \A n \in cut.first .. cut.last : cut.canonical[n] = builder.canonical[n]
        /\ segments' = segments /\ legacy' = legacy
    BY <1>11, RecoverStep, Zenon DEF objectVars
  <2> HIDE DEF cut
  <2>2. cut.last <= builder.last /\ builder.first \in Nat /\ builder.last \in Nat /\ cut.last \in Nat
    BY <2>1, ChainFields DEF CanShrink
  <2>3. \A n \in cut.first .. cut.last : n \in builder.first .. builder.last
    BY <2>1, <2>2
  <2>4. BlocksIn(cut, blockStore')
    BY <1>3, <2>1, <2>3, Zenon DEF BlocksIn, Running
  <2>5. BlocksIn(recent', blockStore')
    BY <2>1, <2>4, SnapshotIsStored, Zenon
  <2> QED BY <1>3, <2>1, <2>4, <2>5, Zenon
<1> QED BY <1>5, <1>6, <1>7, <1>8, <1>9, <1>10, <1>11, StepKinds, Zenon

\* The object of every published block was written before the block was
\* published, whatever fails in between: the tasks store a block before they
\* hand it over, and nothing else reaches the builder.
THEOREM StoredBlocks == Spec => []PublishedBlocksAreStored
<1>1. Init => StoredOK
  <2> SUFFICES ASSUME Init PROVE StoredOK
    BY Zenon
  <2>1. /\ mode = "down" /\ recent = Null /\ segments = [n \in {} |-> Null] /\ taskQueue = << >>
        /\ legacy = Null \/ (legacy = LegacySegment /\ blockStore = Range(InitialChain))
    BY Zenon DEF Init
  <2>2. InitialHeight \in Nat /\ InitialChain \in [0 .. InitialHeight -> Block]
    BY NodeAssumption, Zenon
  <2>3. BlocksIn(LegacySegment, Range(InitialChain))
    BY <2>2, Zenon DEF BlocksIn, LegacySegment, Range
  <2>4. Len(taskQueue) = 0
    BY <2>1, Zenon
  <2> QED BY <2>1, <2>3, <2>4 DEF StoredOK, Running
<1>2. IndInv /\ IndInv' /\ StoredOK /\ [Next]_vars => StoredOK'
  BY StoredStep, Zenon
<1>3. IndInv /\ StoredOK => PublishedBlocksAreStored
  <2> SUFFICES ASSUME IndInv, StoredOK, recent # Null, NEW n \in PublishedRange
               PROVE  CanonicalBlock(View, n) \in blockStore
    BY Zenon DEF PublishedBlocksAreStored
  <2>1. IsArchived(View) /\ View.starting = startingBlock /\ View.recent = recent
        /\ View.store = segments /\ n \in View.starting .. View.recent.last
    BY Zenon DEF IndInv, PublishedOK, IsView, View, PublishedRange
  <2>2. startingBlock \in Nat /\ recent.first \in Nat /\ recent.last \in Nat /\ n \in Nat
    BY <2>1, ChainFields DEF IsArchived
  <2>3. CASE n >= recent.first
    <3>1. CanonicalBlock(View, n) = recent.canonical[n]
      BY <2>1, <2>3, CanonicalBlockIs, Zenon
    <3>2. n \in recent.first .. recent.last
      BY <2>1, <2>2, <2>3
    <3> QED BY <3>1, <3>2, Zenon DEF StoredOK, BlocksIn
  <2>4. CASE n < recent.first
    <3> DEFINE start == ChainSegmentStart(n, startingBlock)
    <3>1. CanonicalBlock(View, n) = segments[start].canonical[n]
      BY <2>1, <2>4, CanonicalBlockIs, Zenon
    <3>2. n \in View.starting .. View.recent.first - 1
      BY <2>1, <2>2, <2>4
    <3>3. /\ start \in DOMAIN segments /\ segments[start].first = start
          /\ segments[start].last = start + ChainSegmentSize - 1
      BY <2>1, <3>2, Zenon DEF IsArchived
    <3>4. start \in Nat /\ start <= n /\ n < start + ChainSegmentSize
      BY <2>1, <2>2, SegmentStartFacts
    <3> HIDE DEF start
    <3>5. n \in segments[start].first .. segments[start].last
      BY <2>2, <3>3, <3>4, ChainSegmentSizeAssumption
    <3> QED BY <3>1, <3>3, <3>5, Zenon DEF StoredOK, BlocksIn
  <2> QED BY <2>2, <2>3, <2>4
<1> QED BY <1>1, <1>2, <1>3, Inductive, PTL DEF Spec

-----------------------------------------------------------------------------
(* The blocks a chain knows, and what it answers about them                *)

\* The block is on the builder's chain or a reorged block it remembers.
BuilderKnows(c, b) ==
    \/ Number[b] \in c.first .. c.last /\ c.canonical[Number[b]] = b
    \/ b \in DOMAIN c.reorgs

\* A segment that is asked for the number of the block knows the block.
SegmentKnows(s, b) ==
    IF Number[b] <= s.last THEN s.canonical[Number[b]] = b \/ b \in DOMAIN s.reorgs
                           ELSE b \in DOMAIN s.extraReorgs

\* The segment a reader consults for the block knows it, and so does the
\* builder, from which the next snapshot is made.
BlockKnown(b, starting, shown, c, store) ==
    /\ starting <= Number[b]
    /\ shown.first <= Number[b] => SegmentKnows(shown, b) /\ BuilderKnows(c, b)
    /\ Number[b] < shown.first => SegmentKnows(store[ChainSegmentStart(Number[b], starting)], b)

\* The snapshot of a builder knows what the builder knows.
LEMMA SnapshotKnows ==
    ASSUME NEW c, IsBuilder(c), NEW b \in Block, c.first <= Number[b], BuilderKnows(c, b)
    PROVE  SegmentKnows(CurrentSegment(c), b)
<1>1. /\ c.first \in Nat /\ c.last \in Nat /\ Number[b] \in Nat
  BY ChainFields, BlockAssumption, Zenon
<1>2. /\ CurrentSegment(c).last = c.last /\ CurrentSegment(c).canonical = c.canonical
      /\ DOMAIN CurrentSegment(c).reorgs = {x \in DOMAIN c.reorgs : Number[x] \in c.first .. c.last}
      /\ DOMAIN CurrentSegment(c).extraReorgs = {x \in DOMAIN c.reorgs : Number[x] > c.last}
  BY Zenon DEF CurrentSegment, ReorgsIn, ReorgsAbove, Restrict
<1> QED BY <1>1, <1>2 DEF SegmentKnows, BuilderKnows

\* A chain's own blocks are known to its builder.
LEMMA BuilderKnowsItsBlocks ==
    ASSUME NEW c, IsBuilder(c), NEW b \in Range(c.canonical)
    PROVE  b \in Block /\ c.first <= Number[b] /\ BuilderKnows(c, b)
<1>1. PICK n \in c.first .. c.last : b = c.canonical[n]
  BY ChainFields, Zenon DEF Range
<1> QED BY <1>1, ChainFields DEF BuilderKnows

\* The builder that has shrunk knows what it knew before.
LEMMA ShrinkKnows ==
    ASSUME NEW c, IsBuilder(c), IsLinked(c), NEW newHead \in Block, CanShrink(c, newHead),
           NEW b \in Block, BuilderKnows(c, b)
    PROVE  BuilderKnows(Shrink(c, newHead), b)
<1> DEFINE cut == Shrink(c, newHead)
<1>1. /\ cut.first = c.first /\ cut.last = Number[newHead]
      /\ \A n \in cut.first .. cut.last : cut.canonical[n] = c.canonical[n]
  BY ShrinkKeepsChain, Zenon
<1>2. DOMAIN cut.reorgs = DOMAIN c.reorgs \cup Removed(c, newHead)
  BY Zenon DEF Shrink, RecordReorgs
<1>3. c.first \in Nat /\ c.last \in Nat /\ Number[newHead] \in Nat /\ Number[b] \in Nat
  BY ChainFields, BlockAssumption, Zenon
<1>4. CASE b \in DOMAIN c.reorgs
  BY <1>2, <1>4, Zenon DEF BuilderKnows
<1>5. CASE Number[b] \in c.first .. c.last /\ c.canonical[Number[b]] = b
  <2>1. CASE Number[b] <= Number[newHead]
    <3>1. Number[b] \in cut.first .. cut.last
      BY <1>1, <1>3, <1>5, <2>1
    <3> QED BY <1>1, <1>5, <3>1, Zenon DEF BuilderKnows
  <2>2. CASE ~(Number[b] <= Number[newHead])
    <3>1. Number[b] \in Number[newHead] + 1 .. c.last
      BY <1>3, <1>5, <2>2
    <3>2. b \in Removed(c, newHead)
      BY <1>5, <3>1, Zenon DEF Removed
    <3> QED BY <1>2, <3>2, Zenon DEF BuilderKnows
  <2> QED BY <2>1, <2>2, Zenon
<1> QED BY <1>4, <1>5, Zenon DEF BuilderKnows

\* Taking a segment divides what the builder knows between the segment and
\* what is left.
LEMMA TakeKnows ==
    ASSUME NEW c, IsBuilder(c), IsLinked(c), CanTakeSegment(c, ChainSegmentSize),
           NEW b \in Block, c.first <= Number[b], BuilderKnows(c, b)
    PROVE  LET t == TakenSegment(c, ChainSegmentSize)
               a == AfterTake(c, ChainSegmentSize)
           IN  /\ Number[b] < a.first => SegmentKnows(t, b)
               /\ a.first <= Number[b] => BuilderKnows(a, b)
<1> DEFINE t == TakenSegment(c, ChainSegmentSize)
           a == AfterTake(c, ChainSegmentSize)
<1>1. /\ c.first \in Nat /\ c.last \in Nat /\ Number[b] \in Nat /\ ChainSegmentSize \in Nat \ {0}
  BY ChainFields, BlockAssumption, ChainSegmentSizeAssumption, Zenon
<1>2. /\ t.first = c.first /\ t.last = c.first + ChainSegmentSize - 1
      /\ a.first = c.first + ChainSegmentSize /\ a.last = c.last
      /\ \A n \in t.first .. t.last : t.canonical[n] = c.canonical[n]
      /\ \A n \in a.first .. a.last : a.canonical[n] = c.canonical[n]
  BY <1>1, TakeSplitsChain, Zenon
<1>3. /\ DOMAIN t.reorgs = {x \in DOMAIN c.reorgs :
                                Number[x] \in c.first .. (c.first + ChainSegmentSize - 1)}
      /\ DOMAIN a.reorgs = {x \in DOMAIN c.reorgs : Number[x] > (c.first + ChainSegmentSize) - 1}
  BY Zenon DEF TakenSegment, AfterTake, ReorgsIn, ReorgsAbove, Restrict
<1> HIDE DEF t, a
<1>4. ASSUME Number[b] < a.first
      PROVE  SegmentKnows(t, b)
  <2>1. Number[b] \in c.first .. (c.first + ChainSegmentSize - 1) /\ Number[b] <= t.last
        /\ Number[b] \in t.first .. t.last
    BY <1>1, <1>2, <1>4
  <2>2. b \in DOMAIN c.reorgs => b \in DOMAIN t.reorgs
    BY <1>3, <2>1, Zenon
  <2>3. t.canonical[Number[b]] = c.canonical[Number[b]]
    BY <1>2, <2>1, Zenon
  <2> QED BY <2>1, <2>2, <2>3, Zenon DEF SegmentKnows, BuilderKnows
<1>5. ASSUME a.first <= Number[b]
      PROVE  BuilderKnows(a, b)
  <2>1. b \in DOMAIN c.reorgs => b \in DOMAIN a.reorgs
    BY <1>1, <1>2, <1>3, <1>5
  <2>2. Number[b] \in c.first .. c.last =>
            Number[b] \in a.first .. a.last /\ a.canonical[Number[b]] = c.canonical[Number[b]]
    BY <1>1, <1>2, <1>5
  <2> QED BY <2>1, <2>2, Zenon DEF BuilderKnows
<1> QED BY <1>4, <1>5, Zenon DEF t, a

\* Publishing a builder that knows every published block at or above its
\* first block, with the segments below it untouched.
LEMMA PublishedIsKnown ==
    ASSUME NEW c, IsBuilder(c), IsLinked(c), NEW starting \in Nat, starting <= c.first,
           NEW store, NEW known, known \subseteq Block,
           \A b \in known :
                /\ starting <= Number[b]
                /\ c.first <= Number[b] => BuilderKnows(c, b)
                /\ Number[b] < c.first =>
                        SegmentKnows(store[ChainSegmentStart(Number[b], starting)], b)
    PROVE  \A b \in known \cup Range(c.canonical) :
                BlockKnown(b, starting, CurrentSegment(c), c, store)
<1>1. CurrentSegment(c).first = c.first /\ c.first \in Nat
  BY CurrentSegmentKeepsChain, ChainFields, Zenon
<1>2. ASSUME NEW b \in Range(c.canonical)
      PROVE  BlockKnown(b, starting, CurrentSegment(c), c, store)
  <2>1. b \in Block /\ c.first <= Number[b] /\ BuilderKnows(c, b) /\ Number[b] \in Nat
    BY BuilderKnowsItsBlocks, BlockAssumption, Zenon
  <2>2. SegmentKnows(CurrentSegment(c), b)
    BY <2>1, SnapshotKnows, Zenon
  <2>3. starting <= Number[b] /\ ~(Number[b] < c.first)
    BY <1>1, <2>1
  <2> QED BY <1>1, <2>1, <2>2, <2>3, Zenon DEF BlockKnown
<1>3. ASSUME NEW b \in known
      PROVE  BlockKnown(b, starting, CurrentSegment(c), c, store)
  <2>1. c.first <= Number[b] => SegmentKnows(CurrentSegment(c), b)
    BY SnapshotKnows, Zenon
  <2> QED BY <1>1, <2>1, Zenon DEF BlockKnown
<1> QED BY <1>2, <1>3, Zenon

\* A published block is answered: its client is given the next block, told it
\* is at the head, or sent back; and its cursor is accepted.
LEMMA KnownBlocksAreAnswered ==
    ASSUME NEW v, IsView(v), NEW b \in Block, NEW c,
           BlockKnown(b, v.starting, v.recent, c, v.store)
    PROVE  /\ GetNextCursor(v, CursorOf(b)).kind # "error"
           /\ GetCanonical(v, Number[b]).kind = "canonical" =>
                ValidateCursor(v, CursorOf(b)) = Reply("valid", b)
<1> DEFINE n == Number[b]
           start == ChainSegmentStart(n, v.starting)
           segment == GetChainSegment(v, n)
<1>1. IsArchived(v)
  BY Zenon DEF IsView
<1>2. /\ v.starting \in Nat /\ IsSegment(v.recent) /\ v.starting <= v.recent.first
      /\ n \in Nat /\ v.starting <= n /\ b # ZeroHash /\ b # Null
      /\ v.recent.first \in Nat /\ v.recent.last \in Nat /\ v.recent.first <= v.recent.last
  BY <1>1, ChainFields, BlockAssumption, Zenon DEF IsArchived, BlockKnown
<1>3. \A m \in v.starting .. v.recent.last : CanonicalBlock(v, m) \in Block
  BY <1>1, CanonicalBlockIs, Zenon
<1>4. /\ segment # Null /\ IsSegment(segment) /\ segment.first <= n
      /\ SegmentKnows(segment, b)
      /\ n > segment.last => n > v.recent.last
      /\ n <= segment.last => n <= v.recent.last /\ CanonicalBlock(v, n) = segment.canonical[n]
  <2>1. CASE v.recent.first <= n
    <3>0. ~(v.recent.first > n)
      BY <1>2, <2>1
    <3>1. segment = v.recent
      BY <1>1, <2>1, <3>0, Zenon DEF GetChainSegment
    <3>2. n <= v.recent.last => n \in v.starting .. v.recent.last /\ n >= v.recent.first
      BY <1>1, <1>2, <2>1
    <3>3. n <= v.recent.last => CanonicalBlock(v, n) = v.recent.canonical[n]
      BY <1>1, <3>2, CanonicalBlockIs, Zenon
    <3>4. v.recent # Null
      BY <1>2, ChainsAreNotNull, Zenon
    <3> QED BY <1>2, <2>1, <3>1, <3>3, <3>4, Zenon DEF BlockKnown
  <2>2. CASE ~(v.recent.first <= n)
    <3>1. n \in v.starting .. v.recent.first - 1 /\ v.recent.first > n /\ n < v.recent.first
      BY <1>2, <2>2
    <3>2. /\ start \in DOMAIN v.store /\ IsSegment(v.store[start])
          /\ v.store[start].first = start
          /\ v.store[start].last = start + ChainSegmentSize - 1
      BY <1>1, <3>1, Zenon DEF IsArchived
    <3>3. start \in Nat /\ start <= n /\ n < start + ChainSegmentSize
          /\ ChainSegmentSize \in Nat \ {0}
      BY <1>2, SegmentStartFacts, ChainSegmentSizeAssumption, Zenon
    <3>4. segment = v.store[start]
      BY <1>1, <2>2, <3>1, <3>2, Zenon DEF GetChainSegment
    <3>5. n \in v.starting .. v.recent.last /\ n < v.recent.first /\ n <= v.recent.last
      BY <1>1, <1>2, <3>1
    <3>6. CanonicalBlock(v, n) = v.store[start].canonical[n]
      BY <1>1, <3>5, CanonicalBlockIs, Zenon
    <3>7. n <= v.store[start].last /\ ~(n > v.store[start].last)
      BY <1>2, <3>2, <3>3, NumberOfSegment, Zenon
    <3>8. v.store[start] # Null
      BY <3>2, ChainsAreNotNull, Zenon
    <3> QED BY <3>1, <3>2, <3>3, <3>4, <3>5, <3>6, <3>7, <3>8, Zenon DEF BlockKnown
  <2> QED BY <2>1, <2>2, Zenon
<1>5. segment.first \in Nat /\ segment.last \in Nat
  BY <1>4, ChainFields, Zenon
<1>6. CursorOf(b).number = n /\ CursorOf(b).hash = b
  BY Zenon DEF CursorOf
<1> HIDE DEF segment
<1>7. \/ Reconnect(segment, CursorOf(b)).kind = "continue" /\ n <= v.recent.last
      \/ Reconnect(segment, CursorOf(b)).kind = "offlineReorg"
  <2>1. CASE n > segment.last
    <3>1. b \in DOMAIN segment.extraReorgs /\ ~(n < segment.first) /\ ~(n <= segment.last)
      BY <1>2, <1>4, <1>5, <2>1 DEF SegmentKnows
    <3>2. Reconnect(segment, CursorOf(b)) = LookupReorg(segment.extraReorgs, b)
      BY <1>6, <2>1, <3>1, Zenon DEF Reconnect
    <3> QED BY <3>1, <3>2 DEF LookupReorg, Reply
  <2>2. CASE n <= segment.last
    <3>1. /\ segment.canonical[n] = b \/ b \in DOMAIN segment.reorgs
          /\ ~(n < segment.first) /\ ~(n > segment.last)
      BY <1>2, <1>4, <1>5, <2>2 DEF SegmentKnows
    <3>2. CASE segment.canonical[n] = b
      <4>1. Reconnect(segment, CursorOf(b)) = Reply("continue", Null)
        BY <1>6, <3>1, <3>2, Zenon DEF Reconnect
      <4> QED BY <1>4, <2>2, <4>1 DEF Reply
    <3>3. CASE segment.canonical[n] # b
      <4>1. Reconnect(segment, CursorOf(b)) = LookupReorg(segment.reorgs, b)
        BY <1>2, <1>6, <3>1, <3>3, Zenon DEF Reconnect
      <4> QED BY <3>1, <3>3, <4>1 DEF LookupReorg, Reply
    <3> QED BY <3>2, <3>3, Zenon
  <2> QED BY <1>2, <1>5, <2>1, <2>2
<1>8. GetNextCursor(v, CursorOf(b)).kind # "error"
  <2> DEFINE action == Reconnect(segment, CursorOf(b))
             answer == GetNextCursor(v, CursorOf(b))
  <2>1. GetChainSegment(v, CursorOf(b).number) = segment
    BY <1>6, Zenon DEF segment
  <2>2. CASE action.kind = "offlineReorg"
    <3>1. answer = Reply("invalidate", action.target)
      BY <1>4, <2>1, <2>2, Zenon DEF GetNextCursor
    <3> QED BY <3>1 DEF Reply
  <2>3. CASE action.kind = "continue" /\ n = v.recent.last
    <3>1. answer = Reply("atHead", Null)
      BY <1>1, <1>4, <1>6, <2>1, <2>3, Zenon DEF GetNextCursor
    <3> QED BY <3>1 DEF Reply
  <2>4. CASE action.kind = "continue" /\ n # v.recent.last /\ n <= v.recent.last
    <3>1. n + 1 \in v.starting .. v.recent.last
      BY <1>2, <2>4
    <3>2. CanonicalBlock(v, n + 1) # Null
      BY <1>3, <3>1, BlockAssumption, Zenon
    <3>3. answer = Reply("continue", CanonicalBlock(v, n + 1))
      BY <1>1, <1>4, <1>6, <2>1, <2>4, <3>2, Zenon DEF GetNextCursor
    <3> QED BY <3>3 DEF Reply
  <2> QED BY <1>7, <2>2, <2>3, <2>4, Zenon
<1>9. ASSUME GetCanonical(v, n).kind = "canonical"
      PROVE  ValidateCursor(v, CursorOf(b)) = Reply("valid", b)
  <2>1. ~(n > v.recent.last)
    BY <1>1, <1>9, Zenon DEF GetCanonical, Reply
  <2>2. n <= segment.last /\ CanonicalBlock(v, n) = segment.canonical[n]
    BY <1>2, <1>4, <1>5, <2>1
  <2>3. n \in v.starting .. v.recent.last
    BY <1>2, <2>1
  <2>4. CanonicalBlock(v, n) # Null
    BY <1>3, <2>3, BlockAssumption, Zenon
  <2>5. CASE segment.canonical[n] = b
    BY <1>6, <2>2, <2>4, <2>5, Zenon DEF ValidateCursor, IsEquivalent
  <2>6. CASE segment.canonical[n] # b
    <3> DEFINE siblings == Siblings(segment, n)
    <3>1. b \in siblings
      BY <1>4, <2>2, <2>6, Zenon DEF SegmentKnows, Siblings
    <3>2. \A x : IsEquivalent(x, CursorOf(b)) <=> x = b
      BY <1>2, <1>6, Zenon DEF IsEquivalent
    <3>3. (CHOOSE x \in siblings : IsEquivalent(x, CursorOf(b))) = b
      <4> HIDE DEF siblings
      <4> QED BY <3>1, <3>2, Zenon
    <3>4. ~IsEquivalent(CanonicalBlock(v, n), CursorOf(b))
      BY <2>2, <2>6, <3>2, Zenon
    <3>5. \E x \in siblings : IsEquivalent(x, CursorOf(b))
      BY <3>1, <3>2, Zenon
    <3>6. GetChainSegment(v, n) = segment
      BY Zenon DEF segment
    <3> QED BY <1>6, <2>4, <3>3, <3>4, <3>5, <3>6, Zenon DEF ValidateCursor
  <2> QED BY <2>5, <2>6, Zenon
<1> QED BY <1>8, <1>9, Zenon

-----------------------------------------------------------------------------
(* What clients are told of blocks that were published                     *)

\* Every block that was ever published is known.
CursorsOK ==
    /\ recent = Null => everPublished = {}
    /\ recent # Null => \A b \in everPublished :
            BlockKnown(b, startingBlock, recent, builder, segments)

\* A step that does not publish leaves the set of published blocks alone.
LEMMA SilentHistory ==
    ASSUME SilentStep
    PROVE  everPublished' = everPublished
BY Zenon DEF SilentStep, QuietStep, NodeStep, TaskStep, RunMainTask, RunPendingTask, TickHeadInterval,
       TickNewHead, TickNewHeadsReconnect, TickRefreshPending, TickTaskReorg, TickRecoverStep,
       TickRefreshFinalizedFail, TickRecoverFail, Crash, TickTaskPending, TickTaskPendingNone,
       TickRefreshFinalized, InitializeChain, vars

\* While the service keeps running, every step keeps the published blocks
\* known.
LEMMA CursorsStep ==
    ASSUME IndInv /\ IndInv' /\ KeepsRunning /\ KeepsRunning' /\ CursorsOK /\ [Next]_vars
    PROVE  CursorsOK'
<1>0. /\ everPublished \subseteq Block
      /\ recent # Null => /\ IsView(View) /\ startingBlock \in Nat /\ IsSegment(recent)
                          /\ startingBlock <= recent.first
                          /\ ChainSegmentStart(recent.first, startingBlock) = recent.first
  BY Zenon DEF IndInv, TypeOK, StoreTypeOK, PublishedOK, IsView, IsArchived, View
<1>1. CASE SilentStep
  <2>1. /\ recent' = recent /\ startingBlock' = startingBlock /\ segments' = segments
        /\ everPublished' = everPublished
        /\ Running' => builder' = builder
    BY <1>1, SilentStepIsSilent, SilentHistory, Zenon
  <2>2. recent # Null => builder' = builder
    BY <2>1, Zenon DEF KeepsRunning
  <2> QED BY <2>1, <2>2, Zenon DEF CursorsOK
<1>2. CASE InitializeResume \/ InitializeRecover
  <2>1. PICK s : /\ IsSegment(s) /\ IsLinked(s) /\ recent' = s
                 /\ \/ recent # Null /\ s = recent
                    \/ recent = Null /\ legacy # Null /\ s = legacy
                 /\ IsBuilder(builder') /\ builder'.first = s.first /\ builder'.last = s.last
                 /\ builder'.canonical = s.canonical
                 /\ startingBlock' = startingBlock /\ mode = "init"
    BY <1>2, RestoreStep, Zenon
  <2>2. recent = Null /\ s = legacy
    BY <2>1, Zenon DEF KeepsRunning, Running
  <2>3. everPublished' = Range(s.canonical)
    BY <1>2, <2>1, <2>2, Zenon
    DEF InitializeResume, InitializeRecover, RestoreSegment, Publish, CursorsOK
  <2>4. s.first = 0 /\ startingBlock' = 0 /\ recent' # Null
    BY <2>1, <2>2, ChainsAreNotNull, Zenon DEF IndInv, PublishedOK
  <2>5. ASSUME NEW b \in Range(s.canonical)
        PROVE  BlockKnown(b, startingBlock', s, builder', segments')
    <3>1. PICK n \in s.first .. s.last : b = s.canonical[n]
      BY <2>1, ChainFields, Zenon DEF Range
    <3>2. n = Number[b] /\ n \in Nat /\ s.last \in Nat
      BY <2>1, <2>4, <3>1, ChainFields
    <3>3. SegmentKnows(s, b)
      <4>1. n <= s.last
        BY <3>1, NumberOfInterval, Zenon
      <4> QED BY <3>1, <3>2, <4>1, Zenon DEF SegmentKnows
    <3>4. BuilderKnows(builder', b)
      BY <2>1, <3>1, <3>2, Zenon DEF BuilderKnows
    <3>5. startingBlock' <= Number[b] /\ ~(Number[b] < s.first)
      BY <2>4, <3>2
    <3> QED BY <3>3, <3>4, <3>5, Zenon DEF BlockKnown
  <2> QED BY <2>1, <2>3, <2>4, <2>5, Zenon DEF CursorsOK
<1>3. CASE InitializeStart
  <2> DEFINE block == nodeChain[StartingBlock]
             grown == Grow(Null, block)
  <2>1. /\ recent = Null /\ StartingBlock \in 0 .. nodeHeight /\ startingBlock' = StartingBlock
        /\ builder' = grown /\ recent' = CurrentSegment(grown)
        /\ everPublished' = everPublished \cup Range(CurrentSegment(grown).canonical)
    BY <1>3, Zenon DEF InitializeStart, Publish, NodeHas
  <2>2. block \in Block /\ Number[block] = StartingBlock /\ StartingBlock \in Nat
    BY <2>1, IngestionAssumption, Zenon DEF IndInv, NodeOK
  <2>3. IsBuilder(grown) /\ IsLinked(grown) /\ grown.first = StartingBlock
    BY <2>2, GrowEmpty, Zenon
  <2> HIDE DEF grown
  <2>4. /\ CurrentSegment(grown).canonical = grown.canonical /\ CurrentSegment(grown) # Null
        /\ everPublished = {}
    BY <2>1, <2>3, CurrentSegmentKeepsChain, ChainsAreNotNull, Zenon DEF CursorsOK
  <2>5. StartingBlock <= grown.first
    BY <2>2, <2>3
  <2>6. \A b \in everPublished :
            /\ StartingBlock <= Number[b]
            /\ grown.first <= Number[b] => BuilderKnows(grown, b)
            /\ Number[b] < grown.first =>
                    SegmentKnows(segments'[ChainSegmentStart(Number[b], StartingBlock)], b)
    BY <2>4, Zenon
  <2>7. \A b \in everPublished \cup Range(grown.canonical) :
            BlockKnown(b, StartingBlock, CurrentSegment(grown), grown, segments')
    BY <1>0, <2>2, <2>3, <2>5, <2>6, PublishedIsKnown, Zenon
  <2> QED BY <2>1, <2>4, <2>7, Zenon DEF CursorsOK
<1>4. CASE InitializeStartFail
  BY <1>4, Zenon DEF InitializeStartFail, CursorsOK
<1>5. ASSUME TaskFinished("main", "done"), CanGrow(builder, Head(taskQueue).block)
      PROVE  /\ IsBuilder(Grown) /\ IsLinked(Grown) /\ Grown.first = recent.first
             /\ recent # Null
             /\ \A b \in everPublished : recent.first <= Number[b] => BuilderKnows(Grown, b)
  <2>1. /\ IsBuilder(builder) /\ recent # Null
        /\ IsBuilder(Grown) /\ IsLinked(Grown)
        /\ Grown.first = builder.first /\ builder.first = recent.first
        /\ Grown.last = builder.last + 1
        /\ \A n \in builder.first .. builder.last : Grown.canonical[n] = builder.canonical[n]
    BY <1>5, GrownFacts, Zenon
  <2>2. Grown.reorgs = builder.reorgs
    BY <2>1, ChainsAreNotNull, Zenon DEF Grown, Grow
  <2>3. builder.first \in Nat /\ builder.last \in Nat
    BY <2>1, ChainFields, Zenon
  <2>4. \A b \in everPublished : BuilderKnows(builder, b) => BuilderKnows(Grown, b)
    BY <2>1, <2>2, <2>3 DEF BuilderKnows
  <2> QED BY <2>1, <2>4, Zenon DEF CursorsOK, BlockKnown
<1>6. CASE TickTaskBlock
  <2>1. /\ TaskFinished("main", "done") /\ CanGrow(builder, Head(taskQueue).block)
        /\ startingBlock' = startingBlock
    BY <1>6, BlockStep, Zenon
  <2>2. /\ IsBuilder(Grown) /\ IsLinked(Grown) /\ Grown.first = recent.first /\ recent # Null
        /\ \A b \in everPublished : recent.first <= Number[b] => BuilderKnows(Grown, b)
    BY <1>5, <2>1, Zenon
  <2>3. \A b \in everPublished : BlockKnown(b, startingBlock, recent, builder, segments)
    BY <2>2, Zenon DEF CursorsOK
  <2>4. CASE ~SegmentIsDue(Grown) /\ recent' = recent /\ everPublished' = everPublished
    <3>1. builder' = Grown /\ segments' = segments
      BY <1>6, <2>4, BlockStep, Zenon
    <3>2. \A b \in everPublished : BlockKnown(b, startingBlock, recent, Grown, segments)
      BY <2>2, <2>3, Zenon DEF BlockKnown
    <3> QED BY <2>1, <2>2, <2>4, <3>1, <3>2, Zenon DEF CursorsOK
  <2>5. CASE /\ ~SegmentIsDue(Grown) /\ recent' = CurrentSegment(Grown)
             /\ everPublished' = everPublished \cup Range(CurrentSegment(Grown).canonical)
    <3>1. builder' = Grown /\ segments' = segments
      BY <1>6, <2>5, BlockStep, Zenon
    <3>2. \A b \in everPublished :
                /\ startingBlock <= Number[b]
                /\ Grown.first <= Number[b] => BuilderKnows(Grown, b)
                /\ Number[b] < Grown.first =>
                        SegmentKnows(segments[ChainSegmentStart(Number[b], startingBlock)], b)
      BY <2>2, <2>3, Zenon DEF BlockKnown
    <3>3. \A b \in everPublished \cup Range(Grown.canonical) :
                BlockKnown(b, startingBlock, CurrentSegment(Grown), Grown, segments)
      BY <1>0, <2>2, <3>2, PublishedIsKnown, Zenon
    <3>4. CurrentSegment(Grown).canonical = Grown.canonical /\ CurrentSegment(Grown) # Null
      BY <2>2, CurrentSegmentKeepsChain, ChainsAreNotNull, Zenon
    <3> QED BY <2>1, <2>5, <3>1, <3>3, <3>4, Zenon DEF CursorsOK
  <2>6. CASE /\ SegmentIsDue(Grown) /\ recent' = CurrentSegment(AfterTake(Grown, ChainSegmentSize))
             /\ everPublished' = everPublished \cup
                    Range(CurrentSegment(AfterTake(Grown, ChainSegmentSize)).canonical)
    <3> DEFINE taken == TakenSegment(Grown, ChainSegmentSize)
               rest == AfterTake(Grown, ChainSegmentSize)
               start(b) == ChainSegmentStart(Number[b], startingBlock)
    <3>1. /\ builder' = rest /\ segments' = PutSegment(taken)
          /\ CanTakeSegment(Grown, ChainSegmentSize) /\ ChainSegmentSize \in Nat \ {0}
      BY <1>6, <2>2, <2>6, BlockStep, DueSegmentIsTaken, Zenon
    <3>2. /\ taken.first = Grown.first /\ rest.first = Grown.first + ChainSegmentSize
          /\ IsBuilder(rest) /\ IsLinked(rest)
      BY <2>2, <3>1, TakeSplitsChain, Zenon
    <3>3. \A b \in everPublished : Grown.first <= Number[b] =>
                /\ Number[b] < rest.first => SegmentKnows(taken, b)
                /\ rest.first <= Number[b] => BuilderKnows(rest, b)
      BY <1>0, <2>2, <3>1, TakeKnows, Zenon
    <3> HIDE DEF taken, rest
    <3>4. /\ segments'[recent.first] = taken
          /\ \A n \in DOMAIN segments : n # recent.first => segments'[n] = segments[n]
      BY <2>2, <3>1, <3>2, PutSegmentIs, Zenon
    <3>5. Grown.first \in Nat /\ rest.first \in Nat /\ startingBlock <= rest.first
      BY <1>0, <2>2, <3>1, <3>2, ChainFields
    <3>6. ASSUME NEW b \in everPublished
          PROVE  /\ startingBlock <= Number[b]
                 /\ rest.first <= Number[b] => BuilderKnows(rest, b)
                 /\ Number[b] < rest.first => SegmentKnows(segments'[start(b)], b)
      <4>1. Number[b] \in Nat /\ startingBlock <= Number[b]
        BY <1>0, <2>3, BlockAssumption, Zenon DEF BlockKnown
      <4>2. CASE Number[b] < recent.first
        <5>1. start(b) <= Number[b] /\ start(b) \in Nat
          BY <1>0, <2>2, <4>1, SegmentStartFacts, Zenon
        <5>2. Number[b] \in startingBlock .. recent.first - 1
          BY <1>0, <2>2, <3>5, <4>1, <4>2
        <5>3. start(b) \in DOMAIN segments
          BY <1>0, <2>2, <5>2, Zenon DEF IsView, IsArchived, View
        <5>4. start(b) # recent.first
          BY <2>2, <3>5, <4>1, <4>2, <5>1
        <5>5. segments'[start(b)] = segments[start(b)]
          BY <3>4, <5>3, <5>4, Zenon
        <5>6. SegmentKnows(segments[start(b)], b)
          BY <2>3, <4>2, Zenon DEF BlockKnown
        <5>7. ~(rest.first <= Number[b])
          BY <2>2, <3>1, <3>2, <3>5, <4>1, <4>2
        <5> QED BY <4>1, <5>5, <5>6, <5>7, Zenon
      <4>3. CASE recent.first <= Number[b] /\ Number[b] < rest.first
        <5>1. Number[b] \in recent.first .. recent.first + ChainSegmentSize - 1
          BY <2>2, <3>1, <3>2, <3>5, <4>1, <4>3
        <5>2. start(b) = recent.first
          BY <1>0, <2>2, <3>5, <5>1, AlignedSegment, Zenon
        <5>3. ~(rest.first <= Number[b])
          BY <3>5, <4>1, <4>3
        <5> QED BY <2>2, <3>3, <3>4, <4>1, <4>3, <5>2, <5>3, Zenon
      <4>4. CASE rest.first <= Number[b]
        <5>1. recent.first <= Number[b] /\ ~(Number[b] < rest.first)
          BY <2>2, <3>1, <3>2, <3>5, <4>1, <4>4
        <5> QED BY <2>2, <3>3, <4>1, <4>4, <5>1, Zenon
      <4> QED BY <2>2, <3>5, <4>1, <4>2, <4>3, <4>4
    <3>7. \A b \in everPublished \cup Range(rest.canonical) :
                BlockKnown(b, startingBlock, CurrentSegment(rest), rest, segments')
      BY <1>0, <2>2, <3>2, <3>5, <3>6, PublishedIsKnown, Zenon
    <3>8. CurrentSegment(rest).canonical = rest.canonical /\ CurrentSegment(rest) # Null
      BY <3>2, CurrentSegmentKeepsChain, ChainsAreNotNull, Zenon
    <3>9. recent' = CurrentSegment(rest) /\ everPublished' = everPublished \cup Range(rest.canonical)
      BY <2>6, <3>8, Zenon DEF rest
    <3> QED BY <2>1, <3>1, <3>7, <3>8, <3>9, Zenon DEF CursorsOK
  <2> QED BY <1>6, <2>4, <2>5, <2>6, Zenon
             DEF TickTaskBlock, Grown, Publish, DontPublish, RecentIsDue
<1>7. CASE TickTaskBlockFail
  <2>1. recent # Null /\ recent' = recent /\ mode' = "down"
    BY <1>7, GrownFacts, Zenon DEF TickTaskBlockFail, Stop, etcdVars
  <2> QED BY <2>1, Zenon DEF KeepsRunning, Running
<1>8. CASE TickRecoverDone
  <2> DEFINE cut == Shrink(builder, candidate)
  <2>1. /\ IsBuilder(builder) /\ IsLinked(builder) /\ recent # Null /\ candidate \in Block
        /\ CanShrink(builder, candidate) /\ builder.first = recent.first
        /\ builder' = cut /\ recent' = CurrentSegment(cut)
        /\ IsBuilder(cut) /\ IsLinked(cut) /\ cut.first = builder.first
        /\ UNCHANGED <<startingBlock, objectVars>>
    BY <1>8, RecoverStep, Zenon
  <2>2. everPublished' = everPublished \cup Range(CurrentSegment(cut).canonical)
    BY <1>8, Zenon DEF TickRecoverDone, Publish
  <2>3. \A b \in everPublished : BuilderKnows(builder, b) => BuilderKnows(cut, b)
    BY <1>0, <2>1, ShrinkKnows, Zenon
  <2> HIDE DEF cut
  <2>4. \A b \in everPublished :
            /\ startingBlock <= Number[b]
            /\ cut.first <= Number[b] => BuilderKnows(cut, b)
            /\ Number[b] < cut.first =>
                    SegmentKnows(segments[ChainSegmentStart(Number[b], startingBlock)], b)
    BY <2>1, <2>3, Zenon DEF CursorsOK, BlockKnown
  <2>5. \A b \in everPublished \cup Range(cut.canonical) :
            BlockKnown(b, startingBlock, CurrentSegment(cut), cut, segments)
    BY <1>0, <2>1, <2>4, PublishedIsKnown, Zenon
  <2>6. CurrentSegment(cut).canonical = cut.canonical /\ CurrentSegment(cut) # Null
    BY <2>1, CurrentSegmentKeepsChain, ChainsAreNotNull, Zenon
  <2> QED BY <2>1, <2>2, <2>5, <2>6, Zenon DEF CursorsOK, objectVars
<1> QED BY <1>1, <1>2, <1>3, <1>4, <1>6, <1>7, <1>8, StepKinds, Zenon

\* The published blocks stay known while the service keeps running.
LEMMA CursorsInductive == Spec /\ []KeepsRunning => []CursorsOK
<1>1. Init => CursorsOK
  BY Zenon DEF Init, CursorsOK
<1>2. IndInv /\ IndInv' /\ KeepsRunning /\ KeepsRunning' /\ CursorsOK /\ [Next]_vars => CursorsOK'
  BY CursorsStep, Zenon
<1> QED BY <1>1, <1>2, Inductive, PTL DEF Spec

\* As long as the service does not stop, a client at any block that was ever
\* published can go on, for every block tree and any number and depth of
\* reorganizations, also when the fork lies in an uploaded segment.
THEOREM KnownCursors == Spec /\ []KeepsRunning => []EveryPublishedCursorIsKnown
<1>1. IndInv /\ CursorsOK => EveryPublishedCursorIsKnown
  <2> SUFFICES ASSUME IndInv, CursorsOK, recent # Null, NEW b \in everPublished
               PROVE  GetNextCursor(View, CursorOf(b)).kind # "error"
    BY Zenon DEF EveryPublishedCursorIsKnown
  <2>1. b \in Block /\ IsView(View) /\ BlockKnown(b, View.starting, View.recent, builder, View.store)
    BY Zenon DEF IndInv, TypeOK, StoreTypeOK, CursorsOK, PublishedOK, View
  <2> QED BY <2>1, KnownBlocksAreAnswered, Zenon
<1> QED BY <1>1, CursorsInductive, Inductive, PTL

\* And when such a client comes back, its cursor is accepted.
THEOREM AcceptedCursors == Spec /\ []KeepsRunning => []PublishedCursorIsAccepted
<1>1. IndInv /\ CursorsOK => PublishedCursorIsAccepted
  <2> SUFFICES ASSUME IndInv, CursorsOK, recent # Null, NEW b \in everPublished,
                      GetCanonical(View, Number[b]).kind = "canonical"
               PROVE  ValidateCursor(View, CursorOf(b)) = Reply("valid", b)
    BY Zenon DEF PublishedCursorIsAccepted
  <2>1. b \in Block /\ IsView(View) /\ BlockKnown(b, View.starting, View.recent, builder, View.store)
    BY Zenon DEF IndInv, TypeOK, StoreTypeOK, CursorsOK, PublishedOK, View
  <2> QED BY <2>1, KnownBlocksAreAnswered, Zenon
<1> QED BY <1>1, CursorsInductive, Inductive, PTL

-----------------------------------------------------------------------------
(* Ingestion implements PublishedChain                                     *)

\* The builder goes on from the published snapshot: a block that is
\* published is never replaced in the builder before the next publication.
ExtendsOK ==
    Running => /\ recent.last <= builder.last
               /\ \A n \in recent.first .. recent.last : builder.canonical[n] = recent.canonical[n]

\* Every step keeps the builder ahead of what is published.
LEMMA ExtendsStep ==
    ASSUME IndInv /\ IndInv' /\ ExtendsOK /\ [Next]_vars
    PROVE  ExtendsOK'
<1>1. CASE SilentStep
  BY <1>1, SilentStepIsSilent, Zenon DEF ExtendsOK
<1>2. CASE InitializeResume \/ InitializeRecover
  <2>1. PICK s : /\ IsSegment(s) /\ recent' = s /\ builder'.last = s.last
                 /\ builder'.canonical = s.canonical
    BY <1>2, RestoreStep, Zenon
  <2>2. s.last \in Nat
    BY <2>1, ChainFields, Zenon
  <2> QED BY <2>1, <2>2 DEF ExtendsOK
<1>3. ASSUME recent' = CurrentSegment(builder'), Running'
      PROVE  ExtendsOK'
  <2>1. IsBuilder(builder') /\ IsLinked(builder')
    BY <1>3, Zenon DEF IndInv, ServiceOK
  <2> QED BY <1>3, <2>1, SnapshotExtends, Zenon DEF ExtendsOK
<1>4. CASE InitializeStart \/ TickRecoverDone
  <2>1. recent' = CurrentSegment(builder') /\ mode' = "ingest"
    BY <1>4, Zenon DEF InitializeStart, TickRecoverDone, Publish, IngestFrom
  <2> QED BY <1>3, <2>1, Zenon DEF Running
<1>5. CASE InitializeStartFail \/ TickTaskBlockFail
  BY <1>5, Zenon DEF InitializeStartFail, TickTaskBlockFail, Stop, ExtendsOK, Running
<1>6. CASE TickTaskBlock
  <2>1. /\ TaskFinished("main", "done") /\ CanGrow(builder, Head(taskQueue).block)
        /\ \/ builder' = Grown /\ recent' = recent
           \/ recent' = CurrentSegment(builder')
        /\ mode' = mode
    BY <1>6, BlockStep, Zenon
  <2>2. /\ mode = "ingest" /\ IsBuilder(builder) /\ builder.first = recent.first
        /\ Grown.last = builder.last + 1
        /\ \A n \in builder.first .. builder.last : Grown.canonical[n] = builder.canonical[n]
    BY <2>1, GrownFacts, Zenon
  <2>3. CASE recent' = CurrentSegment(builder')
    BY <1>3, <2>1, <2>2, <2>3, Zenon DEF Running
  <2>4. CASE builder' = Grown /\ recent' = recent
    <3>1. recent.last <= builder.last
          /\ \A n \in recent.first .. recent.last : builder.canonical[n] = recent.canonical[n]
      BY <2>2, Zenon DEF ExtendsOK, Running
    <3>2. recent # Null
      BY <2>2, Zenon DEF IndInv, ServiceOK, Running
    <3>3. builder.first \in Nat /\ builder.last \in Nat /\ recent.last \in Nat
      BY <2>2, <3>2, ChainFields, Zenon DEF IndInv, TypeOK, StoreTypeOK
    <3>4. \A n \in recent.first .. recent.last : n \in builder.first .. builder.last
      BY <2>2, <3>1, <3>3
    <3>5. \A n \in recent.first .. recent.last : Grown.canonical[n] = recent.canonical[n]
      BY <2>2, <3>1, <3>4, Zenon
    <3>6. recent.last <= Grown.last
      BY <2>2, <3>1, <3>3
    <3> QED BY <2>4, <3>5, <3>6, Zenon DEF ExtendsOK
  <2> QED BY <2>1, <2>3, <2>4, Zenon
<1> QED BY <1>1, <1>2, <1>4, <1>5, <1>6, StepKinds, Zenon

\* A publication that keeps the blocks it has in common with the present
\* chain extends that chain, cuts it, or leaves it.
LEMMA PublishedStep ==
    ASSUME IndInv, IndInv', recent # Null, recent' # Null, startingBlock' = startingBlock,
           recent.first <= recent'.first,
           recent'.last <= recent.last => recent'.first = recent.first,
           \A n \in View.starting .. View.recent.last :
                n <= View'.recent.last => CanonicalBlock(View', n) = CanonicalBlock(View, n)
    PROVE  Published!Next \/ UNCHANGED <<PublishedBlocks, ArchivedBelow>>
<1>1. /\ IsView(View) /\ IsView(View')
      /\ View.starting = startingBlock /\ View.recent = recent
      /\ View'.starting = startingBlock /\ View'.recent = recent'
  BY Zenon DEF IndInv, PublishedOK, View
<1>2. /\ startingBlock \in Nat /\ recent.first \in Nat /\ recent.last \in Nat
      /\ recent'.first \in Nat /\ recent'.last \in Nat
      /\ startingBlock <= recent.first /\ recent.first <= recent.last
      /\ startingBlock <= recent'.first /\ recent'.first <= recent'.last
  BY <1>1, ChainFields, Zenon DEF IsView, IsArchived
<1> DEFINE old == startingBlock .. recent.last
           new == startingBlock .. recent'.last
           b(n) == CanonicalBlock(View, n)
           p(n) == CanonicalBlock(View', n)
<1>3. /\ PublishedBlocks = [n \in old |-> b(n)] /\ PublishedBlocks' = [n \in new |-> p(n)]
      /\ ArchivedBelow = recent.first /\ ArchivedBelow' = recent'.first
  BY <1>1, Zenon DEF PublishedBlocks, ArchivedBelow, PublishedRange
<1>4. \A n \in old : n <= recent'.last => p(n) = b(n)
  BY <1>1, Zenon
<1>5. \A n \in new : n - 1 \in new => Parent[p(n)] = p(n - 1)
  <2> SUFFICES ASSUME NEW n \in new, n - 1 \in new
               PROVE  Parent[p(n)] = p(n - 1)
    BY Zenon
  <2>1. n \in View'.starting + 1 .. View'.recent.last
    BY <1>1, <1>2
  <2> QED BY <1>1, <2>1, Zenon DEF IsView, IsJoined
<1> HIDE DEF b, p
<1>6. CASE recent.last < recent'.last
  <2>1. old # new /\ old \subseteq new
    <3>1. recent'.last \in new /\ recent'.last \notin old
      BY <1>2, <1>6
    <3> QED BY <1>2, <1>6, <3>1
  <2>2. recent'.first \in new /\ recent'.first >= recent.first
    BY <1>2
  <2>3. \A m, n \in new : m .. n \subseteq new
    BY <1>2
  <2>4. [n \in old |-> PublishedBlocks'[n]] = PublishedBlocks
    BY <1>2, <1>3, <1>4, <1>6, <2>1
  <2>5. \A n \in new : n - 1 \in new => Parent[PublishedBlocks'[n]] = PublishedBlocks'[n - 1]
    BY <1>3, <1>5, Zenon
  <2>6. DOMAIN PublishedBlocks = old /\ DOMAIN PublishedBlocks' = new
    BY <1>3, Zenon
  <2> HIDE DEF old, new
  <2>7. Published!Extend
    BY <1>3, <2>1, <2>2, <2>3, <2>4, <2>5, <2>6, Zenon
    DEF Published!Extend, Published!Contiguous, Published!Linked, Published!Restrict
  <2> QED BY <2>7, Zenon DEF Published!Next
<1>7. CASE recent.last = recent'.last
  <2>1. recent'.first = recent.first /\ new = old
    BY <1>2, <1>7
  <2>2. [n \in old |-> b(n)] = [n \in new |-> p(n)]
    BY <1>2, <1>4, <1>7, <2>1
  <2> QED BY <1>3, <2>1, <2>2, Zenon
<1>8. CASE recent'.last < recent.last
  <2>1. recent'.first = recent.first
    BY <1>2, <1>8
  <2>2. new # old
    <3>1. recent.last \in old /\ recent.last \notin new
      BY <1>2, <1>8
    <3> QED BY <3>1, Zenon
  <2>3. recent'.last \in old /\ recent'.last >= recent.first
    BY <1>2, <1>8, <2>1
  <2>4. new = {m \in old : m <= recent'.last}
    BY <1>2, <1>8
  <2>5. PublishedBlocks' = [n \in new |-> PublishedBlocks[n]]
    BY <1>3, <1>4, <2>4, Zenon
  <2>6. DOMAIN PublishedBlocks = old /\ DOMAIN PublishedBlocks' = new
    BY <1>3, Zenon
  <2> HIDE DEF old, new
  <2>7. Published!Cut
    BY <1>3, <2>1, <2>2, <2>3, <2>4, <2>5, <2>6, Zenon DEF Published!Cut, Published!Restrict
  <2> QED BY <2>7, Zenon DEF Published!Next
<1> QED BY <1>2, <1>6, <1>7, <1>8

\* The first publication extends the empty chain.
LEMMA FirstPublication ==
    ASSUME IndInv' /\ recent = Null /\ recent' # Null
    PROVE  Published!Next
<1>1. IsView(View') /\ View'.starting = startingBlock' /\ View'.recent = recent'
  BY Zenon DEF IndInv, PublishedOK, View
<1>2. /\ startingBlock' \in Nat /\ recent'.first \in Nat /\ recent'.last \in Nat
      /\ startingBlock' <= recent'.first /\ recent'.first <= recent'.last
  BY <1>1, ChainFields, Zenon DEF IsView, IsArchived
<1> DEFINE new == startingBlock' .. recent'.last
           p(n) == CanonicalBlock(View', n)
<1>3. /\ PublishedBlocks = [n \in {} |-> Null] /\ PublishedBlocks' = [n \in new |-> p(n)]
      /\ ArchivedBelow = 0 /\ ArchivedBelow' = recent'.first
  BY <1>1, Zenon DEF PublishedBlocks, ArchivedBelow, PublishedRange
<1>4. \A n \in new : n - 1 \in new => Parent[p(n)] = p(n - 1)
  <2> SUFFICES ASSUME NEW n \in new, n - 1 \in new
               PROVE  Parent[p(n)] = p(n - 1)
    BY Zenon
  <2>1. n \in startingBlock' + 1 .. recent'.last
    BY <1>2, NotTheFirst, Zenon
  <2>2. n \in View'.starting + 1 .. View'.recent.last
    BY <1>1, <2>1, Zenon
  <2> QED BY <1>1, <2>2, Zenon DEF IsView, IsJoined
<1> HIDE DEF p
<1>5. recent'.first \in new /\ recent'.first >= 0
  BY <1>2
<1>6. \A m, n \in new : m .. n \subseteq new
  BY <1>2
<1>7. [n \in {} |-> PublishedBlocks'[n]] = PublishedBlocks
  BY <1>3, Zenon
<1>8. \A n \in new : n - 1 \in new => Parent[PublishedBlocks'[n]] = PublishedBlocks'[n - 1]
  BY <1>3, <1>4, Zenon
<1>9. DOMAIN PublishedBlocks = {} /\ DOMAIN PublishedBlocks' = new
  BY <1>3, Zenon
<1> HIDE DEF new
<1>10. Published!Extend
  BY <1>3, <1>5, <1>6, <1>7, <1>8, <1>9, Zenon
  DEF Published!Extend, Published!Contiguous, Published!Linked, Published!Restrict
<1> QED BY <1>10, Zenon DEF Published!Next

\* The fields of the view.
LEMMA ViewFields ==
    View.starting = startingBlock /\ View.recent = recent /\ View.store = segments
BY Zenon DEF View

\* A step that leaves the recent segment and the stored ones does not show.
LEMMA UnseenStep ==
    ASSUME startingBlock' = startingBlock \/ recent = Null, recent' = recent,
           segments' = segments
    PROVE  UNCHANGED <<PublishedBlocks, ArchivedBelow>>
<1>1. CASE recent = Null
  BY <1>1, Zenon DEF PublishedBlocks, ArchivedBelow
<1>2. CASE recent # Null
  <2>1. View' = View /\ startingBlock' = startingBlock
    BY <1>2, Zenon DEF View
  <2> QED BY <2>1, Zenon DEF PublishedBlocks, ArchivedBelow, PublishedRange
<1> QED BY <1>1, <1>2, Zenon

\* A publication whose view goes on with a builder that agrees with the
\* recent segment is a step of PublishedChain.
LEMMA StepWithBuilder ==
    ASSUME IndInv, IndInv', recent # Null, recent' # Null, startingBlock' = startingBlock,
           NEW c, IsBuilder(c), c.first = recent.first,
           IsView(View), GoesOn(View', View, c),
           recent.first <= recent'.first,
           recent'.last <= recent.last => recent'.first = recent.first,
           \A n \in recent.first .. recent.last :
                n <= c.last => c.canonical[n] = recent.canonical[n]
    PROVE  Published!Next \/ UNCHANGED <<PublishedBlocks, ArchivedBelow>>
<1>1. View'.recent.last \in Nat
  BY ChainFields, Zenon DEF GoesOn
<1>2. \A n \in View.starting .. View.recent.last :
          n <= View'.recent.last => CanonicalBlock(View', n) = CanonicalBlock(View, n)
  BY <1>1, BlocksKept, ViewFields, Zenon
<1> QED BY <1>2, PublishedStep, Zenon

\* A finished block extends the published chain, or is not published yet.
LEMMA BlockIsPublished ==
    ASSUME IndInv /\ IndInv' /\ ExtendsOK /\ TickTaskBlock
    PROVE  Published!Next \/ UNCHANGED <<PublishedBlocks, ArchivedBelow>>
<1>1. /\ TaskFinished("main", "done") /\ CanGrow(builder, Head(taskQueue).block)
      /\ \/ /\ ~SegmentIsDue(Grown)
            /\ builder' = Grown /\ segments' = segments
            /\ recent' \in {recent, CurrentSegment(Grown)}
         \/ /\ SegmentIsDue(Grown) /\ CanTakeSegment(Grown, ChainSegmentSize)
            /\ builder' = AfterTake(Grown, ChainSegmentSize)
            /\ segments' = PutSegment(TakenSegment(Grown, ChainSegmentSize))
            /\ recent' = CurrentSegment(builder')
      /\ mode' = mode /\ startingBlock' = startingBlock
  BY BlockStep, Zenon
<1>2. /\ mode = "ingest" /\ IsBuilder(builder) /\ recent # Null /\ IsView(View)
      /\ IsBuilder(Grown) /\ IsLinked(Grown)
      /\ Grown.first = builder.first /\ builder.first = recent.first
      /\ Grown.last = builder.last + 1
      /\ Grown.canonical[Grown.first] = recent.canonical[Grown.first]
      /\ \A n \in builder.first .. builder.last : Grown.canonical[n] = builder.canonical[n]
  BY <1>1, GrownFacts, Zenon
<1>3. /\ builder.first \in Nat /\ builder.last \in Nat /\ recent.last \in Nat
      /\ recent.last <= builder.last
  BY <1>2, ChainFields, Zenon DEF ExtendsOK, Running, IndInv, TypeOK, StoreTypeOK
<1>4. \A n \in recent.first .. recent.last : Grown.canonical[n] = recent.canonical[n]
  <2>1. \A n \in recent.first .. recent.last : n \in builder.first .. builder.last
    BY <1>2, <1>3
  <2> QED BY <1>2, <2>1, Zenon DEF ExtendsOK, Running
<1>5. recent' # Null
  BY <1>1, <1>2, Zenon DEF IndInv, ServiceOK, Running
<1>6. View' = [starting |-> View.starting, recent |-> recent', store |-> segments']
  BY <1>1, ViewFields, Zenon DEF View
<1>7. /\ recent # Null /\ IsView(View) /\ IsBuilder(Grown) /\ Grown.first = recent.first
      /\ recent.first \in Nat
  BY <1>2, <1>3, Zenon
<1>8. startingBlock' = startingBlock
  BY BlockStep, Zenon
<1>9. CASE recent' = recent /\ segments' = segments
  BY <1>8, <1>9, UnseenStep, Zenon
<1>10. CASE ~SegmentIsDue(Grown) /\ recent' = CurrentSegment(Grown)
  <2>1. View' = [starting |-> View.starting, recent |-> CurrentSegment(Grown),
                 store |-> View.store]
    BY <1>1, <1>6, <1>10, ViewFields, Zenon
  <2>2. GoesOn(View', View, Grown)
    BY <1>2, <2>1, ViewFields, RecentReplaced, Zenon
  <2>3. recent'.first = recent.first
    BY <1>2, <1>10, CurrentSegmentKeepsChain, Zenon
  <2>4. /\ recent # Null /\ recent' # Null /\ startingBlock' = startingBlock
        /\ IsBuilder(Grown) /\ Grown.first = recent.first /\ IsView(View)
        /\ recent.first <= recent'.first
    BY <1>5, <1>7, <1>8, <2>3
  <2>5. \A n \in recent.first .. recent.last :
          n <= Grown.last => Grown.canonical[n] = recent.canonical[n]
    BY <1>4, Zenon
  <2> QED BY <2>2, <2>3, <2>4, <2>5, StepWithBuilder, Zenon
<1>11. CASE SegmentIsDue(Grown)
  <2> DEFINE left  == AfterTake(Grown, ChainSegmentSize)
             taken == TakenSegment(Grown, ChainSegmentSize)
  <2>1. /\ IsBuilder(left) /\ IsLinked(left) /\ left.first = Grown.first + ChainSegmentSize
        /\ left.last = Grown.last /\ taken.first = Grown.first
    BY <1>1, <1>2, <1>11, ChainSegmentSizeAssumption, TakeSplitsChain, Zenon
  <2>2. recent' = CurrentSegment(left) /\ segments' = PutSegment(taken)
        /\ CanTakeSegment(Grown, ChainSegmentSize)
    BY <1>1, <1>11, Zenon
  <2>3. recent'.first = left.first /\ recent'.last = left.last
    BY <2>1, <2>2, CurrentSegmentKeepsChain, Zenon
  <2>4. /\ DOMAIN segments' = DOMAIN segments \cup {Grown.first} /\ segments'[Grown.first] = taken
        /\ \A n \in DOMAIN segments : n # Grown.first => segments'[n] = segments[n]
    BY <2>1, <2>2, PutSegmentIs, Zenon
  <2>5. /\ View'.starting = View.starting /\ View'.store = segments'
        /\ View'.recent = CurrentSegment(AfterTake(Grown, ChainSegmentSize))
        /\ View'.store[Grown.first] = TakenSegment(Grown, ChainSegmentSize)
    BY <1>6, <2>2, <2>4, Zenon
  <2> HIDE DEF left, taken
  <2>6. /\ Grown.first \in DOMAIN View'.store /\ DOMAIN View.store \subseteq DOMAIN View'.store
        /\ \A n \in DOMAIN View.store : n # Grown.first => View'.store[n] = View.store[n]
        /\ Grown.first = View.recent.first
        /\ Grown.canonical[Grown.first] = View.recent.canonical[Grown.first]
    BY <1>2, <2>4, <2>5, ViewFields, Zenon
  <2>7. GoesOn(View', View, Grown)
    BY <1>2, <2>2, <2>5, <2>6, SegmentTaken, Zenon
  <2>8. recent.first <= recent'.first /\ recent.last < recent'.last
    BY <1>2, <1>3, <2>1, <2>3, ChainSegmentSizeAssumption
  <2>9. recent'.last \in Nat
    BY <1>2, <1>3, <2>1, <2>3
  <2>10. ~(recent'.last <= recent.last)
    BY <1>3, <2>8, <2>9
  <2> QED BY <1>4, <1>5, <1>7, <1>8, <2>7, <2>8, <2>10, StepWithBuilder, Zenon
<1> QED BY <1>1, <1>9, <1>10, <1>11, Zenon

\* An upload whose publication fails shows nothing that was not published.
LEMMA UploadDoesNotShow ==
    ASSUME IndInv /\ IndInv' /\ ExtendsOK /\ TickTaskBlockFail
    PROVE  Published!Next \/ UNCHANGED <<PublishedBlocks, ArchivedBelow>>
<1>1. /\ TaskFinished("main", "done") /\ CanGrow(builder, Head(taskQueue).block)
      /\ SegmentIsDue(Grown) /\ startingBlock' = startingBlock /\ recent' = recent
      /\ segments' = PutSegment(TakenSegment(Grown, ChainSegmentSize))
  BY Zenon DEF TickTaskBlockFail, Grown, etcdVars
<1>2. /\ recent # Null /\ IsView(View) /\ IsBuilder(Grown) /\ IsLinked(Grown)
      /\ Grown.first = recent.first
  BY <1>1, GrownFacts, Zenon
<1>3. CanTakeSegment(Grown, ChainSegmentSize) /\ ChainSegmentSize \in Nat \ {0}
  BY <1>1, <1>2, DueSegmentIsTaken, Zenon
<1> DEFINE taken == TakenSegment(Grown, ChainSegmentSize)
<1>4. taken.first = recent.first
  BY <1>2, <1>3, TakeSplitsChain, Zenon
<1> HIDE DEF taken
<1>5. /\ DOMAIN segments' = DOMAIN segments \cup {recent.first}
      /\ \A n \in DOMAIN segments : n # recent.first => segments'[n] = segments[n]
  BY <1>1, <1>4, PutSegmentIs, Zenon DEF taken
<1>6. View'.starting = startingBlock /\ View'.recent = recent /\ View'.store = segments'
  BY <1>1, Zenon DEF View
<1>7. /\ View.recent.first \in DOMAIN View'.store
      /\ DOMAIN View.store \subseteq DOMAIN View'.store
      /\ \A n \in DOMAIN View.store : n # View.recent.first => View'.store[n] = View.store[n]
  BY <1>5, <1>6, ViewFields, Zenon
<1>8. \A n \in View.starting .. View.recent.last :
          CanonicalBlock(View', n) = CanonicalBlock(View, n)
  BY <1>2, <1>6, <1>7, ViewFields, StoredUnderRecent, Zenon
<1>9. recent.first \in Nat
  BY <1>2, ChainFields, Zenon
<1> QED BY <1>1, <1>2, <1>8, <1>9, PublishedStep

\* The end of a recovery cuts the published chain in its recent segment.
LEMMA CutIsPublished ==
    ASSUME IndInv /\ IndInv' /\ ExtendsOK /\ TickRecoverDone
    PROVE  Published!Next \/ UNCHANGED <<PublishedBlocks, ArchivedBelow>>
<1> DEFINE cut == Shrink(builder, candidate)
<1>1. /\ mode = "recover" /\ IsBuilder(builder) /\ recent # Null /\ IsView(View)
      /\ CanShrink(builder, candidate) /\ builder.first = recent.first
      /\ recent' = CurrentSegment(cut)
      /\ IsBuilder(cut) /\ IsLinked(cut) /\ cut.first = builder.first
      /\ cut.last = Number[candidate]
      /\ cut.canonical[cut.first] = recent.canonical[cut.first]
      /\ \A n \in cut.first .. cut.last : cut.canonical[n] = builder.canonical[n]
      /\ startingBlock' = startingBlock /\ segments' = segments
  BY RecoverStep, Zenon DEF objectVars
<1> HIDE DEF cut
<1>2. IsSegment(recent') /\ recent'.first = recent.first
  BY <1>1, CurrentSegmentKeepsChain, Zenon
<1>3. recent' # Null /\ recent.first \in Nat /\ recent.last \in Nat /\ cut.last \in Nat
  BY <1>1, <1>2, ChainsAreNotNull, ChainFields, Zenon DEF IndInv, TypeOK, StoreTypeOK
<1>4. View' = [starting |-> View.starting, recent |-> CurrentSegment(cut), store |-> View.store]
  BY <1>1, ViewFields, Zenon DEF View
<1>5. GoesOn(View', View, cut)
  BY <1>1, <1>4, ViewFields, RecentReplaced, Zenon
<1>6. \A n \in recent.first .. recent.last :
          n <= cut.last => cut.canonical[n] = recent.canonical[n]
  <2> SUFFICES ASSUME NEW n \in recent.first .. recent.last, n <= cut.last
               PROVE  cut.canonical[n] = recent.canonical[n]
    BY Zenon
  <2>1. n \in cut.first .. cut.last
    BY <1>1, <1>3
  <2>2. builder.canonical[n] = recent.canonical[n]
    BY <1>1, Zenon DEF ExtendsOK, Running
  <2> QED BY <1>1, <2>1, <2>2, Zenon
<1>7. /\ recent # Null /\ recent' # Null /\ startingBlock' = startingBlock
      /\ IsBuilder(cut) /\ cut.first = recent.first /\ IsView(View)
      /\ recent.first <= recent'.first /\ recent'.first = recent.first
  BY <1>1, <1>2, <1>3
<1> QED BY <1>5, <1>6, <1>7, StepWithBuilder, Zenon

\* Every step is a step of PublishedChain, or does not show.
LEMMA RefinementStep ==
    ASSUME IndInv /\ IndInv' /\ ExtendsOK /\ [Next]_vars
    PROVE  Published!Next \/ UNCHANGED <<PublishedBlocks, ArchivedBelow>>
<1>1. CASE SilentStep
  BY <1>1, SilentStepIsSilent, UnseenStep, Zenon
<1>2. CASE InitializeResume \/ InitializeRecover
  <2>1. PICK s : /\ IsSegment(s) /\ recent' = s
                 /\ \/ recent # Null /\ s = recent
                    \/ recent = Null /\ legacy # Null /\ s = legacy
                 /\ startingBlock' = startingBlock /\ segments' = segments
    BY <1>2, RestoreStep, Zenon
  <2>2. recent' # Null
    BY <2>1, ChainsAreNotNull, Zenon
  <2> QED BY <2>1, <2>2, FirstPublication, UnseenStep, Zenon
<1>3. CASE InitializeStart
  <2>1. recent = Null
    BY <1>3, Zenon DEF InitializeStart
  <2>2. recent' # Null
    BY <1>3, Zenon DEF InitializeStart, IngestFrom, IndInv, ServiceOK, Running
  <2> QED BY <2>1, <2>2, FirstPublication, Zenon
<1>4. CASE InitializeStartFail
  BY <1>4, UnseenStep, Zenon DEF InitializeStartFail
<1>5. CASE TickTaskBlock
  BY <1>5, BlockIsPublished, Zenon
<1>6. CASE TickTaskBlockFail
  BY <1>6, UploadDoesNotShow, Zenon
<1>7. CASE TickRecoverDone
  BY <1>7, CutIsPublished, Zenon
<1> QED BY <1>1, <1>2, <1>3, <1>4, <1>5, <1>6, <1>7, StepKinds, Zenon

\* Ingestion implements PublishedChain for every block tree, segment size and
\* upload offset: whatever the node does and wherever the service fails, a
\* publication extends the published chain or cuts it above the uploaded
\* segments.
THEOREM PublicationRefinement == Spec => ImplementsPublishedChain
<1>1. Init => ExtendsOK
  BY Zenon DEF Init, ExtendsOK, Running
<1>2. IndInv /\ IndInv' /\ ExtendsOK /\ [Next]_vars => ExtendsOK'
  BY ExtendsStep, Zenon
<1>3. Init => Published!Init
  BY Zenon DEF Init, Published!Init, PublishedBlocks, ArchivedBelow
<1>4. IndInv /\ IndInv' /\ ExtendsOK /\ [Next]_vars =>
        [Published!Next]_<<PublishedBlocks, ArchivedBelow>>
  BY RefinementStep, Zenon
<1> QED BY <1>1, <1>2, <1>3, <1>4, Inductive, PTL DEF Spec, ImplementsPublishedChain, Published!Spec

-----------------------------------------------------------------------------
(* The numbers the task queue asks for                                     *)

MainOf(queue) == {i \in DOMAIN queue : queue[i].kind = "main"}

\* The main tasks of a queue ask for low + 1, ..., high, in this order.
Consecutive(queue, low, high) ==
    /\ low <= high
    /\ {queue[i].number : i \in MainOf(queue)} = low + 1 .. high
    /\ \A i, j \in MainOf(queue) : i < j => queue[i].number < queue[j].number

\* An empty queue asks for nothing.
LEMMA ConsecutiveEmpty ==
    ASSUME NEW n \in Nat
    PROVE  Consecutive(<< >>, n, n)
<1>1. MainOf(<< >>) = {}
  BY DEF MainOf
<1>2. n + 1 .. n = {}
  OBVIOUS
<1> QED BY <1>1, <1>2 DEF Consecutive

\* The positions and numbers of the main tasks of a queue.
LEMMA MainTaskFacts ==
    ASSUME NEW queue \in Seq(Task)
    PROVE  /\ Len(queue) \in Nat /\ DOMAIN queue = 1 .. Len(queue)
           /\ MainOf(queue) \subseteq 1 .. Len(queue)
           /\ \A i \in 1 .. Len(queue) : queue[i].number \in Nat
           /\ \A i \in 1 .. Len(queue) : i \in MainOf(queue) <=> queue[i].kind = "main"
<1>1. Len(queue) \in Nat /\ DOMAIN queue = 1 .. Len(queue)
  OBVIOUS
<1>2. \A i \in 1 .. Len(queue) : queue[i].number \in Nat
  BY DEF Task
<1> QED BY <1>1, <1>2, Zenon DEF MainOf

\* A queue whose main tasks ask for the same numbers.
LEMMA ConsecutiveSame ==
    ASSUME NEW queue \in Seq(Task), NEW next \in Seq(Task), NEW low, NEW high,
           Consecutive(queue, low, high), Len(next) = Len(queue),
           \A i \in 1 .. Len(queue) :
                next[i].kind = queue[i].kind /\ next[i].number = queue[i].number
    PROVE  Consecutive(next, low, high)
<1>1. /\ MainOf(queue) \subseteq 1 .. Len(queue) /\ MainOf(next) \subseteq 1 .. Len(queue)
      /\ \A i \in 1 .. Len(queue) : i \in MainOf(queue) <=> queue[i].kind = "main"
      /\ \A i \in 1 .. Len(queue) : i \in MainOf(next) <=> next[i].kind = "main"
  BY MainTaskFacts, Zenon
<1>2. MainOf(next) = MainOf(queue)
  BY <1>1, Zenon
<1>3. \A i \in MainOf(queue) : next[i].number = queue[i].number
  BY <1>1, Zenon
<1>4. {next[i].number : i \in MainOf(next)} = {queue[i].number : i \in MainOf(queue)}
  BY <1>2, <1>3, Zenon
<1>5. \A i, j \in MainOf(next) : i < j => next[i].number < next[j].number
  BY <1>2, <1>3, Zenon DEF Consecutive
<1> QED BY <1>4, <1>5, Zenon DEF Consecutive

\* A queue with a pending task at its end.
LEMMA ConsecutiveAppend ==
    ASSUME NEW queue \in Seq(Task), NEW task \in Task, task.kind # "main",
           NEW low, NEW high, Consecutive(queue, low, high)
    PROVE  Consecutive(Append(queue, task), low, high)
<1> DEFINE next == Append(queue, task)
<1>1. /\ next \in Seq(Task) /\ Len(next) = Len(queue) + 1 /\ next[Len(queue) + 1] = task
      /\ \A i \in 1 .. Len(queue) : next[i] = queue[i]
  OBVIOUS
<1> HIDE DEF next
<1>2. /\ Len(queue) \in Nat
      /\ MainOf(queue) \subseteq 1 .. Len(queue) /\ MainOf(next) \subseteq 1 .. Len(next)
      /\ \A i \in 1 .. Len(queue) : i \in MainOf(queue) <=> queue[i].kind = "main"
      /\ \A i \in 1 .. Len(next) : i \in MainOf(next) <=> next[i].kind = "main"
  BY <1>1, MainTaskFacts, Zenon
<1>3. MainOf(next) = MainOf(queue)
  <2>1. ASSUME NEW i \in MainOf(next) PROVE i \in MainOf(queue)
    <3>1. i \in 1 .. Len(queue) + 1 /\ i # Len(queue) + 1
      BY <1>1, <1>2, Zenon
    <3>2. i \in 1 .. Len(queue) /\ i \in 1 .. Len(next)
      BY <1>1, <1>2, <3>1
    <3> QED BY <1>1, <1>2, <3>2, Zenon
  <2>2. ASSUME NEW i \in MainOf(queue) PROVE i \in MainOf(next)
    <3>1. i \in 1 .. Len(queue) /\ i \in 1 .. Len(next)
      BY <1>1, <1>2
    <3> QED BY <1>1, <1>2, <3>1, Zenon
  <2> QED BY <2>1, <2>2, Zenon
<1>4. \A i \in MainOf(queue) : next[i] = queue[i]
  BY <1>1, <1>2, Zenon
<1>5. {next[i].number : i \in MainOf(next)} = {queue[i].number : i \in MainOf(queue)}
  BY <1>3, <1>4, Zenon
<1>6. Consecutive(next, low, high)
  BY <1>3, <1>4, <1>5 DEF Consecutive
<1> QED BY <1>6, Zenon DEF next

\* A queue to which the next numbers are pushed.
LEMMA ConsecutivePush ==
    ASSUME NEW queue \in Seq(Task), NEW next \in Seq(Task), NEW low \in Nat, NEW high \in Nat,
           NEW count \in Nat, Consecutive(queue, low, high),
           Len(next) = Len(queue) + count,
           \A i \in 1 .. Len(queue) : next[i] = queue[i],
           \A i \in Len(queue) + 1 .. Len(queue) + count :
                next[i] = MainTask(high + (i - Len(queue)))
    PROVE  Consecutive(next, low, high + count)
<1>1. /\ Len(queue) \in Nat
      /\ MainOf(queue) \subseteq 1 .. Len(queue) /\ MainOf(next) \subseteq 1 .. Len(next)
      /\ \A i \in 1 .. Len(queue) : i \in MainOf(queue) <=> queue[i].kind = "main"
      /\ \A i \in 1 .. Len(next) : i \in MainOf(next) <=> next[i].kind = "main"
  BY MainTaskFacts, Zenon
<1>2. \A i \in Len(queue) + 1 .. Len(queue) + count :
            next[i].kind = "main" /\ next[i].number = high + (i - Len(queue))
  <2>1. \A n : MainTask(n).kind = "main" /\ MainTask(n).number = n
    BY Zenon DEF MainTask
  <2> QED BY <2>1, Zenon
<1>3. low <= high /\ {queue[i].number : i \in MainOf(queue)} = low + 1 .. high
      /\ \A i, j \in MainOf(queue) : i < j => queue[i].number < queue[j].number
  BY Zenon DEF Consecutive
<1>4. ASSUME NEW i \in MainOf(next)
      PROVE  \/ i \in MainOf(queue) /\ next[i] = queue[i] /\ queue[i].number \in low + 1 .. high
             \/ /\ i \in Len(queue) + 1 .. Len(queue) + count
                /\ next[i].number = high + (i - Len(queue))
  <2>1. i \in 1 .. Len(queue) + count /\ next[i].kind = "main"
    BY <1>1, Zenon
  <2>2. CASE i <= Len(queue)
    <3>1. i \in 1 .. Len(queue) /\ next[i] = queue[i]
      BY <1>1, <2>1, <2>2
    <3>2. i \in MainOf(queue)
      BY <1>1, <2>1, <3>1, Zenon
    <3> QED BY <1>3, <3>1, <3>2, Zenon
  <2>3. CASE ~(i <= Len(queue))
    <3>1. i \in Len(queue) + 1 .. Len(queue) + count
      BY <1>1, <2>1, <2>3
    <3> QED BY <1>2, <3>1, Zenon
  <2> QED BY <2>2, <2>3, Zenon
<1>5. \A i \in MainOf(next) : next[i].number \in low + 1 .. high + count
  <2> TAKE i \in MainOf(next)
  <2>1. CASE queue[i].number \in low + 1 .. high /\ next[i] = queue[i]
    BY <1>3, <2>1
  <2>2. CASE /\ i \in Len(queue) + 1 .. Len(queue) + count
             /\ next[i].number = high + (i - Len(queue))
    BY <1>1, <1>3, <2>2
  <2> QED BY <1>4, <2>1, <2>2, Zenon
<1>6. \A n \in low + 1 .. high + count : \E i \in MainOf(next) : next[i].number = n
  <2> TAKE n \in low + 1 .. high + count
  <2>1. CASE n <= high
    <3>1. n \in low + 1 .. high
      BY <2>1
    <3>2. PICK i \in MainOf(queue) : queue[i].number = n
      BY <1>3, <3>1, Zenon
    <3>3. i \in 1 .. Len(queue) /\ i \in 1 .. Len(next)
      BY <1>1
    <3> QED BY <1>1, <3>2, <3>3, Zenon
  <2>2. CASE n > high
    <3> DEFINE i == Len(queue) + (n - high)
    <3>1. i \in Len(queue) + 1 .. Len(queue) + count /\ i \in 1 .. Len(next)
          /\ high + (i - Len(queue)) = n
      BY <1>1, <2>2
    <3> HIDE DEF i
    <3>2. i \in MainOf(next) /\ next[i].number = n
      BY <1>1, <1>2, <3>1, Zenon
    <3> QED BY <3>2, Zenon
  <2> QED BY <2>1, <2>2
<1>7. {next[i].number : i \in MainOf(next)} = low + 1 .. high + count
  BY <1>5, <1>6, Zenon
<1>8. ASSUME NEW i \in MainOf(next), NEW j \in MainOf(next), i < j
      PROVE  next[i].number < next[j].number
  <2>1. i \in 1 .. Len(next) /\ j \in 1 .. Len(next)
    BY <1>1, Zenon
  <2>2. CASE i \in MainOf(queue) /\ next[i] = queue[i] /\ queue[i].number \in low + 1 .. high
    <3>1. CASE j \in MainOf(queue) /\ next[j] = queue[j]
      BY <1>3, <1>8, <2>2, <3>1, Zenon
    <3>2. CASE /\ j \in Len(queue) + 1 .. Len(queue) + count
               /\ next[j].number = high + (j - Len(queue))
      BY <1>1, <2>2, <3>2
    <3> QED BY <1>4, <3>1, <3>2, Zenon
  <2>3. CASE /\ i \in Len(queue) + 1 .. Len(queue) + count
             /\ next[i].number = high + (i - Len(queue))
    <3>1. ~(j \in 1 .. Len(queue))
      BY <1>1, <1>8, <2>1, <2>3
    <3>2. /\ j \in Len(queue) + 1 .. Len(queue) + count
          /\ next[j].number = high + (j - Len(queue))
      BY <1>1, <1>4, <3>1, Zenon
    <3> QED BY <1>1, <1>8, <2>3, <3>2
  <2> QED BY <1>4, <2>2, <2>3, Zenon
<1> QED BY <1>3, <1>7, <1>8 DEF Consecutive

\* What is left of a queue when its oldest task has been handled.
LEMMA ConsecutiveTail ==
    ASSUME NEW queue \in Seq(Task), queue # << >>, NEW low \in Nat, NEW high \in Nat,
           Consecutive(queue, low, high)
    PROVE  /\ Head(queue).kind = "main" => low < high /\ Consecutive(Tail(queue), low + 1, high)
           /\ Head(queue).kind # "main" => Consecutive(Tail(queue), low, high)
<1> DEFINE next == Tail(queue)
<1>1. next \in Seq(Task) /\ Len(next) = Len(queue) - 1
  BY HeadAndTail, Zenon
<1>2. Len(queue) \in Nat \ {0} /\ Head(queue) = queue[1]
  BY HeadAndTail, Zenon
<1>3. \A i \in 1 .. Len(queue) - 1 : next[i] = queue[i + 1]
  BY <1>2
<1> HIDE DEF next
<1>4. /\ MainOf(queue) \subseteq 1 .. Len(queue) /\ MainOf(next) \subseteq 1 .. Len(next)
      /\ \A i \in 1 .. Len(queue) : i \in MainOf(queue) <=> queue[i].kind = "main"
      /\ \A i \in 1 .. Len(next) : i \in MainOf(next) <=> next[i].kind = "main"
      /\ \A i \in 1 .. Len(queue) : queue[i].number \in Nat
  BY <1>1, MainTaskFacts, Zenon
<1>5. low <= high /\ {queue[i].number : i \in MainOf(queue)} = low + 1 .. high
      /\ \A i, j \in MainOf(queue) : i < j => queue[i].number < queue[j].number
  BY Zenon DEF Consecutive
<1>6. \A i \in MainOf(next) : i \in Nat /\ i + 1 \in MainOf(queue) /\ i + 1 # 1 /\ next[i] = queue[i + 1]
  <2> TAKE i \in MainOf(next)
  <2>1. i \in 1 .. Len(queue) - 1 /\ next[i].kind = "main"
    BY <1>1, <1>4, Zenon
  <2>2. next[i] = queue[i + 1] /\ i + 1 \in 1 .. Len(queue) /\ i \in Nat /\ i + 1 # 1
    BY <1>2, <1>3, <2>1
  <2> QED BY <1>4, <2>1, <2>2, Zenon
<1>7. \A j \in MainOf(queue) : j # 1 => j - 1 \in MainOf(next) /\ next[j - 1] = queue[j]
  <2> SUFFICES ASSUME NEW j \in MainOf(queue), j # 1
               PROVE  j - 1 \in MainOf(next) /\ next[j - 1] = queue[j]
    BY Zenon
  <2>1. j \in 1 .. Len(queue) /\ queue[j].kind = "main"
    BY <1>4, Zenon
  <2>2. j - 1 \in 1 .. Len(queue) - 1 /\ (j - 1) + 1 = j
    BY <1>2, <2>1
  <2>3. next[j - 1] = queue[j]
    BY <1>3, <2>2, Zenon
  <2> QED BY <1>1, <1>4, <2>1, <2>2, <2>3, Zenon
<1>8. \A i, j \in MainOf(next) : i < j => next[i].number < next[j].number
  <2> SUFFICES ASSUME NEW i \in MainOf(next), NEW j \in MainOf(next), i < j
               PROVE  next[i].number < next[j].number
    BY Zenon
  <2>1. i + 1 < j + 1
    BY <1>6
  <2> QED BY <1>5, <1>6, <2>1, Zenon
<1>9. ASSUME queue[1].kind # "main"
      PROVE  Consecutive(next, low, high)
  <2>1. 1 \notin MainOf(queue)
    BY <1>2, <1>4, <1>9, Zenon
  <2>2. {next[i].number : i \in MainOf(next)} = {queue[i].number : i \in MainOf(queue)}
    <3>1. \A i \in MainOf(next) : \E j \in MainOf(queue) : queue[j].number = next[i].number
      BY <1>6, Zenon
    <3>2. \A j \in MainOf(queue) : \E i \in MainOf(next) : queue[j].number = next[i].number
      BY <1>7, <2>1, Zenon
    <3> QED BY <3>1, <3>2
  <2> QED BY <1>5, <1>8, <2>2, Zenon DEF Consecutive
<1>10. ASSUME queue[1].kind = "main"
       PROVE  low < high /\ Consecutive(next, low + 1, high)
  <2>1. 1 \in MainOf(queue) /\ queue[1].number \in low + 1 .. high
    BY <1>2, <1>4, <1>5, <1>10
  <2>2. low < high
    BY <2>1
  <2>3. \A j \in MainOf(queue) : j # 1 => queue[1].number < queue[j].number
    <3> SUFFICES ASSUME NEW j \in MainOf(queue), j # 1
                 PROVE  queue[1].number < queue[j].number
      BY Zenon
    <3>1. 1 < j
      BY <1>2, <1>4
    <3> QED BY <1>5, <2>1, <3>1, Zenon
  <2>4. queue[1].number = low + 1
    <3>1. low + 1 \in low + 1 .. high
      BY <2>2
    <3>2. PICK j \in MainOf(queue) : queue[j].number = low + 1
      BY <1>5, <3>1, Zenon
    <3> QED BY <2>1, <2>3, <3>2
  <2>5. \A i \in MainOf(next) : next[i].number \in (low + 1) + 1 .. high
    <3> TAKE i \in MainOf(next)
    <3>1. next[i].number = queue[i + 1].number /\ i + 1 \in MainOf(queue) /\ i + 1 # 1
      BY <1>6, Zenon
    <3>2. queue[i + 1].number \in low + 1 .. high /\ queue[1].number < queue[i + 1].number
      BY <1>5, <2>3, <3>1, Zenon
    <3> QED BY <2>4, <3>1, <3>2
  <2>6. \A n \in (low + 1) + 1 .. high : \E i \in MainOf(next) : next[i].number = n
    <3> TAKE n \in (low + 1) + 1 .. high
    <3>1. n \in low + 1 .. high /\ n # low + 1
      OBVIOUS
    <3>2. PICK j \in MainOf(queue) : queue[j].number = n
      BY <1>5, <3>1, Zenon
    <3>3. j # 1
      BY <2>4, <3>1, <3>2, Zenon
    <3> QED BY <1>7, <3>2, <3>3, Zenon
  <2>7. {next[i].number : i \in MainOf(next)} = (low + 1) + 1 .. high
    BY <2>5, <2>6, Zenon
  <2>8. low + 1 <= high
    BY <2>2
  <2> QED BY <1>8, <2>2, <2>7, <2>8, Zenon DEF Consecutive
<1> QED BY <1>2, <1>9, <1>10, Zenon DEF next

\* A service that is not yet ingesting has no tasks; one that is asks for
\* consecutive numbers.
QueueOK ==
    /\ mode \in {"down", "init"} => taskQueue = << >>
    /\ mode = "ingest" => Consecutive(taskQueue, Number[lastIngested], queuedBlockNumber)

\* The last ingested block of a running service is a block.
LEMMA LastIngestedIsBlock ==
    ASSUME IndInv /\ Running
    PROVE  lastIngested \in Block /\ Number[lastIngested] = builder.last /\ builder.last \in Nat
BY ChainFields, Zenon DEF IndInv, ServiceOK

\* Pushing the next numbers onto a consecutive queue.
LEMMA PushKeepsQueue ==
    ASSUME NEW queue \in Seq(Task), NEW target \in Nat, NEW low \in Nat, queuedBlockNumber \in Nat,
           PushTasks(queue, target), Consecutive(queue, low, queuedBlockNumber)
    PROVE  Consecutive(taskQueue', low, queuedBlockNumber')
<1>1. taskQueue' \in Seq(Task)
  BY PushTasksType, Zenon
<1>2. PICK count \in Nat :
           /\ Len(taskQueue') = Len(queue) + count
           /\ queuedBlockNumber' = queuedBlockNumber + count
           /\ \A i \in 1 .. Len(queue) : taskQueue'[i] = queue[i]
           /\ \A i \in Len(queue) + 1 .. Len(queue) + count :
                    taskQueue'[i] = MainTask(queuedBlockNumber + (i - Len(queue)))
  BY PushedQueue, Zenon
<1> QED BY <1>1, <1>2, ConsecutivePush, Zenon

\* Writing two fields of an element writes the element with both.
LEMMA BothFields ==
    ASSUME NEW f, NEW k \in DOMAIN f, NEW block
    PROVE  [f EXCEPT ![k].status = "done", ![k].block = block]
             = [f EXCEPT ![k] = [f[k] EXCEPT !.status = "done", !.block = block]]
BY Zenon

\* A task that ends keeps its kind and its number.
LEMMA EndedTaskKeepsQueue ==
    ASSUME IndInv, IndInv', NEW k \in 1 .. Len(taskQueue), RunMainTask(k) \/ RunPendingTask(k),
           NEW low, NEW high, Consecutive(taskQueue, low, high)
    PROVE  Consecutive(taskQueue', low, high)
<1>1. taskQueue \in Seq(Task) /\ taskQueue' \in Seq(Task) /\ taskQueue[k] \in Task
  BY DEF IndInv, TypeOK, ServiceTypeOK
<1>2. PICK task : /\ taskQueue' = [taskQueue EXCEPT ![k] = task]
                  /\ task.kind = taskQueue[k].kind /\ task.number = taskQueue[k].number
  <2>1. ASSUME NEW status
        PROVE  LET task == [taskQueue[k] EXCEPT !.status = status]
               IN  task.kind = taskQueue[k].kind /\ task.number = taskQueue[k].number
    BY <1>1, Zenon DEF Task
  <2>2. ASSUME NEW block
        PROVE  LET task == [taskQueue[k] EXCEPT !.status = "done", !.block = block]
               IN  task.kind = taskQueue[k].kind /\ task.number = taskQueue[k].number
    BY <1>1, Zenon DEF Task
  <2>3. CASE RunPendingTask(k)
    BY <2>1, <2>3, Zenon DEF RunPendingTask
  <2>4. CASE RunMainTask(k)
    <3>1. CASE taskQueue' = [taskQueue EXCEPT ![k].status = "notFound"]
      BY <2>1, <3>1, Zenon
    <3>2. ASSUME NEW block,
                 taskQueue' = [taskQueue EXCEPT ![k].status = "done", ![k].block = block]
          PROVE  taskQueue' = [taskQueue EXCEPT ![k] =
                                [taskQueue[k] EXCEPT !.status = "done", !.block = block]]
      <4>1. k \in DOMAIN taskQueue
        BY <1>1
      <4> QED BY <3>2, <4>1, BothFields, Zenon
    <3> QED BY <2>2, <2>4, <3>1, <3>2, Zenon DEF RunMainTask
  <2> QED BY <2>3, <2>4, Zenon
<1>3. taskQueue = [n \in 1 .. Len(taskQueue) |-> taskQueue[n]]
  BY <1>1
<1>4. taskQueue' = [n \in 1 .. Len(taskQueue) |-> IF n = k THEN task ELSE taskQueue[n]]
  BY <1>2, <1>3, Zenon
<1>5. Len(taskQueue') = Len(taskQueue)
  BY <1>1, <1>4
<1>6. \A i \in 1 .. Len(taskQueue) :
        taskQueue'[i].kind = taskQueue[i].kind /\ taskQueue'[i].number = taskQueue[i].number
  BY <1>2, <1>4, Zenon
<1> QED BY <1>1, <1>5, <1>6, ConsecutiveSame, Zenon

\* Every step keeps the queue consecutive.
LEMMA QueueStep ==
    ASSUME IndInv /\ IndInv' /\ QueueOK /\ [Next]_vars
    PROVE  QueueOK'
<1> DEFINE low == Number[lastIngested]
<1>1. taskQueue \in Seq(Task) /\ queuedBlockNumber \in Nat
  BY Zenon DEF IndInv, TypeOK, ServiceTypeOK
<1>2. mode = "ingest" => /\ lastIngested \in Block /\ low \in Nat /\ low = builder.last
                         /\ Consecutive(taskQueue, low, queuedBlockNumber)
                         /\ head \in Block /\ Number[head] \in Nat
  BY LastIngestedIsBlock, BlockAssumption, Zenon DEF Running, QueueOK, IndInv, ServiceOK
<1>3. CASE UNCHANGED <<mode, taskQueue, lastIngested, queuedBlockNumber>>
  BY <1>3, Zenon DEF QueueOK
<1>4. CASE mode' = "recover"
  BY <1>4, Zenon DEF QueueOK
<1>5. CASE Stop
  BY <1>5, Zenon DEF QueueOK, Stop
<1>6. ASSUME NEW block, IngestFrom(block), taskQueue' = << >>
      PROVE  QueueOK'
  <2>1. mode' = "ingest" /\ lastIngested' = block /\ queuedBlockNumber' = Number[block]
    BY <1>6, Zenon DEF IngestFrom
  <2>2. Running'
    BY <2>1, Zenon DEF Running
  <2>3. lastIngested' \in Block
    BY <2>2, ChainFields, Zenon DEF IndInv, ServiceOK
  <2>4. Number[block] \in Nat
    BY <2>1, <2>3, BlockAssumption, Zenon
  <2> QED BY <1>6, <2>1, <2>4, ConsecutiveEmpty, Zenon DEF QueueOK
<1>7. CASE NodeStep \/ TickRefreshFinalized \/ UNCHANGED vars
  BY <1>3, <1>7, Zenon DEF NodeStep, TickRefreshFinalized, vars, serviceVars
<1>8. CASE InitializeChain
  BY <1>8, Zenon DEF InitializeChain, QueueOK
<1>9. CASE TaskStep
  <2>1. PICK k \in 1 .. Len(taskQueue) : RunMainTask(k) \/ RunPendingTask(k)
    BY <1>9, Zenon DEF TaskStep
  <2>2. mode' = mode /\ lastIngested' = lastIngested /\ queuedBlockNumber' = queuedBlockNumber
    BY <2>1, Zenon DEF RunMainTask, RunPendingTask
  <2>3. taskQueue # << >>
    BY <1>1, <2>1
  <2>4. mode = "ingest" => Consecutive(taskQueue', low, queuedBlockNumber)
    BY <1>2, <2>1, EndedTaskKeepsQueue, Zenon
  <2> QED BY <2>2, <2>3, <2>4, Zenon DEF QueueOK
<1>10. CASE TickTaskPending \/ TickTaskPendingNone
  <2>1. /\ mode = "ingest" /\ taskQueue # << >> /\ Head(taskQueue).kind = "pending"
        /\ taskQueue' = Tail(taskQueue) /\ mode' = mode
        /\ lastIngested' = lastIngested /\ queuedBlockNumber' = queuedBlockNumber
    BY <1>10, Zenon DEF TickTaskPending, TickTaskPendingNone, TaskFinished
  <2>2. Consecutive(taskQueue', low, queuedBlockNumber)
    BY <1>1, <1>2, <2>1, ConsecutiveTail, Zenon
  <2> QED BY <2>1, <2>2, Zenon DEF QueueOK
<1>11. CASE TickRefreshPending
  <2> DEFINE task == PendingTask(Number[lastIngested] + 1, pendingState.generation + 1)
  <2>1. /\ mode = "ingest" /\ taskQueue' = Append(taskQueue, task) /\ mode' = mode
        /\ lastIngested' = lastIngested /\ queuedBlockNumber' = queuedBlockNumber
    BY <1>11, Zenon DEF TickRefreshPending
  <2>2. pendingState.generation + 1 \in Nat /\ low + 1 \in Nat
    <3>1. pendingState.generation \in Nat /\ low \in Nat
      BY <1>2, <2>1, Zenon DEF IndInv, TypeOK, ServiceTypeOK
    <3> QED BY <3>1
  <2>3. task \in Task /\ task.kind # "main"
    BY <2>2, TasksAreTasks, Zenon DEF PendingTask
  <2> HIDE DEF task
  <2>4. Consecutive(taskQueue', low, queuedBlockNumber)
    BY <1>1, <1>2, <2>1, <2>3, ConsecutiveAppend, Zenon
  <2> QED BY <2>1, <2>4, Zenon DEF QueueOK
<1>12. CASE TickHeadInterval \/ TickNewHead
  <2>1. PICK newHead \in Block : \E heads : TickRefreshHead(newHead, heads)
    <3>1. NodeHead \in Block
      BY DEF IndInv, NodeOK, NodeHead
    <3>2. newHeads # << >> => Head(newHeads) \in Block
      BY HeadAndTail, Zenon DEF IndInv, TypeOK, ServiceTypeOK
    <3> QED BY <1>12, <3>1, <3>2, Zenon DEF TickHeadInterval, TickNewHead
  <2>2. mode = "ingest"
    BY <1>12, Zenon DEF TickHeadInterval, TickNewHead
  <2>3. CASE EnterRecover
    BY <1>4, <2>3, Zenon DEF EnterRecover
  <2>4. CASE PushTasks(taskQueue, Number[newHead]) /\ mode' = mode /\ lastIngested' = lastIngested
    <3>1. Number[newHead] \in Nat
      BY BlockAssumption, Zenon
    <3>2. Consecutive(taskQueue', low, queuedBlockNumber')
      BY <1>1, <1>2, <2>2, <2>4, <3>1, PushKeepsQueue, Zenon
    <3> QED BY <2>2, <2>4, <3>2, Zenon DEF QueueOK
  <2> QED BY <1>3, <2>1, <2>3, <2>4, Zenon DEF TickRefreshHead
<1>13. CASE TickNewHeadsReconnect
  BY <1>3, <1>13, Zenon DEF TickNewHeadsReconnect
<1>14. CASE TickTaskReorg \/ TickRecoverStep \/ InitializeRecover
  BY <1>4, <1>14, Zenon DEF TickTaskReorg, TickRecoverStep, InitializeRecover, EnterRecover
<1>15. CASE \/ TickRefreshFinalizedFail \/ TickRecoverFail \/ Crash \/ InitializeStartFail
            \/ TickTaskBlockFail
  BY <1>5, <1>15, Zenon
     DEF TickRefreshFinalizedFail, TickRecoverFail, Crash, InitializeStartFail,
      TickTaskBlockFail
<1>16. CASE InitializeResume \/ InitializeStart \/ TickRecoverDone
  <2>1. taskQueue' = << >>
    BY <1>16, Zenon DEF InitializeResume, InitializeStart, TickRecoverDone, QueueOK
  <2>2. \E block : IngestFrom(block)
    BY <1>16, Zenon DEF InitializeResume, InitializeStart, TickRecoverDone
  <2> QED BY <1>6, <2>1, <2>2, Zenon
<1>17. CASE TickTaskBlock
  <2>1. /\ TaskFinished("main", "done") /\ CanGrow(builder, Head(taskQueue).block)
        /\ PushTasks(Tail(taskQueue), Number[head])
        /\ lastIngested' = Head(taskQueue).block /\ mode' = mode
    BY <1>17, BlockStep, Zenon
  <2>2. mode = "ingest" /\ taskQueue # << >> /\ Head(taskQueue).kind = "main"
    BY <2>1, Zenon DEF TaskFinished
  <2>3. Number[lastIngested'] = low + 1
    <3>1. /\ Grown.last = builder.last + 1 /\ IsBuilder(Grown)
          /\ LastBlock(Grown) = Head(taskQueue).block
      BY <2>1, GrownFacts, Zenon
    <3>2. Number[LastBlock(Grown)] = Grown.last
      BY <3>1, ChainFields, Zenon
    <3> QED BY <1>2, <2>1, <2>2, <3>1, <3>2, Zenon
  <2>4. Consecutive(Tail(taskQueue), low + 1, queuedBlockNumber)
    BY <1>1, <1>2, <2>2, ConsecutiveTail, Zenon
  <2>5. Tail(taskQueue) \in Seq(Task)
    BY <2>2, QueueTail, Zenon
  <2>6. low + 1 \in Nat
    BY <1>2, <2>2
  <2>7. Consecutive(taskQueue', low + 1, queuedBlockNumber')
    BY <1>1, <1>2, <2>1, <2>2, <2>4, <2>5, <2>6, PushKeepsQueue, Zenon
  <2> QED BY <2>1, <2>2, <2>3, <2>7, Zenon DEF QueueOK
<1> QED BY <1>7, <1>8, <1>9, <1>10, <1>11, <1>12, <1>13, <1>14, <1>15, <1>16, <1>17,
           StepKinds, Zenon
    DEF SilentStep, QuietStep

\* The queue never skips a number and never asks for one twice, for every
\* size of the queue and whatever heads the service is told of.
THEOREM ConsecutiveQueue == Spec => []QueueIsConsecutive
<1>1. Init => QueueOK
  BY Zenon DEF Init, QueueOK
<1>2. IndInv /\ IndInv' /\ QueueOK /\ [Next]_vars => QueueOK'
  BY QueueStep, Zenon
<1>3. QueueOK => QueueIsConsecutive
  BY Zenon DEF QueueOK, QueueIsConsecutive, Consecutive, MainOf, MainTasks
<1> QED BY <1>1, <1>2, <1>3, Inductive, PTL DEF Spec

=============================================================================

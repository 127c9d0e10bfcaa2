---------------------------- MODULE ReorgProofs ----------------------------
(***************************************************************************)
(* What ingestion does when the chain is reorganized: a client is sent     *)
(* back only to an ancestor of its block, and as long as                   *)
(* reorganizations are shallower than the upload offset the walk for a     *)
(* common block ends inside the recent segment, so that nothing but a      *)
(* failure or a node that takes finality back stops the service.           *)
(***************************************************************************)
EXTENDS IngestionProofs, WellFoundedInduction

-----------------------------------------------------------------------------
(* Induction on the natural numbers, over a set instead of a predicate.    *)

\* A set of natural numbers that is not empty has a least element.
LEMMA LeastNumber ==
    ASSUME NEW T, T \subseteq Nat, T # {}
    PROVE  \E x \in T : \A y \in T : x <= y
<1> DEFINE R == {ss \in Nat \X Nat : ss[1] < ss[2]}
<1>1. IsWellFoundedOn(R, Nat)
  BY NatLessThanWellFounded, Zenon DEF OpToRel
<1> HIDE DEF R
<1>2. PICK x \in T : \A y \in T : ~(<<y, x>> \in R)
  BY <1>1, WFMin, Zenon
<1>3. \A y \in T : x <= y
  <2> TAKE y \in T
  <2>1. x \in Nat /\ y \in Nat
    BY Zenon
  <2>2. ~(<<y, x>> \in R)
    BY <1>2, Zenon
  <2>3. ~(y < x)
    BY <2>1, <2>2, Zenon DEF R
  <2> QED BY <2>1, <2>3
<1> QED BY <1>3, Zenon

\* A set that holds 0 and the successor of each of its numbers holds all.
LEMMA NumbersBySuccessor ==
    ASSUME NEW S, 0 \in S, \A n \in Nat : n \in S => n + 1 \in S
    PROVE  Nat \subseteq S
<1> SUFFICES ASSUME ~(Nat \subseteq S) PROVE FALSE
  BY Zenon
<1> DEFINE T == {n \in Nat : n \notin S}
<1>1. T \subseteq Nat /\ T # {}
  BY Zenon
<1>2. PICK x \in T : \A y \in T : x <= y
  BY <1>1, LeastNumber, Zenon
<1>3. x \in Nat /\ x # 0
  BY <1>1, Zenon
<1>4. x - 1 \in Nat /\ x - 1 \notin T
  BY <1>2, <1>3
<1> QED BY <1>3, <1>4

-----------------------------------------------------------------------------
(* Ancestors and reorg targets                                             *)

\* Blocks at consecutive numbers, each the parent of the next: those below a
\* block are its ancestors.
LEMMA LinkedAncestors ==
    ASSUME NEW f, NEW low \in Nat, NEW high \in Nat,
           \A k \in low .. high : f[k] \in Block,
           \A k \in low + 1 .. high : Parent[f[k]] = f[k - 1],
           NEW m \in low .. high, NEW n \in low .. high, m < n
    PROVE  f[m] \in Ancestors[f[n]]
<1>1. SUFFICES ASSUME NEW S \in ParentClosed, Parent[f[n]] \in S \cup {ZeroHash}
               PROVE  f[m] \in S
  BY Zenon DEF Ancestors
<1>2. S \subseteq Block /\ \A b \in S : Parent[b] \in S \cup {ZeroHash}
  BY Zenon DEF ParentClosed
<1>3. ZeroHash \notin Block
  BY BlockAssumption, Zenon
<1> DEFINE D == {d \in Nat : d <= (n - 1) - m => f[(n - 1) - d] \in S}
<1>4. 0 \in D
  <2>1. n \in low + 1 .. high /\ n - 1 \in low .. high
    OBVIOUS
  <2>2. f[n - 1] \in S
    BY <1>1, <1>3, <2>1, Zenon
  <2>3. (n - 1) - 0 = n - 1
    OBVIOUS
  <2> QED BY <2>2, <2>3, Zenon
<1>5. ASSUME NEW d \in Nat, d \in D
      PROVE  d + 1 \in D
  <2> SUFFICES ASSUME d + 1 <= (n - 1) - m
               PROVE  f[(n - 1) - (d + 1)] \in S
    OBVIOUS
  <2> DEFINE k == (n - 1) - d
  <2>1. k \in low + 1 .. high /\ k - 1 \in low .. high /\ k - 1 = (n - 1) - (d + 1)
    OBVIOUS
  <2>2. f[k] \in S
    BY <1>5
  <2> HIDE DEF k
  <2>3. Parent[f[k]] = f[k - 1] /\ f[k - 1] \in Block
    BY <2>1, Zenon
  <2>4. f[k - 1] \in S
    BY <1>2, <1>3, <2>2, <2>3, Zenon
  <2> QED BY <2>1, <2>4, Zenon
<1>6. Nat \subseteq D
  <2> HIDE DEF D
  <2> QED BY <1>4, <1>5, NumbersBySuccessor, Zenon
<1>7. (n - 1) - m \in Nat /\ (n - 1) - ((n - 1) - m) = m
  OBVIOUS
<1>8. (n - 1) - m \in D
  BY <1>6, <1>7, Zenon
<1> QED BY <1>7, <1>8

\* The ancestors of the last block of a linked chain, as far down as the
\* chain reaches, are its blocks.
LEMMA AncestorOnChain ==
    ASSUME NEW c, IsBuilder(c), IsLinked(c), NEW x \in Ancestors[LastBlock(c)],
           Number[x] >= c.first
    PROVE  x = c.canonical[Number[x]]
<1>1. /\ c.first \in Nat /\ c.last \in Nat /\ c.first <= c.last
      /\ \A n \in c.first .. c.last : c.canonical[n] \in Block /\ Number[c.canonical[n]] = n
      /\ LastBlock(c) = c.canonical[c.last] /\ LastBlock(c) \in Block
      /\ Number[LastBlock(c)] = c.last
  BY ChainFields, Zenon DEF LastBlock
<1>2. \A n \in c.first + 1 .. c.last : Parent[c.canonical[n]] = c.canonical[n - 1]
  BY Zenon DEF IsLinked
<1>3. /\ \A b \in Block : Number[b] \in Nat
      /\ \A b \in Block : Parent[b] # ZeroHash =>
            Parent[b] \in Block /\ Number[Parent[b]] = Number[b] - 1
  BY BlockAssumption
<1> DEFINE S == {b \in Block : Number[b] >= c.first =>
                    Number[b] < c.last /\ b = c.canonical[Number[b]]}
<1>4. S \in ParentClosed
  <2> SUFFICES ASSUME NEW b \in S, Parent[b] # ZeroHash
               PROVE  Parent[b] \in S
    BY Zenon DEF ParentClosed
  <2>1. Parent[b] \in Block /\ Number[Parent[b]] = Number[b] - 1 /\ Number[b] \in Nat
    BY <1>3, Zenon
  <2>2. CASE Number[b] - 1 >= c.first
    <3>1. c.first \in Nat /\ c.last \in Nat
      BY <1>1, Zenon
    <3>2. Number[b] >= c.first
      BY <2>1, <2>2, <3>1
    <3>3. Number[b] < c.last /\ b = c.canonical[Number[b]]
      BY <3>2, Zenon
    <3>4. Number[b] \in c.first + 1 .. c.last /\ Number[b] - 1 < c.last
      BY <2>1, <2>2, <3>1, <3>3
    <3>5. Parent[b] = c.canonical[Number[b] - 1]
      BY <1>2, <3>3, <3>4, Zenon
    <3> QED BY <2>1, <3>4, <3>5, Zenon
  <2>3. CASE ~(Number[b] - 1 >= c.first)
    BY <1>1, <2>1, <2>3, Zenon
  <2> QED BY <2>2, <2>3, Zenon
<1>5. Parent[LastBlock(c)] \in S \cup {ZeroHash}
  <2> SUFFICES ASSUME Parent[LastBlock(c)] # ZeroHash
               PROVE  Parent[LastBlock(c)] \in S
    BY Zenon
  <2>1. Parent[LastBlock(c)] \in Block /\ Number[Parent[LastBlock(c)]] = c.last - 1
    BY <1>1, <1>3, Zenon
  <2>2. c.first \in Nat /\ c.last \in Nat /\ c.first <= c.last
    BY <1>1, Zenon
  <2>3. CASE c.last > c.first
    <3>1. c.last \in c.first + 1 .. c.last /\ c.last - 1 < c.last
      BY <2>2, <2>3
    <3>2. Parent[LastBlock(c)] = c.canonical[c.last - 1]
      BY <1>1, <1>2, <3>1, Zenon
    <3> QED BY <2>1, <3>1, <3>2, Zenon
  <2>4. CASE ~(c.last > c.first)
    <3>1. ~(c.last - 1 >= c.first)
      BY <2>2, <2>4
    <3> QED BY <2>1, <3>1, Zenon
  <2> QED BY <2>3, <2>4, Zenon
<1>6. x \in S
  BY <1>1, <1>4, <1>5, Zenon DEF Ancestors
<1> QED BY <1>6, Zenon

\* The blocks of a linked chain below a block are its ancestors.
LEMMA ChainAncestors ==
    ASSUME NEW c, IsBuilder(c), IsLinked(c),
           NEW m \in c.first .. c.last, NEW n \in c.first .. c.last, m < n
    PROVE  c.canonical[m] \in Ancestors[c.canonical[n]]
<1>1. /\ c.first \in Nat /\ c.last \in Nat
      /\ \A k \in c.first .. c.last : c.canonical[k] \in Block
  BY ChainFields, Zenon
<1>2. \A k \in c.first + 1 .. c.last : Parent[c.canonical[k]] = c.canonical[k - 1]
  BY Zenon DEF IsLinked
<1> QED BY <1>1, <1>2, LinkedAncestors, Zenon

\* Fewer reorged blocks, with the same targets.
LEMMA FewerTargets ==
    ASSUME NEW reorgs, AncestorTargets(reorgs)
    PROVE  /\ \A numbers : AncestorTargets(ReorgsIn(reorgs, numbers))
           /\ \A n : AncestorTargets(ReorgsAbove(reorgs, n))
           /\ AncestorTargets(NoReorgs)
<1>1. ASSUME NEW S, S \subseteq DOMAIN reorgs
      PROVE  AncestorTargets(Restrict(reorgs, S))
  BY <1>1, Zenon DEF AncestorTargets, Restrict
<1>2. AncestorTargets(NoReorgs)
  BY Zenon DEF AncestorTargets, NoReorgs
<1> QED BY <1>1, <1>2, Zenon DEF ReorgsIn, ReorgsAbove

\* The removed blocks are sent to the new head.
LEMMA ShrinkTargets ==
    ASSUME NEW c, IsBuilder(c), IsLinked(c), NEW newHead \in Block, CanShrink(c, newHead),
           AncestorTargets(c.reorgs)
    PROVE  AncestorTargets(Shrink(c, newHead).reorgs)
<1> DEFINE removed == Removed(c, newHead)
           reorgs  == RecordReorgs(c.reorgs, removed, newHead)
<1>1. Shrink(c, newHead).reorgs = reorgs
  BY Zenon DEF Shrink
<1>2. ASSUME NEW b \in removed
      PROVE  newHead \in Ancestors[b]
  <2>1. PICK n \in Number[newHead] + 1 .. c.last : b = c.canonical[n]
    BY <1>2, Zenon DEF Removed
  <2>2. /\ c.first \in Nat /\ c.last \in Nat /\ Number[newHead] \in c.first .. c.last
        /\ c.canonical[Number[newHead]] = newHead
    BY ChainFields, Zenon DEF CanShrink
  <2>3. n \in c.first .. c.last /\ Number[newHead] < n
    BY <2>1, <2>2
  <2> QED BY <2>1, <2>2, <2>3, ChainAncestors, Zenon
<1>3. /\ DOMAIN reorgs = DOMAIN c.reorgs \cup removed
      /\ \A b \in DOMAIN reorgs : reorgs[b] = IF b \in removed THEN newHead ELSE c.reorgs[b]
  BY Zenon DEF RecordReorgs
<1> HIDE DEF removed, reorgs
<1>4. AncestorTargets(reorgs)
  BY <1>2, <1>3, Zenon DEF AncestorTargets
<1> QED BY <1>1, <1>4, Zenon

\* A snapshot has the builder's targets.
LEMMA SnapshotTargets ==
    ASSUME NEW c, AncestorTargets(c.reorgs)
    PROVE  /\ AncestorTargets(CurrentSegment(c).reorgs)
           /\ AncestorTargets(CurrentSegment(c).extraReorgs)
BY FewerTargets, Zenon DEF CurrentSegment

-----------------------------------------------------------------------------
(* Where clients are sent back to                                          *)

\* All the reorg targets the service or a reader can reach are ancestors.
TargetsOK ==
    /\ Running => AncestorTargets(builder.reorgs)
    /\ recent # Null => AncestorTargets(recent.reorgs) /\ AncestorTargets(recent.extraReorgs)
    /\ legacy # Null => AncestorTargets(legacy.reorgs) /\ AncestorTargets(legacy.extraReorgs)
    /\ \A n \in DOMAIN segments : AncestorTargets(segments[n].reorgs)

\* Every step keeps the targets ancestors.
LEMMA TargetsStep ==
    ASSUME IndInv /\ TargetsOK /\ [Next]_vars
    PROVE  TargetsOK'
<1>1. CASE SilentStep
  BY <1>1, SilentStepIsSilent, Zenon DEF TargetsOK
<1>2. CASE InitializeResume \/ InitializeRecover
  <2>1. PICK s : /\ recent' = s
                 /\ \/ recent # Null /\ s = recent
                    \/ recent = Null /\ legacy # Null /\ s = legacy
                 /\ builder' = RestoreFromSegment(s)
                 /\ segments' = segments /\ legacy' \in {legacy, Null}
    BY <1>2, RestoreStep, Zenon
  <2>2. AncestorTargets(s.reorgs) /\ AncestorTargets(s.extraReorgs)
    BY <2>1, Zenon DEF TargetsOK
  <2>3. builder'.reorgs = s.reorgs
    BY <2>1, Zenon DEF RestoreFromSegment
  <2> QED BY <2>1, <2>2, <2>3, Zenon DEF TargetsOK
<1>3. CASE InitializeStart
  <2> DEFINE grown == Grow(Null, nodeChain[StartingBlock])
  <2>1. builder' = grown /\ recent' = CurrentSegment(grown) /\ UNCHANGED <<segments, legacy>>
    BY <1>3, Zenon DEF InitializeStart, Publish
  <2>2. grown.reorgs = NoReorgs
    BY Zenon DEF Grow
  <2> HIDE DEF grown
  <2>3. AncestorTargets(NoReorgs)
    BY Zenon DEF AncestorTargets, NoReorgs
  <2> QED BY <2>1, <2>2, <2>3, SnapshotTargets, Zenon DEF TargetsOK
<1>4. CASE InitializeStartFail
  BY <1>4, Zenon DEF InitializeStartFail, Stop, TargetsOK, Running
<1>5. ASSUME TaskFinished("main", "done"), CanGrow(builder, Head(taskQueue).block)
      PROVE  /\ AncestorTargets(Grown.reorgs)
             /\ AncestorTargets(TakenSegment(Grown, ChainSegmentSize).reorgs)
             /\ AncestorTargets(AfterTake(Grown, ChainSegmentSize).reorgs)
  <2>1. builder # Null /\ AncestorTargets(builder.reorgs)
    BY <1>5, ChainsAreNotNull, Zenon DEF TaskFinished, TargetsOK, Running, IndInv, ServiceOK
  <2>2. Grown.reorgs = builder.reorgs
    BY <2>1, Zenon DEF Grown, Grow
  <2> QED BY <2>1, <2>2, FewerTargets, Zenon DEF TakenSegment, AfterTake
<1>6. ASSUME NEW s, AncestorTargets(s.reorgs), segments' = PutSegment(s)
      PROVE  \A n \in DOMAIN segments' : AncestorTargets(segments'[n].reorgs)
  <2>1. /\ DOMAIN segments' = DOMAIN segments \cup {s.first} /\ segments'[s.first] = s
        /\ \A n \in DOMAIN segments : n # s.first => segments'[n] = segments[n]
    BY <1>6, PutSegmentIs, Zenon
  <2>2. \A n \in DOMAIN segments : AncestorTargets(segments[n].reorgs)
    BY Zenon DEF TargetsOK
  <2> QED BY <1>6, <2>1, <2>2, Zenon
<1>7. CASE TickTaskBlock
  <2>1. /\ TaskFinished("main", "done") /\ CanGrow(builder, Head(taskQueue).block)
        /\ \/ /\ builder' = Grown /\ segments' = segments
              /\ recent' \in {recent, CurrentSegment(Grown)}
           \/ /\ builder' = AfterTake(Grown, ChainSegmentSize)
              /\ segments' = PutSegment(TakenSegment(Grown, ChainSegmentSize))
              /\ recent' = CurrentSegment(builder')
        /\ legacy' = legacy
    BY <1>7, BlockStep, Zenon
  <2>2. AncestorTargets(builder'.reorgs)
    BY <1>5, <2>1, Zenon
  <2>3. recent' # Null => AncestorTargets(recent'.reorgs) /\ AncestorTargets(recent'.extraReorgs)
    BY <2>1, <2>2, SnapshotTargets, Zenon DEF TargetsOK
  <2>4. \A n \in DOMAIN segments' : AncestorTargets(segments'[n].reorgs)
    <3>1. CASE segments' = segments
      BY <3>1, Zenon DEF TargetsOK
    <3>2. CASE segments' = PutSegment(TakenSegment(Grown, ChainSegmentSize))
      BY <1>5, <1>6, <2>1, <3>2, Zenon
    <3> QED BY <2>1, <3>1, <3>2, Zenon
  <2> QED BY <2>1, <2>2, <2>3, <2>4, Zenon DEF TargetsOK
<1>8. CASE TickTaskBlockFail
  <2>1. /\ TaskFinished("main", "done") /\ CanGrow(builder, Head(taskQueue).block)
        /\ segments' = PutSegment(TakenSegment(Grown, ChainSegmentSize))
        /\ mode' = "down" /\ recent' = recent /\ legacy' = legacy
    BY <1>8, Zenon DEF TickTaskBlockFail, Grown, Stop, etcdVars
  <2>2. \A n \in DOMAIN segments' : AncestorTargets(segments'[n].reorgs)
    BY <1>5, <1>6, <2>1, Zenon
  <2> QED BY <2>1, <2>2, Zenon DEF TargetsOK, Running
<1>9. CASE TickRecoverDone
  <2> DEFINE cut == Shrink(builder, candidate)
  <2>1. /\ mode = "recover" /\ IsBuilder(builder) /\ IsLinked(builder) /\ candidate \in Block
        /\ CanShrink(builder, candidate)
        /\ builder' = cut /\ recent' = CurrentSegment(cut)
        /\ segments' = segments /\ legacy' = legacy
    BY <1>9, RecoverStep, Zenon DEF objectVars
  <2>2. AncestorTargets(cut.reorgs)
    BY <2>1, ShrinkTargets, Zenon DEF TargetsOK, Running
  <2> HIDE DEF cut
  <2> QED BY <2>1, <2>2, SnapshotTargets, Zenon DEF TargetsOK
<1> QED BY <1>1, <1>2, <1>3, <1>4, <1>7, <1>8, <1>9, StepKinds, Zenon

\* A client that is told to roll back is sent to an ancestor of its block,
\* for every block tree and any number of reorganizations, restarts and
\* uploads between.
THEOREM AncestorsOnly == Spec => []ReorgTargetsAreAncestors
<1>1. Init => TargetsOK
  BY DEF Init, TargetsOK, Running, LegacySegment, AncestorTargets, NoReorgs
<1>2. IndInv /\ TargetsOK /\ [Next]_vars => TargetsOK'
  BY TargetsStep, Zenon
<1>3. TargetsOK => ReorgTargetsAreAncestors
  BY Zenon DEF TargetsOK, ReorgTargetsAreAncestors
<1> QED BY <1>1, <1>2, <1>3, Inductive, PTL DEF Spec

-----------------------------------------------------------------------------
(* The common block                                                        *)

\* A block that is or once was on the node's chain: its ancestors at least
\* MaxReorgDepth below it are still there.
SeenOn(block, chain, height, top) ==
    /\ Number[block] <= top
    /\ \A n \in Nat : n + MaxReorgDepth <= Number[block] =>
            n <= height /\ chain[n] \in {block} \cup Ancestors[block]

\* A number at which the node's chain does not change any more.
SettledUnder(n, top) == n = 0 \/ n + MaxReorgDepth <= top

\* A chain with a first block the node keeps and a last block it has had.
KeptOn(c, chain, height, top) ==
    /\ SettledUnder(c.first, top) /\ c.first <= height
    /\ chain[c.first] = c.canonical[c.first]
    /\ SeenOn(LastBlock(c), chain, height, top)

\* The node's chain is linked and near its highest head.
NodeLinked ==
    /\ nodeHeight <= tallest /\ tallest <= nodeHeight + MaxReorgDepth
    /\ InitialHeight <= tallest
    /\ \A n \in 1 .. nodeHeight : Parent[nodeChain[n]] = nodeChain[n - 1]

\* All that the service works with comes from the node, and the first block of
\* the recent segment stays on the node's chain.
KeptOK ==
    /\ NodeLinked
    /\ Running => KeptOn(builder, nodeChain, nodeHeight, tallest)
    /\ recent # Null => KeptOn(recent, nodeChain, nodeHeight, tallest)
    /\ legacy # Null => KeptOn(legacy, nodeChain, nodeHeight, tallest)
    /\ \A i \in 1 .. Len(taskQueue) :
        taskQueue[i].kind = "main" /\ taskQueue[i].status = "done" =>
            SeenOn(taskQueue[i].block, nodeChain, nodeHeight, tallest)

\* A reorganization leaves the settled part of the node's chain alone.
LEMMA SettledBlocksStay ==
    ASSUME NodeOK /\ NodeLinked /\ [Next]_vars
    PROVE  /\ NodeLinked' /\ tallest <= tallest' /\ tallest \in Nat /\ tallest' \in Nat
           /\ \A n \in Nat : SettledUnder(n, tallest) =>
                n <= nodeHeight' /\ nodeChain'[n] = nodeChain[n]
<1>1. /\ nodeHeight \in Nat /\ tallest \in Nat /\ nodeChain \in [0 .. nodeHeight -> Block]
      /\ MaxReorgDepth \in Nat /\ InitialHeight \in Nat
  BY NodeAssumption, Zenon DEF NodeOK
<1>2. \A n \in Nat : SettledUnder(n, tallest) => n <= nodeHeight
  BY <1>1 DEF NodeLinked, SettledUnder
<1>3. CASE UNCHANGED nodeVars
  BY <1>1, <1>2, <1>3 DEF nodeVars, NodeLinked
<1>4. ASSUME NEW block \in Block, NodeGrow(block)
      PROVE  /\ NodeLinked' /\ tallest <= tallest' /\ tallest' \in Nat
             /\ \A n \in Nat : SettledUnder(n, tallest) =>
                    n <= nodeHeight' /\ nodeChain'[n] = nodeChain[n]
  <2>1. /\ Parent[block] = nodeChain[nodeHeight] /\ nodeHeight' = nodeHeight + 1
        /\ nodeChain' = [n \in 0 .. nodeHeight + 1 |->
                            IF n = nodeHeight + 1 THEN block ELSE nodeChain[n]]
        /\ tallest' = IF nodeHeight + 1 > tallest THEN nodeHeight + 1 ELSE tallest
    BY <1>4, Zenon DEF NodeGrow, NodeHead
  <2>2. \A n \in 0 .. nodeHeight : nodeChain'[n] = nodeChain[n]
    BY <1>1, <2>1
  <2>3. nodeChain'[nodeHeight + 1] = block
    BY <1>1, <2>1
  <2>4. ASSUME NEW n \in 1 .. nodeHeight + 1
        PROVE  Parent[nodeChain'[n]] = nodeChain'[n - 1]
    <3>1. CASE n = nodeHeight + 1
      BY <1>1, <2>1, <2>2, <2>3, <3>1
    <3>2. CASE n # nodeHeight + 1
      <4>1. n \in 1 .. nodeHeight /\ n - 1 \in 0 .. nodeHeight /\ n \in 0 .. nodeHeight
        BY <1>1, <3>2
      <4> QED BY <2>2, <4>1, Zenon DEF NodeLinked
    <3> QED BY <3>1, <3>2, Zenon
  <2>5. /\ tallest <= tallest' /\ tallest' \in Nat /\ nodeHeight + 1 <= tallest'
        /\ tallest' <= nodeHeight + 1 + MaxReorgDepth /\ InitialHeight <= tallest'
    BY <1>1, <2>1 DEF NodeLinked
  <2>6. NodeLinked'
    BY <2>1, <2>4, <2>5, Zenon DEF NodeLinked
  <2> QED BY <1>1, <1>2, <2>1, <2>2, <2>5, <2>6
<1>5. ASSUME NEW n \in 0 .. nodeHeight, NodeRevert(n)
      PROVE  /\ NodeLinked' /\ tallest' = tallest
             /\ \A m \in Nat : SettledUnder(m, tallest) =>
                    m <= nodeHeight' /\ nodeChain'[m] = nodeChain[m]
  <2>1. /\ n < nodeHeight /\ n >= tallest - MaxReorgDepth /\ nodeHeight' = n
        /\ tallest' = tallest
        /\ \A m \in 0 .. n : nodeChain'[m] = nodeChain[m]
    BY <1>1, <1>5, Zenon DEF NodeRevert, Restrict
  <2>2. NodeLinked'
    <3>1. ASSUME NEW m \in 1 .. n
          PROVE  Parent[nodeChain'[m]] = nodeChain'[m - 1]
      <4>1. m \in 0 .. n /\ m - 1 \in 0 .. n /\ m \in 1 .. nodeHeight
        BY <1>1, <2>1
      <4> QED BY <2>1, <4>1, Zenon DEF NodeLinked
    <3>2. n <= tallest /\ tallest <= n + MaxReorgDepth /\ InitialHeight <= tallest
      BY <1>1, <2>1 DEF NodeLinked
    <3> QED BY <2>1, <3>1, <3>2, Zenon DEF NodeLinked
  <2>3. \A m \in Nat : SettledUnder(m, tallest) => m \in 0 .. n
    BY <1>1, <2>1 DEF SettledUnder
  <2> QED BY <1>1, <2>1, <2>2, <2>3
<1>6. CASE NodeStep
  <2>1. CASE \E block \in Block : NodeGrow(block)
    BY <1>1, <1>4, <2>1, Zenon
  <2>2. CASE \E n \in 0 .. nodeHeight : NodeRevert(n)
    BY <1>1, <1>5, <2>2
  <2>3. CASE \E n \in 0 .. nodeHeight : NodeFinalize(n)
    BY <1>1, <1>2, <2>3 DEF NodeFinalize, NodeLinked
  <2> QED BY <1>6, <2>1, <2>2, <2>3, Zenon DEF NodeStep
<1>7. NodeStep \/ UNCHANGED nodeVars
  BY Zenon DEF Next, ServiceStep, TaskStep, vars, InitializeChain, InitializeResume,
         InitializeRecover, InitializeStart, InitializeStartFail, TickHeadInterval,
         TickNewHead, TickNewHeadsReconnect, TickRefreshFinalized,
         TickRefreshFinalizedFail, TickRefreshPending, TickTaskBlock, TickTaskBlockFail,
         TickTaskReorg, TickTaskPendingNone, TickTaskPending, TickRecoverStep,
         TickRecoverFail, TickRecoverDone, RunMainTask, RunPendingTask, Crash
<1> QED BY <1>1, <1>3, <1>6, <1>7, Zenon

\* A block the node had stays one, and a kept chain stays kept, while the
\* settled blocks stay.
LEMMA KeptStays ==
    ASSUME NEW chain, NEW height, NEW top \in Nat, NEW chain2, NEW height2, NEW top2 \in Nat,
           top <= top2,
           \A n \in Nat : SettledUnder(n, top) => n <= height2 /\ chain2[n] = chain[n]
    PROVE  /\ \A b \in Block : SeenOn(b, chain, height, top) => SeenOn(b, chain2, height2, top2)
           /\ \A c : IsBuilder(c) \/ IsSegment(c) =>
                (KeptOn(c, chain, height, top) => KeptOn(c, chain2, height2, top2))
<1>0. MaxReorgDepth \in Nat
  BY NodeAssumption, Zenon
<1>1. ASSUME NEW b \in Block, SeenOn(b, chain, height, top)
      PROVE  SeenOn(b, chain2, height2, top2)
  <2>1. Number[b] \in Nat /\ Number[b] <= top
    BY <1>1, BlockAssumption, Zenon DEF SeenOn
  <2>2. \A n \in Nat : n + MaxReorgDepth <= Number[b] => SettledUnder(n, top)
    BY <1>0, <2>1 DEF SettledUnder
  <2>3. Number[b] <= top2
    BY <2>1
  <2> QED BY <1>1, <2>2, <2>3, Zenon DEF SeenOn
<1>2. ASSUME NEW c, IsBuilder(c) \/ IsSegment(c), KeptOn(c, chain, height, top)
      PROVE  KeptOn(c, chain2, height2, top2)
  <2>1. c.first \in Nat /\ LastBlock(c) \in Block
    BY <1>2, ChainFields, Zenon
  <2>2. SettledUnder(c.first, top2)
    BY <1>0, <1>2, <2>1 DEF KeptOn, SettledUnder
  <2>3. SeenOn(LastBlock(c), chain2, height2, top2)
    BY <1>1, <1>2, <2>1, Zenon DEF KeptOn
  <2> QED BY <1>2, <2>1, <2>2, <2>3, Zenon DEF KeptOn
<1> QED BY <1>1, <1>2, Zenon

\* A block that is on the node's chain has been seen.
LEMMA OnNodeIsSeen ==
    ASSUME NEW n \in 0 .. nodeHeight, NodeOK /\ NodeLinked
    PROVE  SeenOn(nodeChain[n], nodeChain, nodeHeight, tallest)
<1>1. /\ nodeHeight \in Nat /\ tallest \in Nat /\ MaxReorgDepth \in Nat
      /\ \A k \in 0 .. nodeHeight : nodeChain[k] \in Block /\ Number[nodeChain[k]] = k
  BY NodeAssumption, Zenon DEF NodeOK
<1>2. \A k \in 0 + 1 .. nodeHeight : Parent[nodeChain[k]] = nodeChain[k - 1]
  BY DEF NodeLinked
<1>3. ASSUME NEW m \in Nat, m + MaxReorgDepth <= n
      PROVE  m <= nodeHeight /\ nodeChain[m] \in {nodeChain[n]} \cup Ancestors[nodeChain[n]]
  <2>1. m \in 0 .. nodeHeight /\ m <= n
    BY <1>1, <1>3
  <2>2. m < n => nodeChain[m] \in Ancestors[nodeChain[n]]
    BY <1>1, <1>2, <2>1, LinkedAncestors, Zenon
  <2> QED BY <1>1, <2>1, <2>2
<1>4. Number[nodeChain[n]] = n /\ n <= tallest
  BY <1>1 DEF NodeLinked
<1> QED BY <1>3, <1>4, Zenon DEF SeenOn

\* The blocks of a linked chain that are deep enough below its last block are
\* on the node's chain.
LEMMA DeepBlocksAgree ==
    ASSUME NodeOK, NEW c, IsBuilder(c), IsLinked(c),
           SeenOn(LastBlock(c), nodeChain, nodeHeight, tallest),
           NEW n \in c.first .. c.last, n + MaxReorgDepth <= c.last
    PROVE  n <= nodeHeight /\ nodeChain[n] = c.canonical[n]
<1>1. /\ c.first \in Nat /\ c.last \in Nat /\ Number[LastBlock(c)] = c.last
      /\ LastBlock(c) = c.canonical[c.last]
  BY ChainFields, Zenon DEF LastBlock
<1>2. n \in Nat /\ n <= nodeHeight /\ nodeChain[n] \in {LastBlock(c)} \cup Ancestors[LastBlock(c)]
  <2>1. n \in Nat
    BY <1>1
  <2> QED BY <1>1, <2>1, Zenon DEF SeenOn
<1>3. Number[nodeChain[n]] = n
  BY <1>2 DEF NodeOK
<1>4. CASE nodeChain[n] = LastBlock(c)
  BY <1>1, <1>2, <1>3, <1>4, Zenon
<1>5. CASE nodeChain[n] \in Ancestors[LastBlock(c)]
  <2>1. Number[nodeChain[n]] >= c.first
    BY <1>1, <1>3
  <2> QED BY <1>2, <1>3, <1>5, <2>1, AncestorOnChain, Zenon
<1> QED BY <1>2, <1>4, <1>5, Zenon

\* The deployments in which recovery always finds a common block: a segment
\* is uploaded only once reorganizations cannot reach it any more, and the
\* chain starts at genesis or at a block that deep.
ShallowReorgs ==
    /\ MaxReorgDepth < ChainSegmentUploadOffset
    /\ StartingBlock = 0 \/ StartingBlock + MaxReorgDepth <= InitialHeight

\* A snapshot is kept as its builder is.
LEMMA SnapshotIsKept ==
    ASSUME NEW c, IsBuilder(c), IsLinked(c), NEW chain, NEW height, NEW top,
           KeptOn(c, chain, height, top)
    PROVE  KeptOn(CurrentSegment(c), chain, height, top)
BY CurrentSegmentKeepsChain, Zenon DEF KeptOn, LastBlock

\* The grown chain is kept, and so is what is left of it once the segment
\* that is due has been taken.
LEMMA GrownIsKept ==
    ASSUME ShallowReorgs, IndInv, KeptOK, TaskFinished("main", "done"),
           CanGrow(builder, Head(taskQueue).block)
    PROVE  /\ KeptOn(Grown, nodeChain, nodeHeight, tallest)
           /\ SegmentIsDue(Grown) =>
                KeptOn(AfterTake(Grown, ChainSegmentSize), nodeChain, nodeHeight, tallest)
<1>1. /\ mode = "ingest" /\ recent # Null /\ IsBuilder(Grown) /\ IsLinked(Grown)
      /\ Grown.first = recent.first
      /\ LastBlock(Grown) = Head(taskQueue).block
      /\ Grown.canonical[Grown.first] = recent.canonical[Grown.first]
  BY GrownFacts, Zenon
<1>2. SeenOn(LastBlock(Grown), nodeChain, nodeHeight, tallest)
  <2>1. /\ 1 \in 1 .. Len(taskQueue) /\ Head(taskQueue) = taskQueue[1]
        /\ Head(taskQueue).kind = "main" /\ Head(taskQueue).status = "done"
    BY QueueTail DEF TaskFinished
  <2>2. SeenOn(taskQueue[1].block, nodeChain, nodeHeight, tallest)
    BY <2>1, Zenon DEF KeptOK
  <2> QED BY <1>1, <2>1, <2>2, Zenon
<1>3. KeptOn(Grown, nodeChain, nodeHeight, tallest)
  BY <1>1, <1>2, Zenon DEF KeptOn, KeptOK
<1>4. ASSUME SegmentIsDue(Grown)
      PROVE  KeptOn(AfterTake(Grown, ChainSegmentSize), nodeChain, nodeHeight, tallest)
  <2> DEFINE rest == AfterTake(Grown, ChainSegmentSize)
             first == Grown.first + ChainSegmentSize
  <2>1. /\ rest.first = first /\ rest.last = Grown.last /\ IsBuilder(rest)
        /\ \A n \in rest.first .. rest.last : rest.canonical[n] = Grown.canonical[n]
        /\ LastBlock(rest) = LastBlock(Grown)
    BY <1>1, <1>4, DueSegmentIsTaken, TakeSplitsChain, Zenon
  <2>2. /\ Grown.first \in Nat /\ Grown.last \in Nat /\ ChainSegmentSize \in Nat \ {0}
        /\ MaxReorgDepth \in Nat /\ ChainSegmentUploadOffset \in Nat /\ tallest \in Nat
        /\ Number[LastBlock(Grown)] = Grown.last /\ Grown # Null
    BY <1>1, <1>4, ChainFields, ChainsAreNotNull, DueSegmentIsTaken, NodeAssumption,
       IngestionAssumption, Zenon DEF IndInv, NodeOK
  <2>3. Grown.last - Grown.first + 1 >= ChainSegmentSize + ChainSegmentUploadOffset
    BY <1>4, <2>2, Zenon DEF SegmentIsDue, SegmentSize
  <2>4. first \in Grown.first .. Grown.last /\ first + MaxReorgDepth <= Grown.last
    BY <2>2, <2>3 DEF ShallowReorgs
  <2>5. first <= nodeHeight /\ nodeChain[first] = Grown.canonical[first]
    BY <1>1, <1>2, <2>4, DeepBlocksAgree, Zenon DEF IndInv
  <2>6. Grown.last <= tallest
    BY <1>2, <2>2, Zenon DEF SeenOn
  <2>7. SettledUnder(first, tallest)
    BY <2>2, <2>4, <2>6 DEF SettledUnder
  <2>8. first \in rest.first .. rest.last
    BY <2>1, <2>2, <2>4
  <2> HIDE DEF rest, first
  <2>9. KeptOn(rest, nodeChain, nodeHeight, tallest)
    BY <1>2, <2>1, <2>5, <2>7, <2>8, Zenon DEF KeptOn
  <2> QED BY <2>9, Zenon DEF rest
<1> QED BY <1>3, <1>4, Zenon

\* What was kept before a step is kept by the node as it is after the step.
LEMMA KeptAfterNode ==
    ASSUME IndInv /\ KeptOK /\ [Next]_vars
    PROVE  /\ NodeLinked'
           /\ Running => KeptOn(builder, nodeChain', nodeHeight', tallest')
           /\ recent # Null => KeptOn(recent, nodeChain', nodeHeight', tallest')
           /\ legacy # Null => KeptOn(legacy, nodeChain', nodeHeight', tallest')
           /\ \A i \in 1 .. Len(taskQueue) :
                taskQueue[i].kind = "main" /\ taskQueue[i].status = "done" =>
                    SeenOn(taskQueue[i].block, nodeChain', nodeHeight', tallest')
<1>1. /\ NodeLinked' /\ tallest <= tallest' /\ tallest \in Nat /\ tallest' \in Nat
      /\ \A n \in Nat : SettledUnder(n, tallest) =>
            n <= nodeHeight' /\ nodeChain'[n] = nodeChain[n]
  BY SettledBlocksStay, Zenon DEF IndInv, KeptOK
<1>2. /\ \A b \in Block : SeenOn(b, nodeChain, nodeHeight, tallest) =>
            SeenOn(b, nodeChain', nodeHeight', tallest')
      /\ \A c : IsBuilder(c) \/ IsSegment(c) =>
            (KeptOn(c, nodeChain, nodeHeight, tallest) =>
                KeptOn(c, nodeChain', nodeHeight', tallest'))
  BY <1>1, KeptStays, Zenon
<1>3. /\ Running => IsBuilder(builder)
      /\ recent # Null => IsSegment(recent)
      /\ legacy # Null => IsSegment(legacy)
  BY Zenon DEF IndInv, ServiceOK, TypeOK, StoreTypeOK
<1>4. \A i \in 1 .. Len(taskQueue) :
        taskQueue[i].kind = "main" /\ taskQueue[i].status = "done" => taskQueue[i].block \in Block
  BY DEF IndInv, TypeOK, ServiceTypeOK, Task
<1> QED BY <1>1, <1>2, <1>3, <1>4, Zenon DEF KeptOK

\* Every step keeps the first block of the recent segment on the node's chain.
LEMMA KeptStep ==
    ASSUME ShallowReorgs /\ IndInv /\ KeptOK /\ [Next]_vars
    PROVE  KeptOK'
<1> DEFINE Kept(c) == KeptOn(c, nodeChain', nodeHeight', tallest')
<1>0. /\ NodeLinked'
      /\ Running => Kept(builder)
      /\ recent # Null => Kept(recent)
      /\ legacy # Null => Kept(legacy)
  BY KeptAfterNode, Zenon
<1>1. \A i \in 1 .. Len(taskQueue') :
        taskQueue'[i].kind = "main" /\ taskQueue'[i].status = "done" =>
            SeenOn(taskQueue'[i].block, nodeChain', nodeHeight', tallest')
  <2> SUFFICES ASSUME NEW i \in 1 .. Len(taskQueue'),
                      taskQueue'[i].kind = "main", taskQueue'[i].status = "done"
               PROVE  SeenOn(taskQueue'[i].block, nodeChain', nodeHeight', tallest')
    BY Zenon
  <2>1. CASE \E j \in 1 .. Len(taskQueue) : taskQueue'[i] = taskQueue[j]
    BY <2>1, KeptAfterNode, Zenon
  <2>2. CASE /\ taskQueue'[i].number \in 0 .. nodeHeight
             /\ taskQueue'[i].block = nodeChain[taskQueue'[i].number]
             /\ UNCHANGED nodeVars
    BY <2>2, OnNodeIsSeen, Zenon DEF IndInv, KeptOK, nodeVars
  <2> QED BY <2>1, <2>2, FinishedTasks, Zenon
<1>2. SUFFICES /\ Running' => Kept(builder')
               /\ recent' # Null => Kept(recent')
               /\ legacy' # Null => Kept(legacy')
  BY <1>0, <1>1, Zenon DEF KeptOK
<1>3. CASE SilentStep
  BY <1>0, <1>3, SilentStepIsSilent, Zenon
<1>4. CASE InitializeResume \/ InitializeRecover
  <2>1. PICK s : /\ recent' = s
                 /\ \/ recent # Null /\ s = recent
                    \/ recent = Null /\ legacy # Null /\ s = legacy
                 /\ builder'.first = s.first /\ builder'.last = s.last
                 /\ builder'.canonical = s.canonical /\ legacy' \in {legacy, Null}
    BY <1>4, RestoreStep, Zenon
  <2>2. Kept(s)
    BY <1>0, <2>1, Zenon
  <2>3. Kept(builder')
    BY <2>1, <2>2, Zenon DEF KeptOn, LastBlock
  <2> QED BY <1>0, <2>1, <2>2, <2>3, Zenon
<1>5. CASE InitializeStart
  <2> DEFINE block == nodeChain[StartingBlock]
             grown == Grow(Null, block)
  <2>1. /\ StartingBlock \in 0 .. nodeHeight /\ UNCHANGED nodeVars /\ legacy' = legacy
        /\ builder' = grown /\ recent' = CurrentSegment(grown)
    BY <1>5, Zenon DEF InitializeStart, Publish, NodeHas
  <2>2. block \in Block /\ Number[block] = StartingBlock
    BY <2>1, Zenon DEF IndInv, NodeOK
  <2>3. SeenOn(block, nodeChain, nodeHeight, tallest)
    BY <2>1, OnNodeIsSeen, Zenon DEF IndInv, KeptOK
  <2>4. /\ IsBuilder(grown) /\ IsLinked(grown) /\ grown.first = StartingBlock
        /\ grown.canonical = [n \in {StartingBlock} |-> block] /\ LastBlock(grown) = block
    BY <2>2, GrowEmpty, Zenon
  <2>5. SettledUnder(StartingBlock, tallest) /\ StartingBlock <= nodeHeight
    <3>1. /\ StartingBlock = 0 \/ StartingBlock + MaxReorgDepth <= InitialHeight
          /\ InitialHeight <= tallest
      BY Zenon DEF ShallowReorgs, KeptOK, NodeLinked
    <3>2. StartingBlock + MaxReorgDepth \in Nat /\ InitialHeight \in Nat /\ tallest \in Nat
      BY NodeAssumption, IngestionAssumption DEF IndInv, NodeOK
    <3>3. StartingBlock = 0 \/ StartingBlock + MaxReorgDepth <= tallest
      BY <3>1, <3>2
    <3> QED BY <2>1, <3>3, NumberOfInterval, Zenon DEF SettledUnder
  <2> HIDE DEF grown
  <2>6. grown.canonical[grown.first] = nodeChain[grown.first]
    BY <2>4, Zenon
  <2>7. KeptOn(grown, nodeChain, nodeHeight, tallest)
    BY <2>3, <2>4, <2>5, <2>6, Zenon DEF KeptOn
  <2>8. Kept(grown)
    BY <2>1, <2>7, Zenon DEF nodeVars
  <2>9. Kept(CurrentSegment(grown))
    BY <2>4, <2>8, SnapshotIsKept, Zenon
  <2> QED BY <1>0, <2>1, <2>8, <2>9, Zenon
<1>6. CASE InitializeStartFail
  BY <1>0, <1>6, Zenon DEF InitializeStartFail, Stop, Running
<1>7. CASE TickTaskBlock
  <2>1. /\ TaskFinished("main", "done") /\ CanGrow(builder, Head(taskQueue).block)
        /\ \/ /\ builder' = Grown
              /\ recent' \in {recent, CurrentSegment(Grown)}
           \/ /\ SegmentIsDue(Grown) /\ CanTakeSegment(Grown, ChainSegmentSize)
              /\ builder' = AfterTake(Grown, ChainSegmentSize)
              /\ recent' = CurrentSegment(builder')
        /\ UNCHANGED <<nodeVars, legacy>>
    BY <1>7, BlockStep, Zenon
  <2>2. /\ Kept(Grown)
        /\ SegmentIsDue(Grown) => Kept(AfterTake(Grown, ChainSegmentSize))
    BY <2>1, GrownIsKept, Zenon DEF nodeVars
  <2>3. Kept(builder')
    BY <2>1, <2>2, Zenon
  <2>4. IsBuilder(Grown) /\ IsLinked(Grown)
    BY <2>1, GrownFacts, Zenon
  <2>5. IsBuilder(builder') /\ IsLinked(builder')
    BY <2>1, <2>4, DueSegmentIsTaken, TakeSplitsChain, Zenon
  <2>6. Kept(CurrentSegment(builder'))
    BY <2>3, <2>5, SnapshotIsKept, Zenon
  <2>7. recent' # Null => Kept(recent')
    BY <1>0, <2>1, <2>6, Zenon
  <2> QED BY <1>0, <2>1, <2>3, <2>7, Zenon
<1>8. CASE TickTaskBlockFail
  BY <1>0, <1>8, Zenon DEF TickTaskBlockFail, Stop, Running, etcdVars
<1>9. CASE TickRecoverDone
  <2> DEFINE cut == Shrink(builder, candidate)
  <2>1. /\ mode = "recover" /\ IsBuilder(builder) /\ NodeAgrees(candidate)
        /\ builder' = cut /\ recent' = CurrentSegment(cut)
        /\ IsBuilder(cut) /\ IsLinked(cut) /\ cut.first = builder.first
        /\ LastBlock(cut) = candidate
        /\ \A n \in cut.first .. cut.last : cut.canonical[n] = builder.canonical[n]
        /\ UNCHANGED <<nodeVars, objectVars>>
    BY <1>9, RecoverStep, Zenon
  <2> HIDE DEF cut
  <2>2. SeenOn(LastBlock(cut), nodeChain, nodeHeight, tallest)
    BY <2>1, OnNodeIsSeen, Zenon DEF NodeAgrees, NodeHas, IndInv, KeptOK
  <2>3. cut.canonical[cut.first] = builder.canonical[builder.first]
    BY <2>1, ChainFields
  <2>4. KeptOn(builder, nodeChain, nodeHeight, tallest)
    BY <2>1, Zenon DEF KeptOK, Running
  <2>5. KeptOn(cut, nodeChain, nodeHeight, tallest)
    BY <2>1, <2>2, <2>3, <2>4, Zenon DEF KeptOn
  <2>6. Kept(cut)
    BY <2>1, <2>5, Zenon DEF nodeVars
  <2>7. Kept(CurrentSegment(cut))
    BY <2>1, <2>6, SnapshotIsKept, Zenon
  <2> QED BY <1>0, <2>1, <2>6, <2>7, Zenon DEF objectVars
<1> QED BY <1>3, <1>4, <1>5, <1>6, <1>7, <1>8, <1>9, StepKinds, Zenon

\* The initial chain is linked, and a legacy deployment has ingested it.
LEMMA KeptInit ==
    ASSUME Init
    PROVE  KeptOK
<1>1. /\ nodeChain = InitialChain /\ nodeHeight = InitialHeight /\ tallest = InitialHeight
      /\ ~Running /\ taskQueue = << >> /\ recent = Null /\ legacy \in {Null, LegacySegment}
  BY Zenon DEF Init, NodeInit, Running
<1>2. InitialHeight \in Nat /\ MaxReorgDepth \in Nat
  BY NodeAssumption, Zenon
<1>3. NodeLinked
  BY <1>1, <1>2, NodeAssumption DEF NodeLinked
<1>4. NodeOK
  BY InitIsOK, Zenon DEF IndInv
<1>5. SeenOn(nodeChain[nodeHeight], nodeChain, nodeHeight, tallest)
  <2>1. nodeHeight \in 0 .. nodeHeight
    BY <1>1, <1>2
  <2> QED BY <1>3, <1>4, <2>1, OnNodeIsSeen, Zenon
<1>6. KeptOn(LegacySegment, nodeChain, nodeHeight, tallest)
  BY <1>1, <1>2, <1>5 DEF KeptOn, LegacySegment, LastBlock, SettledUnder
<1> QED BY <1>1, <1>3, <1>6 DEF KeptOK

\* While reorganizations are shallower than the upload offset, and the chain
\* starts at genesis or at a block no reorganization reaches, the first block
\* of the builder stays on the node's chain.
THEOREM CommonBlock == ShallowReorgs /\ Spec => []CommonBlockIsKept
<1> SUFFICES ASSUME ShallowReorgs
             PROVE  Spec => []CommonBlockIsKept
  BY Zenon
<1>1. Init => KeptOK
  BY KeptInit, Zenon
<1>2. IndInv /\ KeptOK /\ [Next]_vars => KeptOK'
  BY KeptStep, Zenon
<1>3. IndInv /\ KeptOK => CommonBlockIsKept
  <2> SUFFICES ASSUME IndInv, KeptOK, Running
               PROVE  NodeAgrees(builder.canonical[builder.first])
    BY Zenon DEF CommonBlockIsKept
  <2>1. IsBuilder(builder) /\ KeptOn(builder, nodeChain, nodeHeight, tallest)
    BY Zenon DEF IndInv, ServiceOK, KeptOK
  <2>2. builder.first \in Nat /\ Number[builder.canonical[builder.first]] = builder.first
    BY <2>1, ChainFields
  <2> QED BY <2>1, <2>2 DEF NodeAgrees, NodeHas, KeptOn, IndInv, NodeOK
<1> QED BY <1>1, <1>2, <1>3, Inductive, PTL DEF Spec

\* A kept first block ends the walk of tick_recover.
LEMMA CommonMeansNoFailure ==
    ASSUME IndInv /\ CommonBlockIsKept
    PROVE  ~TickRecoverFail
<1> SUFFICES ASSUME TickRecoverFail
             PROVE  FALSE
  BY Zenon
<1>1. /\ mode = "recover" /\ ~NodeAgrees(candidate) /\ Number[candidate] <= builder.first
  BY Zenon DEF TickRecoverFail
<1>2. /\ IsBuilder(builder) /\ CanShrink(builder, candidate) /\ candidate \in Block
      /\ NodeAgrees(builder.canonical[builder.first])
  BY <1>1, Zenon DEF IndInv, ServiceOK, Running, CommonBlockIsKept
<1>3. Number[candidate] = builder.first
  BY <1>1, <1>2, ChainFields, BlockAssumption DEF CanShrink
<1> QED BY <1>1, <1>2, <1>3, Zenon DEF CanShrink

\* In such a deployment tick_recover never walks out of the recent segment:
\* the error it returns there is never taken.
THEOREM RecoveryNeverFails == ShallowReorgs /\ Spec => [][~TickRecoverFail]_vars
<1> SUFFICES ASSUME ShallowReorgs
             PROVE  Spec => [][~TickRecoverFail]_vars
  BY Zenon
<1>1. IndInv /\ CommonBlockIsKept => ~TickRecoverFail
  BY CommonMeansNoFailure, Zenon
<1>2. Spec => []CommonBlockIsKept
  BY CommonBlock, Zenon
<1> QED BY <1>1, <1>2, Inductive, PTL DEF Spec

-----------------------------------------------------------------------------
(* A service that keeps running                                            *)

\* The finalized block the service knows is one the node has reported.
FinalizedIsReported == mode # "down" => finalized <= nodeFinalized

\* A node that never takes a finalized block back gives no reason to fail.
LEMMA FinalizedStep ==
    ASSUME IndInv /\ FinalizedIsReported /\ [Next]_vars
    PROVE  FinalizedIsReported'
<1>0. nodeFinalized \in Nat /\ finalized \in Nat
  BY Zenon DEF IndInv, NodeOK, TypeOK, ServiceTypeOK
<1>1. CASE NodeStep
  <2>1. mode' = mode /\ finalized' = finalized
    BY <1>1, Zenon DEF NodeStep
  <2>2. nodeFinalized' \in Nat /\ nodeFinalized <= nodeFinalized'
    BY <1>0, <1>1 DEF NodeStep, NodeGrow, NodeRevert, NodeFinalize, IndInv, NodeOK
  <2> QED BY <1>0, <2>1, <2>2 DEF FinalizedIsReported
<1>2. CASE InitializeChain \/ TickRefreshFinalized
  <2>1. PICK f \in FinalizedReplies : finalized' = f
    BY <1>2, Zenon DEF InitializeChain, TickRefreshFinalized
  <2>2. f <= nodeFinalized
    BY <1>0, <2>1 DEF FinalizedReplies
  <2>3. nodeFinalized' = nodeFinalized
    BY <1>2, Zenon DEF InitializeChain, TickRefreshFinalized, nodeVars
  <2> QED BY <2>1, <2>2, <2>3, Zenon DEF FinalizedIsReported
<1>3. CASE /\ finalized' = finalized /\ nodeFinalized' = nodeFinalized
           /\ mode' # "down" => mode # "down"
  BY <1>3, Zenon DEF FinalizedIsReported
<1>4. CASE mode' = "down"
  BY <1>4, Zenon DEF FinalizedIsReported
<1>5. CASE InitializeResume \/ InitializeRecover \/ InitializeStart
  BY <1>3, <1>5, Zenon DEF InitializeResume, InitializeRecover, InitializeStart, nodeVars
<1>6. CASE InitializeStartFail \/ TickRefreshFinalizedFail \/ TickTaskBlockFail
           \/ TickRecoverFail \/ Crash
  BY <1>4, <1>6, Zenon DEF InitializeStartFail, TickRefreshFinalizedFail, TickTaskBlockFail,
                    TickRecoverFail, Crash, Stop
<1>7. CASE TickHeadInterval \/ TickNewHead
  BY <1>3, <1>7, Zenon
     DEF TickHeadInterval, TickNewHead, TickRefreshHead, EnterRecover, nodeVars
<1>8. CASE TickNewHeadsReconnect \/ TickRefreshPending \/ TickTaskReorg \/ TickTaskPendingNone
           \/ TickTaskPending \/ TickRecoverStep \/ TickRecoverDone \/ TickTaskBlock
  BY <1>3, <1>8, Zenon DEF TickNewHeadsReconnect, TickRefreshPending, TickTaskReorg,
        TickTaskPendingNone, TickTaskPending, TickRecoverStep, TickRecoverDone, TickTaskBlock,
        TaskFinished, EnterRecover, IngestFrom, nodeVars
<1>9. CASE TaskStep \/ UNCHANGED vars
  BY <1>3, <1>9, Zenon DEF TaskStep, RunMainTask, RunPendingTask, vars, serviceVars, nodeVars
<1> QED BY <1>1, <1>2, <1>5, <1>6, <1>7, <1>8, <1>9, Zenon DEF Next, ServiceStep

\* Nothing in the code stops a service that is not made to fail, asks a node
\* whose finalized block does not go back, and is reorganized shallowly.
Undisturbed == ShallowReorgs /\ Failures = FALSE /\ LaggingFinalized = FALSE

\* In such a deployment the service, once it has published, never stops.
THEOREM ServiceKeepsRunning == Undisturbed /\ Spec => []KeepsRunning
<1> SUFFICES ASSUME Undisturbed
             PROVE  Spec => []KeepsRunning
  BY Zenon
<1>1. Init => KeepsRunning /\ FinalizedIsReported
  BY Zenon DEF Init, KeepsRunning, FinalizedIsReported
<1>2. IndInv /\ FinalizedIsReported /\ [Next]_vars => FinalizedIsReported'
  BY FinalizedStep, Zenon
<1>3. ASSUME IndInv, IndInv', FinalizedIsReported, KeepsRunning, CommonBlockIsKept, [Next]_vars
      PROVE  KeepsRunning'
  <2>1. ~TickRefreshFinalizedFail
    <3> SUFFICES ASSUME TickRefreshFinalizedFail
                 PROVE  FALSE
      BY Zenon
    <3>1. mode = "ingest" /\ nodeFinalized < finalized
      BY Zenon DEF TickRefreshFinalizedFail, FinalizedReplies, Undisturbed
    <3>2. finalized <= nodeFinalized /\ nodeFinalized \in Nat /\ finalized \in Nat
      BY <1>3, <3>1, Zenon DEF FinalizedIsReported, IndInv, NodeOK, TypeOK, ServiceTypeOK
    <3> QED BY <3>1, <3>2
  <2>2. ~TickRecoverFail
    BY <1>3, CommonMeansNoFailure, Zenon
  <2>3. ~Crash /\ ~TickTaskBlockFail
    BY Zenon DEF Undisturbed, Crash, TickTaskBlockFail
  <2>4. CASE InitializeStartFail
    BY <2>4, Zenon DEF InitializeStartFail, KeepsRunning
  <2>5. CASE InitializeResume \/ InitializeRecover \/ InitializeStart \/ TickRecoverDone
    BY <2>5, Zenon DEF InitializeResume, InitializeRecover, InitializeStart, TickRecoverDone,
                IngestFrom, KeepsRunning, Running
  <2>6. CASE TickTaskBlock
    BY <2>6, Zenon DEF TickTaskBlock, TaskFinished, KeepsRunning, Running
  <2>7. CASE SilentStep
    <3>1. recent' = recent
      BY <2>7, SilentStepIsSilent, Zenon
    <3>2. CASE recent = Null
      BY <3>1, <3>2, Zenon DEF KeepsRunning
    <3>3. CASE recent # Null
      <4>1. Running
        BY <1>3, <3>3, Zenon DEF KeepsRunning
      <4>2. Running'
        BY <2>1, <2>2, <2>3, <2>7, <4>1, Zenon
        DEF SilentStep, QuietStep, NodeStep, TaskStep, RunMainTask, RunPendingTask,
            TickHeadInterval, TickNewHead, TickRefreshHead, EnterRecover,
            TickNewHeadsReconnect, TickRefreshPending, TickTaskReorg, TickRecoverStep,
            TickTaskPending, TickTaskPendingNone, TickRefreshFinalized, InitializeChain,
            TaskFinished, vars, Running
      <4> QED BY <4>2, Zenon DEF KeepsRunning
    <3> QED BY <3>2, <3>3, Zenon
  <2> QED BY <1>3, <2>3, <2>4, <2>5, <2>6, <2>7, StepKinds, Zenon
<1>4. Spec => []CommonBlockIsKept
  BY CommonBlock, Zenon DEF Undisturbed
<1> QED BY <1>1, <1>2, <1>3, <1>4, Inductive, PTL DEF Spec

=============================================================================

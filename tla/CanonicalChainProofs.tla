----------------------- MODULE CanonicalChainProofs -----------------------
(***************************************************************************)
(* What the builder's operations preserve: each keeps a well-formed,       *)
(* parent-linked chain well-formed and linked, and moves its ends as       *)
(* chain.rs says.  Then where a reader looks for a block, and that it      *)
(* finds a complete linked chain there after every kind of publication     *)
(* (chain_view/full.rs).                                                   *)
(***************************************************************************)
EXTENDS FullCanonicalChain, TLAPS

-----------------------------------------------------------------------------
(* The builder and the segments                                            *)

\* A builder or a segment is never the Empty builder or a missing segment.
LEMMA ChainsAreNotNull ==
    /\ \A b : IsBuilder(b) => b # Null
    /\ \A s : IsSegment(s) => s # Null
BY NullAssumption, Zenon DEF IsBuilder, IsSegment

\* What IsBuilder and IsSegment say of the common fields.
LEMMA ChainFields ==
    ASSUME NEW c, IsBuilder(c) \/ IsSegment(c)
    PROVE  /\ c.first \in Nat /\ c.last \in Nat /\ c.first <= c.last
           /\ c.canonical \in [c.first .. c.last -> Block]
           /\ \A n \in c.first .. c.last : Number[c.canonical[n]] = n
           /\ \A n \in c.first .. c.last : c.canonical[n] \in Block
           /\ LastBlock(c) \in Block /\ Number[LastBlock(c)] = c.last
           /\ c.previous \in SegmentInfo \cup {Null}
           /\ c.reorgs \in ReorgMap
<1>1. /\ c.first \in Nat /\ c.last \in Nat
      /\ c.previous \in SegmentInfo \cup {Null} /\ c.reorgs \in ReorgMap
  BY Zenon DEF IsBuilder, IsSegment, Builder, Segment
<1>2. IsChain(c)
  BY Zenon DEF IsBuilder, IsSegment
<1> QED BY <1>1, <1>2 DEF IsChain, LastBlock

\* A function from a range of numbers to blocks of those numbers is a Vec<Hash>.
LEMMA CanonicalIntro ==
    ASSUME NEW S, NEW f \in [S -> Block], \A n \in S : Number[f[n]] = n
    PROVE  f \in Canonical
<1>1. S \subseteq {Number[b] : b \in Block}
  <2> SUFFICES ASSUME NEW n \in S PROVE \E b \in Block : n = Number[b]
    BY Zenon
  <2> QED BY Zenon
<1> QED BY <1>1, Zenon DEF Canonical

\* A function from blocks to blocks is a reorg map.
LEMMA ReorgMapIntro ==
    ASSUME NEW S \in SUBSET Block, NEW f \in [S -> Block]
    PROVE  f \in ReorgMap
BY Zenon DEF ReorgMap

\* A reorg map is a function from blocks to blocks.
LEMMA ReorgMapElim ==
    ASSUME NEW f \in ReorgMap
    PROVE  f \in [DOMAIN f -> Block] /\ DOMAIN f \subseteq Block
BY Zenon DEF ReorgMap

\* Every restriction of a reorg map the builder uses is a reorg map.
LEMMA RestrictedReorgMap ==
    ASSUME NEW f \in ReorgMap, NEW S \in SUBSET (DOMAIN f)
    PROVE  Restrict(f, S) \in ReorgMap
<1>1. Restrict(f, S) \in [S -> Block] /\ S \in SUBSET Block
  BY ReorgMapElim, Zenon DEF Restrict
<1> QED BY <1>1, ReorgMapIntro, Zenon

\* The maps current_segment, take_segment and shrink build are reorg maps.
LEMMA ReorgMaps ==
    /\ NoReorgs \in ReorgMap
    /\ \A f \in ReorgMap : \A numbers : ReorgsIn(f, numbers) \in ReorgMap
    /\ \A f \in ReorgMap : \A n : ReorgsAbove(f, n) \in ReorgMap
<1>1. NoReorgs \in [{} -> Block] /\ {} \in SUBSET Block
  BY Zenon DEF NoReorgs
<1>2. NoReorgs \in ReorgMap
  BY <1>1, ReorgMapIntro, Zenon
<1>3. \A f \in ReorgMap : \A numbers : ReorgsIn(f, numbers) \in ReorgMap
  BY RestrictedReorgMap, Zenon DEF ReorgsIn
<1>4. \A f \in ReorgMap : \A n : ReorgsAbove(f, n) \in ReorgMap
  BY RestrictedReorgMap, Zenon DEF ReorgsAbove
<1> QED BY <1>2, <1>3, <1>4, Zenon

\* The empty builder grows to the chain of one block.
LEMMA GrowEmpty ==
    ASSUME NEW block \in Block
    PROVE  LET g == Grow(Null, block) IN
           /\ IsBuilder(g) /\ IsLinked(g)
           /\ g.first = Number[block] /\ g.last = Number[block]
           /\ g.canonical = [n \in {Number[block]} |-> block]
           /\ LastBlock(g) = block
<1> DEFINE g == Grow(Null, block)
           n == Number[block]
<1>1. n \in Nat
  BY BlockAssumption, Zenon
<1>2. g = [previous |-> Null, first |-> n, last |-> n,
           canonical |-> [m \in {n} |-> block], reorgs |-> NoReorgs]
  BY Zenon DEF Grow
<1> HIDE DEF g, n
<1>3. g.canonical \in [{n} -> Block] /\ g.canonical[n] = block /\ n .. n = {n}
  BY <1>1, <1>2
<1>4. g.canonical \in Canonical
  BY <1>3, CanonicalIntro, Zenon DEF n
<1>5. g \in Builder
  BY <1>1, <1>2, <1>4, ReorgMaps, Zenon DEF Builder
<1>6. IsChain(g)
  BY <1>1, <1>2, <1>3 DEF IsChain, n
<1>7. IsLinked(g)
  BY <1>1, <1>2 DEF IsLinked
<1> QED BY <1>2, <1>3, <1>5, <1>6, <1>7 DEF g, n, IsBuilder, LastBlock

\* can_grow lets only a child of the last block through, so growing keeps
\* the chain linked and leaves every block below in place.
LEMMA GrowKeepsChain ==
    ASSUME NEW b, NEW block \in Block, IsBuilder(b), IsLinked(b), CanGrow(b, block)
    PROVE  LET g == Grow(b, block) IN
           /\ IsBuilder(g) /\ IsLinked(g)
           /\ g.first = b.first
           /\ g.last = b.last + 1
           /\ LastBlock(g) = block
           /\ \A n \in b.first .. b.last : g.canonical[n] = b.canonical[n]
<1> DEFINE g == Grow(b, block)
<1>1. /\ b.first \in Nat /\ b.last \in Nat /\ b.first <= b.last
      /\ b.canonical \in [b.first .. b.last -> Block]
      /\ \A n \in b.first .. b.last : Number[b.canonical[n]] = n
      /\ b.previous \in SegmentInfo \cup {Null} /\ b.reorgs \in ReorgMap
      /\ LastBlock(b) \in Block
  BY ChainFields, Zenon
<1>2. LastBlock(b) # ZeroHash /\ b # Null
  BY <1>1, BlockAssumption, ChainsAreNotNull, Zenon
<1>3. Number[block] = b.last + 1 /\ Parent[block] = b.canonical[b.last]
  BY <1>2, Zenon DEF CanGrow, LastBlock
<1>4. g = [previous |-> b.previous, first |-> b.first, last |-> b.last + 1,
           canonical |-> [n \in b.first .. b.last + 1 |->
                            IF n = b.last + 1 THEN block ELSE b.canonical[n]],
           reorgs |-> b.reorgs]
  BY <1>2, <1>3, Zenon DEF Grow
<1> HIDE DEF g
<1>5. g.canonical \in [b.first .. b.last + 1 -> Block]
  BY <1>1, <1>4
<1>6. \A n \in b.first .. b.last : g.canonical[n] = b.canonical[n]
  BY <1>1, <1>4
<1>7. g.canonical[b.last + 1] = block
  BY <1>1, <1>4
<1>8. \A n \in b.first .. b.last + 1 : Number[g.canonical[n]] = n
  BY <1>1, <1>3, <1>6, <1>7
<1>9. g.canonical \in Canonical
  BY <1>5, <1>8, CanonicalIntro, Zenon
<1>10. g \in Builder
  BY <1>1, <1>4, <1>9 DEF Builder
<1>11. IsChain(g)
  <2>1. g.first = b.first /\ g.last = b.last + 1 /\ b.first <= b.last + 1
    BY <1>1, <1>4
  <2> QED BY <2>1, <1>5, <1>8, Zenon DEF IsChain
<1>12. IsLinked(g)
  <2> SUFFICES ASSUME NEW n \in b.first + 1 .. b.last + 1
               PROVE  Parent[g.canonical[n]] = g.canonical[n - 1]
    BY <1>4, Zenon DEF IsLinked
  <2>1. CASE n = b.last + 1
    <3>1. n - 1 = b.last /\ b.last \in b.first .. b.last
      BY <2>1, <1>1
    <3> QED BY <1>3, <1>6, <1>7, <2>1, <3>1, Zenon
  <2>2. CASE n # b.last + 1
    <3>1. n \in b.first + 1 .. b.last /\ n \in b.first .. b.last /\ n - 1 \in b.first .. b.last
      BY <2>2, <1>1
    <3>2. Parent[b.canonical[n]] = b.canonical[n - 1]
      BY <3>1, Zenon DEF IsLinked
    <3> QED BY <1>6, <3>1, <3>2, Zenon
  <2> QED BY <2>1, <2>2, Zenon
<1> QED
  BY <1>4, <1>6, <1>7, <1>10, <1>11, <1>12 DEF g, LastBlock, IsBuilder

\* A part first..last of the numbers of a linked chain is a linked chain.
LEMMA PartOfChain ==
    ASSUME NEW b, IsBuilder(b), IsLinked(b),
           NEW first \in b.first .. b.last, NEW last \in first .. b.last,
           NEW c, c.first = first, c.last = last,
           c.canonical = Restrict(b.canonical, first .. last)
    PROVE  /\ IsChain(c) /\ IsLinked(c) /\ c.canonical \in Canonical
           /\ first \in Nat /\ last \in Nat
           /\ \A n \in first .. last : c.canonical[n] = b.canonical[n]
<1>1. /\ b.first \in Nat /\ b.last \in Nat
      /\ b.canonical \in [b.first .. b.last -> Block]
      /\ \A n \in b.first .. b.last : Number[b.canonical[n]] = n
  BY ChainFields, Zenon
<1>2. first .. last \subseteq b.first .. b.last /\ first \in Nat /\ last \in Nat /\ first <= last
  BY <1>1
<1>3. c.canonical = [n \in first .. last |-> b.canonical[n]]
  BY Zenon DEF Restrict
<1>4. c.canonical \in [first .. last -> Block]
  BY <1>1, <1>2, <1>3, Zenon
<1>5. \A n \in first .. last : c.canonical[n] = b.canonical[n]
  BY <1>3, Zenon
<1>6. \A n \in first .. last : Number[c.canonical[n]] = n
  BY <1>1, <1>2, <1>5, Zenon
<1>7. IsChain(c)
  BY <1>2, <1>4, <1>6, Zenon DEF IsChain
<1>8. IsLinked(c)
  <2> SUFFICES ASSUME NEW n \in first + 1 .. last
               PROVE  Parent[c.canonical[n]] = c.canonical[n - 1]
    BY Zenon DEF IsLinked
  <2>1. n \in first .. last /\ n - 1 \in first .. last /\ n \in b.first + 1 .. b.last
    BY <1>1, <1>2
  <2> QED BY <2>1, <1>5, Zenon DEF IsLinked
<1>9. c.canonical \in Canonical
  BY <1>4, <1>6, CanonicalIntro, Zenon
<1> QED BY <1>2, <1>5, <1>7, <1>8, <1>9, Zenon

\* shrink keeps the blocks up to the new head and nothing above it.
LEMMA ShrinkKeepsChain ==
    ASSUME NEW b, NEW newHead \in Block, IsBuilder(b), IsLinked(b), CanShrink(b, newHead)
    PROVE  LET s == Shrink(b, newHead) IN
           /\ IsBuilder(s) /\ IsLinked(s)
           /\ s.first = b.first
           /\ s.last = Number[newHead]
           /\ LastBlock(s) = newHead
           /\ \A n \in s.first .. s.last : s.canonical[n] = b.canonical[n]
<1> DEFINE s == Shrink(b, newHead)
           removed == Removed(b, newHead)
<1>1. /\ b.first \in Nat /\ b.last \in Nat /\ b.first <= b.last
      /\ b.canonical \in [b.first .. b.last -> Block]
      /\ b.previous \in SegmentInfo \cup {Null} /\ b.reorgs \in ReorgMap
  BY ChainFields, Zenon
<1>2. Number[newHead] \in b.first .. b.last /\ b.canonical[Number[newHead]] = newHead
  BY Zenon DEF CanShrink
<1>3. s = [previous |-> b.previous, first |-> b.first, last |-> Number[newHead],
           canonical |-> Restrict(b.canonical, b.first .. Number[newHead]),
           reorgs |-> RecordReorgs(b.reorgs, removed, newHead)]
  BY Zenon DEF Shrink
<1>4. removed \subseteq Block
  BY <1>1, <1>2 DEF Removed
<1> HIDE DEF s, removed
<1>5. s.reorgs \in [DOMAIN b.reorgs \cup removed -> Block] /\ DOMAIN b.reorgs \subseteq Block
  BY <1>1, <1>3, <1>4, ReorgMapElim, Zenon DEF RecordReorgs
<1>6. s.reorgs \in ReorgMap
  BY <1>4, <1>5, ReorgMapIntro, Zenon
<1>7. b.first \in b.first .. b.last /\ Number[newHead] \in b.first .. b.last
  BY <1>1, <1>2
<1>8. /\ IsChain(s) /\ IsLinked(s) /\ s.canonical \in Canonical /\ s.last \in Nat
      /\ \A n \in b.first .. Number[newHead] : s.canonical[n] = b.canonical[n]
  BY <1>3, <1>7, PartOfChain
<1>9. s \in Builder
  BY <1>1, <1>3, <1>6, <1>8, Zenon DEF Builder
<1>10. LastBlock(s) = newHead
  BY <1>1, <1>2, <1>3, <1>8 DEF LastBlock
<1> QED BY <1>3, <1>8, <1>9, <1>10 DEF s, IsBuilder

\* take_segment splits the chain: a segment of the given size, and a chain
\* that goes on from its last block.
LEMMA TakeSplitsChain ==
    ASSUME NEW b, NEW size \in Nat \ {0}, IsBuilder(b), IsLinked(b), CanTakeSegment(b, size)
    PROVE  LET t == TakenSegment(b, size)
               a == AfterTake(b, size)
           IN  /\ IsSegment(t) /\ IsLinked(t) /\ IsBuilder(a) /\ IsLinked(a)
               /\ t.first = b.first /\ t.last = b.first + size - 1
               /\ a.first = b.first + size /\ a.last = b.last
               /\ \A n \in t.first .. t.last : t.canonical[n] = b.canonical[n]
               /\ \A n \in a.first .. a.last : a.canonical[n] = b.canonical[n]
               /\ LastBlock(a) = LastBlock(b)
<1> DEFINE t == TakenSegment(b, size)
           a == AfterTake(b, size)
           mid == b.first + size
<1>1. /\ b.first \in Nat /\ b.last \in Nat /\ b.first <= b.last
      /\ b.canonical \in [b.first .. b.last -> Block]
      /\ b.previous \in SegmentInfo \cup {Null} /\ b.reorgs \in ReorgMap
  BY ChainFields, Zenon
<1>2. b.last - b.first >= size
  BY Zenon DEF CanTakeSegment
<1>3. /\ mid \in b.first .. b.last /\ b.last \in mid .. b.last
      /\ b.first \in b.first .. b.last /\ mid - 1 \in b.first .. b.last
  BY <1>1, <1>2
<1>4. t = [previous |-> b.previous, first |-> b.first, last |-> mid - 1,
           canonical |-> Restrict(b.canonical, b.first .. (mid - 1)),
           reorgs |-> ReorgsIn(b.reorgs, b.first .. (mid - 1)), extraReorgs |-> NoReorgs]
  BY <1>1 DEF TakenSegment
<1>5. a = [previous |-> [first |-> b.canonical[b.first], last |-> b.canonical[mid - 1]],
           first |-> mid, last |-> b.last,
           canonical |-> Restrict(b.canonical, mid .. b.last),
           reorgs |-> ReorgsAbove(b.reorgs, mid - 1)]
  BY Zenon DEF AfterTake
<1>6. a.previous \in SegmentInfo
  BY <1>1, <1>3, <1>5 DEF SegmentInfo
<1> HIDE DEF t, a, mid
<1>7. t.first = b.first /\ t.last = mid - 1 /\ t.canonical = Restrict(b.canonical, b.first .. (mid - 1))
  BY <1>4, Zenon
<1>8. a.first = mid /\ a.last = b.last /\ a.canonical = Restrict(b.canonical, mid .. b.last)
  BY <1>5, Zenon
<1>9. /\ IsChain(t) /\ IsLinked(t) /\ t.canonical \in Canonical /\ t.last \in Nat
      /\ \A n \in b.first .. mid - 1 : t.canonical[n] = b.canonical[n]
  BY <1>3, <1>7, PartOfChain
<1>10. /\ IsChain(a) /\ IsLinked(a) /\ a.canonical \in Canonical /\ a.first \in Nat
       /\ \A n \in mid .. b.last : a.canonical[n] = b.canonical[n]
  BY <1>3, <1>8, PartOfChain
<1>11. t \in Segment
  BY <1>1, <1>4, <1>7, <1>9, ReorgMaps, Zenon DEF Segment
<1>12. a \in Builder
  BY <1>1, <1>5, <1>6, <1>8, <1>10, ReorgMaps, Zenon DEF Builder
<1>13. LastBlock(a) = LastBlock(b)
  BY <1>3, <1>8, <1>10 DEF LastBlock
<1>14. IsSegment(t) /\ IsBuilder(a)
  BY <1>9, <1>10, <1>11, <1>12, Zenon DEF IsSegment, IsBuilder
<1>15. t.last = b.first + size - 1 /\ a.first = b.first + size
  BY <1>1, <1>7, <1>8 DEF mid
<1>16. \A n \in t.first .. t.last : t.canonical[n] = b.canonical[n]
  BY <1>7, <1>9, Zenon
<1>17. \A n \in a.first .. a.last : a.canonical[n] = b.canonical[n]
  BY <1>8, <1>10, Zenon
<1> QED
  BY <1>7, <1>8, <1>9, <1>10, <1>13, <1>14, <1>15, <1>16, <1>17, Zenon DEF t, a

\* current_segment is the builder's chain.
LEMMA CurrentSegmentKeepsChain ==
    ASSUME NEW b, IsBuilder(b), IsLinked(b)
    PROVE  LET s == CurrentSegment(b) IN
           /\ IsSegment(s) /\ IsLinked(s)
           /\ s.first = b.first /\ s.last = b.last /\ s.canonical = b.canonical
<1> DEFINE s == CurrentSegment(b)
<1>1. s = [previous |-> b.previous, first |-> b.first, last |-> b.last,
           canonical |-> b.canonical, reorgs |-> ReorgsIn(b.reorgs, b.first .. b.last),
           extraReorgs |-> ReorgsAbove(b.reorgs, b.last)]
  BY Zenon DEF CurrentSegment
<1> HIDE DEF s
<1>2. s.first = b.first /\ s.last = b.last /\ s.canonical = b.canonical
  BY <1>1, Zenon
<1>3. b \in Builder /\ IsChain(b)
  BY Zenon DEF IsBuilder
<1>4. s \in Segment
  BY <1>1, <1>3, ReorgMaps, Zenon DEF Builder, Segment
<1>5. IsChain(s) /\ IsLinked(s)
  BY <1>2, <1>3 DEF IsChain, IsLinked
<1> QED BY <1>2, <1>4, <1>5, Zenon DEF s, IsSegment

\* restore_from_segment gives the segment's chain back.
LEMMA RestoreKeepsChain ==
    ASSUME NEW s, IsSegment(s), IsLinked(s)
    PROVE  LET b == RestoreFromSegment(s) IN
           /\ IsBuilder(b) /\ IsLinked(b)
           /\ b.first = s.first /\ b.last = s.last /\ b.canonical = s.canonical
<1> DEFINE b == RestoreFromSegment(s)
<1>1. b = [previous |-> s.previous, first |-> s.first, last |-> s.last,
           canonical |-> s.canonical, reorgs |-> s.reorgs]
  BY Zenon DEF RestoreFromSegment
<1> HIDE DEF b
<1>2. b.first = s.first /\ b.last = s.last /\ b.canonical = s.canonical
  BY <1>1, Zenon
<1>3. s \in Segment /\ IsChain(s)
  BY Zenon DEF IsSegment
<1>4. b \in Builder
  BY <1>1, <1>3, Zenon DEF Builder, Segment
<1>5. IsChain(b) /\ IsLinked(b)
  BY <1>2, <1>3 DEF IsChain, IsLinked
<1> QED BY <1>2, <1>4, <1>5, Zenon DEF b, IsBuilder

-----------------------------------------------------------------------------
(* Arithmetic on segment sizes                                             *)

\* Division by the segment size, by its characterisation.
LEMMA DivisionFacts ==
    ASSUME NEW n \in Nat, NEW size \in Nat \ {0}
    PROVE  /\ n \div size \in Nat
           /\ (n \div size) * size <= n
           /\ n < (n \div size) * size + size
OBVIOUS

\* Different multiples of the segment size differ by at least its size.
LEMMA MultiplesAreApart ==
    ASSUME NEW p \in Nat, NEW q \in Nat, NEW size \in Nat \ {0}, p < q
    PROVE  p * size + size <= q * size
OBVIOUS

\* The numbers of one segment all have the same segment start.
LEMMA DivisionIsUnique ==
    ASSUME NEW n \in Nat, NEW q \in Nat, NEW size \in Nat \ {0},
           q * size <= n, n < q * size + size
    PROVE  n \div size = q
<1>1. /\ n \div size \in Nat /\ (n \div size) * size <= n
      /\ n < (n \div size) * size + size
  BY DivisionFacts, Zenon
<1>2. CASE n \div size < q
  <2>1. (n \div size) * size + size <= q * size
    BY <1>1, <1>2, MultiplesAreApart, Zenon
  <2> QED BY <1>1, <2>1
<1>3. CASE q < n \div size
  <2>1. q * size + size <= (n \div size) * size
    BY <1>1, <1>3, MultiplesAreApart, Zenon
  <2> QED BY <1>1, <2>1
<1> QED BY <1>1, <1>2, <1>3

-----------------------------------------------------------------------------
(* chain_segment_start                                                     *)

\* A number lies in the segment that starts at its segment start.
LEMMA SegmentStartFacts ==
    ASSUME NEW starting \in Nat, NEW n \in Nat, starting <= n
    PROVE  LET s == ChainSegmentStart(n, starting) IN
           s \in Nat /\ starting <= s /\ s <= n /\ n < s + ChainSegmentSize
<1> DEFINE q == (n - starting) \div ChainSegmentSize
<1>1. n - starting \in Nat /\ ChainSegmentSize \in Nat \ {0}
  BY ChainSegmentSizeAssumption
<1>2. /\ q \in Nat /\ q * ChainSegmentSize <= n - starting
      /\ n - starting < q * ChainSegmentSize + ChainSegmentSize
  BY <1>1, DivisionFacts, Zenon
<1>3. q * ChainSegmentSize \in Nat
  BY <1>1, <1>2
<1>4. ChainSegmentStart(n, starting) = q * ChainSegmentSize + starting
  BY Zenon DEF ChainSegmentStart
<1> HIDE DEF q
<1> QED BY <1>1, <1>2, <1>3, <1>4

\* The starting block opens a segment; and if a segment starts at first, it
\* holds exactly ChainSegmentSize numbers and the next one starts after them.
LEMMA StartingIsAligned ==
    ASSUME NEW starting \in Nat
    PROVE  ChainSegmentStart(starting, starting) = starting
BY SegmentStartFacts

\* chain_segment_start sends every block of an aligned segment to its first block.
LEMMA AlignedSegment ==
    ASSUME NEW starting \in Nat, NEW first \in Nat, starting <= first,
           ChainSegmentStart(first, starting) = first
    PROVE  /\ \A n \in first .. first + ChainSegmentSize - 1 :
                    ChainSegmentStart(n, starting) = first
           /\ ChainSegmentStart(first + ChainSegmentSize, starting) = first + ChainSegmentSize
<1> DEFINE q == (first - starting) \div ChainSegmentSize
<1>1. first - starting \in Nat /\ ChainSegmentSize \in Nat \ {0}
  BY ChainSegmentSizeAssumption
<1>2. q \in Nat
  BY <1>1, DivisionFacts, Zenon
<1>3. q * ChainSegmentSize \in Nat /\ q * ChainSegmentSize = first - starting
  BY <1>1, <1>2 DEF ChainSegmentStart
<1> HIDE DEF q
<1>4. ASSUME NEW n \in first .. first + ChainSegmentSize - 1
      PROVE  ChainSegmentStart(n, starting) = first
  <2>1. /\ n - starting \in Nat /\ q * ChainSegmentSize <= n - starting
        /\ n - starting < q * ChainSegmentSize + ChainSegmentSize
    BY <1>1, <1>3
  <2>2. (n - starting) \div ChainSegmentSize = q
    BY <1>1, <1>2, <2>1, DivisionIsUnique, Zenon
  <2> QED BY <1>1, <1>3, <2>2 DEF ChainSegmentStart
<1>5. ChainSegmentStart(first + ChainSegmentSize, starting) = first + ChainSegmentSize
  <2> DEFINE m == (first + ChainSegmentSize) - starting
             r == q + 1
  <2>1. r \in Nat /\ r * ChainSegmentSize = q * ChainSegmentSize + ChainSegmentSize
    BY <1>1, <1>2
  <2>2. m \in Nat /\ m = q * ChainSegmentSize + ChainSegmentSize
    BY <1>1, <1>3
  <2> HIDE DEF m, r
  <2>3. r * ChainSegmentSize = m /\ r * ChainSegmentSize <= m
    BY <2>1, <2>2
  <2>4. m < r * ChainSegmentSize + ChainSegmentSize
    BY <1>1, <2>2, <2>3
  <2>5. m \div ChainSegmentSize = r
    BY <1>1, <2>1, <2>2, <2>3, <2>4, DivisionIsUnique, Zenon
  <2>6. ChainSegmentStart(first + ChainSegmentSize, starting)
            = (m \div ChainSegmentSize) * ChainSegmentSize + starting
    BY Zenon DEF ChainSegmentStart, m
  <2>7. m + starting = first + ChainSegmentSize
    BY <1>1 DEF m
  <2> QED BY <2>3, <2>5, <2>6, <2>7, Zenon
<1> QED BY <1>4, <1>5, Zenon

-----------------------------------------------------------------------------
(* Views                                                                   *)

\* The recent segment starts where a chain segment would, and every number
\* between the starting block and the recent segment is in a stored segment
\* of full size.
IsArchived(view) ==
    /\ view.starting \in Nat
    /\ IsSegment(view.recent)
    /\ IsLinked(view.recent)
    /\ view.starting <= view.recent.first
    /\ ChainSegmentStart(view.recent.first, view.starting) = view.recent.first
    /\ \A n \in view.starting .. view.recent.first - 1 :
        LET start == ChainSegmentStart(n, view.starting) IN
        /\ start \in DOMAIN view.store
        /\ IsSegment(view.store[start])
        /\ view.store[start].first = start
        /\ view.store[start].last = start + ChainSegmentSize - 1

\* The parent of every block of the view is the block below it.
IsJoined(view) ==
    \A n \in view.starting + 1 .. view.recent.last :
        Parent[CanonicalBlock(view, n)] = CanonicalBlock(view, n - 1)

IsView(view) == IsArchived(view) /\ IsJoined(view)

\* get_canonical finds the block in the recent segment or in a stored one.
LEMMA CanonicalBlockIs ==
    ASSUME NEW v, IsArchived(v), NEW n \in v.starting .. v.recent.last
    PROVE  /\ n >= v.recent.first => CanonicalBlock(v, n) = v.recent.canonical[n]
           /\ n < v.recent.first =>
                CanonicalBlock(v, n) = v.store[ChainSegmentStart(n, v.starting)].canonical[n]
           /\ CanonicalBlock(v, n) \in Block
<1> DEFINE start == ChainSegmentStart(n, v.starting)
<1>1. /\ v.starting \in Nat /\ IsSegment(v.recent) /\ v.recent.first \in Nat /\ v.recent.last \in Nat
      /\ \A m \in v.recent.first .. v.recent.last : v.recent.canonical[m] \in Block
      /\ v.starting <= v.recent.first
  BY ChainFields, Zenon DEF IsArchived
<1>2. n \in Nat /\ v.starting <= n
  BY <1>1
<1>3. start \in Nat /\ start <= n /\ n < start + ChainSegmentSize
  BY <1>1, <1>2, SegmentStartFacts, Zenon
<1>4. ChainSegmentSize \in Nat
  BY ChainSegmentSizeAssumption, Zenon
<1>5. CASE n >= v.recent.first
  <2>1. GetChainSegment(v, n) = v.recent
    BY <1>1, <1>2, <1>5 DEF GetChainSegment
  <2>2. CanonicalBlock(v, n) = v.recent.canonical[n]
    BY <1>1, <1>2, <1>5, <2>1, ChainsAreNotNull DEF CanonicalBlock
  <2> QED BY <1>1, <1>2, <1>5, <2>2
<1>6. CASE n < v.recent.first
  <2>1. /\ start \in DOMAIN v.store /\ IsSegment(v.store[start])
        /\ v.store[start].first = start /\ v.store[start].last = start + ChainSegmentSize - 1
    BY <1>1, <1>2, <1>6 DEF IsArchived
  <2> HIDE DEF start
  <2>2. GetChainSegment(v, n) = v.store[start]
    BY <1>1, <1>2, <1>6, <2>1 DEF GetChainSegment, start
  <2>3. n \in v.store[start].first .. v.store[start].last
    BY <1>2, <1>3, <1>4, <2>1
  <2>4. CanonicalBlock(v, n) = v.store[start].canonical[n]
    BY <2>1, <2>2, <2>3, ChainsAreNotNull, Zenon DEF CanonicalBlock
  <2>5. v.store[start].canonical[n] \in Block
    BY <2>1, <2>3, ChainFields, Zenon
  <2> QED BY <1>1, <1>2, <1>6, <2>4, <2>5 DEF start
<1> QED BY <1>1, <1>2, <1>5, <1>6

\* If a view keeps the blocks of another one below some number, and from that
\* number on holds a linked chain with the same block there, it is joined.
LEMMA JoinedWith ==
    ASSUME NEW v, IsView(v), NEW w, IsArchived(w), w.starting = v.starting,
           NEW c, IsBuilder(c), IsLinked(c),
           c.first = v.recent.first, w.recent.last <= c.last,
           c.canonical[c.first] = v.recent.canonical[c.first],
           \A n \in w.starting .. w.recent.last :
                /\ n < c.first  => CanonicalBlock(w, n) = CanonicalBlock(v, n)
                /\ n >= c.first => CanonicalBlock(w, n) = c.canonical[n]
    PROVE  IsView(w)
<1>1. /\ v.starting \in Nat /\ v.recent.first \in Nat /\ v.recent.last \in Nat
      /\ v.starting <= v.recent.first /\ v.recent.first <= v.recent.last
      /\ w.recent.last \in Nat /\ c.last \in Nat
  BY ChainFields, Zenon DEF IsView, IsArchived
<1> SUFFICES ASSUME NEW n \in w.starting + 1 .. w.recent.last
             PROVE  Parent[CanonicalBlock(w, n)] = CanonicalBlock(w, n - 1)
  BY Zenon DEF IsView, IsJoined
<1>2. /\ n \in w.starting .. w.recent.last /\ n - 1 \in w.starting .. w.recent.last
      /\ n \in Nat /\ n - 1 \in Nat
  BY <1>1
<1>3. CASE n < c.first
  <2>1. n \in v.starting + 1 .. v.recent.last /\ n - 1 < c.first
    BY <1>1, <1>2, <1>3
  <2> QED BY <1>2, <1>3, <2>1, Zenon DEF IsView, IsJoined
<1>4. CASE n = c.first
  <2>1. /\ n \in v.starting + 1 .. v.recent.last /\ n - 1 < c.first
        /\ n \in v.starting .. v.recent.last /\ n >= v.recent.first
    BY <1>1, <1>2, <1>4
  <2>2. CanonicalBlock(v, n) = v.recent.canonical[n]
    BY <2>1, CanonicalBlockIs, Zenon DEF IsView
  <2>3. CanonicalBlock(w, n) = c.canonical[n]
    BY <1>1, <1>2, <1>4
  <2>4. CanonicalBlock(w, n - 1) = CanonicalBlock(v, n - 1)
    BY <1>2, <2>1, Zenon
  <2>5. Parent[CanonicalBlock(v, n)] = CanonicalBlock(v, n - 1)
    BY <2>1, Zenon DEF IsView, IsJoined
  <2> QED BY <1>4, <2>2, <2>3, <2>4, <2>5, Zenon
<1>5. CASE n > c.first
  <2>1. n \in c.first + 1 .. c.last /\ n - 1 >= c.first /\ n >= c.first
    BY <1>1, <1>2, <1>5
  <2>2. CanonicalBlock(w, n) = c.canonical[n] /\ CanonicalBlock(w, n - 1) = c.canonical[n - 1]
    BY <1>2, <2>1, Zenon
  <2> QED BY <2>1, <2>2, Zenon DEF IsLinked
<1> QED BY <1>1, <1>2, <1>3, <1>4, <1>5

\* A view shows the blocks of another one below a chain, and the chain from
\* its first block to its last.
GoesOn(w, v, c) ==
    /\ w.starting = v.starting
    /\ w.recent.last = c.last
    /\ \A n \in w.starting .. w.recent.last :
        /\ n < c.first  => CanonicalBlock(w, n) = CanonicalBlock(v, n)
        /\ n >= c.first => CanonicalBlock(w, n) = c.canonical[n]

\* Publishing a linked chain that starts with the recent segment's first
\* block keeps the view complete.
LEMMA RecentReplaced ==
    ASSUME NEW v, IsView(v), NEW c, IsBuilder(c), IsLinked(c),
           c.first = v.recent.first, c.canonical[c.first] = v.recent.canonical[c.first]
    PROVE  LET w == [starting |-> v.starting, recent |-> CurrentSegment(c), store |-> v.store]
           IN  IsView(w) /\ GoesOn(w, v, c)
<1> DEFINE s == CurrentSegment(c)
           w == [starting |-> v.starting, recent |-> s, store |-> v.store]
<1>1. /\ IsSegment(s) /\ IsLinked(s) /\ s.first = c.first /\ s.last = c.last
      /\ s.canonical = c.canonical
  BY CurrentSegmentKeepsChain, Zenon
<1> HIDE DEF s
<1>2. w.starting = v.starting /\ w.recent = s /\ w.store = v.store
  BY Zenon
<1> HIDE DEF w
<1>3. IsArchived(v)
  BY Zenon DEF IsView
<1>4. IsArchived(w)
  BY <1>1, <1>2, <1>3, Zenon DEF IsArchived
<1>5. /\ v.starting \in Nat /\ v.recent.first \in Nat /\ v.recent.last \in Nat
      /\ v.starting <= v.recent.first /\ v.recent.first <= v.recent.last /\ c.last \in Nat
  BY ChainFields, <1>3, Zenon DEF IsArchived
<1>6. ASSUME NEW n \in w.starting .. w.recent.last
      PROVE  /\ n < c.first  => CanonicalBlock(w, n) = CanonicalBlock(v, n)
             /\ n >= c.first => CanonicalBlock(w, n) = c.canonical[n]
  <2>1. CASE n < c.first
    <3>1. n \in v.starting .. v.recent.last
      BY <1>1, <1>2, <1>5, <2>1
    <3>2. CanonicalBlock(v, n) = v.store[ChainSegmentStart(n, v.starting)].canonical[n]
      BY <1>3, <2>1, <3>1, CanonicalBlockIs, Zenon
    <3>3. CanonicalBlock(w, n) = w.store[ChainSegmentStart(n, w.starting)].canonical[n]
      BY <1>1, <1>2, <1>4, <2>1, CanonicalBlockIs, Zenon
    <3> QED BY <1>2, <1>5, <2>1, <3>1, <3>2, <3>3
  <2>2. CASE n >= c.first
    BY <1>1, <1>2, <1>4, <1>5, <2>2, CanonicalBlockIs
  <2> QED BY <1>2, <1>5, <2>1, <2>2, Zenon
<1>7. w.recent.last <= c.last
  BY <1>1, <1>2, <1>5
<1>8. IsView(w)
  BY <1>2, <1>4, <1>6, <1>7, JoinedWith, Zenon
<1>9. GoesOn(w, v, c)
  BY <1>1, <1>2, <1>6, Zenon DEF GoesOn
<1> QED BY <1>8, <1>9, Zenon DEF w, s

\* Storing any segment under the number of the recent segment's first block
\* changes nothing a reader of the present snapshot sees.
LEMMA StoredUnderRecent ==
    ASSUME NEW v, IsView(v), NEW w, w.starting = v.starting, w.recent = v.recent,
           v.recent.first \in DOMAIN w.store, DOMAIN v.store \subseteq DOMAIN w.store,
           \A n \in DOMAIN v.store : n # v.recent.first => w.store[n] = v.store[n]
    PROVE  /\ IsView(w)
           /\ \A n \in v.starting .. v.recent.last : CanonicalBlock(w, n) = CanonicalBlock(v, n)
<1>1. IsArchived(v)
  BY Zenon DEF IsView
<1>2. /\ v.starting \in Nat /\ v.recent.first \in Nat /\ v.recent.last \in Nat
      /\ v.starting <= v.recent.first /\ v.recent.first <= v.recent.last
  BY ChainFields, <1>1, Zenon DEF IsArchived
<1>3. ASSUME NEW n \in v.starting .. v.recent.first - 1
      PROVE  LET start == ChainSegmentStart(n, v.starting) IN
             start \in DOMAIN w.store /\ w.store[start] = v.store[start]
  <2>1. n \in Nat /\ v.starting <= n /\ n < v.recent.first
    BY <1>2
  <2>2. ChainSegmentStart(n, v.starting) \in Nat /\ ChainSegmentStart(n, v.starting) <= n
    BY <1>2, <2>1, SegmentStartFacts, Zenon
  <2>3. ChainSegmentStart(n, v.starting) # v.recent.first
    BY <1>2, <2>1, <2>2
  <2>4. ChainSegmentStart(n, v.starting) \in DOMAIN v.store
    BY <1>1, Zenon DEF IsArchived
  <2> QED BY <2>3, <2>4, Zenon
<1>4. IsArchived(w)
  BY <1>1, <1>3, Zenon DEF IsArchived
<1>5. ASSUME NEW n \in v.starting .. v.recent.last
      PROVE  CanonicalBlock(w, n) = CanonicalBlock(v, n)
  <2>1. CASE n >= v.recent.first
    BY <1>1, <1>4, <2>1, CanonicalBlockIs
  <2>2. CASE n < v.recent.first
    <3>1. n \in v.starting .. v.recent.first - 1
      BY <1>2, <2>2
    <3> QED BY <1>1, <1>3, <1>4, <2>2, <3>1, CanonicalBlockIs
  <2> QED BY <1>2, <2>1, <2>2
<1>6. ASSUME NEW n \in v.starting + 1 .. v.recent.last
      PROVE  Parent[CanonicalBlock(w, n)] = CanonicalBlock(w, n - 1)
  <2>1. n \in v.starting .. v.recent.last /\ n - 1 \in v.starting .. v.recent.last
    BY <1>2
  <2> QED BY <1>5, <2>1, Zenon DEF IsView, IsJoined
<1>7. IsView(w)
  BY <1>4, <1>6, Zenon DEF IsView, IsJoined
<1> QED BY <1>5, <1>7, Zenon

\* Taking a segment, storing it and publishing what is left keeps the view
\* complete.
LEMMA SegmentTaken ==
    ASSUME NEW v, IsView(v), NEW c, IsBuilder(c), IsLinked(c),
           c.first = v.recent.first, c.canonical[c.first] = v.recent.canonical[c.first],
           CanTakeSegment(c, ChainSegmentSize),
           NEW w, w.starting = v.starting,
           w.recent = CurrentSegment(AfterTake(c, ChainSegmentSize)),
           c.first \in DOMAIN w.store, DOMAIN v.store \subseteq DOMAIN w.store,
           w.store[c.first] = TakenSegment(c, ChainSegmentSize),
           \A n \in DOMAIN v.store : n # c.first => w.store[n] = v.store[n]
    PROVE  IsView(w) /\ GoesOn(w, v, c)
<1> DEFINE t == TakenSegment(c, ChainSegmentSize)
           a == AfterTake(c, ChainSegmentSize)
<1>0. ChainSegmentSize \in Nat \ {0}
  BY ChainSegmentSizeAssumption, Zenon
<1>1. /\ IsSegment(t) /\ IsBuilder(a) /\ IsLinked(a)
      /\ t.first = c.first /\ t.last = c.first + ChainSegmentSize - 1
      /\ a.first = c.first + ChainSegmentSize /\ a.last = c.last
      /\ \A n \in t.first .. t.last : t.canonical[n] = c.canonical[n]
      /\ \A n \in a.first .. a.last : a.canonical[n] = c.canonical[n]
  BY <1>0, TakeSplitsChain, Zenon
<1>2. /\ IsSegment(w.recent) /\ IsLinked(w.recent) /\ w.recent.first = a.first
      /\ w.recent.last = a.last /\ w.recent.canonical = a.canonical
  BY <1>1, CurrentSegmentKeepsChain
<1> HIDE DEF t, a
<1>3. IsArchived(v)
  BY Zenon DEF IsView
<1>4. /\ v.starting \in Nat /\ v.recent.first \in Nat /\ v.recent.last \in Nat
      /\ v.starting <= v.recent.first /\ v.recent.first <= v.recent.last /\ c.last \in Nat
      /\ w.recent.last \in Nat
  BY ChainFields, <1>2, <1>3, Zenon DEF IsArchived
<1>5. /\ \A n \in c.first .. c.first + ChainSegmentSize - 1 :
              ChainSegmentStart(n, v.starting) = c.first
      /\ ChainSegmentStart(c.first + ChainSegmentSize, v.starting) = c.first + ChainSegmentSize
  BY <1>3, <1>4, AlignedSegment DEF IsArchived
<1>6. ASSUME NEW n \in v.starting .. c.first - 1
      PROVE  LET start == ChainSegmentStart(n, v.starting) IN
             start \in DOMAIN v.store /\ start \in DOMAIN w.store /\ w.store[start] = v.store[start]
  <2>1. n \in Nat /\ v.starting <= n /\ n < c.first
    BY <1>4
  <2>2. ChainSegmentStart(n, v.starting) \in Nat /\ ChainSegmentStart(n, v.starting) <= n
    BY <1>4, <2>1, SegmentStartFacts, Zenon
  <2>3. ChainSegmentStart(n, v.starting) # c.first
    BY <1>4, <2>1, <2>2
  <2>4. ChainSegmentStart(n, v.starting) \in DOMAIN v.store
    BY <1>3, Zenon DEF IsArchived
  <2> QED BY <2>3, <2>4, Zenon
<1>7. ASSUME NEW n \in w.starting .. w.recent.first - 1
      PROVE  LET start == ChainSegmentStart(n, w.starting) IN
             /\ start \in DOMAIN w.store
             /\ IsSegment(w.store[start])
             /\ w.store[start].first = start
             /\ w.store[start].last = start + ChainSegmentSize - 1
  <2>1. CASE n < c.first
    <3>1. n \in v.starting .. c.first - 1
      BY <1>4, <2>1
    <3> QED BY <1>3, <1>6, <3>1, Zenon DEF IsArchived
  <2>2. CASE n >= c.first
    <3>1. n \in c.first .. c.first + ChainSegmentSize - 1
      BY <1>0, <1>1, <1>2, <1>4, <2>2
    <3> QED BY <1>1, <1>5, <3>1, Zenon DEF t
  <2> QED BY <1>4, <2>1, <2>2
<1>8. IsArchived(w)
  <2>1. v.starting <= w.recent.first /\ w.recent.first = c.first + ChainSegmentSize
    BY <1>0, <1>1, <1>2, <1>4
  <2> QED BY <1>2, <1>4, <1>5, <1>7, <2>1, Zenon DEF IsArchived
<1>9. ASSUME NEW n \in w.starting .. w.recent.last
      PROVE  /\ n < c.first  => CanonicalBlock(w, n) = CanonicalBlock(v, n)
             /\ n >= c.first => CanonicalBlock(w, n) = c.canonical[n]
  <2>0. n \in Nat /\ c.first \in Nat /\ w.recent.first = c.first + ChainSegmentSize
    BY <1>1, <1>2, <1>4
  <2>1. CASE n < c.first
    <3>1. n \in v.starting .. c.first - 1 /\ n \in v.starting .. v.recent.last
          /\ n < w.recent.first
      BY <1>0, <1>4, <2>0, <2>1
    <3>2. n < v.recent.first
      BY <1>4, <2>0, <2>1
    <3>3. /\ CanonicalBlock(v, n) = v.store[ChainSegmentStart(n, v.starting)].canonical[n]
          /\ CanonicalBlock(w, n) = w.store[ChainSegmentStart(n, w.starting)].canonical[n]
      BY <1>3, <1>8, <3>1, <3>2, CanonicalBlockIs, Zenon
    <3>4. ~(n >= c.first)
      BY <2>0, <2>1
    <3>5. w.store[ChainSegmentStart(n, v.starting)] = v.store[ChainSegmentStart(n, v.starting)]
      BY <1>6, <3>1, Zenon
    <3> QED BY <3>3, <3>4, <3>5, Zenon
  <2>2. CASE n >= c.first /\ n < w.recent.first
    <3>1. n \in c.first .. c.first + ChainSegmentSize - 1
      BY <1>0, <1>4, <2>0, <2>2
    <3>2. CanonicalBlock(w, n) = w.store[c.first].canonical[n]
      <4>1. ChainSegmentStart(n, w.starting) = c.first
        BY <1>5, <3>1, Zenon
      <4>2. CanonicalBlock(w, n) = w.store[ChainSegmentStart(n, w.starting)].canonical[n]
        BY <1>8, <2>2, CanonicalBlockIs, Zenon
      <4> QED BY <4>1, <4>2, Zenon
    <3>3. w.store[c.first].canonical[n] = c.canonical[n]
      BY <1>1, <3>1, Zenon DEF t
    <3>4. ~(n < c.first)
      BY <2>0, <2>2
    <3> QED BY <3>2, <3>3, <3>4, Zenon
  <2>3. CASE n >= w.recent.first
    <3>1. n \in a.first .. a.last /\ n >= c.first
      BY <1>0, <1>1, <1>2, <1>4, <2>0, <2>3
    <3>2. CanonicalBlock(w, n) = w.recent.canonical[n]
      BY <1>8, <2>3, CanonicalBlockIs, Zenon
    <3>3. w.recent.canonical[n] = c.canonical[n]
      BY <1>1, <1>2, <3>1, Zenon
    <3>4. ~(n < c.first)
      BY <2>0, <3>1
    <3> QED BY <3>2, <3>3, <3>4, Zenon
  <2>4. n < c.first \/ (n >= c.first /\ n < w.recent.first) \/ n >= w.recent.first
    BY <1>0, <2>0
  <2> QED BY <2>1, <2>2, <2>3, <2>4, Zenon
<1>10. w.recent.last = c.last /\ w.recent.last <= c.last
  BY <1>1, <1>2, <1>4
<1>11. IsView(w)
  BY <1>8, <1>9, <1>10, JoinedWith, Zenon
<1> QED BY <1>9, <1>10, <1>11, Zenon DEF GoesOn

-----------------------------------------------------------------------------
(* What a publication keeps                                                *)

\* A snapshot has the builder's ends and blocks.
LEMMA SnapshotExtends ==
    ASSUME NEW c, IsBuilder(c), IsLinked(c)
    PROVE  /\ CurrentSegment(c).last <= c.last
           /\ \A n \in CurrentSegment(c).first .. CurrentSegment(c).last :
                    c.canonical[n] = CurrentSegment(c).canonical[n]
<1>1. CurrentSegment(c).last = c.last /\ CurrentSegment(c).canonical = c.canonical
  BY CurrentSegmentKeepsChain, Zenon
<1>2. c.last \in Nat
  BY ChainFields, Zenon
<1> QED BY <1>1, <1>2

\* What a publication that goes on from a view leaves of it.
LEMMA BlocksKept ==
    ASSUME NEW v, NEW w, NEW c, IsView(v), GoesOn(w, v, c), c.first = v.recent.first,
           w.recent.last \in Nat,
           \A n \in v.recent.first .. v.recent.last :
                n <= c.last => c.canonical[n] = v.recent.canonical[n]
    PROVE  \A n \in v.starting .. v.recent.last :
                n <= w.recent.last => CanonicalBlock(w, n) = CanonicalBlock(v, n)
<1> SUFFICES ASSUME NEW n \in v.starting .. v.recent.last, n <= w.recent.last
             PROVE  CanonicalBlock(w, n) = CanonicalBlock(v, n)
  BY Zenon
<1>1. /\ v.starting \in Nat /\ v.recent.first \in Nat /\ v.recent.last \in Nat
      /\ IsArchived(v)
  BY ChainFields, Zenon DEF IsView, IsArchived
<1>2. /\ w.starting = v.starting /\ w.recent.last = c.last
      /\ \A m \in w.starting .. w.recent.last :
            /\ m < c.first  => CanonicalBlock(w, m) = CanonicalBlock(v, m)
            /\ m >= c.first => CanonicalBlock(w, m) = c.canonical[m]
  BY Zenon DEF GoesOn
<1>3. n \in w.starting .. w.recent.last
  BY <1>1, <1>2
<1>4. CASE n < v.recent.first
  BY <1>2, <1>3, <1>4, Zenon
<1>5. CASE n >= v.recent.first
  <2>1. n \in v.recent.first .. v.recent.last
    BY <1>1, <1>5
  <2>2. CanonicalBlock(v, n) = v.recent.canonical[n]
    BY <1>1, <1>5, CanonicalBlockIs, Zenon
  <2> QED BY <1>2, <1>3, <1>5, <2>1, <2>2, Zenon
<1> QED BY <1>1, <1>4, <1>5

\* A number of an interval is between its ends.
LEMMA NumberOfInterval ==
    ASSUME NEW a, NEW z, NEW n \in a .. z
    PROVE  n \in Int /\ a <= n /\ n <= z
OBVIOUS

\* A number below the end of a segment is in the segment.
LEMMA NumberOfSegment ==
    ASSUME NEW n \in Nat, NEW start \in Nat, NEW size \in Nat, n < start + size
    PROVE  n <= start + size - 1 /\ ~(n > start + size - 1)
OBVIOUS

\* A number of an interval that follows another one is not the first.
LEMMA NotTheFirst ==
    ASSUME NEW a \in Nat, NEW z \in Nat, NEW n \in a .. z, n - 1 \in a .. z
    PROVE  n \in a + 1 .. z
OBVIOUS

=============================================================================

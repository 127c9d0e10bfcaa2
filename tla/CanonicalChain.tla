--------------------------- MODULE CanonicalChain ---------------------------
(***************************************************************************)
(* The canonical chain builder and the chain segments it produces          *)
(* (common/src/chain.rs).                                                  *)
(*                                                                         *)
(* A block is identified by its hash; its number and its parent are        *)
(* functions of the hash, so a cursor (number, hash) of a real block is    *)
(* the block itself.  Vec<Hash> with an offset is a function on            *)
(* first..last; the map  number -> hash -> target  is a function from      *)
(* hashes to targets, because the hash determines the number.              *)
(***************************************************************************)
EXTENDS Integers, Functions

CONSTANTS
    Block,      \* the block hashes that any fork of the chain may contain
    Number,     \* the height of each block
    Parent,     \* the parent hash of each block
    ZeroHash,   \* the empty hash of a cursor that only carries a number
    Null        \* Option::None and the Empty builder

ASSUME BlockAssumption ==
    /\ Number \in [Block -> Nat]
    /\ Parent \in [Block -> Block \cup {ZeroHash}]
    /\ \A b \in Block : Parent[b] # ZeroHash => Number[b] = Number[Parent[b]] + 1
    /\ ZeroHash \notin Block
    /\ Null \notin Block

\* Info about a segment: its first and its last block.
SegmentInfo == [first : Block, last : Block]

\* Vec<Hash> and the maps of reorged blocks.
Canonical == UNION {[numbers -> Block] : numbers \in SUBSET {Number[b] : b \in Block}}
ReorgMap  == UNION {[blocks -> Block] : blocks \in SUBSET Block}

\* CanonicalChainBuilder::Building and CanonicalChainSegment.
Builder ==
    [previous : SegmentInfo \cup {Null}, first : Nat, last : Nat, canonical : Canonical,
     reorgs : ReorgMap]
Segment ==
    [previous : SegmentInfo \cup {Null}, first : Nat, last : Nat, canonical : Canonical,
     reorgs : ReorgMap, extraReorgs : ReorgMap]

ASSUME NullAssumption == Null \notin Builder /\ Null \notin Segment

\* A reorg map sends a reorged block to the block at which its chain was cut.
\* Keep the entries whose block number is in a set of numbers.
ReorgsIn(reorgs, numbers) ==
    Restrict(reorgs, {b \in DOMAIN reorgs : Number[b] \in numbers})

ReorgsAbove(reorgs, n) ==
    Restrict(reorgs, {b \in DOMAIN reorgs : Number[b] > n})

NoReorgs == [b \in {} |-> b]

-----------------------------------------------------------------------------
(* The builder.  Null is CanonicalChainBuilder::Empty.                     *)

SegmentSize(builder) ==
    IF builder = Null THEN 0 ELSE builder.last - builder.first + 1

LastBlock(chain) == chain.canonical[chain.last]

\* Mutant: the parent hash is not compared.
CanGrowByNumber(builder, block) ==
    builder = Null \/ Number[block] = builder.last + 1

CanGrow(builder, block) ==
    \/ builder = Null
    \/ LastBlock(builder) = ZeroHash
    \/ /\ Number[block] = builder.last + 1
       /\ Parent[block] = LastBlock(builder)

Grow(builder, block) ==
    IF builder = Null
    THEN [previous  |-> Null,
          first     |-> Number[block],
          last      |-> Number[block],
          canonical |-> [n \in {Number[block]} |-> block],
          reorgs    |-> NoReorgs]
    ELSE [previous  |-> builder.previous,
          first     |-> builder.first,
          last      |-> Number[block],
          canonical |-> [n \in builder.first .. Number[block] |->
                            IF n = Number[block] THEN block ELSE builder.canonical[n]],
          reorgs    |-> builder.reorgs]

CanShrink(builder, newHead) ==
    /\ builder # Null
    /\ Number[newHead] \in builder.first .. builder.last
    /\ builder.canonical[Number[newHead]] = newHead

\* Point every removed block to the new head.  An entry left by an earlier
\* reorg of the same block is overwritten.
RecordReorgs(reorgs, removed, newHead) ==
    [b \in DOMAIN reorgs \cup removed |->
        IF b \in removed THEN newHead ELSE reorgs[b]]

\* Mutant: the new head is removed as well.
RemovedWithHead(builder, newHead) ==
    {builder.canonical[n] : n \in Number[newHead] .. builder.last}

Removed(builder, newHead) ==
    {builder.canonical[n] : n \in (Number[newHead] + 1) .. builder.last}

\* Mutant: info.last_block is not moved.
ShrinkKeepLast(builder, newHead) ==
    [builder EXCEPT
        !.canonical = Restrict(builder.canonical, builder.first .. Number[newHead]),
        !.reorgs = RecordReorgs(builder.reorgs, Removed(builder, newHead), newHead)]

\* Mutant: the chain is not cut.
ShrinkNothing(builder, newHead) == builder

\* Shrinking to the present head changes nothing: no block is removed.
Shrink(builder, newHead) ==
    [previous  |-> builder.previous,
     first     |-> builder.first,
     last      |-> Number[newHead],
     canonical |-> Restrict(builder.canonical, builder.first .. Number[newHead]),
     reorgs    |-> RecordReorgs(builder.reorgs, Removed(builder, newHead), newHead)]

-----------------------------------------------------------------------------
(* Segments.  reorgs holds the per-block reorg maps of canonical blocks,   *)
(* extraReorgs the blocks above the end of the segment.                    *)

CurrentSegment(builder) ==
    [previous    |-> builder.previous,
     first       |-> builder.first,
     last        |-> builder.last,
     canonical   |-> builder.canonical,
     reorgs      |-> ReorgsIn(builder.reorgs, builder.first .. builder.last),
     extraReorgs |-> ReorgsAbove(builder.reorgs, builder.last)]

CanTakeSegment(builder, size) ==
    builder # Null /\ builder.last - builder.first >= size

\* Mutant: the segment loses the reorgs of its blocks.
TakenSegmentNoReorgs(builder, size) ==
    [previous    |-> builder.previous,
     first       |-> builder.first,
     last        |-> builder.first + size - 1,
     canonical   |-> Restrict(builder.canonical, builder.first .. (builder.first + size - 1)),
     reorgs      |-> NoReorgs,
     extraReorgs |-> NoReorgs]

TakenSegment(builder, size) ==
    LET numbers == builder.first .. (builder.first + size - 1)
    IN  [previous    |-> builder.previous,
         first       |-> builder.first,
         last        |-> builder.first + size - 1,
         canonical   |-> Restrict(builder.canonical, numbers),
         reorgs      |-> ReorgsIn(builder.reorgs, numbers),
         extraReorgs |-> NoReorgs]

\* What is left in the builder once the segment has been taken.
AfterTake(builder, size) ==
    LET first == builder.first + size
    IN  [previous  |-> [first |-> builder.canonical[builder.first],
                        last  |-> builder.canonical[first - 1]],
         first     |-> first,
         last      |-> builder.last,
         canonical |-> Restrict(builder.canonical, first .. builder.last),
         reorgs    |-> ReorgsAbove(builder.reorgs, first - 1)]

\* The reorgs come back from the canonical blocks; extraReorgs are not read.
RestoreFromSegment(segment) ==
    [previous  |-> segment.previous,
     first     |-> segment.first,
     last      |-> segment.last,
     canonical |-> segment.canonical,
     reorgs    |-> segment.reorgs]

-----------------------------------------------------------------------------
(* Queries on a segment.  A cursor is [number, hash]; the hash may be      *)
(* ZeroHash when a client only knows the number.                           *)

CursorOf(block) == [number |-> Number[block], hash |-> block]

Reply(kind, target) == [kind |-> kind, target |-> target]

LookupReorg(reorgs, hash) ==
    IF hash \in DOMAIN reorgs THEN Reply("offlineReorg", reorgs[hash])
                              ELSE Reply("unknown", Null)

Reconnect(segment, cursor) ==
    CASE cursor.number < segment.first -> Reply("error", Null)
      [] cursor.number > segment.last ->
            IF \E b \in DOMAIN segment.extraReorgs : Number[b] = cursor.number
            THEN LookupReorg(segment.extraReorgs, cursor.hash)
            ELSE Reply("error", Null)
      [] OTHER ->
            IF cursor.hash \in {ZeroHash, segment.canonical[cursor.number]}
            THEN Reply("continue", Null)
            ELSE LookupReorg(segment.reorgs, cursor.hash)

\* Mutant: only the blocks above the segment are looked at.
SiblingsAbove(segment, number) ==
    {b \in DOMAIN segment.extraReorgs : Number[b] = number}

\* The reorged blocks at the height of the cursor.
Siblings(segment, number) ==
    {b \in DOMAIN segment.reorgs \cup DOMAIN segment.extraReorgs : Number[b] = number}

-----------------------------------------------------------------------------
(* Well-formed builders and segments.                                      *)

\* There is one block of the right number for each number first..last.
IsChain(c) ==
    /\ c.first <= c.last
    /\ c.canonical \in [c.first .. c.last -> Block]
    /\ \A n \in c.first .. c.last : Number[c.canonical[n]] = n

IsBuilder(b) == b \in Builder /\ IsChain(b)

IsSegment(s) == s \in Segment /\ IsChain(s)

\* Every block is the parent of the next one.
IsLinked(c) ==
    \A n \in c.first + 1 .. c.last : Parent[c.canonical[n]] = c.canonical[n - 1]

-----------------------------------------------------------------------------
(* Ancestry                                                                *)

\* The ancestors of a block are the least set that holds its parent and the
\* parent of each of its blocks.
ParentClosed == {S \in SUBSET Block : \A b \in S : Parent[b] \in S \cup {ZeroHash}}

Ancestors ==
    [b \in Block |->
        {a \in Block : \A S \in ParentClosed : Parent[b] \in S \cup {ZeroHash} => a \in S}]

AncestorTargets(reorgs) == \A b \in DOMAIN reorgs : reorgs[b] \in Ancestors[b]

=============================================================================

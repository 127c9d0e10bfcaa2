------------------------------- MODULE Query -------------------------------
(***************************************************************************)
(* How a stored block, a segment and a group of segments are searched with *)
(* the filters of a client (common/src/{index,join,query,fragment}.rs,     *)
(* common/src/data_stream, common/src/compaction/{segment,group}_builder). *)
(*                                                                         *)
(*   - A row is the position of a message in a body fragment, from 0.  A   *)
(*     bitmap is a set of rows, or of block numbers in a group.            *)
(*   - A bitmap index is a function from its keys.  All keys of one index  *)
(*     have the same scalar type, so that the binary search over the       *)
(*     sorted keys finds a key exactly when it is there.                   *)
(*   - A fragment of indexes or joins, a vector searched by fragment id in *)
(*     the code, is a function of the fragment id.  A header is a sequence *)
(*     of one message, and the empty sequence when it is not there.        *)
(*   - `Index::Empty' is never built, and is left out.                     *)
(***************************************************************************)
EXTENDS Integers, Sequences, FiniteSets

INDEX_FRAGMENT_ID == 0

HEADER_FRAGMENT_ID == 1

JOIN_FRAGMENT_ID == 255

-----------------------------------------------------------------------------
(* Indexes and joins.  A builder is the set of the pairs inserted in it.   *)

BuildBitmapIndex(pairs) ==
    [key \in {p[1] : p \in pairs} |-> {p[2] : p \in {q \in pairs : q[1] = key}}]

GetBitmap(index, key) == IF key \in DOMAIN index THEN index[key] ELSE {}

\* An insertion replaces the row joined before; no row is inserted twice.
BuildJoinToOne(pairs) ==
    [row \in {p[1] : p \in pairs} |-> {(CHOOSE p \in pairs : p[1] = row)[2]}]

BuildJoinToMany(pairs) ==
    [row \in {p[1] : p \in pairs} |-> {p[2] : p \in {q \in pairs : q[1] = row}}]

GetJoined(join, row) == IF row \in DOMAIN join THEN join[row] ELSE {}

IndexOfPosition(id, index) == [index_id |-> id, index |-> index]

IndexFragment(start, len, indexes) ==
    [range_start |-> start, range_len |-> len, indexes |-> indexes]

-----------------------------------------------------------------------------
(* One filter.  Its conditions name an index by its id, which the search   *)
(* takes for a position in the vector of indexes.                          *)

HasIndex(cond, fragment) == cond.index_id < Len(fragment.indexes)

HasKey(cond, fragment) == cond.key \in DOMAIN fragment.indexes[cond.index_id + 1].index

RowsOfCondition(cond, fragment) ==
    GetBitmap(fragment.indexes[cond.index_id + 1].index, cond.key)

RangeOf(fragment) ==
    fragment.range_start .. ((fragment.range_start + fragment.range_len) - 1)

\* The search stops at the first key its index does not have, and fails at the
\* first index that does not exist.
FilterFails(filter, fragment) ==
    \E i \in DOMAIN filter.conditions :
        /\ ~HasIndex(filter.conditions[i], fragment)
        /\ \A j \in 1 .. (i - 1) : HasKey(filter.conditions[j], fragment)

FilterRows(filter, fragment) ==
    {row \in RangeOf(fragment) : \A i \in DOMAIN filter.conditions :
                                    row \in RowsOfCondition(filter.conditions[i], fragment)}

-----------------------------------------------------------------------------
(* The filters of a block.                                                 *)

AlwaysIncludeHeader(blockFilter) == blockFilter.header_filter = "always"

CanProduceData(blockFilter) == AlwaysIncludeHeader(blockFilter) \/ blockFilter.filters # {}

AllFragmentIds(blockFilter) ==
    UNION {{filter.fragment_id} \cup filter.joins : filter \in blockFilter.filters}

AddMatch(filterId, rows) == rows \X {filterId}

\* What is read of a block: all of it, or what was downloaded of its segment.
BlockAccess(block) == block

SegmentBlockAccess(segment, offset, loaded) ==
    LET At(id, fragment) == IF id \in loaded THEN fragment[offset + 1].data ELSE <<>>
    IN  [header |-> At(HEADER_FRAGMENT_ID, segment.header),
         index  |-> At(INDEX_FRAGMENT_ID, segment.index),
         join   |-> At(JOIN_FRAGMENT_ID, segment.join),
         body   |-> [id \in loaded \cap DOMAIN segment.body |-> segment.body[id][offset + 1].data]]

Rows(filter, access) == FilterRows(filter, access.index[filter.fragment_id])

\* The rows of a fragment that its own filters match.
DirectMatches(blockFilter, access, id) ==
    UNION {AddMatch(filter.filter_id, Rows(filter, access)) :
              filter \in {f \in blockFilter.filters : f.fragment_id = id}}

\* Mutant: a join takes the rows of every filter of the source fragment.
JoinedMatchesOfFragment(blockFilter, access, id) ==
    LET sources == {f.fragment_id : f \in {g \in blockFilter.filters : id \in g.joins}}
    IN  UNION {UNION {AddMatch(filter.filter_id,
                               GetJoined(access.join[filter.fragment_id][id], row)) :
                         row \in Rows(filter, access)} :
                  filter \in {f \in blockFilter.filters : f.fragment_id \in sources}}

\* The rows of a fragment joined to the rows another filter matches.
JoinedMatches(blockFilter, access, id) ==
    UNION {UNION {AddMatch(filter.filter_id, GetJoined(access.join[filter.fragment_id][id], row)) :
                     row \in Rows(filter, access)} :
              filter \in {f \in blockFilter.filters : id \in f.joins}}

FragmentMatches(blockFilter, access) ==
    LET matching == {filter \in blockFilter.filters : Rows(filter, access) # {}}
    IN  [id \in UNION {{filter.fragment_id} \cup filter.joins : filter \in matching} |->
            DirectMatches(blockFilter, access, id) \cup JoinedMatches(blockFilter, access, id)]

ShouldSendHeader(blockFilter, matches, isLive) ==
    CASE blockFilter.header_filter = "always" -> TRUE
      [] blockFilter.header_filter = "onData" -> DOMAIN matches # {}
      [] blockFilter.header_filter = "onDataOrOnNewBlock" -> DOMAIN matches # {} \/ isLive

\* The reads of filter_fragment that return an error, or are out of bounds.
SearchFails(blockFilter, access) ==
    \E filter \in blockFilter.filters :
        \/ filter.fragment_id \notin DOMAIN access.index
        \/ FilterFails(filter, access.index[filter.fragment_id])
        \/ /\ Rows(filter, access) # {}
           /\ \E id \in filter.joins : \/ filter.fragment_id \notin DOMAIN access.join
                                       \/ id \notin DOMAIN access.join[filter.fragment_id]

ReadFails(blockFilter, access, names, isLive) ==
    LET matches == FragmentMatches(blockFilter, access)
    IN  \/ ShouldSendHeader(blockFilter, matches, isLive) /\ access.header = <<>>
        \/ \E id \in DOMAIN matches :
              \/ id \notin names
              \/ id \notin DOMAIN access.body
              \/ \E m \in matches[id] : m[1] >= Len(access.body[id])

FilterFragmentFails(blockFilter, access, names, isLive) ==
    SearchFails(blockFilter, access) \/ ReadFails(blockFilter, access, names, isLive)

\* What a block filter sends of a block: the header or not, and every message
\* once, with the ids of the filters it is sent for.
FilterFragment(blockFilter, access, isLive) ==
    LET matches == FragmentMatches(blockFilter, access)
        Ids(id, row) == {m[2] : m \in {n \in matches[id] : n[1] = row}}
    IN  [header |-> IF ShouldSendHeader(blockFilter, matches, isLive) THEN access.header ELSE <<>>,
         items  |-> UNION {{[fragment_id |-> id, message |-> access.body[id][m[1] + 1],
                             filter_ids |-> Ids(id, m[1])] : m \in matches[id]} :
                              id \in DOMAIN matches}]

HasOutput(output) == output.header # <<>> \/ output.items # {}

-----------------------------------------------------------------------------
(* A segment: the same fragment of consecutive blocks, one after another.  *)

AddBlockFails(blocks) ==
    \E i \in DOMAIN blocks : Cardinality(DOMAIN blocks[i].block.body)
                             # Cardinality(DOMAIN blocks[1].block.body)

AddBlocks(blocks, Fragment(_)) ==
    [i \in DOMAIN blocks |-> [cursor |-> blocks[i].cursor, data |-> Fragment(blocks[i].block)]]

SegmentData(firstBlock, blocks) ==
    [first_block |-> firstBlock,
     header |-> AddBlocks(blocks, LAMBDA block : block.header),
     index  |-> AddBlocks(blocks, LAMBDA block : block.index),
     join   |-> AddBlocks(blocks, LAMBDA block : block.join),
     body   |-> [id \in DOMAIN blocks[1].block.body |->
                    AddBlocks(blocks, LAMBDA block : block.body[id])]]

-----------------------------------------------------------------------------
(* A group: for every key of every index, the blocks that have the key.    *)

BlocksOf(segments) == UNION {{segments[s].index[i] : i \in DOMAIN segments[s].index} :
                                s \in DOMAIN segments}

IndexIds(blocks, id) ==
    UNION {{block.data[id].indexes[p].index_id : p \in DOMAIN block.data[id].indexes} :
              block \in {b \in blocks : id \in DOMAIN b.data}}

\* The pairs (key, block number) inserted for one index of one fragment.
GroupPairs(blocks, id, indexId) ==
    UNION {UNION {{<<key, block.cursor>> : key \in DOMAIN block.data[id].indexes[p].index} :
                     p \in {q \in DOMAIN block.data[id].indexes :
                               block.data[id].indexes[q].index_id = indexId}} :
              block \in {b \in blocks : id \in DOMAIN b.data}}

\* The indexes of a fragment, in the order of their ids.
Ranked(ids, position) ==
    CHOOSE id \in ids : Cardinality({other \in ids : other < id}) = position - 1

GroupIndexes(blocks, id) ==
    [p \in 1 .. Cardinality(IndexIds(blocks, id)) |->
        LET indexId == Ranked(IndexIds(blocks, id), p)
        IN  IndexOfPosition(indexId, BuildBitmapIndex(GroupPairs(blocks, id, indexId)))]

\* Mutant: the range of the group stays that of its first segment.
BuildGroupOfFirstRange(segments, segmentSize) ==
    LET blocks == BlocksOf(segments)
    IN  [first_block |-> segments[1].first_block,
         index |-> [id \in UNION {DOMAIN block.data : block \in blocks} |->
                       IndexFragment(segments[1].first_block, segmentSize, GroupIndexes(blocks, id))]]

BuildGroup(segments, segmentSize) ==
    LET blocks == BlocksOf(segments)
        first == segments[1].first_block
        last == (segments[Len(segments)].first_block + segmentSize) - 1
    IN  [first_block |-> first,
         index |-> [id \in UNION {DOMAIN block.data : block \in blocks} |->
                       IndexFragment(first, (last - first) + 1, GroupIndexes(blocks, id))]]

\* The search of a group with the filters of a request.
GroupFails(blockFilters, group) ==
    \E i \in DOMAIN blockFilters : \E filter \in blockFilters[i].filters :
        \/ filter.fragment_id \notin DOMAIN group.index
        \/ FilterFails(filter, group.index[filter.fragment_id])

GroupRows(filter, group) == FilterRows(filter, group.index[filter.fragment_id])

GroupBlocksWithData(blockFilters, group, blocksInGroup) ==
    UNION {(IF AlwaysIncludeHeader(blockFilters[i])
            THEN group.first_block .. ((group.first_block + blocksInGroup) - 1) ELSE {})
           \cup UNION {GroupRows(filter, group) : filter \in blockFilters[i].filters} :
              i \in DOMAIN blockFilters}

\* Mutant: what is joined is not downloaded.
GroupFragmentIdsNoJoins(blockFilters, group) ==
    {INDEX_FRAGMENT_ID, JOIN_FRAGMENT_ID, HEADER_FRAGMENT_ID}
    \cup UNION {{filter.fragment_id : filter \in {f \in blockFilters[i].filters :
                                                     GroupRows(f, group) # {}}} :
                   i \in DOMAIN blockFilters}

\* The fragments downloaded for a group, and for a segment outside any group.  No
\* request has an empty vector of block filters, the case of headers only.
GroupFragmentIds(blockFilters, group) ==
    {INDEX_FRAGMENT_ID, JOIN_FRAGMENT_ID, HEADER_FRAGMENT_ID}
    \cup UNION {UNION {{filter.fragment_id} \cup filter.joins :
                          filter \in {f \in blockFilters[i].filters : GroupRows(f, group) # {}}} :
                   i \in DOMAIN blockFilters}

SegmentFragmentIds(blockFilters) ==
    {INDEX_FRAGMENT_ID, JOIN_FRAGMENT_ID, HEADER_FRAGMENT_ID}
    \cup UNION {AllFragmentIds(blockFilters[i]) : i \in DOMAIN blockFilters}

=============================================================================

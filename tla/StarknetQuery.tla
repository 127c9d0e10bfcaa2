---------------------------- MODULE StarknetQuery ----------------------------
(***************************************************************************)
(* A Starknet chain is ingested, compacted and queried: whichever copy of  *)
(* a block answers, the block alone, its segment, or its segment after a   *)
(* look at the index of its group, the client gets the messages its        *)
(* filters ask for.                                                        *)
(*                                                                         *)
(* The blocks are those of one group, in the order they are ingested; when *)
(* segments and groups are made is the subject of Compaction, and when a   *)
(* stream reads which copy that of DataStream.                             *)
(***************************************************************************)
EXTENDS StarknetBlock, Encoding

CONSTANTS
    FirstBlock,             \* the number of the first block of the group
    SegmentSize, GroupSize, \* blocks in a segment, segments in a group
    Content,                \* the chains: sequences of SegmentSize * GroupSize blocks
    Request,                \* the requests: sequences of Starknet filters
    MessageLen(_, _)        \* the bytes of a message of a fragment

ASSUME QueryAssumption ==
    /\ FirstBlock \in Nat /\ SegmentSize \in Nat \ {0} /\ GroupSize \in Nat \ {0}
    /\ \A chain \in Content : Len(chain) = SegmentSize * GroupSize

VARIABLES
    content,        \* the blocks of the node
    blocks,         \* the blocks stored, a sequence
    segments,       \* the segments stored, a sequence
    group,          \* the group stored, or Null
    request,        \* the filters the client sends
    blockFilters,   \* what they are compiled to, Null before, <<>> if refused
    answer,         \* what was sent from which copy of which blocks, or Null
    failed          \* an operation returned an error

queryVars == <<content, blocks, segments, group, request, blockFilters, answer, failed>>

NumberOf(i) == (FirstBlock + i) - 1

QueryInit ==
    /\ content \in Content
    /\ blocks = <<>>
    /\ segments = <<>>
    /\ group = Null
    /\ request \in Request
    /\ blockFilters = Null
    /\ answer = Null
    /\ failed = FALSE

-----------------------------------------------------------------------------
(* The stored data.                                                        *)

IngestBlock ==
    /\ answer = Null
    /\ Len(blocks) < Len(content)
    /\ blocks' = Append(blocks, BlockOf(content[Len(blocks) + 1]))
    /\ UNCHANGED <<content, segments, group, request, blockFilters, answer, failed>>

CompactSegment ==
    LET first == Len(segments) * SegmentSize + 1
        added == [i \in 1 .. SegmentSize |->
                     [cursor |-> NumberOf((first + i) - 1), block |-> blocks[(first + i) - 1]]]
    IN  /\ answer = Null
        /\ Len(blocks) >= (first + SegmentSize) - 1
        /\ first <= Len(content)
        /\ IF AddBlockFails(added)
           THEN failed' = TRUE /\ UNCHANGED segments
           ELSE /\ segments' = Append(segments, SegmentData(NumberOf(first), added))
                /\ UNCHANGED failed
        /\ UNCHANGED <<content, blocks, group, request, blockFilters, answer>>

CompactGroup ==
    /\ answer = Null
    /\ group = Null
    /\ Len(segments) = GroupSize
    /\ group' = BuildGroup(segments, SegmentSize)
    /\ UNCHANGED <<content, blocks, segments, request, blockFilters, answer, failed>>

-----------------------------------------------------------------------------
(* The request and its answer.                                             *)

CompileRequest ==
    /\ blockFilters = Null
    /\ blockFilters' = IF CreateBlockFilterFails(request) THEN <<>> ELSE CreateBlockFilter(request)
    /\ UNCHANGED <<content, blocks, segments, group, request, answer, failed>>

\* What one block filter puts in the buffer of a block: its output, the size
\* reserved for it, and what was written.
Buffer(blockFilter, access, isLive) ==
    LET output == FilterFragment(blockFilter, access, isLive)
        LenOf(item) == MessageLen(item.fragment_id, item.message)
        headerLen == MessageLen(HEADER_FRAGMENT_ID, <<0, 0>>)
    IN  [header |-> output.header,
         items |-> output.items,
         reserved |-> (IF output.header = <<>> THEN 0
                       ELSE EncodedHeaderLen(HEADER_FRAGMENT_ID, headerLen))
                      + MapThenSumSet(LAMBDA item :
                            EncodedBodyItemLen(item.fragment_id, item.filter_ids, LenOf(item)),
                            output.items),
         writtenHeader |-> IF output.header = <<>> THEN <<>>
                           ELSE EncodeHeader(HEADER_FRAGMENT_ID, headerLen),
         written |-> [item \in output.items |->
                         EncodeBodyItem(item.fragment_id, item.filter_ids, LenOf(item))]]

\* The buffers of a block, one for each block filter.
Buffers(access, isLive) == [i \in DOMAIN blockFilters |-> Buffer(blockFilters[i], access, isLive)]

BuffersFail(access, isLive) ==
    \E i \in DOMAIN blockFilters :
        FilterFragmentFails(blockFilters[i], access, FragmentIdToName, isLive)

HasData(buffers) == \E i \in DOMAIN buffers : HasOutput(buffers[i])

IsQueried == blockFilters # Null /\ blockFilters # <<>> /\ answer = Null

\* The blocks that are accessed are read one by one; a block without data is
\* not sent.
Answer(source, asked, access, isLive) ==
    /\ IF \E n \in DOMAIN access : BuffersFail(access[n], isLive)
       THEN failed' = TRUE /\ UNCHANGED answer
       ELSE /\ LET buffers == [n \in DOMAIN access |-> Buffers(access[n], isLive)]
               IN  answer' = [source |-> source, asked |-> asked, isLive |-> isLive,
                              sent |-> Restrict(buffers, {n \in DOMAIN access : HasData(buffers[n])})]
            /\ UNCHANGED failed
    /\ UNCHANGED <<content, blocks, segments, group, request, blockFilters>>

AnswerFromBlock ==
    /\ IsQueried
    /\ \E i \in DOMAIN blocks, isLive \in BOOLEAN :
          Answer("block", {NumberOf(i)}, [n \in {NumberOf(i)} |-> BlockAccess(blocks[i])], isLive)

SegmentBlocks(segment) == segment.first_block .. ((segment.first_block + SegmentSize) - 1)

AnswerFromSegment ==
    /\ IsQueried
    /\ \E s \in DOMAIN segments :
          Answer("segment", SegmentBlocks(segments[s]),
                 [n \in SegmentBlocks(segments[s]) |->
                     SegmentBlockAccess(segments[s], n - segments[s].first_block,
                                        SegmentFragmentIds(blockFilters))],
                 FALSE)

\* The segment of a block of the group.
SegmentOf(n) ==
    segments[CHOOSE s \in DOMAIN segments : n \in SegmentBlocks(segments[s])]

AnswerFromGroup ==
    /\ IsQueried
    /\ group # Null
    /\ IF GroupFails(blockFilters, group)
       THEN failed' = TRUE
            /\ UNCHANGED <<content, blocks, segments, group, request, blockFilters, answer>>
       ELSE Answer("group", {NumberOf(i) : i \in DOMAIN content},
                   [n \in GroupBlocksWithData(blockFilters, group, SegmentSize * GroupSize) |->
                       SegmentBlockAccess(SegmentOf(n), n - SegmentOf(n).first_block,
                                          GroupFragmentIds(blockFilters, group))],
                   FALSE)

QueryNext ==
    \/ IngestBlock
    \/ CompactSegment
    \/ CompactGroup
    \/ CompileRequest
    \/ AnswerFromBlock
    \/ AnswerFromSegment
    \/ AnswerFromGroup

QuerySpec == QueryInit /\ [][QueryNext]_queryVars

-----------------------------------------------------------------------------
(* What the filters ask for, said of the block itself as filter.proto says *)
(* it: no rows, no indexes and no joins.  A wanted message is a pair of    *)
(* its fragment and itself.  One thing is asked for less than the proto    *)
(* says: see KeysMatch.                                                    *)

StatusMatches(filter, status) ==
    \/ filter.transaction_status \in {"Unspecified", "All"}
    \/ status = IF filter.transaction_status = Null THEN "Succeeded" ELSE filter.transaction_status

Allows(wanted, value) == wanted = Null \/ wanted = value

\* How many keys of an event are indexed.
ComparedKeys == 4

\* "Filter keys that prefix-match the given data" (protocol/proto/starknet/v2/filter.proto:37),
\* restricted to the first four: the fifth key of a filter and those after it count
\* for the length a strict filter asks for, and are compared with nothing.
KeysMatch(filter, keys) ==
    /\ filter.strict => Len(keys) = Len(filter.keys)
    /\ \A k \in DOMAIN filter.keys \cap 1 .. ComparedKeys :
          filter.keys[k] = Null \/ (k <= Len(keys) /\ keys[k] = filter.keys[k])

\* Everything about transaction t that the flags of a filter include.
Included(block, include, t) ==
    LET Of(flag, id, n) == IF flag \in include THEN {<<id, <<t - 1, i - 1>>>> : i \in 1 .. n} ELSE {}
        transaction == block.transactions[t]
    IN  Of("transaction", TRANSACTION_FRAGMENT_ID, 1)
        \cup Of("receipt", RECEIPT_FRAGMENT_ID, 1)
        \cup Of("events", EVENT_FRAGMENT_ID, Len(transaction.events))
        \cup Of("messages", MESSAGE_FRAGMENT_ID, Len(transaction.messages))
        \cup Of("trace", TRACE_FRAGMENT_ID, IF block.traces = <<>> THEN 0 ELSE 1)

\* Siblings are the events, or messages, of the same transaction.
WithSiblings(include, plural) ==
    (include \ {"siblings"}) \cup (IF "siblings" \in include THEN {plural} ELSE {})

WantedTransactions(block, filter) ==
    UNION {{<<TRANSACTION_FRAGMENT_ID, <<t - 1, 0>>>>} \cup Included(block, filter.include, t) :
              t \in {u \in DOMAIN block.transactions :
                        /\ StatusMatches(filter, block.transactions[u].status)
                        /\ Allows(filter.inner, block.transactions[u].type)}}

WantedEvents(block, filter) ==
    UNION {UNION {{<<EVENT_FRAGMENT_ID, <<t - 1, n - 1>>>>}
                  \cup Included(block, WithSiblings(filter.include, "events"), t) :
                     n \in {m \in DOMAIN block.transactions[t].events :
                               /\ Allows(filter.address, block.transactions[t].events[m].from_address)
                               /\ KeysMatch(filter, block.transactions[t].events[m].keys)}} :
              t \in {u \in DOMAIN block.transactions :
                        StatusMatches(filter, block.transactions[u].status)}}

WantedMessages(block, filter) ==
    UNION {UNION {{<<MESSAGE_FRAGMENT_ID, <<t - 1, n - 1>>>>}
                  \cup Included(block, WithSiblings(filter.include, "messages"), t) :
                     n \in {m \in DOMAIN block.transactions[t].messages :
                               LET message == block.transactions[t].messages[m]
                               IN  /\ Allows(filter.from_address, message.from_address)
                                   /\ Allows(filter.to_address, message.to_address)}} :
              t \in {u \in DOMAIN block.transactions :
                        StatusMatches(filter, block.transactions[u].status)}}

WantedAddresses(id, addresses, filter) ==
    {<<id, <<n - 1, 0>>>> : n \in {m \in DOMAIN addresses :
                                      Allows(filter.contract_address, addresses[m])}}

WantedChanges(block, filter) ==
    LET Section(change, section, count) ==
            {<<CONTRACT_CHANGE_FRAGMENT_ID, <<section, n - 1>>>> :
                n \in {m \in 1 .. count : Allows(filter.change, change)}}
    IN  Section("DeclaredClass", 0, block.deprecated_declared_classes)
        \cup Section("DeclaredClass", 1, block.declared_classes)
        \cup Section("Replaced", 2, block.replaced_classes)
        \cup Section("Deployed", 3, block.deployed_contracts)

\* The pairs of a wanted message and the id of a filter that wants it.
Wanted(block, filters) ==
    UNION ({WantedTransactions(block, f) \X {f.id} : f \in filters.transactions}
           \cup {WantedEvents(block, f) \X {f.id} : f \in filters.events}
           \cup {WantedMessages(block, f) \X {f.id} : f \in filters.messages}
           \cup {WantedAddresses(STORAGE_DIFF_FRAGMENT_ID, block.storage_diffs, f) \X {f.id} :
                    f \in filters.storage_diffs}
           \cup {WantedChanges(block, f) \X {f.id} : f \in filters.contract_changes}
           \cup {WantedAddresses(NONCE_UPDATE_FRAGMENT_ID, block.nonces, f) \X {f.id} :
                    f \in filters.nonce_updates})

\* Filters that want the header of a block they want nothing else of.
WantsHeaderAnyway(filters, isLive) ==
    \/ filters.header = "always"
    \/ isLive /\ filters.header # "onData"

ContentOf(n) == content[(n - FirstBlock) + 1]

-----------------------------------------------------------------------------
(* Properties.                                                             *)

\* Exactly the messages the filters ask for are sent, each with exactly the
\* filters that ask for it, and a header whenever something else is sent or the
\* header filter says so; a block is left out only if nothing is wanted of it.
\* This is so from a block, from a segment and after a search of the group.  An event
\* filter asks for the events that agree with its first four keys: what filter.proto
\* says of longer prefixes is not claimed, and does not hold (filter_fragment,
\* common/src/data_stream/stream.rs:620, and SegmentStream::start,
\* common/src/data_stream/segment_stream.rs:131).
AnswerIsExact ==
    answer # Null =>
        \A n \in answer.asked :
            LET wanted(i) == Wanted(ContentOf(n), request[i])
                header(i) == wanted(i) # {} \/ WantsHeaderAnyway(request[i], answer.isLive)
            IN  /\ n \in DOMAIN answer.sent <=> \E i \in DOMAIN request : header(i)
                /\ n \in DOMAIN answer.sent =>
                      \A i \in DOMAIN request :
                          /\ answer.sent[n][i].header # <<>> <=> header(i)
                          /\ UNION {{<<item.fragment_id, item.message>>} \X item.filter_ids :
                                       item \in answer.sent[n][i].items} = wanted(i)

\* No accepted request makes a search fail: every index, join, name and fragment
\* the compiled filters read is stored, downloaded and long enough
\* (FragmentAccess, common/src/data_stream/fragment_access.rs:19, and
\* SegmentBlockAccess, segment_access.rs:100), and no segment is refused
\* (SegmentBuilder::add_block, common/src/compaction/segment_builder.rs:43).
NoOperationFails == ~failed

\* The group index misses no block: a filter that matches a row of a block matches
\* the number of the block in the group (SegmentGroupBuilder::add_segment,
\* common/src/compaction/group_builder.rs:32).
GroupIndexIsComplete ==
    group # Null /\ blockFilters # Null =>
        \A i \in DOMAIN blockFilters : \A filter \in blockFilters[i].filters :
            \A n \in DOMAIN blocks :
                Rows(filter, BlockAccess(blocks[n])) # {} => NumberOf(n) \in GroupRows(filter, group)

\* The buffer of a block is exactly as long as computed, and every field in it ends
\* where its length prefix says, whatever filter ids are put before its message
\* (encode_body_item, common/src/data_stream/stream.rs:133, and the debug_assert of
\* filter_fragment, stream.rs:797).
FramesAreSound ==
    answer # Null =>
        \A n \in DOMAIN answer.sent : \A i \in DOMAIN answer.sent[n] :
            LET buffer == answer.sent[n][i]
            IN  /\ buffer.writtenHeader # <<>> => IsFramed(buffer.writtenHeader)
                /\ \A item \in buffer.items : IsFramed(buffer.written[item])
                /\ buffer.reserved = Width(buffer.writtenHeader)
                      + MapThenSumSet(LAMBDA item : Width(buffer.written[item]), buffer.items)

=============================================================================

---------------------------- MODULE StarknetBlock ----------------------------
(***************************************************************************)
(* How a Starknet block is cut into fragments and indexed                  *)
(* (starknet/src/ingestion.rs), and how the filters a client sends are     *)
(* compiled to the filters of Query (starknet/src/filter).                 *)
(*                                                                         *)
(* A block is                                                              *)
(*   transactions  a sequence of [type, status, events, messages], with    *)
(*                 events a sequence of [from_address, keys] and messages  *)
(*                 of [from_address, to_address];                          *)
(*   traces        the transactions whose traces the node returned;        *)
(*   the state diff: the addresses of storage_diffs and nonces, and how    *)
(*                 many classes were deprecated_declared, declared,        *)
(*                 replaced, and contracts deployed.                       *)
(* A message of a body fragment is what tells it from the others: <<t, n>> *)
(* for event, message or other item n of transaction t, both from 0.       *)
(***************************************************************************)
EXTENDS Query, SequencesExt

CONSTANT Null

TRANSACTION_FRAGMENT_ID == 2
RECEIPT_FRAGMENT_ID == 3
EVENT_FRAGMENT_ID == 4
MESSAGE_FRAGMENT_ID == 5
STORAGE_DIFF_FRAGMENT_ID == 6
CONTRACT_CHANGE_FRAGMENT_ID == 7
NONCE_UPDATE_FRAGMENT_ID == 8
TRACE_FRAGMENT_ID == 9

INDEX_TRANSACTION_BY_STATUS == 0
INDEX_TRANSACTION_BY_TYPE == 1
INDEX_EVENT_BY_ADDRESS == 0
INDEX_EVENT_BY_KEY(k) == k + 1
INDEX_EVENT_BY_KEY_LENGTH == 5
INDEX_EVENT_BY_TRANSACTION_STATUS == 6
INDEX_MESSAGE_BY_FROM_ADDRESS == 0
INDEX_MESSAGE_BY_TO_ADDRESS == 1
INDEX_MESSAGE_BY_TRANSACTION_STATUS == 2
INDEX_STORAGE_DIFF_BY_CONTRACT_ADDRESS == 0
INDEX_CONTRACT_CHANGE_BY_TYPE == 0
INDEX_NONCE_UPDATE_BY_CONTRACT_ADDRESS == 0

TransactionType ==
    [InvokeV0 |-> 0, InvokeV1 |-> 1, InvokeV3 |-> 2, Deploy |-> 3, DeclareV0 |-> 4,
     DeclareV1 |-> 5, DeclareV2 |-> 6, DeclareV3 |-> 7, L1Handler |-> 8,
     DeployAccountV1 |-> 9, DeployAccountV3 |-> 10]

ContractChangeType == [DeclaredClass |-> 0, Deployed |-> 1, Replaced |-> 2]

FragmentInfo == TRANSACTION_FRAGMENT_ID .. TRACE_FRAGMENT_ID

FragmentIdToName ==
    FragmentInfo \cup {HEADER_FRAGMENT_ID, INDEX_FRAGMENT_ID, JOIN_FRAGMENT_ID}

-----------------------------------------------------------------------------
(* The rows of a block.  The rows are made in the order of their indexes,  *)
(* and the sorts that follow leave them as they are.                       *)

TransactionEvents(transactions, t) ==
    [n \in DOMAIN transactions[t].events |->
        [transaction_index |-> t - 1, index_in_transaction |-> n - 1,
         transaction_status |-> transactions[t].status,
         from_address |-> transactions[t].events[n].from_address,
         keys |-> transactions[t].events[n].keys]]

BlockEvents(transactions) ==
    FlattenSeq([t \in DOMAIN transactions |-> TransactionEvents(transactions, t)])

TransactionMessages(transactions, t) ==
    [n \in DOMAIN transactions[t].messages |->
        [transaction_index |-> t - 1, index_in_transaction |-> n - 1,
         transaction_status |-> transactions[t].status,
         from_address |-> transactions[t].messages[n].from_address,
         to_address |-> transactions[t].messages[n].to_address]]

BlockMessages(transactions) ==
    FlattenSeq([t \in DOMAIN transactions |-> TransactionMessages(transactions, t)])

\* The message of a row, and the messages of a fragment.
MessageOf(row) == <<row.transaction_index, row.index_in_transaction>>

BodyFragment(rows) == [r \in DOMAIN rows |-> MessageOf(rows[r])]

TransactionFragment(transactions) == [t \in DOMAIN transactions |-> <<t - 1, 0>>]

ReceiptFragment(transactions) == [t \in DOMAIN transactions |-> <<t - 1, 0>>]

\* The traces are numbered in the order the node returned them.
TraceFragment(traces) == [t \in DOMAIN traces |-> <<traces[t], 0>>]

-----------------------------------------------------------------------------
(* The indexes of a block.                                                 *)

TypeOfTransaction(transaction) == TransactionType[transaction.type]

TransactionIndex(transactions) ==
    LET Pairs(Key(_)) == {<<Key(transactions[t]), t - 1>> : t \in DOMAIN transactions}
    IN  IndexFragment(0, Len(transactions),
            <<IndexOfPosition(INDEX_TRANSACTION_BY_STATUS,
                              BuildBitmapIndex(Pairs(LAMBDA tx : tx.status))),
              IndexOfPosition(INDEX_TRANSACTION_BY_TYPE,
                              BuildBitmapIndex(Pairs(TypeOfTransaction)))>>)

\* Only the first four keys of an event are indexed.
EventPairs(events) ==
    [address |-> {<<events[r].from_address, r - 1>> : r \in DOMAIN events},
     key |-> [k \in 0 .. 3 |-> {<<events[r].keys[k + 1], r - 1>> :
                                   r \in {q \in DOMAIN events : Len(events[q].keys) > k}}],
     keyLength |-> {<<Len(events[r].keys), r - 1>> : r \in DOMAIN events},
     status |-> {<<events[r].transaction_status, r - 1>> : r \in DOMAIN events}]

EventIndex(events) ==
    LET pairs == EventPairs(events)
        ByKey(k) == IndexOfPosition(INDEX_EVENT_BY_KEY(k), BuildBitmapIndex(pairs.key[k]))
    IN  IndexFragment(0, Len(events),
            <<IndexOfPosition(INDEX_EVENT_BY_ADDRESS, BuildBitmapIndex(pairs.address)),
              ByKey(0), ByKey(1), ByKey(2), ByKey(3),
              IndexOfPosition(INDEX_EVENT_BY_KEY_LENGTH, BuildBitmapIndex(pairs.keyLength)),
              IndexOfPosition(INDEX_EVENT_BY_TRANSACTION_STATUS, BuildBitmapIndex(pairs.status))>>)

MessagePairs(messages) ==
    [from |-> {<<messages[r].from_address, r - 1>> : r \in DOMAIN messages},
     to |-> {<<messages[r].to_address, r - 1>> : r \in DOMAIN messages},
     status |-> {<<messages[r].transaction_status, r - 1>> : r \in DOMAIN messages}]

MessageIndex(messages) ==
    LET pairs == MessagePairs(messages)
    IN  IndexFragment(0, Len(messages),
            <<IndexOfPosition(INDEX_MESSAGE_BY_FROM_ADDRESS, BuildBitmapIndex(pairs.from)),
              IndexOfPosition(INDEX_MESSAGE_BY_TO_ADDRESS, BuildBitmapIndex(pairs.to)),
              IndexOfPosition(INDEX_MESSAGE_BY_TRANSACTION_STATUS, BuildBitmapIndex(pairs.status))>>)

\* Receipts and traces are only reached through joins.
ReceiptIndex(transactions) == IndexFragment(0, Len(transactions), <<>>)

TraceIndex(traces) == IndexFragment(0, Len(traces), <<>>)

-----------------------------------------------------------------------------
(* The joins of a block.                                                   *)

\* The rows of one kind and those of another that share a transaction.
SameTransaction(rows, others) ==
    {<<p[1] - 1, p[2] - 1>> :
        p \in {q \in (DOMAIN rows) \X (DOMAIN others) :
                  rows[q[1]].transaction_index = others[q[2]].transaction_index}}

Siblings(rows) == {p \in SameTransaction(rows, rows) : p[1] # p[2]}

TransactionOf(rows) == {<<r - 1, rows[r].transaction_index>> : r \in DOMAIN rows}

TraceOf(rows, traces) == IF traces = <<>> THEN {} ELSE TransactionOf(rows)

TransactionJoin(transactions, events, messages, traces) ==
    (RECEIPT_FRAGMENT_ID :> BuildJoinToOne({<<t - 1, t - 1>> : t \in DOMAIN transactions}))
    @@ (EVENT_FRAGMENT_ID :>
          BuildJoinToMany({<<events[r].transaction_index, r - 1>> : r \in DOMAIN events}))
    @@ (MESSAGE_FRAGMENT_ID :>
          BuildJoinToMany({<<messages[r].transaction_index, r - 1>> : r \in DOMAIN messages}))
    @@ (TRACE_FRAGMENT_ID :> BuildJoinToOne({<<t - 1, t - 1>> : t \in DOMAIN traces}))

EventJoin(events, messages, traces) ==
    (TRANSACTION_FRAGMENT_ID :> BuildJoinToOne(TransactionOf(events)))
    @@ (RECEIPT_FRAGMENT_ID :> BuildJoinToOne(TransactionOf(events)))
    @@ (EVENT_FRAGMENT_ID :> BuildJoinToMany(Siblings(events)))
    @@ (MESSAGE_FRAGMENT_ID :> BuildJoinToMany(SameTransaction(events, messages)))
    @@ (TRACE_FRAGMENT_ID :> BuildJoinToOne(TraceOf(events, traces)))

MessageJoin(events, messages, traces) ==
    (TRANSACTION_FRAGMENT_ID :> BuildJoinToOne(TransactionOf(messages)))
    @@ (RECEIPT_FRAGMENT_ID :> BuildJoinToOne(TransactionOf(messages)))
    @@ (EVENT_FRAGMENT_ID :> BuildJoinToMany(SameTransaction(messages, events)))
    @@ (MESSAGE_FRAGMENT_ID :> BuildJoinToMany(Siblings(messages)))
    @@ (TRACE_FRAGMENT_ID :> BuildJoinToOne(TraceOf(messages, traces)))

-----------------------------------------------------------------------------
(* The state diff, and the whole block.                                    *)

AddressIndex(indexId, addresses) ==
    IndexFragment(0, Len(addresses),
        <<IndexOfPosition(indexId,
              BuildBitmapIndex({<<addresses[r], r - 1>> : r \in DOMAIN addresses}))>>)

Changes(change, section, count) ==
    [n \in 1 .. count |-> [change |-> change, message |-> <<section, n - 1>>]]

ContractChanges(diff) ==
    Changes("DeclaredClass", 0, diff.deprecated_declared_classes)
    \o Changes("DeclaredClass", 1, diff.declared_classes)
    \o Changes("Replaced", 2, diff.replaced_classes)
    \o Changes("Deployed", 3, diff.deployed_contracts)

ContractChangeIndex(changes) ==
    IndexFragment(0, Len(changes),
        <<IndexOfPosition(INDEX_CONTRACT_CHANGE_BY_TYPE,
              BuildBitmapIndex({<<ContractChangeType[changes[r].change], r - 1>> :
                                   r \in DOMAIN changes}))>>)

\* One value for each fragment of the body, and of the state diff.
BodyFragments(transaction, receipt, event, message, trace) ==
    [id \in {TRANSACTION_FRAGMENT_ID, RECEIPT_FRAGMENT_ID, EVENT_FRAGMENT_ID,
             MESSAGE_FRAGMENT_ID, TRACE_FRAGMENT_ID} |->
        CASE id = TRANSACTION_FRAGMENT_ID -> transaction
          [] id = RECEIPT_FRAGMENT_ID -> receipt
          [] id = EVENT_FRAGMENT_ID -> event
          [] id = MESSAGE_FRAGMENT_ID -> message
          [] id = TRACE_FRAGMENT_ID -> trace]

StateFragments(diff, change, nonce) ==
    [id \in {STORAGE_DIFF_FRAGMENT_ID, CONTRACT_CHANGE_FRAGMENT_ID, NONCE_UPDATE_FRAGMENT_ID} |->
        CASE id = STORAGE_DIFF_FRAGMENT_ID -> diff
          [] id = CONTRACT_CHANGE_FRAGMENT_ID -> change
          [] id = NONCE_UPDATE_FRAGMENT_ID -> nonce]

CollectBlockBodyAndIndex(transactions, traces) ==
    LET events == BlockEvents(transactions)
        messages == BlockMessages(transactions)
    IN  [body  |-> BodyFragments(TransactionFragment(transactions), ReceiptFragment(transactions),
                                 BodyFragment(events), BodyFragment(messages),
                                 TraceFragment(traces)),
         index |-> BodyFragments(TransactionIndex(transactions), ReceiptIndex(transactions),
                                 EventIndex(events), MessageIndex(messages), TraceIndex(traces)),
         join  |-> BodyFragments(TransactionJoin(transactions, events, messages, traces), <<>>,
                                 EventJoin(events, messages, traces),
                                 MessageJoin(events, messages, traces), <<>>)]

CollectStateUpdateBodyAndIndex(diff) ==
    LET changes == ContractChanges(diff)
        Numbered(addresses) == [r \in DOMAIN addresses |-> <<r - 1, 0>>]
    IN  [body  |-> StateFragments(Numbered(diff.storage_diffs),
                                  [r \in DOMAIN changes |-> changes[r].message],
                                  Numbered(diff.nonces)),
         index |-> StateFragments(
                       AddressIndex(INDEX_STORAGE_DIFF_BY_CONTRACT_ADDRESS, diff.storage_diffs),
                       ContractChangeIndex(changes),
                       AddressIndex(INDEX_NONCE_UPDATE_BY_CONTRACT_ADDRESS, diff.nonces)),
         join  |-> StateFragments(<<>>, <<>>, <<>>)]

\* The header is one message; a block of the node becomes a stored block.
BlockOf(content) ==
    LET body == CollectBlockBodyAndIndex(content.transactions, content.traces)
        diff == CollectStateUpdateBodyAndIndex(content)
        Both(f, g) == [id \in FragmentInfo |-> IF id \in DOMAIN f THEN f[id] ELSE g[id]]
    IN  [header |-> <<<<0, 0>>>>,
         index  |-> Both(body.index, diff.index),
         join   |-> Both(body.join, diff.join),
         body   |-> Both(body.body, diff.body)]

-----------------------------------------------------------------------------
(* The filters of a client.  A field that is not set is Null; `include' is *)
(* the set of the include flags that are TRUE.                             *)

Cond(indexId, key) == [index_id |-> indexId, key |-> key]

OptionalCondition(indexId, value) == IF value = Null THEN <<>> ELSE <<Cond(indexId, value)>>

StatusIsInvalid(filter) ==
    filter.transaction_status \notin {Null, "Unspecified", "All", "Succeeded", "Reverted"}

\* No status means Succeeded, an unspecified one means any.
StatusCondition(indexId, status) ==
    CASE status \in {Null, "Succeeded"} -> <<Cond(indexId, "Succeeded")>>
      [] status = "Reverted" -> <<Cond(indexId, "Reverted")>>
      [] OTHER -> <<>>

\* The condition on key k of an event; the keys from the fifth on have none.
KeyCondition(keys, k) ==
    IF k < Len(keys) /\ keys[k + 1] # Null THEN <<Cond(INDEX_EVENT_BY_KEY(k), keys[k + 1])>>
    ELSE <<>>

Joins(include, fragmentIds) == {fragmentIds[flag] : flag \in include \cap DOMAIN fragmentIds}

CompileEventFilter(filter) ==
    [filter_id |-> filter.id, fragment_id |-> EVENT_FRAGMENT_ID,
     conditions |->
        OptionalCondition(INDEX_EVENT_BY_ADDRESS, filter.address)
        \o (IF filter.strict THEN <<Cond(INDEX_EVENT_BY_KEY_LENGTH, Len(filter.keys))>> ELSE <<>>)
        \o KeyCondition(filter.keys, 0) \o KeyCondition(filter.keys, 1)
        \o KeyCondition(filter.keys, 2) \o KeyCondition(filter.keys, 3)
        \o StatusCondition(INDEX_EVENT_BY_TRANSACTION_STATUS, filter.transaction_status),
     joins |-> Joins(filter.include,
                     [transaction |-> TRANSACTION_FRAGMENT_ID, receipt |-> RECEIPT_FRAGMENT_ID,
                      messages |-> MESSAGE_FRAGMENT_ID, siblings |-> EVENT_FRAGMENT_ID,
                      trace |-> TRACE_FRAGMENT_ID])]

CompileMessageFilter(filter) ==
    [filter_id |-> filter.id, fragment_id |-> MESSAGE_FRAGMENT_ID,
     conditions |->
        OptionalCondition(INDEX_MESSAGE_BY_FROM_ADDRESS, filter.from_address)
        \o OptionalCondition(INDEX_MESSAGE_BY_TO_ADDRESS, filter.to_address)
        \o StatusCondition(INDEX_MESSAGE_BY_TRANSACTION_STATUS, filter.transaction_status),
     joins |-> Joins(filter.include,
                     [transaction |-> TRANSACTION_FRAGMENT_ID, receipt |-> RECEIPT_FRAGMENT_ID,
                      events |-> EVENT_FRAGMENT_ID, siblings |-> MESSAGE_FRAGMENT_ID,
                      trace |-> TRACE_FRAGMENT_ID])]

CompileTransactionFilter(filter) ==
    [filter_id |-> filter.id, fragment_id |-> TRANSACTION_FRAGMENT_ID,
     conditions |->
        StatusCondition(INDEX_TRANSACTION_BY_STATUS, filter.transaction_status)
        \o (IF filter.inner = Null THEN <<>>
            ELSE <<Cond(INDEX_TRANSACTION_BY_TYPE, TransactionType[filter.inner])>>),
     joins |-> Joins(filter.include,
                     [receipt |-> RECEIPT_FRAGMENT_ID, events |-> EVENT_FRAGMENT_ID,
                      messages |-> MESSAGE_FRAGMENT_ID, trace |-> TRACE_FRAGMENT_ID])]

CompileStorageDiffFilter(filter) ==
    [filter_id |-> filter.id, fragment_id |-> STORAGE_DIFF_FRAGMENT_ID,
     conditions |-> OptionalCondition(INDEX_STORAGE_DIFF_BY_CONTRACT_ADDRESS,
                                      filter.contract_address),
     joins |-> {}]

CompileContractChangeFilter(filter) ==
    [filter_id |-> filter.id, fragment_id |-> CONTRACT_CHANGE_FRAGMENT_ID,
     conditions |-> IF filter.change = Null THEN <<>>
                    ELSE <<Cond(INDEX_CONTRACT_CHANGE_BY_TYPE, ContractChangeType[filter.change])>>,
     joins |-> {}]

CompileNonceUpdateFilter(filter) ==
    [filter_id |-> filter.id, fragment_id |-> NONCE_UPDATE_FRAGMENT_ID,
     conditions |-> OptionalCondition(INDEX_NONCE_UPDATE_BY_CONTRACT_ADDRESS,
                                      filter.contract_address),
     joins |-> {}]

\* A header filter that is not one of the three stands for the default.
CompileToBlockFilter(filter) ==
    [header_filter |-> IF filter.header \in {"always", "onData", "onDataOrOnNewBlock"}
                       THEN filter.header ELSE "onDataOrOnNewBlock",
     filters |-> {CompileTransactionFilter(f) : f \in filter.transactions}
                 \cup {CompileEventFilter(f) : f \in filter.events}
                 \cup {CompileMessageFilter(f) : f \in filter.messages}
                 \cup {CompileStorageDiffFilter(f) : f \in filter.storage_diffs}
                 \cup {CompileContractChangeFilter(f) : f \in filter.contract_changes}
                 \cup {CompileNonceUpdateFilter(f) : f \in filter.nonce_updates}]

CreateBlockFilter(filters) == [i \in DOMAIN filters |-> CompileToBlockFilter(filters[i])]

MaxFilters == 5

CreateBlockFilterFails(filters) ==
    \/ filters = <<>>
    \/ Len(filters) > MaxFilters
    \/ \E i \in DOMAIN filters :
          \E f \in filters[i].transactions \cup filters[i].events \cup filters[i].messages :
              StatusIsInvalid(f)
    \/ ~\E i \in DOMAIN filters : CanProduceData(CompileToBlockFilter(filters[i]))

=============================================================================

----------------------------- MODULE QueryProofs -----------------------------
(***************************************************************************)
(* The index of a group misses no block, for every chain, every request    *)
(* and every size of segments and groups.                                  *)
(***************************************************************************)
EXTENDS StarknetQuery, FiniteSetTheorems, TLAPS

-----------------------------------------------------------------------------
(* Groups of blocks whose indexes are stored at the position of their id.  *)

\* The n indexes of a fragment stand in the order of their ids, from 0.
IsPositional(fragment, n) ==
    /\ DOMAIN fragment.indexes = 1 .. n
    /\ \A p \in 1 .. n : fragment.indexes[p].index_id = p - 1

\* The ids of the indexes found in the blocks are then those below n.
LEMMA IndexIdsAreAnInterval ==
    ASSUME NEW blockSet, NEW id, NEW n \in Nat, blockSet # {},
           \A b \in blockSet : id \in DOMAIN b.data /\ IsPositional(b.data[id], n)
    PROVE  IndexIds(blockSet, id) = 0 .. n - 1
<1>1. ASSUME NEW x \in IndexIds(blockSet, id) PROVE x \in 0 .. n - 1
  <2>1. PICK b \in blockSet : \E p \in DOMAIN b.data[id].indexes :
            x = b.data[id].indexes[p].index_id
    BY <1>1, Zenon DEF IndexIds
  <2>2. PICK p \in 1 .. n : x = p - 1
    BY <2>1, Zenon DEF IsPositional
  <2> QED BY <2>2
<1>2. ASSUME NEW x \in 0 .. n - 1 PROVE x \in IndexIds(blockSet, id)
  <2>1. PICK b \in blockSet : TRUE
    BY Zenon
  <2>2. x + 1 \in DOMAIN b.data[id].indexes /\ b.data[id].indexes[x + 1].index_id = x
    BY <2>1 DEF IsPositional
  <2>3. b \in {c \in blockSet : id \in DOMAIN c.data}
    BY <2>1, Zenon
  <2>4. x \in {b.data[id].indexes[p].index_id : p \in DOMAIN b.data[id].indexes}
    BY <2>2, Zenon
  <2> QED BY <2>3, <2>4, Zenon DEF IndexIds
<1> QED BY <1>1, <1>2, Zenon

\* The index ranked p-th among the ids below n is p - 1.
LEMMA RankedInInterval ==
    ASSUME NEW n \in Nat, NEW p \in 1 .. n
    PROVE  Ranked(0 .. n - 1, p) = p - 1
<1> DEFINE Below(x) == {other \in 0 .. n - 1 : other < x}
<1>1. ASSUME NEW x \in 0 .. n - 1 PROVE Cardinality(Below(x)) = x
  <2>1. Below(x) = 0 .. x - 1
    OBVIOUS
  <2>2. Cardinality(0 .. x - 1) = IF 0 > x - 1 THEN 0 ELSE (x - 1) - 0 + 1
    BY FS_Interval
  <2> HIDE DEF Below
  <2> QED BY <2>1, <2>2
<1>2. p - 1 \in 0 .. n - 1
  OBVIOUS
<1>3. \A x \in 0 .. n - 1 : Cardinality(Below(x)) = p - 1 <=> x = p - 1
  BY <1>1, Zenon
<1>4. Ranked(0 .. n - 1, p) = CHOOSE x \in 0 .. n - 1 : Cardinality(Below(x)) = p - 1
  BY Zenon DEF Ranked
<1> HIDE DEF Below
<1> QED BY <1>2, <1>3, <1>4, Zenon

\* A group has as many indexes of a fragment as its blocks, and the p-th holds
\* the pairs inserted for id p - 1.
LEMMA GroupIndexesArePositional ==
    ASSUME NEW blockSet, NEW id, NEW n \in Nat, blockSet # {},
           \A b \in blockSet : id \in DOMAIN b.data /\ IsPositional(b.data[id], n),
           NEW p \in 1 .. n
    PROVE  /\ p \in DOMAIN GroupIndexes(blockSet, id)
           /\ GroupIndexes(blockSet, id)[p].index = BuildBitmapIndex(GroupPairs(blockSet, id, p - 1))
<1>1. IndexIds(blockSet, id) = 0 .. n - 1
  BY IndexIdsAreAnInterval, Zenon
<1>2. Cardinality(IndexIds(blockSet, id)) = n
  BY <1>1, FS_Interval
<1>3. Ranked(IndexIds(blockSet, id), p) = p - 1
  BY <1>1, RankedInInterval, Zenon
<1>4. GroupIndexes(blockSet, id)
      = [q \in 1 .. n |-> IndexOfPosition(Ranked(IndexIds(blockSet, id), q),
            BuildBitmapIndex(GroupPairs(blockSet, id, Ranked(IndexIds(blockSet, id), q))))]
  BY <1>2, Zenon DEF GroupIndexes
<1>5. GroupIndexes(blockSet, id)[p]
      = IndexOfPosition(p - 1, BuildBitmapIndex(GroupPairs(blockSet, id, p - 1)))
  BY <1>3, <1>4, Zenon
<1> QED BY <1>4, <1>5 DEF IndexOfPosition

\* A condition that a row of a block meets is met by the block in its group.
LEMMA GroupMeetsCondition ==
    ASSUME NEW blockSet, NEW id, NEW n \in Nat,
           \A b \in blockSet : id \in DOMAIN b.data /\ IsPositional(b.data[id], n),
           NEW block \in blockSet, NEW cond, cond.index_id \in 0 .. n - 1,
           NEW row, row \in RowsOfCondition(cond, block.data[id])
    PROVE  block.cursor \in GetBitmap(GroupIndexes(blockSet, id)[cond.index_id + 1].index, cond.key)
<1> DEFINE p == cond.index_id + 1
           pairs == GroupPairs(blockSet, id, cond.index_id)
<1>1. p \in 1 .. n /\ p - 1 = cond.index_id
  OBVIOUS
<1>2. p \in DOMAIN block.data[id].indexes /\ block.data[id].indexes[p].index_id = cond.index_id
  BY <1>1, Zenon DEF IsPositional
<1>3. cond.key \in DOMAIN block.data[id].indexes[p].index
  BY Zenon DEF RowsOfCondition, GetBitmap
<1>4. <<cond.key, block.cursor>> \in pairs
  <2>1. block \in {b \in blockSet : id \in DOMAIN b.data}
    BY Zenon
  <2>2. p \in {q \in DOMAIN block.data[id].indexes :
                  block.data[id].indexes[q].index_id = cond.index_id}
    BY <1>2, Zenon
  <2>3. <<cond.key, block.cursor>>
        \in {<<key, block.cursor>> : key \in DOMAIN block.data[id].indexes[p].index}
    BY <1>3, Zenon
  <2>4. <<cond.key, block.cursor>>
        \in UNION {{<<key, block.cursor>> : key \in DOMAIN block.data[id].indexes[q].index} :
                      q \in {q \in DOMAIN block.data[id].indexes :
                                block.data[id].indexes[q].index_id = cond.index_id}}
    BY <2>2, <2>3, Zenon
  <2> DEFINE PairsOf(b) ==
               UNION {{<<key, b.cursor>> : key \in DOMAIN b.data[id].indexes[q].index} :
                         q \in {q \in DOMAIN b.data[id].indexes :
                                   b.data[id].indexes[q].index_id = cond.index_id}}
  <2>5. pairs = UNION {PairsOf(b) : b \in {b \in blockSet : id \in DOMAIN b.data}}
    BY Zenon DEF GroupPairs
  <2>6. <<cond.key, block.cursor>> \in PairsOf(block)
    BY <2>4, Zenon
  <2> HIDE DEF p, pairs, PairsOf
  <2> QED BY <2>1, <2>5, <2>6, Zenon
<1>5. GroupIndexes(blockSet, id)[p].index = BuildBitmapIndex(pairs)
  BY <1>1, GroupIndexesArePositional
<1>6. block.cursor \in GetBitmap(BuildBitmapIndex(pairs), cond.key)
  <2> HIDE DEF pairs
  <2>1. cond.key \in {q[1] : q \in pairs}
    BY <1>4
  <2>2. block.cursor \in {q[2] : q \in {r \in pairs : r[1] = cond.key}}
    BY <1>4
  <2> QED BY <2>1, <2>2, Zenon DEF GetBitmap, BuildBitmapIndex
<1> QED BY <1>5, <1>6, Zenon

-----------------------------------------------------------------------------
(* The indexes of a block are positional.                                  *)

\* How many indexes the fragments of a block have.
IndexCount(id) == <<2, 0, 7, 3, 1, 1, 1, 0>>[id - 1]

LEMMA BlockIndexesArePositional ==
    ASSUME NEW c
    PROVE  /\ DOMAIN BlockOf(c).index = FragmentInfo
           /\ \A id \in FragmentInfo : /\ IndexCount(id) \in Nat
                                       /\ IsPositional(BlockOf(c).index[id], IndexCount(id))
<1> DEFINE events == BlockEvents(c.transactions)
           messages == BlockMessages(c.transactions)
           body == BodyFragments(TransactionIndex(c.transactions), ReceiptIndex(c.transactions),
                                 EventIndex(events), MessageIndex(messages), TraceIndex(c.traces))
           diff == StateFragments(AddressIndex(0, c.storage_diffs),
                                  ContractChangeIndex(ContractChanges(c)), AddressIndex(0, c.nonces))
           f == BlockOf(c).index
<1>1. /\ DOMAIN f = 2 .. 9
      /\ f[2] = TransactionIndex(c.transactions) /\ f[3] = ReceiptIndex(c.transactions)
      /\ f[4] = EventIndex(events) /\ f[5] = MessageIndex(messages)
      /\ f[6] = AddressIndex(0, c.storage_diffs)
      /\ f[7] = ContractChangeIndex(ContractChanges(c))
      /\ f[8] = AddressIndex(0, c.nonces) /\ f[9] = TraceIndex(c.traces)
  <2> USE DEF TRANSACTION_FRAGMENT_ID, RECEIPT_FRAGMENT_ID, EVENT_FRAGMENT_ID, MESSAGE_FRAGMENT_ID,
              STORAGE_DIFF_FRAGMENT_ID, CONTRACT_CHANGE_FRAGMENT_ID, NONCE_UPDATE_FRAGMENT_ID,
              TRACE_FRAGMENT_ID
  <2>1. f = [id \in 2 .. 9 |-> IF id \in DOMAIN body THEN body[id] ELSE diff[id]]
    BY Zenon DEF BlockOf, CollectBlockBodyAndIndex, CollectStateUpdateBodyAndIndex, FragmentInfo,
           INDEX_STORAGE_DIFF_BY_CONTRACT_ADDRESS, INDEX_NONCE_UPDATE_BY_CONTRACT_ADDRESS
  <2>2. /\ DOMAIN body = {2, 3, 4, 5, 9}
        /\ body[2] = TransactionIndex(c.transactions) /\ body[3] = ReceiptIndex(c.transactions)
        /\ body[4] = EventIndex(events) /\ body[5] = MessageIndex(messages)
        /\ body[9] = TraceIndex(c.traces)
    BY DEF BodyFragments
  <2>3. /\ diff[6] = AddressIndex(0, c.storage_diffs)
        /\ diff[7] = ContractChangeIndex(ContractChanges(c)) /\ diff[8] = AddressIndex(0, c.nonces)
    BY DEF StateFragments
  <2> HIDE DEF f, body, diff, events, messages
  <2>4. \A id \in {2, 3, 4, 5, 9} : f[id] = body[id]
    BY <2>1, <2>2
  <2>5. \A id \in {6, 7, 8} : f[id] = diff[id]
    BY <2>1, <2>2
  <2> QED BY <2>1, <2>2, <2>3, <2>4, <2>5, Zenon
<1> HIDE DEF f, events, messages
<1>2. IsPositional(f[2], 2)
  <2>1. /\ DOMAIN TransactionIndex(c.transactions).indexes = 1 .. 2
        /\ TransactionIndex(c.transactions).indexes[1].index_id = 0
        /\ TransactionIndex(c.transactions).indexes[2].index_id = 1
    BY DEF TransactionIndex, IndexFragment, IndexOfPosition,
           INDEX_TRANSACTION_BY_STATUS, INDEX_TRANSACTION_BY_TYPE
  <2> QED BY <1>1, <2>1 DEF IsPositional
<1>3. IsPositional(f[3], 0) /\ IsPositional(f[9], 0)
  BY <1>1 DEF IsPositional, ReceiptIndex, TraceIndex, IndexFragment
<1>4. IsPositional(f[4], 7)
  BY <1>1 DEF IsPositional, EventIndex, IndexFragment, IndexOfPosition, INDEX_EVENT_BY_ADDRESS,
              INDEX_EVENT_BY_KEY, INDEX_EVENT_BY_KEY_LENGTH, INDEX_EVENT_BY_TRANSACTION_STATUS
<1>5. IsPositional(f[5], 3)
  BY <1>1 DEF IsPositional, MessageIndex, IndexFragment, IndexOfPosition,
              INDEX_MESSAGE_BY_FROM_ADDRESS, INDEX_MESSAGE_BY_TO_ADDRESS,
              INDEX_MESSAGE_BY_TRANSACTION_STATUS
<1>6. IsPositional(f[6], 1) /\ IsPositional(f[8], 1)
  BY <1>1 DEF IsPositional, AddressIndex, IndexFragment, IndexOfPosition
<1>7. IsPositional(f[7], 1)
  BY <1>1 DEF IsPositional, ContractChangeIndex, IndexFragment, IndexOfPosition,
              INDEX_CONTRACT_CHANGE_BY_TYPE
<1>8. FragmentInfo = 2 .. 9
  BY Zenon DEF FragmentInfo, TRANSACTION_FRAGMENT_ID, TRACE_FRAGMENT_ID
<1>9. ASSUME NEW id \in 2 .. 9 PROVE IndexCount(id) \in Nat /\ IsPositional(f[id], IndexCount(id))
  <2>1. \/ id = 2 \/ id = 3 \/ id = 4 \/ id = 5 \/ id = 6 \/ id = 7 \/ id = 8 \/ id = 9
    OBVIOUS
  <2>2. /\ IndexCount(2) = 2 /\ IndexCount(3) = 0 /\ IndexCount(4) = 7 /\ IndexCount(5) = 3
        /\ IndexCount(6) = 1 /\ IndexCount(7) = 1 /\ IndexCount(8) = 1 /\ IndexCount(9) = 0
    BY DEF IndexCount
  <2> QED BY <2>1, <2>2, <1>2, <1>3, <1>4, <1>5, <1>6, <1>7
<1> QED BY <1>1, <1>8, <1>9, Zenon DEF f

-----------------------------------------------------------------------------
(* The conditions of a compiled filter name indexes that exist.            *)

Conditions(n, keys) == Seq([index_id : 0 .. n - 1, key : keys])

\* A filter only names indexes its fragment has.
IsCompiled(filter) ==
    /\ filter.fragment_id \in FragmentInfo
    /\ \A i \in DOMAIN filter.conditions :
          filter.conditions[i].index_id \in 0 .. IndexCount(filter.fragment_id) - 1

LEMMA ElementOfSequence ==
    ASSUME NEW S, NEW s \in Seq(S), NEW i \in DOMAIN s
    PROVE  s[i] \in S
  OBVIOUS

LEMMA ConditionsAreCompiled ==
    ASSUME NEW n \in Nat, NEW keys, NEW filter, filter.fragment_id \in FragmentInfo,
           IndexCount(filter.fragment_id) = n, filter.conditions \in Conditions(n, keys)
    PROVE  IsCompiled(filter)
<1> SUFFICES ASSUME NEW i \in DOMAIN filter.conditions
             PROVE  filter.conditions[i].index_id \in 0 .. n - 1
  BY Zenon DEF IsCompiled
<1>1. filter.conditions[i] \in [index_id : 0 .. n - 1, key : keys]
  BY ElementOfSequence, Zenon DEF Conditions
<1> QED BY <1>1, Zenon

LEMMA OneCondition ==
    ASSUME NEW n \in Nat, NEW keys, NEW i \in 0 .. n - 1, NEW key \in keys
    PROVE  <<Cond(i, key)>> \in Conditions(n, keys)
  BY DEF Cond, Conditions

LEMMA NoCondition ==
    ASSUME NEW n \in Nat, NEW keys
    PROVE  <<>> \in Conditions(n, keys)
  BY DEF Conditions

LEMMA MoreConditions ==
    ASSUME NEW n \in Nat, NEW keys, NEW s \in Conditions(n, keys), NEW t \in Conditions(n, keys)
    PROVE  s \o t \in Conditions(n, keys)
  BY DEF Conditions

LEMMA OptionalConditionIsOne ==
    ASSUME NEW n \in Nat, NEW keys, NEW i \in 0 .. n - 1, NEW value \in keys
    PROVE  OptionalCondition(i, value) \in Conditions(n, keys)
  BY OneCondition, NoCondition, Zenon DEF OptionalCondition

LEMMA StatusConditionIsOne ==
    ASSUME NEW n \in Nat, NEW keys, NEW i \in 0 .. n - 1, NEW status,
           "Succeeded" \in keys, "Reverted" \in keys
    PROVE  StatusCondition(i, status) \in Conditions(n, keys)
  BY OneCondition, NoCondition, Zenon DEF StatusCondition

LEMMA KeyConditionIsOne ==
    ASSUME NEW keys, NEW filterKeys, NEW k \in 0 .. 3, filterKeys[k + 1] \in keys
    PROVE  KeyCondition(filterKeys, k) \in Conditions(7, keys)
<1>1. INDEX_EVENT_BY_KEY(k) \in 0 .. 7 - 1
  BY DEF INDEX_EVENT_BY_KEY
<1> QED BY <1>1, OneCondition, NoCondition, Zenon DEF KeyCondition

LEMMA EventFilterIsCompiled ==
    ASSUME NEW filter
    PROVE  IsCompiled(CompileEventFilter(filter))
<1> DEFINE fk == filter.keys
           keys == {filter.address, Len(fk), fk[1], fk[2], fk[3], fk[4], "Succeeded", "Reverted"}
           address == OptionalCondition(INDEX_EVENT_BY_ADDRESS, filter.address)
           strict == IF filter.strict THEN <<Cond(INDEX_EVENT_BY_KEY_LENGTH, Len(fk))>> ELSE <<>>
           status == StatusCondition(INDEX_EVENT_BY_TRANSACTION_STATUS, filter.transaction_status)
<1> HIDE DEF keys
<1>1. address \in Conditions(7, keys)
  BY OptionalConditionIsOne DEF keys, INDEX_EVENT_BY_ADDRESS
<1>2. strict \in Conditions(7, keys)
  <2>1. Len(fk) \in keys /\ INDEX_EVENT_BY_KEY_LENGTH \in 0 .. 7 - 1
    BY DEF keys, INDEX_EVENT_BY_KEY_LENGTH
  <2>2. <<Cond(INDEX_EVENT_BY_KEY_LENGTH, Len(fk))>> \in Conditions(7, keys)
    BY <2>1, OneCondition, Zenon
  <2> QED BY <2>2, NoCondition, Zenon
<1>3. \A k \in 0 .. 3 : KeyCondition(fk, k) \in Conditions(7, keys)
  <2>1. \A k \in 0 .. 3 : fk[k + 1] \in keys
    BY DEF keys
  <2> QED BY <2>1, KeyConditionIsOne, Zenon
<1>4. status \in Conditions(7, keys)
  BY StatusConditionIsOne DEF keys, INDEX_EVENT_BY_TRANSACTION_STATUS
<1> HIDE DEF fk, address, strict, status
<1>5. address \o strict \o KeyCondition(fk, 0) \o KeyCondition(fk, 1) \o KeyCondition(fk, 2)
      \o KeyCondition(fk, 3) \o status \in Conditions(7, keys)
  BY <1>1, <1>2, <1>3, <1>4, MoreConditions
<1>6. /\ CompileEventFilter(filter).fragment_id = 4
      /\ CompileEventFilter(filter).conditions
         = address \o strict \o KeyCondition(fk, 0) \o KeyCondition(fk, 1) \o KeyCondition(fk, 2)
           \o KeyCondition(fk, 3) \o status
  BY Zenon DEF CompileEventFilter, EVENT_FRAGMENT_ID, fk, address, strict, status
<1>7. 4 \in FragmentInfo /\ IndexCount(4) = 7
  BY DEF FragmentInfo, TRANSACTION_FRAGMENT_ID, TRACE_FRAGMENT_ID, IndexCount
<1> QED BY <1>5, <1>6, <1>7, ConditionsAreCompiled, Zenon

LEMMA MessageFilterIsCompiled ==
    ASSUME NEW filter
    PROVE  IsCompiled(CompileMessageFilter(filter))
<1> DEFINE keys == {filter.from_address, filter.to_address, "Succeeded", "Reverted"}
           from == OptionalCondition(INDEX_MESSAGE_BY_FROM_ADDRESS, filter.from_address)
           to == OptionalCondition(INDEX_MESSAGE_BY_TO_ADDRESS, filter.to_address)
           status == StatusCondition(INDEX_MESSAGE_BY_TRANSACTION_STATUS, filter.transaction_status)
<1> HIDE DEF keys
<1>1. from \in Conditions(3, keys) /\ to \in Conditions(3, keys)
  <2>1. /\ INDEX_MESSAGE_BY_FROM_ADDRESS \in 0 .. 3 - 1 /\ INDEX_MESSAGE_BY_TO_ADDRESS \in 0 .. 3 - 1
        /\ 3 \in Nat
    BY DEF INDEX_MESSAGE_BY_FROM_ADDRESS, INDEX_MESSAGE_BY_TO_ADDRESS
  <2>2. filter.from_address \in keys /\ filter.to_address \in keys
    BY Zenon DEF keys
  <2> QED BY <2>1, <2>2, OptionalConditionIsOne, Zenon
<1>2. status \in Conditions(3, keys)
  BY StatusConditionIsOne DEF keys, INDEX_MESSAGE_BY_TRANSACTION_STATUS
<1> HIDE DEF from, to, status
<1>3. from \o to \o status \in Conditions(3, keys)
  BY <1>1, <1>2, MoreConditions, Zenon
<1>4. /\ CompileMessageFilter(filter).fragment_id = 5
      /\ CompileMessageFilter(filter).conditions = from \o to \o status
  BY Zenon DEF CompileMessageFilter, MESSAGE_FRAGMENT_ID, from, to, status
<1>5. 5 \in FragmentInfo /\ IndexCount(5) = 3
  BY DEF FragmentInfo, TRANSACTION_FRAGMENT_ID, TRACE_FRAGMENT_ID, IndexCount
<1> QED BY <1>3, <1>4, <1>5, ConditionsAreCompiled, Zenon

LEMMA TransactionFilterIsCompiled ==
    ASSUME NEW filter
    PROVE  IsCompiled(CompileTransactionFilter(filter))
<1> DEFINE keys == {TransactionType[filter.inner], "Succeeded", "Reverted"}
           status == StatusCondition(INDEX_TRANSACTION_BY_STATUS, filter.transaction_status)
           inner == IF filter.inner = Null THEN <<>>
                    ELSE <<Cond(INDEX_TRANSACTION_BY_TYPE, TransactionType[filter.inner])>>
<1> HIDE DEF keys
<1>1. status \in Conditions(2, keys)
  BY StatusConditionIsOne DEF keys, INDEX_TRANSACTION_BY_STATUS
<1>2. inner \in Conditions(2, keys)
  <2>1. TransactionType[filter.inner] \in keys /\ INDEX_TRANSACTION_BY_TYPE \in 0 .. 2 - 1
    BY DEF keys, INDEX_TRANSACTION_BY_TYPE
  <2>2. <<Cond(INDEX_TRANSACTION_BY_TYPE, TransactionType[filter.inner])>> \in Conditions(2, keys)
    BY <2>1, OneCondition, Zenon
  <2> QED BY <2>2, NoCondition, Zenon
<1> HIDE DEF status, inner
<1>3. status \o inner \in Conditions(2, keys)
  BY <1>1, <1>2, MoreConditions, Zenon
<1>4. /\ CompileTransactionFilter(filter).fragment_id = 2
      /\ CompileTransactionFilter(filter).conditions = status \o inner
  BY Zenon DEF CompileTransactionFilter, TRANSACTION_FRAGMENT_ID, status, inner
<1>5. 2 \in FragmentInfo /\ IndexCount(2) = 2
  BY DEF FragmentInfo, TRANSACTION_FRAGMENT_ID, TRACE_FRAGMENT_ID, IndexCount
<1> QED BY <1>3, <1>4, <1>5, ConditionsAreCompiled, Zenon


LEMMA StateFiltersAreCompiled ==
    ASSUME NEW filter
    PROVE  /\ IsCompiled(CompileStorageDiffFilter(filter))
           /\ IsCompiled(CompileContractChangeFilter(filter))
           /\ IsCompiled(CompileNonceUpdateFilter(filter))
<1> DEFINE keys == {filter.contract_address, ContractChangeType[filter.change]}
           address == OptionalCondition(0, filter.contract_address)
           change == IF filter.change = Null THEN <<>>
                     ELSE <<Cond(0, ContractChangeType[filter.change])>>
<1> HIDE DEF keys
<1>1. address \in Conditions(1, keys)
  BY OptionalConditionIsOne DEF keys
<1>2. change \in Conditions(1, keys)
  <2>1. ContractChangeType[filter.change] \in keys
    BY Zenon DEF keys
  <2>2. <<Cond(0, ContractChangeType[filter.change])>> \in Conditions(1, keys)
    BY <2>1, OneCondition
  <2> QED BY <2>2, NoCondition, Zenon
<1> HIDE DEF address, change
<1>3. /\ CompileStorageDiffFilter(filter).fragment_id = 6
      /\ CompileStorageDiffFilter(filter).conditions = address
      /\ CompileContractChangeFilter(filter).fragment_id = 7
      /\ CompileContractChangeFilter(filter).conditions = change
      /\ CompileNonceUpdateFilter(filter).fragment_id = 8
      /\ CompileNonceUpdateFilter(filter).conditions = address
  BY Zenon DEF CompileStorageDiffFilter, CompileContractChangeFilter, CompileNonceUpdateFilter,
         STORAGE_DIFF_FRAGMENT_ID, CONTRACT_CHANGE_FRAGMENT_ID, NONCE_UPDATE_FRAGMENT_ID,
         INDEX_STORAGE_DIFF_BY_CONTRACT_ADDRESS, INDEX_CONTRACT_CHANGE_BY_TYPE,
         INDEX_NONCE_UPDATE_BY_CONTRACT_ADDRESS, address, change
<1>4. \A id \in 6 .. 8 : id \in FragmentInfo /\ IndexCount(id) = 1
  BY DEF FragmentInfo, TRANSACTION_FRAGMENT_ID, TRACE_FRAGMENT_ID, IndexCount
<1> QED BY <1>1, <1>2, <1>3, <1>4, ConditionsAreCompiled

LEMMA FiltersAreCompiled ==
    ASSUME NEW filters, NEW i \in DOMAIN CreateBlockFilter(filters),
           NEW filter \in CreateBlockFilter(filters)[i].filters
    PROVE  IsCompiled(filter)
<1>1. CreateBlockFilter(filters)[i] = CompileToBlockFilter(filters[i])
  BY Zenon DEF CreateBlockFilter
<1>2. \E f : \/ filter = CompileTransactionFilter(f) \/ filter = CompileEventFilter(f)
             \/ filter = CompileMessageFilter(f) \/ filter = CompileStorageDiffFilter(f)
             \/ filter = CompileContractChangeFilter(f) \/ filter = CompileNonceUpdateFilter(f)
  BY <1>1 DEF CompileToBlockFilter
<1> QED BY <1>2, TransactionFilterIsCompiled, EventFilterIsCompiled, MessageFilterIsCompiled,
           StateFiltersAreCompiled, Zenon

-----------------------------------------------------------------------------
(* What is stored, as a function of the chain.                             *)

\* The block that starts segment s, counted from 1.
FirstOf(s) == (s - 1) * SegmentSize + 1

\* Segment s of the chain.
SegmentAt(s) ==
    SegmentData(NumberOf(FirstOf(s)),
                [i \in 1 .. SegmentSize |-> [cursor |-> NumberOf((FirstOf(s) + i) - 1),
                                             block |-> BlockOf(content[(FirstOf(s) + i) - 1])]])

\* The blocks and the segments stored are those of the chain, and the group is
\* built from all the segments.
StoredInv ==
    /\ content \in Content
    /\ blocks \in Seq({BlockOf(content[i]) : i \in Nat})
    /\ Len(blocks) <= Len(content)
    /\ \A i \in 1 .. Len(blocks) : blocks[i] = BlockOf(content[i])
    /\ segments \in Seq({SegmentAt(s) : s \in Nat})
    /\ Len(segments) * SegmentSize <= Len(blocks)
    /\ \A s \in 1 .. Len(segments) : segments[s] = SegmentAt(s)
    /\ group # Null => Len(segments) = GroupSize /\ group = BuildGroup(segments, SegmentSize)
    /\ blockFilters \in {Null, <<>>, CreateBlockFilter(request)}

LEMMA InitIsStored == QueryInit => StoredInv
<1> SUFFICES ASSUME QueryInit PROVE StoredInv
  BY Zenon
<1>1. Len(content) \in Nat
  BY QueryAssumption DEF QueryInit
<1> QED BY <1>1, QueryAssumption DEF QueryInit, StoredInv

LEMMA IngestKeepsStored == StoredInv /\ IngestBlock => StoredInv'
<1> SUFFICES ASSUME StoredInv, IngestBlock PROVE StoredInv'
  BY Zenon
<1> DEFINE B == {BlockOf(content[i]) : i \in Nat}
           new == BlockOf(content[Len(blocks) + 1])
<1>1. blocks \in Seq(B) /\ Len(blocks) \in Nat /\ new \in B
  BY DEF StoredInv
<1>2. Len(content) \in Nat
  BY QueryAssumption DEF StoredInv
<1>3. blocks' = Append(blocks, new) /\ content' = content /\ segments' = segments
  BY Zenon DEF IngestBlock
<1> HIDE DEF B, new
<1>4. blocks' \in Seq(B) /\ Len(blocks') = Len(blocks) + 1 /\ blocks'[Len(blocks) + 1] = new
  BY <1>1, <1>3
<1>5. \A i \in 1 .. Len(blocks) : blocks'[i] = blocks[i]
  BY <1>1, <1>3
<1>6. \A i \in 1 .. Len(blocks') : blocks'[i] = BlockOf(content[i])
  <2> SUFFICES ASSUME NEW i \in 1 .. Len(blocks) + 1 PROVE blocks'[i] = BlockOf(content[i])
    BY <1>4, Zenon
  <2>1. CASE i \in 1 .. Len(blocks)
    BY <1>5, <2>1, Zenon DEF StoredInv
  <2>2. CASE i = Len(blocks) + 1
    BY <1>4, <2>2, Zenon DEF new
  <2> QED BY <1>1, <2>1, <2>2
<1>7. Len(segments) * SegmentSize \in Int
  BY QueryAssumption DEF StoredInv
<1>8. Len(segments) * SegmentSize <= Len(blocks') /\ Len(blocks') <= Len(content)
  BY <1>1, <1>2, <1>4, <1>7 DEF StoredInv, IngestBlock
<1>9. \A s : SegmentAt(s)' = SegmentAt(s)
  BY <1>3, Zenon DEF SegmentAt
<1>10. UNCHANGED <<group, blockFilters, request>>
  BY Zenon DEF IngestBlock
<1> QED BY <1>3, <1>4, <1>6, <1>8, <1>9, <1>10, Zenon DEF StoredInv, B

LEMMA CompactSegmentKeepsStored == StoredInv /\ CompactSegment => StoredInv'
<1> SUFFICES ASSUME StoredInv, CompactSegment PROVE StoredInv'
  BY Zenon
<1> DEFINE n == Len(segments)
           first == n * SegmentSize + 1
           added == [i \in 1 .. SegmentSize |->
                        [cursor |-> NumberOf((first + i) - 1), block |-> blocks[(first + i) - 1]]]
           S == {SegmentAt(s) : s \in Nat}
<1>1. n \in Nat /\ segments \in Seq(S) /\ n * SegmentSize \in Nat /\ Len(blocks) \in Nat
      /\ SegmentSize \in Nat /\ Len(content) = SegmentSize * GroupSize /\ GroupSize \in Nat
  BY QueryAssumption DEF StoredInv
<1>2. FirstOf(n + 1) = first /\ (n + 1) * SegmentSize = (first + SegmentSize) - 1
  BY <1>1 DEF FirstOf
<1>3. UNCHANGED <<content, blocks, group, request, blockFilters>>
  BY Zenon DEF CompactSegment
<1>4. Len(blocks) >= (first + SegmentSize) - 1 /\ first <= Len(content)
  BY Zenon DEF CompactSegment
<1>5. \A i \in 1 .. SegmentSize : blocks[(first + i) - 1] = BlockOf(content[(first + i) - 1])
  <2> SUFFICES ASSUME NEW i \in 1 .. SegmentSize
               PROVE  blocks[(first + i) - 1] = BlockOf(content[(first + i) - 1])
    BY Zenon
  <2>1. (first + i) - 1 \in 1 .. Len(blocks)
    BY <1>1, <1>4
  <2> HIDE DEF first
  <2> QED BY <2>1, Zenon DEF StoredInv
<1>6. added = [i \in 1 .. SegmentSize |->
                  [cursor |-> NumberOf((first + i) - 1), block |-> BlockOf(content[(first + i) - 1])]]
  <2> HIDE DEF first
  <2> QED BY <1>5, Zenon
<1>7. SegmentData(NumberOf(first), added) = SegmentAt(n + 1)
  <2> HIDE DEF first, added
  <2> QED BY <1>2, <1>6, Zenon DEF SegmentAt
<1>8. \A s : SegmentAt(s)' = SegmentAt(s)
  BY <1>3, Zenon DEF SegmentAt
<1>9. group = Null
  <2> SUFFICES ASSUME n = GroupSize PROVE FALSE
    BY Zenon DEF StoredInv
  <2>1. GroupSize * SegmentSize = SegmentSize * GroupSize
    BY <1>1
  <2>2. n * SegmentSize = Len(content)
    BY <1>1, <2>1, Zenon
  <2> QED BY <1>1, <1>4, <2>2
<1>10. CASE segments' = segments
  BY <1>3, <1>8, <1>10, Zenon DEF StoredInv
<1>11. CASE segments' = Append(segments, SegmentAt(n + 1))
  <2>1. SegmentAt(n + 1) \in S
    BY <1>1
  <2> HIDE DEF S
  <2>2. /\ segments' \in Seq(S) /\ Len(segments') = n + 1
        /\ segments'[n + 1] = SegmentAt(n + 1)
        /\ \A s \in 1 .. n : segments'[s] = segments[s]
    BY <1>1, <1>11, <2>1
  <2>3. ASSUME NEW s \in 1 .. n + 1 PROVE segments'[s] = SegmentAt(s)
    <3>1. CASE s \in 1 .. n
      BY <2>2, <3>1, Zenon DEF StoredInv
    <3>2. CASE s = n + 1
      BY <2>2, <3>2, Zenon
    <3> QED BY <1>1, <3>1, <3>2
  <2>4. Len(segments') * SegmentSize <= Len(blocks)
    BY <1>2, <1>4, <2>2, Zenon
  <2> HIDE DEF n
  <2> QED BY <1>3, <1>8, <1>9, <2>2, <2>3, <2>4, Zenon DEF StoredInv, S
<1> QED BY <1>7, <1>10, <1>11, Zenon DEF CompactSegment

LEMMA NextKeepsStored == StoredInv /\ [QueryNext]_queryVars => StoredInv'
<1> SUFFICES ASSUME StoredInv, [QueryNext]_queryVars PROVE StoredInv'
  BY Zenon
<1>1. ASSUME UNCHANGED <<content, blocks, segments>> PROVE \A s : SegmentAt(s)' = SegmentAt(s)
  BY <1>1, Zenon DEF SegmentAt
<1>2. ASSUME UNCHANGED <<content, blocks, segments, group, request, blockFilters>> PROVE StoredInv'
  BY <1>1, <1>2, Zenon DEF StoredInv
<1>3. CASE CompactGroup
  <2>1. Len(segments) = GroupSize /\ group' = BuildGroup(segments, SegmentSize)
        /\ UNCHANGED <<content, blocks, segments, request, blockFilters>>
    BY <1>3, Zenon DEF CompactGroup
  <2> QED BY <1>1, <2>1, Zenon DEF StoredInv
<1>4. CASE CompileRequest
  <2>1. /\ UNCHANGED <<content, blocks, segments, group, request>>
        /\ blockFilters' \in {Null, <<>>, CreateBlockFilter(request)}
    BY <1>4, Zenon DEF CompileRequest
  <2> QED BY <1>1, <2>1, Zenon DEF StoredInv
<1>5. CASE AnswerFromBlock
  BY <1>2, <1>5, Zenon DEF AnswerFromBlock, Answer
<1>6. CASE AnswerFromSegment
  BY <1>2, <1>6, Zenon DEF AnswerFromSegment, Answer
<1>7. CASE AnswerFromGroup
  BY <1>2, <1>7, Zenon DEF AnswerFromGroup, Answer
<1>8. CASE UNCHANGED queryVars
  BY <1>2, <1>8, Zenon DEF queryVars
<1> QED BY <1>3, <1>4, <1>5, <1>6, <1>7, <1>8, IngestKeepsStored, CompactSegmentKeepsStored,
           Zenon
        DEF QueryNext

-----------------------------------------------------------------------------
(* The group index.                                                        *)

\* What the segments hold of the index of block n.
IndexOf(n) == [cursor |-> NumberOf(n), data |-> BlockOf(content[n]).index]

\* Every block of a group is in one of its segments.
LEMMA BlockIsInSegment ==
    ASSUME NEW n \in Nat, 1 <= n, n <= SegmentSize * GroupSize
    PROVE  \E s \in 1 .. GroupSize, i \in 1 .. SegmentSize : n = (FirstOf(s) + i) - 1
<1> DEFINE q == (n - 1) \div SegmentSize
           r == (n - 1) % SegmentSize
<1>1. SegmentSize \in Nat /\ SegmentSize > 0 /\ GroupSize \in Nat
  BY QueryAssumption
<1>2. q \in Nat /\ r \in 0 .. SegmentSize - 1 /\ n - 1 = SegmentSize * q + r
  BY <1>1
<1> HIDE DEF q, r
<1>3. q < GroupSize
  <2> SUFFICES ASSUME q >= GroupSize PROVE FALSE
    BY <1>1, <1>2
  <2>1. SegmentSize * q >= SegmentSize * GroupSize
    BY <1>1, <1>2
  <2> QED BY <1>1, <1>2, <2>1
<1>4. q + 1 \in 1 .. GroupSize /\ r + 1 \in 1 .. SegmentSize
  BY <1>1, <1>2, <1>3
<1>5. FirstOf(q + 1) = q * SegmentSize + 1
  BY <1>2 DEF FirstOf
<1>6. n = (FirstOf(q + 1) + (r + 1)) - 1
  BY <1>1, <1>2, <1>5
<1> QED BY <1>4, <1>6, Zenon

\* The blocks of the segments of a group are the blocks of the chain.
LEMMA BlocksOfGroup ==
    ASSUME StoredInv, Len(segments) = GroupSize
    PROVE  /\ \A b \in BlocksOf(segments) : \E n \in Nat : b = IndexOf(n)
           /\ \A n \in 1 .. SegmentSize * GroupSize : IndexOf(n) \in BlocksOf(segments)
<1>1. SegmentSize \in Nat /\ SegmentSize > 0 /\ GroupSize \in Nat
  BY QueryAssumption
<1>2. DOMAIN segments = 1 .. GroupSize
  BY DEF StoredInv
<1>3. ASSUME NEW s \in 1 .. GroupSize
      PROVE  /\ DOMAIN segments[s].index = 1 .. SegmentSize
             /\ \A i \in 1 .. SegmentSize : segments[s].index[i] = IndexOf((FirstOf(s) + i) - 1)
  <2>1. segments[s] = SegmentAt(s)
    BY Zenon DEF StoredInv
  <2>2. SegmentAt(s).index = [i \in 1 .. SegmentSize |-> IndexOf((FirstOf(s) + i) - 1)]
    BY Zenon DEF SegmentAt, SegmentData, AddBlocks, IndexOf
  <2> HIDE DEF SegmentAt
  <2> QED BY <2>1, <2>2, Zenon
<1>4. ASSUME NEW s \in 1 .. GroupSize, NEW i \in 1 .. SegmentSize PROVE (FirstOf(s) + i) - 1 \in Nat
  <2>1. (s - 1) * SegmentSize \in Nat
    BY <1>1
  <2> QED BY <1>1, <2>1 DEF FirstOf
<1>5. ASSUME NEW b \in BlocksOf(segments) PROVE \E n \in Nat : b = IndexOf(n)
  <2>1. PICK s \in 1 .. GroupSize : \E i \in DOMAIN segments[s].index : b = segments[s].index[i]
    BY <1>2, Zenon DEF BlocksOf
  <2>2. PICK i \in 1 .. SegmentSize : b = IndexOf((FirstOf(s) + i) - 1)
    BY <1>3, <2>1, Zenon
  <2> QED BY <1>4, <2>2, Zenon
<1>6. ASSUME NEW n \in 1 .. SegmentSize * GroupSize PROVE IndexOf(n) \in BlocksOf(segments)
  <2>1. n \in Nat /\ 1 <= n /\ n <= SegmentSize * GroupSize
    BY <1>1
  <2>2. PICK s \in 1 .. GroupSize, i \in 1 .. SegmentSize : n = (FirstOf(s) + i) - 1
    BY <2>1, BlockIsInSegment, Zenon
  <2>3. IndexOf(n) \in {segments[s].index[j] : j \in DOMAIN segments[s].index}
    BY <1>3, <2>2, Zenon
  <2> QED BY <1>2, <2>3, Zenon DEF BlocksOf
<1> QED BY <1>5, <1>6, Zenon

\* The range of a group is that of all its blocks.
LEMMA RangeOfGroup ==
    ASSUME StoredInv, Len(segments) = GroupSize, NEW n \in 1 .. SegmentSize * GroupSize
    PROVE  LET first == segments[1].first_block
               last == (segments[Len(segments)].first_block + SegmentSize) - 1
           IN  NumberOf(n) \in first .. ((first + ((last - first) + 1)) - 1)
<1>1. SegmentSize \in Nat /\ GroupSize \in Nat /\ GroupSize >= 1 /\ FirstBlock \in Nat
  BY QueryAssumption
<1>2. segments[1].first_block = NumberOf(FirstOf(1))
      /\ segments[GroupSize].first_block = NumberOf(FirstOf(GroupSize))
  <2>1. segments[1] = SegmentAt(1) /\ segments[GroupSize] = SegmentAt(GroupSize)
    BY <1>1 DEF StoredInv
  <2>2. \A s : SegmentAt(s).first_block = NumberOf(FirstOf(s))
    BY Zenon DEF SegmentAt, SegmentData
  <2> QED BY <2>1, <2>2, Zenon
<1>3. FirstOf(1) = 1 /\ FirstOf(GroupSize) = (SegmentSize * GroupSize - SegmentSize) + 1
  BY <1>1 DEF FirstOf
<1> DEFINE total == SegmentSize * GroupSize
<1>4. total \in Nat /\ n \in 1 .. total
  BY <1>1
<1>5. FirstOf(GroupSize) = (total - SegmentSize) + 1
  BY <1>3, Zenon
<1> HIDE DEF total
<1>6. segments[1].first_block = FirstBlock
      /\ segments[Len(segments)].first_block = FirstBlock + (total - SegmentSize)
  BY <1>1, <1>2, <1>3, <1>4, <1>5 DEF NumberOf
<1> QED BY <1>1, <1>4, <1>6 DEF NumberOf

LEMMA StoredGroupIsComplete == StoredInv => GroupIndexIsComplete
<1> SUFFICES ASSUME StoredInv, group # Null, blockFilters # Null,
                    NEW i \in DOMAIN blockFilters, NEW filter \in blockFilters[i].filters,
                    NEW n \in DOMAIN blocks,
                    NEW row \in Rows(filter, BlockAccess(blocks[n]))
             PROVE  NumberOf(n) \in GroupRows(filter, group)
  BY Zenon DEF GroupIndexIsComplete
<1> DEFINE id == filter.fragment_id
           B == BlocksOf(segments)
           count == IndexCount(id)
<1>1. IsCompiled(filter)
  <2>1. blockFilters = CreateBlockFilter(request)
    BY DEF StoredInv
  <2> QED BY <2>1, FiltersAreCompiled, Zenon
<1>2. Len(segments) = GroupSize /\ group = BuildGroup(segments, SegmentSize)
  BY Zenon DEF StoredInv
<1>3. n \in 1 .. SegmentSize * GroupSize /\ blocks[n] = BlockOf(content[n])
  <2>1. Len(content) = SegmentSize * GroupSize /\ SegmentSize * GroupSize \in Nat
    BY QueryAssumption DEF StoredInv
  <2>2. n \in 1 .. Len(blocks) /\ Len(blocks) \in Nat /\ Len(blocks) <= Len(content)
    BY DEF StoredInv
  <2>3. blocks[n] = BlockOf(content[n])
    BY <2>2, Zenon DEF StoredInv
  <2> QED BY <2>1, <2>2, <2>3
<1>4. IndexOf(n) \in B
  BY <1>2, <1>3, BlocksOfGroup, Zenon
<1>5. count \in Nat /\ \A b \in B : id \in DOMAIN b.data /\ IsPositional(b.data[id], count)
  <2>1. id \in FragmentInfo
    BY <1>1, Zenon DEF IsCompiled
  <2>2. \A b \in B : \E m \in Nat : b.data = BlockOf(content[m]).index
    BY <1>2, BlocksOfGroup DEF IndexOf
  <2> QED BY <2>1, <2>2, BlockIndexesArePositional, Zenon
<1>6. IndexOf(n).data = BlockOf(content[n]).index /\ IndexOf(n).cursor = NumberOf(n)
  BY Zenon DEF IndexOf
<1>7. \A j \in DOMAIN filter.conditions :
         row \in RowsOfCondition(filter.conditions[j], IndexOf(n).data[id])
  BY <1>3, <1>6, Zenon DEF Rows, FilterRows, BlockAccess
<1>8. id \in UNION {DOMAIN block.data : block \in B}
  BY <1>4, <1>5, Zenon
<1>9. group.index[id] = IndexFragment(segments[1].first_block,
          (((segments[Len(segments)].first_block + SegmentSize) - 1) - segments[1].first_block) + 1,
          GroupIndexes(B, id))
  BY <1>2, <1>8, Zenon DEF BuildGroup
<1> HIDE DEF id, B, count
<1>10. ASSUME NEW j \in DOMAIN filter.conditions
       PROVE  NumberOf(n) \in RowsOfCondition(filter.conditions[j], group.index[id])
  <2>1. filter.conditions[j].index_id \in 0 .. count - 1
    BY <1>1, Zenon DEF IsCompiled, id, count
  <2>2. IndexOf(n).cursor \in GetBitmap(GroupIndexes(B, id)[filter.conditions[j].index_id + 1].index,
                                        filter.conditions[j].key)
    BY <1>4, <1>5, <1>7, <2>1, GroupMeetsCondition, Zenon
  <2>3. group.index[id].indexes = GroupIndexes(B, id)
    BY <1>9 DEF IndexFragment
  <2> QED BY <1>6, <2>2, <2>3, Zenon DEF RowsOfCondition
<1>11. NumberOf(n) \in RangeOf(group.index[id])
  <2> DEFINE first == segments[1].first_block
             last == (segments[Len(segments)].first_block + SegmentSize) - 1
  <2>1. NumberOf(n) \in first .. ((first + ((last - first) + 1)) - 1)
    BY <1>2, <1>3, RangeOfGroup, Zenon
  <2>2. group.index[id].range_start = first /\ group.index[id].range_len = (last - first) + 1
    <3> HIDE DEF first, last
    <3>1. group.index[id] = IndexFragment(first, (last - first) + 1, GroupIndexes(B, id))
      BY <1>9, Zenon DEF first, last
    <3> QED BY <3>1 DEF IndexFragment
  <2> HIDE DEF first, last
  <2> QED BY <2>1, <2>2, Zenon DEF RangeOf
<1> QED BY <1>10, <1>11, Zenon DEF GroupRows, FilterRows, id

\* For every chain, every request and every size of segments and groups, a filter
\* that matches a row of a block matches the number of the block in the index of its
\* group: a search of the group skips no block with data
\* (SegmentGroupBuilder::add_segment, common/src/compaction/group_builder.rs:32).
THEOREM GroupMissesNothing == QuerySpec => []GroupIndexIsComplete
<1>1. QuerySpec => []StoredInv
  BY InitIsStored, NextKeepsStored, PTL DEF QuerySpec
<1> QED BY <1>1, StoredGroupIsComplete, PTL

==============================================================================

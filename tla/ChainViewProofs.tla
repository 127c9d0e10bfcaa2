-------------------------- MODULE ChainViewProofs --------------------------
(***************************************************************************)
(* Proofs about ChainViewSync: a view that has handled all that it was     *)
(* sent shows the current value of every key it was told about, for any    *)
(* number of readers, publications, broken watches and events in flight.   *)
(***************************************************************************)
EXTENDS ChainViewSync, TLAPS

-----------------------------------------------------------------------------
(* The inductive invariant                                                 *)

EventType == [key : IngestionKey, value : ValueType]

\* The keys a view shows.
ViewKey == {"finalized", "segmented", "grouped", "recent", "pending"}

Following == {"idle", "reread", "refetch"}

\* Some event is about key k; event i is the last one.
Says(events, k) == \E i \in 1 .. Len(events) : events[i].key = k

IsLast(events, k, i) ==
    /\ events[i].key = k
    /\ \A j \in 1 .. Len(events) : j > i => events[j].key # k

\* A reader that has the events still to come will know the value v of key k:
\* the last event about it says v, and if there is none, and the reader has
\* heard of the key, v is shown.
Agrees(events, k, v, heard, shown) ==
    /\ \A i \in 1 .. Len(events) : IsLast(events, k, i) => events[i].value = v
    /\ k \in heard /\ ~Says(events, k) => shown = v

\* The events are about keys of etcd, and those about the chain name snapshots.
AreEvents(events) ==
    /\ events \in Seq(EventType)
    /\ \A i \in 1 .. Len(events) : events[i].key = "recent" => events[i].value # Null

\* The current snapshot is there; its name is none of the legacy object's.
StoreOK ==
    /\ DOMAIN kv = Key
    /\ \A key \in Key : kv[key].value \in ValueType /\ kv[key].revision \in Nat
    /\ GetRecent # Null => GetRecent \in PointerType /\ GetRecent.key # 0 /\ GetRecent \in objects

\* The synchronisation of a reader.
SyncOK(y) ==
    /\ DOMAIN y = {"pc", "finalized", "segmented", "grouped", "pointer", "heard"}
    /\ y.pc \in Phase
    /\ {y.finalized, y.segmented, y.grouped, y.pointer} \subseteq ValueType
    /\ y.pc \notin Following => y.heard = {}

\* A reader that follows the store with view v; values are those of the store.
\* If it found a snapshot gone, the news of a later one is among the events.
FollowerOK(y, events, v, values) ==
    /\ y.pc \in {"reread", "refetch"} => Says(events, "recent")
    /\ \A k \in ViewKey : Agrees(events, k, values[k], y.heard, v[k])

ReaderOK(r, y, events, v, open, values) ==
    /\ SyncOK(y)
    /\ AreEvents(events)
    /\ r \in open <=> y.pc \in Following
    /\ y.pc \in Following \cup {"watch"} => v \in ViewType
    /\ y.pc \notin Following \cup {"watch"} => v = Null
    /\ y.pc \in Following => FollowerOK(y, events, v, values)

\* The values of the keys a view shows.
Values == [k \in ViewKey |-> Get(k)]

ReadersOK ==
    /\ DOMAIN sync = Reader /\ DOMAIN inbox = Reader /\ DOMAIN view = Reader
    /\ watching \subseteq Reader
    /\ \A r \in Reader : ReaderOK(r, sync[r], inbox[r], view[r], watching, Values)

ViewInv == StoreOK /\ ReadersOK /\ breaks \in 0 .. MaxBreaks

-----------------------------------------------------------------------------
(* Events that come and go                                                 *)

\* More events: the last of them about a key says the new value of the key.
LEMMA MoreEvents ==
    ASSUME NEW s \in Seq(EventType), NEW es \in Seq(EventType), NEW k, NEW v, NEW w, NEW heard,
           NEW shown, Agrees(s, k, v, heard, shown),
           \A i \in 1 .. Len(es) : IsLast(es, k, i) => es[i].value = w,
           ~Says(es, k) => w = v
    PROVE  Agrees(s \o es, k, w, heard, shown)
<1>1. /\ Len(s \o es) = Len(s) + Len(es) /\ Len(s) \in Nat /\ Len(es) \in Nat
      /\ \A i \in 1 .. Len(s) : (s \o es)[i] = s[i]
      /\ \A i \in 1 .. Len(es) : (s \o es)[Len(s) + i] = es[i]
  OBVIOUS
<1> DEFINE t == s \o es
<1> HIDE DEF t
<1>2. ASSUME NEW i \in 1 .. Len(t), IsLast(t, k, i)
      PROVE  t[i].value = w
  <2>1. CASE i > Len(s)
    <3>1. PICK m \in 1 .. Len(es) : i = Len(s) + m
      <4>1. i - Len(s) \in 1 .. Len(es) /\ i = Len(s) + (i - Len(s))
        BY <1>1, <2>1 DEF t
      <4> QED BY <4>1, Zenon
    <3>2. es[m].key = k
      BY <1>1, <1>2, <3>1, Zenon DEF IsLast, t
    <3>3. ASSUME NEW j \in 1 .. Len(es), j > m
          PROVE  es[j].key # k
      <4>1. Len(s) + j \in 1 .. Len(t) /\ Len(s) + j > i /\ t[Len(s) + j] = es[j]
        BY <1>1, <3>1, <3>3 DEF t
      <4> QED BY <1>2, <4>1, Zenon DEF IsLast
    <3> QED BY <1>1, <3>1, <3>2, <3>3, Zenon DEF IsLast, t
  <2>2. CASE i <= Len(s)
    <3>1. i \in 1 .. Len(s) /\ t[i] = s[i] /\ s[i].key = k
      BY <1>1, <1>2, <2>2 DEF IsLast, t
    <3>2. ASSUME NEW j \in 1 .. Len(s), j > i
          PROVE  s[j].key # k
      BY <1>1, <1>2, <3>2 DEF IsLast, t
    <3>3. ASSUME NEW j \in 1 .. Len(es)
          PROVE  es[j].key # k
      <4>1. Len(s) + j \in 1 .. Len(t) /\ Len(s) + j > i /\ t[Len(s) + j] = es[j]
        BY <1>1, <2>2, <3>1 DEF t
      <4> QED BY <1>2, <4>1, Zenon DEF IsLast
    <3>4. w = v
      BY <3>3, Zenon DEF Says
    <3> QED BY <3>1, <3>2, <3>4, Zenon DEF IsLast, Agrees
  <2> QED BY <1>1, <2>1, <2>2 DEF t
<1>3. ASSUME k \in heard, ~Says(t, k)
      PROVE  shown = w
  <2>1. ~Says(s, k)
    BY <1>1, <1>3 DEF Says, t
  <2>2. ~Says(es, k)
    <3> SUFFICES ASSUME NEW i \in 1 .. Len(es), es[i].key = k PROVE FALSE
      BY Zenon DEF Says
    <3>1. Len(s) + i \in 1 .. Len(t) /\ t[Len(s) + i] = es[i]
      BY <1>1 DEF t
    <3> QED BY <1>3, <3>1, Zenon DEF Says
  <2> QED BY <1>3, <2>1, <2>2, Zenon DEF Agrees
<1> QED BY <1>2, <1>3, Zenon DEF Agrees, t

LEMMA Joined ==
    ASSUME NEW s \in Seq(EventType), NEW es \in Seq(EventType)
    PROVE  /\ s \o es \in Seq(EventType) /\ Len(s \o es) = Len(s) + Len(es)
           /\ \A i \in 1 .. Len(s) : (s \o es)[i] = s[i]
           /\ \A i \in 1 .. Len(es) : (s \o es)[Len(s) + i] = es[i]
OBVIOUS

\* What was announced stays announced.
LEMMA StillSays ==
    ASSUME NEW s \in Seq(EventType), NEW es \in Seq(EventType), NEW k, Says(s, k)
    PROVE  Says(s \o es, k)
<1>1. PICK i \in 1 .. Len(s) : s[i].key = k
  BY Zenon DEF Says
<1>2. i \in 1 .. Len(s \o es) /\ (s \o es)[i] = s[i]
  OBVIOUS
<1> QED BY <1>1, <1>2, Zenon DEF Says

\* The first event is taken.
LEMMA TailFacts ==
    ASSUME NEW s \in Seq(EventType), s # << >>
    PROVE  /\ Tail(s) \in Seq(EventType) /\ Head(s) = s[1] /\ Head(s) \in EventType
           /\ Len(s) \in Nat /\ Len(s) >= 1 /\ Len(Tail(s)) = Len(s) - 1
           /\ \A i \in 1 .. Len(s) - 1 : Tail(s)[i] = s[i + 1]
OBVIOUS

\* An event about another key is taken ...
LEMMA OtherEventTaken ==
    ASSUME NEW s \in Seq(EventType), s # << >>, NEW k, NEW v, NEW heard, NEW shown,
           Agrees(s, k, v, heard, shown), Head(s).key # k
    PROVE  Agrees(Tail(s), k, v, heard \cup {Head(s).key}, shown)
<1> DEFINE t == Tail(s)
<1>1. /\ Head(s) = s[1] /\ Len(s) \in Nat /\ Len(s) >= 1 /\ Len(t) = Len(s) - 1
      /\ \A i \in 1 .. Len(s) - 1 : t[i] = s[i + 1]
  BY TailFacts, Zenon
<1> HIDE DEF t
<1>2. ASSUME NEW i \in 1 .. Len(t), IsLast(t, k, i)
      PROVE  t[i].value = v
  <2>1. i + 1 \in 1 .. Len(s) /\ t[i] = s[i + 1]
    BY <1>1
  <2>2. ASSUME NEW j \in 1 .. Len(s), j > i + 1
        PROVE  s[j].key # k
    <3>1. j - 1 \in 1 .. Len(t) /\ j - 1 > i /\ t[j - 1] = s[(j - 1) + 1] /\ (j - 1) + 1 = j
      BY <1>1, <2>2
    <3> QED BY <1>2, <3>1, Zenon DEF IsLast
  <2> QED BY <1>2, <2>1, <2>2, Zenon DEF IsLast, Agrees
<1>3. ASSUME k \in heard \cup {Head(s).key}, ~Says(t, k)
      PROVE  shown = v
  <2>1. ~Says(s, k)
    <3> SUFFICES ASSUME NEW i \in 1 .. Len(s), s[i].key = k PROVE FALSE
      BY Zenon DEF Says
    <3>1. i # 1
      BY <1>1, Zenon
    <3>2. i - 1 \in 1 .. Len(t) /\ t[i - 1] = s[(i - 1) + 1] /\ (i - 1) + 1 = i
      BY <1>1, <3>1
    <3> QED BY <1>3, <3>2, Zenon DEF Says
  <2> QED BY <1>3, <2>1, Zenon DEF Agrees
<1> QED BY <1>2, <1>3, Zenon DEF Agrees, t

\* ... or the event about this one, which is then shown, unless a later one
\* is on its way.
LEMMA EventTaken ==
    ASSUME NEW s \in Seq(EventType), s # << >>, NEW k, NEW v, NEW heard, NEW shown, NEW now,
           NEW more, Agrees(s, k, v, heard, shown), Head(s).key = k,
           now = Head(s).value \/ Says(Tail(s), k)
    PROVE  Agrees(Tail(s), k, v, more, now)
<1> DEFINE t == Tail(s)
<1>1. /\ Head(s) = s[1] /\ Len(s) \in Nat /\ Len(s) >= 1 /\ Len(t) = Len(s) - 1
      /\ \A i \in 1 .. Len(s) - 1 : t[i] = s[i + 1]
  BY TailFacts, Zenon
<1> HIDE DEF t
<1>2. ASSUME NEW i \in 1 .. Len(t), IsLast(t, k, i)
      PROVE  t[i].value = v
  <2>1. i + 1 \in 1 .. Len(s) /\ t[i] = s[i + 1]
    BY <1>1
  <2>2. ASSUME NEW j \in 1 .. Len(s), j > i + 1
        PROVE  s[j].key # k
    <3>1. j - 1 \in 1 .. Len(t) /\ j - 1 > i /\ t[j - 1] = s[(j - 1) + 1] /\ (j - 1) + 1 = j
      BY <1>1, <2>2
    <3> QED BY <1>2, <3>1, Zenon DEF IsLast
  <2> QED BY <1>2, <2>1, <2>2, Zenon DEF IsLast, Agrees
<1>3. ASSUME ~Says(t, k)
      PROVE  Head(s).value = v
  <2>1. ASSUME NEW j \in 1 .. Len(s), j > 1
        PROVE  s[j].key # k
    <3>1. j - 1 \in 1 .. Len(t) /\ t[j - 1] = s[(j - 1) + 1] /\ (j - 1) + 1 = j
      BY <1>1, <2>1
    <3> QED BY <1>3, <3>1, Zenon DEF Says
  <2> QED BY <1>1, <2>1 DEF IsLast, Agrees
<1> QED BY <1>2, <1>3, Zenon DEF Agrees, t

-----------------------------------------------------------------------------
(* Writes                                                                  *)

\* A write sends events that say the new values.
LEMMA WriteKeepsReaders ==
    ASSUME ReadersOK, NEW es, AreEvents(es), Send(es), UNCHANGED <<watching, sync, view>>,
           \A k \in ViewKey : /\ \A i \in 1 .. Len(es) : IsLast(es, k, i) => es[i].value = Get(k)'
                              /\ ~Says(es, k) => Get(k)' = Get(k)
    PROVE  ReadersOK'
<1>1. DOMAIN inbox' = Reader
  BY Zenon DEF Send
<1>2. ASSUME NEW r \in Reader
      PROVE  ReaderOK(r, sync[r], inbox'[r], view[r], watching, Values')
  <2>1. ReaderOK(r, sync[r], inbox[r], view[r], watching, Values)
    BY Zenon DEF ReadersOK
  <2>2. inbox[r] \in Seq(EventType) /\ es \in Seq(EventType)
    BY <2>1, Zenon DEF ReaderOK, AreEvents
  <2>3. CASE r \notin watching
    <3>1. inbox'[r] = inbox[r]
      BY <2>3, Zenon DEF Send
    <3> QED BY <2>1, <2>3, <3>1, Zenon DEF ReaderOK
  <2>4. CASE r \in watching
    <3>1. inbox'[r] = inbox[r] \o es
      BY <2>4, Zenon DEF Send
    <3>2. AreEvents(inbox[r] \o es)
      <4>1. inbox[r] \o es \in Seq(EventType)
        BY <2>2
      <4>2. ASSUME NEW i \in 1 .. Len(inbox[r] \o es), (inbox[r] \o es)[i].key = "recent"
            PROVE  (inbox[r] \o es)[i].value # Null
        <5>1. CASE i <= Len(inbox[r])
          <6>1. i \in 1 .. Len(inbox[r]) /\ (inbox[r] \o es)[i] = inbox[r][i]
            BY <2>2, <5>1
          <6> QED BY <2>1, <4>2, <6>1, Zenon DEF ReaderOK, AreEvents
        <5>2. CASE i > Len(inbox[r])
          <6>1. i - Len(inbox[r]) \in 1 .. Len(es) /\ (inbox[r] \o es)[i] = es[i - Len(inbox[r])]
            BY <2>2, <5>2
          <6> QED BY <4>2, <6>1, Zenon DEF AreEvents
        <5> QED BY <2>2, <5>1, <5>2
      <4> QED BY <4>1, <4>2, Zenon DEF AreEvents
    <3>3. FollowerOK(sync[r], inbox[r], view[r], Values)
      BY <2>1, <2>4, Zenon DEF ReaderOK
    <3>4. FollowerOK(sync[r], inbox[r] \o es, view[r], Values')
      <4>1. sync[r].pc \in {"reread", "refetch"} => Says(inbox[r] \o es, "recent")
        BY <2>2, <3>3, StillSays, Zenon DEF FollowerOK
      <4>2. ASSUME NEW k \in ViewKey
            PROVE  Agrees(inbox[r] \o es, k, Values'[k], sync[r].heard, view[r][k])
        <5>1. Agrees(inbox[r], k, Get(k), sync[r].heard, view[r][k])
          BY <3>3, Zenon DEF FollowerOK, Values
        <5>2. Agrees(inbox[r] \o es, k, Get(k)', sync[r].heard, view[r][k])
          BY <2>2, <5>1, MoreEvents, Zenon
        <5> QED BY <5>2, Zenon DEF Values
      <4> QED BY <4>1, <4>2, Zenon DEF FollowerOK
    <3> QED BY <2>1, <3>1, <3>2, <3>4, Zenon DEF ReaderOK
  <2> QED BY <2>3, <2>4, Zenon
<1> QED BY <1>1, <1>2, Zenon DEF ReadersOK

LEMMA EventFields ==
    ASSUME NEW key \in IngestionKey, NEW value \in ValueType
    PROVE  /\ <<Event(key, value)>> \in Seq(EventType) /\ Len(<<Event(key, value)>>) = 1
           /\ <<Event(key, value)>>[1].key = key /\ <<Event(key, value)>>[1].value = value
<1>1. Event(key, value) \in EventType /\ Event(key, value).key = key /\ Event(key, value).value = value
  BY Zenon DEF EventType, Event
<1> QED BY <1>1

\* One event, and its key's new value.
LEMMA OneEvent ==
    ASSUME NEW key \in IngestionKey, NEW value \in ValueType, key = "recent" => value # Null
    PROVE  /\ AreEvents(<<Event(key, value)>>)
           /\ IsLast(<<Event(key, value)>>, key, 1) /\ Says(<<Event(key, value)>>, key)
           /\ \A k : k # key => ~Says(<<Event(key, value)>>, k)
           /\ \A k, i : i \in 1 .. Len(<<Event(key, value)>>) /\ IsLast(<<Event(key, value)>>, k, i) =>
                k = key /\ <<Event(key, value)>>[i].value = value
<1> DEFINE es == <<Event(key, value)>>
<1>1. es \in Seq(EventType) /\ Len(es) = 1 /\ es[1].key = key /\ es[1].value = value
  BY EventFields, Zenon
<1> HIDE DEF es
<1>2. \A i \in 1 .. Len(es) : i = 1
  BY <1>1
<1> QED BY <1>1, <1>2 DEF AreEvents, IsLast, Says, es

\* No event.
LEMMA NoEvent ==
    /\ AreEvents(<< >>)
    /\ \A k : ~Says(<< >>, k)
    /\ Len(<< >>) = 0
BY DEF AreEvents, Says

\* A key other than the pointer is written.
LEMMA PutKeepsInv ==
    ASSUME StoreOK, ReadersOK, NEW key \in Key \ {"recent"}, NEW value \in ValueType,
           Put(key, value), UNCHANGED <<sync, view, objects>>
    PROVE  StoreOK' /\ ReadersOK'
<1>1. /\ kv' = [kv EXCEPT ![key] = Written(key, value)] /\ watching' = watching
      /\ Send(IF key \in IngestionKey THEN <<Event(key, value)>> ELSE << >>)
  BY Zenon DEF Put
<1>2. Written(key, value).value = value /\ Written(key, value).revision \in Nat
  BY DEF Written, StoreOK
<1>3. StoreOK'
  BY <1>1, <1>2, Zenon DEF StoreOK, GetRecent, Get, Key, IngestionKey, OptionKey
<1>4. \A k \in ViewKey : Get(k)' = IF k = key THEN value ELSE Get(k)
  BY <1>1, <1>2, Zenon DEF StoreOK, Get, ViewKey, Key, IngestionKey, OptionKey
<1>5. CASE key \in IngestionKey
  <2>1. AreEvents(<<Event(key, value)>>) /\ Send(<<Event(key, value)>>)
    BY <1>1, <1>5, OneEvent, Zenon
  <2>2. ASSUME NEW k \in ViewKey
        PROVE  /\ \A i \in 1 .. Len(<<Event(key, value)>>) :
                    IsLast(<<Event(key, value)>>, k, i) => <<Event(key, value)>>[i].value = Get(k)'
               /\ ~Says(<<Event(key, value)>>, k) => Get(k)' = Get(k)
    BY <1>4, <1>5, OneEvent, Zenon
  <2> QED BY <1>1, <1>3, <2>1, <2>2, WriteKeepsReaders, Zenon
<1>6. CASE key \notin IngestionKey
  <2>1. AreEvents(<< >>) /\ Send(<< >>)
    BY <1>1, <1>6, NoEvent, Zenon
  <2>2. ASSUME NEW k \in ViewKey
        PROVE  /\ \A i \in 1 .. Len(<< >>) : IsLast(<< >>, k, i) => << >>[i].value = Get(k)'
               /\ ~Says(<< >>, k) => Get(k)' = Get(k)
    BY <1>4, <1>6, NoEvent DEF ViewKey, IngestionKey
  <2> QED BY <1>1, <1>3, <2>1, <2>2, WriteKeepsReaders, Zenon
<1> QED BY <1>5, <1>6, Zenon

\* A new snapshot is published, which ends the pending block.
LEMMA PublishKeepsInv ==
    ASSUME StoreOK, ReadersOK, NEW pointer \in PointerType, pointer.key # 0, PutRecent(pointer),
           objects' = objects \cup {pointer}, UNCHANGED <<sync, view>>
    PROVE  StoreOK' /\ ReadersOK'
<1> DEFINE first  == <<Event("recent", pointer)>>
           second == IF kv["pending"] = Missing THEN << >> ELSE <<Event("pending", Null)>>
<1>1. /\ kv' = [kv EXCEPT !["recent"] = Written("recent", pointer), !["pending"] = Missing]
      /\ watching' = watching /\ Send(first \o second)
  BY Zenon DEF PutRecent, PutAndDelete
<1>2. /\ Written("recent", pointer).value = pointer /\ Written("recent", pointer).revision \in Nat
      /\ Missing.value = Null /\ Missing.revision \in Nat
  BY Zenon DEF Written, StoreOK, Missing, Conditional
<1>3. /\ Get("recent")' = pointer /\ Get("pending")' = Null
      /\ \A k \in ViewKey \ {"recent", "pending"} : Get(k)' = Get(k)
  BY <1>1, <1>2, Zenon DEF StoreOK, Get, ViewKey, Key, IngestionKey, OptionKey
<1>4. StoreOK'
  BY <1>1, <1>2, <1>3 DEF StoreOK, GetRecent, Get, ValueType
<1>5. pointer # Null /\ pointer \in ValueType /\ Null \in ValueType
  BY NullIsNoRecord, Zenon DEF ValueType
<1>6. /\ AreEvents(first)
      /\ \A k : k # "recent" => ~Says(first, k)
      /\ \A k, i : i \in 1 .. Len(first) /\ IsLast(first, k, i) => k = "recent" /\ first[i].value = pointer
      /\ Says(first, "recent")
  BY <1>5, OneEvent, Zenon DEF IngestionKey
<1>7. CASE kv["pending"] = Missing
  <2>1. Send(first)
    <3>1. first \o second = first
      BY <1>6, <1>7 DEF AreEvents
    <3> QED BY <1>1, <3>1, Zenon
  <2>2. Get("pending")' = Get("pending")
    BY <1>2, <1>3, <1>7, Zenon DEF Get
  <2>3. ASSUME NEW k \in ViewKey
        PROVE  /\ \A i \in 1 .. Len(first) : IsLast(first, k, i) => first[i].value = Get(k)'
               /\ ~Says(first, k) => Get(k)' = Get(k)
    <3> HIDE DEF first
    <3> QED BY <1>3, <1>6, <2>2, Zenon
  <2> QED BY <1>1, <1>4, <1>6, <2>1, <2>3, WriteKeepsReaders, Zenon
<1>8. CASE kv["pending"] # Missing
  <2> DEFINE es == first \o second
  <2>1. Send(es)
    BY <1>1, Zenon
  <2>2. /\ Len(es) = 2 /\ es \in Seq(EventType)
        /\ es[1].key = "recent" /\ es[1].value = pointer /\ es[2].key = "pending" /\ es[2].value = Null
    <3>1. second = <<Event("pending", Null)>>
      BY <1>8, Zenon
    <3> HIDE DEF second
    <3>2. /\ Len(first) = 1 /\ first \in Seq(EventType)
          /\ first[1].key = "recent" /\ first[1].value = pointer
      BY <1>5, EventFields DEF IngestionKey
    <3>3. /\ Len(second) = 1 /\ second \in Seq(EventType)
          /\ second[1].key = "pending" /\ second[1].value = Null
      BY <1>5, <3>1, EventFields DEF IngestionKey
    <3> HIDE DEF first
    <3>4. Len(es) = 2 /\ es \in Seq(EventType) /\ es[1] = first[1] /\ es[2] = second[1]
      <4>1. /\ es \in Seq(EventType) /\ Len(es) = Len(first) + Len(second)
            /\ \A i \in 1 .. Len(first) : es[i] = first[i]
            /\ \A i \in 1 .. Len(second) : es[Len(first) + i] = second[i]
        BY <3>2, <3>3, Joined, Zenon
      <4>2. es[1] = first[1] /\ es[1 + 1] = second[1]
        BY <3>2, <3>3, <4>1
      <4> QED BY <3>2, <3>3, <4>1, <4>2
    <3> QED BY <3>2, <3>3, <3>4, Zenon
  <2> HIDE DEF es
  <2>3. \A i \in 1 .. Len(es) : i = 1 \/ i = 2
    BY <2>2
  <2>4. AreEvents(es)
    BY <1>5, <2>2, <2>3, Zenon DEF AreEvents
  <2>5. ASSUME NEW k \in ViewKey
        PROVE  /\ \A i \in 1 .. Len(es) : IsLast(es, k, i) => es[i].value = Get(k)'
               /\ ~Says(es, k) => Get(k)' = Get(k)
    <3>1. \A i \in 1 .. Len(es) : IsLast(es, k, i) => es[i].value = Get(k)'
      BY <1>3, <2>2, <2>3, Zenon DEF IsLast
    <3>2. ~Says(es, k) => k \in ViewKey \ {"recent", "pending"}
      BY <2>2 DEF Says
    <3> QED BY <1>3, <3>1, <3>2, Zenon
  <2> QED BY <1>1, <1>4, <2>1, <2>4, <2>5, WriteKeepsReaders, Zenon
<1> QED BY <1>7, <1>8, Zenon

\* The legacy key is deleted; no view shows it.
LEMMA DeleteKeepsInv ==
    ASSUME StoreOK, ReadersOK, DeleteLegacyIngested, UNCHANGED <<sync, view, objects>>
    PROVE  StoreOK' /\ ReadersOK'
<1> DEFINE es == IF kv["ingested"] = Missing THEN << >> ELSE <<Event("ingested", Null)>>
<1>1. kv' = [kv EXCEPT !["ingested"] = Missing] /\ watching' = watching /\ Send(es)
  BY Zenon DEF DeleteLegacyIngested, Delete
<1>2. Missing.value = Null /\ Missing.revision \in Nat
  BY Zenon DEF Missing
<1>3. \A k \in ViewKey : Get(k)' = Get(k)
  BY <1>1, Zenon DEF StoreOK, Get, ViewKey, Key, IngestionKey, OptionKey
<1>4. StoreOK'
  BY <1>1, <1>2, Zenon DEF StoreOK, GetRecent, Get, Key, IngestionKey, OptionKey, ValueType
<1>5. AreEvents(es) /\ \A k \in ViewKey : ~Says(es, k)
  <2>1. "ingested" \in IngestionKey /\ Null \in ValueType /\ "ingested" \notin ViewKey
    BY Zenon DEF IngestionKey, ValueType, ViewKey
  <2> QED BY <2>1, OneEvent, NoEvent, Zenon
<1> HIDE DEF es
<1>6. ASSUME NEW k \in ViewKey
      PROVE  \A i \in 1 .. Len(es) : IsLast(es, k, i) => es[i].value = Get(k)'
  BY <1>5, Zenon DEF IsLast, Says
<1> QED BY <1>1, <1>3, <1>4, <1>5, <1>6, WriteKeepsReaders, Zenon

\* Only objects that are not the current snapshot are deleted.
LEMMA DeleteObject ==
    ASSUME StoreOK, ReadersOK, NEW pointer, pointer # GetRecent, objects' = objects \ {pointer},
           UNCHANGED <<stateVars, sync, view>>
    PROVE  StoreOK' /\ ReadersOK'
<1>1. StoreOK'
  BY Zenon DEF StoreOK, GetRecent, Get, stateVars
<1>2. Values' = Values
  BY Zenon DEF Values, Get, stateVars
<1> QED BY <1>1, <1>2, Zenon DEF ReadersOK, stateVars

LEMMA IngesterKeepsInv ==
    ASSUME ViewInv, IngesterNext
    PROVE  ViewInv'
<1> USE DEF ViewInv
<1>1. CASE IngesterStarts
  <2>1. /\ Put("starting_block", StartingBlock) /\ UNCHANGED <<sync, view, objects, breaks>>
        /\ StartingBlock \in ValueType /\ "starting_block" \in Key \ {"recent"}
    BY <1>1, StartingBlockAssumption, Zenon
       DEF IngesterStarts, PutStartingBlock, syncVars, ValueType, Key, IngestionKey
  <2> QED BY <2>1, PutKeepsInv, Zenon
<1>2. ASSUME NEW block \in Block, IngesterFinalizes(block)
      PROVE  ViewInv'
  <2>1. /\ Put("finalized", block) /\ UNCHANGED <<sync, view, objects, breaks>>
        /\ block \in ValueType /\ "finalized" \in Key \ {"recent"}
    BY <1>2, StartingBlockAssumption, ViewAssumption
       DEF IngesterFinalizes, PutFinalized, syncVars, ValueType, Key, IngestionKey, Block
  <2> QED BY <2>1, PutKeepsInv, Zenon
<1>3. ASSUME NEW head \in Block, IngesterPublishes(head)
      PROVE  ViewInv'
  <2> DEFINE pointer == Pointer(IF GetRecent = Null THEN 1 ELSE GetRecent.key + 1, head)
  <2>1. pointer \in PointerType /\ pointer.key # 0
    <3>1. GetRecent # Null => GetRecent.key \in Nat
      BY Zenon DEF StoreOK, PointerType
    <3>2. head \in Nat
      BY StartingBlockAssumption, ViewAssumption DEF Block
    <3> QED BY <3>1, <3>2 DEF Pointer, PointerType
  <2>2. /\ PutRecent(pointer) /\ objects' = objects \cup {pointer}
        /\ UNCHANGED <<sync, view, breaks>>
    BY <1>3, Zenon DEF IngesterPublishes
  <2> HIDE DEF pointer
  <2> QED BY <2>1, <2>2, PublishKeepsInv, Zenon
<1>4. ASSUME NEW generation \in 1 .. MaxGeneration, IngesterPending(generation)
      PROVE  ViewInv'
  <2>1. /\ Put("pending", generation) /\ UNCHANGED <<sync, view, objects, breaks>>
        /\ generation \in ValueType /\ "pending" \in Key \ {"recent"}
    BY <1>4, ViewAssumption
       DEF IngesterPending, PutPending, syncVars, ValueType, Key, IngestionKey
  <2> QED BY <2>1, PutKeepsInv, Zenon
<1>5. CASE IngesterMigrates
  <2>1. LegacyRecent # GetRecent
    BY <1>5 DEF IngesterMigrates, StoreOK, LegacyRecent, Pointer
  <2>2. CASE objects' = objects \ {LegacyRecent} /\ UNCHANGED stateVars
    BY <1>5, <2>1, <2>2, DeleteObject, Zenon DEF IngesterMigrates
  <2>3. CASE DeleteLegacyIngested /\ UNCHANGED objects
    BY <1>5, <2>3, DeleteKeepsInv, Zenon DEF IngesterMigrates
  <2> QED BY <1>5, <2>2, <2>3, Zenon DEF IngesterMigrates
<1>6. ASSUME NEW pointer \in objects, Cleanup(pointer)
      PROVE  ViewInv'
  BY <1>6, DeleteObject, Zenon DEF Cleanup
<1> QED BY <1>1, <1>2, <1>3, <1>4, <1>5, <1>6, Zenon DEF IngesterNext

LEMMA CompactorKeepsInv ==
    ASSUME ViewInv, NEW key \in Conditional, CompactorAdvances(key)
    PROVE  ViewInv'
<1>1. key \in Key \ {"recent"} /\ StartingBlock \in ValueType /\ StartingBlock + 1 \in ValueType
  BY StartingBlockAssumption DEF Conditional, Key, IngestionKey, ValueType
<1>2. /\ Put(key, StartingBlock + 1) \/ Put(key, StartingBlock)
      /\ UNCHANGED <<sync, view, objects, breaks>>
  BY Zenon DEF CompactorAdvances, syncVars
<1> QED BY <1>1, <1>2, PutKeepsInv, Zenon DEF ViewInv

LEMMA OptionKeepsInv ==
    ASSUME ViewInv, NEW key \in OptionKey, OptionIsSet(key)
    PROVE  ViewInv'
<1>1. key \in Key \ {"recent"} /\ 1 \in ValueType
  BY Zenon DEF OptionKey, Key, ValueType
<1>2. Put(key, 1) /\ UNCHANGED <<sync, view, objects, breaks>>
  BY Zenon DEF OptionIsSet, SetOption, syncVars
<1> QED BY <1>1, <1>2, PutKeepsInv, Zenon DEF ViewInv

-----------------------------------------------------------------------------
(* A reader's own steps                                                    *)

\* A function that changes for one reader.
Changes(old, new, r) == DOMAIN new = DOMAIN old /\ \A q \in DOMAIN old \ {r} : new[q] = old[q]

\* A step of one reader: only its own state changes.
LEMMA OneReader ==
    ASSUME ViewInv, NEW r \in Reader,
           Changes(sync, sync', r), Changes(inbox, inbox', r), Changes(view, view', r),
           watching' = watching \/ watching' = watching \cup {r} \/ watching' = watching \ {r},
           kv' = kv, objects' = objects, breaks' \in 0 .. MaxBreaks,
           ReaderOK(r, sync'[r], inbox'[r], view'[r], watching', Values)
    PROVE  ViewInv'
<1>1. StoreOK'
  BY Zenon DEF ViewInv, StoreOK, GetRecent, Get
<1>2. Values' = Values
  BY Zenon DEF Values, Get
<1>3. DOMAIN sync' = Reader /\ DOMAIN inbox' = Reader /\ DOMAIN view' = Reader /\ watching' \subseteq Reader
  BY Zenon DEF ViewInv, ReadersOK, Changes
<1>4. ASSUME NEW q \in Reader, q # r
      PROVE  ReaderOK(q, sync'[q], inbox'[q], view'[q], watching', Values)
  <2>1. sync'[q] = sync[q] /\ inbox'[q] = inbox[q] /\ view'[q] = view[q]
    BY <1>4, Zenon DEF ViewInv, ReadersOK, Changes
  <2>2. q \in watching' <=> q \in watching
    BY <1>4, Zenon
  <2>3. ReaderOK(q, sync[q], inbox[q], view[q], watching, Values)
    BY Zenon DEF ViewInv, ReadersOK
  <2> QED BY <2>1, <2>2, <2>3, Zenon DEF ReaderOK
<1> QED BY <1>1, <1>2, <1>3, <1>4, Zenon DEF ViewInv, ReadersOK

LEMMA ReaderFields ==
    ASSUME ViewInv, NEW r \in Reader
    PROVE  /\ r \in DOMAIN sync /\ r \in DOMAIN inbox /\ r \in DOMAIN view
           /\ ReaderOK(r, sync[r], inbox[r], view[r], watching, Values)
           /\ SyncOK(sync[r])
           /\ breaks \in 0 .. MaxBreaks
           /\ \A key \in Key : Get(key) \in ValueType
BY Zenon DEF ViewInv, ReadersOK, ReaderOK, StoreOK, Get

\* What is read is a value.
LEMMA ReadValues ==
    ASSUME ViewInv
    PROVE  {GetFinalized, GetSegmented, GetGrouped, GetRecent, PublishedPointer} \subseteq ValueType
<1>1. \A key \in Key : Get(key) \in ValueType
  BY Zenon DEF ViewInv, StoreOK, Get
<1>2. LegacyRecent \in ValueType /\ Null \in ValueType
  BY StartingBlockAssumption, Zenon DEF LegacyRecent, Pointer, ValueType, PointerType
<1> QED BY <1>1, <1>2, Zenon
           DEF GetFinalized, GetSegmented, GetGrouped, PublishedPointer, GetRecent, Key,
                          IngestionKey

Early == {"starting", "finalized", "segmented", "grouped", "recent", "fetch", "options", "failed"}

\* A reader that has no view goes on: nothing is shown and no watch is open.
LEMMA EarlyStep ==
    ASSUME ViewInv, NEW r \in Reader, NEW from \in Early, NEW y, Step(r, from, y), view' = view,
           y.pc \in Early, SyncOK(y)
    PROVE  ViewInv'
<1>1. /\ sync[r].pc \in Early /\ sync' = [sync EXCEPT ![r] = y]
      /\ UNCHANGED <<kv, watching, inbox, objects, breaks>>
  BY Zenon DEF Step, stateVars
<1>2. /\ Changes(sync, sync', r) /\ Changes(inbox, inbox', r) /\ Changes(view, view', r)
      /\ sync'[r] = y
  BY <1>1, ReaderFields, Zenon DEF Changes
<1>3. ReaderOK(r, y, inbox[r], view[r], watching, Values)
  BY <1>1, ReaderFields, Zenon DEF ReaderOK, Early, Following
<1> QED BY <1>1, <1>2, <1>3, ReaderFields, OneReader, Zenon

\* The reads at the start.
LEMMA StartKeepsInv ==
    ASSUME ViewInv, NEW r \in Reader,
           \/ ReadStartingBlock(r) \/ ReadFinalized(r) \/ ReadSegmented(r) \/ ReadGrouped(r)
           \/ ReadRecent(r) \/ FetchRecent(r)
    PROVE  ViewInv'
<1> DEFINE y == sync[r]
<1>1. SyncOK(y)
  BY ReaderFields, Zenon
<1>2. {GetFinalized, GetSegmented, GetGrouped, PublishedPointer} \subseteq ValueType
  BY ReadValues, Zenon
<1> HIDE DEF y
<1>3. ASSUME NEW pc \in Early, NEW value \in ValueType, y.pc \in Early
      PROVE  /\ SyncOK([y EXCEPT !.pc = pc])
             /\ SyncOK([y EXCEPT !.pc = pc, !.finalized = value])
             /\ SyncOK([y EXCEPT !.pc = pc, !.segmented = value])
             /\ SyncOK([y EXCEPT !.pc = pc, !.grouped = value])
             /\ SyncOK([y EXCEPT !.pc = pc, !.pointer = value])
  BY <1>1, <1>3, Zenon DEF SyncOK, Early, Following, Phase
<1>4. CASE ReadStartingBlock(r)
  <2>1. Step(r, "starting", [y EXCEPT !.pc = "finalized"]) /\ view' = view /\ y.pc = "starting"
    BY <1>4, Zenon DEF ReadStartingBlock, y, Step
  <2> QED BY <1>1, <1>2, <1>3, <2>1, EarlyStep, Zenon DEF Early, SyncOK
<1>5. CASE ReadFinalized(r)
  <2> DEFINE z == [y EXCEPT !.pc = "segmented", !.finalized = GetFinalized]
  <2>1. Step(r, "finalized", z) /\ view' = view /\ y.pc = "finalized"
    BY <1>5, Zenon DEF ReadFinalized, y, Step
  <2>2. SyncOK(z)
    BY <1>2, <1>3, <2>1, Zenon DEF Early
  <2>3. z.pc = "segmented"
    BY <1>1, Zenon DEF SyncOK
  <2> HIDE DEF z
  <2> QED BY <2>1, <2>2, <2>3, EarlyStep, Zenon DEF Early
<1>6. CASE ReadSegmented(r)
  <2> DEFINE z == [y EXCEPT !.pc = "grouped", !.segmented = GetSegmented]
  <2>1. Step(r, "segmented", z) /\ view' = view /\ y.pc = "segmented"
    BY <1>6, Zenon DEF ReadSegmented, y, Step
  <2>2. SyncOK(z)
    BY <1>2, <1>3, <2>1, Zenon DEF Early
  <2>3. z.pc = "grouped"
    BY <1>1, Zenon DEF SyncOK
  <2> HIDE DEF z
  <2> QED BY <2>1, <2>2, <2>3, EarlyStep, Zenon DEF Early
<1>7. CASE ReadGrouped(r)
  <2> DEFINE z == [y EXCEPT !.pc = "recent", !.grouped = GetGrouped]
  <2>1. Step(r, "grouped", z) /\ view' = view /\ y.pc = "grouped"
    BY <1>7, Zenon DEF ReadGrouped, y, Step
  <2>2. SyncOK(z)
    BY <1>2, <1>3, <2>1, Zenon DEF Early
  <2>3. z.pc = "recent"
    BY <1>1, Zenon DEF SyncOK
  <2> HIDE DEF z
  <2> QED BY <2>1, <2>2, <2>3, EarlyStep, Zenon DEF Early
<1>8. CASE ReadRecent(r)
  <2> DEFINE z == [y EXCEPT !.pc = "fetch", !.pointer = PublishedPointer]
  <2>1. Step(r, "recent", z) /\ view' = view /\ y.pc = "recent"
    BY <1>8, Zenon DEF ReadRecent, y, Step
  <2>2. SyncOK(z)
    BY <1>2, <1>3, <2>1, Zenon DEF Early
  <2>3. z.pc = "fetch"
    BY <1>1, Zenon DEF SyncOK
  <2> HIDE DEF z
  <2> QED BY <2>1, <2>2, <2>3, EarlyStep, Zenon DEF Early
<1>9. CASE FetchRecent(r)
  <2>1. PICK pc \in {"options", "recent"} :
           Step(r, "fetch", [y EXCEPT !.pc = pc]) /\ view' = view /\ y.pc = "fetch"
    BY <1>9, Zenon DEF FetchRecent, y, Step
  <2> QED BY <1>1, <1>2, <1>3, <2>1, EarlyStep DEF Early, SyncOK
<1> QED BY <1>4, <1>5, <1>6, <1>7, <1>8, <1>9, Zenon

\* One reader's step, by its new state.
LEMMA ReaderStep ==
    ASSUME ViewInv, NEW r \in Reader, NEW y, NEW events, NEW v,
           sync' = [sync EXCEPT ![r] = y],
           inbox' = [inbox EXCEPT ![r] = events] \/ (inbox' = inbox /\ events = inbox[r]),
           view' = [view EXCEPT ![r] = v] \/ (view' = view /\ v = view[r]),
           watching' = watching \/ watching' = watching \cup {r} \/ watching' = watching \ {r},
           kv' = kv /\ objects' = objects /\ breaks' \in 0 .. MaxBreaks,
           ReaderOK(r, y, events, v, watching', Values)
    PROVE  ViewInv'
<1>1. Changes(sync, sync', r) /\ sync'[r] = y
  BY ReaderFields, Zenon DEF Changes
<1>2. Changes(inbox, inbox', r) /\ inbox'[r] = events
  BY ReaderFields, Zenon DEF Changes
<1>3. Changes(view, view', r) /\ view'[r] = v
  BY ReaderFields, Zenon DEF Changes
<1> QED BY <1>1, <1>2, <1>3, OneReader, Zenon

\* The view is sent, or the service gives up.
LEMMA SendViewKeepsInv ==
    ASSUME ViewInv, NEW r \in Reader, SendView(r)
    PROVE  ViewInv'
<1>1. CASE ~HasOptions
  <2>1. Step(r, "options", [sync[r] EXCEPT !.pc = "failed"]) /\ view' = view
    BY <1>1, Zenon DEF SendView
  <2>2. SyncOK([sync[r] EXCEPT !.pc = "failed"]) /\ [sync[r] EXCEPT !.pc = "failed"].pc = "failed"
    BY <2>1, ReaderFields, Zenon DEF Step, SyncOK, Phase, Following
  <2> QED BY <2>1, <2>2, EarlyStep, Zenon DEF Early
<1>2. CASE HasOptions
  <2> DEFINE y == [SyncStart EXCEPT !.pc = "watch"]
             v == NewChainView(sync[r], sync[r].pointer)
  <2>1. /\ sync[r].pc = "options" /\ sync' = [sync EXCEPT ![r] = y] /\ view' = [view EXCEPT ![r] = v]
        /\ kv' = kv /\ watching' = watching /\ inbox' = inbox /\ objects' = objects
        /\ breaks' = breaks
    BY <1>2, Zenon DEF SendView, Step, stateVars
  <2>2. SyncOK(y) /\ y.pc = "watch"
    BY Zenon DEF SyncOK, SyncStart, Phase, Following, ValueType
  <2>3. v \in ViewType
    BY ReaderFields, Zenon DEF SyncOK, NewChainView, ViewType, ValueType
  <2> HIDE DEF y, v
  <2>4. ReaderOK(r, y, inbox[r], v, watching, Values)
    BY <2>1, <2>2, <2>3, ReaderFields, Zenon DEF ReaderOK, Following
  <2> QED BY <2>1, <2>4, ReaderFields, ReaderStep, Zenon
<1> QED BY <1>1, <1>2, Zenon

\* The watch is opened: nothing has been heard yet.
LEMMA WatchKeepsInv ==
    ASSUME ViewInv, NEW r \in Reader, WatchChanges(r)
    PROVE  ViewInv'
<1> DEFINE y == [sync[r] EXCEPT !.pc = "idle"]
<1>1. /\ sync[r].pc = "watch" /\ sync' = [sync EXCEPT ![r] = y] /\ inbox' = [inbox EXCEPT ![r] = << >>]
      /\ watching' = watching \cup {r} /\ kv' = kv /\ objects' = objects /\ view' = view
      /\ breaks' = breaks
  BY Zenon DEF WatchChanges, OpenWatch
<1>2. /\ SyncOK(y) /\ y.pc = "idle" /\ y.heard = {}
  BY <1>1, ReaderFields, Zenon DEF SyncOK, Phase, Following
<1> HIDE DEF y
<1>3. view[r] \in ViewType
  BY <1>1, ReaderFields, Zenon DEF ReaderOK
<1>4. AreEvents(<< >>) /\ FollowerOK(y, << >>, view[r], Values)
  BY <1>2, NoEvent DEF FollowerOK, Agrees
<1>5. ReaderOK(r, y, << >>, view[r], watching', Values)
  BY <1>1, <1>2, <1>3, <1>4, Zenon DEF ReaderOK, Following
<1> QED BY <1>1, <1>5, ReaderFields, ReaderStep, Zenon

\* The watch breaks: what was heard is forgotten, the view stays.
LEMMA BreakKeepsInv ==
    ASSUME ViewInv, NEW r \in Reader, WatchBreaks(r)
    PROVE  ViewInv'
<1> DEFINE y == [SyncStart EXCEPT !.pc = "watch"]
<1>1. /\ sync[r].pc \in Following /\ sync' = [sync EXCEPT ![r] = y]
      /\ inbox' = [inbox EXCEPT ![r] = << >>]
      /\ watching' = watching \ {r} /\ kv' = kv /\ objects' = objects /\ view' = view
      /\ breaks < MaxBreaks /\ breaks' = breaks + 1
  BY Zenon DEF WatchBreaks, CloseWatch, Following
<1>2. SyncOK(y) /\ y.pc = "watch"
  BY Zenon DEF SyncOK, SyncStart, Phase, Following, ValueType
<1> HIDE DEF y
<1>3. view[r] \in ViewType
  BY <1>1, ReaderFields, Zenon DEF ReaderOK
<1>4. ReaderOK(r, y, << >>, view[r], watching', Values)
  BY <1>1, <1>2, <1>3, NoEvent, Zenon DEF ReaderOK, Following
<1>5. breaks' \in 0 .. MaxBreaks
  BY <1>1, ReaderFields, ViewAssumption
<1> QED BY <1>1, <1>4, <1>5, ReaderStep, Zenon

\* View w is view v after event e, unless one of the rest is about its key.
Shows(v, w, e, rest) ==
    /\ w \in ViewType
    /\ \A k \in ViewKey : k # e.key => w[k] = v[k]
    /\ e.key \in ViewKey => w[e.key] = e.value \/ Says(rest, e.key)

\* A reader that takes its first event and shows what it says, or goes to look
\* for a snapshot that a later event will name.
LEMMA TakeEvent ==
    ASSUME NEW r, NEW y, NEW s, NEW v, NEW open, ReaderOK(r, y, s, v, open, Values),
           y.pc = "idle", s # << >>,
           NEW z, SyncOK(z), z.pc \in Following, z.heard = y.heard \cup {Head(s).key},
           z.pc # "idle" => Says(Tail(s), "recent"),
           NEW w, Shows(v, w, Head(s), Tail(s))
    PROVE  ReaderOK(r, z, Tail(s), w, open, Values)
<1>1. /\ AreEvents(s) /\ s \in Seq(EventType) /\ r \in open
      /\ \A k \in ViewKey : Agrees(s, k, Values[k], y.heard, v[k])
  BY Zenon DEF ReaderOK, FollowerOK, Following, AreEvents
<1>2. AreEvents(Tail(s))
  <2>1. /\ Tail(s) \in Seq(EventType) /\ Len(s) \in Nat /\ Len(Tail(s)) = Len(s) - 1
        /\ \A i \in 1 .. Len(s) - 1 : Tail(s)[i] = s[i + 1]
    BY <1>1, TailFacts, Zenon
  <2>2. ASSUME NEW i \in 1 .. Len(Tail(s)), Tail(s)[i].key = "recent"
        PROVE  Tail(s)[i].value # Null
    <3>1. i + 1 \in 1 .. Len(s) /\ Tail(s)[i] = s[i + 1]
      BY <2>1
    <3> QED BY <1>1, <2>2, <3>1, Zenon DEF AreEvents
  <2> QED BY <2>1, <2>2, Zenon DEF AreEvents
<1>3. ASSUME NEW k \in ViewKey
      PROVE  Agrees(Tail(s), k, Values[k], z.heard, w[k])
  <2>1. Agrees(s, k, Values[k], y.heard, v[k])
    BY <1>1, Zenon
  <2>2. CASE Head(s).key = k
    <3>1. w[k] = Head(s).value \/ Says(Tail(s), k)
      BY <2>2, Zenon DEF Shows
    <3> QED BY <1>1, <2>1, <2>2, <3>1, EventTaken, Zenon
  <2>3. CASE Head(s).key # k
    <3>1. w[k] = v[k]
      BY <2>3, Zenon DEF Shows
    <3>2. Agrees(Tail(s), k, Values[k], y.heard \cup {Head(s).key}, v[k])
      BY <1>1, <2>1, <2>3, OtherEventTaken, Zenon
    <3> QED BY <3>1, <3>2, Zenon
  <2> QED BY <2>2, <2>3, Zenon
<1>4. FollowerOK(z, Tail(s), w, Values)
  BY <1>3, Zenon DEF FollowerOK, Following
<1>5. w \in ViewType
  BY Zenon DEF Shows
<1> QED BY <1>1, <1>2, <1>4, <1>5, Zenon DEF ReaderOK, Following

\* What a reader that takes an event is, before and after.
LEMMA HandledFacts ==
    ASSUME ViewInv, NEW r \in Reader, sync[r].pc = "idle", inbox[r] # << >>, Handled(r, "idle")
    PROVE  /\ Changes(sync, sync', r) /\ Changes(inbox, inbox', r) /\ inbox'[r] = Tail(inbox[r])
           /\ SyncOK(sync'[r]) /\ sync'[r].pc = "idle"
           /\ sync'[r].heard = sync[r].heard \cup {Head(inbox[r]).key}
           /\ kv' = kv /\ watching' = watching /\ objects' = objects /\ breaks' = breaks
<1>1. /\ kv' = kv /\ watching' = watching /\ objects' = objects /\ breaks' = breaks
      /\ inbox' = [inbox EXCEPT ![r] = Tail(@)]
      /\ sync' = [sync EXCEPT ![r].pc = "idle", ![r].heard = @ \cup {Head(inbox[r]).key}]
  BY Zenon DEF Handled
<1>2. Changes(inbox, inbox', r) /\ inbox'[r] = Tail(inbox[r])
  BY <1>1, ReaderFields, Zenon DEF Changes
<1>3. /\ Changes(sync, sync', r)
      /\ sync'[r] = [sync[r] EXCEPT !.pc = "idle", !.heard = @ \cup {Head(inbox[r]).key}]
  BY <1>1, ReaderFields, Zenon DEF Changes
<1>4. SyncOK(sync'[r]) /\ sync'[r].pc = "idle"
      /\ sync'[r].heard = sync[r].heard \cup {Head(inbox[r]).key}
  BY <1>3, ReaderFields DEF SyncOK, Phase, Following
<1> QED BY <1>1, <1>2, <1>3, <1>4, Zenon

\* The first event of a reader that follows.
LEMMA FirstEvent ==
    ASSUME ViewInv, NEW r \in Reader, sync[r].pc = "idle", inbox[r] # << >>
    PROVE  /\ Head(inbox[r]).key \in IngestionKey /\ Head(inbox[r]).value \in ValueType
           /\ Head(inbox[r]).key = "recent" => Head(inbox[r]).value # Null
           /\ view[r] \in ViewType /\ r \in DOMAIN view
<1>1. AreEvents(inbox[r]) /\ view[r] \in ViewType /\ r \in DOMAIN view
  BY ReaderFields, Zenon DEF ReaderOK, Following
<1>2. /\ Head(inbox[r]) = inbox[r][1] /\ Head(inbox[r]) \in EventType /\ 1 \in 1 .. Len(inbox[r])
  BY <1>1, TailFacts DEF AreEvents
<1> QED BY <1>1, <1>2, Zenon DEF AreEvents, EventType

\* One field of a view is set.
Showing(v, key, x) == [v EXCEPT ![key] = x]

LEMMA FieldIsSet ==
    ASSUME NEW v \in ViewType, NEW key \in ViewKey, NEW x \in ValueType, NEW w,
           w = Showing(v, key, x)
    PROVE  w \in ViewType /\ w[key] = x /\ \A k \in ViewKey : k # key => w[k] = v[k]
BY Zenon DEF ViewType, ViewKey, Showing

LEMMA EventIsShown ==
    ASSUME NEW v \in ViewType, NEW e, e.key \in ViewKey, e.value \in ValueType, NEW w,
           w = Showing(v, e.key, e.value), NEW rest
    PROVE  Shows(v, w, e, rest)
BY FieldIsSet DEF Shows

\* Every update but Recent.
LEMMA ApplyUpdateKeepsInv ==
    ASSUME ViewInv, NEW r \in Reader, ApplyUpdate(r)
    PROVE  ViewInv'
<1> DEFINE e == Head(inbox[r])
           Shown == Changes(view, view', r) /\ Shows(view[r], view'[r], e, Tail(inbox[r]))
<1>1. /\ sync[r].pc = "idle" /\ inbox[r] # << >> /\ e.key # "recent" /\ Handled(r, "idle")
      /\ e.key = "finalized" => SetFinalized(r, e.value)
      /\ e.key = "segmented" => SetSegmented(r, e.value)
      /\ e.key = "grouped" => SetGrouped(r, e.value)
      /\ e.key = "pending" => SetPending(r, e.value)
      /\ e.key \notin ViewKey => view' = view
  BY Zenon DEF ApplyUpdate, ViewKey
<1>2. /\ e.key \in IngestionKey /\ e.value \in ValueType /\ view[r] \in ViewType /\ r \in DOMAIN view
  BY <1>1, FirstEvent, Zenon
<1> HIDE DEF e
<1>3. "recent" # e.key /\ {"finalized", "segmented", "grouped", "pending"} \subseteq ViewKey
  BY <1>1, Zenon DEF ViewKey
<1>4. ASSUME e.key = "finalized" PROVE Shown
  <2>1. view' = [view EXCEPT ![r].finalized = e.value]
    BY <1>1, <1>4, Zenon DEF SetFinalized, e
  <2>2. Changes(view, view', r) /\ view'[r] = Showing(view[r], e.key, e.value)
    BY <1>2, <1>4, <2>1, Zenon DEF Changes, Showing
  <2>3. e.key \in ViewKey
    BY <1>3, <1>4, Zenon
  <2> QED BY <1>2, <2>2, <2>3, EventIsShown, Zenon
<1>5. ASSUME e.key = "segmented" PROVE Shown
  <2>1. view' = [view EXCEPT ![r].segmented = e.value]
    BY <1>1, <1>5, Zenon DEF SetSegmented, e
  <2>2. Changes(view, view', r) /\ view'[r] = Showing(view[r], e.key, e.value)
    BY <1>2, <1>5, <2>1, Zenon DEF Changes, Showing
  <2>3. e.key \in ViewKey
    BY <1>3, <1>5, Zenon
  <2> QED BY <1>2, <2>2, <2>3, EventIsShown, Zenon
<1>6. ASSUME e.key = "grouped" PROVE Shown
  <2>1. view' = [view EXCEPT ![r].grouped = e.value]
    BY <1>1, <1>6, Zenon DEF SetGrouped, e
  <2>2. Changes(view, view', r) /\ view'[r] = Showing(view[r], e.key, e.value)
    BY <1>2, <1>6, <2>1, Zenon DEF Changes, Showing
  <2>3. e.key \in ViewKey
    BY <1>3, <1>6, Zenon
  <2> QED BY <1>2, <2>2, <2>3, EventIsShown, Zenon
<1>7. ASSUME e.key = "pending" PROVE Shown
  <2>1. view' = [view EXCEPT ![r].pending = e.value]
    BY <1>1, <1>7, Zenon DEF SetPending, e
  <2>2. Changes(view, view', r) /\ view'[r] = Showing(view[r], e.key, e.value)
    BY <1>2, <1>7, <2>1, Zenon DEF Changes, Showing
  <2>3. e.key \in ViewKey
    BY <1>3, <1>7, Zenon
  <2> QED BY <1>2, <2>2, <2>3, EventIsShown, Zenon
<1>8. ASSUME e.key \notin ViewKey PROVE Shown
  BY <1>1, <1>2, <1>8, Zenon DEF Changes, Shows
<1>9. Shown
  BY <1>1, <1>4, <1>5, <1>6, <1>7, <1>8, Zenon DEF ViewKey
<1>10. /\ Changes(sync, sync', r) /\ Changes(inbox, inbox', r) /\ inbox'[r] = Tail(inbox[r])
       /\ SyncOK(sync'[r]) /\ sync'[r].pc = "idle" /\ sync'[r].heard = sync[r].heard \cup {e.key}
       /\ kv' = kv /\ watching' = watching /\ objects' = objects /\ breaks' = breaks
  BY <1>1, HandledFacts, Zenon DEF e
<1>11. ReaderOK(r, sync'[r], inbox'[r], view'[r], watching, Values)
  <2>1. ReaderOK(r, sync[r], inbox[r], view[r], watching, Values)
    BY ReaderFields, Zenon
  <2>2. sync'[r].pc \in Following
    BY <1>10, Zenon DEF Following
  <2>3. ReaderOK(r, sync'[r], Tail(inbox[r]), view'[r], watching, Values)
    BY <1>1, <1>9, <1>10, <2>1, <2>2, TakeEvent, Zenon DEF e
  <2> QED BY <1>10, <2>3, Zenon
<1> QED BY <1>9, <1>10, <1>11, ReaderFields, OneReader, Zenon

\* A snapshot that is gone although an event names it is not the current one:
\* the event that names a later one is on its way.
LEMMA GoneIsSuperseded ==
    ASSUME ViewInv, NEW r \in Reader, sync[r].pc = "idle", inbox[r] # << >>,
           Head(inbox[r]).key = "recent", Head(inbox[r]).value \notin objects
    PROVE  Says(Tail(inbox[r]), "recent")
<1> SUFFICES ASSUME ~Says(Tail(inbox[r]), "recent") PROVE FALSE
  BY Zenon
<1>1. inbox[r] \in Seq(EventType) /\ Agrees(inbox[r], "recent", GetRecent, sync[r].heard, view[r].recent)
  BY ReaderFields, Zenon
     DEF ReaderOK, FollowerOK, Following, AreEvents, Values, GetRecent, ViewKey
<1>2. Agrees(Tail(inbox[r]), "recent", GetRecent, {"recent"}, Head(inbox[r]).value)
  BY <1>1, EventTaken, Zenon
<1>3. Head(inbox[r]).value = GetRecent
  BY <1>2, Zenon DEF Agrees
<1>4. GetRecent # Null
  BY <1>3, FirstEvent, Zenon
<1> QED BY <1>3, <1>4, Zenon DEF ViewInv, StoreOK

LEMMA ApplyRecentKeepsInv ==
    ASSUME ViewInv, NEW r \in Reader, ApplyRecent(r)
    PROVE  ViewInv'
<1> DEFINE e == Head(inbox[r])
<1>1. /\ sync[r].pc = "idle" /\ inbox[r] # << >> /\ e.key = "recent"
      /\ e.value \in ValueType /\ view[r] \in ViewType /\ r \in DOMAIN view
  BY FirstEvent, Zenon DEF ApplyRecent
<1>2. ReaderOK(r, sync[r], inbox[r], view[r], watching, Values) /\ "recent" \in ViewKey
  BY ReaderFields, Zenon DEF ViewKey
<1>3. CASE e.value \in objects
  <2>1. view' = [view EXCEPT ![r].recent = e.value] /\ Handled(r, "idle")
    BY <1>3, Zenon DEF ApplyRecent, SetRecent
  <2>2. /\ Changes(sync, sync', r) /\ Changes(inbox, inbox', r) /\ inbox'[r] = Tail(inbox[r])
        /\ SyncOK(sync'[r]) /\ sync'[r].pc = "idle" /\ sync'[r].heard = sync[r].heard \cup {e.key}
        /\ kv' = kv /\ watching' = watching /\ objects' = objects /\ breaks' = breaks
    BY <1>1, <2>1, HandledFacts, Zenon
  <2>3. Changes(view, view', r) /\ view'[r] = Showing(view[r], e.key, e.value)
    BY <1>1, <2>1, Zenon DEF Changes, Showing
  <2>4. Shows(view[r], view'[r], e, Tail(inbox[r]))
    BY <1>1, <1>2, <2>3, EventIsShown, Zenon
  <2>5. ReaderOK(r, sync'[r], inbox'[r], view'[r], watching, Values)
    <3>1. sync'[r].pc \in Following
      BY <2>2, Zenon DEF Following
    <3>2. ReaderOK(r, sync'[r], Tail(inbox[r]), view'[r], watching, Values)
      BY <1>1, <1>2, <2>2, <2>4, <3>1, TakeEvent, Zenon
    <3> QED BY <2>2, <3>2, Zenon
  <2> QED BY <2>2, <2>3, <2>5, ReaderFields, OneReader, Zenon
<1>4. CASE e.value \notin objects
  <2>1. /\ inbox' = [inbox EXCEPT ![r] = Tail(@)]
        /\ sync' = [sync EXCEPT ![r].pc = "reread", ![r].pointer = e.value, ![r].heard = @ \cup {"recent"}]
        /\ kv' = kv /\ watching' = watching /\ objects' = objects /\ breaks' = breaks /\ view' = view
    BY <1>4, Zenon DEF ApplyRecent
  <2>2. Changes(inbox, inbox', r) /\ inbox'[r] = Tail(inbox[r]) /\ Changes(view, view', r)
    BY <2>1, ReaderFields, Zenon DEF Changes
  <2>3. /\ Changes(sync, sync', r)
        /\ sync'[r] = [sync[r] EXCEPT !.pc = "reread", !.pointer = e.value, !.heard = @ \cup {"recent"}]
    BY <2>1, ReaderFields, Zenon DEF Changes
  <2>4. /\ SyncOK(sync'[r]) /\ sync'[r].pc = "reread" /\ sync'[r].heard = sync[r].heard \cup {e.key}
    BY <1>1, <2>3, ReaderFields DEF SyncOK, Phase, Following
  <2>5. Says(Tail(inbox[r]), "recent")
    BY <1>1, <1>4, GoneIsSuperseded, Zenon
  <2>6. ReaderOK(r, sync'[r], inbox'[r], view'[r], watching, Values)
    <3>1. sync'[r].pc \in Following
      BY <2>4, Zenon DEF Following
    <3>2. ReaderOK(r, sync'[r], Tail(inbox[r]), view[r], watching, Values)
      <4>1. Shows(view[r], view[r], e, Tail(inbox[r]))
        BY <1>1, <2>5, Zenon DEF Shows
      <4> QED BY <1>1, <1>2, <2>4, <2>5, <3>1, <4>1, TakeEvent, Zenon
    <3> QED BY <2>1, <2>2, <3>2, Zenon
  <2> QED BY <2>1, <2>2, <2>3, <2>6, ReaderFields, OneReader, Zenon
<1> QED BY <1>3, <1>4, Zenon

\* The pointer is read again.
LEMMA RereadKeepsInv ==
    ASSUME ViewInv, NEW r \in Reader, RereadPointer(r)
    PROVE  ViewInv'
<1> DEFINE y == sync[r]
           z == IF GetRecent # Null /\ GetRecent.key # y.pointer.key
                THEN [y EXCEPT !.pc = "refetch", !.pointer = GetRecent]
                ELSE [y EXCEPT !.pc = "idle", !.pointer = Null]
<1>1. /\ y.pc = "reread" /\ sync' = [sync EXCEPT ![r] = z] /\ view' = view /\ inbox' = inbox
      /\ kv' = kv /\ watching' = watching /\ objects' = objects /\ breaks' = breaks
  BY Zenon DEF RereadPointer, Step, stateVars
<1>2. GetRecent \in ValueType /\ Null \in ValueType /\ SyncOK(y)
  BY ReadValues, ReaderFields, Zenon DEF ValueType
<1>3. SyncOK(z) /\ z.pc \in {"idle", "refetch"} /\ z.heard = y.heard
  BY <1>1, <1>2, Zenon DEF SyncOK, Phase, Following
<1> HIDE DEF y, z
<1>4. ReaderOK(r, y, inbox[r], view[r], watching, Values)
  BY ReaderFields, Zenon DEF y
<1>5. ReaderOK(r, z, inbox[r], view[r], watching, Values)
  BY <1>1, <1>3, <1>4, Zenon DEF ReaderOK, FollowerOK, Following
<1> QED BY <1>1, <1>5, ReaderFields, ReaderStep, Zenon

\* The snapshot that is current by now is shown; the event about it, or about
\* a later one, is on its way.
LEMMA RefetchKeepsInv ==
    ASSUME ViewInv, NEW r \in Reader, RefetchRecent(r)
    PROVE  ViewInv'
<1> DEFINE y == sync[r]
<1>1. /\ y.pc = "refetch" /\ inbox' = inbox /\ kv' = kv /\ watching' = watching
      /\ objects' = objects /\ breaks' = breaks
      /\ sync' = [sync EXCEPT ![r].pc = "idle", ![r].pointer = Null]
      /\ view' = [view EXCEPT ![r].recent = y.pointer] \/ view' = view
  BY Zenon DEF RefetchRecent, SetRecent, stateVars
<1>2. /\ Changes(sync, sync', r) /\ sync'[r] = [y EXCEPT !.pc = "idle", !.pointer = Null]
  BY <1>1, ReaderFields, Zenon DEF Changes
<1>3. /\ SyncOK(sync'[r]) /\ sync'[r].pc = "idle" /\ sync'[r].heard = y.heard /\ y.pointer \in ValueType
  BY <1>2, ReaderFields DEF SyncOK, Phase, Following, ValueType
<1>4. ReaderOK(r, y, inbox[r], view[r], watching, Values) /\ r \in DOMAIN view
  BY ReaderFields, Zenon
<1>5. /\ view[r] \in ViewType /\ Says(inbox[r], "recent") /\ r \in watching /\ AreEvents(inbox[r])
      /\ \A k \in ViewKey : Agrees(inbox[r], k, Values[k], y.heard, view[r][k])
  BY <1>1, <1>4, Zenon DEF ReaderOK, FollowerOK, Following
<1>6. /\ Changes(view, view', r) /\ view'[r] \in {Showing(view[r], "recent", y.pointer), view[r]}
  BY <1>1, <1>4, Zenon DEF Changes, Showing
<1>7. view'[r] \in ViewType /\ \A k \in ViewKey : k # "recent" => view'[r][k] = view[r][k]
  <2>1. "recent" \in ViewKey
    BY Zenon DEF ViewKey
  <2>2. CASE view'[r] = view[r]
    BY <1>5, <2>2, Zenon
  <2>3. CASE view'[r] = Showing(view[r], "recent", y.pointer)
    BY <1>3, <1>5, <2>1, <2>3, FieldIsSet
  <2> QED BY <1>6, <2>2, <2>3, Zenon
<1>8. ASSUME NEW k \in ViewKey
      PROVE  Agrees(inbox[r], k, Values[k], y.heard, view'[r][k])
  <2>1. CASE k = "recent"
    BY <1>5, <2>1, Zenon DEF Agrees
  <2>2. CASE k # "recent"
    BY <1>5, <1>7, <2>2, Zenon
  <2> QED BY <2>1, <2>2, Zenon
<1> HIDE DEF y
<1>9. ReaderOK(r, sync'[r], inbox[r], view'[r], watching, Values)
  BY <1>3, <1>5, <1>7, <1>8, Zenon DEF ReaderOK, FollowerOK, Following
<1>10. Changes(inbox, inbox', r)
  BY <1>1, Zenon DEF Changes
<1> QED BY <1>1, <1>2, <1>6, <1>9, <1>10, ReaderFields, OneReader, Zenon

-----------------------------------------------------------------------------
(* The theorems                                                            *)

LEMMA ViewStart ==
    ASSUME ViewInit \/ LegacyInit
    PROVE  ViewInv
<1>1. /\ watching = {} /\ inbox = [r \in Reader |-> << >>] /\ view = [r \in Reader |-> Null]
      /\ sync = [r \in Reader |-> SyncStart] /\ breaks = 0
  BY Zenon DEF ViewInit, LegacyInit, StateInit, SyncInit
<1>2. StoreOK
  <2>1. DOMAIN kv = Key
    BY Zenon DEF ViewInit, LegacyInit, StateInit
  <2>2. ASSUME NEW key \in Key
        PROVE  kv[key].value \in ValueType /\ kv[key].revision \in Nat
    <3>1. CASE ViewInit
      BY <3>1, Zenon DEF ViewInit, StateInit, Missing, ValueType
    <3>2. CASE LegacyInit
      <4>1. kv[key] \in {[value |-> 1, revision |-> 0], [value |-> StartingBlock, revision |-> 0], Missing}
        BY <3>2, Zenon DEF LegacyInit
      <4> QED BY <4>1, StartingBlockAssumption DEF Missing, ValueType
    <3> QED BY <3>1, <3>2, Zenon
  <2>3. GetRecent = Null
    <3>1. CASE ViewInit
      BY <3>1, Zenon DEF ViewInit, StateInit, Missing, GetRecent, Get, Key, IngestionKey
    <3>2. CASE LegacyInit
      <4>1. kv["recent"] = Missing
        BY <3>2, Zenon DEF LegacyInit, Key, IngestionKey, OptionKey
      <4> QED BY <4>1 DEF Missing, GetRecent, Get
    <3> QED BY <3>1, <3>2, Zenon
  <2> QED BY <2>1, <2>2, <2>3, Zenon DEF StoreOK
<1>3. SyncOK(SyncStart) /\ SyncStart.pc = "starting"
  BY Zenon DEF SyncOK, SyncStart, Phase, Following, ValueType
<1>4. ASSUME NEW r \in Reader
      PROVE  ReaderOK(r, sync[r], inbox[r], view[r], watching, Values)
  <2>1. sync[r] = SyncStart /\ inbox[r] = << >> /\ view[r] = Null /\ r \notin watching
    BY <1>1, Zenon
  <2> QED BY <1>3, <2>1, NoEvent, Zenon DEF ReaderOK, Following
<1>5. breaks \in 0 .. MaxBreaks
  BY <1>1, ViewAssumption
<1> QED BY <1>1, <1>2, <1>4, <1>5, Zenon DEF ViewInv, ReadersOK

LEMMA ViewStep ==
    ASSUME ViewInv, [ViewNext]_viewVars
    PROVE  ViewInv'
<1>1. CASE UNCHANGED viewVars
  <2>1. UNCHANGED <<kv, watching, inbox, objects, sync, view, breaks>>
    BY <1>1, Zenon DEF viewVars, stateVars, syncVars
  <2> QED BY <2>1, Zenon DEF ViewInv, StoreOK, ReadersOK, Values, GetRecent, Get
<1>2. CASE IngesterNext
  BY <1>2, IngesterKeepsInv, Zenon
<1>3. ASSUME NEW key \in Conditional, CompactorAdvances(key)
      PROVE  ViewInv'
  BY <1>3, CompactorKeepsInv, Zenon
<1>4. ASSUME NEW key \in OptionKey, OptionIsSet(key)
      PROVE  ViewInv'
  BY <1>4, OptionKeepsInv, Zenon
<1>5. ASSUME NEW r \in Reader, SyncStep(r) \/ WatchBreaks(r)
      PROVE  ViewInv'
  BY <1>5, StartKeepsInv, SendViewKeepsInv, WatchKeepsInv, ApplyUpdateKeepsInv,
     ApplyRecentKeepsInv, RereadKeepsInv, RefetchKeepsInv, BreakKeepsInv, Zenon DEF SyncStep
<1> QED BY <1>1, <1>2, <1>3, <1>4, <1>5, Zenon DEF ViewNext

\* ViewInv holds in every state of ChainViewSync.
LEMMA ViewInductive == ViewSpec => []ViewInv
BY ViewStart, ViewStep, PTL DEF ViewSpec

\* The state of the service has its type, and a view exists exactly once the
\* service has got past its start, for any number of readers, tasks,
\* publications and broken watches (sync.rs, view.rs).
THEOREM ViewTypes == ViewSpec => []ViewTypeOK
<1>1. ViewInv => ViewTypeOK
  <2> SUFFICES ASSUME ViewInv PROVE ViewTypeOK
    BY Zenon
  <2>1. ASSUME NEW r \in Reader
        PROVE  /\ sync[r].pc \in Phase
               /\ view[r] # Null <=> sync[r].pc \in {"watch", "idle", "reread", "refetch"}
               /\ r \in watching <=> sync[r].pc \in {"idle", "reread", "refetch"}
    <3>1. ReaderOK(r, sync[r], inbox[r], view[r], watching, Values)
      BY ReaderFields, Zenon
    <3>2. Null \notin ViewType
      BY NullIsNoRecord, Zenon
    <3> QED BY <3>1, <3>2, Zenon DEF ReaderOK, SyncOK, Following
  <2> QED BY <2>1, Zenon DEF ViewInv, StoreOK, ReadersOK, ViewTypeOK
<1> QED BY <1>1, ViewInductive, PTL

\* A reader that has handled all that it was sent shows the current value of
\* every key it was told about since its watch was opened, and the newest
\* snapshot, whatever was published, superseded or deleted in between
\* (sync.rs 284-328).
THEOREM QuietViews == ViewSpec => []QuietViewIsCurrent
<1>1. ViewInv => QuietViewIsCurrent
  <2> SUFFICES ASSUME ViewInv, NEW r \in Reader, sync[r].pc = "idle", inbox[r] = << >>,
                      NEW key \in sync[r].heard \cap DOMAIN view[r]
               PROVE  view[r][key] = Get(key)
    BY Zenon DEF QuietViewIsCurrent
  <2>1. view[r] \in ViewType /\ \A k \in ViewKey : Agrees(<< >>, k, Values[k], sync[r].heard, view[r][k])
    BY ReaderFields, Zenon DEF ReaderOK, FollowerOK, Following
  <2>2. key \in ViewKey
    BY <2>1, Zenon DEF ViewType, ViewKey
  <2>3. view[r][key] = Values[key]
    BY <2>1, <2>2, NoEvent, Zenon DEF Agrees
  <2> QED BY <2>2, <2>3, Zenon DEF Values
<1> QED BY <1>1, ViewInductive, PTL

=============================================================================

-------------------------- MODULE CompactionProofs --------------------------
(***************************************************************************)
(* Compaction is safe for every number of processes, every size of         *)
(* segments and groups and every chain: the cursors in etcd never move     *)
(* back, no block is lost or reported pruned before it is gone, and one    *)
(* process compacts as long as no lease expires.                           *)
(*                                                                         *)
(* The heart of the invariant is that whatever a process knows of a cursor *)
(* of etcd, in its view, in the events it has not handled and in what its  *)
(* synchronisation has read so far, is at most what etcd says now.         *)
(***************************************************************************)
EXTENDS Compaction, TLAPS

-----------------------------------------------------------------------------
(* The invariant.                                                          *)

\* A cursor that is not set, or is a block up to another cursor.
AtMost(x, y) == x = Null \/ (x \in Nat /\ y \in Nat /\ x <= y)

EventType == [key : IngestionKey, value : Nat \cup {Null} \cup PointerType]

\* What is known of the cursors segmented, grouped and of the head is at most
\* s, g and h: in a view ...
ViewOK(v, s, g, h) ==
    /\ DOMAIN v = {"finalized", "segmented", "grouped", "recent", "pending"}
    /\ AtMost(v.segmented, s)
    /\ AtMost(v.grouped, g)
    /\ v.recent.head \in Nat /\ v.recent.head <= h

\* ... in an event on its way ...
EventOK(e, s, g, h) ==
    /\ e \in EventType
    /\ e.key = "segmented" => AtMost(e.value, s)
    /\ e.key = "grouped" => AtMost(e.value, g)
    /\ e.key = "recent" => e.value \in PointerType /\ e.value.head <= h

\* ... and in the synchronisation service.
SyncOK(y, s, g, h) ==
    /\ DOMAIN y = {"pc", "finalized", "segmented", "grouped", "pointer", "heard"}
    /\ AtMost(y.segmented, s)
    /\ AtMost(y.grouped, g)
    /\ y.pc \in {"fetch", "options", "refetch"} =>
          y.pointer \in PointerType /\ y.pointer.head <= h

HasView == {"watch", "idle", "reread", "refetch"}

\* A process with synchronisation y, events, view v and loop state l.
ReaderOK(y, events, v, l, s, g, h) ==
    /\ SyncOK(y, s, g, h)
    /\ events \in Seq(EventType)
    /\ \A i \in 1 .. Len(events) : EventOK(events[i], s, g, h)
    /\ v = Null \/ ViewOK(v, s, g, h)
    /\ y.pc \in HasView \/ l = "running" => ViewOK(v, s, g, h)

\* The head of the published chain.
ChainHead == GetRecent.head

ReadersOK ==
    /\ DOMAIN sync = Reader /\ DOMAIN inbox = Reader /\ DOMAIN view = Reader
    /\ DOMAIN loop = Reader
    /\ \A p \in Reader : ReaderOK(sync[p], inbox[p], view[p], loop[p],
                                  GetSegmented, GetGrouped, ChainHead)

\* The cursors of etcd: the groups end before the segments, and the segments
\* where there is a chain.
KvOK ==
    /\ DOMAIN kv = Key
    /\ \A key \in Conditional : kv[key].revision \in Nat
    /\ GetRecent \in PointerType
    /\ GetLegacyIngested = Null
    /\ GetFinalized \in Nat
    /\ AtMost(GetSegmented, ChainHead)
    /\ GetGrouped # Null => /\ GetGrouped \in Nat /\ GetSegmented \in Nat
                            /\ GetGrouped < GetSegmented
    /\ AtMost(GetPruned, GetGrouped)
    /\ GetPruned # Null => GetPruned >= StartingBlock

\* No block from the first on up to n is among the blocks stored.
GoneTo(n, stored) == \A block \in StartingBlock .. n : block \notin stored

StoreOK ==
    /\ \A block \in StartingBlock .. ChainHead :
          block \notin blocks => GetGrouped # Null /\ block <= GetGrouped
    /\ GetPruned # Null => GoneTo(GetPruned, blocks)

\* A cursor that was read and is about to be written over.
ReadOK(read, entry, last) ==
    /\ read.revision \in Nat
    /\ read.revision <= entry.revision
    /\ read.revision = entry.revision => read.value = entry.value
    /\ ~IsNotHigher(read, last)

Working == {"read", "upload", "put", "txn"}

\* A segment of n blocks in the making ends below the head h; what it replaces
\* is the entry es.
SegmentOK(t, n, h, es) ==
    /\ t.pc \in Working => n \in Nat \ {0} /\ t.first \in Nat /\ t.first + n <= h
    /\ t.pc = "txn" => ReadOK(t.read, es, t.first + n - 1)

\* A group of m segments of n blocks in the making ends below the segmented cursor.
GroupOK(t, n, m, es, eg) ==
    /\ t.pc \in Working => /\ n \in Nat \ {0} /\ t.first \in Nat /\ es.value \in Nat
                           /\ t.first + m * n <= es.value
    /\ t.pc = "txn" => ReadOK(t.read, eg, t.first + m * n - 1)

\* A round of pruning stays within what is grouped and leaves nothing behind.
PruneOK(t, g, stored) ==
    /\ AtMost(t.limit, g)
    /\ t.pc \in {"pruned", "delete", "put"} => t.limit # Null
    /\ t.pc \in {"delete", "put"} =>
          /\ t.first \in Nat /\ StartingBlock <= t.first /\ t.first - 1 <= t.limit
          /\ GoneTo(t.first - 1, stored)
    /\ t.pc = "delete" => t.first <= t.limit
    /\ t.pc = "put" => StartingBlock < t.first
    /\ t.pc = "gap" /\ t.limit # Null => GoneTo(t.limit - 1, stored)

\* State t of a task of a process with segments of n blocks and groups of m segments.
TaskOK(name, t, n, m, h, es, eg, stored) ==
    /\ DOMAIN t = {"pc", "first", "todo", "part", "read", "limit", "on"}
    /\ name = "segment" => SegmentOK(t, n, h, es)
    /\ name = "group" => GroupOK(t, n, m, es, eg)
    /\ name = "prune" => PruneOK(t, eg.value, stored)

TasksOK ==
    /\ size \in [Reader -> (Nat \ {0}) \cup {Null}]
    /\ left.tasks \subseteq Task
    /\ DOMAIN task = Reader
    /\ \A p \in Reader :
          /\ DOMAIN task[p] = Task
          /\ \A name \in Task : TaskOK(name, task[p][name], size[p], GroupSizeOf[p], ChainHead,
                                       kv["segmented"], kv["grouped"], blocks)

\* As long as no lease has expired, the process in the loop has the lock.
LockOK ==
    /\ DOMAIN left = {"expiries", "failures", "missed", "expired", "tasks"}
    /\ ~left.expired => \A p \in Reader : loop[p] # "lock" => lock = p

Inv == KvOK /\ ReadersOK /\ StoreOK /\ TasksOK /\ LockOK

-----------------------------------------------------------------------------
(* What is known stays right while etcd moves on.                          *)

\* From head h, segmented entry es, grouped entry eg and the blocks stored to
\* later ones: nothing moves back, and new blocks are above what is grouped.
Advances(h, es, eg, stored, h2, es2, eg2, stored2) ==
    /\ h \in Nat /\ h2 \in Nat /\ h <= h2
    /\ AtMost(es.value, es2.value) /\ AtMost(eg.value, eg2.value)
    /\ es.revision \in Nat /\ es2.revision \in Nat /\ es.revision <= es2.revision
    /\ es.revision = es2.revision => es.value = es2.value
    /\ eg.revision \in Nat /\ eg2.revision \in Nat /\ eg.revision <= eg2.revision
    /\ eg.revision = eg2.revision => eg.value = eg2.value
    /\ \A block \in stored2 \ stored : eg.value = Null \/ block > eg.value

\* The chain may grow above what is grouped while the cursors stay.
LEMMA EntriesStay ==
    ASSUME NEW h \in Nat, NEW h2 \in Nat, h <= h2, NEW es, NEW eg, NEW stored, NEW stored2,
           AtMost(es.value, es.value), AtMost(eg.value, eg.value),
           es.revision \in Nat, eg.revision \in Nat,
           \A block \in stored2 \ stored : eg.value = Null \/ block > eg.value
    PROVE  Advances(h, es, eg, stored, h2, es, eg, stored2)
BY DEF Advances

\* What is at most a block is at most the next one.
LEMMA AtMostNext ==
    ASSUME NEW x, NEW y \in Nat, AtMost(x, y)
    PROVE  AtMost(x, y + 1)
BY DEF AtMost

LEMMA AtMostIsTransitive ==
    ASSUME NEW x, NEW y, NEW z, AtMost(x, y), AtMost(y, z)
    PROVE  AtMost(x, z)
  BY NullIsNoNumber DEF AtMost

LEMMA KnowledgeStays ==
    ASSUME NEW s, NEW g, NEW h \in Nat, NEW s2, NEW g2, NEW h2 \in Nat,
           AtMost(s, s2), AtMost(g, g2), h <= h2
    PROVE  /\ \A v : ViewOK(v, s, g, h) => ViewOK(v, s2, g2, h2)
           /\ \A e : EventOK(e, s, g, h) => EventOK(e, s2, g2, h2)
           /\ \A y : SyncOK(y, s, g, h) => SyncOK(y, s2, g2, h2)
<1>1. ASSUME NEW v, ViewOK(v, s, g, h) PROVE ViewOK(v, s2, g2, h2)
  <2>1. AtMost(v.segmented, s2) /\ AtMost(v.grouped, g2)
    BY <1>1, AtMostIsTransitive, Zenon DEF ViewOK
  <2> QED BY <1>1, <2>1 DEF ViewOK
<1>2. ASSUME NEW e, EventOK(e, s, g, h) PROVE EventOK(e, s2, g2, h2)
  <2>1. e.key = "segmented" => AtMost(e.value, s2)
    BY <1>2, AtMostIsTransitive, Zenon DEF EventOK
  <2>2. e.key = "grouped" => AtMost(e.value, g2)
    BY <1>2, AtMostIsTransitive, Zenon DEF EventOK
  <2> QED BY <1>2, <2>1, <2>2 DEF EventOK, PointerType
<1>3. ASSUME NEW y, SyncOK(y, s, g, h) PROVE SyncOK(y, s2, g2, h2)
  <2>1. AtMost(y.segmented, s2) /\ AtMost(y.grouped, g2)
    BY <1>3, AtMostIsTransitive, Zenon DEF SyncOK
  <2> QED BY <1>3, <2>1 DEF SyncOK, PointerType
<1> QED BY <1>1, <1>2, <1>3, Zenon

LEMMA GoneStays ==
    ASSUME NEW n \in Int, NEW g \in Nat, n <= g, NEW stored, NEW stored2, GoneTo(n, stored),
           \A block \in stored2 \ stored : block > g
    PROVE  GoneTo(n, stored2)
  BY StartingBlockAssumption DEF GoneTo

LEMMA TaskStays ==
    ASSUME NEW name, NEW t, NEW n, NEW m \in Nat, NEW h, NEW es, NEW eg, NEW stored,
           NEW h2, NEW es2, NEW eg2, NEW stored2,
           TaskOK(name, t, n, m, h, es, eg, stored),
           Advances(h, es, eg, stored, h2, es2, eg2, stored2)
    PROVE  TaskOK(name, t, n, m, h2, es2, eg2, stored2)
<1>1. \A read, last : ReadOK(read, es, last) => ReadOK(read, es2, last)
  BY DEF ReadOK, Advances
<1>2. \A read, last : ReadOK(read, eg, last) => ReadOK(read, eg2, last)
  BY DEF ReadOK, Advances
<1>3. ASSUME name = "segment" PROVE SegmentOK(t, n, h2, es2)
  <2>1. SegmentOK(t, n, h, es) /\ h \in Nat /\ h2 \in Nat /\ h <= h2
    BY <1>3, Zenon DEF TaskOK, Advances
  <2> QED BY <1>1, <2>1 DEF SegmentOK
<1>4. ASSUME name = "group" PROVE GroupOK(t, n, m, es2, eg2)
  <2>1. GroupOK(t, n, m, es, eg) /\ AtMost(es.value, es2.value)
    BY <1>4, Zenon DEF TaskOK, Advances
  <2>2. t.pc \in Working => es2.value \in Nat /\ es.value <= es2.value
    BY <2>1, NullIsNoNumber, Zenon DEF GroupOK, AtMost
  <2>3. n \in Nat => m * n \in Nat
    OBVIOUS
  <2> QED BY <1>2, <2>1, <2>2, <2>3 DEF GroupOK
<1>5. ASSUME name = "prune" PROVE PruneOK(t, eg2.value, stored2)
  <2>1. PruneOK(t, eg.value, stored) /\ AtMost(eg.value, eg2.value)
        /\ \A block \in stored2 \ stored : eg.value = Null \/ block > eg.value
    BY <1>5, Zenon DEF TaskOK, Advances
  <2>2. AtMost(t.limit, eg2.value)
    BY <2>1, AtMostIsTransitive, Zenon DEF PruneOK
  <2>3. t.limit # Null => t.limit \in Nat /\ eg.value \in Nat /\ t.limit <= eg.value
                          /\ \A block \in stored2 \ stored : block > eg.value
    BY <2>1, NullIsNoNumber, Zenon DEF PruneOK, AtMost
  <2>4. t.pc \in {"delete", "put"} => GoneTo(t.first - 1, stored2)
    <3> SUFFICES ASSUME t.pc \in {"delete", "put"} PROVE GoneTo(t.first - 1, stored2)
      BY Zenon
    <3>1. t.first - 1 \in Int /\ t.first - 1 <= eg.value /\ GoneTo(t.first - 1, stored)
      BY <2>1, <2>3 DEF PruneOK
    <3> QED BY <2>1, <2>3, <3>1, GoneStays, Zenon DEF PruneOK
  <2>5. t.pc = "gap" /\ t.limit # Null => GoneTo(t.limit - 1, stored2)
    <3> SUFFICES ASSUME t.pc = "gap", t.limit # Null PROVE GoneTo(t.limit - 1, stored2)
      BY Zenon
    <3>1. t.limit - 1 \in Int /\ t.limit - 1 <= eg.value /\ GoneTo(t.limit - 1, stored)
      BY <2>1, <2>3 DEF PruneOK
    <3> QED BY <2>3, <3>1, GoneStays, Zenon
  <2> QED BY <2>1, <2>2, <2>4, <2>5, Zenon DEF PruneOK
<1> QED BY <1>3, <1>4, <1>5, Zenon DEF TaskOK

-----------------------------------------------------------------------------
(* Steps that leave a part of the state alone.                             *)

\* This step moves nothing back.
StepAdvances ==
    Advances(ChainHead, kv["segmented"], kv["grouped"], blocks,
             ChainHead', kv'["segmented"], kv'["grouped"], blocks')

LEMMA SameKv ==
    ASSUME KvOK, kv' = kv, blocks' \subseteq blocks
    PROVE  KvOK' /\ StepAdvances
<1>1. KvOK'
  BY Zenon DEF KvOK, Get, GetRecent, GetLegacyIngested, GetFinalized, GetSegmented, GetGrouped,
         GetPruned, ChainHead
<1>2. ChainHead \in Nat /\ ChainHead' = ChainHead
  BY Zenon DEF KvOK, PointerType, ChainHead, GetRecent, Get
<1>3. AtMost(kv["segmented"].value, kv["segmented"].value)
      /\ AtMost(kv["grouped"].value, kv["grouped"].value)
  BY DEF KvOK, AtMost, GetSegmented, GetGrouped, Get
<1>4. kv["segmented"].revision \in Nat /\ kv["grouped"].revision \in Nat
  BY Zenon DEF KvOK, Conditional
<1> QED BY <1>1, <1>2, <1>3, <1>4 DEF StepAdvances, Advances

LEMMA SameStore ==
    ASSUME StoreOK, kv' = kv, blocks' = blocks
    PROVE  StoreOK'
  BY Zenon DEF StoreOK, ChainHead, GetRecent, GetGrouped, GetPruned, Get

LEMMA SameLock ==
    ASSUME LockOK, UNCHANGED <<lock, loop>>, left'.expired = left.expired, DOMAIN left' = DOMAIN left
    PROVE  LockOK'
  BY Zenon DEF LockOK

\* What a process knows stays right.
LEMMA ReaderStays ==
    ASSUME NEW y, NEW events, NEW v, NEW l, NEW l2,
           ReaderOK(y, events, v, l, GetSegmented, GetGrouped, ChainHead), StepAdvances,
           l2 = "running" => l = "running" \/ v # Null
    PROVE  ReaderOK(y, events, v, l2, GetSegmented', GetGrouped', ChainHead')
<1> DEFINE s == GetSegmented
           g == GetGrouped
           h == ChainHead
           s2 == GetSegmented'
           g2 == GetGrouped'
           h2 == ChainHead'
<1>1. h \in Nat /\ h2 \in Nat /\ h <= h2 /\ AtMost(s, s2) /\ AtMost(g, g2)
  BY Zenon DEF StepAdvances, Advances, GetSegmented, GetGrouped, Get
<1>2. ReaderOK(y, events, v, l, s, g, h)
  BY Zenon
<1> HIDE DEF s, g, h, s2, g2, h2
<1>3. /\ \A w : ViewOK(w, s, g, h) => ViewOK(w, s2, g2, h2)
      /\ \A e : EventOK(e, s, g, h) => EventOK(e, s2, g2, h2)
      /\ \A z : SyncOK(z, s, g, h) => SyncOK(z, s2, g2, h2)
  BY <1>1, KnowledgeStays, Zenon
<1>4. ReaderOK(y, events, v, l2, s2, g2, h2)
  BY <1>2, <1>3, Zenon DEF ReaderOK
<1> QED BY <1>4, Zenon DEF s2, g2, h2

LEMMA SameReaders ==
    ASSUME ReadersOK, StepAdvances, UNCHANGED <<sync, view, inbox>>, DOMAIN loop' = Reader,
           \A p \in Reader : loop'[p] = "running" => loop[p] = "running" \/ view[p] # Null
    PROVE  ReadersOK'
<1> SUFFICES ASSUME NEW p \in Reader
             PROVE  ReaderOK(sync[p], inbox[p], view[p], loop'[p],
                             GetSegmented', GetGrouped', ChainHead')
  BY Zenon DEF ReadersOK
<1>1. ReaderOK(sync[p], inbox[p], view[p], loop[p], GetSegmented, GetGrouped, ChainHead)
  BY Zenon DEF ReadersOK
<1> QED BY <1>1, ReaderStays, Zenon

\* One process changes its view, its service or its loop.
LEMMA OneReader ==
    ASSUME ReadersOK, kv' = kv, NEW r \in Reader,
           DOMAIN sync' = Reader, DOMAIN inbox' = Reader, DOMAIN view' = Reader,
           DOMAIN loop' = Reader,
           \A p \in Reader \ {r} : /\ sync'[p] = sync[p] /\ inbox'[p] = inbox[p]
                                   /\ view'[p] = view[p] /\ loop'[p] = loop[p],
           ReaderOK(sync'[r], inbox'[r], view'[r], loop'[r], GetSegmented, GetGrouped, ChainHead)
    PROVE  ReadersOK'
<1>1. GetSegmented' = GetSegmented /\ GetGrouped' = GetGrouped /\ ChainHead' = ChainHead
  BY Zenon DEF GetSegmented, GetGrouped, ChainHead, GetRecent, Get
<1>2. \A p \in Reader : ReaderOK(sync'[p], inbox'[p], view'[p], loop'[p],
                                 GetSegmented, GetGrouped, ChainHead)
  BY Zenon DEF ReadersOK
<1> QED BY <1>1, <1>2, Zenon DEF ReadersOK

\* The events of a write reach those who watch.
LEMMA EventsAreSent ==
    ASSUME ReadersOK, StepAdvances, UNCHANGED <<sync, view, loop>>,
           NEW events \in Seq(EventType), Send(events),
           \A i \in 1 .. Len(events) :
               EventOK(events[i], GetSegmented', GetGrouped', ChainHead')
    PROVE  ReadersOK'
<1> SUFFICES ASSUME NEW p \in Reader
             PROVE  ReaderOK(sync[p], inbox'[p], view[p], loop[p],
                             GetSegmented', GetGrouped', ChainHead')
  BY Zenon DEF ReadersOK, Send
<1>1. ReaderOK(sync[p], inbox[p], view[p], loop[p], GetSegmented', GetGrouped', ChainHead')
  BY ReaderStays, Zenon DEF ReadersOK
<1>2. CASE inbox'[p] = inbox[p]
  BY <1>1, <1>2, Zenon
<1>3. CASE inbox'[p] = inbox[p] \o events
  <2> DEFINE old == inbox[p]
             n == Len(old)
  <2>1. old \in Seq(EventType) /\ \A i \in 1 .. n :
            EventOK(old[i], GetSegmented', GetGrouped', ChainHead')
    BY <1>1, Zenon DEF ReaderOK
  <2> HIDE DEF old
  <2>2. /\ old \o events \in Seq(EventType) /\ Len(old \o events) = n + Len(events)
        /\ n \in Nat /\ Len(events) \in Nat
        /\ \A i \in 1 .. n : (old \o events)[i] = old[i]
        /\ \A i \in n + 1 .. n + Len(events) : (old \o events)[i] = events[i - n]
    BY <2>1
  <2> HIDE DEF n
  <2>3. \A i \in 1 .. Len(old \o events) :
            EventOK((old \o events)[i], GetSegmented', GetGrouped', ChainHead')
    <3> SUFFICES ASSUME NEW i \in 1 .. n + Len(events)
                 PROVE  EventOK((old \o events)[i], GetSegmented', GetGrouped', ChainHead')
      BY <2>2, Zenon
    <3>1. CASE i \in 1 .. n
      BY <2>1, <2>2, <3>1, Zenon DEF n
    <3>2. CASE i \in n + 1 .. n + Len(events)
      <4>1. i - n \in 1 .. Len(events)
        BY <2>2, <3>2
      <4> QED BY <2>2, <3>2, <4>1, Zenon
    <3> QED BY <2>2, <3>1, <3>2
  <2>4. inbox'[p] = old \o events
    BY <1>3, Zenon DEF old
  <2> QED BY <1>1, <2>2, <2>3, <2>4, Zenon DEF ReaderOK
<1> QED BY <1>2, <1>3, Zenon DEF Send, ReadersOK

\* The tasks that change are right afterwards.
LEMMA TasksMove ==
    ASSUME TasksOK, StepAdvances, size' = size, left'.tasks = left.tasks, DOMAIN task' = Reader,
           \A p \in Reader :
               /\ DOMAIN task'[p] = Task
               /\ \A name \in Task :
                     \/ task'[p][name] = task[p][name]
                     \/ TaskOK(name, task'[p][name], size[p], GroupSizeOf[p], ChainHead',
                               kv'["segmented"], kv'["grouped"], blocks')
    PROVE  TasksOK'
<1> SUFFICES ASSUME NEW p \in Reader, NEW name \in Task
             PROVE  TaskOK(name, task'[p][name], size[p], GroupSizeOf[p], ChainHead',
                           kv'["segmented"], kv'["grouped"], blocks')
  BY Zenon DEF TasksOK
<1>1. TaskOK(name, task[p][name], size[p], GroupSizeOf[p], ChainHead,
             kv["segmented"], kv["grouped"], blocks)
  BY Zenon DEF TasksOK
<1>2. GroupSizeOf[p] \in Nat
  BY CompactionAssumption
<1>3. TaskOK(name, task[p][name], size[p], GroupSizeOf[p], ChainHead',
             kv'["segmented"], kv'["grouped"], blocks')
  BY <1>1, <1>2, TaskStays, Zenon DEF StepAdvances
<1> QED BY <1>3, Zenon

LEMMA SameTasks ==
    ASSUME TasksOK, StepAdvances, UNCHANGED <<task, size>>, left'.tasks = left.tasks
    PROVE  TasksOK'
  BY TasksMove, Zenon DEF TasksOK

LEMMA OneTask ==
    ASSUME TasksOK, StepAdvances, NEW p \in Reader, NEW name \in Task, NEW t,
           Continue(p, name, t),
           TaskOK(name, t, size[p], GroupSizeOf[p], ChainHead',
                  kv'["segmented"], kv'["grouped"], blocks')
    PROVE  TasksOK'
<1>1. /\ task' = [task EXCEPT ![p] = [task[p] EXCEPT ![name] = t]]
      /\ UNCHANGED <<size, left>>
  BY Zenon DEF Continue
<1>2. DOMAIN task = Reader /\ \A q \in Reader : DOMAIN task[q] = Task
  BY Zenon DEF TasksOK
<1>3. DOMAIN task' = Reader /\ \A q \in Reader : DOMAIN task'[q] = Task
  BY <1>1, <1>2, Zenon
<1>4. task'[p][name] = t
  BY <1>1, <1>2, Zenon
<1>5. \A q \in Reader : \A other \in Task :
          (q # p \/ other # name) => task'[q][other] = task[q][other]
  BY <1>1, <1>2, Zenon
<1>6. \A q \in Reader : \A other \in Task :
          \/ task'[q][other] = task[q][other]
          \/ TaskOK(other, task'[q][other], size[q], GroupSizeOf[q], ChainHead',
                    kv'["segmented"], kv'["grouped"], blocks')
  BY <1>4, <1>5, Zenon
<1> QED BY <1>1, <1>3, <1>6, TasksMove, Zenon

\* A task that has nothing at hand is right whatever etcd says.
LEMMA QuietTask ==
    ASSUME NEW name, NEW n, NEW m, NEW h, NEW es, NEW eg, NEW stored
    PROVE  /\ TaskOK(name, Idle, n, m, h, es, eg, stored)
           /\ TaskOK(name, Tick, n, m, h, es, eg, stored)
           /\ \A on : TaskOK(name, WaitFor(on), n, m, h, es, eg, stored)
  BY Zenon DEF TaskOK, SegmentOK, GroupOK, PruneOK, Idle, Tick, WaitFor, Working, AtMost

\* All tasks of a process become quiet ones.
LEMMA ResetTasks ==
    ASSUME TasksOK, StepAdvances, NEW p \in Reader, NEW t \in {Idle, Tick},
           task' = [task EXCEPT ![p] = [name \in Task |-> t]],
           size' = size, left'.tasks = left.tasks
    PROVE  TasksOK'
<1>1. DOMAIN task' = Reader /\ DOMAIN task'[p] = Task /\ \A name \in Task : task'[p][name] = t
  BY Zenon DEF TasksOK
<1>2. \A q \in Reader \ {p} : task'[q] = task[q] /\ DOMAIN task'[q] = Task
  BY Zenon DEF TasksOK
<1>3. \A q \in Reader : /\ DOMAIN task'[q] = Task
                        /\ \A name \in Task :
                              \/ task'[q][name] = task[q][name]
                              \/ TaskOK(name, task'[q][name], size[q], GroupSizeOf[q], ChainHead',
                                        kv'["segmented"], kv'["grouped"], blocks')
  BY <1>1, <1>2, QuietTask
<1> QED BY <1>1, <1>3, TasksMove, Zenon

-----------------------------------------------------------------------------
(* The synchronisation of a view.                                          *)

\* What etcd says is at most what etcd says.
LEMMA CursorsAreKnown ==
    ASSUME KvOK
    PROVE  /\ AtMost(GetSegmented, GetSegmented) /\ AtMost(GetGrouped, GetGrouped)
           /\ GetRecent \in PointerType /\ GetRecent.head <= ChainHead /\ ChainHead \in Nat
           /\ PublishedPointer # Null => PublishedPointer = GetRecent
  BY DEF KvOK, AtMost, ChainHead, PointerType, PublishedPointer

\* The service takes its next request; the view and the events stay.
LEMMA StepKeepsReaders ==
    ASSUME ReadersOK, NEW r \in Reader, NEW y, kv' = kv, UNCHANGED <<view, inbox, loop>>,
           sync' = [sync EXCEPT ![r] = y],
           SyncOK(y, GetSegmented, GetGrouped, ChainHead),
           y.pc \in HasView => sync[r].pc \in HasView
    PROVE  ReadersOK'
<1>1. ReaderOK(sync[r], inbox[r], view[r], loop[r], GetSegmented, GetGrouped, ChainHead)
  BY Zenon DEF ReadersOK
<1>2. ReaderOK(y, inbox[r], view[r], loop[r], GetSegmented, GetGrouped, ChainHead)
  BY <1>1, Zenon DEF ReaderOK
<1>3. DOMAIN sync = Reader /\ sync'[r] = y /\ DOMAIN sync' = Reader
      /\ \A p \in Reader \ {r} : sync'[p] = sync[p]
  BY Zenon DEF ReadersOK
<1> QED BY <1>2, <1>3, OneReader, Zenon DEF ReadersOK

LEMMA StartKeepsReaders ==
    ASSUME KvOK, ReadersOK, NEW r \in Reader, loop' = loop,
           \/ ReadStartingBlock(r) \/ ReadFinalized(r) \/ ReadSegmented(r) \/ ReadGrouped(r)
           \/ ReadRecent(r) \/ FetchRecent(r) \/ RereadPointer(r)
    PROVE  ReadersOK' /\ kv' = kv
<1> DEFINE y == sync[r]
           s == GetSegmented
           g == GetGrouped
           h == ChainHead
<1>1. SyncOK(y, s, g, h)
  BY Zenon DEF ReadersOK, ReaderOK
<1>2. /\ AtMost(s, s) /\ AtMost(g, g) /\ GetRecent \in PointerType /\ GetRecent.head <= h
      /\ PublishedPointer # Null => PublishedPointer = GetRecent
  BY CursorsAreKnown, Zenon
<1>3. \A from, to : Step(r, from, to) => /\ kv' = kv /\ inbox' = inbox /\ y.pc = from
                                         /\ sync' = [sync EXCEPT ![r] = to]
  BY Zenon DEF Step, stateVars
<1>4. view' = view
  BY Zenon DEF ReadStartingBlock, ReadFinalized, ReadSegmented, ReadGrouped, ReadRecent, FetchRecent,
         RereadPointer
<1> HIDE DEF s, g, h
<1>5. ASSUME NEW from, NEW to, Step(r, from, to), SyncOK(to, s, g, h),
             to.pc \in HasView => from \in HasView
      PROVE  ReadersOK' /\ kv' = kv
  BY <1>3, <1>4, <1>5, StepKeepsReaders, Zenon DEF s, g, h
<1>6. CASE ReadStartingBlock(r)
  <2> DEFINE to == [y EXCEPT !.pc = "finalized"]
  <2>1. SyncOK(to, s, g, h) /\ to.pc = "finalized"
    BY <1>1, Zenon DEF SyncOK
  <2> QED BY <1>5, <1>6, <2>1, Zenon DEF ReadStartingBlock, HasView
<1>7. CASE ReadFinalized(r)
  <2> DEFINE to == [y EXCEPT !.pc = "segmented", !.finalized = GetFinalized]
  <2>1. SyncOK(to, s, g, h) /\ to.pc = "segmented"
    BY <1>1, Zenon DEF SyncOK
  <2> QED BY <1>5, <1>7, <2>1, Zenon DEF ReadFinalized, HasView
<1>8. CASE ReadSegmented(r)
  <2> DEFINE to == [y EXCEPT !.pc = "grouped", !.segmented = GetSegmented]
  <2>1. SyncOK(to, s, g, h) /\ to.pc = "grouped"
    BY <1>1, <1>2, Zenon DEF SyncOK, s
  <2> QED BY <1>5, <1>8, <2>1, Zenon DEF ReadSegmented, HasView
<1>9. CASE ReadGrouped(r)
  <2> DEFINE to == [y EXCEPT !.pc = "recent", !.grouped = GetGrouped]
  <2>1. SyncOK(to, s, g, h) /\ to.pc = "recent"
    BY <1>1, <1>2, Zenon DEF SyncOK, g
  <2> QED BY <1>5, <1>9, <2>1, Zenon DEF ReadGrouped, HasView
<1>10. CASE ReadRecent(r)
  <2> DEFINE to == [y EXCEPT !.pc = "fetch", !.pointer = PublishedPointer]
  <2>1. PublishedPointer = GetRecent
    BY <1>2, <1>10, Zenon DEF ReadRecent
  <2>2. SyncOK(to, s, g, h) /\ to.pc = "fetch"
    BY <1>1, <1>2, <2>1, Zenon DEF SyncOK
  <2> QED BY <1>5, <1>10, <2>2, Zenon DEF ReadRecent, HasView
<1>11. CASE FetchRecent(r)
  <2> DEFINE to == [y EXCEPT !.pc = IF y.pointer \in objects THEN "options" ELSE "recent"]
  <2>1. y.pc = "fetch" /\ Step(r, "fetch", to)
    BY <1>3, <1>11, Zenon DEF FetchRecent
  <2>2. SyncOK(to, s, g, h) /\ to.pc \in {"options", "recent"}
    BY <1>1, <2>1, Zenon DEF SyncOK
  <2> QED BY <1>5, <2>1, <2>2, Zenon DEF HasView
<1>12. CASE RereadPointer(r)
  <2> DEFINE newer == [y EXCEPT !.pc = "refetch", !.pointer = GetRecent]
             same == [y EXCEPT !.pc = "idle", !.pointer = Null]
  <2>1. SyncOK(newer, s, g, h) /\ SyncOK(same, s, g, h)
    BY <1>1, <1>2, Zenon DEF SyncOK
  <2>2. Step(r, "reread", newer) \/ Step(r, "reread", same)
    BY <1>12, Zenon DEF RereadPointer
  <2> HIDE DEF newer, same
  <2> QED BY <1>5, <2>1, <2>2, Zenon DEF HasView
<1> QED BY <1>6, <1>7, <1>8, <1>9, <1>10, <1>11, <1>12, Zenon

\* The first event is right, and so are the others.
LEMMA FirstEvent ==
    ASSUME NEW events \in Seq(EventType), events # <<>>, NEW s, NEW g, NEW h,
           \A i \in 1 .. Len(events) : EventOK(events[i], s, g, h)
    PROVE  /\ EventOK(Head(events), s, g, h)
           /\ Tail(events) \in Seq(EventType)
           /\ \A i \in 1 .. Len(Tail(events)) : EventOK(Tail(events)[i], s, g, h)
<1>1. /\ Len(events) \in Nat /\ Len(events) >= 1
      /\ Head(events) = events[1] /\ Len(Tail(events)) = Len(events) - 1
      /\ Tail(events) \in Seq(EventType)
      /\ \A i \in 1 .. Len(events) - 1 : Tail(events)[i] = events[i + 1]
  OBVIOUS
<1>2. \A i \in 1 .. Len(events) - 1 : i + 1 \in 1 .. Len(events)
  BY <1>1
<1> QED BY <1>1, <1>2

\* A view with another cursor, or another chain, that is known.
LEMMA ViewIsSet ==
    ASSUME NEW v, NEW s, NEW g, NEW h, ViewOK(v, s, g, h)
    PROVE  /\ \A x : ViewOK([v EXCEPT !.finalized = x], s, g, h)
           /\ \A x : AtMost(x, s) => ViewOK([v EXCEPT !.segmented = x], s, g, h)
           /\ \A x : AtMost(x, g) => ViewOK([v EXCEPT !.grouped = x], s, g, h)
           /\ \A x : ViewOK([v EXCEPT !.pending = x], s, g, h)
           /\ \A x : x \in PointerType /\ x.head <= h => ViewOK([v EXCEPT !.recent = x], s, g, h)
  BY Zenon DEF ViewOK, PointerType

LEMMA ViewKeepsReaders ==
    ASSUME KvOK, ReadersOK, NEW r \in Reader, loop' = loop,
           \/ SendView(r) \/ WatchChanges(r) \/ ApplyUpdate(r) \/ ApplyRecent(r)
           \/ RefetchRecent(r) \/ WatchBreaks(r)
    PROVE  ReadersOK' /\ kv' = kv
<1> DEFINE y == sync[r]
           v == view[r]
           events == inbox[r]
           s == GetSegmented
           g == GetGrouped
           h == ChainHead
           Sets(f, f2, x) == /\ DOMAIN f2 = Reader /\ f2[r] = x
                             /\ \A p \in Reader \ {r} : f2[p] = f[p]
<1>1. /\ ReaderOK(y, events, v, loop[r], s, g, h)
      /\ DOMAIN sync = Reader /\ DOMAIN inbox = Reader /\ DOMAIN view = Reader
      /\ DOMAIN loop = Reader
  BY Zenon DEF ReadersOK
<1>2. SyncOK(y, s, g, h)
  BY <1>1, Zenon DEF ReaderOK
<1> HIDE DEF s, g, h
<1>3. ASSUME NEW y2, NEW events2, NEW v2, kv' = kv,
             Sets(sync, sync', y2), Sets(inbox, inbox', events2), Sets(view, view', v2),
             ReaderOK(y2, events2, v2, loop[r], s, g, h)
      PROVE  ReadersOK' /\ kv' = kv
  <2> HIDE DEF y, v, events
  <2> QED BY <1>1, <1>3, OneReader, Zenon DEF s, g, h
<1>4. /\ sync' = sync => Sets(sync, sync', y)
      /\ inbox' = inbox => Sets(inbox, inbox', events)
      /\ view' = view => Sets(view, view', v)
      /\ \A x : sync' = [sync EXCEPT ![r] = x] => Sets(sync, sync', x)
      /\ \A x : inbox' = [inbox EXCEPT ![r] = x] => Sets(inbox, inbox', x)
      /\ \A x : view' = [view EXCEPT ![r] = x] => Sets(view, view', x)
  BY <1>1, Zenon
<1> HIDE DEF Sets
<1>5. CASE SendView(r)
  <2>1. y.pc = "options" /\ kv' = kv /\ inbox' = inbox
    BY <1>5, Zenon DEF SendView, Step, stateVars
  <2>2. y.pointer \in PointerType /\ y.pointer.head <= h
    BY <1>2, <2>1, Zenon DEF SyncOK
  <2>3. ASSUME NEW y2, sync' = [sync EXCEPT ![r] = y2], y2 = [SyncStart EXCEPT !.pc = "watch"],
               view' = [view EXCEPT ![r] = NewChainView(y, y.pointer)]
        PROVE  ReadersOK' /\ kv' = kv
    <3>1. SyncOK(y2, s, g, h)
      BY <2>3, Zenon DEF SyncOK, SyncStart, AtMost
    <3>2. ViewOK(NewChainView(y, y.pointer), s, g, h)
      BY <1>2, <2>2, Zenon DEF SyncOK, ViewOK, NewChainView, PointerType
    <3>3. ReaderOK(y2, events, NewChainView(y, y.pointer), loop[r], s, g, h)
      BY <1>1, <3>1, <3>2, Zenon DEF ReaderOK
    <3> QED BY <1>3, <1>4, <2>1, <2>3, <3>3, Zenon
  <2>4. ASSUME NEW y2, sync' = [sync EXCEPT ![r] = y2], y2 = [y EXCEPT !.pc = "failed"],
               view' = view
        PROVE  ReadersOK' /\ kv' = kv
    <3>1. SyncOK(y2, s, g, h) /\ y2.pc = "failed"
      BY <1>2, <2>4, Zenon DEF SyncOK
    <3>2. ReaderOK(y2, events, v, loop[r], s, g, h)
      BY <1>1, <3>1, Zenon DEF ReaderOK, HasView
    <3> QED BY <1>3, <1>4, <2>1, <2>4, <3>2, Zenon
  <2> QED BY <1>5, <2>3, <2>4, Zenon DEF SendView, Step
<1>6. CASE WatchChanges(r)
  <2> DEFINE y2 == [y EXCEPT !.pc = "idle"]
  <2>1. /\ y.pc = "watch" /\ kv' = kv /\ view' = view
        /\ sync' = [sync EXCEPT ![r] = y2] /\ inbox' = [inbox EXCEPT ![r] = <<>>]
    BY <1>6, Zenon DEF WatchChanges, OpenWatch
  <2>2. SyncOK(y2, s, g, h)
    BY <1>2, Zenon DEF SyncOK
  <2>3. ViewOK(v, s, g, h)
    BY <1>1, <2>1, Zenon DEF ReaderOK, HasView
  <2> HIDE DEF y2
  <2>4. ReaderOK(y2, <<>>, v, loop[r], s, g, h)
    BY <2>2, <2>3 DEF ReaderOK
  <2> QED BY <1>3, <1>4, <2>1, <2>4, Zenon
<1>7. CASE WatchBreaks(r)
  <2> DEFINE y2 == [SyncStart EXCEPT !.pc = "watch"]
  <2>1. /\ y.pc \in {"idle", "reread", "refetch"} /\ kv' = kv /\ view' = view
        /\ sync' = [sync EXCEPT ![r] = y2] /\ inbox' = [inbox EXCEPT ![r] = <<>>]
    BY <1>7, Zenon DEF WatchBreaks, CloseWatch
  <2>2. SyncOK(y2, s, g, h)
    BY Zenon DEF SyncOK, SyncStart, AtMost
  <2>3. ViewOK(v, s, g, h)
    BY <1>1, <2>1, Zenon DEF ReaderOK, HasView
  <2> HIDE DEF y2
  <2>4. ReaderOK(y2, <<>>, v, loop[r], s, g, h)
    BY <2>2, <2>3 DEF ReaderOK
  <2> QED BY <1>3, <1>4, <2>1, <2>4, Zenon
<1>8. CASE RefetchRecent(r)
  <2> DEFINE y2 == [y EXCEPT !.pc = "idle", !.pointer = Null]
             v2 == IF y.pointer \in objects THEN [v EXCEPT !.recent = y.pointer] ELSE v
  <2>1. /\ y.pc = "refetch" /\ kv' = kv /\ inbox' = inbox
        /\ sync' = [sync EXCEPT ![r] = y2] /\ Sets(view, view', v2)
    BY <1>4, <1>8, Zenon DEF RefetchRecent, SetRecent, stateVars
  <2>2. SyncOK(y2, s, g, h)
    BY <1>2, Zenon DEF SyncOK
  <2>3. ViewOK(v, s, g, h) /\ y.pointer \in PointerType /\ y.pointer.head <= h
    BY <1>1, <2>1, Zenon DEF ReaderOK, HasView, SyncOK
  <2>4. ViewOK(v2, s, g, h)
    BY <2>3, ViewIsSet, Zenon
  <2> HIDE DEF y2, v2
  <2>5. ReaderOK(y2, events, v2, loop[r], s, g, h)
    BY <1>1, <2>2, <2>4, Zenon DEF ReaderOK
  <2> QED BY <1>3, <1>4, <2>1, <2>5, Zenon
<1>9. ASSUME y.pc = "idle", inbox[r] # <<>>
      PROVE  /\ ViewOK(v, s, g, h) /\ EventOK(Head(events), s, g, h)
             /\ Tail(events) \in Seq(EventType)
             /\ \A i \in 1 .. Len(Tail(events)) : EventOK(Tail(events)[i], s, g, h)
  <2>1. ViewOK(v, s, g, h)
    BY <1>1, <1>9, Zenon DEF ReaderOK, HasView
  <2>2. events \in Seq(EventType) /\ \A i \in 1 .. Len(events) : EventOK(events[i], s, g, h)
    BY <1>1, Zenon DEF ReaderOK
  <2> QED BY <1>9, <2>1, <2>2, FirstEvent, Zenon
<1>10. ASSUME NEW pc, pc \in {"idle", "reread"}, NEW pointer, NEW x
       PROVE  SyncOK([y EXCEPT !.pc = pc, !.pointer = pointer, !.heard = x], s, g, h)
              /\ SyncOK([y EXCEPT !.pc = pc, !.heard = x], s, g, h)
  BY <1>2, <1>10, Zenon DEF SyncOK
<1>11. CASE ApplyUpdate(r)
  <2> DEFINE e == Head(events)
             y2 == [y EXCEPT !.pc = "idle", !.heard = @ \cup {e.key}]
             v2 == CASE e.key = "finalized" -> [v EXCEPT !.finalized = e.value]
                     [] e.key = "segmented" -> [v EXCEPT !.segmented = e.value]
                     [] e.key = "grouped"   -> [v EXCEPT !.grouped = e.value]
                     [] e.key = "pending"   -> [v EXCEPT !.pending = e.value]
                     [] OTHER               -> v
  <2>1. y.pc = "idle" /\ inbox[r] # <<>>
    BY <1>11, Zenon DEF ApplyUpdate
  <2>2. /\ kv' = kv /\ inbox' = [inbox EXCEPT ![r] = Tail(events)]
        /\ sync' = [sync EXCEPT ![r] = y2]
    BY <1>11, Zenon DEF ApplyUpdate, Handled
  <2>3. Sets(view, view', v2)
    BY <1>4, <1>11, Zenon DEF ApplyUpdate, SetFinalized, SetSegmented, SetGrouped, SetPending
  <2>4. ViewOK(v2, s, g, h)
    <3>1. ViewOK(v, s, g, h) /\ EventOK(e, s, g, h)
      BY <1>9, <2>1, Zenon
    <3> HIDE DEF e, v
    <3> QED BY <3>1, ViewIsSet, Zenon DEF EventOK
  <2>5. SyncOK(y2, s, g, h)
    BY <1>10, Zenon
  <2> HIDE DEF y2, v2
  <2>6. ReaderOK(y2, Tail(events), v2, loop[r], s, g, h)
    BY <1>9, <2>1, <2>4, <2>5, Zenon DEF ReaderOK
  <2> QED BY <1>3, <1>4, <2>2, <2>3, <2>6, Zenon
<1>12. CASE ApplyRecent(r)
  <2> DEFINE e == Head(events)
             x == y.heard \cup {"recent"}
  <2>1. y.pc = "idle" /\ inbox[r] # <<>> /\ e.key = "recent"
    BY <1>12, Zenon DEF ApplyRecent
  <2>2. ViewOK(v, s, g, h) /\ e.value \in PointerType /\ e.value.head <= h
    BY <1>9, <2>1, Zenon DEF EventOK
  <2>3. kv' = kv /\ inbox' = [inbox EXCEPT ![r] = Tail(events)]
    BY <1>12, Zenon DEF ApplyRecent, Handled
  <2>4. ASSUME e.value \in objects PROVE ReadersOK' /\ kv' = kv
    <3> DEFINE y2 == [y EXCEPT !.pc = "idle", !.heard = x]
               v2 == [v EXCEPT !.recent = e.value]
    <3>1. sync' = [sync EXCEPT ![r] = y2] /\ view' = [view EXCEPT ![r] = v2]
      BY <1>12, <2>1, <2>4, Zenon DEF ApplyRecent, Handled, SetRecent
    <3>2. ViewOK(v2, s, g, h)
      BY <2>2, ViewIsSet, Zenon
    <3>3. SyncOK(y2, s, g, h)
      BY <1>10, Zenon
    <3> HIDE DEF y2, v2
    <3>4. ReaderOK(y2, Tail(events), v2, loop[r], s, g, h)
      BY <1>9, <2>1, <3>2, <3>3, Zenon DEF ReaderOK
    <3> QED BY <1>3, <1>4, <2>3, <3>1, <3>4, Zenon
  <2>5. ASSUME e.value \notin objects PROVE ReadersOK' /\ kv' = kv
    <3> DEFINE y2 == [y EXCEPT !.pc = "reread", !.pointer = e.value, !.heard = x]
    <3>1. sync' = [sync EXCEPT ![r] = y2] /\ view' = view
      BY <1>12, <2>5, Zenon DEF ApplyRecent
    <3>2. SyncOK(y2, s, g, h)
      BY <1>10, Zenon
    <3> HIDE DEF y2
    <3>3. ReaderOK(y2, Tail(events), v, loop[r], s, g, h)
      BY <1>9, <2>1, <2>2, <3>2, Zenon DEF ReaderOK
    <3> QED BY <1>3, <1>4, <2>3, <3>1, <3>3, Zenon
  <2> QED BY <2>4, <2>5, Zenon
<1> QED BY <1>5, <1>6, <1>7, <1>8, <1>11, <1>12, Zenon

-----------------------------------------------------------------------------
(* Every step keeps the invariant: first those that do not write to etcd.  *)

LEMMA ViewStepKeepsInv ==
    ASSUME Inv, NEW p \in Reader, ViewStep(p) \/ ViewBreaks(p)
    PROVE  Inv'
<1>1. UNCHANGED <<blocks, lock, loop, task, size>>
  BY Zenon DEF ViewStep, ViewBreaks, storeVars
<1>2. left'.expired = left.expired /\ left'.tasks = left.tasks /\ DOMAIN left' = DOMAIN left
  <2>1. DOMAIN left = {"expiries", "failures", "missed", "expired", "tasks"}
    BY Zenon DEF Inv, LockOK
  <2>2. \/ left' = left
        \/ left' = [left EXCEPT !.missed = @ - 1]
        \/ left' = [left EXCEPT !.failures = @ - 1]
    BY Zenon DEF ViewStep, ViewBreaks
  <2> QED BY <2>1, <2>2, Zenon
<1>3. ReadersOK' /\ kv' = kv
  BY <1>1, StartKeepsReaders, ViewKeepsReaders, Zenon DEF Inv, ViewStep, ViewBreaks, SyncStep
<1>4. KvOK' /\ StepAdvances
  BY <1>1, <1>3, SameKv, Zenon DEF Inv
<1> QED BY <1>1, <1>2, <1>3, <1>4, SameStore, SameLock, SameTasks, Zenon DEF Inv

\* The process has forgotten what it knew.
LEMMA ResetKeepsInv ==
    ASSUME Inv, NEW p \in Reader, Reset(p),
           left'.expired = left.expired, left'.tasks = left.tasks, DOMAIN left' = DOMAIN left
    PROVE  Inv'
<1>1. /\ kv' = kv /\ UNCHANGED <<blocks, lock, size>>
      /\ task' = [task EXCEPT ![p] = [t \in Task |-> Idle]]
      /\ loop' = [loop EXCEPT ![p] = "lock"]
      /\ sync' = [sync EXCEPT ![p] = SyncStart]
      /\ view' = [view EXCEPT ![p] = Null]
      /\ inbox' = [inbox EXCEPT ![p] = <<>>]
  BY Zenon DEF Reset, CloseWatch, storeVars
<1>2. KvOK' /\ StepAdvances
  BY <1>1, SameKv, Zenon DEF Inv
<1>3. TasksOK'
  <2>1. Idle \in {Idle, Tick}
    BY Zenon
  <2> QED BY <1>1, <1>2, <2>1, ResetTasks, Zenon DEF Inv
<1>4. DOMAIN loop = Reader /\ DOMAIN sync = Reader /\ DOMAIN view = Reader /\ DOMAIN inbox = Reader
  BY Zenon DEF Inv, ReadersOK
<1>5. ReadersOK'
  <2>1. SyncOK(SyncStart, GetSegmented, GetGrouped, ChainHead) /\ SyncStart.pc = "starting"
    BY Zenon DEF SyncOK, SyncStart, AtMost
  <2>2. ReaderOK(SyncStart, <<>>, Null, "lock", GetSegmented, GetGrouped, ChainHead)
    BY <2>1 DEF ReaderOK, HasView
  <2>3. /\ sync'[p] = SyncStart /\ inbox'[p] = <<>> /\ view'[p] = Null /\ loop'[p] = "lock"
        /\ DOMAIN sync' = Reader /\ DOMAIN inbox' = Reader /\ DOMAIN view' = Reader
        /\ DOMAIN loop' = Reader
        /\ \A q \in Reader \ {p} : /\ sync'[q] = sync[q] /\ inbox'[q] = inbox[q]
                                   /\ view'[q] = view[q] /\ loop'[q] = loop[q]
    BY <1>1, <1>4, Zenon
  <2> QED BY <1>1, <2>2, <2>3, OneReader, Zenon DEF Inv
<1>6. LockOK'
  BY <1>1, <1>4, Zenon DEF Inv, LockOK
<1> QED BY <1>1, <1>2, <1>3, <1>5, <1>6, SameStore, Zenon DEF Inv

\* The process leaves the loop, or goes on in it.
LEMMA EnterKeepsReaders ==
    ASSUME ReadersOK, StepAdvances, UNCHANGED <<sync, view, inbox>>, NEW p \in Reader, NEW state,
           loop' = [loop EXCEPT ![p] = state], state = "running" => view[p] # Null
    PROVE  ReadersOK'
<1>1. DOMAIN loop' = Reader
      /\ \A q \in Reader : loop'[q] = "running" => loop[q] = "running" \/ view[q] # Null
  BY Zenon DEF ReadersOK
<1> QED BY <1>1, SameReaders, Zenon

\* A task has failed.
LEMMA StopKeepsInv ==
    ASSUME Inv, NEW p \in Reader, loop[p] = "running", Stop(p),
           kv' = kv, UNCHANGED <<sync, view, inbox, blocks>>,
           left'.expired = left.expired, left'.tasks = left.tasks, DOMAIN left' = DOMAIN left
    PROVE  Inv'
<1>1. /\ UNCHANGED <<lock, size>>
      /\ task' = [task EXCEPT ![p] = [t \in Task |-> Idle]]
      /\ loop' = [loop EXCEPT ![p] = "unlock"]
  BY Zenon DEF Stop
<1>2. KvOK' /\ StepAdvances
  BY SameKv, Zenon DEF Inv
<1>3. TasksOK'
  <2>1. Idle \in {Idle, Tick}
    BY Zenon
  <2> QED BY <1>1, <1>2, <2>1, ResetTasks, Zenon DEF Inv
<1>4. ReadersOK'
  BY <1>1, <1>2, EnterKeepsReaders, Zenon DEF Inv
<1>5. LockOK'
  BY <1>1, Zenon DEF Inv, LockOK, ReadersOK
<1> QED BY <1>2, <1>3, <1>4, <1>5, SameStore, Zenon DEF Inv

LEMMA LoopKeepsInv ==
    ASSUME Inv, NEW p \in Reader,
           \/ AcquireLock(p) \/ AcceptOptions(p) \/ RefuseOptions(p) \/ StartServices(p)
           \/ Unlock(p) \/ ServerEnds(p) \/ RequestFails(p) \/ Crash(p)
    PROVE  Inv'
<1>1. DOMAIN left = {"expiries", "failures", "missed", "expired", "tasks"} /\ DOMAIN loop = Reader
  BY Zenon DEF Inv, LockOK, ReadersOK
<1>2. CASE RefuseOptions(p) \/ ServerEnds(p)
  BY <1>2, ResetKeepsInv, Zenon DEF RefuseOptions, ServerEnds
<1>3. CASE Crash(p)
  BY <1>1, <1>3, ResetKeepsInv, Zenon DEF Crash
<1>4. CASE RequestFails(p)
  BY <1>1, <1>4, StopKeepsInv, Zenon DEF RequestFails, stateVars, storeVars
<1>5. ASSUME NEW state, loop' = [loop EXCEPT ![p] = state], UNCHANGED <<size, left, blocks>>,
             UNCHANGED <<stateVars, syncVars>>, state = "running" => view[p] # Null,
             TasksOK', LockOK'
      PROVE  Inv'
  <2>1. KvOK' /\ StepAdvances
    BY <1>5, SameKv, Zenon DEF Inv, stateVars
  <2> QED BY <1>5, <2>1, EnterKeepsReaders, SameStore, Zenon DEF Inv, stateVars, syncVars
<1>6. ASSUME UNCHANGED <<stateVars, blocks, task, size, left>> PROVE TasksOK'
  BY <1>6, SameKv, SameTasks, Zenon DEF Inv, stateVars
<1>7. CASE AcquireLock(p)
  <2>1. lock = Null /\ lock' = p /\ loop' = [loop EXCEPT ![p] = "options"]
        /\ UNCHANGED <<stateVars, syncVars, blocks, task, size, left>>
    BY <1>7, Zenon DEF AcquireLock, Enter, storeVars
  <2>2. LockOK'
    BY <1>1, <2>1, NullIsNoReader, Zenon DEF Inv, LockOK
  <2> QED BY <1>5, <1>6, <2>1, <2>2, Zenon
<1>8. CASE AcceptOptions(p)
  <2>1. lock' = lock /\ loop[p] = "options" /\ loop' = [loop EXCEPT ![p] = "view"]
        /\ UNCHANGED <<stateVars, syncVars, blocks, task, size, left>>
    BY <1>8, Zenon DEF AcceptOptions, Enter, storeVars
  <2>2. LockOK'
    BY <1>1, <2>1, Zenon DEF Inv, LockOK
  <2> QED BY <1>5, <1>6, <2>1, <2>2, Zenon
<1>9. CASE StartServices(p)
  <2>1. lock' = lock /\ loop[p] = "view" /\ view[p] # Null /\ loop' = [loop EXCEPT ![p] = "running"]
        /\ task' = [task EXCEPT ![p] = [t \in Task |-> Tick]]
        /\ UNCHANGED <<stateVars, syncVars, blocks, size, left>>
    BY <1>9, Zenon DEF StartServices, Enter, storeVars
  <2>2. LockOK'
    BY <1>1, <2>1, Zenon DEF Inv, LockOK
  <2>3. TasksOK'
    <3>1. Tick \in {Idle, Tick}
      BY Zenon
    <3>2. StepAdvances
      BY <2>1, SameKv, Zenon DEF Inv, stateVars
    <3> QED BY <2>1, <3>1, <3>2, ResetTasks, Zenon DEF Inv
  <2> QED BY <1>5, <2>1, <2>2, <2>3, Zenon
<1>10. CASE Unlock(p)
  <2>1. lock' = (IF lock = p THEN Null ELSE lock) /\ loop' = [loop EXCEPT ![p] = "lock"]
        /\ UNCHANGED <<stateVars, syncVars, blocks, task, size, left>>
    BY <1>10, Zenon DEF Unlock, Enter, storeVars
  <2>2. LockOK'
    BY <1>1, <2>1, Zenon DEF Inv, LockOK
  <2> QED BY <1>5, <1>6, <2>1, <2>2, Zenon
<1> QED BY <1>2, <1>3, <1>4, <1>7, <1>8, <1>9, <1>10, Zenon

LEMMA LeaseKeepsInv ==
    ASSUME Inv, LeaseExpires \/ OrphanLeaseExpires
    PROVE  Inv'
<1>1. UNCHANGED <<stateVars, syncVars, blocks, loop, task, size>>
  BY Zenon DEF LeaseExpires, OrphanLeaseExpires, storeVars
<1>2. DOMAIN left = {"expiries", "failures", "missed", "expired", "tasks"}
  BY Zenon DEF Inv, LockOK
<1>3. left'.tasks = left.tasks /\ DOMAIN left' = DOMAIN left
  BY <1>2, Zenon DEF LeaseExpires, OrphanLeaseExpires
<1>4. LockOK'
  <2>1. CASE LeaseExpires
    BY <1>2, <2>1, Zenon DEF LeaseExpires, LockOK
  <2>2. CASE OrphanLeaseExpires
    BY <1>1, <2>2, Zenon DEF OrphanLeaseExpires, LockOK, Inv
  <2> QED BY <2>1, <2>2, Zenon
<1>5. KvOK' /\ StepAdvances
  BY <1>1, SameKv, Zenon DEF Inv, stateVars
<1>6. ReadersOK'
  BY <1>1, <1>5, SameReaders, Zenon DEF Inv, ReadersOK, stateVars, syncVars
<1> QED BY <1>1, <1>3, <1>4, <1>5, <1>6, SameStore, SameTasks, Zenon DEF Inv, stateVars

-----------------------------------------------------------------------------
(* The tasks.                                                              *)

\* A task goes on without a write to etcd and without deleting a block.
LEMMA TaskKeepsInv ==
    ASSUME Inv, NEW p \in Reader, NEW name \in Task, NEW t, Continue(p, name, t),
           kv' = kv, UNCHANGED <<sync, view, inbox, blocks>>,
           TaskOK(name, t, size[p], GroupSizeOf[p], ChainHead,
                  kv["segmented"], kv["grouped"], blocks)
    PROVE  Inv'
<1>1. KvOK' /\ StepAdvances /\ ChainHead' = ChainHead
  BY SameKv, Zenon DEF Inv, ChainHead, GetRecent, Get
<1>2. TasksOK'
  BY <1>1, OneTask, Zenon DEF Inv
<1>3. UNCHANGED <<lock, loop, left>>
  BY Zenon DEF Continue
<1>4. ReadersOK'
  BY <1>1, <1>3, SameReaders, Zenon DEF Inv, ReadersOK
<1> QED BY <1>1, <1>2, <1>3, <1>4, SameStore, SameLock, Zenon DEF Inv

LEMMA TaskIsOK ==
    ASSUME Inv, NEW p \in Reader, NEW name \in Task
    PROVE  TaskOK(name, task[p][name], size[p], GroupSizeOf[p], ChainHead,
                  kv["segmented"], kv["grouped"], blocks)
  BY Zenon DEF Inv, TasksOK

LEMMA DeployedSize ==
    ASSUME Inv, NEW p \in Deployed
    PROVE  p \in Reader /\ size[p] \in Nat \ {0}
  BY Zenon DEF Inv, TasksOK, Deployed

LEMMA WaitingKeepsInv ==
    ASSUME Inv, NEW p \in Reader, NEW name \in Task, StartWaiting(p, name) \/ Wake(p, name)
    PROVE  Inv'
<1>1. CASE Wake(p, name)
  BY <1>1, QuietTask, TaskKeepsInv, Zenon DEF Wake, stateVars, syncVars, storeVars
<1>2. CASE StartWaiting(p, name)
  <2> DEFINE t == task[p][name]
             new == [t EXCEPT !.pc = "waiting"]
  <2>1. TaskOK(name, t, size[p], GroupSizeOf[p], ChainHead, kv["segmented"], kv["grouped"], blocks)
    BY TaskIsOK, Zenon
  <2>2. DOMAIN t = {"pc", "first", "todo", "part", "read", "limit", "on"}
    BY <2>1, Zenon DEF TaskOK
  <2> HIDE DEF t
  <2>3. DOMAIN new = DOMAIN t /\ new.pc = "waiting" /\ new.limit = t.limit
    BY <2>2, Zenon
  <2>4. TaskOK(name, new, size[p], GroupSizeOf[p], ChainHead,
               kv["segmented"], kv["grouped"], blocks)
    <3> HIDE DEF new
    <3> QED BY <2>1, <2>3, Zenon DEF TaskOK, SegmentOK, GroupOK, PruneOK, Working
  <2>5. Continue(p, name, new) /\ kv' = kv /\ UNCHANGED <<sync, view, inbox, blocks>>
    BY <1>2, Zenon DEF StartWaiting, stateVars, storeVars, t
  <2> QED BY <2>4, <2>5, TaskKeepsInv, Zenon
<1> QED BY <1>1, <1>2, Zenon

\* What the view of a process that compacts says.
LEMMA ViewOfCompactor ==
    ASSUME Inv, NEW p \in Reader, loop[p] = "running"
    PROVE  /\ GetHead(view[p]) \in Nat /\ GetHead(view[p]) <= ChainHead /\ ChainHead \in Nat
           /\ AtMost(view[p].segmented, GetSegmented)
           /\ AtMost(view[p].grouped, GetGrouped)
  BY Zenon DEF Inv, ReadersOK, ReaderOK, ViewOK, GetHead, KvOK, PointerType, ChainHead

LEMMA NextBlockIsABlock ==
    ASSUME NEW v, NEW cursor, NEW c, AtMost(cursor, c), NextBlock(v, cursor) # Null
    PROVE  NextBlock(v, cursor) \in Nat
  BY StartingBlockAssumption DEF NextBlock, AtMost

LEMMA TickKeepsInv ==
    ASSUME Inv, NEW p \in Deployed,
           \/ "segment" \in Task /\ SegmentTick(p)
           \/ "group" \in Task /\ GroupTick(p)
    PROVE  Inv'
<1>1. p \in Reader /\ size[p] \in Nat \ {0}
  BY DeployedSize, Zenon
<1>2. loop[p] = "running" /\ kv' = kv /\ UNCHANGED <<sync, view, inbox, blocks>>
  BY Zenon DEF SegmentTick, GroupTick, At, stateVars, storeVars
<1>3. CASE Fail(p)
  BY <1>1, <1>2, <1>3, StopKeepsInv, Zenon DEF Fail
<1>4. CASE "segment" \in Task /\ SegmentTick(p) /\ ~Fail(p)
  <2> DEFINE first == NextBlock(view[p], view[p].segmented)
             on == IF view[p].finalized < GetHead(view[p]) THEN "finalized" ELSE "head"
             new == [Idle EXCEPT !.pc = "read", !.first = first,
                                 !.todo = first .. first + Size(p) - 1]
  <2>1. first \in Nat
    BY <1>1, <1>2, <1>4, ViewOfCompactor, NextBlockIsABlock, Zenon DEF SegmentTick
  <2>2. /\ SegmentFits(p, first) => Continue(p, "segment", new)
        /\ ~SegmentFits(p, first) => Continue(p, "segment", WaitFor(on))
    BY <1>4, Zenon DEF SegmentTick
  <2> HIDE DEF first, on
  <2>3. CASE SegmentFits(p, first)
    <3>1. first + size[p] <= ChainHead
      BY <1>1, <1>2, <2>1, <2>3, ViewOfCompactor DEF SegmentFits, Size
    <3>2. /\ DOMAIN new = {"pc", "first", "todo", "part", "read", "limit", "on"}
          /\ new.pc = "read" /\ new.first = first
      BY Zenon DEF Idle
    <3>3. TaskOK("segment", new, size[p], GroupSizeOf[p], ChainHead,
                 kv["segmented"], kv["grouped"], blocks)
      <4> HIDE DEF new
      <4> QED BY <1>1, <2>1, <3>1, <3>2, Zenon DEF TaskOK, SegmentOK
    <3>4. Continue(p, "segment", new)
      BY <2>2, <2>3, Zenon
    <3> HIDE DEF new
    <3> QED BY <1>1, <1>2, <1>4, <3>3, <3>4, TaskKeepsInv, Zenon
  <2>4. CASE ~SegmentFits(p, first)
    BY <1>1, <1>2, <1>4, <2>2, <2>4, QuietTask, TaskKeepsInv, Zenon
  <2> QED BY <2>3, <2>4, Zenon
<1>5. CASE "group" \in Task /\ GroupTick(p) /\ ~Fail(p)
  <2> DEFINE first == NextBlock(view[p], view[p].grouped)
             fits == view[p].segmented # Null /\ GroupFits(p, first)
             new == [Idle EXCEPT !.pc = "read", !.first = first,
                                 !.todo = {first + i * Size(p) : i \in 0 .. GroupSizeOf[p] - 1}]
  <2>1. first \in Nat
    BY <1>1, <1>2, <1>5, ViewOfCompactor, NextBlockIsABlock, Zenon DEF GroupTick
  <2>2. /\ fits => Continue(p, "group", new)
        /\ ~fits => Continue(p, "group", WaitFor("segmented"))
    BY <1>5, Zenon DEF GroupTick
  <2> HIDE DEF first
  <2>3. CASE fits
    <3>1. GroupSizeOf[p] * size[p] \in Nat
      BY <1>1, CompactionAssumption
    <3>2. view[p].segmented \in Nat /\ GetSegmented \in Nat /\ view[p].segmented <= GetSegmented
      BY <1>1, <1>2, <2>3, ViewOfCompactor, Zenon DEF AtMost
    <3>3. first + GroupSizeOf[p] * size[p] <= GetSegmented
      BY <2>1, <2>3, <3>1, <3>2 DEF GroupFits, BlocksInGroup, Size
    <3>4. /\ DOMAIN new = {"pc", "first", "todo", "part", "read", "limit", "on"}
          /\ new.pc = "read" /\ new.first = first
      BY Zenon DEF Idle
    <3>5. TaskOK("group", new, size[p], GroupSizeOf[p], ChainHead,
                 kv["segmented"], kv["grouped"], blocks)
      <4> HIDE DEF new
      <4> QED BY <1>1, <2>1, <3>2, <3>3, <3>4, Zenon DEF TaskOK, GroupOK, GetSegmented, Get
    <3>6. Continue(p, "group", new)
      BY <2>2, <2>3, Zenon
    <3> HIDE DEF new
    <3> QED BY <1>1, <1>2, <1>5, <3>5, <3>6, TaskKeepsInv, Zenon
  <2>4. CASE ~fits
    BY <1>1, <1>2, <1>5, <2>2, <2>4, QuietTask, TaskKeepsInv, Zenon
  <2> QED BY <2>3, <2>4, Zenon
<1> QED BY <1>3, <1>4, <1>5, Zenon

\* A segment or a group in the making goes on to another state before its write.
LEMMA WorkGoesOn ==
    ASSUME NEW name \in {"segment", "group"}, NEW t, NEW new, NEW n, NEW m, NEW h, NEW es,
           NEW eg, NEW stored, TaskOK(name, t, n, m, h, es, eg, stored),
           t.pc \in Working, DOMAIN new = DOMAIN t, new.first = t.first,
           new.pc \in {"read", "upload", "put"}
    PROVE  TaskOK(name, new, n, m, h, es, eg, stored)
  BY Zenon DEF TaskOK, SegmentOK, GroupOK, Working

LEMMA TaskFields ==
    ASSUME Inv, NEW p \in Reader, NEW name \in Task
    PROVE  DOMAIN task[p][name] = {"pc", "first", "todo", "part", "read", "limit", "on"}
  BY TaskIsOK, Zenon DEF TaskOK

LEMMA WorkKeepsInv ==
    ASSUME Inv, NEW p \in Reader,
           \/ "segment" \in Task /\ \E block \in Block : ReadBlock(p, block)
           \/ "segment" \in Task /\ UploadFragment(p)
           \/ "group" \in Task /\ \E first \in Block : ReadIndex(p, first)
           \/ "group" \in Task /\ UploadGroup(p)
    PROVE  Inv'
<1>1. loop[p] = "running" /\ kv' = kv /\ UNCHANGED <<sync, view, inbox, blocks>>
  BY Zenon
     DEF ReadBlock, UploadFragment, ReadIndex, UploadGroup, At, stateVars, syncVars, storeVars
<1>2. CASE Fail(p)
  BY <1>1, <1>2, StopKeepsInv, Zenon DEF Fail
<1>3. ASSUME NEW name \in Task \cap {"segment", "group"}, NEW new, Continue(p, name, new),
             task[p][name].pc \in Working, DOMAIN new = DOMAIN task[p][name],
             new.first = task[p][name].first, new.pc \in {"read", "upload", "put"}
      PROVE  Inv'
  <2>1. TaskOK(name, new, size[p], GroupSizeOf[p], ChainHead,
               kv["segmented"], kv["grouped"], blocks)
    BY <1>3, TaskIsOK, WorkGoesOn, Zenon
  <2> QED BY <1>1, <1>3, <2>1, TaskKeepsInv, Zenon
<1>4. ASSUME "segment" \in Task, NEW block \in Block, ReadBlock(p, block), ~Fail(p) PROVE Inv'
  <2> DEFINE t == task[p]["segment"]
             rest == t.todo \ {block}
             new == [t EXCEPT !.todo = rest, !.pc = IF rest = {} THEN "upload" ELSE "read"]
  <2>1. Continue(p, "segment", new) /\ t.pc = "read"
    BY <1>4, Zenon DEF ReadBlock, At
  <2>2. DOMAIN t = {"pc", "first", "todo", "part", "read", "limit", "on"}
    BY <1>4, TaskFields, Zenon
  <2>3. DOMAIN new = DOMAIN t /\ new.first = t.first /\ new.pc \in {"read", "upload", "put"}
    BY <2>2, Zenon
  <2> HIDE DEF new
  <2> QED BY <1>3, <1>4, <2>1, <2>3, Zenon DEF Working
<1>5. ASSUME "group" \in Task, NEW first \in Block, ReadIndex(p, first), ~Fail(p) PROVE Inv'
  <2> DEFINE t == task[p]["group"]
             rest == t.todo \ {first}
             new == [t EXCEPT !.todo = rest, !.pc = IF rest = {} THEN "upload" ELSE "read"]
  <2>1. Continue(p, "group", new) /\ t.pc = "read"
    BY <1>5, Zenon DEF ReadIndex, At
  <2>2. DOMAIN t = {"pc", "first", "todo", "part", "read", "limit", "on"}
    BY <1>5, TaskFields, Zenon
  <2>3. DOMAIN new = DOMAIN t /\ new.first = t.first /\ new.pc \in {"read", "upload", "put"}
    BY <2>2, Zenon
  <2> HIDE DEF new
  <2> QED BY <1>3, <1>5, <2>1, <2>3, Zenon DEF Working
<1>6. CASE "segment" \in Task /\ UploadFragment(p)
  <2> DEFINE t == task[p]["segment"]
             part == t.part + 1
             new == [t EXCEPT !.part = part,
                              !.pc = IF part = Len(Fragment) THEN "put" ELSE "upload"]
  <2>1. Continue(p, "segment", new) /\ t.pc = "upload"
    BY <1>6, Zenon DEF UploadFragment, At
  <2>2. DOMAIN t = {"pc", "first", "todo", "part", "read", "limit", "on"}
    BY <1>6, TaskFields, Zenon
  <2>3. DOMAIN new = DOMAIN t /\ new.first = t.first /\ new.pc \in {"read", "upload", "put"}
    BY <2>2, Zenon
  <2> HIDE DEF new
  <2> QED BY <1>3, <1>6, <2>1, <2>3, Zenon DEF Working
<1>7. CASE "group" \in Task /\ UploadGroup(p)
  <2> DEFINE t == task[p]["group"]
             new == [t EXCEPT !.pc = "put"]
  <2>1. Continue(p, "group", new) /\ t.pc = "upload"
    BY <1>7, Zenon DEF UploadGroup, At
  <2>2. DOMAIN t = {"pc", "first", "todo", "part", "read", "limit", "on"}
    BY <1>7, TaskFields, Zenon
  <2>3. DOMAIN new = DOMAIN t /\ new.first = t.first /\ new.pc \in {"read", "upload", "put"}
    BY <2>2, Zenon
  <2> HIDE DEF new
  <2> QED BY <1>3, <1>7, <2>1, <2>3, Zenon DEF Working
<1> QED BY <1>2, <1>4, <1>5, <1>6, <1>7, Zenon

\* The cursor is read before it is written over.
LEMMA PutReadKeepsInv ==
    ASSUME Inv, NEW p \in Reader,
           \/ "segment" \in Task /\ PutRead(p, "segment", "segmented", Last(p))
           \/ "group" \in Task /\ PutRead(p, "group", "grouped", LastInGroup(p))
    PROVE  Inv'
<1>1. kv' = kv /\ UNCHANGED <<sync, view, inbox, blocks>>
  BY Zenon DEF PutRead, stateVars, syncVars, storeVars
<1>2. ASSUME NEW name \in Task, NEW key \in Conditional, NEW last, PutRead(p, name, key, last),
             name \in {"segment", "group"},
             key = IF name = "segment" THEN "segmented" ELSE "grouped",
             last = IF name = "segment" THEN task[p][name].first + size[p] - 1
                    ELSE task[p][name].first + GroupSizeOf[p] * size[p] - 1
      PROVE  Inv'
  <2>1. CASE IsNotHigher(kv[key], last)
    BY <1>1, <1>2, <2>1, QuietTask, TaskKeepsInv, Zenon DEF PutRead
  <2>2. CASE ~IsNotHigher(kv[key], last)
    <3> DEFINE t == task[p][name]
               new == [t EXCEPT !.pc = "txn", !.read = kv[key]]
    <3>1. Continue(p, name, new) /\ t.pc = "put"
      BY <1>2, <2>2, Zenon DEF PutRead, At
    <3>2. DOMAIN t = {"pc", "first", "todo", "part", "read", "limit", "on"}
      BY TaskFields, Zenon
    <3>3. DOMAIN new = DOMAIN t /\ new.first = t.first /\ new.pc = "txn" /\ new.read = kv[key]
      BY <3>2, Zenon
    <3>4. ReadOK(kv[key], kv[key], last)
      BY <2>2 DEF ReadOK, Inv, KvOK
    <3>5. TaskOK(name, t, size[p], GroupSizeOf[p], ChainHead,
                 kv["segmented"], kv["grouped"], blocks)
      BY TaskIsOK, Zenon
    <3> HIDE DEF new, t
    <3>6. TaskOK(name, new, size[p], GroupSizeOf[p], ChainHead,
                 kv["segmented"], kv["grouped"], blocks)
      <4>1. CASE name = "segment"
        <5>1. ReadOK(kv["segmented"], kv["segmented"], t.first + size[p] - 1)
          BY <1>2, <3>4, <4>1, Zenon DEF t
        <5>2. SegmentOK(t, size[p], ChainHead, kv["segmented"])
          BY <3>5, <4>1, Zenon DEF TaskOK
        <5>3. SegmentOK(new, size[p], ChainHead, kv["segmented"])
          BY <1>2, <3>1, <3>3, <4>1, <5>1, <5>2, Zenon DEF SegmentOK, Working
        <5> QED BY <3>3, <3>5, <4>1, <5>3, Zenon DEF TaskOK
      <4>2. CASE name = "group"
        <5>1. ReadOK(kv["grouped"], kv["grouped"], t.first + GroupSizeOf[p] * size[p] - 1)
          BY <1>2, <3>4, <4>2, Zenon DEF t
        <5>2. GroupOK(t, size[p], GroupSizeOf[p], kv["segmented"], kv["grouped"])
          BY <3>5, <4>2, Zenon DEF TaskOK
        <5>3. GroupOK(new, size[p], GroupSizeOf[p], kv["segmented"], kv["grouped"])
          BY <1>2, <3>1, <3>3, <4>2, <5>1, <5>2, Zenon DEF GroupOK, Working
        <5> QED BY <3>3, <3>5, <4>2, <5>3, Zenon DEF TaskOK
      <4> QED BY <1>2, <4>1, <4>2, Zenon
    <3> QED BY <1>1, <3>1, <3>6, TaskKeepsInv, Zenon
  <2> QED BY <2>1, <2>2, Zenon
<1>3. CASE "segment" \in Task /\ PutRead(p, "segment", "segmented", Last(p))
  BY <1>2, <1>3, Zenon DEF Conditional, Last, Size
<1>4. CASE "group" \in Task /\ PutRead(p, "group", "grouped", LastInGroup(p))
  BY <1>2, <1>4, Zenon DEF Conditional, LastInGroup, BlocksInGroup, Size
<1> QED BY <1>3, <1>4, Zenon

\* What the prune task does without writing to etcd.
LEMMA PruneKeepsInv ==
    ASSUME Inv, NEW p \in Reader, "prune" \in Task,
           PruneTick(p) \/ ReadPruned(p) \/ DeleteBlock(p)
    PROVE  Inv'
<1>1. kv' = kv /\ UNCHANGED <<sync, view, inbox>>
  BY Zenon DEF PruneTick, ReadPruned, DeleteBlock, stateVars, syncVars
<1>2. AtMost(GetPruned, GetGrouped) /\ (GetPruned # Null => GetPruned >= StartingBlock)
      /\ (GetGrouped # Null => GetGrouped \in Nat)
  BY Zenon DEF Inv, KvOK
<1>3. CASE PruneTick(p)
  <2>1. blocks' = blocks
    BY <1>3, Zenon DEF PruneTick, storeVars
  <2>2. CASE PruneLimit = Null
    BY <1>1, <1>3, <2>1, <2>2, QuietTask, TaskKeepsInv, Zenon DEF PruneTick
  <2>3. CASE PruneLimit # Null
    <3> DEFINE new == [Idle EXCEPT !.pc = "pruned", !.limit = PruneLimit]
    <3>1. Continue(p, "prune", new)
      BY <1>3, <2>3, Zenon DEF PruneTick
    <3>2. /\ DOMAIN new = {"pc", "first", "todo", "part", "read", "limit", "on"}
          /\ new.pc = "pruned" /\ new.limit = GetGrouped
      BY Zenon DEF Idle, PruneLimit
    <3> HIDE DEF new
    <3>3. PruneOK(new, GetGrouped, blocks)
      BY <1>2, <2>3, <3>2 DEF PruneOK, AtMost, PruneLimit
    <3>4. TaskOK("prune", new, size[p], GroupSizeOf[p], ChainHead,
                 kv["segmented"], kv["grouped"], blocks)
      BY <3>2, <3>3, Zenon DEF TaskOK, GetGrouped, Get
    <3> QED BY <1>1, <2>1, <3>1, <3>4, TaskKeepsInv, Zenon
  <2> QED BY <2>2, <2>3, Zenon
<1>4. CASE ReadPruned(p)
  <2> DEFINE top == task[p]["prune"].limit
  <2>1. blocks' = blocks
    BY <1>4, Zenon DEF ReadPruned, storeVars
  <2>2. top # Null /\ AtMost(top, GetGrouped)
    BY <1>4, TaskIsOK, Zenon DEF ReadPruned, At, TaskOK, PruneOK, GetGrouped, Get
  <2>3. top \in Nat /\ GetGrouped \in Nat /\ top <= GetGrouped
    BY <2>2, Zenon DEF AtMost
  <2>4. PruneStart \in Nat /\ StartingBlock <= PruneStart
    BY <1>2, StartingBlockAssumption DEF PruneStart, AtMost
  <2>5. GoneTo(PruneStart - 1, blocks)
    <3>1. CASE GetPruned = Null
      BY <3>1, StartingBlockAssumption DEF GoneTo, PruneStart
    <3>2. CASE GetPruned # Null
      <4>1. GoneTo(GetPruned, blocks) /\ PruneStart = GetPruned
        BY <3>2, Zenon DEF Inv, StoreOK, PruneStart
      <4> QED BY <2>4, <4>1, StartingBlockAssumption DEF GoneTo
    <3> QED BY <3>1, <3>2, Zenon
  <2>6. CASE PruneStart < top
    <3> DEFINE new == [Idle EXCEPT !.pc = "delete", !.first = PruneStart, !.part = Size(p),
                                   !.limit = top]
    <3>1. Continue(p, "prune", new)
      BY <1>4, <2>6, Zenon DEF ReadPruned
    <3>2. /\ DOMAIN new = {"pc", "first", "todo", "part", "read", "limit", "on"}
          /\ new.pc = "delete" /\ new.first = PruneStart /\ new.limit = top
      BY Zenon DEF Idle
    <3> HIDE DEF new, top
    <3>3. PruneOK(new, GetGrouped, blocks)
      BY <2>2, <2>3, <2>4, <2>5, <2>6, <3>2 DEF PruneOK
    <3>4. TaskOK("prune", new, size[p], GroupSizeOf[p], ChainHead,
                 kv["segmented"], kv["grouped"], blocks)
      BY <3>2, <3>3, Zenon DEF TaskOK, GetGrouped, Get
    <3> QED BY <1>1, <2>1, <3>1, <3>4, TaskKeepsInv, Zenon
  <2>7. CASE ~(PruneStart < top)
    <3> DEFINE new == [WaitFor("segmented") EXCEPT !.limit = top]
    <3>1. Continue(p, "prune", new)
      BY <1>4, <2>7, Zenon DEF ReadPruned
    <3>2. /\ DOMAIN new = {"pc", "first", "todo", "part", "read", "limit", "on"}
          /\ new.pc = "gap" /\ new.limit = top
      BY Zenon DEF Idle, WaitFor
    <3> HIDE DEF new, top
    <3>3. GoneTo(top - 1, blocks)
      BY <2>3, <2>4, <2>5, <2>7, StartingBlockAssumption DEF GoneTo
    <3>4. PruneOK(new, GetGrouped, blocks)
      BY <2>2, <3>2, <3>3, Zenon DEF PruneOK
    <3>5. TaskOK("prune", new, size[p], GroupSizeOf[p], ChainHead,
                 kv["segmented"], kv["grouped"], blocks)
      BY <3>2, <3>4, Zenon DEF TaskOK, GetGrouped, Get
    <3> QED BY <1>1, <2>1, <3>1, <3>5, TaskKeepsInv, Zenon
  <2> QED BY <2>6, <2>7, Zenon
<1>5. CASE DeleteBlock(p)
  <2> DEFINE t == task[p]["prune"]
             next == t.first + 1
             new == [t EXCEPT !.first = next, !.part = @ - 1,
                         !.pc = IF BatchIsOver(t.part - 1, next, t.limit) THEN "put" ELSE "delete"]
  <2>1. Continue(p, "prune", new) /\ blocks' = blocks \ {t.first} /\ t.pc = "delete"
    BY <1>5, Zenon DEF DeleteBlock, At
  <2>2. DOMAIN t = {"pc", "first", "todo", "part", "read", "limit", "on"}
        /\ PruneOK(t, GetGrouped, blocks)
    BY TaskIsOK, Zenon DEF TaskOK, GetGrouped, Get
  <2>3. /\ DOMAIN new = DOMAIN t /\ new.first = next /\ new.limit = t.limit
        /\ new.pc = "put" \/ (new.pc = "delete" /\ ~BatchIsOver(t.part - 1, next, t.limit))
    BY <2>2, Zenon
  <2> HIDE DEF t, new
  <2>4. /\ t.first \in Nat /\ StartingBlock <= t.first /\ t.first <= t.limit
        /\ t.limit \in Nat /\ GetGrouped \in Nat /\ t.limit <= GetGrouped /\ t.limit # Null
        /\ GoneTo(t.first - 1, blocks)
    BY <2>1, <2>2, Zenon DEF PruneOK, AtMost
  <2>5. GoneTo(t.first, blocks')
    BY <2>1, <2>4, StartingBlockAssumption DEF GoneTo
  <2>6. /\ next - 1 = t.first /\ next \in Nat /\ StartingBlock < next
        /\ new.pc = "delete" => next <= t.limit
    BY <2>3, <2>4, StartingBlockAssumption DEF BatchIsOver
  <2> HIDE DEF next
  <2>7. PruneOK(new, GetGrouped, blocks')
    <3>1. AtMost(new.limit, GetGrouped)
      BY <2>3, <2>4, Zenon DEF AtMost
    <3> QED BY <2>3, <2>4, <2>5, <2>6, <3>1, StartingBlockAssumption DEF PruneOK
  <2>8. KvOK' /\ StepAdvances
    BY <1>1, <2>1, SameKv, Zenon DEF Inv
  <2>9. TasksOK'
    <3>1. TaskOK("prune", new, size[p], GroupSizeOf[p], ChainHead',
                 kv'["segmented"], kv'["grouped"], blocks')
      BY <1>1, <2>2, <2>3, <2>7, Zenon DEF TaskOK, GetGrouped, Get
    <3> QED BY <2>1, <2>8, <3>1, OneTask, Zenon DEF Inv
  <2>10. StoreOK'
    <3>1. GetGrouped' = GetGrouped /\ GetPruned' = GetPruned /\ ChainHead' = ChainHead
      BY <1>1, Zenon DEF GetGrouped, GetPruned, ChainHead, GetRecent, Get
    <3>2. \A block \in StartingBlock .. ChainHead :
              block \notin blocks' => GetGrouped # Null /\ block <= GetGrouped
      BY <2>1, <2>4, NullIsNoNumber DEF Inv, StoreOK
    <3>3. GetPruned # Null => GoneTo(GetPruned, blocks')
      BY <2>1, Zenon DEF Inv, StoreOK, GoneTo
    <3> QED BY <3>1, <3>2, <3>3, Zenon DEF StoreOK
  <2>11. UNCHANGED <<lock, loop, left>>
    BY <2>1, Zenon DEF Continue
  <2>12. ReadersOK'
    BY <1>1, <2>8, <2>11, SameReaders, Zenon DEF Inv, ReadersOK
  <2> QED BY <2>8, <2>9, <2>10, <2>11, <2>12, SameLock, Zenon DEF Inv
<1> QED BY <1>3, <1>4, <1>5, Zenon

-----------------------------------------------------------------------------
(* The writes to etcd.                                                     *)

LEMMA PutWrites ==
    ASSUME KvOK, NEW key \in Key, NEW value, Put(key, value)
    PROVE  /\ DOMAIN kv' = Key
           /\ kv'[key].value = value
           /\ key \in Conditional => kv'[key].revision = kv[key].revision + 1
           /\ \A other \in Key : other # key => kv'[other] = kv[other]
  BY Zenon DEF KvOK, Put, Written

LEMMA PutKeepsReaders ==
    ASSUME ReadersOK, StepAdvances, UNCHANGED <<sync, view, loop>>,
           NEW key \in Key, NEW value \in Nat, Put(key, value),
           key = "segmented" => value = GetSegmented', key = "grouped" => value = GetGrouped',
           key # "recent"
    PROVE  ReadersOK'
<1>1. CASE key \in IngestionKey
  <2> DEFINE e == Event(key, value)
  <2>1. e \in EventType /\ e.key = key /\ e.value = value
    BY <1>1, Zenon DEF Event, EventType
  <2>2. EventOK(e, GetSegmented', GetGrouped', ChainHead')
    BY <2>1 DEF EventOK, AtMost
  <2>3. Send(<<e>>)
    BY <1>1, Zenon DEF Put
  <2> HIDE DEF e
  <2>4. <<e>> \in Seq(EventType) /\ Len(<<e>>) = 1 /\ <<e>>[1] = e
    BY <2>1
  <2>5. \A i \in 1 .. Len(<<e>>) : EventOK(<<e>>[i], GetSegmented', GetGrouped', ChainHead')
    BY <2>2, <2>4
  <2> QED BY <2>3, <2>4, <2>5, EventsAreSent, Zenon
<1>2. CASE key \notin IngestionKey
  <2>1. Send(<<>>) /\ <<>> \in Seq(EventType) /\ Len(<<>>) = 0
    BY <1>2 DEF Put
  <2>2. \A i \in 1 .. Len(<<>>) : FALSE
    BY <2>1
  <2> DEFINE none == <<>>
  <2> HIDE DEF none
  <2>3. /\ Send(none) /\ none \in Seq(EventType)
        /\ \A i \in 1 .. Len(none) : EventOK(none[i], GetSegmented', GetGrouped', ChainHead')
    BY <2>1, <2>2, Zenon DEF none
  <2> QED BY <2>3, EventsAreSent, Zenon
<1> QED BY <1>1, <1>2, Zenon

\* A write that leaves the cursors and the published chain alone.
LEMMA OtherWrite ==
    ASSUME Inv, NEW key \in OptionKey \cup {"finalized"}, NEW value \in Nat, Put(key, value),
           UNCHANGED <<sync, view, loop, blocks, task, size, left, lock>>
    PROVE  Inv'
<1>1. /\ DOMAIN kv' = Key /\ kv'[key].value = value
      /\ \A other \in Key : other # key => kv'[other] = kv[other]
  BY PutWrites, Zenon DEF Inv, OptionKey, IngestionKey, Key
<1>2. /\ kv'["segmented"] = kv["segmented"] /\ kv'["grouped"] = kv["grouped"]
      /\ kv'["recent"] = kv["recent"] /\ kv'["pruned"] = kv["pruned"]
      /\ kv'["ingested"] = kv["ingested"]
  BY <1>1, Zenon DEF OptionKey, IngestionKey, Key
<1>3. /\ GetSegmented' = GetSegmented /\ GetGrouped' = GetGrouped /\ GetPruned' = GetPruned
      /\ GetRecent' = GetRecent /\ ChainHead' = ChainHead
      /\ GetLegacyIngested' = GetLegacyIngested
  BY <1>2, Zenon
     DEF GetSegmented, GetGrouped, GetPruned, GetRecent, ChainHead, GetLegacyIngested, Get
<1>4. GetFinalized' \in Nat
  <2>1. GetFinalized \in Nat
    BY Zenon DEF Inv, KvOK
  <2> QED BY <1>1, <2>1, Zenon DEF GetFinalized, Get, Key, IngestionKey
<1>5. KvOK'
  BY <1>1, <1>2, <1>3, <1>4, Zenon DEF Inv, KvOK, Conditional
<1>6. StepAdvances
  <2>1. AtMost(GetSegmented, GetSegmented) /\ AtMost(GetGrouped, GetGrouped) /\ ChainHead \in Nat
    BY CursorsAreKnown, Zenon DEF Inv
  <2>2. kv["segmented"].revision \in Nat /\ kv["grouped"].revision \in Nat
    BY Zenon DEF Inv, KvOK, Conditional
  <2>3. ChainHead <= ChainHead
    BY <2>1
  <2>4. Advances(ChainHead, kv["segmented"], kv["grouped"], blocks,
                 ChainHead, kv["segmented"], kv["grouped"], blocks)
    BY <2>1, <2>2, <2>3, EntriesStay, Zenon DEF GetSegmented, GetGrouped, Get
  <2> QED BY <1>2, <1>3, <2>4, Zenon DEF StepAdvances
<1>7. ReadersOK'
  BY <1>6, PutKeepsReaders, Zenon DEF Inv, OptionKey, IngestionKey, Key
<1>8. StoreOK'
  BY <1>3, Zenon DEF Inv, StoreOK
<1> QED BY <1>5, <1>6, <1>7, <1>8, SameLock, SameTasks, Zenon DEF Inv

LEMMA OptionKeepsInv ==
    ASSUME Inv, NEW p \in Deployed, StoreOption(p)
    PROVE  Inv'
<1>1. size[p] \in Nat /\ GroupSizeOf[p] \in Nat
  BY DeployedSize, CompactionAssumption, Zenon
<1>2. UNCHANGED <<sync, view, loop, blocks, task, size, left, lock>>
  BY Zenon DEF StoreOption, syncVars, storeVars, processVars
<1>3. Put("segment_size", size[p]) \/ Put("group_size", GroupSizeOf[p])
  BY Zenon DEF StoreOption, SetOption, Size
<1> QED BY <1>1, <1>2, <1>3, OtherWrite, Zenon DEF OptionKey

LEMMA FinalizedKeepsInv ==
    ASSUME Inv, ChainIsFinalized
    PROVE  Inv'
<1>1. GetFinalized + 1 \in Nat
  BY DEF Inv, KvOK
<1>2. UNCHANGED <<sync, view, loop, blocks, task, size, left, lock>>
  BY Zenon DEF ChainIsFinalized, IngesterFinalizes, syncVars, storeVars, processVars
<1>3. Put("finalized", GetFinalized + 1)
  BY Zenon DEF ChainIsFinalized, IngesterFinalizes, PutFinalized
<1> QED BY <1>1, <1>2, <1>3, OtherWrite, Zenon

\* A cursor is written over what was read, which it is above.
LEMMA CursorMovesUp ==
    ASSUME KvOK, NEW key \in Conditional, NEW read, NEW last \in Nat,
           ReadOK(read, kv[key], last), kv[key].revision = read.revision,
           kv[key].value = Null \/ kv[key].value \in Nat, Put(key, last)
    PROVE  /\ kv'[key].value = last
           /\ kv[key].value = Null \/ kv[key].value < last
           /\ AtMost(kv[key].value, kv'[key].value)
           /\ kv'[key].revision = kv[key].revision + 1 /\ kv[key].revision \in Nat
<1>1. kv'[key].value = last /\ kv'[key].revision = kv[key].revision + 1
  BY PutWrites, Zenon DEF Conditional, IngestionKey, Key
<1>2. kv[key].value = Null \/ kv[key].value < last
  BY DEF ReadOK, IsNotHigher
<1> QED BY <1>1, <1>2 DEF AtMost, KvOK

\* What a write of one of the cursors leaves to show.
LEMMA CursorWrite ==
    ASSUME Inv, NEW p \in Reader, NEW name \in Task, NEW key \in Conditional, NEW last \in Nat,
           Put(key, last), GetSegmented' = last \/ key # "segmented",
           GetGrouped' = last \/ key # "grouped", Continue(p, name, Tick),
           UNCHANGED <<sync, view, blocks>>, StepAdvances, KvOK', StoreOK'
    PROVE  Inv'
<1>1. UNCHANGED <<loop, lock, left>>
  BY Zenon DEF Continue
<1>2. ReadersOK'
  BY <1>1, PutKeepsReaders, Zenon DEF Inv, Conditional, IngestionKey, Key
<1>3. TasksOK'
  BY QuietTask, OneTask, Zenon DEF Inv
<1> QED BY <1>1, <1>2, <1>3, SameLock, Zenon DEF Inv

\* A step that writes cursors and nothing else only has to move them up.
LEMMA CursorsAdvance ==
    ASSUME NEW h \in Nat, NEW stored, NEW es, NEW eg, NEW es2, NEW eg2,
           AtMost(es.value, es2.value), AtMost(eg.value, eg2.value),
           es.revision \in Nat, es2.revision \in Nat, es.revision <= es2.revision,
           es.revision = es2.revision => es.value = es2.value,
           eg.revision \in Nat, eg2.revision \in Nat, eg.revision <= eg2.revision,
           eg.revision = eg2.revision => eg.value = eg2.value
    PROVE  Advances(h, es, eg, stored, h, es2, eg2, stored)
BY DEF Advances

\* A write raises the revision.
LEMMA RevisionGrows ==
    ASSUME NEW before \in Nat, NEW after, after = before + 1
    PROVE  after \in Nat /\ before <= after /\ before # after
OBVIOUS

LEMMA SegmentedKeepsInv ==
    ASSUME Inv, NEW p \in Reader, "segment" \in Task, PutTxn(p, "segment", "segmented", Last(p)),
           kv["segmented"].revision = task[p]["segment"].read.revision
    PROVE  Inv' /\ StepAdvances
<1> DEFINE t == task[p]["segment"]
           last == Last(p)
<1>1. /\ Put("segmented", last) /\ Continue(p, "segment", Tick) /\ t.pc = "txn"
      /\ UNCHANGED <<sync, view, blocks>>
  BY Zenon DEF PutTxn, PutIfUnchanged, PutIfModRevision, At, syncVars, storeVars
<1>2. SegmentOK(t, size[p], ChainHead, kv["segmented"])
  BY TaskIsOK, Zenon DEF TaskOK
<1>3. last = t.first + size[p] - 1
  BY Zenon DEF Last, Size
<1> HIDE DEF last, t
<1>4. ChainHead \in Nat /\ KvOK
  BY CursorsAreKnown, Zenon DEF Inv
<1>5. last \in Nat /\ last <= ChainHead /\ ReadOK(t.read, kv["segmented"], last)
  BY <1>1, <1>2, <1>3, <1>4 DEF SegmentOK, Working
<1>6. GetSegmented = Null \/ GetSegmented \in Nat
  BY <1>4, Zenon DEF KvOK, AtMost
<1>7. /\ GetSegmented' = last /\ (GetSegmented = Null \/ GetSegmented < last)
      /\ AtMost(GetSegmented, GetSegmented')
      /\ kv'["segmented"].revision = kv["segmented"].revision + 1
      /\ kv["segmented"].revision \in Nat
  <2>1. "segmented" \in Conditional /\ kv["segmented"].revision = t.read.revision
    BY Zenon DEF Conditional, t
  <2>2. kv["segmented"].value = Null \/ kv["segmented"].value \in Nat
    BY <1>6, Zenon DEF GetSegmented, Get
  <2>3. /\ kv'["segmented"].value = last
        /\ kv["segmented"].value = Null \/ kv["segmented"].value < last
        /\ AtMost(kv["segmented"].value, kv'["segmented"].value)
        /\ kv'["segmented"].revision = kv["segmented"].revision + 1 /\ kv["segmented"].revision \in Nat
    BY <1>1, <1>4, <1>5, <2>1, <2>2, CursorMovesUp, Zenon
  <2> QED BY <2>3, Zenon DEF GetSegmented, Get
<1>8. DOMAIN kv' = Key /\ \A other \in Key : other # "segmented" => kv'[other] = kv[other]
  BY <1>1, <1>4, PutWrites, Zenon DEF Key, IngestionKey
<1>9. /\ kv'["grouped"] = kv["grouped"] /\ GetGrouped' = GetGrouped /\ GetPruned' = GetPruned
      /\ GetRecent' = GetRecent /\ ChainHead' = ChainHead
      /\ GetLegacyIngested' = GetLegacyIngested /\ GetFinalized' = GetFinalized
  BY <1>8, Zenon
     DEF GetGrouped, GetPruned, GetRecent, ChainHead, GetLegacyIngested, GetFinalized, Get,
              Key, IngestionKey
<1>10. KvOK'
  <2>1. AtMost(GetSegmented', ChainHead)
    BY <1>4, <1>5, <1>7, Zenon DEF AtMost
  <2>2. GetGrouped # Null => /\ GetGrouped \in Nat /\ GetSegmented' \in Nat
                             /\ GetGrouped < GetSegmented'
    BY <1>4, <1>5, <1>7, NullIsNoNumber DEF KvOK
  <2>3. \A key \in Conditional : kv'[key].revision \in Nat
    BY <1>4, <1>7, <1>9 DEF KvOK, Conditional
  <2> QED BY <1>4, <1>8, <1>9, <2>1, <2>2, <2>3, Zenon DEF KvOK
<1>11. StepAdvances
  <2>1. AtMost(GetGrouped, GetGrouped)
    BY <1>4, CursorsAreKnown, Zenon
  <2>2. kv["grouped"].revision \in Nat
    BY <1>4, Zenon DEF KvOK, Conditional
  <2>3. /\ AtMost(kv["segmented"].value, kv'["segmented"].value)
        /\ AtMost(kv["grouped"].value, kv["grouped"].value)
    BY <1>7, <2>1, Zenon DEF GetSegmented, GetGrouped, Get
  <2>4. /\ kv["segmented"].revision \in Nat /\ kv'["segmented"].revision \in Nat
        /\ kv["segmented"].revision <= kv'["segmented"].revision
        /\ kv["segmented"].revision # kv'["segmented"].revision
    BY <1>7, RevisionGrows, Zenon
  <2>5. Advances(ChainHead, kv["segmented"], kv["grouped"], blocks,
                 ChainHead, kv'["segmented"], kv["grouped"], blocks)
    <3>1. kv["grouped"].revision <= kv["grouped"].revision
      BY <2>2
    <3> QED BY <1>4, <2>2, <2>3, <2>4, <3>1, CursorsAdvance, Zenon
  <2> QED BY <1>1, <1>9, <2>5, Zenon DEF StepAdvances
<1>12. StoreOK'
  BY <1>1, <1>9, Zenon DEF Inv, StoreOK
<1> QED BY <1>1, <1>5, <1>7, <1>10, <1>11, <1>12, CursorWrite, Zenon DEF Conditional

LEMMA GroupedKeepsInv ==
    ASSUME Inv, NEW p \in Reader, "group" \in Task, PutTxn(p, "group", "grouped", LastInGroup(p)),
           kv["grouped"].revision = task[p]["group"].read.revision
    PROVE  Inv' /\ StepAdvances
<1> DEFINE t == task[p]["group"]
           last == LastInGroup(p)
           n == GroupSizeOf[p] * size[p]
<1>1. /\ Put("grouped", last) /\ Continue(p, "group", Tick) /\ t.pc = "txn"
      /\ UNCHANGED <<sync, view, blocks>>
  BY Zenon DEF PutTxn, PutIfUnchanged, PutIfModRevision, At, syncVars, storeVars
<1>2. GroupOK(t, size[p], GroupSizeOf[p], kv["segmented"], kv["grouped"])
  BY TaskIsOK, Zenon DEF TaskOK
<1>3. last = t.first + n - 1
  BY Zenon DEF LastInGroup, BlocksInGroup, Size
<1>4. ChainHead \in Nat /\ KvOK
  BY CursorsAreKnown, Zenon DEF Inv
<1>5. size[p] \in Nat \ {0} => n \in Nat \ {0}
  BY CompactionAssumption
<1>6. /\ size[p] \in Nat \ {0} /\ t.first \in Nat /\ GetSegmented \in Nat
      /\ t.first + n <= GetSegmented /\ ReadOK(t.read, kv["grouped"], t.first + n - 1)
  BY <1>1, <1>2, Zenon DEF GroupOK, Working, GetSegmented, Get
<1> HIDE DEF last, t, n
<1>7. last \in Nat /\ last < GetSegmented /\ ReadOK(t.read, kv["grouped"], last)
  BY <1>3, <1>5, <1>6
<1>8. GetGrouped = Null \/ GetGrouped \in Nat
  BY <1>4, Zenon DEF KvOK
<1>9. /\ GetGrouped' = last /\ (GetGrouped = Null \/ GetGrouped < last)
      /\ AtMost(GetGrouped, GetGrouped')
      /\ kv'["grouped"].revision = kv["grouped"].revision + 1
      /\ kv["grouped"].revision \in Nat
  <2>1. "grouped" \in Conditional /\ kv["grouped"].revision = t.read.revision
    BY Zenon DEF Conditional, t
  <2>2. kv["grouped"].value = Null \/ kv["grouped"].value \in Nat
    BY <1>8, Zenon DEF GetGrouped, Get
  <2>3. /\ kv'["grouped"].value = last
        /\ kv["grouped"].value = Null \/ kv["grouped"].value < last
        /\ AtMost(kv["grouped"].value, kv'["grouped"].value)
        /\ kv'["grouped"].revision = kv["grouped"].revision + 1 /\ kv["grouped"].revision \in Nat
    BY <1>1, <1>4, <1>7, <2>1, <2>2, CursorMovesUp, Zenon
  <2> QED BY <2>3, Zenon DEF GetGrouped, Get
<1>10. DOMAIN kv' = Key /\ \A other \in Key : other # "grouped" => kv'[other] = kv[other]
  BY <1>1, <1>4, PutWrites, Zenon DEF Key, IngestionKey
<1>11. /\ kv'["segmented"] = kv["segmented"] /\ GetSegmented' = GetSegmented
       /\ GetPruned' = GetPruned /\ GetRecent' = GetRecent /\ ChainHead' = ChainHead
       /\ GetLegacyIngested' = GetLegacyIngested /\ GetFinalized' = GetFinalized
  BY <1>10, Zenon
     DEF GetSegmented, GetPruned, GetRecent, ChainHead, GetLegacyIngested, GetFinalized, Get,
              Key, IngestionKey
<1>12. KvOK'
  <2>1. AtMost(GetPruned, GetGrouped')
    BY <1>4, <1>9, AtMostIsTransitive, Zenon DEF KvOK
  <2>2. GetGrouped' \in Nat /\ GetGrouped' < GetSegmented'
    BY <1>7, <1>9, <1>11, Zenon
  <2>3. \A key \in Conditional : kv'[key].revision \in Nat
    BY <1>4, <1>9, <1>11 DEF KvOK, Conditional
  <2> QED BY <1>4, <1>6, <1>10, <1>11, <2>1, <2>2, <2>3, Zenon DEF KvOK
<1>13. StepAdvances
  <2>1. AtMost(GetSegmented, GetSegmented)
    BY <1>4, CursorsAreKnown, Zenon
  <2>2. kv["segmented"].revision \in Nat
    BY <1>4, Zenon DEF KvOK, Conditional
  <2>3. /\ AtMost(kv["grouped"].value, kv'["grouped"].value)
        /\ AtMost(kv["segmented"].value, kv["segmented"].value)
    BY <1>9, <2>1, Zenon DEF GetSegmented, GetGrouped, Get
  <2>4. /\ kv["grouped"].revision \in Nat /\ kv'["grouped"].revision \in Nat
        /\ kv["grouped"].revision <= kv'["grouped"].revision
        /\ kv["grouped"].revision # kv'["grouped"].revision
    BY <1>9, RevisionGrows, Zenon
  <2>5. Advances(ChainHead, kv["segmented"], kv["grouped"], blocks,
                 ChainHead, kv["segmented"], kv'["grouped"], blocks)
    <3>1. kv["segmented"].revision <= kv["segmented"].revision
      BY <2>2
    <3> QED BY <1>4, <2>2, <2>3, <2>4, <3>1, CursorsAdvance, Zenon
  <2> QED BY <1>1, <1>11, <2>5, Zenon DEF StepAdvances
<1>14. StoreOK'
  <2>1. \A block \in StartingBlock .. ChainHead :
            block \notin blocks => GetGrouped' # Null /\ block <= GetGrouped'
    <3> TAKE block \in StartingBlock .. ChainHead
    <3>1. block \notin blocks => GetGrouped # Null /\ block <= GetGrouped
      BY Zenon DEF Inv, StoreOK
    <3>2. GetGrouped # Null => GetGrouped \in Nat /\ GetGrouped < GetGrouped'
      BY <1>8, <1>9, Zenon
    <3>3. GetGrouped' \in Nat /\ GetGrouped' # Null
      BY <1>7, <1>9, NullIsNoNumber, Zenon
    <3>4. block \in Nat
      BY <1>4, StartingBlockAssumption
    <3> QED BY <3>1, <3>2, <3>3, <3>4
  <2> QED BY <1>1, <1>11, <2>1, Zenon DEF Inv, StoreOK
<1> QED BY <1>1, <1>7, <1>9, <1>12, <1>13, <1>14, CursorWrite, Zenon DEF Conditional

\* Somebody has written the cursor since it was read: it is read again.
LEMMA RetryKeepsInv ==
    ASSUME Inv, NEW p \in Reader, NEW name \in Task \cap {"segment", "group"},
           NEW key, NEW last, PutTxn(p, name, key, last),
           kv[key].revision # task[p][name].read.revision
    PROVE  Inv' /\ StepAdvances
<1> DEFINE t == task[p][name]
           new == [t EXCEPT !.pc = "put", !.read = Missing]
<1>1. /\ kv' = kv /\ UNCHANGED <<sync, view, inbox, blocks>>
      /\ Continue(p, name, new) /\ t.pc = "txn"
  BY Zenon DEF PutTxn, PutIfUnchanged, PutIfModRevision, At, stateVars, syncVars, storeVars
<1>2. DOMAIN t = {"pc", "first", "todo", "part", "read", "limit", "on"}
  BY TaskFields, Zenon
<1>3. DOMAIN new = DOMAIN t /\ new.first = t.first /\ new.pc = "put"
  BY <1>2, Zenon
<1> HIDE DEF new
<1>4. TaskOK(name, new, size[p], GroupSizeOf[p], ChainHead, kv["segmented"], kv["grouped"], blocks)
  BY <1>1, <1>3, TaskIsOK, WorkGoesOn, Zenon DEF Working
<1>5. StepAdvances
  BY <1>1, SameKv, Zenon DEF Inv
<1> QED BY <1>1, <1>4, <1>5, TaskKeepsInv, Zenon

LEMMA PutTxnKeepsInv ==
    ASSUME Inv, NEW p \in Reader,
           \/ "segment" \in Task /\ PutTxn(p, "segment", "segmented", Last(p))
           \/ "group" \in Task /\ PutTxn(p, "group", "grouped", LastInGroup(p))
    PROVE  Inv' /\ StepAdvances
<1>1. CASE "segment" \in Task /\ PutTxn(p, "segment", "segmented", Last(p))
  BY <1>1, SegmentedKeepsInv, RetryKeepsInv, Zenon
<1>2. CASE "group" \in Task /\ PutTxn(p, "group", "grouped", LastInGroup(p))
  BY <1>2, GroupedKeepsInv, RetryKeepsInv, Zenon
<1> QED BY <1>1, <1>2, Zenon

LEMMA PutPrunedKeepsInv ==
    ASSUME Inv, NEW p \in Reader, "prune" \in Task, PutPrunedBlock(p)
    PROVE  Inv'
<1> DEFINE t == task[p]["prune"]
           pruned == t.first - 1
           new == IF t.first < t.limit THEN [t EXCEPT !.pc = "delete", !.part = Size(p)]
                  ELSE [WaitFor("segmented") EXCEPT !.limit = t.limit]
<1>1. /\ Put("pruned", pruned) /\ Continue(p, "prune", new) /\ t.pc = "put"
      /\ UNCHANGED <<sync, view, blocks>>
  BY Zenon DEF PutPrunedBlock, PutPruned, At, syncVars, storeVars
<1>2. DOMAIN t = {"pc", "first", "todo", "part", "read", "limit", "on"}
      /\ PruneOK(t, GetGrouped, blocks)
  BY TaskIsOK, Zenon DEF TaskOK, GetGrouped, Get
<1>3. /\ DOMAIN new = DOMAIN t /\ new.limit = t.limit
      /\ \/ t.first < t.limit /\ new.pc = "delete" /\ new.first = t.first
         \/ ~(t.first < t.limit) /\ new.pc = "gap"
  BY <1>2, Zenon DEF WaitFor, Idle
<1> HIDE DEF new, t
<1>4. /\ t.first \in Nat /\ StartingBlock < t.first /\ t.first - 1 <= t.limit
      /\ t.limit \in Nat /\ GetGrouped \in Nat /\ t.limit <= GetGrouped /\ t.limit # Null
      /\ GoneTo(t.first - 1, blocks)
  BY <1>1, <1>2, Zenon DEF PruneOK, AtMost
<1>5. pruned \in Nat /\ pruned >= StartingBlock /\ pruned <= GetGrouped /\ GoneTo(pruned, blocks)
  BY <1>4, StartingBlockAssumption
<1>6. KvOK
  BY Zenon DEF Inv
<1>7. /\ DOMAIN kv' = Key /\ kv'["pruned"].value = pruned
      /\ \A other \in Key : other # "pruned" => kv'[other] = kv[other]
  <2>1. "pruned" \in Key
    BY Zenon DEF Key
  <2> QED BY <1>1, <1>6, <2>1, PutWrites, Zenon
<1>8. /\ kv'["segmented"] = kv["segmented"] /\ kv'["grouped"] = kv["grouped"]
      /\ GetGrouped' = GetGrouped /\ GetSegmented' = GetSegmented /\ GetPruned' = pruned
      /\ GetRecent' = GetRecent /\ ChainHead' = ChainHead
      /\ GetLegacyIngested' = GetLegacyIngested /\ GetFinalized' = GetFinalized
  BY <1>7, Zenon
     DEF GetSegmented, GetGrouped, GetPruned, GetRecent, ChainHead, GetLegacyIngested,
              GetFinalized, Get, Key, IngestionKey
<1> HIDE DEF pruned
<1>9. KvOK'
  <2>1. AtMost(GetPruned', GetGrouped') /\ GetPruned' >= StartingBlock
    BY <1>4, <1>5, <1>8, Zenon DEF AtMost
  <2> QED BY <1>6, <1>7, <1>8, <2>1, Zenon DEF KvOK, Conditional
<1>10. StepAdvances
  <2>1. AtMost(GetSegmented, GetSegmented) /\ AtMost(GetGrouped, GetGrouped) /\ ChainHead \in Nat
    BY <1>6, CursorsAreKnown, Zenon
  <2>2. kv["segmented"].revision \in Nat /\ kv["grouped"].revision \in Nat
    BY <1>6, Zenon DEF KvOK, Conditional
  <2>3. /\ ChainHead <= ChainHead
        /\ kv["segmented"].revision <= kv["segmented"].revision
        /\ kv["grouped"].revision <= kv["grouped"].revision
    BY <2>1, <2>2
  <2> QED BY <1>1, <1>8, <2>1, <2>2, <2>3, Zenon
          DEF StepAdvances, Advances, GetSegmented, GetGrouped, Get
<1>11. StoreOK'
  BY <1>1, <1>5, <1>8, Zenon DEF Inv, StoreOK
<1>12. UNCHANGED <<lock, loop, left>>
  BY <1>1, Zenon DEF Continue
<1>13. ReadersOK'
  BY <1>1, <1>5, <1>10, <1>12, PutKeepsReaders, Zenon DEF Inv, Key
<1>14. PruneOK(new, GetGrouped, blocks)
  <2>1. AtMost(new.limit, GetGrouped)
    BY <1>3, <1>4, Zenon DEF AtMost
  <2>2. CASE t.first < t.limit
    BY <1>3, <1>4, <2>1, <2>2, StartingBlockAssumption DEF PruneOK
  <2>3. CASE ~(t.first < t.limit)
    <3>1. GoneTo(t.limit - 1, blocks)
      BY <1>4, <2>3, StartingBlockAssumption DEF GoneTo
    <3> QED BY <1>3, <2>1, <2>3, <3>1, Zenon DEF PruneOK
  <2> QED BY <2>2, <2>3, Zenon
<1>15. TasksOK'
  <2>1. TaskOK("prune", new, size[p], GroupSizeOf[p], ChainHead',
               kv'["segmented"], kv'["grouped"], blocks')
    BY <1>1, <1>2, <1>3, <1>8, <1>14, Zenon DEF TaskOK, GetGrouped, Get
  <2> QED BY <1>1, <1>10, <2>1, OneTask, Zenon DEF Inv
<1> QED BY <1>9, <1>11, <1>12, <1>13, <1>15, SameLock, Zenon DEF Inv

LEMMA GrowthKeepsInv ==
    ASSUME Inv, ChainGrows
    PROVE  Inv'
<1> DEFINE pointer == Pointer(IF GetRecent = Null THEN 1 ELSE GetRecent.key + 1, ChainHead + 1)
           gone == IF kv["pending"] = Missing THEN <<>> ELSE <<Event("pending", Null)>>
           e == Event("recent", pointer)
<1>1. /\ kv' = [kv EXCEPT !["recent"] = Written("recent", pointer), !["pending"] = Missing]
      /\ Send(<<e>> \o gone)
      /\ blocks' = blocks \cup {ChainHead + 1}
      /\ UNCHANGED <<sync, view, lock, loop, task, size, left>>
  BY Zenon DEF ChainGrows, IngesterPublishes, PutRecent, PutAndDelete, ChainHead, processVars
<1>2. KvOK /\ ChainHead \in Nat /\ GetRecent \in PointerType
  BY CursorsAreKnown, Zenon DEF Inv
<1>3. pointer \in PointerType /\ pointer.head = ChainHead + 1
  BY <1>2 DEF PointerType, Pointer
<1> HIDE DEF pointer
<1>4. /\ DOMAIN kv' = Key /\ kv'["recent"].value = pointer
      /\ \A other \in Key : other \notin {"recent", "pending"} => kv'[other] = kv[other]
  BY <1>1, <1>2, Zenon DEF KvOK, Written, Key, IngestionKey
<1>5. /\ kv'["segmented"] = kv["segmented"] /\ kv'["grouped"] = kv["grouped"]
      /\ GetGrouped' = GetGrouped /\ GetSegmented' = GetSegmented /\ GetPruned' = GetPruned
      /\ GetLegacyIngested' = GetLegacyIngested /\ GetFinalized' = GetFinalized
  BY <1>4, Zenon
     DEF GetSegmented, GetGrouped, GetPruned, GetLegacyIngested, GetFinalized, Get, Key,
              IngestionKey
<1>6. GetRecent' = pointer /\ ChainHead' = ChainHead + 1
  BY <1>3, <1>4, Zenon DEF GetRecent, ChainHead, Get
<1>7. KvOK'
  <2>1. AtMost(GetSegmented, ChainHead) /\ ChainHead \in Nat
    BY <1>2, Zenon DEF KvOK
  <2>2. AtMost(GetSegmented, ChainHead + 1)
    BY <2>1, AtMostNext, Zenon
  <2> QED BY <1>2, <1>3, <1>4, <1>5, <1>6, <2>2, Zenon DEF KvOK, Conditional
<1>8. GetGrouped # Null => GetGrouped \in Nat /\ GetGrouped < ChainHead + 1
  BY <1>2, NullIsNoNumber DEF KvOK, AtMost
<1>9. StepAdvances
  <2>1. AtMost(GetSegmented, GetSegmented) /\ AtMost(GetGrouped, GetGrouped)
    BY <1>2, CursorsAreKnown, Zenon
  <2>2. kv["segmented"].revision \in Nat /\ kv["grouped"].revision \in Nat
    BY <1>2, Zenon DEF KvOK, Conditional
  <2>3. ChainHead <= ChainHead + 1 /\ ChainHead + 1 \in Nat
    BY <1>2
  <2>4. \A block \in blocks' \ blocks : GetGrouped = Null \/ block > GetGrouped
    <3>1. GetGrouped # Null => ChainHead + 1 > GetGrouped
      BY <1>2, <1>8
    <3> QED BY <1>1, <3>1, Zenon
  <2>5. Advances(ChainHead, kv["segmented"], kv["grouped"], blocks,
                 ChainHead + 1, kv["segmented"], kv["grouped"], blocks')
    BY <1>2, <2>1, <2>2, <2>3, <2>4, EntriesStay, Zenon DEF GetSegmented, GetGrouped, Get
  <2> QED BY <1>5, <1>6, <2>5, Zenon DEF StepAdvances
<1>10. StoreOK'
  <2>1. \A block \in StartingBlock .. ChainHead + 1 :
            block \notin blocks' => GetGrouped # Null /\ block <= GetGrouped
    BY <1>1, <1>2, StartingBlockAssumption DEF Inv, StoreOK
  <2>2. GetPruned # Null => GetPruned \in Nat /\ GetPruned < ChainHead + 1
    BY <1>2, <1>8, NullIsNoNumber DEF KvOK, AtMost
  <2>3. GetPruned # Null => GoneTo(GetPruned, blocks')
    BY <1>1, <1>2, <2>2, StartingBlockAssumption DEF Inv, StoreOK, GoneTo
  <2> QED BY <1>5, <1>6, <2>1, <2>3, Zenon DEF StoreOK
<1>11. ReadersOK'
  <2> DEFINE EOK(x) == EventOK(x, GetSegmented', GetGrouped', ChainHead')
  <2>1. e \in EventType /\ EOK(e)
    BY <1>2, <1>3, <1>6 DEF Event, EventType, EventOK, IngestionKey
  <2>2. gone \in Seq(EventType) /\ \A i \in 1 .. Len(gone) : EOK(gone[i])
    <3> DEFINE d == Event("pending", Null)
    <3>1. d \in EventType /\ EOK(d)
      BY Zenon DEF Event, EventType, EventOK, IngestionKey
    <3>2. gone = <<>> \/ gone = <<d>>
      BY Zenon
    <3> HIDE DEF d, EOK, gone
    <3>3. CASE gone = <<>>
      BY <3>3
    <3>4. CASE gone = <<d>>
      <4>1. gone \in Seq(EventType) /\ Len(gone) = 1 /\ gone[1] = d
        BY <3>1, <3>4
      <4>2. \A i \in 1 .. 1 : i = 1
        OBVIOUS
      <4> QED BY <3>1, <4>1, <4>2, Zenon
    <3> QED BY <3>2, <3>3, <3>4, Zenon
  <2> HIDE DEF e, gone, EOK
  <2>3. /\ <<e>> \o gone \in Seq(EventType)
        /\ \A i \in 1 .. Len(<<e>> \o gone) : EOK((<<e>> \o gone)[i])
    BY <2>1, <2>2
  <2> QED BY <1>1, <1>9, <2>3, EventsAreSent, Zenon DEF Inv, EOK
<1> QED BY <1>1, <1>7, <1>9, <1>10, <1>11, SameLock, SameTasks, Zenon DEF Inv

-----------------------------------------------------------------------------
(* The theorems.                                                           *)

\* The cursor after n segments of a size is a block below the end of them.
LEMMA CursorAfterBlocks ==
    ASSUME NEW n \in Nat, NEW blocksIn \in Nat \ {0}
    PROVE  /\ n = 0 => CursorAfter(n, blocksIn) = Null
           /\ n > 0 => /\ CursorAfter(n, blocksIn) \in Nat
                       /\ CursorAfter(n, blocksIn) = StartingBlock + n * blocksIn - 1
<1>1. n > 0 => n * blocksIn \in Nat \ {0}
  OBVIOUS
<1> QED BY <1>1, StartingBlockAssumption DEF CursorAfter

\* Fewer blocks from the same one end at a lower block.
LEMMA LastsAreOrdered ==
    ASSUME NEW first \in Nat, NEW m \in Nat, NEW n \in Nat, m < n
    PROVE  first + m - 1 < first + n - 1
OBVIOUS

LEMMA InitIsOK == CompactionInit => Inv
<1> SUFFICES ASSUME CompactionInit PROVE Inv
  BY Zenon
<1> PICK s \in Scenario : Start(s)
  BY Zenon DEF CompactionInit
<1> DEFINE segmented == CursorAfter(s.segments, SegmentSize)
           grouped == CursorAfter(s.groups, SegmentSize * GroupSize)
           pointer == Pointer(1, s.head)
<1>1. /\ s.head \in Nat /\ StartingBlock <= s.head /\ s.segments \in Nat /\ s.groups \in Nat
      /\ SegmentSize \in Nat \ {0} /\ GroupSize \in Nat \ {0}
      /\ StartingBlock + s.segments * SegmentSize <= s.head
      /\ s.groups > 0 => s.groups * GroupSize < s.segments
      /\ s.size \in [Reader -> (Nat \ {0}) \cup {Null}] /\ s.tasks \subseteq Task
  BY CompactionAssumption, Zenon
<1>2. segmented = Null \/ (segmented \in Nat /\ segmented <= s.head)
  <2>1. s.segments * SegmentSize \in Nat
    BY <1>1
  <2> QED BY <1>1, <2>1, CursorAfterBlocks, StartingBlockAssumption
<1>3. grouped = Null \/ (grouped \in Nat /\ segmented \in Nat /\ grouped < segmented)
  <2>1. SegmentSize * GroupSize \in Nat \ {0}
    BY <1>1
  <2>2. CASE s.groups = 0
    BY <1>1, <2>1, <2>2, CursorAfterBlocks, Zenon
  <2>3. CASE s.groups > 0
    <3> DEFINE a == s.groups * GroupSize
    <3>1. s.groups * (SegmentSize * GroupSize) = a * SegmentSize
      BY <1>1
    <3>2. a \in Nat /\ a < s.segments
      BY <1>1, <2>3
    <3>3. a * SegmentSize < s.segments * SegmentSize
          /\ a * SegmentSize \in Nat /\ s.segments * SegmentSize \in Nat
      <4> HIDE DEF a
      <4> QED BY <1>1, <3>2
    <3>4. s.segments > 0
      BY <1>1, <3>2
    <3>5. segmented \in Nat /\ segmented = StartingBlock + s.segments * SegmentSize - 1
      BY <1>1, <3>4, CursorAfterBlocks, Zenon
    <3>6. grouped \in Nat /\ grouped = StartingBlock + a * SegmentSize - 1
      BY <1>1, <2>1, <2>3, <3>1, CursorAfterBlocks, Zenon
    <3> QED BY <3>3, <3>5, <3>6, LastsAreOrdered, StartingBlockAssumption, Zenon
  <2>4. s.groups \in Nat
    BY <1>1, Zenon
  <2>5. s.groups = 0 \/ s.groups > 0
    BY <2>4
  <2> QED BY <2>2, <2>3, <2>5, Zenon
<1>4. pointer \in PointerType /\ pointer.head = s.head
  BY <1>1, Zenon DEF PointerType, Pointer
<1>5. /\ DOMAIN kv = Key
      /\ GetSegmented = segmented /\ GetGrouped = grouped /\ GetPruned = Null
      /\ GetRecent = pointer /\ GetLegacyIngested = Null /\ GetFinalized = s.head
      /\ kv["segmented"].revision = s.segments /\ kv["grouped"].revision = s.groups
  BY Zenon
     DEF Start, GetSegmented, GetGrouped, GetPruned, GetRecent, GetLegacyIngested, GetFinalized,
         Get, Key, IngestionKey, OptionKey, Missing
<1>6. /\ inbox = [r \in Reader |-> <<>>]
      /\ sync = [r \in Reader |-> IF s.warm THEN [SyncStart EXCEPT !.pc = "idle"] ELSE SyncStart]
      /\ view = [r \in Reader |->
                   IF s.warm THEN NewChainView([finalized |-> s.head, segmented |-> segmented,
                                                grouped |-> grouped], pointer)
                   ELSE Null]
      /\ blocks = StartingBlock .. s.head
      /\ loop = [p \in Reader |-> "lock"]
      /\ task = [p \in Reader |-> [t \in Task |-> Idle]]
      /\ size = s.size
      /\ left = [expiries |-> s.expiries, failures |-> s.failures, missed |-> s.missed,
                 expired |-> FALSE, tasks |-> s.tasks]
  BY Zenon DEF Start
<1> HIDE DEF segmented, grouped, pointer
<1>7. KvOK
  <2>1. AtMost(segmented, s.head) /\ AtMost(Null, grouped)
    BY <1>1, <1>2, Zenon DEF AtMost
  <2> QED BY <1>1, <1>3, <1>4, <1>5, <2>1, Zenon DEF KvOK, Conditional, ChainHead
<1>8. StoreOK
  BY <1>4, <1>5, <1>6, Zenon DEF StoreOK, ChainHead
<1>9. TasksOK
  BY <1>1, <1>6, QuietTask, Zenon DEF TasksOK
<1>10. LockOK
  BY <1>6, Zenon DEF LockOK
<1>11. ReadersOK
  <2> SUFFICES ASSUME NEW p \in Reader
               PROVE  ReaderOK(sync[p], inbox[p], view[p], loop[p], segmented, grouped, s.head)
    BY <1>4, <1>5, <1>6, Zenon DEF ReadersOK, ChainHead
  <2>1. AtMost(segmented, segmented) /\ AtMost(grouped, grouped)
    BY <1>2, <1>3 DEF AtMost
  <2>2. SyncOK(sync[p], segmented, grouped, s.head)
    BY <1>6, Zenon DEF SyncOK, SyncStart, AtMost
  <2>3. CASE s.warm
    <3>1. ViewOK(view[p], segmented, grouped, s.head)
      BY <1>1, <1>4, <1>6, <2>1, <2>3 DEF ViewOK, NewChainView
    <3> QED BY <1>6, <2>2, <3>1 DEF ReaderOK
  <2>4. CASE ~s.warm
    BY <1>6, <2>2, <2>4 DEF ReaderOK, SyncStart, HasView
  <2> QED BY <2>3, <2>4, Zenon
<1> QED BY <1>7, <1>8, <1>9, <1>10, <1>11, Zenon DEF Inv

LEMMA StutterKeepsInv ==
    ASSUME Inv, UNCHANGED compactionVars
    PROVE  Inv'
<1>1. kv' = kv /\ UNCHANGED <<sync, view, inbox, blocks, lock, loop, task, size, left>>
  BY Zenon DEF compactionVars, stateVars, syncVars, storeVars, processVars
<1>2. KvOK' /\ StepAdvances
  BY <1>1, SameKv, Zenon DEF Inv
<1>3. ReadersOK'
  BY <1>1, <1>2, SameReaders, Zenon DEF Inv, ReadersOK
<1> QED BY <1>1, <1>2, <1>3, SameStore, SameLock, SameTasks, Zenon DEF Inv

LEMMA NextKeepsInv == Inv /\ [CompactionNext]_compactionVars => Inv'
<1> SUFFICES ASSUME Inv, [CompactionNext]_compactionVars PROVE Inv'
  BY Zenon
<1>1. CASE UNCHANGED compactionVars
  BY <1>1, StutterKeepsInv, Zenon
<1>2. CASE ChainGrows \/ ChainIsFinalized
  BY <1>2, GrowthKeepsInv, FinalizedKeepsInv, Zenon
<1>3. CASE LeaseExpires \/ OrphanLeaseExpires
  BY <1>3, LeaseKeepsInv, Zenon
<1>4. ASSUME NEW p \in Deployed, ViewStep(p) \/ ViewBreaks(p) PROVE Inv'
  BY <1>4, DeployedSize, ViewStepKeepsInv, Zenon
<1>5. ASSUME NEW p \in Deployed, LoopStep(p) \/ RequestFails(p) \/ Crash(p) PROVE Inv'
  BY <1>5, DeployedSize, LoopKeepsInv, OptionKeepsInv, Zenon DEF LoopStep
<1>6. ASSUME NEW p \in Deployed, NEW t \in left.tasks, TaskStep(p, t) PROVE Inv'
  <2>1. p \in Reader /\ t \in Task
    BY DeployedSize, Zenon DEF Inv, TasksOK
  <2>2. CASE StartWaiting(p, t) \/ Wake(p, t)
    BY <2>1, <2>2, WaitingKeepsInv, Zenon
  <2>3. CASE t = "segment" /\ ~(StartWaiting(p, t) \/ Wake(p, t))
    BY <1>6, <2>1, <2>3, TickKeepsInv, WorkKeepsInv, PutReadKeepsInv, PutTxnKeepsInv, Zenon
       DEF TaskStep, PutSegmented
  <2>4. CASE t = "group" /\ ~(StartWaiting(p, t) \/ Wake(p, t))
    BY <1>6, <2>1, <2>4, TickKeepsInv, WorkKeepsInv, PutReadKeepsInv, PutTxnKeepsInv, Zenon
       DEF TaskStep, PutGrouped
  <2>5. CASE t = "prune" /\ ~(StartWaiting(p, t) \/ Wake(p, t))
    BY <1>6, <2>1, <2>5, PruneKeepsInv, PutPrunedKeepsInv, Zenon DEF TaskStep
  <2> QED BY <1>6, <2>2, <2>3, <2>4, <2>5, Zenon DEF TaskStep
<1> QED BY <1>1, <1>2, <1>3, <1>4, <1>5, <1>6, Zenon DEF CompactionNext

\* A step that is not a conditional write leaves both cursors alone.
LEMMA OnlyPutTxnMoves ==
    ASSUME Inv, [CompactionNext]_compactionVars
    PROVE  \/ \A key \in Conditional : kv'[key].value = kv[key].value
           \/ \E p \in Deployed : \E t \in left.tasks :
                 \/ t = "segment" /\ PutTxn(p, "segment", "segmented", Last(p))
                 \/ t = "group" /\ PutTxn(p, "group", "grouped", LastInGroup(p))
<1>1. CASE UNCHANGED compactionVars
  BY <1>1, Zenon DEF compactionVars, stateVars
<1>2. ASSUME NEW key \in Key \ Conditional, NEW value, Put(key, value)
      PROVE  \A other \in Conditional : kv'[other].value = kv[other].value
  BY <1>2, PutWrites, Zenon DEF Inv, Conditional, Key, IngestionKey
<1>3. CASE ChainGrows
  <2>1. PICK pointer : kv' = [kv EXCEPT !["recent"] = Written("recent", pointer),
                                        !["pending"] = Missing]
    BY <1>3, Zenon DEF ChainGrows, IngesterPublishes, PutRecent, PutAndDelete
  <2> QED BY <2>1, Zenon DEF Inv, KvOK, Conditional, Key, IngestionKey
<1>4. CASE ChainIsFinalized
  BY <1>2, <1>4, Zenon DEF ChainIsFinalized, IngesterFinalizes, PutFinalized, Conditional, Key,
                    IngestionKey
<1>5. CASE LeaseExpires \/ OrphanLeaseExpires
  BY <1>5, Zenon DEF LeaseExpires, OrphanLeaseExpires, stateVars
<1>6. ASSUME NEW p \in Deployed, ViewStep(p) \/ ViewBreaks(p) PROVE kv' = kv
  <2>1. loop' = loop /\ p \in Reader
    BY <1>6, Zenon DEF ViewStep, ViewBreaks, Deployed
  <2> QED BY <1>6, <2>1, StartKeepsReaders, ViewKeepsReaders, Zenon
             DEF Inv, ViewStep, ViewBreaks, SyncStep
<1>7. ASSUME NEW p \in Deployed, StoreOption(p)
      PROVE  \A key \in Conditional : kv'[key].value = kv[key].value
  BY <1>2, <1>7, Zenon DEF StoreOption, SetOption, Conditional, Key, IngestionKey, OptionKey
<1>8. ASSUME NEW p \in Deployed, LoopStep(p) \/ RequestFails(p) \/ Crash(p), ~StoreOption(p)
      PROVE  kv' = kv
  BY <1>8, Zenon DEF LoopStep, AcquireLock, AcceptOptions, RefuseOptions, StartServices, Unlock,
              ServerEnds, RequestFails, Crash, Reset, CloseWatch, stateVars
<1>9. ASSUME NEW p \in Deployed, NEW t \in left.tasks, TaskStep(p, t)
      PROVE  \/ \A key \in Conditional : kv'[key].value = kv[key].value
             \/ t = "segment" /\ PutTxn(p, "segment", "segmented", Last(p))
             \/ t = "group" /\ PutTxn(p, "group", "grouped", LastInGroup(p))
  <2>1. CASE StartWaiting(p, t) \/ Wake(p, t)
    BY <2>1, Zenon DEF StartWaiting, Wake, stateVars
  <2>2. CASE t = "segment"
    BY <1>9, <2>1, <2>2, Zenon
       DEF TaskStep, SegmentTick, ReadBlock, UploadFragment, PutSegmented, PutRead, stateVars
  <2>3. CASE t = "group"
    BY <1>9, <2>1, <2>3, Zenon
       DEF TaskStep, GroupTick, ReadIndex, UploadGroup, PutGrouped, PutRead,
                            stateVars
  <2>4. CASE PutPrunedBlock(p)
    BY <1>2, <2>4, Zenon DEF PutPrunedBlock, PutPruned, Conditional, Key
  <2>5. CASE PruneTick(p) \/ ReadPruned(p) \/ DeleteBlock(p)
    BY <2>5, Zenon DEF PruneTick, ReadPruned, DeleteBlock, stateVars
  <2> QED BY <1>9, <2>1, <2>2, <2>3, <2>4, <2>5, Zenon DEF TaskStep
<1>10. CASE CompactionNext
  <2>1. CASE ChainGrows \/ ChainIsFinalized \/ LeaseExpires \/ OrphanLeaseExpires
    BY <1>3, <1>4, <1>5, <2>1, Zenon
  <2>2. ASSUME NEW p \in Deployed,
               \/ ViewStep(p) \/ ViewBreaks(p) \/ LoopStep(p) \/ RequestFails(p) \/ Crash(p)
        PROVE  \A key \in Conditional : kv'[key].value = kv[key].value
    BY <1>6, <1>7, <1>8, <2>2, Zenon
  <2> QED BY <1>9, <1>10, <2>1, <2>2, Zenon DEF CompactionNext
<1> QED BY <1>1, <1>10, Zenon

LEMMA CursorsMoveUp ==
    Inv /\ [CompactionNext]_compactionVars =>
        \A key \in Conditional :
            kv[key].value # Null => kv'[key].value # Null /\ kv'[key].value >= kv[key].value
<1> SUFFICES ASSUME Inv, [CompactionNext]_compactionVars, NEW key \in Conditional,
                    kv[key].value # Null
             PROVE  kv'[key].value # Null /\ kv'[key].value >= kv[key].value
  BY Zenon
<1>1. kv[key].value \in Nat
  BY Zenon DEF Inv, KvOK, AtMost, GetSegmented, GetGrouped, Get, Conditional
<1>2. CASE kv'[key].value = kv[key].value
  BY <1>1, <1>2
<1>3. CASE StepAdvances
  BY <1>3, NullIsNoNumber, Zenon DEF StepAdvances, Advances, AtMost, Conditional
<1>4. StepAdvances \/ kv'[key].value = kv[key].value
  BY OnlyPutTxnMoves, PutTxnKeepsInv, DeployedSize, Zenon DEF Inv, TasksOK
<1> QED BY <1>2, <1>3, <1>4, Zenon

LEMMA InvHolds == CompactionSpec => []Inv
  BY InitIsOK, NextKeepsInv, PTL DEF CompactionSpec

\* As long as no lease expires under its holder, one process at most is past
\* its request for the lock, however many processes compete for it, fail,
\* crash and start again (compaction/mod.rs 41-124): the invariant has the lock
\* with every process in the loop.
THEOREM OneProcessCompacts == CompactionSpec => []OneCompactor
<1>1. Inv => OneCompactor
  BY Zenon DEF Inv, LockOK, OneCompactor
<1> QED BY <1>1, InvHolds, PTL

\* No block is deleted that a group does not cover, and a segment remains above
\* the groups, although the tasks decide from views that lag behind and any
\* number of compactors may run side by side (segment.rs, group.rs, prune.rs).
THEOREM NothingIsLost == CompactionSpec => []NoBlockIsLost
<1>1. Inv => NoBlockIsLost
  BY NullIsNoNumber, Zenon DEF Inv, KvOK, StoreOK, NoBlockIsLost, ChainHead
<1> QED BY <1>1, InvHolds, PTL

\* The pruned cursor in etcd is never ahead of the deletions, whichever of
\* several pruners wrote it last (prune.rs 98-117).
THEOREM PrunedIsGone == CompactionSpec => []PrunedBlocksAreGone
<1>1. Inv => PrunedBlocksAreGone
  BY Zenon DEF Inv, StoreOK, PrunedBlocksAreGone, GoneTo
<1> QED BY <1>1, InvHolds, PTL

\* A prune task goes to its wait only when every block below the grouped block
\* it has read is deleted, whatever rounds, failures and other pruners came
\* before (prune.rs 60-120).
THEOREM PruneIsThorough == CompactionSpec => []PruneReachesGrouped
<1>1. Inv => PruneReachesGrouped
  <2> SUFFICES ASSUME Inv, NEW p \in Reader, At(p, "prune", "gap"),
                      task[p]["prune"].limit # Null
               PROVE  \A block \in StartingBlock .. task[p]["prune"].limit - 1 : block \notin blocks
    BY Zenon DEF PruneReachesGrouped
  <2>1. "prune" \in Task
    BY CompactionAssumption, Zenon
  <2> QED BY <2>1, TaskIsOK, Zenon DEF TaskOK, PruneOK, GoneTo, At
<1> QED BY <1>1, InvHolds, PTL

\* The segmented and the grouped cursor never move back: a compactor writes
\* over what it has read or not at all (put_if_higher, state_client.rs 367-420).
THEOREM CursorsMoveForward == CompactionSpec => CursorsNeverMoveBack
  BY InvHolds, CursorsMoveUp, PTL DEF CompactionSpec, CursorsNeverMoveBack

=============================================================================

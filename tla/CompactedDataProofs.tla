------------------------ MODULE CompactedDataProofs ------------------------
(***************************************************************************)
(* What compaction has announced is there: every segment and every group   *)
(* a view can point a reader to has been written completely, for every     *)
(* size of segments and groups, every number of processes and every chain. *)
(*                                                                         *)
(* The cursors in etcd only ever stand at the end of a segment or of a     *)
(* group of the stored size, because a task begins where some view, however*)
(* late, says that the last one ended, and every process that compacts has *)
(* the stored size.  With CompactionProofs' invariant, by which a view is  *)
(* never ahead of etcd, what is below the cursors is complete.             *)
(***************************************************************************)
EXTENDS CompactionProofs

-----------------------------------------------------------------------------
(* The invariant.                                                          *)

StoredSize  == Get("segment_size")
StoredGroup == Get("group_size")

\* The blocks of a group, by the stored sizes.
GroupWidth ==
    IF StoredSize = Null \/ StoredGroup = Null THEN Null ELSE StoredGroup * StoredSize

\* The first block of the segment, or group, number n, if it has w blocks.
FirstOf(n, w) == StartingBlock + n * w

\* A cursor that is not set, or is the last block of a segment, or group.
Ends(c, w) ==
    c = Null \/ (w \in Nat \ {0} /\ c \in Nat /\ \E n \in Nat : c + 1 = FirstOf(n, w))

\* All that ends up to a cursor is among what is done.
Complete(c, w, done) ==
    c # Null => \A n \in Nat : FirstOf(n + 1, w) <= c + 1 => FirstOf(n, w) \in done

\* A segment, or group, to be made begins where those up to a cursor, or some
\* before it, end.
Follows(first, c, w) ==
    \E n \in Nat : /\ first = FirstOf(n, w)
                   /\ (n = 0 \/ (c # Null /\ first <= c + 1))

\* The sizes in etcd are the ones of the processes past the check of them.
Ready(n, m) ==
    /\ n \in Nat \ {0} /\ m \in Nat \ {0}
    /\ StoredSize = n /\ StoredGroup = m

OptionsOK ==
    /\ StoredSize = Null \/ StoredSize \in Nat \ {0}
    /\ StoredGroup = Null \/ StoredGroup \in Nat \ {0}
    /\ \A p \in Reader : loop[p] \in {"view", "running"} => Ready(size[p], GroupSizeOf[p])

\* All that a process knows of the cursors ends a segment, or a group.
KnowsEnds(y, events, v, l, w, g) ==
    /\ Ends(y.segmented, w) /\ Ends(y.grouped, g)
    /\ \A i \in 1 .. Len(events) : /\ events[i].key = "segmented" => Ends(events[i].value, w)
                                   /\ events[i].key = "grouped" => Ends(events[i].value, g)
    /\ v # Null \/ y.pc \in HasView \/ l = "running" =>
          Ends(v.segmented, w) /\ Ends(v.grouped, g)

KnowledgeOK ==
    /\ Ends(GetSegmented, StoredSize)
    /\ Ends(GetGrouped, GroupWidth)
    /\ \A p \in Reader :
          KnowsEnds(sync[p], inbox[p], view[p], loop[p], StoredSize, GroupWidth)

\* The segments with all their fragments, by their first block.
Finished(stored) == {first \in Nat : \A i \in DOMAIN Fragment : <<first, Fragment[i]>> \in stored}

DataOK ==
    /\ Complete(GetSegmented, StoredSize, Finished(segments))
    /\ Complete(GetGrouped, GroupWidth, groups)

\* A segment, or a group, of n blocks in the making.
SegmentWork(t, n, c, stored) ==
    t.pc \in Working =>
        /\ Follows(t.first, c, n)
        /\ t.pc = "read" => t.part = 0
        /\ t.pc = "upload" => t.part \in {0, 1}
        /\ t.pc = "upload" /\ t.part = 1 => <<t.first, Fragment[1]>> \in stored
        /\ t.pc \in {"put", "txn"} => t.first \in Finished(stored)

GroupWork(t, n, c, stored) ==
    t.pc \in Working =>
        /\ Follows(t.first, c, n)
        /\ t.pc \in {"put", "txn"} => t.first \in stored

WorkOK ==
    \A p \in Reader :
        /\ SegmentWork(task[p]["segment"], size[p], GetSegmented, segments)
        /\ GroupWork(task[p]["group"], GroupSizeOf[p] * size[p], GetGrouped, groups)

LoopPhase == {"lock", "options", "view", "running", "unlock"}
TaskPhase == {"tick", "gap", "waiting", "read", "upload", "put", "txn", "pruned", "delete"}

\* A task runs while the loop does.
PhaseOf(state, tasks) ==
    /\ state \in LoopPhase
    /\ \A t \in Task : /\ state = "running" => tasks[t].pc \in TaskPhase
                       /\ state # "running" => tasks[t].pc = "off"

\* Who waits is a task that waits.
PhaseOK ==
    /\ lock \in Reader \cup {Null}
    /\ \A p \in Reader : PhaseOf(loop[p], task[p])
    /\ \A w \in waiters : /\ w.reader \in Reader /\ w.task \in Task
                          /\ task[w.reader][w.task].pc = "waiting"

BoundsOK ==
    /\ ChainHead \in Block
    /\ blocks \subseteq Block /\ groups \subseteq Block
    /\ \A s \in segments : s[1] \in Block

DataInv == OptionsOK /\ KnowledgeOK /\ DataOK /\ WorkOK /\ PhaseOK /\ BoundsOK

-----------------------------------------------------------------------------
(* Where segments and groups begin and end.                                *)

LEMMA FirstIsABlock ==
    ASSUME NEW n \in Nat, NEW w \in Nat
    PROVE  /\ FirstOf(n, w) \in Nat /\ FirstOf(n, w) >= StartingBlock
           /\ FirstOf(n + 1, w) = FirstOf(n, w) + w
<1>1. n * w \in Nat /\ (n + 1) * w = n * w + w
  OBVIOUS
<1> QED BY <1>1, StartingBlockAssumption DEF FirstOf

LEMMA FirstOrder ==
    ASSUME NEW m \in Nat, NEW n \in Nat, NEW w \in Nat \ {0}
    PROVE  /\ m <= n => FirstOf(m, w) <= FirstOf(n, w)
           /\ FirstOf(m, w) <= FirstOf(n, w) => m <= n
<1>1. m <= n => m * w <= n * w
  OBVIOUS
<1>2. m > n => m * w > n * w
  OBVIOUS
<1>3. m * w \in Nat /\ n * w \in Nat
  OBVIOUS
<1> QED BY <1>1, <1>2, <1>3, StartingBlockAssumption DEF FirstOf

LEMMA GroupWidthIsASize ==
    ASSUME NEW n \in Nat \ {0}, NEW m \in Nat \ {0}, StoredSize = n, StoredGroup = m
    PROVE  GroupWidth \in Nat \ {0} /\ GroupWidth = m * n
<1>1. m * n \in Nat \ {0}
  OBVIOUS
<1> QED BY <1>1, NullIsNoNumber, Zenon DEF GroupWidth

\* The sizes are stored once.
LEMMA EndsStay ==
    ASSUME NEW c, NEW w, NEW w2, w2 = w \/ w = Null, Ends(c, w)
    PROVE  Ends(c, w2)
  BY NullIsNoNumber, Zenon DEF Ends

\* The block after a cursor that some view knows.
LEMMA NextFollows ==
    ASSUME NEW v, NEW x, NEW c, NEW w \in Nat \ {0}, Ends(x, w), AtMost(x, c),
           NextBlock(v, x) # Null
    PROVE  Follows(NextBlock(v, x), c, w)
<1>1. CASE x = Null
  <2>1. StartingBlock = FirstOf(0, w)
    BY StartingBlockAssumption DEF FirstOf
  <2> QED BY <1>1, <2>1 DEF Follows, NextBlock
<1>2. CASE x # Null
  <2>1. PICK n \in Nat : x \in Nat /\ x + 1 = FirstOf(n, w)
    BY <1>2, Zenon DEF Ends
  <2>2. NextBlock(v, x) = x + 1
    BY <1>2, Zenon DEF NextBlock
  <2>3. c # Null /\ x + 1 <= c + 1
    BY <1>2, NullIsNoNumber DEF AtMost
  <2> QED BY <2>1, <2>2, <2>3, Zenon DEF Follows
<1> QED BY <1>1, <1>2, Zenon

LEMMA FollowsStays ==
    ASSUME NEW first \in Nat, NEW c, NEW c2, NEW w, AtMost(c, c2), Follows(first, c, w)
    PROVE  Follows(first, c2, w)
<1> PICK n \in Nat : first = FirstOf(n, w) /\ (n = 0 \/ (c # Null /\ first <= c + 1))
  BY Zenon DEF Follows
<1>1. c # Null /\ first <= c + 1 => c2 # Null /\ first <= c2 + 1
  BY NullIsNoNumber DEF AtMost
<1> QED BY <1>1, Zenon DEF Follows

LEMMA FollowerIsABlock ==
    ASSUME NEW first, NEW c, NEW w \in Nat, Follows(first, c, w)
    PROVE  first \in Nat /\ first >= StartingBlock
  BY FirstIsABlock, Zenon DEF Follows

\* What is done stays done; a cursor moves over what has just been made.
LEMMA CompleteStays ==
    ASSUME NEW c, NEW w, NEW done, NEW done2, done \subseteq done2, Complete(c, w, done)
    PROVE  Complete(c, w, done2)
  BY Zenon DEF Complete

LEMMA CursorCompletes ==
    ASSUME NEW c, c = Null \/ c \in Nat, NEW w \in Nat \ {0}, NEW done, NEW first, NEW last,
           Complete(c, w, done), Follows(first, c, w), first \in done, last = first + w - 1
    PROVE  Ends(last, w) /\ Complete(last, w, done)
<1> PICK m \in Nat : first = FirstOf(m, w) /\ (m = 0 \/ (c # Null /\ first <= c + 1))
  BY Zenon DEF Follows
<1>1. first \in Nat /\ FirstOf(m + 1, w) = first + w /\ m + 1 \in Nat
  BY FirstIsABlock
<1>2. last \in Nat /\ last + 1 = FirstOf(m + 1, w)
  BY <1>1
<1>3. ASSUME NEW n \in Nat, FirstOf(n + 1, w) <= last + 1
      PROVE  FirstOf(n, w) \in done
  <2>1. n + 1 <= m + 1
    BY <1>1, <1>2, <1>3, FirstOrder
  <2>2. CASE n = m
    BY <2>2, Zenon
  <2>3. CASE n # m
    <3>1. n + 1 <= m /\ m # 0 /\ n + 1 \in Nat
      BY <2>1, <2>3
    <3>2. FirstOf(n + 1, w) <= first /\ FirstOf(n + 1, w) \in Nat
      BY <3>1, FirstOrder, FirstIsABlock, Zenon
    <3>3. c \in Nat /\ c # Null /\ first <= c + 1
      BY <3>1, Zenon
    <3>4. FirstOf(n + 1, w) <= c + 1
      BY <1>1, <3>2, <3>3
    <3> QED BY <3>3, <3>4, Zenon DEF Complete
  <2> QED BY <2>2, <2>3, Zenon
<1>4. Ends(last, w)
  BY <1>1, <1>2, Zenon DEF Ends
<1> QED BY <1>3, <1>4, Zenon DEF Complete

-----------------------------------------------------------------------------
(* What a step leaves alone.                                               *)

LEMMA SameOptions ==
    ASSUME OptionsOK, kv' = kv, size' = size,
           \A p \in Reader : loop'[p] \in {"view", "running"} =>
               loop[p] \in {"view", "running"} \/ Ready(size[p], GroupSizeOf[p])
    PROVE  OptionsOK'
<1>1. StoredSize' = StoredSize /\ StoredGroup' = StoredGroup
  BY Zenon DEF StoredSize, StoredGroup, Get
<1> QED BY <1>1, Zenon DEF OptionsOK, Ready

LEMMA OneKnows ==
    ASSUME KnowledgeOK, kv' = kv, NEW r \in Reader,
           \A p \in Reader \ {r} : /\ sync'[p] = sync[p] /\ inbox'[p] = inbox[p]
                                   /\ view'[p] = view[p] /\ loop'[p] = loop[p],
           KnowsEnds(sync'[r], inbox'[r], view'[r], loop'[r], StoredSize, GroupWidth)
    PROVE  KnowledgeOK'
<1>1. /\ StoredSize' = StoredSize /\ GroupWidth' = GroupWidth
      /\ GetGrouped' = GetGrouped /\ GetSegmented' = GetSegmented
  BY Zenon DEF StoredSize, StoredGroup, GroupWidth, GetGrouped, GetSegmented, Get
<1>2. ASSUME NEW p \in Reader
      PROVE  KnowsEnds(sync'[p], inbox'[p], view'[p], loop'[p],
                       StoredSize, GroupWidth)
  BY Zenon DEF KnowledgeOK
<1> QED BY <1>1, <1>2, Zenon DEF KnowledgeOK

LEMMA SameKnowledge ==
    ASSUME KnowledgeOK, kv' = kv, UNCHANGED <<sync, view, inbox>>,
           \A p \in Reader : loop'[p] = "running" => loop[p] = "running" \/ view[p] # Null
    PROVE  KnowledgeOK'
<1>1. /\ StoredSize' = StoredSize /\ GroupWidth' = GroupWidth
      /\ GetGrouped' = GetGrouped /\ GetSegmented' = GetSegmented
  BY Zenon DEF StoredSize, StoredGroup, GroupWidth, GetGrouped, GetSegmented, Get
<1>2. ASSUME NEW p \in Reader
      PROVE  KnowsEnds(sync[p], inbox[p], view[p], loop'[p], StoredSize, GroupWidth)
  BY Zenon DEF KnowledgeOK, KnowsEnds
<1> QED BY <1>1, <1>2, Zenon DEF KnowledgeOK

LEMMA FinishedStays ==
    ASSUME NEW stored, NEW stored2, stored \subseteq stored2
    PROVE  Finished(stored) \subseteq Finished(stored2)
  BY Zenon DEF Finished

LEMMA SameData ==
    ASSUME DataOK, kv' = kv, segments \subseteq segments', groups \subseteq groups'
    PROVE  DataOK'
<1>1. /\ StoredSize' = StoredSize /\ GroupWidth' = GroupWidth
      /\ GetGrouped' = GetGrouped /\ GetSegmented' = GetSegmented
  BY Zenon DEF StoredSize, StoredGroup, GroupWidth, GetGrouped, GetSegmented, Get
<1>2. Complete(GetSegmented, StoredSize, Finished(segments'))
  BY FinishedStays, CompleteStays, Zenon DEF DataOK
<1>3. Complete(GetGrouped, GroupWidth, groups')
  BY CompleteStays, Zenon DEF DataOK
<1>4. Finished(segments)' = Finished(segments')
  BY Zenon DEF Finished
<1> QED BY <1>1, <1>2, <1>3, <1>4, Zenon DEF DataOK

\* Work in the making stays right while more is stored and the cursors move up.
LEMMA SegmentWorkStays ==
    ASSUME NEW t, NEW n, NEW c, NEW c2, NEW stored, NEW stored2, AtMost(c, c2),
           stored \subseteq stored2, t.pc \in Working => t.first \in Nat,
           SegmentWork(t, n, c, stored)
    PROVE  SegmentWork(t, n, c2, stored2)
<1> SUFFICES ASSUME t.pc \in Working PROVE SegmentWork(t, n, c2, stored2)
  BY Zenon DEF SegmentWork
<1>1. Follows(t.first, c2, n)
  BY FollowsStays, Zenon DEF SegmentWork
<1>2. t.pc \in {"put", "txn"} => t.first \in Finished(stored2)
  BY FinishedStays, Zenon DEF SegmentWork
<1> QED BY <1>1, <1>2, Zenon DEF SegmentWork

LEMMA GroupWorkStays ==
    ASSUME NEW t, NEW n, NEW c, NEW c2, NEW stored, NEW stored2, AtMost(c, c2),
           stored \subseteq stored2, t.pc \in Working => t.first \in Nat,
           GroupWork(t, n, c, stored)
    PROVE  GroupWork(t, n, c2, stored2)
<1> SUFFICES ASSUME t.pc \in Working PROVE GroupWork(t, n, c2, stored2)
  BY Zenon DEF GroupWork
<1>1. Follows(t.first, c2, n)
  BY FollowsStays, Zenon DEF GroupWork
<1> QED BY <1>1, Zenon DEF GroupWork

\* The tasks that change are right afterwards.
LEMMA WorkMoves ==
    ASSUME Inv, WorkOK, size' = size, segments \subseteq segments', groups \subseteq groups',
           AtMost(GetSegmented, GetSegmented'), AtMost(GetGrouped, GetGrouped'),
           \A p \in Reader :
               /\ \/ task'[p]["segment"] = task[p]["segment"]
                  \/ SegmentWork(task'[p]["segment"], size[p], GetSegmented', segments')
               /\ \/ task'[p]["group"] = task[p]["group"]
                  \/ GroupWork(task'[p]["group"], GroupSizeOf[p] * size[p], GetGrouped', groups')
    PROVE  WorkOK'
<1> SUFFICES ASSUME NEW p \in Reader
             PROVE  /\ SegmentWork(task'[p]["segment"], size[p], GetSegmented', segments')
                    /\ GroupWork(task'[p]["group"], GroupSizeOf[p] * size[p], GetGrouped', groups')
  BY Zenon DEF WorkOK
<1>1. "segment" \in Task /\ "group" \in Task
  BY CompactionAssumption, Zenon
<1>2. /\ task[p]["segment"].pc \in Working => task[p]["segment"].first \in Nat
      /\ task[p]["group"].pc \in Working => task[p]["group"].first \in Nat
  BY <1>1, TaskIsOK, Zenon DEF TaskOK, SegmentOK, GroupOK
<1>3. SegmentWork(task[p]["segment"], size[p], GetSegmented', segments')
  BY <1>2, SegmentWorkStays, Zenon DEF WorkOK
<1>4. GroupWork(task[p]["group"], GroupSizeOf[p] * size[p], GetGrouped', groups')
  BY <1>2, GroupWorkStays, Zenon DEF WorkOK
<1> QED BY <1>3, <1>4, Zenon

LEMMA QuietWork ==
    ASSUME NEW t, t.pc \notin Working, NEW n, NEW c, NEW stored
    PROVE  SegmentWork(t, n, c, stored) /\ GroupWork(t, n, c, stored)
  BY Zenon DEF SegmentWork, GroupWork

LEMMA SameCursors ==
    ASSUME Inv, kv' = kv
    PROVE  AtMost(GetSegmented, GetSegmented') /\ AtMost(GetGrouped, GetGrouped')
<1>1. GetGrouped' = GetGrouped /\ GetSegmented' = GetSegmented
  BY Zenon DEF GetGrouped, GetSegmented, Get
<1> QED BY <1>1, CursorsAreKnown, Zenon DEF Inv

LEMMA SameWork ==
    ASSUME Inv, WorkOK, kv' = kv, UNCHANGED <<task, size, segments, groups>>
    PROVE  WorkOK'
  BY SameCursors, WorkMoves, Zenon

LEMMA SameBounds ==
    ASSUME BoundsOK, kv' = kv, blocks' \subseteq blocks, UNCHANGED <<segments, groups>>
    PROVE  BoundsOK'
<1>1. ChainHead' = ChainHead
  BY Zenon DEF ChainHead, GetRecent, Get
<1> QED BY <1>1, Zenon DEF BoundsOK, Block

LEMMA SamePhase ==
    ASSUME PhaseOK, UNCHANGED <<loop, task>>, waiters' \subseteq waiters,
           lock' \in Reader \cup {Null}
    PROVE  PhaseOK'
  BY Zenon DEF PhaseOK

-----------------------------------------------------------------------------
(* The synchronisation of a view.                                          *)

LEMMA ReaderFacts ==
    ASSUME Inv, NEW r \in Reader
    PROVE  /\ DOMAIN sync = Reader /\ DOMAIN inbox = Reader /\ DOMAIN view = Reader
           /\ DOMAIN sync[r] = {"pc", "finalized", "segmented", "grouped", "pointer", "heard"}
           /\ inbox[r] \in Seq(EventType)
           /\ sync[r].pc \in HasView =>
                 DOMAIN view[r] = {"finalized", "segmented", "grouped", "recent", "pending"}
<1>1. /\ DOMAIN sync = Reader /\ DOMAIN inbox = Reader /\ DOMAIN view = Reader
      /\ ReaderOK(sync[r], inbox[r], view[r], loop[r], GetSegmented, GetGrouped, ChainHead)
  BY Zenon DEF Inv, ReadersOK
<1> QED BY <1>1, Zenon DEF ReaderOK, SyncOK, ViewOK

\* The events that are left after the first one.
LEMMA FirstEventEnds ==
    ASSUME NEW events \in Seq(EventType), events # <<>>, NEW y, NEW v, NEW l, NEW w, NEW g,
           KnowsEnds(y, events, v, l, w, g)
    PROVE  /\ Head(events).key = "segmented" => Ends(Head(events).value, w)
           /\ Head(events).key = "grouped" => Ends(Head(events).value, g)
           /\ \A i \in 1 .. Len(Tail(events)) :
                 /\ Tail(events)[i].key = "segmented" => Ends(Tail(events)[i].value, w)
                 /\ Tail(events)[i].key = "grouped" => Ends(Tail(events)[i].value, g)
<1>1. /\ Len(events) \in Nat /\ Len(events) >= 1
      /\ Head(events) = events[1] /\ Len(Tail(events)) = Len(events) - 1
      /\ \A i \in 1 .. Len(events) - 1 : Tail(events)[i] = events[i + 1]
  OBVIOUS
<1>2. 1 \in 1 .. Len(events) /\ \A i \in 1 .. Len(events) - 1 : i + 1 \in 1 .. Len(events)
  BY <1>1
<1> QED BY <1>1, <1>2, Zenon DEF KnowsEnds

LEMMA ViewStepKnows ==
    ASSUME Inv, KnowledgeOK, NEW r \in Reader, SyncStep(r) \/ WatchBreaks(r), kv' = kv,
           loop' = loop
    PROVE  KnowledgeOK'
<1> DEFINE y == sync[r]
           v == view[r]
           events == inbox[r]
           w == StoredSize
           g == GroupWidth
           Keeps(f, f2) == \A p \in Reader \ {r} : f2[p] = f[p]
           Sets(f, f2, x) == f2[r] = x /\ Keeps(f, f2)
<1>1. /\ DOMAIN sync = Reader /\ DOMAIN inbox = Reader /\ DOMAIN view = Reader
      /\ DOMAIN y = {"pc", "finalized", "segmented", "grouped", "pointer", "heard"}
      /\ events \in Seq(EventType)
      /\ y.pc \in HasView => DOMAIN v = {"finalized", "segmented", "grouped", "recent", "pending"}
  BY ReaderFacts, Zenon
<1>2. /\ KnowsEnds(y, events, v, loop[r], w, g) /\ Ends(GetSegmented, w) /\ Ends(GetGrouped, g)
  BY Zenon DEF KnowledgeOK
<1>3. Ends(Null, w) /\ Ends(Null, g)
  BY Zenon DEF Ends
<1>4. ASSUME NEW y2, NEW events2, NEW v2,
             Sets(sync, sync', y2), Sets(inbox, inbox', events2), Sets(view, view', v2),
             KnowsEnds(y2, events2, v2, loop[r], w, g)
      PROVE  KnowledgeOK'
  <2> HIDE DEF y, v, events
  <2> QED BY <1>4, OneKnows, Zenon
<1>5. /\ sync' = sync => Sets(sync, sync', y)
      /\ inbox' = inbox => Sets(inbox, inbox', events)
      /\ view' = view => Sets(view, view', v)
      /\ \A x : sync' = [sync EXCEPT ![r] = x] => Sets(sync, sync', x)
      /\ \A x : inbox' = [inbox EXCEPT ![r] = x] => Sets(inbox, inbox', x)
      /\ \A x : view' = [view EXCEPT ![r] = x] => Sets(view, view', x)
  BY <1>1, Zenon
<1> HIDE DEF Sets, w, g
<1>6. ASSUME NEW y2, NEW v2, Ends(y2.segmented, w), Ends(y2.grouped, g), events # <<>>,
             Ends(v2.segmented, w), Ends(v2.grouped, g)
      PROVE  KnowsEnds(y2, Tail(events), v2, loop[r], w, g)
  <2> HIDE DEF y, v, events
  <2>1. \A i \in 1 .. Len(Tail(events)) :
            /\ Tail(events)[i].key = "segmented" => Ends(Tail(events)[i].value, w)
            /\ Tail(events)[i].key = "grouped" => Ends(Tail(events)[i].value, g)
    BY <1>1, <1>2, <1>6, FirstEventEnds, Zenon
  <2> QED BY <1>6, <2>1, Zenon DEF KnowsEnds
<1>7. Ends(y.segmented, w) /\ Ends(y.grouped, g)
  BY <1>2, Zenon DEF KnowsEnds
<1>8. ASSUME NEW from, NEW to, Step(r, from, to), view' = view,
             Ends(to.segmented, w), Ends(to.grouped, g), to.pc \in HasView => from \in HasView
      PROVE  KnowledgeOK'
  <2>1. sync' = [sync EXCEPT ![r] = to] /\ inbox' = inbox /\ y.pc = from
    BY <1>8, Zenon DEF Step, stateVars
  <2>2. KnowsEnds(to, events, v, loop[r], w, g)
    BY <1>2, <1>8, <2>1, Zenon DEF KnowsEnds
  <2> QED BY <1>4, <1>5, <1>8, <2>1, <2>2, Zenon
<1>9. CASE \/ ReadStartingBlock(r) \/ ReadFinalized(r) \/ ReadSegmented(r) \/ ReadGrouped(r)
           \/ ReadRecent(r) \/ FetchRecent(r)
  <2>1. view' = view
    BY <1>9, Zenon
       DEF ReadStartingBlock, ReadFinalized, ReadSegmented, ReadGrouped, ReadRecent, FetchRecent
  <2>2. CASE ReadStartingBlock(r)
    <3> DEFINE to == [y EXCEPT !.pc = "finalized"]
    <3>1. to.pc = "finalized" /\ to.segmented = y.segmented /\ to.grouped = y.grouped
      BY <1>1, Zenon
    <3> QED BY <1>7, <1>8, <2>1, <2>2, <3>1, Zenon DEF ReadStartingBlock, HasView
  <2>3. CASE ReadFinalized(r)
    <3> DEFINE to == [y EXCEPT !.pc = "segmented", !.finalized = GetFinalized]
    <3>1. to.pc = "segmented" /\ to.segmented = y.segmented /\ to.grouped = y.grouped
      BY <1>1, Zenon
    <3> QED BY <1>7, <1>8, <2>1, <2>3, <3>1, Zenon DEF ReadFinalized, HasView
  <2>4. CASE ReadSegmented(r)
    <3> DEFINE to == [y EXCEPT !.pc = "grouped", !.segmented = GetSegmented]
    <3>1. to.pc = "grouped" /\ to.segmented = GetSegmented /\ to.grouped = y.grouped
      BY <1>1, Zenon
    <3> QED BY <1>2, <1>7, <1>8, <2>1, <2>4, <3>1, Zenon DEF ReadSegmented, HasView
  <2>5. CASE ReadGrouped(r)
    <3> DEFINE to == [y EXCEPT !.pc = "recent", !.grouped = GetGrouped]
    <3>1. to.pc = "recent" /\ to.segmented = y.segmented /\ to.grouped = GetGrouped
      BY <1>1, Zenon
    <3> QED BY <1>2, <1>7, <1>8, <2>1, <2>5, <3>1, Zenon DEF ReadGrouped, HasView
  <2>6. CASE ReadRecent(r)
    <3> DEFINE to == [y EXCEPT !.pc = "fetch", !.pointer = PublishedPointer]
    <3>1. to.pc = "fetch" /\ to.segmented = y.segmented /\ to.grouped = y.grouped
      BY <1>1, Zenon
    <3> QED BY <1>7, <1>8, <2>1, <2>6, <3>1, Zenon DEF ReadRecent, HasView
  <2>7. CASE FetchRecent(r)
    <3> DEFINE to == [y EXCEPT !.pc = IF y.pointer \in objects THEN "options" ELSE "recent"]
    <3>1. to.pc \notin HasView /\ to.segmented = y.segmented /\ to.grouped = y.grouped
      BY <1>1, Zenon DEF HasView
    <3> QED BY <1>7, <1>8, <2>1, <2>7, <3>1, Zenon DEF FetchRecent
  <2> QED BY <1>9, <2>2, <2>3, <2>4, <2>5, <2>6, <2>7, Zenon
<1>10. CASE RereadPointer(r)
  <2> DEFINE newer == [y EXCEPT !.pc = "refetch", !.pointer = GetRecent]
             same == [y EXCEPT !.pc = "idle", !.pointer = Null]
  <2>1. /\ newer.segmented = y.segmented /\ newer.grouped = y.grouped
        /\ same.segmented = y.segmented /\ same.grouped = y.grouped
    BY <1>1, Zenon
  <2>2. view' = view /\ (Step(r, "reread", newer) \/ Step(r, "reread", same))
    BY <1>10, Zenon DEF RereadPointer
  <2> HIDE DEF newer, same
  <2> QED BY <1>7, <1>8, <2>1, <2>2, Zenon DEF HasView
<1>11. CASE SendView(r)
  <2>1. inbox' = inbox /\ y.pc = "options"
    BY <1>11, Zenon DEF SendView, Step, stateVars
  <2>2. ASSUME NEW y2, y2 = [SyncStart EXCEPT !.pc = "watch"], sync' = [sync EXCEPT ![r] = y2],
               view' = [view EXCEPT ![r] = NewChainView(y, y.pointer)]
        PROVE  KnowledgeOK'
    <3> DEFINE v2 == NewChainView(y, y.pointer)
    <3>1. y2.segmented = Null /\ y2.grouped = Null
      BY <2>2, Zenon DEF SyncStart
    <3>2. v2.segmented = y.segmented /\ v2.grouped = y.grouped
      BY Zenon DEF NewChainView
    <3> HIDE DEF v2
    <3>3. KnowsEnds(y2, events, v2, loop[r], w, g)
      BY <1>2, <1>3, <1>7, <3>1, <3>2, Zenon DEF KnowsEnds
    <3> QED BY <1>4, <1>5, <2>1, <2>2, <3>3, Zenon DEF v2
  <2>3. ASSUME NEW y2, y2 = [y EXCEPT !.pc = "failed"], sync' = [sync EXCEPT ![r] = y2],
               view' = view
        PROVE  KnowledgeOK'
    <3>1. y2.segmented = y.segmented /\ y2.grouped = y.grouped /\ y2.pc \notin HasView
      BY <1>1, <2>3, Zenon DEF HasView
    <3>2. KnowsEnds(y2, events, v, loop[r], w, g)
      BY <1>2, <3>1, Zenon DEF KnowsEnds
    <3> QED BY <1>4, <1>5, <2>1, <2>3, <3>2, Zenon
  <2> QED BY <1>11, <2>2, <2>3, Zenon DEF SendView, Step
<1>12. ASSUME NEW y2, Ends(y2.segmented, w), Ends(y2.grouped, g), y.pc \in HasView,
              sync' = [sync EXCEPT ![r] = y2], inbox' = [inbox EXCEPT ![r] = <<>>], view' = view
       PROVE  KnowledgeOK'
  <2>1. KnowsEnds(y2, <<>>, v, loop[r], w, g)
    <3>1. \A i \in 1 .. Len(<<>>) : FALSE
      OBVIOUS
    <3> QED BY <1>2, <1>12, <3>1, Zenon DEF KnowsEnds
  <2> QED BY <1>4, <1>5, <1>12, <2>1, Zenon
<1>13. CASE WatchChanges(r)
  <2> DEFINE y2 == [y EXCEPT !.pc = "idle"]
  <2>1. /\ y.pc = "watch" /\ view' = view
        /\ sync' = [sync EXCEPT ![r] = y2] /\ inbox' = [inbox EXCEPT ![r] = <<>>]
    BY <1>13, Zenon DEF WatchChanges, OpenWatch
  <2>2. y2.segmented = y.segmented /\ y2.grouped = y.grouped
    BY <1>1, Zenon
  <2> HIDE DEF y2
  <2> QED BY <1>7, <1>12, <2>1, <2>2, Zenon DEF HasView
<1>14. CASE WatchBreaks(r)
  <2> DEFINE y2 == [SyncStart EXCEPT !.pc = "watch"]
  <2>1. /\ y.pc \in HasView /\ view' = view
        /\ sync' = [sync EXCEPT ![r] = y2] /\ inbox' = [inbox EXCEPT ![r] = <<>>]
    BY <1>14, Zenon DEF WatchBreaks, CloseWatch, HasView
  <2>2. y2.segmented = Null /\ y2.grouped = Null
    BY Zenon DEF SyncStart
  <2> HIDE DEF y2
  <2> QED BY <1>3, <1>12, <2>1, <2>2, Zenon
<1>15. CASE RefetchRecent(r)
  <2> DEFINE y2 == [y EXCEPT !.pc = "idle", !.pointer = Null]
             v2 == IF y.pointer \in objects THEN [v EXCEPT !.recent = y.pointer] ELSE v
  <2>1. /\ y.pc = "refetch" /\ inbox' = inbox
        /\ sync' = [sync EXCEPT ![r] = y2] /\ Sets(view, view', v2)
    BY <1>5, <1>15, Zenon DEF RefetchRecent, SetRecent, stateVars
  <2>2. y2.segmented = y.segmented /\ y2.grouped = y.grouped
    BY <1>1, Zenon
  <2>3. v2.segmented = v.segmented /\ v2.grouped = v.grouped
    BY <1>1, <2>1, Zenon DEF HasView
  <2> HIDE DEF y2, v2
  <2>4. KnowsEnds(y2, events, v2, loop[r], w, g)
    BY <1>2, <2>1, <2>2, <2>3, Zenon DEF KnowsEnds, HasView
  <2> QED BY <1>4, <1>5, <2>1, <2>4, Zenon
<1>16. ASSUME NEW y2, NEW v2, y2.segmented = y.segmented, y2.grouped = y.grouped,
              y.pc = "idle", events # <<>>,
              sync' = [sync EXCEPT ![r] = y2], inbox' = [inbox EXCEPT ![r] = Tail(events)],
              Sets(view, view', v2),
              v2.segmented = v.segmented \/ Ends(v2.segmented, w),
              v2.grouped = v.grouped \/ Ends(v2.grouped, g)
       PROVE  KnowledgeOK'
  <2>1. Ends(v.segmented, w) /\ Ends(v.grouped, g)
    BY <1>2, <1>16, Zenon DEF KnowsEnds, HasView
  <2>2. KnowsEnds(y2, Tail(events), v2, loop[r], w, g)
    BY <1>6, <1>7, <1>16, <2>1, Zenon
  <2> QED BY <1>4, <1>5, <1>16, <2>2, Zenon
<1>17. CASE ApplyUpdate(r)
  <2> DEFINE e == Head(events)
             y2 == [y EXCEPT !.pc = "idle", !.heard = @ \cup {e.key}]
             v2 == CASE e.key = "finalized" -> [v EXCEPT !.finalized = e.value]
                     [] e.key = "segmented" -> [v EXCEPT !.segmented = e.value]
                     [] e.key = "grouped"   -> [v EXCEPT !.grouped = e.value]
                     [] e.key = "pending"   -> [v EXCEPT !.pending = e.value]
                     [] OTHER               -> v
  <2>1. /\ y.pc = "idle" /\ events # <<>> /\ inbox' = [inbox EXCEPT ![r] = Tail(events)]
        /\ sync' = [sync EXCEPT ![r] = y2]
    BY <1>17, Zenon DEF ApplyUpdate, Handled
  <2>2. Sets(view, view', v2)
    BY <1>5, <1>17, Zenon DEF ApplyUpdate, SetFinalized, SetSegmented, SetGrouped, SetPending
  <2>3. y2.segmented = y.segmented /\ y2.grouped = y.grouped
    BY <1>1, Zenon
  <2>4. /\ e.key = "segmented" => Ends(e.value, w)
        /\ e.key = "grouped" => Ends(e.value, g)
    BY <1>1, <1>2, <2>1, FirstEventEnds, Zenon
  <2>5. DOMAIN v = {"finalized", "segmented", "grouped", "recent", "pending"}
    BY <1>1, <2>1, Zenon DEF HasView
  <2>6. /\ v2.segmented = v.segmented \/ Ends(v2.segmented, w)
        /\ v2.grouped = v.grouped \/ Ends(v2.grouped, g)
    <3> HIDE DEF e, v
    <3> QED BY <2>4, <2>5, Zenon
  <2> HIDE DEF y2, v2
  <2> QED BY <1>16, <2>1, <2>2, <2>3, <2>6, Zenon
<1>18. CASE ApplyRecent(r)
  <2> DEFINE e == Head(events)
             x == y.heard \cup {"recent"}
  <2>1. y.pc = "idle" /\ events # <<>> /\ inbox' = [inbox EXCEPT ![r] = Tail(events)]
    BY <1>18, Zenon DEF ApplyRecent, Handled
  <2>2. DOMAIN v = {"finalized", "segmented", "grouped", "recent", "pending"}
    BY <1>1, <2>1, Zenon DEF HasView
  <2>3. ASSUME e.value \in objects PROVE KnowledgeOK'
    <3> DEFINE y2 == [y EXCEPT !.pc = "idle", !.heard = x]
               v2 == [v EXCEPT !.recent = e.value]
    <3>1. sync' = [sync EXCEPT ![r] = y2] /\ view' = [view EXCEPT ![r] = v2]
      BY <1>18, <2>3, Zenon DEF ApplyRecent, Handled, SetRecent
    <3>2. y2.segmented = y.segmented /\ y2.grouped = y.grouped
      BY <1>1, Zenon
    <3>3. v2.segmented = v.segmented /\ v2.grouped = v.grouped
      BY <2>2, Zenon
    <3> HIDE DEF y2, v2
    <3> QED BY <1>5, <1>16, <2>1, <3>1, <3>2, <3>3, Zenon
  <2>4. ASSUME e.value \notin objects PROVE KnowledgeOK'
    <3> DEFINE y2 == [y EXCEPT !.pc = "reread", !.pointer = e.value, !.heard = x]
    <3>1. sync' = [sync EXCEPT ![r] = y2] /\ view' = view
      BY <1>18, <2>4, Zenon DEF ApplyRecent
    <3>2. y2.segmented = y.segmented /\ y2.grouped = y.grouped
      BY <1>1, Zenon
    <3> HIDE DEF y2
    <3> QED BY <1>5, <1>16, <2>1, <3>1, <3>2, Zenon
  <2> QED BY <2>3, <2>4, Zenon
<1> QED BY <1>9, <1>10, <1>11, <1>13, <1>14, <1>15, <1>17, <1>18, Zenon DEF SyncStep

-----------------------------------------------------------------------------
(* What a write to etcd leaves to know.                                    *)

\* What was known ends a segment, or a group, of the stored size afterwards.
LEMMA KnowledgeOfSizes ==
    ASSUME NEW y, NEW events, NEW v, NEW l, NEW w, NEW g, NEW w2, NEW g2,
           w2 = w \/ w = Null, g2 = g \/ g = Null, KnowsEnds(y, events, v, l, w, g)
    PROVE  KnowsEnds(y, events, v, l, w2, g2)
  BY EndsStay, Zenon DEF KnowsEnds

LEMMA SendKnows ==
    ASSUME Inv, KnowledgeOK, UNCHANGED <<sync, view, loop>>,
           StoredSize' = StoredSize \/ StoredSize = Null,
           GroupWidth' = GroupWidth \/ GroupWidth = Null,
           Ends(GetSegmented', StoredSize'), Ends(GetGrouped', GroupWidth'),
           NEW events \in Seq(EventType), Send(events),
           \A i \in 1 .. Len(events) :
               /\ events[i].key = "segmented" => Ends(events[i].value, StoredSize')
               /\ events[i].key = "grouped" => Ends(events[i].value, GroupWidth')
    PROVE  KnowledgeOK'
<1> DEFINE w == StoredSize'
           g == GroupWidth'
<1> HIDE DEF w, g
<1> SUFFICES ASSUME NEW p \in Reader
             PROVE  KnowsEnds(sync[p], inbox'[p], view[p], loop[p], w, g)
  BY Zenon DEF KnowledgeOK, w, g
<1>2. KnowsEnds(sync[p], inbox[p], view[p], loop[p], w, g)
  BY KnowledgeOfSizes, Zenon DEF KnowledgeOK, w, g
<1>3. CASE inbox'[p] = inbox[p]
  BY <1>2, <1>3, Zenon
<1>4. CASE inbox'[p] = inbox[p] \o events
  <2> DEFINE old == inbox[p]
             n == Len(old)
             EndsOK(e) == /\ e.key = "segmented" => Ends(e.value, w)
                          /\ e.key = "grouped" => Ends(e.value, g)
  <2>1. old \in Seq(EventType) /\ \A i \in 1 .. n : EndsOK(old[i])
    BY <1>2, ReaderFacts, Zenon DEF KnowsEnds
  <2>2. \A i \in 1 .. Len(events) : EndsOK(events[i])
    BY Zenon DEF w, g
  <2> HIDE DEF old, EndsOK
  <2>3. /\ Len(old \o events) = n + Len(events) /\ n \in Nat /\ Len(events) \in Nat
        /\ \A i \in 1 .. n : (old \o events)[i] = old[i]
        /\ \A i \in n + 1 .. n + Len(events) : (old \o events)[i] = events[i - n]
    BY <2>1
  <2> HIDE DEF n
  <2>4. ASSUME NEW i \in 1 .. n + Len(events)
        PROVE  EndsOK((old \o events)[i])
    <3>1. CASE i \in 1 .. n
      BY <2>1, <2>3, <3>1, Zenon DEF n
    <3>2. CASE i \in n + 1 .. n + Len(events)
      <4>1. i - n \in 1 .. Len(events)
        BY <2>3, <3>2
      <4> QED BY <2>2, <2>3, <3>2, <4>1, Zenon
    <3> QED BY <2>3, <3>1, <3>2
  <2>5. inbox'[p] = old \o events
    BY <1>4, Zenon DEF old
  <2> QED BY <1>2, <2>3, <2>4, <2>5, Zenon DEF KnowsEnds, EndsOK
<1> QED BY <1>3, <1>4, Zenon DEF Send, Inv, ReadersOK

LEMMA PutKnows ==
    ASSUME Inv, KnowledgeOK, UNCHANGED <<sync, view, loop>>,
           NEW key \in Key, NEW value \in Nat, Put(key, value), key # "recent",
           StoredSize' = StoredSize \/ StoredSize = Null,
           GroupWidth' = GroupWidth \/ GroupWidth = Null,
           Ends(GetSegmented', StoredSize'), Ends(GetGrouped', GroupWidth'),
           key = "segmented" => value = GetSegmented', key = "grouped" => value = GetGrouped'
    PROVE  KnowledgeOK'
<1>1. CASE key \in IngestionKey
  <2> DEFINE e == Event(key, value)
             events == <<e>>
  <2>1. e \in EventType /\ e.key = key /\ e.value = value /\ Send(events)
    BY <1>1, Zenon DEF Event, EventType, Put
  <2> HIDE DEF e
  <2>2. events \in Seq(EventType) /\ Len(events) = 1 /\ events[1] = e
    BY <2>1
  <2>3. \A i \in 1 .. Len(events) : events[i] = e
    BY <2>2
  <2> HIDE DEF events
  <2> QED BY <2>1, <2>2, <2>3, SendKnows, Zenon
<1>2. CASE key \notin IngestionKey
  <2> DEFINE none == <<>>
  <2>1. Send(none)
    BY <1>2, Zenon DEF Put
  <2>2. none \in Seq(EventType) /\ \A i \in 1 .. Len(none) : FALSE
    OBVIOUS
  <2> HIDE DEF none
  <2> QED BY <2>1, <2>2, SendKnows, Zenon
<1> QED BY <1>1, <1>2, Zenon

-----------------------------------------------------------------------------
(* Every step keeps the invariant: views, the service loop and the lock.   *)

LEMMA ViewStepKeepsData ==
    ASSUME Inv, DataInv, NEW p \in Reader, ViewStep(p) \/ ViewBreaks(p)
    PROVE  DataInv'
<1>1. /\ UNCHANGED <<blocks, segments, groups, lock, loop, task, size>>
      /\ SyncStep(p) \/ WatchBreaks(p)
  BY Zenon DEF ViewStep, ViewBreaks, storeVars
<1>2. kv' = kv
  BY <1>1, StartKeepsReaders, ViewKeepsReaders, Zenon DEF Inv, SyncStep
<1>3. waiters' \subseteq waiters
  BY <1>1, Zenon
     DEF SyncStep, WatchBreaks, ReadStartingBlock, ReadFinalized, ReadSegmented, ReadGrouped,
         ReadRecent, FetchRecent, SendView, Step, WatchChanges, ApplyUpdate, ApplyRecent,
         RereadPointer, RefetchRecent, SetFinalized, SetSegmented, SetGrouped, SetPending,
         SetRecent, Notify
<1>4. KnowledgeOK'
  BY <1>1, <1>2, ViewStepKnows, Zenon DEF DataInv
<1>5. PhaseOK'
  BY <1>1, <1>3, SamePhase, Zenon DEF DataInv, PhaseOK
<1>6. OptionsOK' /\ DataOK' /\ WorkOK' /\ BoundsOK'
  BY <1>1, <1>2, SameOptions, SameData, SameWork, SameBounds, Zenon DEF DataInv
<1> QED BY <1>4, <1>5, <1>6, Zenon DEF DataInv

\* All tasks of a process are stopped, or started.
LEMMA PhaseOfAll ==
    ASSUME Inv, PhaseOK, NEW p \in Reader, NEW state \in LoopPhase, NEW t,
           loop' = [loop EXCEPT ![p] = state],
           task' = [task EXCEPT ![p] = [name \in Task |-> t]],
           state = "running" => t.pc \in TaskPhase, state # "running" => t.pc = "off",
           lock' \in Reader \cup {Null}, \A w \in waiters' : w \in waiters /\ w.reader # p
    PROVE  PhaseOK'
<1>1. DOMAIN task = Reader /\ DOMAIN loop = Reader
  BY Zenon DEF Inv, TasksOK, ReadersOK
<1>2. /\ loop'[p] = state /\ \A name \in Task : task'[p][name] = t
      /\ \A q \in Reader \ {p} : loop'[q] = loop[q] /\ task'[q] = task[q]
  BY <1>1, Zenon
<1>3. ASSUME NEW q \in Reader
      PROVE  PhaseOf(loop'[q], task'[q])
  <2>1. PhaseOf(loop'[p], task'[p])
    BY <1>2, Zenon DEF PhaseOf
  <2>2. CASE q # p
    BY <1>2, <2>2, Zenon DEF PhaseOK
  <2> QED BY <2>1, <2>2, Zenon
<1>4. ASSUME NEW w \in waiters'
      PROVE  w.reader \in Reader /\ w.task \in Task /\ task'[w.reader][w.task].pc = "waiting"
  <2>1. /\ w.reader \in Reader \ {p} /\ w.task \in Task
        /\ task[w.reader][w.task].pc = "waiting"
    BY Zenon DEF PhaseOK
  <2>2. task'[w.reader] = task[w.reader]
    BY <1>2, <2>1, Zenon
  <2> QED BY <2>1, <2>2, Zenon
<1> QED BY <1>3, <1>4, Zenon DEF PhaseOK

LEMMA WorkOfAll ==
    ASSUME Inv, WorkOK, NEW p \in Reader, NEW t, t.pc \notin Working, kv' = kv,
           task' = [task EXCEPT ![p] = [name \in Task |-> t]],
           UNCHANGED <<size, segments, groups>>
    PROVE  WorkOK'
<1>1. "segment" \in Task /\ "group" \in Task /\ DOMAIN task = Reader
  BY CompactionAssumption, Zenon DEF Inv, TasksOK
<1>2. /\ task'[p]["segment"] = t /\ task'[p]["group"] = t
      /\ \A q \in Reader \ {p} : task'[q] = task[q]
  BY <1>1, Zenon
<1>3. \A q \in Reader :
          /\ \/ task'[q]["segment"] = task[q]["segment"]
             \/ SegmentWork(task'[q]["segment"], size[q], GetSegmented', segments')
          /\ \/ task'[q]["group"] = task[q]["group"]
             \/ GroupWork(task'[q]["group"], GroupSizeOf[q] * size[q], GetGrouped', groups')
  BY <1>2, QuietWork, Zenon
<1> QED BY <1>3, SameCursors, WorkMoves, Zenon

LEMMA IdlePhases ==
    /\ Idle.pc = "off" /\ Idle.pc \notin Working
    /\ Tick.pc = "tick" /\ Tick.pc \notin Working /\ Tick.pc \in TaskPhase
  BY Zenon DEF Idle, Tick, Working, TaskPhase

LEMMA ResetKeepsData ==
    ASSUME Inv, DataInv, NEW p \in Reader, Reset(p)
    PROVE  DataInv'
<1>1. /\ kv' = kv /\ UNCHANGED <<blocks, segments, groups, lock, size>>
      /\ task' = [task EXCEPT ![p] = [t \in Task |-> Idle]]
      /\ loop' = [loop EXCEPT ![p] = "lock"]
      /\ sync' = [sync EXCEPT ![p] = SyncStart]
      /\ view' = [view EXCEPT ![p] = Null]
      /\ inbox' = [inbox EXCEPT ![p] = <<>>]
      /\ \A w \in waiters' : w \in waiters /\ w.reader # p
  BY Zenon DEF Reset, CloseWatch, storeVars
<1>2. DOMAIN loop = Reader /\ DOMAIN sync = Reader /\ DOMAIN view = Reader /\ DOMAIN inbox = Reader
  BY Zenon DEF Inv, ReadersOK
<1>3. /\ sync'[p] = SyncStart /\ inbox'[p] = <<>> /\ view'[p] = Null /\ loop'[p] = "lock"
      /\ \A q \in Reader \ {p} : /\ sync'[q] = sync[q] /\ inbox'[q] = inbox[q]
                                 /\ view'[q] = view[q] /\ loop'[q] = loop[q]
  BY <1>1, <1>2, Zenon
<1>4. KnowledgeOK'
  <2>1. \A w : Ends(Null, w)
    BY Zenon DEF Ends
  <2>2. \A i \in 1 .. Len(<<>>) : FALSE
    OBVIOUS
  <2>3. SyncStart.segmented = Null /\ SyncStart.grouped = Null /\ SyncStart.pc = "starting"
    BY Zenon DEF SyncStart
  <2>4. KnowsEnds(SyncStart, <<>>, Null, "lock", StoredSize, GroupWidth)
    BY <2>1, <2>2, <2>3, Zenon DEF KnowsEnds, HasView
  <2> QED BY <1>1, <1>3, <2>4, OneKnows, Zenon DEF DataInv
<1>5. OptionsOK'
  BY <1>1, <1>3, SameOptions, Zenon DEF DataInv
<1>6. PhaseOK'
  <2>1. lock' \in Reader \cup {Null} /\ PhaseOK
    BY <1>1, Zenon DEF DataInv, PhaseOK
  <2>2. "lock" \in LoopPhase /\ "lock" # "running"
    BY Zenon DEF LoopPhase
  <2> QED BY <1>1, <2>1, <2>2, IdlePhases, PhaseOfAll, Zenon
<1>7. WorkOK'
  BY <1>1, IdlePhases, WorkOfAll, Zenon DEF DataInv
<1>8. DataOK' /\ BoundsOK'
  BY <1>1, SameData, SameBounds, Zenon DEF DataInv
<1> QED BY <1>4, <1>5, <1>6, <1>7, <1>8, Zenon DEF DataInv

LEMMA StopKeepsData ==
    ASSUME Inv, DataInv, NEW p \in Reader, Stop(p), kv' = kv,
           UNCHANGED <<sync, view, inbox, blocks, segments, groups>>
    PROVE  DataInv'
<1>1. /\ UNCHANGED <<lock, size>>
      /\ task' = [task EXCEPT ![p] = [t \in Task |-> Idle]]
      /\ loop' = [loop EXCEPT ![p] = "unlock"]
      /\ \A w \in waiters' : w \in waiters /\ w.reader # p
  BY Zenon DEF Stop
<1>2. DOMAIN loop = Reader
  BY Zenon DEF Inv, ReadersOK
<1>3. loop'[p] = "unlock" /\ \A q \in Reader \ {p} : loop'[q] = loop[q]
  BY <1>1, <1>2, Zenon
<1>4. OptionsOK' /\ KnowledgeOK'
  BY <1>1, <1>3, SameOptions, SameKnowledge, Zenon DEF DataInv
<1>5. PhaseOK'
  <2>1. lock' \in Reader \cup {Null} /\ PhaseOK
    BY <1>1, Zenon DEF DataInv, PhaseOK
  <2>2. "unlock" \in LoopPhase /\ "unlock" # "running"
    BY Zenon DEF LoopPhase
  <2> QED BY <1>1, <2>1, <2>2, IdlePhases, PhaseOfAll, Zenon
<1>6. WorkOK'
  BY <1>1, IdlePhases, WorkOfAll, Zenon DEF DataInv
<1>7. DataOK' /\ BoundsOK'
  BY <1>1, SameData, SameBounds, Zenon DEF DataInv
<1> QED BY <1>4, <1>5, <1>6, <1>7, Zenon DEF DataInv

LEMMA LoopKeepsData ==
    ASSUME Inv, DataInv, NEW p \in Deployed,
           \/ AcquireLock(p) \/ AcceptOptions(p) \/ RefuseOptions(p) \/ StartServices(p)
           \/ Unlock(p) \/ ServerEnds(p) \/ RequestFails(p) \/ Crash(p)
    PROVE  DataInv'
<1>1. p \in Reader /\ size[p] \in Nat \ {0} /\ DOMAIN loop = Reader
  BY DeployedSize, Zenon DEF Inv, ReadersOK
<1>2. CASE RefuseOptions(p) \/ ServerEnds(p) \/ Crash(p)
  BY <1>1, <1>2, ResetKeepsData, Zenon DEF RefuseOptions, ServerEnds, Crash
<1>3. CASE RequestFails(p)
  BY <1>1, <1>3, StopKeepsData, Zenon DEF RequestFails, stateVars, storeVars
<1>4. ASSUME NEW state \in LoopPhase, loop' = [loop EXCEPT ![p] = state],
             UNCHANGED <<size, stateVars, syncVars, storeVars>>,
             state = "running" => view[p] # Null,
             state \in {"view", "running"} => Ready(size[p], GroupSizeOf[p]),
             WorkOK', PhaseOK'
      PROVE  DataInv'
  <2>1. loop'[p] = state /\ \A q \in Reader \ {p} : loop'[q] = loop[q]
    BY <1>1, <1>4, Zenon
  <2>2. kv' = kv /\ UNCHANGED <<sync, view, inbox, blocks, segments, groups>>
    BY <1>4, Zenon DEF stateVars, syncVars, storeVars
  <2>3. OptionsOK' /\ KnowledgeOK'
    BY <1>4, <2>1, <2>2, SameOptions, SameKnowledge, Zenon DEF DataInv
  <2> QED BY <1>4, <2>2, <2>3, SameData, SameBounds, Zenon DEF DataInv
<1>5. ASSUME NEW state \in LoopPhase, loop' = [loop EXCEPT ![p] = state], state # "running",
             loop[p] # "running", UNCHANGED <<size, task, stateVars, syncVars, storeVars>>,
             lock' \in Reader \cup {Null}, state = "view" => Ready(size[p], GroupSizeOf[p])
      PROVE  DataInv'
  <2>1. loop'[p] = state /\ \A q \in Reader \ {p} : loop'[q] = loop[q]
    BY <1>1, <1>5, Zenon
  <2>2. PhaseOK'
    <3>1. task' = task /\ waiters' = waiters /\ PhaseOK
      BY <1>5, Zenon DEF DataInv, syncVars
    <3>2. PhaseOf(loop'[p], task[p])
      BY <1>1, <1>5, <2>1, <3>1, Zenon DEF PhaseOK, PhaseOf
    <3>3. \A q \in Reader : PhaseOf(loop'[q], task[q])
      BY <2>1, <3>1, <3>2, Zenon DEF PhaseOK
    <3> QED BY <1>5, <3>1, <3>3, Zenon DEF PhaseOK
  <2>3. WorkOK'
    BY <1>5, SameWork, Zenon DEF DataInv, stateVars, storeVars
  <2> QED BY <1>4, <1>5, <2>2, <2>3, Zenon
<1>6. lock \in Reader \cup {Null}
  BY Zenon DEF DataInv, PhaseOK
<1>7. CASE AcquireLock(p)
  BY <1>1, <1>5, <1>7, Zenon DEF AcquireLock, Enter, LoopPhase
<1>8. CASE AcceptOptions(p)
  <2>1. GroupSizeOf[p] \in Nat \ {0}
    BY <1>1, CompactionAssumption
  <2>2. Ready(size[p], GroupSizeOf[p])
    BY <1>1, <1>8, <2>1, Zenon DEF AcceptOptions, Ready, StoredSize, StoredGroup, Size
  <2> QED BY <1>5, <1>6, <1>8, <2>2, Zenon DEF AcceptOptions, Enter, LoopPhase
<1>9. CASE StartServices(p)
  <2>1. lock' = lock /\ loop[p] = "view" /\ view[p] # Null /\ loop' = [loop EXCEPT ![p] = "running"]
        /\ task' = [task EXCEPT ![p] = [t \in Task |-> Tick]]
        /\ UNCHANGED <<size, stateVars, syncVars, storeVars>>
    BY <1>9, Zenon DEF StartServices, Enter
  <2>2. Ready(size[p], GroupSizeOf[p])
    BY <1>1, <2>1, Zenon DEF DataInv, OptionsOK
  <2>3. \A w \in waiters' : w \in waiters /\ w.reader # p
    <3>1. \A t \in Task : task[p][t].pc = "off"
      BY <1>1, <2>1, Zenon DEF DataInv, PhaseOK, PhaseOf
    <3> QED BY <2>1, <3>1, Zenon DEF DataInv, PhaseOK, syncVars
  <2>4. PhaseOK'
    BY <1>1, <1>6, <2>1, <2>3, IdlePhases, PhaseOfAll, Zenon DEF DataInv, LoopPhase
  <2>5. WorkOK'
    BY <1>1, <2>1, IdlePhases, WorkOfAll, Zenon DEF DataInv, stateVars, storeVars
  <2> QED BY <1>4, <2>1, <2>2, <2>4, <2>5, Zenon DEF LoopPhase
<1>10. CASE Unlock(p)
  BY <1>5, <1>6, <1>10, Zenon DEF Unlock, Enter, LoopPhase
<1> QED BY <1>2, <1>3, <1>7, <1>8, <1>9, <1>10, Zenon

LEMMA LeaseKeepsData ==
    ASSUME Inv, DataInv, LeaseExpires \/ OrphanLeaseExpires
    PROVE  DataInv'
<1>1. UNCHANGED <<stateVars, syncVars, storeVars, loop, task, size>> /\ lock' = Null
  BY Zenon DEF LeaseExpires, OrphanLeaseExpires
<1>2. kv' = kv /\ UNCHANGED <<sync, view, inbox, waiters, blocks, segments, groups>>
  BY <1>1, Zenon DEF stateVars, syncVars, storeVars
<1>3. OptionsOK' /\ KnowledgeOK' /\ PhaseOK'
  BY <1>1, <1>2, SameOptions, SameKnowledge, SamePhase, Zenon DEF DataInv
<1> QED BY <1>1, <1>2, <1>3, SameData, SameWork, SameBounds, Zenon DEF DataInv

-----------------------------------------------------------------------------
(* Every step keeps the invariant: the tasks, without a write to etcd.     *)

LEMMA ContinueChanges ==
    ASSUME Inv, NEW p \in Reader, NEW name \in Task, NEW t, Continue(p, name, t)
    PROVE  /\ UNCHANGED <<lock, loop, size>> /\ task'[p][name] = t
           /\ \A other \in Task \ {name} : task'[p][other] = task[p][other]
           /\ \A q \in Reader \ {p} : task'[q] = task[q]
<1>1. DOMAIN task = Reader /\ DOMAIN task[p] = Task
  BY Zenon DEF Inv, TasksOK
<1> QED BY <1>1, Zenon DEF Continue

\* Of the waiters before and after a step: only a task that waits then is new.
Awaits(p, name, before, after, pc) ==
    \A w \in after : \/ w \in before /\ ~(w.reader = p /\ w.task = name)
                     \/ w.reader = p /\ w.task = name /\ pc = "waiting"

LEMMA PhaseOfTask ==
    ASSUME Inv, PhaseOK, NEW p \in Reader, NEW name \in Task, NEW t, Continue(p, name, t),
           loop[p] = "running", t.pc \in TaskPhase, Awaits(p, name, waiters, waiters', t.pc)
    PROVE  PhaseOK'
<1>1. /\ UNCHANGED <<lock, loop>> /\ task'[p][name] = t
      /\ \A other \in Task \ {name} : task'[p][other] = task[p][other]
      /\ \A q \in Reader \ {p} : task'[q] = task[q]
  BY ContinueChanges
<1>2. PhaseOf(loop[p], task'[p])
  <2>1. PhaseOf("running", task[p])
    BY Zenon DEF PhaseOK
  <2> QED BY <1>1, <2>1, Zenon DEF PhaseOf
<1>3. \A q \in Reader : PhaseOf(loop'[q], task'[q])
  BY <1>1, <1>2, Zenon DEF PhaseOK
<1>4. ASSUME NEW w \in waiters'
      PROVE  w.reader \in Reader /\ w.task \in Task /\ task'[w.reader][w.task].pc = "waiting"
  <2>1. CASE w.reader = p /\ w.task = name
    BY <1>1, <2>1, Zenon DEF Awaits
  <2>2. CASE ~(w.reader = p /\ w.task = name)
    <3>1. w.reader \in Reader /\ w.task \in Task /\ task[w.reader][w.task].pc = "waiting"
      BY <2>2, Zenon DEF PhaseOK, Awaits
    <3>2. task'[w.reader][w.task] = task[w.reader][w.task]
      BY <1>1, <2>2, <3>1, Zenon
    <3> QED BY <3>1, <3>2, Zenon
  <2> QED BY <2>1, <2>2, Zenon
<1>5. lock' \in Reader \cup {Null}
  BY <1>1, Zenon DEF PhaseOK
<1> QED BY <1>3, <1>4, <1>5, Zenon DEF PhaseOK

LEMMA PhaseOfStep ==
    ASSUME Inv, PhaseOK, NEW p \in Reader, NEW name \in Task, NEW t, Continue(p, name, t),
           loop[p] = "running", t.pc \in TaskPhase, task[p][name].pc # "waiting",
           waiters' = waiters
    PROVE  PhaseOK'
<1>1. Awaits(p, name, waiters, waiters', t.pc)
  BY Zenon DEF PhaseOK, Awaits
<1> QED BY <1>1, PhaseOfTask, Zenon

LEMMA WorkOfTask ==
    ASSUME Inv, WorkOK, NEW p \in Reader, NEW name \in Task, NEW t, Continue(p, name, t),
           segments \subseteq segments', groups \subseteq groups',
           AtMost(GetSegmented, GetSegmented'), AtMost(GetGrouped, GetGrouped'),
           name = "segment" => SegmentWork(t, size[p], GetSegmented', segments'),
           name = "group" => GroupWork(t, GroupSizeOf[p] * size[p], GetGrouped', groups')
    PROVE  WorkOK'
<1>1. "segment" \in Task /\ "group" \in Task
  BY CompactionAssumption, Zenon
<1>2. size' = size /\ task'[p][name] = t
      /\ (\A other \in Task \ {name} : task'[p][other] = task[p][other])
      /\ (\A q \in Reader \ {p} : task'[q] = task[q])
  BY ContinueChanges
<1>3. \A q \in Reader :
          /\ \/ task'[q]["segment"] = task[q]["segment"]
             \/ SegmentWork(task'[q]["segment"], size[q], GetSegmented', segments')
          /\ \/ task'[q]["group"] = task[q]["group"]
             \/ GroupWork(task'[q]["group"], GroupSizeOf[q] * size[q], GetGrouped', groups')
  BY <1>1, <1>2, Zenon
<1> QED BY <1>2, <1>3, WorkMoves, Zenon

\* A task goes on, and the store has at most more in it.
LEMMA TaskKeepsData ==
    ASSUME Inv, DataInv, NEW p \in Reader, NEW name \in Task, NEW t, Continue(p, name, t),
           kv' = kv, UNCHANGED <<sync, view, inbox>>, PhaseOK', BoundsOK',
           segments \subseteq segments', groups \subseteq groups',
           name = "segment" => SegmentWork(t, size[p], GetSegmented, segments'),
           name = "group" => GroupWork(t, GroupSizeOf[p] * size[p], GetGrouped, groups')
    PROVE  DataInv'
<1>1. UNCHANGED <<loop, size>>
  BY Zenon DEF Continue
<1>2. OptionsOK' /\ KnowledgeOK'
  BY <1>1, SameOptions, SameKnowledge, Zenon DEF DataInv
<1>3. GetGrouped' = GetGrouped /\ GetSegmented' = GetSegmented
  BY Zenon DEF GetGrouped, GetSegmented, Get
<1>4. WorkOK'
  BY <1>3, SameCursors, WorkOfTask, Zenon DEF DataInv
<1>5. DataOK'
  BY SameData, Zenon DEF DataInv
<1> QED BY <1>2, <1>4, <1>5, Zenon DEF DataInv

\* The store stays, or loses blocks.
LEMMA QuietTaskKeepsData ==
    ASSUME Inv, DataInv, NEW p \in Reader, NEW name \in Task, NEW t, Continue(p, name, t),
           kv' = kv, UNCHANGED <<sync, view, inbox, segments, groups>>, blocks' \subseteq blocks,
           PhaseOK',
           name = "segment" => SegmentWork(t, size[p], GetSegmented, segments),
           name = "group" => GroupWork(t, GroupSizeOf[p] * size[p], GetGrouped, groups)
    PROVE  DataInv'
<1>1. BoundsOK'
  BY SameBounds, Zenon DEF DataInv
<1> QED BY <1>1, TaskKeepsData, Zenon

LEMMA WaitingKeepsData ==
    ASSUME Inv, DataInv, NEW p \in Reader, NEW name \in Task, StartWaiting(p, name) \/ Wake(p, name)
    PROVE  DataInv'
<1>1. PhaseOK
  BY Zenon DEF DataInv
<1>2. CASE Wake(p, name)
  <2>1. /\ loop[p] = "running" /\ Continue(p, name, Tick) /\ kv' = kv
        /\ UNCHANGED <<sync, view, inbox, segments, groups, blocks>>
        /\ Awaits(p, name, waiters, waiters', Tick.pc)
    BY <1>2, Zenon DEF Wake, Woken, At, stateVars, syncVars, storeVars, Awaits
  <2>2. PhaseOK'
    BY <1>1, <2>1, IdlePhases, PhaseOfTask, Zenon
  <2> QED BY <2>1, <2>2, IdlePhases, QuietWork, QuietTaskKeepsData, Zenon
<1>3. CASE StartWaiting(p, name)
  <2> DEFINE t == task[p][name]
             new == [t EXCEPT !.pc = "waiting"]
             who == [reader |-> p, task |-> name, notification |-> t.on]
  <2>1. /\ loop[p] = "running" /\ Continue(p, name, new) /\ kv' = kv
        /\ UNCHANGED <<sync, view, inbox, segments, groups, blocks>>
        /\ waiters' = waiters \cup {who}
    BY <1>3, Zenon DEF StartWaiting, Register, At, stateVars, storeVars
  <2>2. who.reader = p /\ who.task = name
    BY Zenon
  <2>3. new.pc = "waiting"
    BY TaskFields, Zenon
  <2>4. new.pc \notin Working /\ new.pc \in TaskPhase
    BY <2>3, Zenon DEF Working, TaskPhase
  <2> HIDE DEF new, who
  <2>5. Awaits(p, name, waiters, waiters', new.pc)
    <3>1. \A w \in waiters : ~(w.reader = p /\ w.task = name)
      BY <1>1, <1>3, Zenon DEF PhaseOK, StartWaiting, At
    <3> QED BY <2>1, <2>2, <2>3, <3>1, Zenon DEF Awaits
  <2>6. PhaseOK'
    BY <1>1, <2>1, <2>4, <2>5, PhaseOfTask, Zenon
  <2> QED BY <2>1, <2>4, <2>6, QuietWork, QuietTaskKeepsData, Zenon
<1> QED BY <1>2, <1>3, Zenon

\* A process that compacts has the stored size, and a view of what is compacted.
LEMMA CompactorFacts ==
    ASSUME Inv, DataInv, NEW p \in Reader, loop[p] = "running"
    PROVE  /\ size[p] \in Nat \ {0} /\ StoredSize = size[p]
           /\ GroupWidth = GroupSizeOf[p] * size[p]
           /\ GroupSizeOf[p] * size[p] \in Nat \ {0}
           /\ Ends(view[p].segmented, size[p]) /\ Ends(view[p].grouped, GroupSizeOf[p] * size[p])
           /\ AtMost(view[p].segmented, GetSegmented) /\ AtMost(view[p].grouped, GetGrouped)
<1>1. /\ size[p] \in Nat \ {0} /\ StoredSize = size[p]
      /\ GroupSizeOf[p] \in Nat \ {0} /\ StoredGroup = GroupSizeOf[p]
  BY Zenon DEF DataInv, OptionsOK, Ready
<1>2. GroupWidth = GroupSizeOf[p] * size[p] /\ GroupSizeOf[p] * size[p] \in Nat \ {0}
  BY <1>1, GroupWidthIsASize, Zenon
<1>3. Ends(view[p].segmented, StoredSize) /\ Ends(view[p].grouped, GroupWidth)
  BY Zenon DEF DataInv, KnowledgeOK, KnowsEnds
<1> QED BY <1>1, <1>2, <1>3, ViewOfCompactor, Zenon

LEMMA WaitingPhases ==
    ASSUME NEW on
    PROVE  /\ WaitFor(on).pc \notin Working /\ WaitFor(on).pc \in TaskPhase
<1>1. WaitFor(on).pc = "gap"
  BY Zenon DEF WaitFor, Idle
<1> QED BY <1>1, Zenon DEF Working, TaskPhase

LEMMA TickKeepsData ==
    ASSUME Inv, DataInv, NEW p \in Reader, SegmentTick(p) \/ GroupTick(p)
    PROVE  DataInv'
<1>1. /\ loop[p] = "running" /\ kv' = kv
      /\ UNCHANGED <<sync, view, inbox, blocks, segments, groups>>
  BY Zenon DEF SegmentTick, GroupTick, At, stateVars, storeVars
<1>2. /\ "segment" \in Task /\ "group" \in Task /\ PhaseOK
      /\ "read" \in TaskPhase /\ "read" \in Working
  BY CompactionAssumption, Zenon DEF DataInv, TaskPhase, Working
<1>3. CASE Fail(p)
  BY <1>1, <1>3, StopKeepsData, Zenon DEF Fail
<1>4. CASE SegmentTick(p) /\ ~Fail(p)
  <2> DEFINE first == NextBlock(view[p], view[p].segmented)
             on == IF view[p].finalized < GetHead(view[p]) THEN "finalized" ELSE "head"
             new == [Idle EXCEPT !.pc = "read", !.first = first,
                                 !.todo = first .. first + Size(p) - 1]
  <2>1. /\ SegmentFits(p, first) => Continue(p, "segment", new)
        /\ ~SegmentFits(p, first) => Continue(p, "segment", WaitFor(on))
        /\ waiters' = waiters /\ task[p]["segment"].pc # "waiting" /\ first # Null
    BY <1>4, Zenon DEF SegmentTick, At
  <2>2. CASE SegmentFits(p, first)
    <3>1. new.pc = "read" /\ new.first = first /\ new.part = 0
      BY Zenon DEF Idle
    <3>2. Follows(first, GetSegmented, size[p])
      BY <1>1, <2>1, CompactorFacts, NextFollows, Zenon
    <3> HIDE DEF first, new
    <3>3. SegmentWork(new, size[p], GetSegmented, segments)
      BY <3>1, <3>2, Zenon DEF SegmentWork
    <3>4. PhaseOK'
      BY <1>1, <1>2, <2>1, <2>2, <3>1, PhaseOfStep, Zenon
    <3> QED BY <1>1, <1>2, <2>1, <2>2, <3>3, <3>4, QuietTaskKeepsData, Zenon
  <2>3. CASE ~SegmentFits(p, first)
    <3> HIDE DEF first, on
    <3>1. PhaseOK'
      BY <1>1, <1>2, <2>1, <2>3, WaitingPhases, PhaseOfStep, Zenon
    <3> QED BY <1>1, <1>2, <2>1, <2>3, <3>1, WaitingPhases, QuietWork, QuietTaskKeepsData, Zenon
  <2> QED BY <2>2, <2>3, Zenon
<1>5. CASE GroupTick(p) /\ ~Fail(p)
  <2> DEFINE first == NextBlock(view[p], view[p].grouped)
             fits == view[p].segmented # Null /\ GroupFits(p, first)
             new == [Idle EXCEPT !.pc = "read", !.first = first,
                                 !.todo = {first + i * Size(p) : i \in 0 .. GroupSizeOf[p] - 1}]
  <2>1. /\ fits => Continue(p, "group", new)
        /\ ~fits => Continue(p, "group", WaitFor("segmented"))
        /\ waiters' = waiters /\ task[p]["group"].pc # "waiting" /\ first # Null
    BY <1>5, Zenon DEF GroupTick, At
  <2>2. CASE fits
    <3>1. new.pc = "read" /\ new.first = first
      BY Zenon DEF Idle
    <3>2. Follows(first, GetGrouped, GroupSizeOf[p] * size[p])
      BY <1>1, <2>1, CompactorFacts, NextFollows, Zenon
    <3> HIDE DEF first, new, fits
    <3>3. GroupWork(new, GroupSizeOf[p] * size[p], GetGrouped, groups)
      BY <3>1, <3>2, Zenon DEF GroupWork
    <3>4. PhaseOK'
      BY <1>1, <1>2, <2>1, <2>2, <3>1, PhaseOfStep, Zenon
    <3> QED BY <1>1, <1>2, <2>1, <2>2, <3>3, <3>4, QuietTaskKeepsData, Zenon
  <2>3. CASE ~fits
    <3> HIDE DEF first, fits
    <3>1. PhaseOK'
      BY <1>1, <1>2, <2>1, <2>3, WaitingPhases, PhaseOfStep, Zenon
    <3> QED BY <1>1, <1>2, <2>1, <2>3, <3>1, WaitingPhases, QuietWork, QuietTaskKeepsData, Zenon
  <2> QED BY <2>2, <2>3, Zenon
<1> QED BY <1>3, <1>4, <1>5, Zenon

\* A segment or a group in the making goes on, with more or less of it done.
LEMMA WorkFacts ==
    ASSUME Inv, DataInv, NEW p \in Reader
    PROVE  /\ "segment" \in Task /\ "group" \in Task
           /\ DOMAIN task[p]["segment"] = {"pc", "first", "todo", "part", "read", "limit", "on"}
           /\ DOMAIN task[p]["group"] = {"pc", "first", "todo", "part", "read", "limit", "on"}
           /\ SegmentWork(task[p]["segment"], size[p], GetSegmented, segments)
           /\ GroupWork(task[p]["group"], GroupSizeOf[p] * size[p], GetGrouped, groups)
<1>1. "segment" \in Task /\ "group" \in Task
  BY CompactionAssumption, Zenon
<1> QED BY <1>1, TaskFields, Zenon DEF DataInv, WorkOK

LEMMA ReadingKeepsData ==
    ASSUME Inv, DataInv, NEW p \in Reader,
           \/ \E block \in Block : ReadBlock(p, block)
           \/ \E first \in Block : ReadIndex(p, first)
    PROVE  DataInv'
<1>1. /\ loop[p] = "running" /\ kv' = kv
      /\ UNCHANGED <<sync, view, inbox, blocks, segments, groups>>
  BY Zenon DEF ReadBlock, ReadIndex, At, stateVars, storeVars
<1>2. PhaseOK
  BY Zenon DEF DataInv
<1>3. CASE Fail(p)
  BY <1>1, <1>3, StopKeepsData, Zenon DEF Fail
<1>4. ASSUME NEW block \in Block, ReadBlock(p, block), ~Fail(p) PROVE DataInv'
  <2> DEFINE t == task[p]["segment"]
             rest == t.todo \ {block}
             new == [t EXCEPT !.todo = rest, !.pc = IF rest = {} THEN "upload" ELSE "read"]
  <2>1. Continue(p, "segment", new) /\ t.pc = "read" /\ waiters' = waiters
    BY <1>4, Zenon DEF ReadBlock, At
  <2>2. new.first = t.first /\ new.pc \in {"read", "upload"} /\ new.part = t.part
    BY WorkFacts, Zenon
  <2>3. SegmentWork(t, size[p], GetSegmented, segments) /\ "segment" \in Task
    BY WorkFacts, Zenon
  <2> HIDE DEF new
  <2>4. t.part = 0
    BY <2>1, <2>3, Zenon DEF SegmentWork, Working
  <2>5. new.part = 0 /\ new.part \in {0, 1} /\ ~(new.part = 1)
    BY <2>2, <2>4
  <2>6. SegmentWork(new, size[p], GetSegmented, segments)
    BY <2>1, <2>2, <2>3, <2>5, Zenon DEF SegmentWork, Working
  <2>7. t.pc # "waiting" /\ new.pc \in TaskPhase
    BY <2>1, <2>2, Zenon DEF TaskPhase
  <2>8. PhaseOK'
    BY <1>1, <1>2, <2>1, <2>3, <2>7, PhaseOfStep, Zenon
  <2> QED BY <1>1, <2>1, <2>3, <2>6, <2>8, QuietTaskKeepsData, Zenon
<1>5. ASSUME NEW first \in Block, ReadIndex(p, first), ~Fail(p) PROVE DataInv'
  <2> DEFINE t == task[p]["group"]
             rest == t.todo \ {first}
             new == [t EXCEPT !.todo = rest, !.pc = IF rest = {} THEN "upload" ELSE "read"]
  <2>1. Continue(p, "group", new) /\ t.pc = "read" /\ waiters' = waiters
    BY <1>5, Zenon DEF ReadIndex, At
  <2>2. new.first = t.first /\ new.pc \in {"read", "upload"}
    BY WorkFacts, Zenon
  <2>3. GroupWork(t, GroupSizeOf[p] * size[p], GetGrouped, groups) /\ "group" \in Task
    BY WorkFacts, Zenon
  <2> HIDE DEF new
  <2>4. GroupWork(new, GroupSizeOf[p] * size[p], GetGrouped, groups)
    BY <2>1, <2>2, <2>3, Zenon DEF GroupWork, Working
  <2>5. t.pc # "waiting" /\ new.pc \in TaskPhase
    BY <2>1, <2>2, Zenon DEF TaskPhase
  <2>6. PhaseOK'
    BY <1>1, <1>2, <2>1, <2>3, <2>5, PhaseOfStep, Zenon
  <2> QED BY <1>1, <2>1, <2>3, <2>4, <2>6, QuietTaskKeepsData, Zenon
<1> QED BY <1>3, <1>4, <1>5, Zenon

\* What is being made begins at a block of the chain.
LEMMA WorkInBounds ==
    ASSUME Inv, DataInv, NEW p \in Reader
    PROVE  /\ task[p]["segment"].pc \in Working => task[p]["segment"].first \in Block
           /\ task[p]["group"].pc \in Working => task[p]["group"].first \in Block
<1>1. "segment" \in Task /\ "group" \in Task
  BY CompactionAssumption, Zenon
<1>2. ChainHead \in Nat /\ ChainHead <= MaxBlock /\ MaxBlock \in Nat
  <2>1. ChainHead \in Block
    BY Zenon DEF DataInv, BoundsOK
  <2> QED BY <2>1, StartingBlockAssumption, ViewAssumption DEF Block
<1>3. ASSUME NEW first, NEW c, NEW w \in Nat, NEW end \in Nat, Follows(first, c, w),
             first + w <= end, end <= ChainHead
      PROVE  first \in Block
  <2>1. first \in Nat /\ first >= StartingBlock
    BY <1>3, FollowerIsABlock, Zenon
  <2>2. first <= MaxBlock
    BY <1>2, <1>3, <2>1
  <2> QED BY <2>1, <2>2, <1>2, StartingBlockAssumption DEF Block
<1>4. ASSUME task[p]["segment"].pc \in Working
      PROVE  task[p]["segment"].first \in Block
  <2>1. /\ Follows(task[p]["segment"].first, GetSegmented, size[p])
        /\ size[p] \in Nat /\ task[p]["segment"].first + size[p] <= ChainHead
    BY <1>1, <1>4, TaskIsOK, WorkFacts, Zenon DEF SegmentWork, TaskOK, SegmentOK
  <2>2. ChainHead <= ChainHead
    BY <1>2
  <2> QED BY <1>2, <1>3, <2>1, <2>2, Zenon
<1>5. ASSUME task[p]["group"].pc \in Working
      PROVE  task[p]["group"].first \in Block
  <2>1. /\ Follows(task[p]["group"].first, GetGrouped, GroupSizeOf[p] * size[p])
        /\ size[p] \in Nat /\ GetSegmented \in Nat
        /\ task[p]["group"].first + GroupSizeOf[p] * size[p] <= GetSegmented
    BY <1>1, <1>5, TaskIsOK, WorkFacts, Zenon
       DEF GroupWork, TaskOK, GroupOK, GetSegmented, Get
  <2>2. GroupSizeOf[p] * size[p] \in Nat
    BY <2>1, CompactionAssumption
  <2>3. GetSegmented <= ChainHead
    BY <2>1, NullIsNoNumber, Zenon DEF Inv, KvOK, AtMost
  <2> QED BY <1>3, <2>1, <2>2, <2>3, Zenon
<1> QED BY <1>4, <1>5, Zenon

LEMMA FragmentFacts ==
    DOMAIN Fragment = {1, 2} /\ Len(Fragment) = 2
  BY DEF Fragment

LEMMA UploadKeepsData ==
    ASSUME Inv, DataInv, NEW p \in Reader, UploadFragment(p) \/ UploadGroup(p)
    PROVE  DataInv'
<1>1. loop[p] = "running" /\ kv' = kv /\ UNCHANGED <<sync, view, inbox, blocks, waiters>>
  BY Zenon DEF UploadFragment, UploadGroup, At, stateVars, syncVars, storeVars
<1>2. PhaseOK /\ BoundsOK
  BY Zenon DEF DataInv
<1>3. ChainHead' = ChainHead
  BY <1>1, Zenon DEF ChainHead, GetRecent, Get
<1>4. CASE UploadFragment(p)
  <2> DEFINE t == task[p]["segment"]
             part == t.part + 1
             new == [t EXCEPT !.part = part,
                              !.pc = IF part = Len(Fragment) THEN "put" ELSE "upload"]
             made == <<t.first, Fragment[part]>>
  <2>1. /\ Continue(p, "segment", new) /\ t.pc = "upload" /\ groups' = groups
        /\ segments' = segments \cup {made}
    BY <1>4, Zenon DEF UploadFragment, At
  <2>2. /\ new.first = t.first /\ new.part = part
        /\ part = Len(Fragment) => new.pc = "put"
        /\ part # Len(Fragment) => new.pc = "upload"
    BY WorkFacts, Zenon
  <2>3. SegmentWork(t, size[p], GetSegmented, segments) /\ "segment" \in Task
    BY WorkFacts, Zenon
  <2>4. t.first \in Block
    BY <2>1, WorkInBounds, Zenon DEF Working
  <2> HIDE DEF new
  <2>5. t.part \in {0, 1}
    BY <2>1, <2>3, Zenon DEF SegmentWork, Working
  <2>6. Follows(new.first, GetSegmented, size[p]) /\ new.first \in Nat
    <3>1. Block \subseteq Nat
      BY StartingBlockAssumption, ViewAssumption DEF Block
    <3> QED BY <2>1, <2>2, <2>3, <2>4, <3>1, Zenon DEF SegmentWork, Working
  <2>7. SegmentWork(new, size[p], GetSegmented, segments')
    <3>1. CASE t.part = 0
      <4>1. part = 1 /\ new.part \in {0, 1} /\ new.pc = "upload"
        BY <2>2, <3>1, FragmentFacts
      <4> HIDE DEF part
      <4>2. <<new.first, Fragment[1]>> \in segments'
        BY <2>1, <2>2, <4>1, Zenon
      <4> QED BY <2>6, <4>1, <4>2, Zenon DEF SegmentWork
    <3>2. CASE t.part = 1
      <4>1. part = 2 /\ new.pc = "put"
        BY <2>2, <3>2, FragmentFacts
      <4>2. <<t.first, Fragment[1]>> \in segments'
        BY <2>1, <2>3, <3>2, Zenon DEF SegmentWork, Working
      <4>3. <<t.first, Fragment[2]>> \in segments'
        <5> HIDE DEF part
        <5> QED BY <2>1, <4>1, Zenon
      <4>4. new.first \in Finished(segments')
        BY <2>2, <2>6, <4>2, <4>3, FragmentFacts, Zenon DEF Finished
      <4> QED BY <2>6, <4>1, <4>4, Zenon DEF SegmentWork
    <3> QED BY <2>5, <3>1, <3>2, Zenon
  <2>8. BoundsOK'
    <3>1. made[1] = t.first
      BY Zenon
    <3> HIDE DEF made
    <3> QED BY <1>1, <1>2, <1>3, <2>1, <2>4, <3>1, Zenon DEF BoundsOK, Block
  <2>9. PhaseOK'
    <3>1. t.pc # "waiting" /\ new.pc \in TaskPhase
      BY <2>1, <2>2, Zenon DEF TaskPhase
    <3> QED BY <1>1, <1>2, <2>1, <2>3, <3>1, PhaseOfStep, Zenon
  <2> QED BY <1>1, <2>1, <2>3, <2>7, <2>8, <2>9, TaskKeepsData, Zenon
<1>5. CASE UploadGroup(p)
  <2> DEFINE t == task[p]["group"]
             new == [t EXCEPT !.pc = "put"]
  <2>1. /\ Continue(p, "group", new) /\ t.pc = "upload" /\ segments' = segments
        /\ groups' = groups \cup {t.first}
    BY <1>5, Zenon DEF UploadGroup, At
  <2>2. new.first = t.first /\ new.pc = "put"
    BY WorkFacts, Zenon
  <2>3. GroupWork(t, GroupSizeOf[p] * size[p], GetGrouped, groups) /\ "group" \in Task
    BY WorkFacts, Zenon
  <2>4. t.first \in Block
    BY <2>1, WorkInBounds, Zenon DEF Working
  <2> HIDE DEF new
  <2>5. GroupWork(new, GroupSizeOf[p] * size[p], GetGrouped, groups')
    BY <2>1, <2>2, <2>3, Zenon DEF GroupWork, Working
  <2>6. BoundsOK'
    BY <1>1, <1>2, <1>3, <2>1, <2>4, Zenon DEF BoundsOK, Block
  <2>7. PhaseOK'
    <3>1. t.pc # "waiting" /\ new.pc \in TaskPhase
      BY <2>1, <2>2, Zenon DEF TaskPhase
    <3> QED BY <1>1, <1>2, <2>1, <2>3, <3>1, PhaseOfStep, Zenon
  <2> QED BY <1>1, <2>1, <2>3, <2>5, <2>6, <2>7, TaskKeepsData, Zenon
<1> QED BY <1>4, <1>5, Zenon

\* A cursor is read, or its write comes too late and is tried again.
LEMMA RetryKeepsData ==
    ASSUME Inv, DataInv, NEW p \in Reader, NEW name \in {"segment", "group"}, NEW key, NEW last,
           \/ PutRead(p, name, key, last)
           \/ PutTxn(p, name, key, last) /\ kv[key].revision # task[p][name].read.revision
    PROVE  DataInv'
<1> DEFINE t == task[p][name]
           read == [t EXCEPT !.pc = "txn", !.read = kv[key]]
           again == [t EXCEPT !.pc = "put", !.read = Missing]
<1>1. /\ loop[p] = "running" /\ kv' = kv /\ t.pc \in {"put", "txn"}
      /\ UNCHANGED <<sync, view, inbox, blocks, segments, groups, waiters>>
      /\ \/ Continue(p, name, Tick) \/ Continue(p, name, read) \/ Continue(p, name, again)
  BY Zenon
     DEF PutRead, PutTxn, PutIfUnchanged, PutIfModRevision, At, stateVars, syncVars, storeVars
<1>2. /\ name \in Task /\ PhaseOK
      /\ DOMAIN t = {"pc", "first", "todo", "part", "read", "limit", "on"}
  BY WorkFacts, Zenon DEF DataInv
<1>3. /\ read.first = t.first /\ read.pc = "txn"
      /\ again.first = t.first /\ again.pc = "put"
  BY <1>2, Zenon
<1> HIDE DEF read, again
<1>4. ASSUME NEW new, new.first = t.first, new.pc \in {"put", "txn"}, Continue(p, name, new)
      PROVE  DataInv'
  <2>1. name = "segment" => SegmentWork(new, size[p], GetSegmented, segments)
    BY <1>1, <1>4, WorkFacts, Zenon DEF SegmentWork, Working
  <2>2. name = "group" => GroupWork(new, GroupSizeOf[p] * size[p], GetGrouped, groups)
    BY <1>1, <1>4, WorkFacts, Zenon DEF GroupWork, Working
  <2>3. t.pc # "waiting" /\ new.pc \in TaskPhase
    BY <1>1, <1>4, Zenon DEF TaskPhase
  <2>4. PhaseOK'
    BY <1>1, <1>2, <1>4, <2>3, PhaseOfStep, Zenon
  <2> QED BY <1>1, <1>2, <1>4, <2>1, <2>2, <2>4, QuietTaskKeepsData, Zenon
<1>5. CASE Continue(p, name, Tick)
  <2>1. PhaseOK'
    BY <1>1, <1>2, <1>5, IdlePhases, PhaseOfStep, Zenon
  <2> QED BY <1>1, <1>2, <1>5, <2>1, IdlePhases, QuietWork, QuietTaskKeepsData, Zenon
<1> QED BY <1>1, <1>3, <1>4, <1>5, Zenon

LEMMA PruneKeepsData ==
    ASSUME Inv, DataInv, NEW p \in Reader, PruneTick(p) \/ ReadPruned(p) \/ DeleteBlock(p)
    PROVE  DataInv'
<1>1. /\ loop[p] = "running" /\ kv' = kv /\ task[p]["prune"].pc \in {"tick", "pruned", "delete"}
      /\ UNCHANGED <<sync, view, inbox, segments, groups, waiters>> /\ blocks' \subseteq blocks
  BY Zenon DEF PruneTick, ReadPruned, DeleteBlock, At, stateVars, syncVars, storeVars
<1>2. "prune" \in Task /\ "prune" # "segment" /\ "prune" # "group" /\ PhaseOK
  BY CompactionAssumption, Zenon DEF DataInv
<1>3. DOMAIN task[p]["prune"] = {"pc", "first", "todo", "part", "read", "limit", "on"}
  BY <1>2, TaskFields, Zenon
<1>4. ASSUME NEW new, new.pc \in {"gap", "pruned", "delete", "put"}, Continue(p, "prune", new)
      PROVE  DataInv'
  <2>1. task[p]["prune"].pc # "waiting" /\ new.pc \in TaskPhase
    BY <1>1, <1>4, Zenon DEF TaskPhase
  <2>2. PhaseOK'
    BY <1>1, <1>2, <1>4, <2>1, PhaseOfStep, Zenon
  <2> QED BY <1>1, <1>2, <1>4, <2>2, QuietTaskKeepsData, Zenon
<1>5. CASE PruneTick(p)
  <2> DEFINE some == [Idle EXCEPT !.pc = "pruned", !.limit = PruneLimit]
  <2>1. Continue(p, "prune", some) \/ Continue(p, "prune", WaitFor("segmented"))
    BY <1>5, Zenon DEF PruneTick
  <2>2. some.pc \in {"gap", "pruned", "delete", "put"} /\ WaitFor("segmented").pc \in {"gap", "pruned", "delete", "put"}
    BY Zenon DEF Idle, WaitFor
  <2> HIDE DEF some
  <2> QED BY <1>4, <2>1, <2>2
<1>6. CASE ReadPruned(p)
  <2> DEFINE top == task[p]["prune"].limit
             some == [Idle EXCEPT !.pc = "delete", !.first = PruneStart, !.part = Size(p),
                                  !.limit = top]
             none == [WaitFor("segmented") EXCEPT !.limit = top]
  <2>1. Continue(p, "prune", some) \/ Continue(p, "prune", none)
    BY <1>6, Zenon DEF ReadPruned
  <2>2. some.pc \in {"gap", "pruned", "delete", "put"} /\ none.pc \in {"gap", "pruned", "delete", "put"}
    BY Zenon DEF Idle, WaitFor
  <2> HIDE DEF some, none
  <2> QED BY <1>4, <2>1, <2>2
<1>7. CASE DeleteBlock(p)
  <2> DEFINE t == task[p]["prune"]
             next == t.first + 1
             new == [t EXCEPT !.first = next, !.part = @ - 1,
                        !.pc = IF BatchIsOver(t.part - 1, next, t.limit) THEN "put" ELSE "delete"]
  <2>1. Continue(p, "prune", new)
    BY <1>7, Zenon DEF DeleteBlock
  <2>2. new.pc \in {"gap", "pruned", "delete", "put"}
    BY <1>3, Zenon
  <2> HIDE DEF new
  <2> QED BY <1>4, <2>1, <2>2
<1> QED BY <1>5, <1>6, <1>7, Zenon

-----------------------------------------------------------------------------
(* Every step keeps the invariant: the writes to etcd.                     *)

\* A write of something else than the sizes and the cursors.
LEMMA SameEntries ==
    ASSUME Inv, OptionsOK, DataOK, UNCHANGED <<size, loop, segments, groups>>,
           \A key \in {"segment_size", "group_size", "segmented", "grouped"} : kv'[key] = kv[key]
    PROVE  /\ OptionsOK' /\ DataOK' /\ StoredSize' = StoredSize /\ GroupWidth' = GroupWidth
           /\ GetSegmented' = GetSegmented /\ GetGrouped' = GetGrouped
           /\ AtMost(GetSegmented, GetSegmented') /\ AtMost(GetGrouped, GetGrouped')
<1>1. /\ StoredSize' = StoredSize /\ StoredGroup' = StoredGroup /\ GroupWidth' = GroupWidth
      /\ GetGrouped' = GetGrouped /\ GetSegmented' = GetSegmented
  BY Zenon DEF StoredSize, StoredGroup, GroupWidth, GetGrouped, GetSegmented, Get
<1>2. OptionsOK'
  BY <1>1, Zenon DEF OptionsOK, Ready
<1>3. DataOK'
  BY <1>1, Zenon DEF DataOK, Finished
<1>4. AtMost(GetSegmented, GetSegmented) /\ AtMost(GetGrouped, GetGrouped)
  BY CursorsAreKnown, Zenon DEF Inv
<1> QED BY <1>1, <1>2, <1>3, <1>4, Zenon

LEMMA FinalizedKeepsData ==
    ASSUME Inv, DataInv, ChainIsFinalized
    PROVE  DataInv'
<1>1. GetFinalized + 1 \in Nat /\ "finalized" \in Key
  BY DEF Inv, KvOK, Key, IngestionKey
<1>2. /\ UNCHANGED <<sync, view, waiters, blocks, segments, groups, lock, loop, task, size>>
      /\ Put("finalized", GetFinalized + 1)
  BY Zenon DEF ChainIsFinalized, IngesterFinalizes, PutFinalized, syncVars, storeVars, processVars
<1>3. \A other \in Key : other # "finalized" => kv'[other] = kv[other]
  BY <1>1, <1>2, PutWrites, Zenon DEF Inv
<1>4. /\ \A key \in {"segment_size", "group_size", "segmented", "grouped"} : kv'[key] = kv[key]
      /\ ChainHead' = ChainHead
  BY <1>3, Zenon DEF Key, IngestionKey, OptionKey, ChainHead, GetRecent, Get
<1>5. /\ OptionsOK' /\ DataOK' /\ StoredSize' = StoredSize /\ GroupWidth' = GroupWidth
      /\ GetSegmented' = GetSegmented /\ GetGrouped' = GetGrouped
      /\ AtMost(GetSegmented, GetSegmented') /\ AtMost(GetGrouped, GetGrouped')
  BY <1>2, <1>4, SameEntries, Zenon DEF DataInv
<1>6. Ends(GetSegmented', StoredSize') /\ Ends(GetGrouped', GroupWidth')
  BY <1>5, Zenon DEF DataInv, KnowledgeOK
<1>7. KnowledgeOK'
  BY <1>1, <1>2, <1>5, <1>6, PutKnows, Zenon DEF DataInv
<1>8. WorkOK'
  BY <1>2, <1>5, WorkMoves, Zenon DEF DataInv
<1>9. PhaseOK' /\ BoundsOK'
  BY <1>2, <1>4, SamePhase, Zenon DEF DataInv, BoundsOK, PhaseOK, Block
<1> QED BY <1>5, <1>7, <1>8, <1>9, Zenon DEF DataInv

LEMMA OptionKeepsData ==
    ASSUME Inv, DataInv, NEW p \in Deployed, StoreOption(p)
    PROVE  DataInv'
<1>1. /\ p \in Reader /\ size[p] \in Nat \ {0}
      /\ \A q \in Reader : GroupSizeOf[q] \in Nat \ {0} /\ GroupSizeOf[q] # Null
  BY DeployedSize, CompactionAssumption, NullIsNoNumber
<1>2. UNCHANGED <<sync, view, waiters, blocks, segments, groups, lock, loop, task, size>>
  BY Zenon DEF StoreOption, syncVars, storeVars, processVars
<1>3. ASSUME NEW key \in {"segment_size", "group_size"}, NEW value \in Nat, Put(key, value),
             StoredSize' = StoredSize \/ StoredSize = Null,
             GroupWidth' = GroupWidth \/ GroupWidth = Null, OptionsOK', DataOK',
             Ends(GetSegmented, StoredSize'), Ends(GetGrouped, GroupWidth')
      PROVE  DataInv'
  <2>1. key \in Key /\ key # "recent" /\ key # "segmented" /\ key # "grouped"
    BY Zenon DEF Key, OptionKey, IngestionKey
  <2>2. \A other \in Key : other # key => kv'[other] = kv[other]
    BY <1>3, <2>1, PutWrites, Zenon DEF Inv
  <2>3. GetSegmented' = GetSegmented /\ GetGrouped' = GetGrouped /\ ChainHead' = ChainHead
    BY <2>1, <2>2, Zenon
       DEF Key, IngestionKey, OptionKey, GetSegmented, GetGrouped, ChainHead, GetRecent, Get
  <2>4. AtMost(GetSegmented, GetSegmented) /\ AtMost(GetGrouped, GetGrouped)
    BY CursorsAreKnown, Zenon DEF Inv
  <2>5. KnowledgeOK'
    BY <1>2, <1>3, <2>1, <2>3, PutKnows, Zenon DEF DataInv
  <2>6. WorkOK'
    BY <1>2, <2>3, <2>4, WorkMoves, Zenon DEF DataInv
  <2>7. PhaseOK' /\ BoundsOK'
    BY <1>2, <2>3, SamePhase, Zenon DEF DataInv, BoundsOK, PhaseOK, Block
  <2> QED BY <1>3, <2>5, <2>6, <2>7, Zenon DEF DataInv
<1>4. CASE Get("segment_size") = Null /\ SetOption("segment_size", Size(p))
  <2>1. StoredSize = Null /\ GroupWidth = Null /\ Put("segment_size", size[p])
    BY <1>4, Zenon DEF StoredSize, GroupWidth, SetOption, Size
  <2>2. "segment_size" \in Key /\ "group_size" \in Key /\ "segmented" \in Key /\ "grouped" \in Key
    BY Zenon DEF Key, OptionKey, IngestionKey
  <2>3. /\ kv'["segment_size"].value = size[p]
        /\ \A other \in Key : other # "segment_size" => kv'[other] = kv[other]
    BY <2>1, <2>2, PutWrites, Zenon DEF Inv
  <2>4. /\ StoredSize' = size[p] /\ StoredGroup' = StoredGroup
        /\ GetSegmented' = GetSegmented /\ GetGrouped' = GetGrouped
    BY <2>2, <2>3, Zenon DEF StoredSize, StoredGroup, GetSegmented, GetGrouped, Get
  <2>5. GetSegmented = Null /\ GetGrouped = Null
    BY <2>1, NullIsNoNumber, Zenon DEF DataInv, KnowledgeOK, Ends
  <2>6. \A q \in Reader : loop[q] \notin {"view", "running"}
    BY <2>1, NullIsNoNumber, Zenon DEF DataInv, OptionsOK, Ready
  <2>7. OptionsOK'
    BY <1>1, <1>2, <2>4, <2>5, <2>6, Zenon DEF DataInv, OptionsOK
  <2>8. DataOK'
    BY <2>4, <2>5, Zenon DEF DataOK, Complete
  <2>9. \A w : Ends(Null, w)
    BY Zenon DEF Ends
  <2> QED BY <1>1, <1>3, <2>1, <2>5, <2>7, <2>8, <2>9, Zenon
<1>5. CASE Get("group_size") = Null /\ SetOption("group_size", GroupSizeOf[p])
  <2>1. StoredGroup = Null /\ GroupWidth = Null /\ Put("group_size", GroupSizeOf[p])
    BY <1>5, Zenon DEF StoredGroup, GroupWidth, SetOption
  <2>2. "segment_size" \in Key /\ "group_size" \in Key /\ "segmented" \in Key /\ "grouped" \in Key
    BY Zenon DEF Key, OptionKey, IngestionKey
  <2>3. /\ kv'["group_size"].value = GroupSizeOf[p]
        /\ \A other \in Key : other # "group_size" => kv'[other] = kv[other]
    BY <2>1, <2>2, PutWrites, Zenon DEF Inv
  <2>4. /\ StoredSize' = StoredSize /\ StoredGroup' = GroupSizeOf[p]
        /\ GetSegmented' = GetSegmented /\ GetGrouped' = GetGrouped
    BY <2>2, <2>3, Zenon DEF StoredSize, StoredGroup, GetSegmented, GetGrouped, Get
  <2>5. GetGrouped = Null
    BY <2>1, NullIsNoNumber, Zenon DEF DataInv, KnowledgeOK, Ends
  <2>6. \A q \in Reader : loop[q] \notin {"view", "running"}
    BY <1>1, <2>1, Zenon DEF DataInv, OptionsOK, Ready
  <2>7. OptionsOK'
    BY <1>1, <1>2, <2>4, <2>6, Zenon DEF DataInv, OptionsOK
  <2>8. DataOK'
    BY <1>2, <2>4, <2>5, Zenon DEF DataInv, DataOK, Finished, Complete
  <2>9. Ends(GetSegmented, StoredSize') /\ Ends(GetGrouped, GroupWidth')
    BY <2>4, <2>5, Zenon DEF DataInv, KnowledgeOK, Ends
  <2>10. GroupSizeOf[p] \in Nat
    BY <1>1
  <2> QED BY <1>1, <1>3, <2>1, <2>4, <2>7, <2>8, <2>9, <2>10, Zenon
<1> QED BY <1>4, <1>5, Zenon DEF StoreOption

LEMMA PutPrunedKeepsData ==
    ASSUME Inv, DataInv, NEW p \in Reader, PutPrunedBlock(p)
    PROVE  DataInv'
<1> DEFINE t == task[p]["prune"]
           pruned == t.first - 1
           new == IF t.first < t.limit THEN [t EXCEPT !.pc = "delete", !.part = Size(p)]
                  ELSE [WaitFor("segmented") EXCEPT !.limit = t.limit]
<1>1. /\ Put("pruned", pruned) /\ Continue(p, "prune", new) /\ t.pc = "put"
      /\ loop[p] = "running" /\ UNCHANGED <<sync, view, waiters, blocks, segments, groups>>
  BY Zenon DEF PutPrunedBlock, PutPruned, At, syncVars, storeVars
<1>2. /\ "prune" \in Task /\ "prune" # "segment" /\ "prune" # "group" /\ "pruned" \in Key
      /\ "pruned" # "recent" /\ "pruned" # "segmented" /\ "pruned" # "grouped"
  BY CompactionAssumption, Zenon DEF Key
<1>3. DOMAIN t = {"pc", "first", "todo", "part", "read", "limit", "on"}
      /\ PruneOK(t, GetGrouped, blocks)
  BY <1>2, TaskIsOK, Zenon DEF TaskOK, GetGrouped, Get
<1>4. new.pc \in TaskPhase /\ t.pc # "waiting"
  <2>1. new.pc \in {"delete", "gap"}
    BY <1>3, Zenon DEF WaitFor, Idle
  <2> HIDE DEF new
  <2> QED BY <1>1, <2>1, Zenon DEF TaskPhase
<1> HIDE DEF new
<1>5. t.first \in Nat /\ StartingBlock < t.first
  BY <1>1, <1>3, Zenon DEF PruneOK
<1>6. pruned \in Nat
  BY <1>5, StartingBlockAssumption
<1> HIDE DEF pruned
<1>7. \A other \in Key : other # "pruned" => kv'[other] = kv[other]
  BY <1>1, <1>2, PutWrites, Zenon DEF Inv
<1>8. /\ \A key \in {"segment_size", "group_size", "segmented", "grouped"} : kv'[key] = kv[key]
      /\ ChainHead' = ChainHead
  BY <1>7, Zenon DEF Key, IngestionKey, OptionKey, ChainHead, GetRecent, Get
<1>9. UNCHANGED <<size, loop>>
  BY <1>1, Zenon DEF Continue
<1>10. /\ OptionsOK' /\ DataOK' /\ StoredSize' = StoredSize /\ GroupWidth' = GroupWidth
       /\ GetSegmented' = GetSegmented /\ GetGrouped' = GetGrouped
       /\ AtMost(GetSegmented, GetSegmented') /\ AtMost(GetGrouped, GetGrouped')
  BY <1>1, <1>8, <1>9, SameEntries, Zenon DEF DataInv
<1>11. Ends(GetSegmented', StoredSize') /\ Ends(GetGrouped', GroupWidth')
  BY <1>10, Zenon DEF DataInv, KnowledgeOK
<1>12. KnowledgeOK'
  BY <1>1, <1>2, <1>6, <1>9, <1>10, <1>11, PutKnows, Zenon DEF DataInv
<1>13. WorkOK'
  BY <1>1, <1>2, <1>10, WorkOfTask, Zenon DEF DataInv
<1>14. PhaseOK'
  BY <1>1, <1>2, <1>4, PhaseOfStep, Zenon DEF DataInv
<1>15. BoundsOK'
  BY <1>1, <1>8, Zenon DEF DataInv, BoundsOK, Block
<1> QED BY <1>10, <1>12, <1>13, <1>14, <1>15, Zenon DEF DataInv

\* A cursor is written: what it takes in has been made.
LEMMA SegmentedKeepsData ==
    ASSUME Inv, DataInv, NEW p \in Reader, PutTxn(p, "segment", "segmented", Last(p)),
           kv["segmented"].revision = task[p]["segment"].read.revision
    PROVE  DataInv'
<1> DEFINE t == task[p]["segment"]
           last == Last(p)
<1>1. /\ Put("segmented", last) /\ Continue(p, "segment", Tick) /\ t.pc = "txn"
      /\ loop[p] = "running" /\ UNCHANGED <<sync, view, waiters, blocks, segments, groups>>
  BY Zenon DEF PutTxn, PutIfUnchanged, PutIfModRevision, At, syncVars, storeVars
<1>2. "segment" \in Task /\ "segmented" \in Key
  BY CompactionAssumption, Zenon DEF Key, IngestionKey
<1>3. AtMost(GetSegmented, GetSegmented') /\ AtMost(GetGrouped, GetGrouped')
  BY <1>2, SegmentedKeepsInv, Zenon DEF StepAdvances, Advances, GetSegmented, GetGrouped, Get
<1>4. /\ kv'["segmented"].value = last
      /\ \A other \in Key : other # "segmented" => kv'[other] = kv[other]
  BY <1>1, <1>2, PutWrites, Zenon DEF Inv
<1>5. /\ GetSegmented' = last /\ GetGrouped' = GetGrouped /\ StoredSize' = StoredSize
      /\ StoredGroup' = StoredGroup /\ GroupWidth' = GroupWidth /\ ChainHead' = ChainHead
  BY <1>4, Zenon DEF Key, IngestionKey, OptionKey, GetSegmented, GetGrouped, StoredSize,
                     StoredGroup, GroupWidth, ChainHead, GetRecent, Get
<1>6. UNCHANGED <<size, loop>>
  BY <1>1, Zenon DEF Continue
<1>7. size[p] \in Nat \ {0} /\ StoredSize = size[p]
  BY <1>1, CompactorFacts, Zenon
<1>8. Follows(t.first, GetSegmented, size[p]) /\ t.first \in Finished(segments)
  BY <1>1, WorkFacts, Zenon DEF SegmentWork, Working
<1>9. t.first \in Nat /\ last = t.first + size[p] - 1
  BY <1>7, <1>8, FollowerIsABlock, Zenon DEF Last, Size
<1>10. last \in Nat
  BY <1>7, <1>9
<1> HIDE DEF last
<1>11. Ends(last, size[p]) /\ Complete(last, size[p], Finished(segments))
  <2>1. GetSegmented = Null \/ GetSegmented \in Nat
    BY CursorsAreKnown, Zenon DEF Inv, AtMost
  <2>2. Complete(GetSegmented, size[p], Finished(segments))
    BY <1>7, Zenon DEF DataInv, DataOK
  <2> DEFINE c == GetSegmented
             first == t.first
             n == size[p]
             done == Finished(segments)
  <2>3. /\ c = Null \/ c \in Nat
        /\ n \in Nat \ {0} /\ Complete(c, n, done)
        /\ Follows(first, c, n) /\ first \in done /\ last = first + n - 1
    BY <1>7, <1>8, <1>9, <2>1, <2>2, Zenon
  <2> HIDE DEF c, first, n, done
  <2>4. Ends(last, n) /\ Complete(last, n, done)
    BY <2>3, CursorCompletes, Zenon
  <2> QED BY <2>4, Zenon DEF n, done
<1>12. OptionsOK'
  BY <1>5, <1>6, Zenon DEF DataInv, OptionsOK, Ready
<1>13. KnowledgeOK'
  <2>1. Ends(GetSegmented', StoredSize') /\ Ends(GetGrouped', GroupWidth')
    BY <1>5, <1>7, <1>11, Zenon DEF DataInv, KnowledgeOK
  <2> QED BY <1>1, <1>2, <1>5, <1>6, <1>10, <2>1, PutKnows, Zenon DEF DataInv
<1>14. DataOK'
  BY <1>1, <1>5, <1>7, <1>11, Zenon DEF DataInv, DataOK, Finished
<1>15. WorkOK'
  <2>1. /\ SegmentWork(Tick, size[p], GetSegmented', segments')
        /\ GroupWork(Tick, GroupSizeOf[p] * size[p], GetGrouped', groups')
    BY IdlePhases, Zenon DEF SegmentWork, GroupWork
  <2>2. segments \subseteq segments' /\ groups \subseteq groups'
    BY <1>1, Zenon
  <2> QED BY <1>1, <1>2, <1>3, <2>1, <2>2, WorkOfTask, Zenon DEF DataInv
<1>16. PhaseOK'
  <2>1. t.pc # "waiting"
    BY <1>1, Zenon
  <2> QED BY <1>1, <1>2, <2>1, IdlePhases, PhaseOfStep, Zenon DEF DataInv
<1>17. BoundsOK'
  BY <1>1, <1>5, Zenon DEF DataInv, BoundsOK, Block
<1> QED BY <1>12, <1>13, <1>14, <1>15, <1>16, <1>17, Zenon DEF DataInv

LEMMA GroupedKeepsData ==
    ASSUME Inv, DataInv, NEW p \in Reader, PutTxn(p, "group", "grouped", LastInGroup(p)),
           kv["grouped"].revision = task[p]["group"].read.revision
    PROVE  DataInv'
<1> DEFINE t == task[p]["group"]
           last == LastInGroup(p)
           w == GroupSizeOf[p] * size[p]
<1>1. /\ Put("grouped", last) /\ Continue(p, "group", Tick) /\ t.pc = "txn"
      /\ loop[p] = "running" /\ UNCHANGED <<sync, view, waiters, blocks, segments, groups>>
  BY Zenon DEF PutTxn, PutIfUnchanged, PutIfModRevision, At, syncVars, storeVars
<1>2. "group" \in Task /\ "grouped" \in Key
  BY CompactionAssumption, Zenon DEF Key, IngestionKey
<1>3. AtMost(GetSegmented, GetSegmented') /\ AtMost(GetGrouped, GetGrouped')
  BY <1>2, GroupedKeepsInv, Zenon DEF StepAdvances, Advances, GetSegmented, GetGrouped, Get
<1>4. /\ kv'["grouped"].value = last
      /\ \A other \in Key : other # "grouped" => kv'[other] = kv[other]
  BY <1>1, <1>2, PutWrites, Zenon DEF Inv
<1>5. /\ GetGrouped' = last /\ GetSegmented' = GetSegmented /\ StoredSize' = StoredSize
      /\ StoredGroup' = StoredGroup /\ GroupWidth' = GroupWidth /\ ChainHead' = ChainHead
  BY <1>4, Zenon DEF Key, IngestionKey, OptionKey, GetSegmented, GetGrouped, StoredSize,
                     StoredGroup, GroupWidth, ChainHead, GetRecent, Get
<1>6. UNCHANGED <<size, loop>>
  BY <1>1, Zenon DEF Continue
<1>7. w \in Nat \ {0} /\ GroupWidth = w
  BY <1>1, CompactorFacts, Zenon
<1>8. Follows(t.first, GetGrouped, w) /\ t.first \in groups
  BY <1>1, WorkFacts, Zenon DEF GroupWork, Working
<1>9. t.first \in Nat /\ last = t.first + w - 1
  BY <1>7, <1>8, FollowerIsABlock, Zenon DEF LastInGroup, BlocksInGroup, Size
<1> HIDE DEF w
<1>10. last \in Nat
  BY <1>7, <1>9
<1> HIDE DEF last
<1>11. Ends(last, w) /\ Complete(last, w, groups)
  <2>1. GetGrouped = Null \/ GetGrouped \in Nat
    BY CursorsAreKnown, Zenon DEF Inv, AtMost
  <2>2. Complete(GetGrouped, w, groups)
    BY <1>7, Zenon DEF DataInv, DataOK
  <2> DEFINE c == GetGrouped
             first == t.first
             n == w
             done == groups
  <2>3. /\ c = Null \/ c \in Nat
        /\ n \in Nat \ {0} /\ Complete(c, n, done)
        /\ Follows(first, c, n) /\ first \in done /\ last = first + n - 1
    BY <1>7, <1>8, <1>9, <2>1, <2>2, Zenon
  <2> HIDE DEF c, first, n, done
  <2>4. Ends(last, n) /\ Complete(last, n, done)
    BY <2>3, CursorCompletes, Zenon
  <2> QED BY <2>4, Zenon DEF n, done
<1>12. OptionsOK'
  BY <1>5, <1>6, <1>7, Zenon DEF DataInv, OptionsOK, Ready
<1>13. KnowledgeOK'
  <2>1. Ends(GetSegmented', StoredSize') /\ Ends(GetGrouped', GroupWidth')
    BY <1>5, <1>7, <1>11, Zenon DEF DataInv, KnowledgeOK
  <2> QED BY <1>1, <1>2, <1>5, <1>6, <1>10, <2>1, PutKnows, Zenon DEF DataInv
<1>14. DataOK'
  BY <1>1, <1>5, <1>7, <1>11, Zenon DEF DataInv, DataOK, Finished
<1>15. WorkOK'
  <2>1. /\ SegmentWork(Tick, size[p], GetSegmented', segments')
        /\ GroupWork(Tick, GroupSizeOf[p] * size[p], GetGrouped', groups')
    BY IdlePhases, Zenon DEF SegmentWork, GroupWork
  <2>2. segments \subseteq segments' /\ groups \subseteq groups'
    BY <1>1, Zenon
  <2> QED BY <1>1, <1>2, <1>3, <2>1, <2>2, WorkOfTask, Zenon DEF DataInv
<1>16. PhaseOK'
  <2>1. t.pc # "waiting"
    BY <1>1, Zenon
  <2> QED BY <1>1, <1>2, <2>1, IdlePhases, PhaseOfStep, Zenon DEF DataInv
<1>17. BoundsOK'
  BY <1>1, <1>5, Zenon DEF DataInv, BoundsOK, Block
<1> QED BY <1>12, <1>13, <1>14, <1>15, <1>16, <1>17, Zenon DEF DataInv

LEMMA GrowthKeepsData ==
    ASSUME Inv, DataInv, ChainGrows
    PROVE  DataInv'
<1> DEFINE pointer == Pointer(IF GetRecent = Null THEN 1 ELSE GetRecent.key + 1, ChainHead + 1)
           gone == IF kv["pending"] = Missing THEN <<>> ELSE <<Event("pending", Null)>>
           e == Event("recent", pointer)
           events == <<e>> \o gone
<1>1. /\ kv' = [kv EXCEPT !["recent"] = Written("recent", pointer), !["pending"] = Missing]
      /\ Send(events) /\ blocks' = blocks \cup {ChainHead + 1} /\ ChainHead < MaxBlock
      /\ UNCHANGED <<sync, view, waiters, segments, groups, lock, loop, task, size>>
  BY Zenon DEF ChainGrows, IngesterPublishes, PutRecent, PutAndDelete, ChainHead, processVars
<1>2. DOMAIN kv = Key /\ ChainHead \in Nat /\ GetRecent \in PointerType
  BY CursorsAreKnown, Zenon DEF Inv, KvOK
<1>3. pointer \in PointerType /\ pointer.head = ChainHead + 1
  BY <1>2 DEF PointerType, Pointer
<1> HIDE DEF pointer
<1>4. /\ kv'["recent"].value = pointer
      /\ \A other \in Key : other \notin {"recent", "pending"} => kv'[other] = kv[other]
  BY <1>1, <1>2, Zenon DEF Written, Key, IngestionKey
<1>5. /\ \A key \in {"segment_size", "group_size", "segmented", "grouped"} : kv'[key] = kv[key]
      /\ ChainHead' = ChainHead + 1
  BY <1>3, <1>4, Zenon DEF Key, IngestionKey, OptionKey, ChainHead, GetRecent, Get
<1>6. /\ OptionsOK' /\ DataOK' /\ StoredSize' = StoredSize /\ GroupWidth' = GroupWidth
      /\ GetSegmented' = GetSegmented /\ GetGrouped' = GetGrouped
      /\ AtMost(GetSegmented, GetSegmented') /\ AtMost(GetGrouped, GetGrouped')
  BY <1>1, <1>5, SameEntries, Zenon DEF DataInv
<1>7. KnowledgeOK'
  <2> DEFINE Other(x) == x.key \notin {"segmented", "grouped"}
             d == Event("pending", Null)
  <2>1. e \in EventType /\ Other(e) /\ d \in EventType /\ Other(d)
    BY <1>3, Zenon DEF Event, EventType, IngestionKey
  <2>2. gone = <<>> \/ gone = <<d>>
    BY Zenon
  <2> HIDE DEF e, d, gone, Other
  <2>3. gone \in Seq(EventType) /\ \A i \in 1 .. Len(gone) : Other(gone[i])
    <3>1. CASE gone = <<>>
      BY <3>1
    <3>2. CASE gone = <<d>>
      <4>1. gone \in Seq(EventType) /\ Len(gone) = 1 /\ gone[1] = d
        BY <2>1, <3>2
      <4>2. \A i \in 1 .. 1 : i = 1
        OBVIOUS
      <4> QED BY <2>1, <4>1, <4>2, Zenon
    <3> QED BY <2>2, <3>1, <3>2, Zenon
  <2>4. events \in Seq(EventType) /\ \A i \in 1 .. Len(events) : Other(events[i])
    BY <2>1, <2>3
  <2> HIDE DEF events
  <2>6. Ends(GetSegmented', StoredSize') /\ Ends(GetGrouped', GroupWidth')
    BY <1>6, Zenon DEF DataInv, KnowledgeOK
  <2> QED BY <1>1, <1>6, <2>4, <2>6, SendKnows, Zenon DEF DataInv, Other
<1>8. WorkOK'
  BY <1>1, <1>6, WorkMoves, Zenon DEF DataInv
<1>9. BoundsOK'
  <2>1. ChainHead \in Block
    BY Zenon DEF DataInv, BoundsOK
  <2>2. ChainHead + 1 \in Block
    BY <1>1, <2>1, StartingBlockAssumption, ViewAssumption DEF Block
  <2> QED BY <1>1, <1>5, <2>2, Zenon DEF DataInv, BoundsOK, Block
<1>10. PhaseOK'
  BY <1>1, SamePhase, Zenon DEF DataInv, PhaseOK
<1> QED BY <1>6, <1>7, <1>8, <1>9, <1>10, Zenon DEF DataInv

LEMMA NextKeepsData == Inv /\ DataInv /\ [CompactionNext]_compactionVars => DataInv'
<1> SUFFICES ASSUME Inv, DataInv, [CompactionNext]_compactionVars PROVE DataInv'
  BY Zenon
<1>1. CASE UNCHANGED compactionVars
  <2>1. /\ kv' = kv /\ UNCHANGED <<sync, view, inbox, waiters, blocks, segments, groups>>
        /\ UNCHANGED <<lock, loop, task, size>>
    BY <1>1, Zenon DEF compactionVars, stateVars, syncVars, storeVars, processVars
  <2>2. OptionsOK' /\ KnowledgeOK' /\ DataOK' /\ WorkOK' /\ BoundsOK'
    BY <2>1, SameOptions, SameKnowledge, SameData, SameWork, SameBounds, Zenon DEF DataInv
  <2>3. PhaseOK'
    BY <2>1, SamePhase, Zenon DEF DataInv, PhaseOK
  <2> QED BY <2>2, <2>3, Zenon DEF DataInv
<1>2. CASE ChainGrows \/ ChainIsFinalized \/ LeaseExpires \/ OrphanLeaseExpires
  BY <1>2, GrowthKeepsData, FinalizedKeepsData, LeaseKeepsData, Zenon
<1>3. ASSUME NEW p \in Deployed, ViewStep(p) \/ ViewBreaks(p) PROVE DataInv'
  BY <1>3, DeployedSize, ViewStepKeepsData, Zenon
<1>4. ASSUME NEW p \in Deployed, LoopStep(p) \/ RequestFails(p) \/ Crash(p) PROVE DataInv'
  BY <1>4, LoopKeepsData, OptionKeepsData, Zenon DEF LoopStep
<1>5. ASSUME NEW p \in Deployed, NEW t \in left.tasks, TaskStep(p, t) PROVE DataInv'
  <2>1. p \in Reader /\ t \in Task
    BY DeployedSize, Zenon DEF Inv, TasksOK
  <2>2. CASE StartWaiting(p, t) \/ Wake(p, t)
    BY <2>1, <2>2, WaitingKeepsData, Zenon
  <2>3. CASE SegmentTick(p) \/ GroupTick(p) \/ UploadFragment(p) \/ UploadGroup(p)
    BY <2>1, <2>3, TickKeepsData, UploadKeepsData, Zenon
  <2>4. CASE (\E block \in Block : ReadBlock(p, block)) \/ \E first \in Block : ReadIndex(p, first)
    BY <2>1, <2>4, ReadingKeepsData, Zenon
  <2>5. CASE PutSegmented(p)
    BY <2>1, <2>5, RetryKeepsData, SegmentedKeepsData, Zenon DEF PutSegmented
  <2>6. CASE PutGrouped(p)
    BY <2>1, <2>6, RetryKeepsData, GroupedKeepsData, Zenon DEF PutGrouped
  <2>7. CASE PruneTick(p) \/ ReadPruned(p) \/ DeleteBlock(p) \/ PutPrunedBlock(p)
    BY <2>1, <2>7, PruneKeepsData, PutPrunedKeepsData, Zenon
  <2> QED BY <1>5, <2>2, <2>3, <2>4, <2>5, <2>6, <2>7, Zenon DEF TaskStep
<1> QED BY <1>1, <1>2, <1>3, <1>4, <1>5, Zenon DEF CompactionNext

-----------------------------------------------------------------------------
(* The first states.                                                       *)

\* What n segments, or groups, of w blocks that begin the chain leave.
LEMMA MadeAtStart ==
    ASSUME NEW n \in Nat, NEW w \in Nat \ {0}, NEW c, NEW done,
           n = 0 => c = Null, n > 0 => c \in Nat /\ c = StartingBlock + n * w - 1,
           \A i \in 0 .. n - 1 : FirstOf(i, w) \in done
    PROVE  Ends(c, w) /\ Complete(c, w, done)
<1>1. CASE n = 0
  BY <1>1, Zenon DEF Ends, Complete
<1>2. CASE n > 0
  <2>1. n * w \in Nat
    OBVIOUS
  <2>2. c \in Nat /\ c + 1 = FirstOf(n, w)
    BY <1>2, <2>1, StartingBlockAssumption DEF FirstOf
  <2>3. ASSUME NEW m \in Nat, FirstOf(m + 1, w) <= c + 1
        PROVE  FirstOf(m, w) \in done
    <3>1. m + 1 \in Nat
      OBVIOUS
    <3>2. m + 1 <= n
      BY <2>2, <2>3, <3>1, FirstOrder, Zenon
    <3>3. m \in 0 .. n - 1
      BY <3>2
    <3> QED BY <3>3, Zenon
  <2> QED BY <2>2, <2>3, Zenon DEF Ends, Complete
<1> QED BY <1>1, <1>2

\* The segments, or groups, of w blocks before one that begins below the head.
LEMMA StartsInBounds ==
    ASSUME NEW n \in Nat, NEW w \in Nat \ {0}, NEW i \in 0 .. n - 1, NEW h \in Nat, h <= MaxBlock,
           FirstOf(n, w) <= h
    PROVE  FirstOf(i, w) \in Block
<1>1. i \in Nat /\ i <= n
  OBVIOUS
<1>2. FirstOf(i, w) <= FirstOf(n, w) /\ FirstOf(i, w) \in Nat /\ FirstOf(n, w) \in Nat
      /\ FirstOf(i, w) >= StartingBlock
  BY <1>1, FirstOrder, FirstIsABlock, Zenon
<1> QED BY <1>2, StartingBlockAssumption, ViewAssumption DEF Block

LEMMA InitIsData == CompactionInit => DataInv
<1> SUFFICES ASSUME CompactionInit PROVE DataInv
  BY Zenon
<1> PICK s \in Scenario : Start(s)
  BY Zenon DEF CompactionInit
<1> DEFINE S == SegmentSize
           W == SegmentSize * GroupSize
           segmented == CursorAfter(s.segments, S)
           grouped == CursorAfter(s.groups, W)
           stored == s.segments > 0 \/ s.warm
           made == {Fragment[i] : i \in DOMAIN Fragment}
<1>1. /\ s.head \in Nat /\ StartingBlock <= s.head /\ s.head <= MaxBlock
      /\ s.segments \in Nat /\ s.groups \in Nat
      /\ SegmentSize \in Nat \ {0} /\ GroupSize \in Nat \ {0}
      /\ StartingBlock + s.segments * SegmentSize <= s.head
      /\ s.groups > 0 => s.groups * GroupSize < s.segments
      /\ s.size \in [Reader -> (Nat \ {0}) \cup {Null}]
  BY CompactionAssumption, Zenon
<1>2. W \in Nat \ {0} /\ W = GroupSize * SegmentSize
  BY <1>1
<1>3. GetRecent.head = s.head
  BY Zenon DEF Start, GetRecent, Get, Key, IngestionKey, OptionKey, Pointer
<1>4. /\ GetSegmented = segmented /\ GetGrouped = grouped
      /\ StoredSize = IF stored THEN S ELSE Null
      /\ StoredGroup = IF stored THEN GroupSize ELSE Null
  BY Zenon DEF Start, GetSegmented, GetGrouped, StoredSize, StoredGroup,
               Get, Key, IngestionKey, OptionKey, Missing
<1>5. /\ inbox = [r \in Reader |-> <<>>]
      /\ sync = [r \in Reader |-> IF s.warm THEN [SyncStart EXCEPT !.pc = "idle"] ELSE SyncStart]
      /\ view = [r \in Reader |->
                   IF s.warm THEN NewChainView([finalized |-> s.head, segmented |-> segmented,
                                                grouped |-> grouped], Pointer(1, s.head))
                   ELSE Null]
      /\ waiters = {} /\ lock = Null
      /\ blocks = StartingBlock .. s.head
      /\ segments = {StartingBlock + i * SegmentSize : i \in 0 .. s.segments - 1} \X made
      /\ groups = {StartingBlock + i * SegmentSize * GroupSize : i \in 0 .. s.groups - 1}
      /\ loop = [p \in Reader |-> "lock"]
      /\ task = [p \in Reader |-> [t \in Task |-> Idle]]
  BY Zenon DEF Start
<1>6. /\ s.segments = 0 => segmented = Null
      /\ s.segments > 0 => /\ segmented \in Nat
                           /\ segmented = StartingBlock + s.segments * S - 1
      /\ s.groups = 0 => grouped = Null
      /\ s.groups > 0 => grouped \in Nat /\ grouped = StartingBlock + s.groups * W - 1
  BY <1>1, <1>2, CursorAfterBlocks, Zenon
<1>7. s.groups > 0 => s.segments > 0
  <2>1. s.groups * GroupSize \in Nat
    BY <1>1
  <2> QED BY <1>1, <2>1
<1>8. s.groups > 0 => FirstOf(s.groups, W) <= s.head
  <2> SUFFICES ASSUME s.groups > 0 PROVE FirstOf(s.groups, W) <= s.head
    BY Zenon
  <2> DEFINE a == s.groups * GroupSize
  <2>1. s.groups * W = a * S
    BY <1>1
  <2>2. a \in Nat /\ a < s.segments
    BY <1>1
  <2>3. a * S < s.segments * S /\ a * S \in Nat /\ s.segments * S \in Nat
    <3> HIDE DEF a
    <3> QED BY <1>1, <2>2
  <2> HIDE DEF a, W, S
  <2> QED BY <1>1, <2>1, <2>3, StartingBlockAssumption DEF FirstOf, S
<1>9. \A i \in 0 .. s.groups - 1 : StartingBlock + i * SegmentSize * GroupSize = FirstOf(i, W)
  <2>1. ASSUME NEW i \in 0 .. s.groups - 1
        PROVE  i * SegmentSize * GroupSize = i * W
    BY <1>1
  <2> QED BY <2>1, Zenon DEF FirstOf
<1>10. s.groups = 0 \/ s.groups > 0
  BY <1>1
<1>11. s.segments = 0 \/ s.segments > 0
  BY <1>1
<1> HIDE DEF W, S, segmented, grouped, made
<1>12. segments = {FirstOf(i, S) : i \in 0 .. s.segments - 1} \X made
  BY <1>5, Zenon DEF FirstOf, S
<1>13. groups = {FirstOf(i, W) : i \in 0 .. s.groups - 1}
  BY <1>5, <1>9, Zenon
<1>14. /\ \A i \in 0 .. s.segments - 1 : FirstOf(i, S) \in Finished(segments)
       /\ \A i \in 0 .. s.groups - 1 : FirstOf(i, W) \in groups
  <2>1. ASSUME NEW i \in 0 .. s.segments - 1
        PROVE  FirstOf(i, S) \in Finished(segments)
    <3>1. i \in Nat
      OBVIOUS
    <3>2. FirstOf(i, S) \in Nat
      BY <1>1, <3>1, FirstIsABlock, Zenon DEF S
    <3>3. \A f \in DOMAIN Fragment : <<FirstOf(i, S), Fragment[f]>> \in segments
      BY <1>12, Zenon DEF made
    <3> QED BY <3>2, <3>3, Zenon DEF Finished
  <2> QED BY <1>13, <2>1, Zenon
<1>15. /\ Ends(segmented, S) /\ Complete(segmented, S, Finished(segments))
       /\ Ends(grouped, W) /\ Complete(grouped, W, groups)
  <2>1. S \in Nat \ {0}
    BY <1>1, Zenon DEF S
  <2>2. Ends(segmented, S) /\ Complete(segmented, S, Finished(segments))
    BY <1>1, <1>6, <1>14, <2>1, MadeAtStart, Zenon
  <2>3. Ends(grouped, W) /\ Complete(grouped, W, groups)
    BY <1>1, <1>2, <1>6, <1>14, MadeAtStart, Zenon
  <2> QED BY <2>2, <2>3, Zenon
<1>16. stored => StoredSize = S /\ GroupWidth = W /\ StoredGroup = GroupSize
  BY <1>1, <1>2, <1>4, NullIsNoNumber, Zenon DEF GroupWidth, S
<1>17. ~stored => segmented = Null /\ grouped = Null
  BY <1>6, <1>7, <1>10, <1>11, Zenon
<1>18. \A w : Ends(Null, w)
  BY Zenon DEF Ends
<1>19. OptionsOK
  <2>1. StoredSize = Null \/ StoredSize \in Nat \ {0}
    BY <1>1, <1>4, Zenon DEF S
  <2>2. StoredGroup = Null \/ StoredGroup \in Nat \ {0}
    BY <1>1, <1>4, Zenon
  <2> QED BY <1>4, <1>5, <2>1, <2>2, Zenon DEF OptionsOK
<1>20. /\ Ends(segmented, StoredSize) /\ Ends(grouped, GroupWidth)
       /\ Complete(segmented, StoredSize, Finished(segments))
       /\ Complete(grouped, GroupWidth, groups)
  <2>1. \A w, done : Complete(Null, w, done)
    BY Zenon DEF Complete
  <2> QED BY <1>15, <1>16, <1>17, <1>18, <2>1, Zenon
<1>21. KnowledgeOK
  <2> SUFFICES ASSUME NEW p \in Reader
               PROVE  KnowsEnds(sync[p], inbox[p], view[p], loop[p],
                                StoredSize, GroupWidth)
    BY <1>4, <1>20, Zenon DEF KnowledgeOK
  <2>1. sync[p].segmented = Null /\ sync[p].grouped = Null /\ loop[p] # "running"
    BY <1>5, Zenon DEF SyncStart
  <2>2. \A i \in 1 .. Len(inbox[p]) : FALSE
    BY <1>5
  <2>3. CASE s.warm
    <3>1. view[p].segmented = segmented /\ view[p].grouped = grouped
      BY <1>5, <2>3, Zenon DEF NewChainView
    <3> QED BY <1>18, <1>20, <2>1, <2>2, <3>1, Zenon DEF KnowsEnds
  <2>4. CASE ~s.warm
    <3>1. view[p] = Null /\ sync[p].pc = "starting"
      BY <1>5, <2>4, Zenon DEF SyncStart
    <3> QED BY <1>18, <2>1, <2>2, <3>1, Zenon DEF KnowsEnds, HasView
  <2> QED BY <2>3, <2>4, Zenon
<1>22. DataOK
  BY <1>4, <1>20, Zenon DEF DataOK
<1>23. WorkOK
  <2>1. "segment" \in Task /\ "group" \in Task
    BY CompactionAssumption, Zenon
  <2>2. \A p \in Reader : task[p]["segment"] = Idle /\ task[p]["group"] = Idle
    BY <1>5, <2>1, Zenon
  <2> QED BY <2>2, IdlePhases, Zenon DEF WorkOK, SegmentWork, GroupWork
<1>24. PhaseOK
  <2>1. \A p \in Reader : loop[p] = "lock" /\ \A t \in Task : task[p][t] = Idle
    BY <1>5, Zenon
  <2>2. \A p \in Reader : PhaseOf(loop[p], task[p])
    BY <2>1, IdlePhases, Zenon DEF PhaseOf, LoopPhase
  <2> QED BY <1>5, <2>2, Zenon DEF PhaseOK
<1>25. BoundsOK
  <2>1. ChainHead \in Block /\ blocks \subseteq Block
    BY <1>1, <1>3, <1>5, StartingBlockAssumption, ViewAssumption DEF ChainHead, Block
  <2>2. \A i \in 0 .. s.groups - 1 : FirstOf(i, W) \in Block
    <3>1. CASE s.groups > 0
      BY <1>1, <1>2, <1>8, <3>1, StartsInBounds, Zenon
    <3>2. CASE s.groups = 0
      BY <3>2
    <3> QED BY <1>10, <3>1, <3>2, Zenon
  <2>3. \A i \in 0 .. s.segments - 1 : FirstOf(i, S) \in Block
    BY <1>1, StartsInBounds, Zenon DEF FirstOf, S
  <2>4. \A x \in segments : x[1] \in Block
    BY <1>12, <2>3, Zenon
  <2> QED BY <1>13, <2>1, <2>2, <2>4, Zenon DEF BoundsOK
<1> QED BY <1>19, <1>21, <1>22, <1>23, <1>24, <1>25, Zenon DEF DataInv

-----------------------------------------------------------------------------
(* The theorems.                                                           *)

LEMMA DataInvHolds == CompactionSpec => []DataInv
  BY InvHolds, InitIsData, NextKeepsData, PTL DEF CompactionSpec

\* The number of the segment, or group, of w blocks that a block is in.
LEMMA NumberOf ==
    ASSUME NEW x \in Nat, NEW w \in Nat \ {0}
    PROVE  x \div w \in Nat /\ (x \div w) * w <= x /\ x < (x \div w + 1) * w
<1> DEFINE q == x \div w
           r == x % w
<1>1. w \in Nat /\ w > 0
  OBVIOUS
<1>2. q \in Nat /\ r \in 0 .. w - 1 /\ x = w * q + r
  BY <1>1
<1> HIDE DEF q, r
<1>3. (q + 1) * w = w * q + w /\ q * w = w * q /\ w * q \in Nat
  BY <1>2
<1>4. q * w <= x /\ x < (q + 1) * w
  <2> DEFINE k == w * q
  <2> HIDE DEF k
  <2>1. q * w = k /\ (q + 1) * w = k + w /\ x = k + r /\ k \in Nat
    BY <1>2, <1>3, Zenon DEF k
  <2>2. k <= x /\ x < k + w
    BY <1>1, <1>2, <2>1
  <2> QED BY <2>1, <2>2, Zenon
<1> QED BY <1>2, <1>4, Zenon DEF q

\* A segment ends in the group it is in.
LEMMA SegmentInGroup ==
    ASSUME NEW x \in Nat, NEW w \in Nat \ {0}, NEW g \in Nat \ {0}
    PROVE  FirstOf(x \div w + 1, w) <= FirstOf(x \div (w * g) + 1, w * g)
<1> DEFINE n == x \div w
           m == x \div (w * g)
<1>1. w * g \in Nat \ {0}
  OBVIOUS
<1>2. n \in Nat /\ n * w <= x /\ m \in Nat /\ x < (m + 1) * (w * g)
  BY <1>1, NumberOf, Zenon
<1> HIDE DEF n, m
<1> DEFINE k == (m + 1) * g
<1>3. k \in Nat /\ (m + 1) * (w * g) = k * w
  BY <1>2
<1> HIDE DEF k
<1>4. n * w < k * w /\ n * w \in Nat /\ k * w \in Nat
  BY <1>2, <1>3
<1>5. n < k
  BY <1>2, <1>3, <1>4
<1>6. FirstOf(n + 1, w) <= FirstOf(k, w)
  BY <1>2, <1>3, <1>5, FirstOrder
<1>7. FirstOf(k, w) = FirstOf(m + 1, w * g)
  BY <1>3, Zenon DEF FirstOf
<1> QED BY <1>6, <1>7, Zenon DEF n, m

\* A segment, or group, below a cursor that a view knows is complete.
LEMMA KnownIsComplete ==
    ASSUME NEW x \in Nat, NEW w \in Nat \ {0}, NEW c, NEW v \in Nat, NEW done,
           Complete(c, w, done), AtMost(v, c), FirstOf(x \div w, w) + (w - 1) <= v
    PROVE  FirstOf(x \div w, w) \in done
<1> DEFINE n == x \div w
<1>1. n \in Nat
  BY NumberOf, Zenon
<1> HIDE DEF n
<1>2. FirstOf(n + 1, w) = FirstOf(n, w) + w /\ FirstOf(n, w) \in Nat
  BY <1>1, FirstIsABlock, Zenon
<1>3. c # Null /\ c \in Nat /\ v <= c
  BY NullIsNoNumber, Zenon DEF AtMost
<1>4. FirstOf(n + 1, w) <= c + 1
  BY <1>2, <1>3 DEF n
<1> QED BY <1>1, <1>3, <1>4, Zenon DEF Complete, n

\* The state of the compactors has its type: what is stored begins in the
\* chain, a task runs exactly while the loop of its process does, and every
\* waiter is a task that waits, whatever fails, crashes or loses its lease
\* (compaction/mod.rs 41-124, segment.rs 97-117, group.rs 109-122).
THEOREM CompactionTypes == CompactionSpec => []CompactionTypeOK
<1>1. DataInv => CompactionTypeOK
  <2> SUFFICES ASSUME DataInv PROVE CompactionTypeOK
    BY Zenon
  <2>1. /\ blocks \subseteq Block /\ groups \subseteq Block
        /\ \A s \in segments : s[1] \in Block
    BY Zenon DEF DataInv, BoundsOK
  <2>2. /\ lock \in Reader \cup {Null}
        /\ \A w \in waiters : task[w.reader][w.task].pc = "waiting"
    BY Zenon DEF DataInv, PhaseOK
  <2>3. ASSUME NEW p \in Reader
        PROVE  /\ loop[p] \in {"lock", "options", "view", "running", "unlock"}
               /\ \A t \in Task :
                     /\ task[p][t].pc \in {"off", "tick", "gap", "waiting", "read", "upload",
                                            "put", "txn", "pruned", "delete"}
                     /\ task[p][t].pc = "off" <=> loop[p] # "running"
    <3>1. PhaseOf(loop[p], task[p])
      BY Zenon DEF DataInv, PhaseOK
    <3> QED BY <3>1, Zenon DEF PhaseOf, LoopPhase, TaskPhase
  <2> QED BY <2>1, <2>2, <2>3, Zenon DEF CompactionTypeOK
<1> QED BY <1>1, DataInvHolds, PTL

\* What a reader computes with the stored sizes from its own view, however
\* late, is in the store: the segments and groups the view has, with all their
\* fragments, for every segment and group size, chain and number of processes,
\* while compactors fail, crash, are started with another size or run side by
\* side (view.rs 284-324, segment.rs 60-303, group.rs 60-246, mod.rs 41-124).
THEOREM ReadableData == CompactionSpec => []ReadableSegmentsExist
<1>1. Inv /\ DataInv => ReadableSegmentsExist
  <2> DEFINE S == Get("segment_size")
             G == Get("group_size")
  <2> SUFFICES ASSUME Inv, DataInv, NEW p \in Reader, view[p] # Null,
                      NEW block \in StartingBlock .. GetHead(view[p])
               PROVE  /\ HasSegmentForBlock(view[p], S, block) =>
                            \A i \in DOMAIN Fragment :
                                <<GetSegmentStartBlock(S, block), Fragment[i]>> \in segments
                      /\ HasGroupForBlock(view[p], S, G, block) =>
                            /\ GetGroupStartBlock(S, G, block) \in groups
                            /\ \A i \in DOMAIN Fragment :
                                <<GetSegmentStartBlock(S, block), Fragment[i]>> \in segments
    BY Zenon DEF ReadableSegmentsExist
  <2> DEFINE v == view[p]
             x == block - StartingBlock
             first == GetSegmentStartBlock(S, block)
  <2>1. x \in Nat
    BY StartingBlockAssumption
  <2>2. /\ Ends(v.segmented, StoredSize) /\ Ends(v.grouped, GroupWidth)
        /\ Complete(GetSegmented, StoredSize, Finished(segments))
        /\ Complete(GetGrouped, GroupWidth, groups)
    BY Zenon DEF DataInv, KnowledgeOK, KnowsEnds, DataOK
  <2>3. AtMost(v.segmented, GetSegmented) /\ AtMost(v.grouped, GetGrouped)
    BY Zenon DEF Inv, ReadersOK, ReaderOK, ViewOK
  <2>4. S = StoredSize /\ G = StoredGroup
    BY Zenon DEF StoredSize, StoredGroup
  <2>5. first = FirstOf(x \div S, S) /\ GetSegmentEndBlock(S, block) = first + (S - 1)
    BY Zenon DEF GetSegmentStartBlock, GetSegmentEndBlock, FirstOf
  <2> HIDE DEF S, G, v, x
  <2>6. first \in Finished(segments) =>
            \A i \in DOMAIN Fragment : <<first, Fragment[i]>> \in segments
    BY Zenon DEF Finished
  <2>7. ASSUME HasSegmentForBlock(v, S, block)
        PROVE  first \in Finished(segments)
    <3>1. v.segmented # Null /\ FirstOf(x \div S, S) + (S - 1) <= v.segmented
      BY <2>5, <2>7, Zenon DEF HasSegmentForBlock
    <3>2. S \in Nat \ {0} /\ v.segmented \in Nat
      BY <2>2, <2>4, <3>1, Zenon DEF Ends
    <3> QED BY <2>1, <2>2, <2>3, <2>4, <2>5, <3>1, <3>2, KnownIsComplete, Zenon
  <2>8. ASSUME HasGroupForBlock(v, S, G, block)
        PROVE  GetGroupStartBlock(S, G, block) \in groups /\ first \in Finished(segments)
    <3>1. v.grouped # Null /\ GetGroupEndBlock(S, G, block) <= v.grouped
      BY <2>8, Zenon DEF HasGroupForBlock
    <3>2. GroupWidth \in Nat \ {0} /\ v.grouped \in Nat
      BY <2>2, <2>4, <3>1, Zenon DEF Ends
    <3>3. S # Null /\ G # Null
      BY <2>4, <3>2, NullIsNoNumber, Zenon DEF GroupWidth
    <3>4. S \in Nat \ {0} /\ GetGrouped \in Nat /\ v.grouped <= GetGrouped
      BY <2>3, <2>4, <3>1, <3>3, Zenon DEF DataInv, OptionsOK, AtMost
    <3>5. G \in Nat \ {0}
      BY <2>4, <3>3, Zenon DEF DataInv, OptionsOK
    <3> DEFINE W == S * G
               start == FirstOf(x \div W, W)
    <3>6. GroupWidth = W /\ W \in Nat \ {0}
      <4>1. G * S = S * G
        BY <3>4, <3>5
      <4> QED BY <2>4, <3>2, <3>3, <4>1, Zenon DEF GroupWidth
    <3>7. GetGroupStartBlock(S, G, block) = start /\ start + (W - 1) <= v.grouped
      BY <3>1, Zenon DEF GetGroupStartBlock, GetGroupEndBlock, FirstOf, x
    <3>8. start \in groups
      <4> HIDE DEF W
      <4> QED BY <2>1, <2>2, <2>3, <2>4, <3>2, <3>6, <3>7, KnownIsComplete, Zenon
    <3>9. GetSegmented \in Nat /\ GetGrouped < GetSegmented
      BY <3>4, NullIsNoNumber, Zenon DEF Inv, KvOK
    <3>10. FirstOf(x \div S + 1, S) <= FirstOf(x \div W + 1, W)
      BY <2>1, <3>4, <3>5, SegmentInGroup, Zenon
    <3>11. /\ FirstOf(x \div W + 1, W) = start + W /\ start \in Nat
           /\ FirstOf(x \div S + 1, S) = first + S /\ first \in Nat
      <4> HIDE DEF W, first
      <4> QED BY <2>1, <2>5, <3>4, <3>6, NumberOf, FirstIsABlock, Zenon
    <3> HIDE DEF W, start, first
    <3>12. first + (S - 1) <= GetSegmented
      BY <3>2, <3>4, <3>6, <3>7, <3>9, <3>10, <3>11
    <3>13. AtMost(GetSegmented, GetSegmented)
      BY CursorsAreKnown, Zenon DEF Inv
    <3>14. first \in Finished(segments)
      BY <2>1, <2>2, <2>4, <2>5, <3>4, <3>9, <3>12, <3>13, KnownIsComplete, Zenon
    <3> QED BY <3>7, <3>8, <3>14, Zenon
  <2> QED BY <2>6, <2>7, <2>8, Zenon DEF v
<1> QED BY <1>1, InvHolds, DataInvHolds, PTL

=============================================================================

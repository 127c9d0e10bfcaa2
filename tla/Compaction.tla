----------------------------- MODULE Compaction -----------------------------
(***************************************************************************)
(* Compaction (common/src/compaction): every process with compaction       *)
(* enabled competes for a lock; the one that has it runs three tasks until *)
(* one of them fails.  The segment task packs finalized blocks into        *)
(* segments, the group task packs the indexes of segments into groups, the *)
(* prune task deletes the blocks below the grouped cursor.                 *)
(*                                                                         *)
(* The tasks decide from the process's chain view, which follows etcd with *)
(* a delay (ChainViewSync), and write their progress to etcd.  A block is  *)
(* its number: only finalized blocks are touched.  A segment object is     *)
(* written fragment by fragment.                                           *)
(***************************************************************************)
EXTENDS ChainViewSync

CONSTANTS
    SegmentSize,     \* the segment_size and
    GroupSize,       \* the group_size in etcd, where a scenario has them stored
    GroupSizeOf,     \* per process, the group size it is started with
    Scenario         \* the initial states: records
                     \*   head      the chain when compaction is enabled
                     \*   warm      every process has its view and follows the chain
                     \*   segments  how many segments have been made
                     \*   groups    how many groups have been made
                     \*   size      per process the segment size it is started with,
                     \*             Null for a process that is not deployed
                     \*   tasks     the tasks that are scheduled
                     \* and model bounds, how often these may happen:
                     \*   expiries  leases expire unnoticed
                     \*   failures  requests fail, watches break or processes crash
                     \*   missed    notifications find a task on its way to its
                     \*             wait; Null for any number

ASSUME CompactionAssumption ==
    /\ SegmentSize \in Nat \ {0}
    /\ GroupSize \in Nat \ {0}
    /\ GroupSizeOf \in [Reader -> Nat \ {0}]
    /\ Task = {"segment", "group", "prune"}
    /\ \A s \in Scenario :
          /\ s.warm \in BOOLEAN
          /\ s.head \in Nat /\ s.head >= StartingBlock /\ s.head <= MaxBlock
          /\ s.segments \in Nat /\ s.groups \in Nat
          /\ StartingBlock + s.segments * SegmentSize <= s.head
          /\ s.groups > 0 => s.groups * GroupSize < s.segments
          /\ s.size \in [Reader -> (Nat \ {0}) \cup {Null}]
          /\ s.tasks \subseteq Task
          /\ s.expiries \in Nat /\ s.failures \in Nat
          /\ s.missed \in Nat \cup {Null}

VARIABLES
    blocks,          \* the blocks whose objects are stored
    segments,        \* the segment objects stored: first block and fragment
    groups,          \* the group objects stored, by first block
    lock,            \* the owner of compaction/lock
    loop,            \* per process, where compaction_service_loop is
    task,            \* per process and task, its state
    size,            \* per process, the segment size it is started with
    left             \* the tasks scheduled, what is left of the scenario's bounds,
                     \* and whether a lease has expired under its holder

storeVars      == <<blocks, segments, groups>>
processVars    == <<lock, loop, task, size, left>>
compactionVars == <<stateVars, syncVars, storeVars, processVars>>

\* A process compares the sizes it was started with to the stored ones.
Size(p)          == size[p]
BlocksInGroup(p) == GroupSizeOf[p] * Size(p)

Deployed == {p \in Reader : size[p] # Null}

\* The order segment_data gives; join, header and bodies are one fragment here.
Fragment == <<"index", "body">>

Idle == [pc |-> "off", first |-> 0, todo |-> {}, part |-> 0, read |-> Missing, limit |-> Null,
         on |-> Null]

At(p, t, pc) == loop[p] = "running" /\ task[p][t].pc = pc

\* Task t of process p goes on with state s.
Continue(p, t, s) ==
    /\ task' = [task EXCEPT ![p][t] = s]
    /\ UNCHANGED <<lock, loop, size, left>>

Tick == [Idle EXCEPT !.pc = "tick"]

\* A wait begins with a gap in which a notification is missed.
WaitFor(notification) == [Idle EXCEPT !.pc = "gap", !.on = notification]

\* Mutant: the other tasks of the process keep running.
StopAlone(p) ==
    /\ loop' = [loop EXCEPT ![p] = "unlock"]
    /\ UNCHANGED <<task, waiters, lock, size>>

\* A task has ended with an error: the service stops the other two and returns it.
Stop(p) ==
    /\ loop' = [loop EXCEPT ![p] = "unlock"]
    /\ task' = [task EXCEPT ![p] = [t \in Task |-> Idle]]
    /\ waiters' = {w \in waiters : w.reader # p}
    /\ UNCHANGED <<lock, size>>

Fail(p) == Stop(p) /\ UNCHANGED left

StartWaiting(p, t) ==
    /\ At(p, t, "gap")
    /\ Register(p, t, task[p][t].on)
    /\ Continue(p, t, [task[p][t] EXCEPT !.pc = "waiting"])
    /\ UNCHANGED <<stateVars, objects, sync, view, breaks, storeVars>>

Wake(p, t) ==
    /\ At(p, t, "waiting")
    /\ Woken(p, t)
    /\ Continue(p, t, Tick)
    /\ UNCHANGED <<stateVars, syncVars, storeVars>>

\* The block after a compacted one, by the chain view; a view whose head is
\* not above the cursor gives none.
NextBlock(v, cursor) ==
    IF cursor = Null THEN StartingBlock
    ELSE IF cursor < GetHead(v) THEN cursor + 1
    ELSE Null

-----------------------------------------------------------------------------
(* Progress in etcd: put_segmented and put_grouped                         *)

PutRead(p, t, key, last) ==
    /\ At(p, t, "put")
    /\ Continue(p, t, IF IsNotHigher(kv[key], last) THEN Tick
                      ELSE [task[p][t] EXCEPT !.pc = "txn", !.read = kv[key]])
    /\ UNCHANGED <<stateVars, syncVars, storeVars>>

PutTxn(p, t, key, last) ==
    /\ At(p, t, "txn")
    /\ LET read == task[p][t].read
       IN  /\ PutIfUnchanged(key, last, read)
           /\ Continue(p, t, IF kv[key].revision = read.revision THEN Tick
                             ELSE [task[p][t] EXCEPT !.pc = "put", !.read = Missing])
    /\ UNCHANGED <<syncVars, storeVars>>

-----------------------------------------------------------------------------
(* Segments                                                                *)

Last(p) == task[p]["segment"].first + Size(p) - 1

\* One block more than the segment must be there.
SegmentFits(p, first) ==
    /\ first + Size(p) <= view[p].finalized
    /\ first + Size(p) <= GetHead(view[p])

SegmentTick(p) ==
    /\ At(p, "segment", "tick")
    /\ LET v     == view[p]
           first == NextBlock(v, v.segmented)
       IN  \/ first = Null /\ Fail(p)
           \/ /\ first # Null
              /\ Continue(p, "segment",
                   IF SegmentFits(p, first)
                   THEN [Idle EXCEPT !.pc = "read", !.first = first,
                                     !.todo = first .. first + Size(p) - 1]
                   ELSE WaitFor(IF v.finalized < GetHead(v) THEN "finalized" ELSE "head"))
              /\ UNCHANGED waiters
    /\ UNCHANGED <<stateVars, objects, sync, view, breaks, storeVars>>

\* Downloads run concurrently; a missing block ends the task.
ReadBlock(p, block) ==
    /\ At(p, "segment", "read")
    /\ block \in task[p]["segment"].todo
    /\ LET rest == task[p]["segment"].todo \ {block}
       IN  \/ block \notin blocks /\ Fail(p)
           \/ /\ block \in blocks
              /\ Continue(p, "segment", [task[p]["segment"] EXCEPT
                     !.todo = rest, !.pc = IF rest = {} THEN "upload" ELSE "read"])
              /\ UNCHANGED waiters
    /\ UNCHANGED <<stateVars, objects, sync, view, breaks, storeVars>>

\* Mutant: the cursor is written before the last fragment.
UploadAllButLast(p) ==
    /\ At(p, "segment", "upload")
    /\ LET part == task[p]["segment"].part + 1
       IN  /\ segments' = segments \cup {<<task[p]["segment"].first, Fragment[part]>>}
           /\ Continue(p, "segment", [task[p]["segment"] EXCEPT
                  !.part = part, !.pc = IF part >= Len(Fragment) - 1 THEN "put" ELSE "upload"])
    /\ UNCHANGED <<stateVars, syncVars, blocks, groups>>

UploadFragment(p) ==
    /\ At(p, "segment", "upload")
    /\ LET part == task[p]["segment"].part + 1
       IN  /\ segments' = segments \cup {<<task[p]["segment"].first, Fragment[part]>>}
           /\ Continue(p, "segment", [task[p]["segment"] EXCEPT
                  !.part = part, !.pc = IF part = Len(Fragment) THEN "put" ELSE "upload"])
    /\ UNCHANGED <<stateVars, syncVars, blocks, groups>>

PutSegmented(p) ==
    \/ PutRead(p, "segment", "segmented", Last(p))
    \/ PutTxn(p, "segment", "segmented", Last(p))

-----------------------------------------------------------------------------
(* Groups                                                                  *)

LastInGroup(p) == task[p]["group"].first + BlocksInGroup(p) - 1

GroupFits(p, first) == first + BlocksInGroup(p) <= view[p].segmented

GroupTick(p) ==
    /\ At(p, "group", "tick")
    /\ LET v     == view[p]
           first == NextBlock(v, v.grouped)
       IN  \/ first = Null /\ Fail(p)
           \/ /\ first # Null
              /\ Continue(p, "group",
                   IF v.segmented # Null /\ GroupFits(p, first)
                   THEN [Idle EXCEPT !.pc = "read", !.first = first,
                           !.todo = {first + i * Size(p) : i \in 0 .. GroupSizeOf[p] - 1}]
                   ELSE WaitFor("segmented"))
              /\ UNCHANGED waiters
    /\ UNCHANGED <<stateVars, objects, sync, view, breaks, storeVars>>

ReadIndex(p, first) ==
    /\ At(p, "group", "read")
    /\ first \in task[p]["group"].todo
    /\ LET rest == task[p]["group"].todo \ {first}
       IN  \/ <<first, "index">> \notin segments /\ Fail(p)
           \/ /\ <<first, "index">> \in segments
              /\ Continue(p, "group", [task[p]["group"] EXCEPT
                     !.todo = rest, !.pc = IF rest = {} THEN "upload" ELSE "read"])
              /\ UNCHANGED waiters
    /\ UNCHANGED <<stateVars, objects, sync, view, breaks, storeVars>>

UploadGroup(p) ==
    /\ At(p, "group", "upload")
    /\ groups' = groups \cup {task[p]["group"].first}
    /\ Continue(p, "group", [task[p]["group"] EXCEPT !.pc = "put"])
    /\ UNCHANGED <<stateVars, syncVars, blocks, segments>>

PutGrouped(p) ==
    \/ PutRead(p, "group", "grouped", LastInGroup(p))
    \/ PutTxn(p, "group", "grouped", LastInGroup(p))

-----------------------------------------------------------------------------
(* Pruning                                                                 *)

\* Mutant: what is segmented is pruned.
PruneLimitSegmented == GetSegmented

\* The grouped block is read from etcd, not from the view.
PruneLimit == GetGrouped

\* Mutant: the first block is left out.
PruneStartNext == IF GetPruned # Null THEN GetPruned + 1 ELSE StartingBlock + 1

\* The block pruned last is deleted once more.
PruneStart == IF GetPruned # Null THEN GetPruned ELSE StartingBlock

PruneTick(p) ==
    /\ At(p, "prune", "tick")
    /\ Continue(p, "prune",
           IF PruneLimit = Null THEN WaitFor("segmented")
           ELSE [Idle EXCEPT !.pc = "pruned", !.limit = PruneLimit])
    /\ UNCHANGED <<stateVars, syncVars, storeVars>>

\* The pruned block is a second request, and what was grouped may be old by then.
ReadPruned(p) ==
    /\ At(p, "prune", "pruned")
    /\ LET limit == task[p]["prune"].limit
       IN  Continue(p, "prune",
               IF PruneStart < limit
               THEN [Idle EXCEPT !.pc = "delete", !.first = PruneStart, !.part = Size(p),
                                 !.limit = limit]
               ELSE [WaitFor("segmented") EXCEPT !.limit = limit])
    /\ UNCHANGED <<stateVars, syncVars, storeVars>>

BatchIsOver(part, next, limit) == part = 0 \/ next > limit

DeleteBlock(p) ==
    /\ At(p, "prune", "delete")
    /\ LET t    == task[p]["prune"]
           next == t.first + 1
       IN  /\ blocks' = blocks \ {t.first}
           /\ Continue(p, "prune", [t EXCEPT
                  !.first = next, !.part = @ - 1,
                  !.pc = IF BatchIsOver(t.part - 1, next, t.limit) THEN "put" ELSE "delete"])
    /\ UNCHANGED <<stateVars, syncVars, segments, groups>>

\* Mutant: the next block is written as pruned.
PutPrunedNext(p) ==
    /\ At(p, "prune", "put")
    /\ LET t == task[p]["prune"]
       IN  /\ PutPruned(t.first)
           /\ Continue(p, "prune",
                  IF t.first < t.limit
                  THEN [t EXCEPT !.pc = "delete", !.part = Size(p)]
                  ELSE [WaitFor("segmented") EXCEPT !.limit = t.limit])
    /\ UNCHANGED <<syncVars, storeVars>>

PutPrunedBlock(p) ==
    /\ At(p, "prune", "put")
    /\ LET t == task[p]["prune"]
       IN  /\ PutPruned(t.first - 1)
           /\ Continue(p, "prune",
                  IF t.first < t.limit
                  THEN [t EXCEPT !.pc = "delete", !.part = Size(p)]
                  ELSE [WaitFor("segmented") EXCEPT !.limit = t.limit])
    /\ UNCHANGED <<syncVars, storeVars>>

-----------------------------------------------------------------------------
(* The service loop                                                        *)

Enter(p, state) ==
    /\ loop' = [loop EXCEPT ![p] = state]
    /\ UNCHANGED <<size, left>>

\* Mutant: the lock is taken from its owner.
AcquireLockAnyway(p) ==
    /\ loop[p] = "lock"
    /\ lock' = p
    /\ Enter(p, "options")
    /\ UNCHANGED <<stateVars, syncVars, storeVars, task>>

AcquireLock(p) ==
    /\ loop[p] = "lock" /\ lock = Null
    /\ lock' = p
    /\ Enter(p, "options")
    /\ UNCHANGED <<stateVars, syncVars, storeVars, task>>

\* The first process stores its sizes.
StoreOption(p) ==
    /\ loop[p] = "options"
    /\ \/ Get("segment_size") = Null /\ SetOption("segment_size", Size(p))
       \/ /\ Get("segment_size") = Size(p)
          /\ Get("group_size") = Null
          /\ SetOption("group_size", GroupSizeOf[p])
    /\ UNCHANGED <<syncVars, storeVars, processVars>>

AcceptOptions(p) ==
    /\ loop[p] = "options"
    /\ Get("segment_size") = Size(p)
    /\ Get("group_size") = GroupSizeOf[p]
    /\ Enter(p, "view")
    /\ UNCHANGED <<stateVars, syncVars, storeVars, lock, task>>

\* The process is gone with all it had in memory and is started again.
Reset(p) ==
    /\ loop' = [loop EXCEPT ![p] = "lock"]
    /\ task' = [task EXCEPT ![p] = [t \in Task |-> Idle]]
    /\ waiters' = {w \in waiters : w.reader # p}
    /\ sync' = [sync EXCEPT ![p] = SyncStart]
    /\ view' = [view EXCEPT ![p] = Null]
    /\ CloseWatch(p)
    /\ UNCHANGED <<objects, breaks, storeVars, lock, size>>

\* Another size is stored: the loop returns an error without unlocking, and
\* with it the process ends.
RefuseOptions(p) ==
    /\ loop[p] = "options"
    /\ \/ Get("segment_size") \notin {Null, Size(p)}
       \/ /\ Get("segment_size") = Size(p)
          /\ Get("group_size") \notin {Null, GroupSizeOf[p]}
    /\ Reset(p)
    /\ UNCHANGED left

StartServices(p) ==
    /\ loop[p] = "view" /\ view[p] # Null
    /\ task' = [task EXCEPT ![p] = [t \in Task |-> Tick]]
    /\ Enter(p, "running")
    /\ UNCHANGED <<stateVars, syncVars, storeVars, lock>>

\* Only the key of the own lease is deleted.
Unlock(p) ==
    /\ loop[p] = "unlock"
    /\ lock' = IF lock = p THEN Null ELSE lock
    /\ Enter(p, "lock")
    /\ UNCHANGED <<stateVars, syncVars, storeVars, task>>

\* A request to etcd or to the object store fails in one of the tasks or in
\* the keep alive loop.
RequestFails(p) ==
    /\ loop[p] = "running" /\ left.failures > 0
    /\ Stop(p)
    /\ left' = [left EXCEPT !.failures = @ - 1]
    /\ UNCHANGED <<stateVars, objects, sync, view, breaks, storeVars>>

\* keep_alive does not look at the answer: a lease that has expired goes
\* unnoticed by its holder.
LeaseExpires ==
    /\ lock # Null /\ loop[lock] # "lock"
    /\ left.expiries > 0
    /\ lock' = Null
    /\ left' = [left EXCEPT !.expiries = @ - 1, !.expired = TRUE]
    /\ UNCHANGED <<stateVars, syncVars, storeVars, loop, task, size>>

\* The lease of a process that is gone runs out.
OrphanLeaseExpires ==
    /\ lock # Null /\ loop[lock] = "lock"
    /\ lock' = Null
    /\ UNCHANGED <<stateVars, syncVars, storeVars, loop, task, size, left>>

Crash(p) ==
    /\ left.failures > 0
    /\ Reset(p)
    /\ left' = [left EXCEPT !.failures = @ - 1]

\* run_server ends when the synchronisation of the view fails.
ServerEnds(p) ==
    /\ sync[p].pc = "failed"
    /\ Reset(p)
    /\ UNCHANGED left

-----------------------------------------------------------------------------
(* The whole                                                               *)

ChainGrows ==
    /\ GetRecent.head < MaxBlock
    /\ IngesterPublishes(GetRecent.head + 1)
    /\ blocks' = blocks \cup {GetRecent.head + 1}
    /\ UNCHANGED <<segments, groups, processVars>>

ChainIsFinalized ==
    /\ GetFinalized < MaxBlock
    /\ IngesterFinalizes(GetFinalized + 1)
    /\ UNCHANGED <<storeVars, processVars>>

\* The event at hand wakes a waiter, and a task has yet to become one.
MissesEvent(p) ==
    /\ sync[p].pc = "idle" /\ inbox[p] # <<>>
    /\ \E t \in Task :
          /\ At(p, t, "gap")
          /\ Head(inbox[p]).key = IF task[p][t].on = "head" THEN "recent" ELSE task[p][t].on

ViewStep(p) ==
    /\ SyncStep(p)
    /\ IF left.missed # Null /\ MissesEvent(p)
       THEN left.missed > 0 /\ left' = [left EXCEPT !.missed = @ - 1]
       ELSE UNCHANGED left
    /\ UNCHANGED <<storeVars, lock, loop, task, size>>

ViewBreaks(p) ==
    /\ left.failures > 0
    /\ WatchBreaks(p)
    /\ left' = [left EXCEPT !.failures = @ - 1]
    /\ UNCHANGED <<storeVars, lock, loop, task, size>>

TaskStep(p, t) ==
    \/ StartWaiting(p, t)
    \/ Wake(p, t)
    \/ /\ t = "segment"
       /\ \/ SegmentTick(p)
          \/ \E block \in Block : ReadBlock(p, block)
          \/ UploadFragment(p)
          \/ PutSegmented(p)
    \/ /\ t = "group"
       /\ \/ GroupTick(p)
          \/ \E first \in Block : ReadIndex(p, first)
          \/ UploadGroup(p)
          \/ PutGrouped(p)
    \/ /\ t = "prune"
       /\ \/ PruneTick(p)
          \/ ReadPruned(p)
          \/ DeleteBlock(p)
          \/ PutPrunedBlock(p)

LoopStep(p) ==
    \/ AcquireLock(p) \/ StoreOption(p) \/ AcceptOptions(p) \/ RefuseOptions(p)
    \/ StartServices(p) \/ Unlock(p) \/ ServerEnds(p)

\* The cursors of n segments, or groups, of a size.
CursorAfter(n, blocksIn) == IF n = 0 THEN Null ELSE StartingBlock + n * blocksIn - 1

\* A deployment whose ingester has stored a finalized chain.
Start(s) ==
    LET pointer   == Pointer(1, s.head)
        segmented == CursorAfter(s.segments, SegmentSize)
        grouped   == CursorAfter(s.groups, SegmentSize * GroupSize)
        stored    == s.segments > 0 \/ s.warm
    IN  /\ kv = [k \in Key |->
                   CASE k = "starting_block" -> [value |-> StartingBlock, revision |-> 0]
                     [] k = "finalized" -> [value |-> s.head, revision |-> 0]
                     [] k = "recent"    -> [value |-> pointer, revision |-> 0]
                     [] k = "segmented" -> [value |-> segmented, revision |-> s.segments]
                     [] k = "grouped"   -> [value |-> grouped, revision |-> s.groups]
                     [] k = "chain_segment_size" -> [value |-> 1, revision |-> 0]
                     [] k = "segment_size" /\ stored -> [value |-> SegmentSize, revision |-> 0]
                     [] k = "group_size" /\ stored -> [value |-> GroupSize, revision |-> 0]
                     [] OTHER -> Missing]
        /\ watching = {r \in Reader : s.warm /\ s.size[r] # Null}
        /\ inbox = [r \in Reader |-> <<>>]
        /\ sync = [r \in Reader |-> IF s.warm THEN [SyncStart EXCEPT !.pc = "idle"]
                                    ELSE SyncStart]
        /\ view = [r \in Reader |->
                     IF s.warm
                     THEN NewChainView([finalized |-> s.head, segmented |-> segmented,
                                        grouped |-> grouped], pointer)
                     ELSE Null]
        /\ waiters = {}
        /\ breaks = 0
        /\ objects = {pointer}
        /\ blocks = StartingBlock .. s.head
        /\ segments = {StartingBlock + i * SegmentSize : i \in 0 .. s.segments - 1}
                        \X {Fragment[i] : i \in DOMAIN Fragment}
        /\ groups = {StartingBlock + i * SegmentSize * GroupSize : i \in 0 .. s.groups - 1}
        /\ lock = Null
        /\ loop = [p \in Reader |-> "lock"]
        /\ task = [p \in Reader |-> [t \in Task |-> Idle]]
        /\ size = s.size
        /\ left = [expiries |-> s.expiries, failures |-> s.failures, missed |-> s.missed,
                   expired |-> FALSE, tasks |-> s.tasks]

CompactionInit == \E s \in Scenario : Start(s)

CompactionNext ==
    \/ ChainGrows \/ ChainIsFinalized \/ LeaseExpires \/ OrphanLeaseExpires
    \/ \E p \in Deployed :
          \/ ViewStep(p) \/ ViewBreaks(p)
          \/ LoopStep(p) \/ RequestFails(p) \/ Crash(p)
          \/ \E t \in left.tasks : TaskStep(p, t)

\* Tasks are not starved, and the chain goes on.
CompactionFairness ==
    /\ WF_compactionVars(ChainGrows)
    /\ WF_compactionVars(ChainIsFinalized)
    /\ WF_compactionVars(OrphanLeaseExpires)
    /\ \A p \in Reader :
          /\ WF_compactionVars(p \in Deployed /\ ViewStep(p))
          /\ WF_compactionVars(p \in Deployed /\ LoopStep(p))
          /\ \A t \in Task : WF_compactionVars(p \in Deployed /\ t \in left.tasks /\ TaskStep(p, t))

CompactionSpec == CompactionInit /\ [][CompactionNext]_compactionVars

FairCompactionSpec == CompactionSpec /\ CompactionFairness

-----------------------------------------------------------------------------
(* Properties                                                              *)

\* The state of the tasks has its type, and a task only runs inside the loop.
CompactionTypeOK ==
    /\ blocks \subseteq Block /\ groups \subseteq Block
    /\ \A s \in segments : s[1] \in Block
    /\ lock \in Reader \cup {Null}
    /\ \A p \in Reader :
          /\ loop[p] \in {"lock", "options", "view", "running", "unlock"}
          /\ \A t \in Task :
                /\ task[p][t].pc \in {"off", "tick", "gap", "waiting", "read", "upload", "put",
                                       "txn", "pruned", "delete"}
                /\ task[p][t].pc = "off" <=> loop[p] # "running"
    /\ \A w \in waiters : task[w.reader][w.task].pc = "waiting"

\* What a reader computes with the stored sizes from its own view, however
\* late, is there: every fragment of a segment the view has, every group the
\* view has and every segment of that group (view.rs 284-324, segment.rs
\* 278-303, group.rs 234-246).
ReadableSegmentsExist ==
    \A p \in Reader : view[p] # Null =>
        LET S == Get("segment_size")
            G == Get("group_size")
        IN  \A block \in StartingBlock .. GetHead(view[p]) :
                /\ HasSegmentForBlock(view[p], S, block) =>
                      \A i \in DOMAIN Fragment :
                          <<GetSegmentStartBlock(S, block), Fragment[i]>> \in segments
                /\ HasGroupForBlock(view[p], S, G, block) =>
                      /\ GetGroupStartBlock(S, G, block) \in groups
                      /\ \A i \in DOMAIN Fragment :
                          <<GetSegmentStartBlock(S, block), Fragment[i]>> \in segments

\* A block is only deleted once a group covers it, and a segment is left
\* between the groups and the end of the segments (group.rs 109), whatever
\* compactors run side by side after a lease has expired.
NoBlockIsLost ==
    /\ GetGrouped # Null => GetSegmented # Null /\ GetGrouped < GetSegmented
    /\ \A block \in StartingBlock .. GetRecent.head :
          block \notin blocks => GetGrouped # Null /\ block <= GetGrouped

\* The pruned cursor never runs ahead of the deletions, although it is a plain
\* write of any of two pruners (prune.rs 98-117).
PrunedBlocksAreGone ==
    GetPruned # Null => \A block \in StartingBlock .. GetPruned : block \notin blocks

\* The segmented and the grouped cursor never move back, whoever writes them
\* between another writer's read and write (state_client.rs 367-420).
CursorsNeverMoveBack ==
    [][\A key \in Conditional :
          kv[key].value # Null => kv'[key].value # Null /\ kv'[key].value >= kv[key].value
      ]_compactionVars

\* As long as no lease expires under its holder one process compacts
\* (compaction/mod.rs 41-124).
OneCompactor ==
    ~left.expired =>
        \A p, q \in Reader :
            loop[p] \notin {"lock"} /\ loop[q] \notin {"lock"} => p = q

\* The segment task is never pointed at blocks that were deleted.
DeletedBlocksAreNotRead ==
    \A p \in Reader :
        At(p, "segment", "read") => task[p]["segment"].todo \subseteq blocks

\* When the prune task waits for more, the blocks below the grouped block it
\* has seen are pruned, whatever rounds and failures came before.  The grouped
\* block itself may stay: a later round starts at the block pruned last and
\* ends below its limit when whole segments bring it there (prune.rs 88).
PruneReachesGrouped ==
    \A p \in Reader :
        At(p, "prune", "gap") /\ task[p]["prune"].limit # Null =>
            \A block \in StartingBlock .. task[p]["prune"].limit - 1 : block \notin blocks

\* What is compacted when the last change of the chain goes unnoticed.
ExpectedSegmented == GetSegmentStartBlock(SegmentSize, MaxBlock - 1) - 1
ExpectedGrouped   == GetGroupStartBlock(SegmentSize, GroupSize, ExpectedSegmented) - 1

\* As long as no event is lost, segments and groups keep up with a finalized
\* chain that goes on: the notification a task misses between its last look at
\* the view and its wait (segment.rs 97-117, group.rs 109-122) delays it until
\* the next one and no longer.
CompactionKeepsUp ==
    <>(/\ GetSegmented # Null /\ GetSegmented >= ExpectedSegmented
       /\ GetGrouped # Null /\ GetGrouped >= ExpectedGrouped)

=============================================================================

---------------------------- MODULE ChainViewSync ----------------------------
(***************************************************************************)
(* The chain view every process keeps (common/src/chain_view/view.rs) and  *)
(* the service that fills it from etcd and the object store                *)
(* (common/src/chain_view/sync.rs).                                        *)
(*                                                                         *)
(* Every read of etcd or of the object store is a step of its own, because *)
(* the ingester, the compactor and the cleanup of old snapshots move on in *)
(* between.  A setter of the view wakes the tasks that are waiting at that *)
(* moment and nobody else (Notify::notify_waiters keeps no permit).        *)
(***************************************************************************)
EXTENDS StateStore, SegmentMath

CONSTANTS
    Task,            \* the tasks that wait for changes of a view
    MaxBlock,        \* model bound: the highest block number
    MaxPublications, \* model bound: snapshots published
    MaxGeneration,   \* model bound: pending generations
    MaxInbox,        \* model bound: events on their way to a reader
    MaxBreaks        \* model bound: how often a watch breaks

ASSUME ViewAssumption ==
    /\ MaxBlock \in Nat
    /\ MaxPublications \in Nat
    /\ MaxGeneration \in Nat
    /\ MaxInbox \in Nat \ {0}
    /\ MaxBreaks \in Nat

VARIABLES
    objects,         \* the recent snapshots in the object store
    sync,            \* per reader, the synchronisation service
    view,            \* per reader, the chain view; Null until it is sent
    waiters,         \* who waits for which notification
    breaks           \* how many watches have broken

syncVars == <<objects, sync, view, waiters, breaks>>

Block == StartingBlock .. MaxBlock

\* A snapshot under the name the pointer gives it, and the head it ends with.
Pointer(key, head) == [key |-> key, head |-> head]

\* The single mutable object of older ingesters.
LegacyRecent == Pointer(0, StartingBlock)

PointerType == [key : Nat, head : Nat]

\* What is stored under a key, and what a view holds.
ValueType == Nat \cup {Null} \cup PointerType
ViewType  == [finalized : ValueType, segmented : ValueType, grouped : ValueType,
              recent : ValueType, pending : ValueType]

ASSUME NullIsNoRecord == Null \notin PointerType /\ Null \notin ViewType

SyncStart == [pc |-> "starting", finalized |-> Null, segmented |-> Null,
              grouped |-> Null, pointer |-> Null, heard |-> {}]

NewChainView(s, recent) ==
    [finalized |-> s.finalized, segmented |-> s.segmented, grouped |-> s.grouped,
     recent |-> recent, pending |-> Null]

Room == \A r \in Reader : Len(inbox[r]) < MaxInbox

\* Whether the segment, or the group, of a block is there.
HasSegmentForBlock(v, S, block) ==
    v.segmented # Null /\ GetSegmentEndBlock(S, block) <= v.segmented
HasGroupForBlock(v, S, G, block) ==
    v.grouped # Null /\ GetGroupEndBlock(S, G, block) <= v.grouped

-----------------------------------------------------------------------------
(* Setters and notifications                                               *)

Notify(r, notification) ==
    waiters' = {w \in waiters : ~(w.reader = r /\ w.notification = notification)}

SetFinalized(r, block) ==
    /\ view' = [view EXCEPT ![r].finalized = block]
    /\ Notify(r, "finalized")

SetSegmented(r, block) ==
    /\ view' = [view EXCEPT ![r].segmented = block]
    /\ Notify(r, "segmented")

\* Nobody is told about groups.
SetGrouped(r, block) ==
    /\ view' = [view EXCEPT ![r].grouped = block]
    /\ UNCHANGED waiters

SetPending(r, generation) ==
    /\ view' = [view EXCEPT ![r].pending = generation]
    /\ Notify(r, "pending")

SetRecent(r, pointer) ==
    /\ view' = [view EXCEPT ![r].recent = pointer]
    /\ Notify(r, "head")

GetHead(v) == v.recent.head

\* Mutant: a task that never hears a notification.
NeverRegister(r, task, notification) ==
    /\ waiters' = waiters \cup {[reader |-> r, task |-> task, notification |-> "never"]}

\* finalized_changed, head_changed, segmented_changed, pending_changed
Register(r, task, notification) ==
    waiters' = waiters \cup {[reader |-> r, task |-> task, notification |-> notification]}

Woken(r, task) == \A w \in waiters : ~(w.reader = r /\ w.task = task)

-----------------------------------------------------------------------------
(* Start                                                                   *)

\* One request of the service; the others of its state stay.
Step(r, from, to) ==
    /\ sync[r].pc = from
    /\ sync' = [sync EXCEPT ![r] = to]
    /\ UNCHANGED <<stateVars, objects, waiters, breaks>>

ReadStartingBlock(r) ==
    /\ GetStartingBlock # Null
    /\ Step(r, "starting", [sync[r] EXCEPT !.pc = "finalized"])
    /\ UNCHANGED view

ReadFinalized(r) ==
    /\ GetFinalized # Null
    /\ Step(r, "finalized", [sync[r] EXCEPT !.pc = "segmented", !.finalized = GetFinalized])
    /\ UNCHANGED view

ReadSegmented(r) ==
    /\ Step(r, "segmented", [sync[r] EXCEPT !.pc = "grouped", !.segmented = GetSegmented])
    /\ UNCHANGED view

ReadGrouped(r) ==
    /\ Step(r, "grouped", [sync[r] EXCEPT !.pc = "recent", !.grouped = GetGrouped])
    /\ UNCHANGED view

\* The pointer, or the object of an ingester that predates it; otherwise retry.
PublishedPointer ==
    IF GetRecent # Null THEN GetRecent
    ELSE IF GetLegacyIngested # Null THEN LegacyRecent
    ELSE Null

ReadRecent(r) ==
    /\ PublishedPointer # Null
    /\ Step(r, "recent", [sync[r] EXCEPT !.pc = "fetch", !.pointer = PublishedPointer])
    /\ UNCHANGED view

\* Mutant: the snapshot that is gone is asked for again.
FetchRecentAgain(r) ==
    /\ sync[r].pointer \in objects
    /\ Step(r, "fetch", [sync[r] EXCEPT !.pc = "options"])
    /\ UNCHANGED view

\* A snapshot that is gone is no failure: the pointer is read again.
FetchRecent(r) ==
    /\ Step(r, "fetch",
            [sync[r] EXCEPT !.pc = IF sync[r].pointer \in objects THEN "options" ELSE "recent"])
    /\ UNCHANGED view

\* The view is sent, or the service fails because an option is not there yet.
SendView(r) ==
    IF HasOptions
    THEN /\ Step(r, "options", [SyncStart EXCEPT !.pc = "watch"])
         /\ view' = [view EXCEPT ![r] = NewChainView(sync[r], sync[r].pointer)]
    ELSE /\ Step(r, "options", [sync[r] EXCEPT !.pc = "failed"])
         /\ UNCHANGED view

-----------------------------------------------------------------------------
(* The watch                                                               *)

WatchChanges(r) ==
    /\ sync[r].pc = "watch"
    /\ OpenWatch(r)
    /\ sync' = [sync EXCEPT ![r].pc = "idle"]
    /\ UNCHANGED <<objects, view, waiters, breaks>>

\* The first event is taken.
Handled(r, pc) ==
    /\ inbox' = [inbox EXCEPT ![r] = Tail(@)]
    /\ sync' = [sync EXCEPT ![r].pc = pc, ![r].heard = @ \cup {Head(inbox[r]).key}]
    /\ UNCHANGED <<kv, watching, objects, breaks>>

\* Mutant: the pending key's deletion is ignored.
ApplyUpdateNoPending(r) ==
    /\ sync[r].pc = "idle" /\ inbox[r] # <<>>
    /\ LET event == Head(inbox[r])
       IN  /\ event.key # "recent"
           /\ CASE event.key = "finalized" -> SetFinalized(r, event.value)
                [] event.key = "segmented" -> SetSegmented(r, event.value)
                [] event.key = "grouped"   -> SetGrouped(r, event.value)
                [] OTHER                   -> UNCHANGED <<view, waiters>>
    /\ Handled(r, "idle")

\* Every update but Recent.  The starting block only earns a warning and the
\* legacy key is no update.
ApplyUpdate(r) ==
    /\ sync[r].pc = "idle" /\ inbox[r] # <<>>
    /\ LET event == Head(inbox[r])
       IN  /\ event.key # "recent"
           /\ CASE event.key = "finalized" -> SetFinalized(r, event.value)
                [] event.key = "segmented" -> SetSegmented(r, event.value)
                [] event.key = "grouped"   -> SetGrouped(r, event.value)
                [] event.key = "pending"   -> SetPending(r, event.value)
                [] OTHER                   -> UNCHANGED <<view, waiters>>
    /\ Handled(r, "idle")

\* Mutant: a snapshot that is gone ends the service.
ApplyRecentOrFail(r) ==
    /\ sync[r].pc = "idle" /\ inbox[r] # <<>>
    /\ Head(inbox[r]).key = "recent"
    /\ LET pointer == Head(inbox[r]).value
       IN  IF pointer \in objects
           THEN SetRecent(r, pointer) /\ Handled(r, "idle")
           ELSE UNCHANGED <<view, waiters>> /\ Handled(r, "failed")

ApplyRecent(r) ==
    /\ sync[r].pc = "idle" /\ inbox[r] # <<>>
    /\ Head(inbox[r]).key = "recent"
    /\ LET pointer == Head(inbox[r]).value
       IN  IF pointer \in objects
           THEN SetRecent(r, pointer) /\ Handled(r, "idle")
           ELSE /\ inbox' = [inbox EXCEPT ![r] = Tail(@)]
                /\ sync' = [sync EXCEPT ![r].pc = "reread", ![r].pointer = pointer,
                                        ![r].heard = @ \cup {"recent"}]
                /\ UNCHANGED <<kv, watching, objects, breaks, view, waiters>>

\* The snapshot is gone: the current pointer is read; the same key means skip.
RereadPointer(r) ==
    /\ Step(r, "reread",
            IF GetRecent # Null /\ GetRecent.key # sync[r].pointer.key
            THEN [sync[r] EXCEPT !.pc = "refetch", !.pointer = GetRecent]
            ELSE [sync[r] EXCEPT !.pc = "idle", !.pointer = Null])
    /\ UNCHANGED view

RefetchRecent(r) ==
    /\ sync[r].pc = "refetch"
    /\ IF sync[r].pointer \in objects
       THEN SetRecent(r, sync[r].pointer)
       ELSE UNCHANGED <<view, waiters>>
    /\ sync' = [sync EXCEPT ![r].pc = "idle", ![r].pointer = Null]
    /\ UNCHANGED <<stateVars, objects, breaks>>

\* The stream ends or fails: five seconds later it is opened again, and the
\* keys are not read again.
WatchBreaks(r) ==
    /\ sync[r].pc \in {"idle", "reread", "refetch"}
    /\ breaks < MaxBreaks
    /\ CloseWatch(r)
    /\ sync' = [sync EXCEPT ![r] = [SyncStart EXCEPT !.pc = "watch"]]
    /\ breaks' = breaks + 1
    /\ UNCHANGED <<objects, view, waiters>>

SyncStep(r) ==
    \/ ReadStartingBlock(r) \/ ReadFinalized(r) \/ ReadSegmented(r) \/ ReadGrouped(r)
    \/ ReadRecent(r) \/ FetchRecent(r) \/ SendView(r)
    \/ WatchChanges(r) \/ ApplyUpdate(r) \/ ApplyRecent(r)
    \/ RereadPointer(r) \/ RefetchRecent(r)

-----------------------------------------------------------------------------
(* The ingester, as far as readers see it                                  *)

\* initialize writes the finalized block again at every start, and a later
\* refresh a higher one.
IngesterFinalizes(block) ==
    /\ Room
    /\ Get("chain_segment_size") # Null
    /\ PutFinalized(block)
    /\ UNCHANGED syncVars

\* Then it writes the first block, as long as no chain is published.
IngesterStarts ==
    /\ Room
    /\ GetFinalized # Null /\ GetRecent = Null
    /\ PutStartingBlock(StartingBlock)
    /\ UNCHANGED syncVars

\* A snapshot under a new name, then the pointer, which also ends the pending
\* block.  The head moves up, or down in a reorganization.
IngesterPublishes(head) ==
    /\ Room
    /\ GetStartingBlock # Null
    /\ LET pointer == Pointer(IF GetRecent = Null THEN 1 ELSE GetRecent.key + 1, head)
       IN  /\ pointer.key <= MaxPublications
           /\ objects' = objects \cup {pointer}
           /\ PutRecent(pointer)
    /\ UNCHANGED <<sync, view, waiters, breaks>>

IngesterPending(generation) ==
    /\ Room
    /\ GetRecent # Null
    /\ PutPending(generation)
    /\ UNCHANGED syncVars

\* After the first publication the legacy object and then its key are deleted.
IngesterMigrates ==
    /\ GetRecent # Null /\ GetLegacyIngested # Null
    /\ \/ /\ LegacyRecent \in objects
          /\ objects' = objects \ {LegacyRecent}
          /\ UNCHANGED stateVars
       \/ /\ LegacyRecent \notin objects
          /\ DeleteLegacyIngested
          /\ UNCHANGED objects
    /\ UNCHANGED <<sync, view, waiters, breaks>>

\* The cleanup job reclaims superseded snapshots.
Cleanup(pointer) ==
    /\ pointer \in objects
    /\ pointer # GetRecent /\ pointer # LegacyRecent
    /\ objects' = objects \ {pointer}
    /\ UNCHANGED <<stateVars, sync, view, waiters, breaks>>

SyncInit ==
    /\ sync = [r \in Reader |-> SyncStart]
    /\ view = [r \in Reader |-> Null]
    /\ waiters = {}
    /\ breaks = 0

-----------------------------------------------------------------------------
(* The views alone, with a compactor that only writes its keys             *)

\* It starts with its options stored and a view of its own; segments are made
\* before groups of them.
CompactorAdvances(key) ==
    /\ Room
    /\ HasOptions /\ PublishedPointer # Null
    /\ Get(key) = Null
    /\ \/ key = "segmented" /\ Put(key, StartingBlock + 1)
       \/ key = "grouped" /\ GetSegmented # Null /\ Put(key, StartingBlock)
    /\ UNCHANGED syncVars

\* The ingestion loop sets its option before the ingester starts, the
\* compaction loop sets one after the other.
OptionIsSet(key) ==
    /\ Get(key) = Null
    /\ key = "group_size" => Get("segment_size") # Null
    /\ SetOption(key, 1)
    /\ UNCHANGED syncVars

ViewInit ==
    /\ StateInit
    /\ SyncInit
    /\ objects = {}

\* A deployment of an ingester that predates the pointer.
LegacyInit ==
    /\ kv = [k \in Key |-> CASE k = "ingested" -> [value |-> 1, revision |-> 0]
                            [] k \in {"starting_block", "finalized"} ->
                                 [value |-> StartingBlock, revision |-> 0]
                            [] k \in OptionKey -> [value |-> 1, revision |-> 0]
                            [] OTHER -> Missing]
    /\ watching = {}
    /\ inbox = [r \in Reader |-> <<>>]
    /\ SyncInit
    /\ objects = {LegacyRecent}

IngesterNext ==
    \/ IngesterStarts
    \/ \E block \in Block : IngesterFinalizes(block) \/ IngesterPublishes(block)
    \/ \E generation \in 1 .. MaxGeneration : IngesterPending(generation)
    \/ IngesterMigrates
    \/ \E pointer \in objects : Cleanup(pointer)

ViewNext ==
    \/ IngesterNext
    \/ \E key \in Conditional : CompactorAdvances(key)
    \/ \E key \in OptionKey : OptionIsSet(key)
    \/ \E r \in Reader : SyncStep(r) \/ WatchBreaks(r)

viewVars == <<stateVars, syncVars>>

\* The service's tasks are never starved; nothing is assumed of the writers.
ViewFairness == \A r \in Reader : WF_viewVars(SyncStep(r))

ViewSpec == (ViewInit \/ LegacyInit) /\ [][ViewNext]_viewVars /\ ViewFairness

-----------------------------------------------------------------------------
(* Properties                                                              *)

Phase == {"starting", "finalized", "segmented", "grouped", "recent", "fetch", "options",
          "watch", "idle", "reread", "refetch", "failed"}

\* The state of the service and of the views has its type, and a view exists
\* exactly once the service has got past its start.
ViewTypeOK ==
    /\ DOMAIN kv = Key
    /\ \A key \in Key : kv[key].revision \in Nat
    /\ watching \subseteq Reader
    /\ \A r \in Reader :
          /\ sync[r].pc \in Phase
          /\ view[r] # Null <=> sync[r].pc \in {"watch", "idle", "reread", "refetch"}
          /\ r \in watching <=> sync[r].pc \in {"idle", "reread", "refetch"}
    /\ breaks \in 0 .. MaxBreaks

\* When a reader has handled all that it was sent, its view shows the current
\* value of every key it was told about since its watch was opened, and for
\* the chain the newest snapshot, although snapshots it was told about have
\* been superseded and deleted before it could read them (sync.rs 284-328).
QuietViewIsCurrent ==
    \A r \in Reader :
        sync[r].pc = "idle" /\ inbox[r] = <<>> =>
            \A key \in sync[r].heard \cap DOMAIN view[r] : view[r][key] = Get(key)

\* Once a chain is published and the options are there, every view is sent,
\* although the snapshot read first may be deleted before it is fetched
\* (sync.rs 171-185); a service that read the options too early fails.
ViewIsSent ==
    \A r \in Reader :
        (GetRecent # Null /\ HasOptions) ~> (view[r] # Null \/ sync[r].pc = "failed")

\* A snapshot a reader was told about is shown, or a newer one, unless the
\* watch breaks: a missing object never stops the updates (sync.rs 293-326).
SentSnapshotIsShown ==
    \A r \in Reader : \A key \in 1 .. MaxPublications :
        (\E i \in DOMAIN inbox[r] : inbox[r][i].key = "recent" /\ inbox[r][i].value.key = key)
            ~> (r \notin watching \/ view[r].recent.key >= key)

=============================================================================

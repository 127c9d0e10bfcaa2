----------------------------- MODULE StateStore -----------------------------
(***************************************************************************)
(* The keys the services share in etcd: the ingestion and compaction state *)
(* (common/src/ingestion/state_client.rs), the options written at the      *)
(* first start (common/src/options_store.rs) and the watch on the          *)
(* ingestion prefix (etcd/src/kv.rs, watch.rs).                            *)
(*                                                                         *)
(* A reader that watches gets every event of the prefix from the moment    *)
(* its watch was created, in order; what was written before is not sent.   *)
(***************************************************************************)
EXTENDS Integers, Sequences

CONSTANTS
    Reader,     \* the processes that keep a chain view
    Null        \* no value

ASSUME NullIsNoNumber == Null \notin Nat
ASSUME NullIsNoReader == Null \notin Reader

VARIABLES
    kv,         \* value of every key and, where it is compared, its revision
    watching,   \* the readers whose watch is open
    inbox       \* per reader, the events sent and not yet handled

stateVars == <<kv, watching, inbox>>

\* The keys under INGESTION_PREFIX_KEY; pruned has a prefix of its own.
IngestionKey == {"starting_block", "finalized", "recent", "ingested", "pending",
                 "segmented", "grouped"}
OptionKey    == {"chain_segment_size", "segment_size", "group_size"}
Key          == IngestionKey \cup OptionKey \cup {"pruned"}

\* A mod revision is only compared for the keys of put_if_higher; it is
\* counted per key, which tells the same writes apart.
Conditional == {"segmented", "grouped"}

Missing == [value |-> Null, revision |-> 0]

Event(key, value) == [key |-> key, value |-> value]

Get(key) == kv[key].value

\* Every open watch receives the events of one write.
Send(events) ==
    inbox' = [r \in Reader |-> IF r \in watching THEN inbox[r] \o events ELSE inbox[r]]

Written(key, value) ==
    [value    |-> value,
     revision |-> IF key \in Conditional THEN kv[key].revision + 1 ELSE 0]

Put(key, value) ==
    /\ kv' = [kv EXCEPT ![key] = Written(key, value)]
    /\ Send(IF key \in IngestionKey THEN <<Event(key, value)>> ELSE <<>>)
    /\ UNCHANGED watching

\* Mutant: the write is not conditional.
PutAlways(key, value, revision) ==
    /\ kv' = [kv EXCEPT ![key] = Written(key, value)]
    /\ Send(<<Event(key, value)>>)
    /\ UNCHANGED watching

\* The write is applied only if nobody has written the key since it was read.
PutIfModRevision(key, value, revision) ==
    IF kv[key].revision = revision THEN Put(key, value) ELSE UNCHANGED stateVars

Delete(key) ==
    /\ kv' = [kv EXCEPT ![key] = Missing]
    /\ Send(IF kv[key] = Missing THEN <<>> ELSE <<Event(key, Null)>>)
    /\ UNCHANGED watching

\* One transaction, two events; deleting a missing key is not an event.
PutAndDelete(key, value, deleted) ==
    /\ kv' = [kv EXCEPT ![key] = Written(key, value), ![deleted] = Missing]
    /\ Send(<<Event(key, value)>> \o
            (IF kv[deleted] = Missing THEN <<>> ELSE <<Event(deleted, Null)>>))
    /\ UNCHANGED watching

\* watch_prefix: from now on, and nothing of what came before.
OpenWatch(r) ==
    /\ watching' = watching \cup {r}
    /\ inbox' = [inbox EXCEPT ![r] = <<>>]
    /\ UNCHANGED kv

CloseWatch(r) ==
    /\ watching' = watching \ {r}
    /\ inbox' = [inbox EXCEPT ![r] = <<>>]
    /\ UNCHANGED kv

-----------------------------------------------------------------------------
(* The client                                                              *)

GetStartingBlock  == Get("starting_block")
PutStartingBlock(block) == Put("starting_block", block)
GetFinalized      == Get("finalized")
PutFinalized(block) == Put("finalized", block)
GetRecent         == Get("recent")
PutRecent(pointer)  == PutAndDelete("recent", pointer, "pending")
GetLegacyIngested == Get("ingested")
DeleteLegacyIngested == Delete("ingested")
PutPending(generation) == Put("pending", generation)
GetSegmented      == Get("segmented")
GetGrouped        == Get("grouped")
GetPruned         == Get("pruned")
PutPruned(block)  == Put("pruned", block)

\* put_if_higher, first half: what was read decides that nothing is written...
IsNotHigher(read, block) == read.value # Null /\ read.value >= block

\* ... or that block is written over exactly what was read.
PutIfUnchanged(key, block, read) == PutIfModRevision(key, block, read.revision)

HasOptions == \A key \in OptionKey : Get(key) # Null
SetOption(key, size) == Put(key, size)

StateInit ==
    /\ kv = [k \in Key |-> Missing]
    /\ watching = {}
    /\ inbox = [r \in Reader |-> <<>>]

=============================================================================

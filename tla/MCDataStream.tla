---------------------------- MODULE MCDataStream ----------------------------
(***************************************************************************)
(* Instances of DataStream for TLC: a trunk a0 .. a4, and a5 or b5 on top. *)
(* Three chain blocks make a chain segment, so that a0 .. a2 are in the    *)
(* store; a segment is one block, a group two.                             *)
(***************************************************************************)
EXTENDS DataStream, TLC

CONSTANTS c1, c2

TwoClients == {c1, c2}

TreeHeight == ("a0" :> 0) @@ ("a1" :> 1) @@ ("a2" :> 2) @@ ("a3" :> 3) @@ ("a4" :> 4)
              @@ ("a5" :> 5) @@ ("b5" :> 5)

TreeParent == ("a0" :> ZeroHash) @@ ("a1" :> "a0") @@ ("a2" :> "a1") @@ ("a3" :> "a2")
              @@ ("a4" :> "a3") @@ ("a5" :> "a4") @@ ("b5" :> "a4")

TreeBlock == DOMAIN TreeHeight

Trunk(last) == [n \in 0 .. last |-> CHOOSE b \in TreeBlock : TreeHeight[b] = n /\ b # "b5"]

Request(finality) == [finality |-> finality, heartbeat |-> Null, filter |-> "wellFormed"]

\* One client with one kind of request.
Only(finality) == (c1 :> {Request(finality)}) @@ (c2 :> {})

Quiet ==
    [chain |-> Trunk(4), finalized |-> 3, segments |-> 3, groups |-> 1, moves |-> {},
     requests |-> Only("accepted"), matching |-> {"a0", "a1", "a4", "a5", "b5"}, header |-> "onData",
     contents |-> {"none", "some"}, serving |-> TRUE, final |-> "b5", finals |-> 4 .. 5,
     versions |-> 2, faults |-> 0]

\* The head goes up and down while a client comes, leaves and comes back.
Reorganizations ==
    [Quiet EXCEPT !.chain = Trunk(3), !.moves = {"grow", "cut"}, !.faults = 1]

\* Blocks are finalized, compacted and pruned around the client.
Compacting ==
    [Quiet EXCEPT !.finalized = 1, !.segments = 0, !.groups = 0, !.finals = 2 .. 3,
                  !.chain = Trunk(3), !.moves = {"grow", "finalize", "compact"},
                  !.matching = {"a1", "a2"}]

CompactingHeaders ==
    [Compacting EXCEPT !.moves = {"finalize", "compact"}, !.matching = {}, !.header = "always"]

\* The node moves to another branch and finalizes it.
FinalizedFork ==
    [Quiet EXCEPT !.finalized = 4, !.segments = 0, !.groups = 0,
                  !.moves = {"grow", "cut", "finalize"}]

\* A client of finalized data.
FinalizedOnly ==
    [Quiet EXCEPT !.segments = 0, !.groups = 0, !.requests = Only("finalized"),
                  !.moves = {"grow", "cut", "finalize"}, !.header = "onDataOrOnNewBlock"]

\* The ingester is restarted with nodes that are behind.
Lagging ==
    [FinalizedOnly EXCEPT !.finalized = 4, !.finals = 3 .. 4, !.moves = {"cut", "lag"},
                          !.matching = {"a3", "a4"}, !.header = "onData"]

\* A client of pending data.
PendingData ==
    [Quiet EXCEPT !.requests = Only("pending"), !.segments = 0, !.groups = 0,
                  !.moves = {"grow", "pending"}]

PendingAndFinal == [PendingData EXCEPT !.moves = {"finalize", "pending"}, !.versions = 1]

\* The pending block is on either side of a fork, under the same key.
PendingFork ==
    [PendingData EXCEPT !.finalized = 4, !.moves = {"grow", "cut", "pending"},
                        !.contents = {"some"}, !.versions = 1]

\* Two clients for one permit, and requests that are refused.
Crowded ==
    [Quiet EXCEPT !.finalized = 3, !.segments = 0, !.groups = 0,
                  !.serving = FALSE, !.moves = {"grow"}, !.faults = 1, !.chain = Trunk(3),
                  !.requests = (c1 :> {Request(Null), Request("no finality"),
                                       [Request(Null) EXCEPT !.heartbeat = 9],
                                       [Request(Null) EXCEPT !.filter = "malformed"]})
                               @@ (c2 :> {[Request("accepted") EXCEPT !.heartbeat = 60]})]

ForkOnly == {FinalizedFork}

Settings ==
    {Reorganizations, Compacting, CompactingHeaders, FinalizedFork, FinalizedOnly, Lagging,
     PendingData, PendingAndFinal, PendingFork, Crowded}

=============================================================================

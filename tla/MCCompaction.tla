---------------------------- MODULE MCCompaction ----------------------------
(***************************************************************************)
(* Instances of Compaction for TLC.                                        *)
(***************************************************************************)
EXTENDS Compaction, TLC

CONSTANTS p1, p2, p3

TwoProcesses   == {p1, p2}
ThreeProcesses == {p1, p2, p3}
AllTasks       == {"segment", "group", "prune"}

\* The third process is started with another group size.
GroupSizes == [p \in Reader |-> IF p = p3 THEN GroupSize + 1 ELSE GroupSize]

\* The processes of a set are deployed, with the same segment size.
Same(deployed) == [p \in Reader |-> IF p \in deployed THEN SegmentSize ELSE Null]
Both           == Same({p1, p2})
Alone          == Same({p1})
Differs        == [Both EXCEPT ![p2] = SegmentSize + 1]

Quiet == [head |-> 3 * SegmentSize, warm |-> TRUE, segments |-> 0, groups |-> 0,
          size |-> Both, tasks |-> Task,
          expiries |-> 0, failures |-> 0, missed |-> Null]

\* Two processes compact after a lease has expired: segments and groups ...
TwoCompactors == [Quiet EXCEPT !.expiries = 1, !.segments = 2, !.tasks = {"segment", "group"}]

\* ... or groups, and the pruning of what is grouped.
TwoPruners == [Quiet EXCEPT !.expiries = 1, !.segments = 3, !.groups = 1,
                            !.tasks = {"group", "prune"}]

\* One process from its start on, over a growing chain, with a failed request
\* or a crash.
OneFails == [Quiet EXCEPT !.size = Alone, !.warm = FALSE, !.head = 5, !.failures = 1]

\* The second process is started with another segment size.
OtherSize == [Quiet EXCEPT !.size = Differs, !.warm = FALSE, !.tasks = {"segment", "group"}]

\* Two processes that differ in the group size, from their start on.
OtherGroupSize == [Quiet EXCEPT !.size = Same({p1, p3}), !.warm = FALSE,
                                !.tasks = {"segment", "group"}]

SafeScenarios == {TwoCompactors, TwoPruners, OneFails, OtherSize, OtherGroupSize}

\* A process that reads the cursors when it starts and takes over later.
Standby == {[Quiet EXCEPT !.warm = FALSE, !.failures = 1]}

\* One process and a chain that goes on.
Steady == {[Quiet EXCEPT !.size = Alone, !.head = 2, !.missed = 1]}

=============================================================================

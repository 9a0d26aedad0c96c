------------------------------ MODULE MCReplayer ------------------------------
(* Instances of Replayer for TLC. *)
EXTENDS Replayer

CONSTANTS l1, l2, c1, c2, p1, p2

None == {}
OneLoop == {l1}
TwoLoops == {l1, l2}
SecondFilters == {l2}
OneCloser == {c1}
TwoClosers == {c1, c2}
OnePartition == {p1}
TwoPartitions == {p1, p2}

\* Bound: two calls share the messages of one partition, or one call those of
\* two.  Only the first message of the first partition is of any kind.
Bound ==
    /\ Len(log[p1]) = 2 => log[p1][2] = "wanted" /\ log[p2] = <<>>
    /\ log[p2] # <<>> => log[p2] = <<"wanted">> /\ loop[l2] = "idle"

BoundedNext == Next /\ Bound'
BoundedSpec == Init /\ [][BoundedNext]_vars
BoundedFairSpec == BoundedSpec /\ Fairness
=============================================================================

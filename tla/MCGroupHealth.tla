---------------------------- MODULE MCGroupHealth ----------------------------
(* Instances of GroupHealth for TLC. *)
EXTENDS GroupHealth, TLC

CONSTANTS m1, m2, p1, p2

OneMember == {m1}
TwoMembers == {m1, m2}
TwoPartitions == {p1, p2}

Symmetry == Permutations(Members) \cup Permutations(Partitions)
=============================================================================

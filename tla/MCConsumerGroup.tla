--------------------------- MODULE MCConsumerGroup ---------------------------
(* Instances of ConsumerGroup for TLC: members are interchangeable. *)
EXTENDS ConsumerGroup, TLC

CONSTANTS m1, m2, p1, p2, rideRequested, userDeleted, garbage

OneMember == {m1}
TwoMembers == {m1, m2}
OnePartition == {p1}
TwoPartitions == {p1, p2}
OneEventType == {rideRequested}
TwoEventTypes == {rideRequested, userDeleted}
RideHandler == {rideRequested}
NoHandler == {}

MemberSymmetry == Permutations(Members)
=============================================================================

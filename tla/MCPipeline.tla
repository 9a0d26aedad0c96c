------------------------------ MODULE MCPipeline ------------------------------
(* Instances of Pipeline for TLC. *)
EXTENDS Pipeline

CONSTANTS m1, m2, l1, p1, d1, rideRequested, userDeleted, garbage

OneMember == {m1}
TwoMembers == {m1, m2}
OneLoop == {l1}
None == {}
OnePartition == {p1}
OneDLQPartition == {d1}
TwoEventTypes == {rideRequested, userDeleted}
RideHandler == {rideRequested}
RideOrNone == {{rideRequested}, {}}
=============================================================================

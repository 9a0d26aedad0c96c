------------------------------ MODULE GroupHealth ------------------------------
(***************************************************************************)
(* consumer.GroupHealthChecker.Check: one check made up of the calls that  *)
(* read the group, its committed offsets and the ends of the partitions    *)
(* one after the other, while consumers join and leave, messages arrive    *)
(* and offsets are committed.                                              *)
(*                                                                         *)
(* (external) The cluster: partitions and committed offsets only grow, and *)
(* an offset never passes the end.  A broker need not describe what a      *)
(* member is assigned unless the group is Stable; sarama decodes that to   *)
(* nil.  Any call to the cluster may fail.                                 *)
(***************************************************************************)
EXTENDS Integers, FiniteSets, FiniteSetsExt

CONSTANTS
    Members,        \* consumers that may be in the group
    Partitions,     \* partitions of the checker's topics
    MaxLag,         \* GroupHealthConfig.MaxLag; 0: no threshold
    MaxLog          \* bound: messages per partition

ASSUME GroupHealthAssumption ==
    /\ IsFiniteSet(Partitions)
    /\ MaxLag \in Nat
    /\ MaxLog \in Nat

VARIABLES
    latest,         \* latest[p]: end of partition p (external)
    committed,      \* committed[p]: the group's offset, -1 if none (external)
    state,          \* the group's state (external)
    assignment,     \* assignment[m]: partitions of member m (external)
    ctxDone,        \* the context of the check is done
    pc,             \* where the check is
    description,    \* the group as described; Nil: members without assignment
    offsets,        \* the committed offsets as listed
    lagThen,        \* history: the lags when the offsets were listed
    lag,            \* lag[p]: what was computed, for the partitions done
    result          \* what the check returned

cluster == <<latest, committed, state, assignment>>
checker == <<pc, description, offsets, lagThen, lag, result>>
vars == <<cluster, ctxDone, checker>>

Nobody == [m \in {} |-> {}]
Unread == [p \in {} |-> 0]

Init ==
    /\ latest \in [Partitions -> 0 .. MaxLog]
    /\ committed \in [Partitions -> -1 .. MaxLog]
    /\ \A p \in Partitions : committed[p] <= latest[p]
    /\ state = "Empty"
    /\ assignment = Nobody
    /\ ctxDone = FALSE
    /\ pc = "idle"
    /\ description = [State |-> "none", Members |-> Nobody, Nil |-> {}]
    /\ offsets = Unread
    /\ lagThen = Unread
    /\ lag = Unread
    /\ result = "none"

-----------------------------------------------------------------------------
(* (external) What happens in the cluster meanwhile. *)

Produce(p) ==
    /\ latest[p] < MaxLog
    /\ latest' = [latest EXCEPT ![p] = @ + 1]
    /\ UNCHANGED <<committed, state, assignment, ctxDone, checker>>

\* A stable group commits.
CommitOffset(p) ==
    /\ state = "Stable"
    /\ \E o \in committed[p] + 1 .. latest[p] :
          committed' = [committed EXCEPT ![p] = o]
    /\ UNCHANGED <<latest, state, assignment, ctxDone, checker>>

\* Somebody joins or leaves.
Rebalance ==
    \E now \in SUBSET Members :
        /\ assignment' = [m \in now |->
              IF m \in DOMAIN assignment THEN assignment[m] ELSE {}]
        /\ state' = IF now = {} THEN "Empty" ELSE "PreparingRebalance"
        /\ UNCHANGED <<latest, committed, ctxDone, checker>>

\* Every partition gets an owner.
Stabilize ==
    /\ state = "PreparingRebalance"
    /\ state' = "Stable"
    /\ \E owner \in [Partitions -> DOMAIN assignment] :
          assignment' = [m \in DOMAIN assignment |-> {p \in Partitions : owner[p] = m}]
    /\ UNCHANGED <<latest, committed, ctxDone, checker>>

\* The caller's context is done.
Cancel ==
    /\ ~ctxDone
    /\ ctxDone' = TRUE
    /\ UNCHANGED <<cluster, checker>>

-----------------------------------------------------------------------------
(* Check. *)

Return(r) ==
    /\ pc' = "returned"
    /\ result' = r

\* After a step of the check, the context is looked at.
Unless(done, l) ==
    IF done THEN Return("Unhealthy") ELSE pc' = l /\ UNCHANGED result

\* Check is called.
Begin ==
    /\ pc = "idle"
    /\ Unless(ctxDone, "describe")
    /\ UNCHANGED <<cluster, ctxDone, description, offsets, lagThen, lag>>

\* A call to the cluster fails, or does not have the answer asked for: no
\* such group, an assignment that cannot be decoded, no block of a partition,
\* an error inside the answer.
CallFails ==
    /\ pc \in {"describe", "count", "offsets", "ends"}
    /\ Return("Unhealthy")
    /\ UNCHANGED <<cluster, ctxDone, description, offsets, lagThen, lag>>

\* describeGroup.
DescribeGroup ==
    /\ pc = "describe"
    /\ \E nil \in SUBSET (IF state = "Stable" THEN {} ELSE DOMAIN assignment) :
          description' = [State |-> state, Members |-> assignment, Nil |-> nil]
    /\ Unless(ctxDone, "count")
    /\ UNCHANGED <<cluster, ctxDone, offsets, lagThen, lag>>

AssignedPartitions == UNION {description.Members[m] : m \in DOMAIN description.Members}

\* countAssignedPartitions, which looks into every assignment, and
\* evaluateHealth up to the lag.
EvaluateGroup ==
    /\ pc = "count"
    /\ CASE description.Nil # {} -> Return("panic")
         [] description.Nil = {} /\ (ctxDone \/ AssignedPartitions = {}) ->
              Return("Unhealthy")
         [] OTHER ->
              IF description.State # "Stable" THEN Return("Degraded")
              ELSE pc' = "offsets" /\ UNCHANGED result
    /\ UNCHANGED <<cluster, ctxDone, description, offsets, lagThen, lag>>

\* Where a group that committed offset o reads on.
Position(o) == IF o >= 0 THEN o ELSE 0

\* How far the group is behind the end of p, and how much of p it has committed
\* since the offsets were listed.
CurrentLag(p) == latest[p] - Position(committed[p])
Advanced(p) == Position(committed[p]) - Position(offsets[p])

\* calculateLag lists the committed offsets ...
ListOffsets ==
    /\ pc = "offsets"
    /\ offsets' = committed
    /\ lagThen' = [p \in Partitions |-> CurrentLag(p)]
    /\ pc' = "ends"
    /\ UNCHANGED <<cluster, ctxDone, description, lag, result>>

\* Bug: the lag without a committed offset is taken from the offset -1.
Lag_NoOffset(p) == latest[p] - offsets[p]

\* Bug: the ends are read first, and the offsets with each partition.
Lag_EndsFirst(p) ==
    LET lagged == lagThen[p] - Advanced(p)
    IN  IF lagged < 0 THEN 0 ELSE lagged

\* The lag of p: all of the partition if nothing was committed, never
\* negative.
Lag(p) ==
    LET lagged == IF offsets[p] >= 0 THEN latest[p] - offsets[p] ELSE latest[p]
    IN  IF lagged < 0 THEN 0 ELSE lagged

\* ... and then gets the end of one partition after the other.
GetEnd(p) ==
    /\ pc = "ends" /\ p \notin DOMAIN lag
    /\ lag' = [q \in DOMAIN lag \cup {p} |-> IF q = p THEN Lag(p) ELSE lag[q]]
    /\ UNCHANGED <<cluster, ctxDone, pc, description, offsets, lagThen, result>>

\* The sum of f over all partitions.
Total(f) == MapThenSumSet(LAMBDA p : f[p], Partitions)

\* Bug: the threshold is compared with the largest lag of one partition.
Verdict_Max ==
    IF MaxLag > 0 /\ (\E p \in Partitions : lag[p] > MaxLag)
    THEN "Degraded" ELSE "Healthy"

Verdict == IF MaxLag > 0 /\ Total(lag) > MaxLag THEN "Degraded" ELSE "Healthy"

\* The end of evaluateHealth.
EvaluateLag ==
    /\ pc = "ends" /\ DOMAIN lag = Partitions
    /\ Return(IF ctxDone THEN "Unhealthy" ELSE Verdict)
    /\ UNCHANGED <<cluster, ctxDone, description, offsets, lagThen, lag>>

-----------------------------------------------------------------------------

Cluster ==
    \/ \E p \in Partitions : Produce(p) \/ CommitOffset(p)
    \/ Rebalance
    \/ Stabilize
    \/ Cancel

Check ==
    \/ Begin
    \/ CallFails
    \/ DescribeGroup
    \/ EvaluateGroup
    \/ ListOffsets
    \/ \E p \in Partitions : GetEnd(p)
    \/ EvaluateLag

Next == Cluster \/ Check

Spec == Init /\ [][Next]_vars

-----------------------------------------------------------------------------
(* Properties. *)

\* Each lag the check computes is no less than the lag the partition had when
\* the offsets were listed.  It may be more than the partition ever lagged, as
\* the end is newer than the offset: by no more than what the group has
\* committed of the partition in between.
LagBounded ==
    \A p \in DOMAIN lag :
        /\ lagThen[p] <= lag[p]
        /\ lag[p] <= CurrentLag(p) + Advanced(p)

\* Types; offsets are within their partitions, in the cluster and as listed, and
\* no lag is computed before they are.
TypeOK ==
    /\ latest \in [Partitions -> Nat]
    /\ committed \in [Partitions -> Int]
    /\ \A p \in Partitions : -1 <= committed[p] /\ committed[p] <= latest[p]
    /\ \A m \in DOMAIN assignment : assignment[m] \subseteq Partitions
    /\ \A m \in DOMAIN description.Members : description.Members[m] \subseteq Partitions
    /\ pc \in {"idle", "describe", "count", "offsets", "ends", "returned"}
    /\ result # "none" => pc = "returned"
    /\ DOMAIN lag \subseteq Partitions /\ \A p \in DOMAIN lag : lag[p] \in Nat
    /\ pc \in {"idle", "describe", "count", "offsets"} => DOMAIN lag = {}

\* What was listed is behind what is there now.
Listed ==
    /\ offsets \in [Partitions -> Int]
    /\ lagThen \in [Partitions -> Nat]
    /\ \A p \in Partitions :
          /\ -1 <= offsets[p] /\ offsets[p] <= committed[p]
          /\ lagThen[p] + Position(offsets[p]) <= latest[p]

\* The verdict compares the total of the lags with the threshold.
Compared ==
    MaxLag > 0 /\ DOMAIN lag = Partitions =>
        /\ result = "Healthy" => Total(lag) <= MaxLag
        /\ result = "Degraded" => Total(lag) > MaxLag

\* Why the answer can be relied on: once the offsets are listed, nothing that
\* moves meanwhile moves back, so every lag stays within its bounds, and the
\* verdict is about the lags that were computed.
IInv ==
    /\ TypeOK
    /\ pc = "ends" \/ DOMAIN lag # {} => Listed
    /\ LagBounded
    /\ Compared

\* A check with a threshold calls the group healthy only if its total lag was
\* within the threshold when the offsets were listed.  It calls a stable group
\* degraded only if what the group lags now and what it has committed since
\* they were listed come to more than the threshold: a group that commits
\* nothing meanwhile does exceed it.
VerdictSound ==
    MaxLag > 0 /\ DOMAIN lag = Partitions =>
        /\ result = "Healthy" => Total(lagThen) <= MaxLag
        /\ result = "Degraded" =>
              Total([p \in Partitions |-> CurrentLag(p) + Advanced(p)]) > MaxLag

\* Check answers for a group that rebalances, as its test expects for each of
\* the states that are not Stable.
RebalancingIsDegraded ==
    description.State = "PreparingRebalance" => result # "panic"
=============================================================================

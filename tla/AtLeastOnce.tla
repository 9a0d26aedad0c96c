----------------------------- MODULE AtLeastOnce -----------------------------
(***************************************************************************)
(* What a consumer group promises about a topic, with no sessions, no      *)
(* retries and no processes: every partition is settled in offset order,   *)
(* one message at a time, and the committed offset only moves forward and  *)
(* only over settled messages.  "Settled" means that the library is done   *)
(* with the message: a handler returned nil, or none was invoked for one   *)
(* of the reasons the code has, or the message was handed to the DLQ. That *)
(* includes a message that the DLQ rejected, which the consumer commits    *)
(* all the same, and for a replayer one that its filter passed over: what  *)
(* is settled is not offered again, but need not have been handled.        *)
(* ConsumerGroup and Replayer implement this specification.                *)
(***************************************************************************)
EXTENDS Integers, Sequences

CONSTANTS Partitions, Values

VARIABLES
    log,        \* log[p]: the messages published to partition p
    settled,    \* settled[p]: the offsets of p that have been disposed of
    committed   \* committed[p]: the group's committed offset, -1 if none

vars == <<log, settled, committed>>

Init ==
    /\ log = [p \in Partitions |-> <<>>]
    /\ settled = [p \in Partitions |-> {}]
    /\ committed = [p \in Partitions |-> -1]

Publish(p, v) ==
    /\ log' = [log EXCEPT ![p] = Append(@, v)]
    /\ UNCHANGED <<settled, committed>>

\* The next message to settle is the first one that is not settled.
Settle(p, o) ==
    /\ o \notin settled[p]
    /\ \A q \in 0 .. o - 1 : q \in settled[p]
    /\ settled' = [settled EXCEPT ![p] = @ \cup {o}]
    /\ UNCHANGED <<log, committed>>

\* A commit request may carry any number of partitions.
Commit ==
    /\ committed' \in [Partitions -> Int]
    /\ \A p \in Partitions :
          /\ committed'[p] >= committed[p]
          /\ \A o \in 0 .. committed'[p] - 1 : o \in settled[p]
    /\ UNCHANGED <<log, settled>>

Next ==
    \/ \E p \in Partitions, v \in Values : Publish(p, v)
    \/ \E p \in Partitions : \E o \in 0 .. Len(log[p]) - 1 : Settle(p, o)
    \/ Commit

Spec == Init /\ [][Next]_vars

=============================================================================

------------------------------- MODULE Pipeline -------------------------------
(***************************************************************************)
(* The way of an event through the library: published to a topic, consumed *)
(* by a group, dead-lettered when its handler keeps failing, replayed from *)
(* the DLQ by a replayer whose handler publishes it to the topic again.    *)
(* ConsumerGroup and Replayer are composed: they share two topics, and the *)
(* steps below that touch a topic are steps of both.                       *)
(*                                                                         *)
(* An event is identified by its event type, and published by a caller at  *)
(* most once.                                                              *)
(***************************************************************************)
EXTENDS Integers, Sequences, FiniteSets

CONSTANTS
    Members, Partitions, EventTypes, Malformed, Handlers, Wildcard,
    MaxRetries, DLQHandler, BoundPartition, BoundOffset, MaxLog, MaxChurn,
    Loops, Filtering, Closers, DLQPartitions, MaxDLQ, MaxFaults,
    EnableAutoCommit, OffsetReset,  \* of both consumer groups
    Filters,            \* filters of replays: sets of event types they match
    MaxFailures         \* bound: attempts that handlers fail

ASSUME PipelineAssumption ==
    /\ Filters \subseteq SUBSET EventTypes
    /\ MaxFailures \in Nat

VARIABLES
    \* of ConsumerGroup
    log, committed, member, current, cancelled, pc, pos, attempt, marked,
    fate, dlq, churn, faulted,
    \* of Replayer; rCommitted, rPos, rMarked, rFaulted are its committed,
    \* pos, marked and faulted
    closed, wg, group, ctxDone, loop, result, closer, stats, rCommitted,
    claim, rPos, rMarked, ended, replays, disposed, faults, rFaulted,
    \* of both
    dlqTopic,   \* dlqTopic[q]: the events in partition q of the DLQ topic
    wanted,     \* what the filter of the replays matches; never changes
    failures    \* attempts that have failed, at most MaxFailures

consumer == <<log, committed, member, current, cancelled, pc, pos, attempt,
              marked, fate, dlq, churn, faulted>>
replayer == <<closed, wg, group, ctxDone, loop, result, closer, stats,
              rCommitted, claim, rPos, rMarked, ended, replays, disposed,
              faults, rFaulted>>
vars == <<consumer, replayer, dlqTopic, wanted, failures>>

CG == INSTANCE ConsumerGroup

\* What the replayer makes of a DLQ record depends on what its filter wants.
Kind(event) == IF event \in wanted THEN "wanted" ELSE "unwanted"

DLQLog == [q \in DLQPartitions |->
              [i \in DOMAIN dlqTopic[q] |-> Kind(dlqTopic[q][i])]]

R == INSTANCE Replayer WITH
        Partitions <- DLQPartitions, MaxLog <- MaxDLQ, log <- DLQLog,
        committed <- rCommitted, pos <- rPos, marked <- rMarked,
        faulted <- rFaulted

ASSUME ComponentsAssumption == CG!ConfigAssumption /\ R!ReplayerAssumption

Init ==
    /\ dlqTopic = [q \in DLQPartitions |-> <<>>]
    /\ wanted \in Filters
    /\ failures = 0
    /\ CG!Init
    /\ R!Init

-----------------------------------------------------------------------------

Occurs(event, p) == \E o \in DOMAIN log[p] : log[p][o] = event
Published(event) == \E p \in Partitions : Occurs(event, p)

\* Steps of one component that touch no topic of the other.
Consumer(A) == A /\ UNCHANGED <<replayer, dlqTopic, wanted>>
Replay(A) == UNCHANGED <<consumer, dlqTopic, wanted, failures>> /\ A

\* A caller publishes a new event.
Publish(p, event) ==
    /\ ~Published(event)
    /\ Consumer(CG!Produce(p, event))
    /\ UNCHANGED failures

\* A handler fails an attempt.
HandlerFails(m, p) ==
    /\ failures < MaxFailures
    /\ failures' = failures + 1
    /\ Consumer(CG!HandlerFails(m, p))

\* Bug: Handle sends to a topic other than the one that the replayer reads.
DeadLetter_OtherTopic(m, p) ==
    /\ CG!SendToDLQ(m, p)
    /\ UNCHANGED <<replayer, dlqTopic, wanted, failures>>

\* The DLQ callback: the DLQ topic has the envelope, or the message is lost.
DeadLetter(m, p) ==
    LET event == CG!Message(p, pos[m][p])
    IN  /\ CG!SendToDLQ(m, p)
        /\ UNCHANGED <<wanted, failures>>
        /\ \/ /\ UNCHANGED fate
              /\ \E d \in dlq' : d.envelope = <<p, pos[m][p]>>
              /\ \E q \in DLQPartitions :
                    /\ dlqTopic' = [dlqTopic EXCEPT ![q] = Append(@, event)]
                    /\ R!Arrive(q, Kind(event))
           \/ /\ \E f \in {"lost", "discarded"} : <<p, pos[m][p], f>> \in fate'
              /\ UNCHANGED <<dlq, replayer, dlqTopic>>

Replayed(q) == dlqTopic[q][rPos[q] + 1]

\* The replay handler publishes the envelope to its topic again ...
Republish(l, q) ==
    /\ UNCHANGED <<dlqTopic, wanted, failures>>
    /\ R!ReplaySucceeds(l, q)
    /\ \E p \in Partitions : CG!Produce(p, Replayed(q))

\* ... or Publish returns an error, whether the broker has stored it or not.
RepublishFails(l, q) ==
    /\ UNCHANGED <<dlqTopic, wanted, failures>>
    /\ R!ReplayFails(l, q)
    /\ \/ \E p \in Partitions : CG!Produce(p, Replayed(q))
       \/ UNCHANGED consumer

\* Every record of the topic decodes: a caller, or a replay, has published it.
ConsumerClaimStep(m, p) ==
    \/ Consumer(CG!SkipUnrouted(m, p)) /\ UNCHANGED failures
    \/ Consumer(CG!BeginAttempts(m, p)) /\ UNCHANGED failures
    \/ Consumer(CG!HandlerSucceeds(m, p)) /\ UNCHANGED failures
    \/ HandlerFails(m, p)
    \/ DeadLetter(m, p)
    \/ Consumer(CG!FinishMessage(m, p)) /\ UNCHANGED failures
    \/ Consumer(CG!EndClaim(m, p)) /\ UNCHANGED failures

ReplayClaimStep(l, q) ==
    \/ Replay(R!Receive(l, q))
    \/ Replay(R!Skip(l, q))
    \/ Republish(l, q)
    \/ RepublishFails(l, q)
    \/ Replay(R!EndClaim(l, q))

AutoCommit(m, p) == Consumer(CG!AutoCommit(m, p)) /\ UNCHANGED failures
MemberStep(m) == Consumer(CG!MemberStep(m)) /\ UNCHANGED failures
Rebalance ==
    /\ \E assignment \in [Partitions -> Members] :
          Consumer(CG!Rebalance(assignment))
    /\ UNCHANGED failures

ConsumerStep ==
    \/ Rebalance
    \/ \E m \in Members : MemberStep(m)
    \/ \E m \in Members, p \in Partitions :
          ConsumerClaimStep(m, p) \/ AutoCommit(m, p)

ReplayerStep ==
    \/ Replay(R!Crash)
    \/ \E l \in Loops : Replay(R!LoopStep(l))
    \/ \E l \in Loops, q \in DLQPartitions :
          ReplayClaimStep(l, q) \/ Replay(R!AutoCommit(l, q))
    \/ \E c \in Closers : Replay(R!CloserStep(c))

Next ==
    \/ \E p \in Partitions, event \in EventTypes : Publish(p, event)
    \/ ConsumerStep
    \/ ReplayerStep

Spec == Init /\ [][Next]_vars

(* As in ConsumerGroup and in Replayer. *)
Fairness ==
    /\ WF_vars(Rebalance)
    /\ \A m \in Members :
          /\ WF_vars(Consumer(CG!Start(m)) /\ UNCHANGED failures)
          /\ WF_vars(Consumer(CG!Heartbeat(m)) /\ UNCHANGED failures)
          /\ WF_vars(Consumer(CG!EndSession(m)) /\ UNCHANGED failures)
          /\ \A p \in Partitions : WF_vars(ConsumerClaimStep(m, p))
    /\ \A l \in Loops :
          WF_vars(Replay(\/ R!LoopTop(l) \/ R!OpenSession(l) \/ R!ConsumeFails(l)
                         \/ R!EndSession(l) \/ R!AfterSession(l)))
    /\ \A q \in DLQPartitions :
          WF_vars(\E l \in Loops : ReplayClaimStep(l, q))

FairSpec == Spec /\ Fairness

-----------------------------------------------------------------------------
(* Properties. *)

Handled(event) ==
    \E p \in Partitions : \E o \in DOMAIN log[p] :
        log[p][o] = event /\ <<p, o - 1, "handled">> \in fate

\* The library has given the event up: no handler, no attempt, or a DLQ that
\* is missing or rejected it; or a filtered replay passed over it.
GivenUp(event) ==
    \/ \E p \in Partitions : \E o \in DOMAIN log[p] :
          /\ log[p][o] = event
          /\ \E f \in {"unrouted", "uninvoked", "discarded", "lost"} :
                <<p, o - 1, f>> \in fate
    \/ \E q \in DLQPartitions : \E o \in DOMAIN dlqTopic[q] :
          dlqTopic[q][o] = event /\ event \notin wanted /\ o - 1 \in disposed[q]

\* The topic, or the DLQ, holds the event where its group has yet to go.
Ahead(event) ==
    \/ \E p \in Partitions : \E o \in DOMAIN log[p] :
          log[p][o] = event /\ o > committed[p]
    \/ \E q \in DLQPartitions : \E o \in DOMAIN dlqTopic[q] :
          dlqTopic[q][o] = event /\ o > rCommitted[q]

\* No event falls between the two consumer groups: whoever crashes, is
\* evicted or fails, and whichever commit is lost, an event that nobody has
\* handled or given up is still ahead of one of the committed offsets.
NoEventLost ==
    OffsetReset = "earliest" =>
        \A event \in EventTypes :
            Published(event) => Handled(event) \/ GivenUp(event) \/ Ahead(event)

\* Where the topic has been handled for an event.
HandledAt(event) ==
    {x \in fate : x[3] = "handled" /\ log[x[1]][x[2] + 1] = event}

\* No fault, and no replay that failed though it had published, has repeated
\* anything.
Undisturbed == EnableAutoCommit /\ ~faulted /\ ~rFaulted /\ stats.Failed = 0

\* An event goes round by way of the DLQ without being handled twice, unless
\* a fault, or a replay that failed though it had published, repeats it.
HandledOnce ==
    Undisturbed => \A event \in EventTypes : Cardinality(HandledAt(event)) <= 1

\* As long as a call of Replay goes on and handlers do not fail for ever,
\* every event that is published is handled or given up in the end.
EventuallyHandled ==
    <>[](wg # {}) =>
        \A event \in EventTypes :
            Published(event) ~> Handled(event) \/ GivenUp(event)

-----------------------------------------------------------------------------
(* The invariants behind NoEventLost and HandledOnce. *)

\* Both topics hold events that callers have published.
Typed ==
    /\ log \in [Partitions -> Seq(EventTypes)]
    /\ dlqTopic \in [DLQPartitions -> Seq(EventTypes)]
    /\ wanted \subseteq EventTypes

\* The consumer group, or the replayer, has yet to dispose of the event.
Waits(event) ==
    \/ \E p \in Partitions : \E o \in DOMAIN log[p] :
          log[p][o] = event /\ ~CG!Settled(p, o - 1)
    \/ \E q \in DLQPartitions : \E o \in DOMAIN dlqTopic[q] :
          dlqTopic[q][o] = event /\ o - 1 \notin disposed[q]

\* Whoever disposes of an event has handled it, gives it up, or has stored it
\* in the topic of the other.
Accounted ==
    \A event \in EventTypes :
        Published(event) => Handled(event) \/ GivenUp(event) \/ Waits(event)

\* The inductive invariant: each component keeps its own, and no event leaves
\* one without being accounted for.
IInv == Typed /\ CG!IInv /\ R!IInv /\ Accounted

\* Where the event waits in the topic to be settled, and in the DLQ to be
\* replayed.
OnTopic(event) ==
    {x \in UNION {{p} \X DOMAIN log[p] : p \in Partitions} :
        log[x[1]][x[2]] = event /\ ~CG!Settled(x[1], x[2] - 1)}
InDLQ(event) ==
    {x \in UNION {{q} \X DOMAIN dlqTopic[q] : q \in DLQPartitions} :
        dlqTopic[x[1]][x[2]] = event /\ replays[x[1]][x[2] - 1] = 0}

AtMostOne(S) == \A x, y \in S : x = y

\* The event is in one place: in the topic, in the DLQ, or handled.
Single(event) ==
    /\ AtMostOne(OnTopic(event))
    /\ AtMostOne(InDLQ(event))
    /\ AtMostOne(HandledAt(event))
    /\ OnTopic(event) = {} \/ InDLQ(event) = {}
    /\ OnTopic(event) \cup InDLQ(event) = {} \/ HandledAt(event) = {}

\* Why no event is handled twice: the DLQ holds only events that the topic
\* has held, and of an event that goes round undisturbed there is one copy at
\* a time.
OneCopy ==
    /\ \A q \in DLQPartitions : \A o \in DOMAIN dlqTopic[q] : Published(dlqTopic[q][o])
    /\ Undisturbed => \A event \in EventTypes : Single(event)
=============================================================================

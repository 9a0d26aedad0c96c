---------------------------- MODULE Pipeline_proofs ----------------------------
(***************************************************************************)
(* Proofs about Pipeline, for every value of its constants: it runs a      *)
(* consumer group and a replayer, so that the theorems about these hold of *)
(* it, and no event falls between the two.                                 *)
(***************************************************************************)
EXTENDS Pipeline, FiniteSetTheorems, TLAPS

\* The two components with what is proved about them.
CGP == INSTANCE Redelivery_proofs
RP == INSTANCE Replayer_proofs WITH
         Partitions <- DLQPartitions, MaxLog <- MaxDLQ, log <- DLQLog,
         committed <- rCommitted, pos <- rPos, marked <- rMarked,
         faulted <- rFaulted

-----------------------------------------------------------------------------
(* What is proved about the components is about those of Pipeline: the     *)
(* definitions are the same.                                               *)

\* The assumption of the consumer group holds.
LEMMA GroupAssumption == CGP!ConfigAssumption
  BY ComponentsAssumption DEF CG!ConfigAssumption, CGP!ConfigAssumption

\* So does that of the replayer.
LEMMA ReplayAssumption == RP!ReplayerAssumption
  BY ComponentsAssumption 
     DEF R!ReplayerAssumption, RP!ReplayerAssumption, R!IsFiniteSet, RP!IsFiniteSet

\* ConsumerGroup and what Redelivery_proofs extends.
LEMMA SameGroup ==
    /\ CG!Init <=> CGP!Init
    /\ [CG!Next]_(CG!vars) <=> [CGP!Next]_(CGP!vars)
    /\ CG!IInv <=> CGP!IInv
    /\ CG!IInv' <=> CGP!IInv'
    /\ CG!CommittedSettled <=> CGP!CommittedSettled
    /\ CG!NoRedeliveryWithoutFault <=> CGP!NoRedeliveryWithoutFault
  BY DEF
         CG!Values, CGP!Values, CG!session, CGP!session, CG!claims,
         CGP!claims, CG!vars, CGP!vars, CG!Nil, CGP!Nil,
         CG!WildcardHandler, CGP!WildcardHandler, CG!Get, CGP!Get,
         CG!Message, CGP!Message, CG!Fates, CGP!Fates, CG!Dispositions,
         CGP!Dispositions, CG!Stages, CGP!Stages, CG!NewMessage,
         CGP!NewMessage, CG!DLQMessages, CGP!DLQMessages,
         CG!DeadLettered, CGP!DeadLettered, CG!HasFate, CGP!HasFate,
         CG!Settled, CGP!Settled, CG!Owns, CGP!Owns, CG!Joining,
         CGP!Joining, CG!NeedsRebalance, CGP!NeedsRebalance,
         CG!StartOffset, CGP!StartOffset, CG!NoClaims, CGP!NoClaims,
         CG!ForgetClaims, CGP!ForgetClaims, CG!Churn, CGP!Churn,
         CG!Init, CGP!Init, CG!Produce, CGP!Produce, CG!Start,
         CGP!Start, CG!Stop, CGP!Stop, CG!Rebalance, CGP!Rebalance,
         CG!Heartbeat, CGP!Heartbeat, CG!LoseSession, CGP!LoseSession,
         CG!MarkMessage, CGP!MarkMessage, CG!Dispose, CGP!Dispose,
         CG!Receives, CGP!Receives, CG!SkipUndecodable,
         CGP!SkipUndecodable, CG!SkipUnrouted, CGP!SkipUnrouted,
         CG!BeginAttempts, CGP!BeginAttempts, CG!HandlerSucceeds,
         CGP!HandlerSucceeds, CG!HandlerFails, CGP!HandlerFails,
         CG!Handle, CGP!Handle, CG!ConsumerDLQHandler,
         CGP!ConsumerDLQHandler, CG!SendToDLQ, CGP!SendToDLQ,
         CG!FinishMessage, CGP!FinishMessage, CG!AutoCommit,
         CGP!AutoCommit, CG!EndClaim, CGP!EndClaim, CG!EndSession,
         CGP!EndSession, CG!Crash, CGP!Crash, CG!ClaimStep,
         CGP!ClaimStep, CG!MemberStep, CGP!MemberStep, CG!Next,
         CGP!Next, CG!TypeOK, CGP!TypeOK, CG!CommittedSettled,
         CGP!CommittedSettled, CG!NoRedeliveryWithoutFault,
         CGP!NoRedeliveryWithoutFault, CG!SettledBelow,
         CGP!SettledBelow, CG!ClaimsNeedSession, CGP!ClaimsNeedSession,
         CG!OneOwner, CGP!OneOwner, CG!InOrder, CGP!InOrder,
         CG!InProgress, CGP!InProgress, CG!OwnerAhead, CGP!OwnerAhead,
         CG!ClaimsSound, CGP!ClaimsSound, CG!CommittedInLog,
         CGP!CommittedInLog, CG!SettledInLog, CGP!SettledInLog, CG!IInv,
         CGP!IInv

\* Replayer and what Replayer_proofs extends.
LEMMA SameReplayer ==
    /\ R!Init <=> RP!Init
    /\ [R!Next]_(R!vars) <=> [RP!Next]_(RP!vars)
    /\ R!IInv <=> RP!IInv
    /\ R!IInv' <=> RP!IInv'
    /\ R!ReplayInv <=> RP!ReplayInv
  BY DEF
         R!calls, RP!calls, R!data, RP!data, R!vars, RP!vars, R!Kinds,
         RP!Kinds, R!Offsets, RP!Offsets, R!Init, RP!Init, R!Fault,
         RP!Fault, R!Arrive, RP!Arrive, R!ForgetClaims, RP!ForgetClaims,
         R!Crash, RP!Crash, R!InSession, RP!InSession, R!SessionDone,
         RP!SessionDone, R!Cancel, RP!Cancel, R!Return, RP!Return,
         R!Enter, RP!Enter, R!LoopTop, RP!LoopTop, R!StartOffset,
         RP!StartOffset, R!OpenSession, RP!OpenSession, R!ConsumeError,
         RP!ConsumeError, R!ConsumeFails, RP!ConsumeFails,
         R!AfterSession, RP!AfterSession, R!Message, RP!Message,
         R!Receive, RP!Receive, R!Mark, RP!Mark, R!Skipped, RP!Skipped,
         R!Skip, RP!Skip, R!ReplaySucceeds, RP!ReplaySucceeds,
         R!ReplayFails, RP!ReplayFails, R!SessionRebalance,
         RP!SessionRebalance, R!EndClaim, RP!EndClaim, R!AutoCommit,
         RP!AutoCommit, R!EndSession, RP!EndSession, R!CloseFlag,
         RP!CloseFlag, R!CloseGroup, RP!CloseGroup, R!CloseLeave,
         RP!CloseLeave, R!CloseClient, RP!CloseClient, R!CloseWait,
         RP!CloseWait, R!ClaimStep,
         RP!ClaimStep, R!LoopStep, RP!LoopStep, R!CloserStep,
         RP!CloserStep, R!Next, RP!Next, R!TypeOK, RP!TypeOK, R!Counted,
         RP!Counted, R!OneSession, RP!OneSession, R!CloseProgress,
         RP!CloseProgress, R!InOrder, RP!InOrder, R!Prefix, RP!Prefix,
         R!IInv, RP!IInv, R!FreshFrom, RP!FreshFrom, R!ReplayInv,
         RP!ReplayInv

\* A step of the group preserves its invariant.
LEMMA GroupInv == ASSUME CG!IInv, [CG!Next]_(CG!vars) PROVE CG!IInv'
  <1>1. CGP!IInv /\ [CGP!Next]_(CGP!vars)
    BY SameGroup
  <1>2. CGP!IInv'
    BY <1>1, GroupAssumption, CGP!NextInv
  <1> QED
    BY <1>2, SameGroup

\* A step of the replayer preserves its invariant.
LEMMA ReplayerInv == ASSUME R!IInv, [R!Next]_(R!vars) PROVE R!IInv'
  <1>1. RP!IInv /\ [RP!Next]_(RP!vars)
    BY SameReplayer
  <1>2. RP!IInv'
    BY <1>1, ReplayAssumption, RP!NextInv
  <1> QED
    BY <1>2, SameReplayer

-----------------------------------------------------------------------------
(* A step of Pipeline is a step, or none, of each component.               *)

\* The replayer sees as many records of the DLQ as there are.
LEMMA DLQLength ==
  ASSUME Typed, R!IInv, NEW q \in DLQPartitions
  PROVE  Len(DLQLog[q]) = Len(dlqTopic[q])
  <1>1. DLQLog[q] \in Seq(R!Kinds) /\ dlqTopic[q] \in Seq(EventTypes)
    BY DEF Typed, R!IInv, R!TypeOK
  <1>2. DOMAIN DLQLog[q] = DOMAIN dlqTopic[q]
    BY DEF DLQLog
  <1> QED
    BY <1>1, <1>2

\* The record a replay handler has is an event.
LEMMA ReplayedEvent ==
  ASSUME Typed, R!IInv, NEW q \in DLQPartitions, rPos[q] < Len(DLQLog[q])
  PROVE  /\ rPos[q] \in Nat
         /\ rPos[q] + 1 \in DOMAIN dlqTopic[q]
         /\ Replayed(q) \in EventTypes
  <1>1. rPos[q] \in Nat
    BY DEF R!IInv, R!TypeOK
  <1>2. Len(DLQLog[q]) = Len(dlqTopic[q]) /\ dlqTopic[q] \in Seq(EventTypes)
    BY DLQLength DEF Typed
  <1> QED
    BY <1>1, <1>2 DEF Replayed

\* A claim of the replayer in processMessage has a message.
LEMMA ClaimHas ==
  ASSUME R!IInv, NEW q \in DLQPartitions, rPos[q] \in Nat, claim[q] = "got"
  PROVE  rPos[q] < Len(DLQLog[q])
  BY DEF R!IInv, R!InOrder

\* Publishing an event is a step of the group.
LEMMA ProduceStep ==
  ASSUME NEW p \in Partitions, NEW event \in EventTypes, CG!Produce(p, event)
  PROVE  CG!Next
  BY DEF CG!Next, CG!Values

\* What a step of the pipeline does to the consumer group is a step of it.
LEMMA GroupStep ==
  ASSUME IInv, [Next]_vars
  PROVE  [CG!Next]_(CG!vars)
  <1>1. CASE UNCHANGED consumer
    BY <1>1 DEF consumer, CG!vars
  <1>2. CASE \E p \in Partitions, event \in EventTypes : Publish(p, event)
    BY <1>2, ProduceStep DEF Publish, Consumer
  <1>3. CASE ConsumerStep
    <2>1. CASE Rebalance
      BY <2>1 DEF Rebalance, Consumer, CG!Next
    <2>2. CASE \E m \in Members : MemberStep(m)
      BY <2>2 DEF MemberStep, Consumer, CG!Next
    <2>3. ASSUME NEW m \in Members, NEW p \in Partitions, AutoCommit(m, p)
          PROVE  CG!Next
      BY <2>3 DEF AutoCommit, Consumer, CG!Next, CG!ClaimStep
    <2>4. ASSUME NEW m \in Members, NEW p \in Partitions, ConsumerClaimStep(m, p)
          PROVE  CG!Next
      <3>1. CG!ClaimStep(m, p)
        BY <2>4 DEF ConsumerClaimStep, HandlerFails, DeadLetter, Consumer, CG!ClaimStep
      <3> QED
        BY <3>1 DEF CG!Next
    <2> QED
      BY <1>3, <2>1, <2>2, <2>3, <2>4 DEF ConsumerStep
  <1>4. CASE ReplayerStep
    <2>1. ASSUME NEW l \in Loops, NEW q \in DLQPartitions,
                 Republish(l, q) \/ RepublishFails(l, q)
          PROVE  CG!Next \/ UNCHANGED consumer
      <3>1. claim[q] = "got" /\ rPos[q] \in Nat
        BY <2>1 DEF Republish, RepublishFails, R!ReplaySucceeds, R!ReplayFails,
                    IInv, R!IInv, R!TypeOK
      <3>2. Replayed(q) \in EventTypes
        BY <3>1, ClaimHas, ReplayedEvent DEF IInv
      <3> QED
        BY <2>1, <3>2, ProduceStep DEF Republish, RepublishFails
    <2> QED
      BY <1>1, <1>4, <2>1 DEF ReplayerStep, ReplayClaimStep, Replay
  <1> QED
    BY <1>1, <1>2, <1>3, <1>4 DEF Next, vars

\* What a step of the pipeline does to the replayer is a step of it.
LEMMA ReplayerStepOf ==
  ASSUME [Next]_vars
  PROVE  [R!Next]_(R!vars)
  <1>1. CASE UNCHANGED <<replayer, dlqTopic, wanted>>
    <2>1. UNCHANGED DLQLog
      BY <1>1 DEF DLQLog, Kind
    <2> QED
      BY <1>1, <2>1 DEF replayer, R!vars, R!calls, R!data
  <1>2. ASSUME NEW m \in Members, NEW p \in Partitions, DeadLetter(m, p)
        PROVE  [R!Next]_(R!vars)
    <2>1. CASE UNCHANGED <<replayer, dlqTopic>>
      BY <1>1, <1>2, <2>1 DEF DeadLetter
    <2>2. ASSUME NEW q \in DLQPartitions, R!Arrive(q, Kind(CG!Message(p, pos[m][p])))
          PROVE  R!Next
      BY <2>2 DEF R!Next, R!Kinds, Kind
    <2> QED
      BY <1>2, <2>1, <2>2 DEF DeadLetter
  <1>3. CASE ConsumerStep
    BY <1>1, <1>2, <1>3
       DEF ConsumerStep, ConsumerClaimStep, Rebalance, MemberStep, AutoCommit,
           HandlerFails, Consumer
  <1>4. CASE \E p \in Partitions, event \in EventTypes : Publish(p, event)
    BY <1>1, <1>4 DEF Publish, Consumer
  <1>5. CASE ReplayerStep
    BY <1>5 DEF ReplayerStep, ReplayClaimStep, Replay, Republish, RepublishFails,
                R!Next, R!ClaimStep, R!LoopStep
  <1> QED
    BY <1>1, <1>3, <1>4, <1>5 DEF Next, vars

-----------------------------------------------------------------------------
(* What the steps do to events.                                            *)

\* An offset of the topic is given a fate by a claim that has its message.
Settles(m, p, f) ==
    /\ pc[m][p] \in {"idle", "invoke", "dlq"}
    /\ pos[m][p] + 1 \in DOMAIN log[p]
    /\ fate' = fate \cup {<<p, pos[m][p], f>>}
    /\ UNCHANGED <<log, dlq, dlqTopic, wanted, disposed, replays>>

\* A message is settled by its copy in partition q of the DLQ.
Stores(m, p, q) ==
    /\ pc[m][p] = "dlq"
    /\ pos[m][p] + 1 \in DOMAIN log[p]
    /\ \E d : d.envelope = <<p, pos[m][p]>> /\ dlq' = dlq \cup {d}
    /\ dlqTopic' = [dlqTopic EXCEPT ![q] = Append(@, log[p][pos[m][p] + 1])]
    /\ UNCHANGED <<log, fate, wanted, disposed, replays>>

\* The topic has one more event.
Appends(p, event) ==
    /\ log' = [log EXCEPT ![p] = Append(@, event)]
    /\ UNCHANGED <<fate, dlq, dlqTopic, wanted>>

\* The replayer has the next message of q in a claim, and is done with it.
Passes(q) ==
    /\ claim[q] = "got"
    /\ rPos[q] + 1 \in DOMAIN dlqTopic[q]
    /\ disposed' = [disposed EXCEPT ![q] = @ \cup {rPos[q]}]

\* A filter passes over it.
Skips(q) ==
    /\ Passes(q)
    /\ Replayed(q) \notin wanted
    /\ UNCHANGED <<log, fate, dlq, dlqTopic, wanted, replays>>

Quiet == UNCHANGED <<log, fate, dlq, dlqTopic, wanted, disposed, replays>>

\* Everything a step can do to the events of the two topics.
Effect ==
    \/ Quiet
    \/ \E p \in Partitions, event \in EventTypes :
          ~Published(event) /\ Appends(p, event) /\ UNCHANGED <<disposed, replays>>
    \/ \E m \in Members, p \in Partitions,
          f \in {"handled", "unrouted", "uninvoked", "discarded", "lost"} :
          Settles(m, p, f)
    \/ \E m \in Members, p \in Partitions, q \in DLQPartitions : Stores(m, p, q)
    \/ \E q \in DLQPartitions : Skips(q)
    \/ \E p \in Partitions, q \in DLQPartitions :
          /\ Appends(p, Replayed(q))
          /\ Passes(q)
          /\ replays' = [replays EXCEPT ![q][rPos[q]] = @ + 1]
    \/ \E p \in Partitions, q \in DLQPartitions :
          /\ Replayed(q) \in EventTypes
          /\ Appends(p, Replayed(q)) /\ UNCHANGED <<disposed, replays>>
          /\ stats'.Failed # 0

\* No step does more to the events than one of these.
LEMMA Effects ==
  ASSUME IInv, [Next]_vars
  PROVE  Effect
  <1>1. CASE UNCHANGED vars
    BY <1>1 DEF vars, consumer, replayer, Quiet, Effect
  <1>2. ASSUME NEW p \in Partitions, NEW event \in EventTypes, Publish(p, event)
        PROVE  Effect
    <2>1. ~Published(event) /\ Appends(p, event) /\ UNCHANGED <<disposed, replays>>
      BY <1>2 DEF Publish, Consumer, CG!Produce, Appends, replayer
    <2> QED
      BY <2>1 DEF Effect
  <1>3. CASE Rebalance \/ \E m \in Members : MemberStep(m)
    <2>1. Quiet
      BY <1>3
         DEF Rebalance, MemberStep, Consumer, replayer, CG!Rebalance, CG!MemberStep,
             CG!Start, CG!Stop, CG!Heartbeat, CG!LoseSession, CG!EndSession,
             CG!Crash, Quiet
    <2> QED
      BY <2>1 DEF Effect
  <1>4. ASSUME NEW m \in Members, NEW p \in Partitions, AutoCommit(m, p)
        PROVE  Effect
    <2>1. Quiet
      BY <1>4 DEF AutoCommit, Consumer, replayer, CG!AutoCommit, Quiet
    <2> QED
      BY <2>1 DEF Effect
  <1>5. ASSUME NEW m \in Members, NEW p \in Partitions, ConsumerClaimStep(m, p)
        PROVE  Effect
    <2>1. /\ log[p] \in Seq(EventTypes)
          /\ pos[m][p] \in Nat
      BY DEF IInv, Typed, CG!IInv, CG!TypeOK
    <2>2. pos[m][p] < Len(log[p]) => pos[m][p] + 1 \in DOMAIN log[p]
      BY <2>1
    <2>3. pc[m][p] \in {"invoke", "dlq"} => pos[m][p] < Len(log[p])
      BY DEF IInv, CG!IInv, CG!ClaimsSound, CG!InProgress
    <2>4. CASE Consumer(CG!SkipUnrouted(m, p))
      <3>1. Settles(m, p, "unrouted")
        BY <2>2, <2>4 DEF Consumer, replayer, CG!SkipUnrouted, CG!Receives, CG!Dispose,
                          Settles
      <3> QED
        BY <3>1 DEF Effect
    <2>5. CASE Consumer(CG!BeginAttempts(m, p))
      <3>1. Quiet \/ Settles(m, p, "uninvoked")
        BY <2>2, <2>5 DEF Consumer, replayer, CG!BeginAttempts, CG!Receives, CG!Dispose,
                          Settles, Quiet
      <3> QED
        BY <3>1 DEF Effect
    <2>6. CASE Consumer(CG!HandlerSucceeds(m, p))
      <3>1. Settles(m, p, "handled")
        BY <2>2, <2>3, <2>6 DEF Consumer, replayer, CG!HandlerSucceeds, CG!Dispose, Settles
      <3> QED
        BY <3>1 DEF Effect
    <2>7. CASE \/ HandlerFails(m, p)
               \/ Consumer(CG!FinishMessage(m, p)) \/ Consumer(CG!EndClaim(m, p))
      <3>1. Quiet
        BY <2>7 DEF HandlerFails, Consumer, replayer, CG!HandlerFails,
                    CG!FinishMessage, CG!EndClaim, Quiet
      <3> QED
        BY <3>1 DEF Effect
    <2>8. CASE DeadLetter(m, p)
      <3>0. /\ pc[m][p] = "dlq" /\ pos[m][p] + 1 \in DOMAIN log[p]
            /\ CG!Message(p, pos[m][p]) = log[p][pos[m][p] + 1]
            /\ UNCHANGED <<log, wanted>>
        BY <2>2, <2>3, <2>8 DEF DeadLetter, CG!SendToDLQ, CG!Message
      <3>1. ASSUME UNCHANGED fate, NEW q \in DLQPartitions,
                   \E d \in dlq' : d.envelope = <<p, pos[m][p]>>,
                   dlqTopic' = [dlqTopic EXCEPT ![q] = Append(@, CG!Message(p, pos[m][p]))],
                   R!Arrive(q, Kind(CG!Message(p, pos[m][p])))
            PROVE  Effect
        <4>1. CASE UNCHANGED dlq
          <5>1. \E d : d.envelope = <<p, pos[m][p]>> /\ dlq' = dlq \cup {d}
            BY <3>1, <4>1
          <5>2. Stores(m, p, q)
            BY <3>0, <3>1, <5>1 DEF Stores, R!Arrive, R!data
          <5> QED
            BY <5>2 DEF Effect
        <4>2. CASE ~UNCHANGED dlq
          <5> DEFINE msg == CG!NewMessage(BoundPartition, BoundOffset, MaxRetries,
                                          <<p, pos[m][p]>>)
          <5>1. dlq' = dlq \cup {msg}
            BY <2>8, <4>2 DEF DeadLetter, CG!SendToDLQ, CG!ConsumerDLQHandler, CG!Handle
          <5>2. msg.envelope = <<p, pos[m][p]>>
            BY DEF CG!NewMessage
          <5>3. \E d : d.envelope = <<p, pos[m][p]>> /\ dlq' = dlq \cup {d}
            BY <5>1, <5>2
          <5>4. Stores(m, p, q)
            BY <3>0, <3>1, <5>3 DEF Stores, R!Arrive, R!data
          <5> QED
            BY <5>4 DEF Effect
        <4> QED
          BY <4>1, <4>2
      <3>2. ASSUME NEW f \in {"lost", "discarded"}, <<p, pos[m][p], f>> \in fate',
                   UNCHANGED <<dlq, replayer, dlqTopic>>
            PROVE  Effect
        <4>1. \/ fate' = fate
              \/ fate' = fate \cup {<<p, pos[m][p], "lost">>}
              \/ fate' = fate \cup {<<p, pos[m][p], "discarded">>}
          BY <2>8 DEF DeadLetter, CG!SendToDLQ, CG!ConsumerDLQHandler, CG!Handle, CG!Dispose
        <4>2. \E g \in {"lost", "discarded"} : fate' = fate \cup {<<p, pos[m][p], g>>}
          BY <3>2, <4>1
        <4>3. \E g \in {"lost", "discarded"} : Settles(m, p, g)
          BY <3>0, <3>2, <4>2 DEF Settles, replayer
        <4> QED
          BY <4>3 DEF Effect
      <3> QED
        BY <2>8, <3>1, <3>2 DEF DeadLetter
    <2> QED
      BY <1>5, <2>4, <2>5, <2>6, <2>7, <2>8 DEF ConsumerClaimStep
  <1>6. ASSUME NEW l \in Loops, NEW q \in DLQPartitions, ReplayClaimStep(l, q)
        PROVE  Effect
    <2>1. CASE Replay(R!Receive(l, q)) \/ Replay(R!EndClaim(l, q))
      <3>1. Quiet
        BY <2>1 DEF Replay, consumer, R!Receive, R!EndClaim, Quiet
      <3> QED
        BY <3>1 DEF Effect
    <2>2. ASSUME claim[q] = "got"
          PROVE  /\ rPos[q] + 1 \in DOMAIN dlqTopic[q]
                 /\ Replayed(q) \in EventTypes
                 /\ R!Message(q) = Kind(Replayed(q))
      <3>1. rPos[q] \in Nat
        BY DEF IInv, R!IInv, R!TypeOK
      <3>2. rPos[q] + 1 \in DOMAIN dlqTopic[q] /\ Replayed(q) \in EventTypes
        BY <2>2, <3>1, ClaimHas, ReplayedEvent DEF IInv
      <3> QED
        BY <3>2 DEF R!Message, DLQLog, Replayed
    <2>3. CASE Replay(R!Skip(l, q))
      <3>1. claim[q] = "got" /\ R!Message(q) # "wanted"
        BY <2>3 DEF Replay, R!Skip, R!Skipped
      <3>2. Replayed(q) \notin wanted
        BY <2>2, <3>1 DEF Kind
      <3>3. Passes(q)
        BY <2>2, <2>3, <3>1 DEF Replay, R!Skip, R!Mark, Passes
      <3>4. UNCHANGED <<log, fate, dlq, dlqTopic, wanted, replays>>
        BY <2>3 DEF Replay, consumer, R!Skip
      <3>5. Skips(q)
        BY <3>2, <3>3, <3>4 DEF Skips
      <3> QED
        BY <3>5 DEF Effect
    <2>4. CASE Republish(l, q)
      <3>1. claim[q] = "got"
        BY <2>4 DEF Republish, R!ReplaySucceeds
      <3>2. PICK p \in Partitions : CG!Produce(p, Replayed(q))
        BY <2>4 DEF Republish
      <3>3. Appends(p, Replayed(q))
        BY <2>4, <3>2 DEF Republish, CG!Produce, Appends
      <3>4. Passes(q) /\ replays' = [replays EXCEPT ![q][rPos[q]] = @ + 1]
        BY <2>2, <2>4, <3>1 DEF Republish, R!ReplaySucceeds, R!Mark, Passes
      <3> QED
        BY <3>3, <3>4 DEF Effect
    <2>5. CASE RepublishFails(l, q)
      <3>1. claim[q] = "got" /\ UNCHANGED <<disposed, replays, dlqTopic, wanted>>
        BY <2>5 DEF RepublishFails, R!ReplayFails
      <3>2. CASE UNCHANGED consumer
        <4>1. Quiet
          BY <3>1, <3>2 DEF Quiet, consumer
        <4> QED
          BY <4>1 DEF Effect
      <3>3. ASSUME NEW p \in Partitions, CG!Produce(p, Replayed(q))
            PROVE  Effect
        <4>1. Appends(p, Replayed(q))
          BY <3>1, <3>3 DEF CG!Produce, Appends
        <4>2. stats \in [Consumed : Nat, Replayed : Nat, Skipped : Nat, Failed : Nat]
          BY DEF IInv, R!IInv, R!TypeOK
        <4>3. stats' = [stats EXCEPT !.Failed = @ + 1]
          BY <2>5 DEF RepublishFails, R!ReplayFails
        <4>4. stats'.Failed # 0
          BY <4>2, <4>3
        <4> QED
          BY <2>2, <3>1, <4>1, <4>4 DEF Effect
      <3> QED
        BY <2>5, <3>2, <3>3 DEF RepublishFails
    <2> QED
      BY <1>6, <2>1, <2>3, <2>4, <2>5 DEF ReplayClaimStep
  <1>7. CASE \/ Replay(R!Crash)
             \/ \E l \in Loops : Replay(R!LoopStep(l))
             \/ \E l \in Loops, q \in DLQPartitions : Replay(R!AutoCommit(l, q))
             \/ \E c \in Closers : Replay(R!CloserStep(c))
    <2>1. Quiet
      BY <1>7
         DEF Replay, consumer, R!Crash, R!LoopStep, R!AutoCommit, R!CloserStep,
             R!Cancel, R!Enter, R!LoopTop, R!OpenSession, R!ConsumeFails,
             R!SessionRebalance, R!EndSession, R!AfterSession, R!CloseFlag,
             R!CloseGroup, R!CloseLeave, R!CloseClient, R!CloseWait, R!data, Quiet
    <2> QED
      BY <2>1 DEF Effect
  <1> QED
    BY <1>1, <1>2, <1>3, <1>4, <1>5, <1>6, <1>7 DEF Next, ConsumerStep, ReplayerStep

-----------------------------------------------------------------------------
(* No event is lost: IInv is inductive.                                    *)

\* What Append adds to a sequence.
LEMMA AppendOne ==
  ASSUME NEW S, NEW s \in Seq(S), NEW e \in S
  PROVE  /\ Append(s, e) \in Seq(S)
         /\ Len(s) + 1 \notin DOMAIN s
         /\ DOMAIN Append(s, e) = DOMAIN s \cup {Len(s) + 1}
         /\ Append(s, e)[Len(s) + 1] = e
         /\ \A o \in DOMAIN s : Append(s, e)[o] = s[o]
  OBVIOUS

\* An event appended to one of the sequences of f.
LEMMA AppendAt ==
  ASSUME NEW P, NEW f \in [P -> Seq(EventTypes)], NEW g, NEW p \in P,
         NEW e \in EventTypes, g = [f EXCEPT ![p] = Append(@, e)]
  PROVE  /\ g \in [P -> Seq(EventTypes)]
         /\ Len(f[p]) + 1 \notin DOMAIN f[p]
         /\ DOMAIN g[p] = DOMAIN f[p] \cup {Len(f[p]) + 1}
         /\ g[p][Len(f[p]) + 1] = e
         /\ \A q \in P : /\ DOMAIN f[q] \subseteq DOMAIN g[q]
                         /\ q # p => g[q] = f[q]
                         /\ \A o \in DOMAIN f[q] : g[q][o] = f[q][o]
  <1>1. f[p] \in Seq(EventTypes)
    OBVIOUS
  <1>2. g[p] = Append(f[p], e) /\ \A q \in P : q # p => g[q] = f[q]
    OBVIOUS
  <1>3. /\ g[p] \in Seq(EventTypes)
        /\ Len(f[p]) + 1 \notin DOMAIN f[p]
        /\ DOMAIN g[p] = DOMAIN f[p] \cup {Len(f[p]) + 1}
        /\ g[p][Len(f[p]) + 1] = e
        /\ \A o \in DOMAIN f[p] : g[p][o] = f[p][o]
    BY <1>1, <1>2, AppendOne
  <1>4. g \in [P -> Seq(EventTypes)]
    BY <1>2, <1>3
  <1> QED
    BY <1>2, <1>3, <1>4

\* The message that a claim of the replayer passes, and the one that a claim
\* of the group disposes of, are events.
LEMMA EventsOf ==
  ASSUME Typed
  PROVE  /\ \A p \in Partitions : \A o \in DOMAIN log[p] : log[p][o] \in EventTypes
         /\ \A q \in DLQPartitions : \A o \in DOMAIN dlqTopic[q] :
                dlqTopic[q][o] \in EventTypes
  BY DEF Typed

\* Nothing that has happened to an event is undone.
Grown ==
    /\ \A p \in Partitions :
          /\ DOMAIN log[p] \subseteq DOMAIN log'[p]
          /\ \A o \in DOMAIN log[p] : log'[p][o] = log[p][o]
    /\ \A q \in DLQPartitions :
          /\ DOMAIN dlqTopic[q] \subseteq DOMAIN dlqTopic'[q]
          /\ \A o \in DOMAIN dlqTopic[q] : dlqTopic'[q][o] = dlqTopic[q][o]
          /\ disposed[q] \subseteq disposed'[q]
    /\ fate \subseteq fate' /\ dlq \subseteq dlq' /\ wanted' = wanted

\* The two topics keep their types, and only grow.
LEMMA TypedStep ==
  ASSUME Typed, R!IInv, Effect
  PROVE  Typed' /\ Grown
  <1> USE DEF Typed, Grown
  <1>0. disposed \in [DLQPartitions -> SUBSET R!Offsets]
    BY DEF R!IInv, R!TypeOK
  <1>1. CASE Quiet
    BY <1>1 DEF Quiet
  <1>2. ASSUME NEW p \in Partitions, NEW e \in EventTypes, Appends(p, e),
               \A q \in DLQPartitions : disposed[q] \subseteq disposed'[q]
        PROVE  Typed' /\ Grown
    <2>1. /\ log' \in [Partitions -> Seq(EventTypes)]
          /\ \A q \in Partitions :
                /\ DOMAIN log[q] \subseteq DOMAIN log'[q]
                /\ \A o \in DOMAIN log[q] : log'[q][o] = log[q][o]
      BY <1>2, AppendAt DEF Appends
    <2> QED
      BY <1>2, <2>1 DEF Appends
  <1>3. ASSUME NEW m \in Members, NEW p \in Partitions, NEW f, Settles(m, p, f)
        PROVE  Typed' /\ Grown
    BY <1>3 DEF Settles
  <1>4. ASSUME NEW m \in Members, NEW p \in Partitions, NEW q \in DLQPartitions,
               Stores(m, p, q)
        PROVE  Typed' /\ Grown
    <2>1. log[p][pos[m][p] + 1] \in EventTypes
      BY <1>4, EventsOf DEF Stores
    <2>2. /\ dlqTopic' \in [DLQPartitions -> Seq(EventTypes)]
          /\ \A k \in DLQPartitions :
                /\ DOMAIN dlqTopic[k] \subseteq DOMAIN dlqTopic'[k]
                /\ \A o \in DOMAIN dlqTopic[k] : dlqTopic'[k][o] = dlqTopic[k][o]
      BY <1>4, <2>1, AppendAt DEF Stores
    <2> QED
      BY <1>4, <2>2 DEF Stores
  <1>5. ASSUME NEW q \in DLQPartitions, Passes(q)
        PROVE  /\ \A k \in DLQPartitions : disposed[k] \subseteq disposed'[k]
               /\ Replayed(q) \in EventTypes
    BY <1>0, <1>5, EventsOf DEF Passes, Replayed
  <1>6. ASSUME NEW q \in DLQPartitions, Skips(q)
        PROVE  Typed' /\ Grown
    BY <1>5, <1>6 DEF Skips
  <1> QED
    BY <1>1, <1>2, <1>3, <1>4, <1>5, <1>6 DEF Effect

\* The step at which an offset of the topic is disposed of.
LEMMA SettledBy ==
  ASSUME Effect, NEW p, NEW o, ~CG!Settled(p, o), CG!Settled(p, o)'
  PROVE  \/ \E m \in Members,
               f \in {"handled", "unrouted", "uninvoked", "discarded", "lost"} :
               p \in Partitions /\ Settles(m, p, f) /\ pos[m][p] = o
         \/ \E m \in Members, q \in DLQPartitions :
               p \in Partitions /\ Stores(m, p, q) /\ pos[m][p] = o
  <1>1. CASE UNCHANGED <<fate, dlq>>
    BY <1>1 DEF CG!Settled, CG!HasFate, CG!DeadLettered
  <1>2. ASSUME NEW m \in Members, NEW k \in Partitions, NEW f, Settles(m, k, f)
        PROVE  k = p /\ pos[m][k] = o
    BY <1>2 DEF Settles, CG!Settled, CG!HasFate, CG!DeadLettered
  <1>3. ASSUME NEW m \in Members, NEW k \in Partitions, NEW q, Stores(m, k, q)
        PROVE  k = p /\ pos[m][k] = o
    BY <1>3 DEF Stores, CG!Settled, CG!HasFate, CG!DeadLettered
  <1> QED
    BY <1>1, <1>2, <1>3 DEF Effect, Quiet, Appends, Skips

\* An event that has just been published waits in the topic.
LEMMA NewWaits ==
  ASSUME Typed, CG!IInv, NEW p \in Partitions, NEW event \in EventTypes,
         Appends(p, event)
  PROVE  Waits(event)'
  <1>0. log[p] \in Seq(EventTypes) /\ Len(log[p]) \in Nat
    BY DEF Typed
  <1>1. PICK o \in Nat : o = Len(log[p]) + 1
    BY <1>0
  <1>2. o \in DOMAIN log'[p] /\ log'[p][o] = event
    BY <1>1, AppendAt DEF Typed, Appends
  <1>3. ASSUME NEW f, <<p, o - 1, f>> \in fate
        PROVE  FALSE
    <2> DEFINE x == <<p, o - 1, f>>
    <2>1. x[1] = p /\ x[2] = o - 1
      OBVIOUS
    <2>2. x[2] < Len(log[x[1]])
      BY <1>3 DEF CG!IInv, CG!SettledInLog
    <2> QED
      BY <1>0, <1>1, <2>1, <2>2
  <1>4. ~CG!DeadLettered(p, o - 1)
    BY <1>0, <1>1 DEF CG!IInv, CG!SettledInLog, CG!DeadLettered
  <1>5. ~CG!Settled(p, o - 1)'
    BY <1>3, <1>4 DEF Appends, CG!Settled, CG!HasFate, CG!DeadLettered
  <1> QED
    BY <1>2, <1>5 DEF Waits
\* What is handled or given up stays so.
LEMMA Final ==
  ASSUME Grown, NEW event
  PROVE  /\ Handled(event) => Handled(event)'
         /\ GivenUp(event) => GivenUp(event)'
  <1>1. ASSUME Handled(event) PROVE Handled(event)'
    BY <1>1 DEF Grown, Handled
  <1>2. ASSUME GivenUp(event) PROVE GivenUp(event)'
    <2>1. ASSUME NEW p \in Partitions, NEW o \in DOMAIN log[p], log[p][o] = event,
                 NEW f \in {"unrouted", "uninvoked", "discarded", "lost"},
                 <<p, o - 1, f>> \in fate
          PROVE  GivenUp(event)'
      <3>1. o \in DOMAIN log'[p] /\ log'[p][o] = event /\ <<p, o - 1, f>> \in fate'
        BY <2>1 DEF Grown
      <3> QED
        BY <3>1 DEF GivenUp
    <2>2. ASSUME NEW q \in DLQPartitions, NEW o \in DOMAIN dlqTopic[q],
                 dlqTopic[q][o] = event, event \notin wanted, o - 1 \in disposed[q]
          PROVE  GivenUp(event)'
      <3>1. /\ o \in DOMAIN dlqTopic'[q] /\ dlqTopic'[q][o] = event
            /\ event \notin wanted' /\ o - 1 \in disposed'[q]
        BY <2>2 DEF Grown
      <3> QED
        BY <3>1 DEF GivenUp
    <2> QED
      BY <1>2, <2>1, <2>2 DEF GivenUp
  <1> QED
    BY <1>1, <1>2

\* An event that waits in the topic goes on waiting there, or whoever disposes
\* of it handles it, gives it up or stores it in the DLQ.
LEMMA TopicKeeps ==
  ASSUME Typed, R!IInv, CG!IInv, Effect, NEW event \in EventTypes,
         NEW p \in Partitions, NEW o \in DOMAIN log[p],
         log[p][o] = event, ~CG!Settled(p, o - 1)
  PROVE  Handled(event)' \/ GivenUp(event)' \/ Waits(event)'
  <1>1. Grown
    BY TypedStep
  <1>2. o \in DOMAIN log'[p] /\ log'[p][o] = event
    BY <1>1 DEF Grown
  <1>3. /\ log[p] \in Seq(EventTypes)
        /\ \A m \in Members : pos[m][p] \in Nat
    BY DEF Typed, CG!IInv, CG!TypeOK
  <1>4. CASE ~CG!Settled(p, o - 1)'
    BY <1>2, <1>4 DEF Waits
  <1>5. ASSUME NEW m \in Members,
               NEW f \in {"handled", "unrouted", "uninvoked", "discarded", "lost"},
               Settles(m, p, f), pos[m][p] = o - 1
        PROVE  Handled(event)' \/ GivenUp(event)'
    <2>1. <<p, o - 1, f>> \in fate'
      BY <1>5 DEF Settles
    <2>2. CASE f = "handled"
      BY <1>2, <2>1, <2>2 DEF Handled
    <2>3. CASE f # "handled"
      BY <1>2, <2>1, <2>3 DEF GivenUp
    <2> QED
      BY <2>2, <2>3
  <1>6. ASSUME NEW m \in Members, NEW q \in DLQPartitions, Stores(m, p, q),
               pos[m][p] = o - 1
        PROVE  Waits(event)'
    <2>1. pos[m][p] + 1 = o
      BY <1>3, <1>6
    <2>2. dlqTopic' = [dlqTopic EXCEPT ![q] = Append(@, event)]
      BY <1>6, <2>1 DEF Stores
    <2>3. PICK k \in Nat : k = Len(dlqTopic[q]) + 1
      BY DEF Typed
    <2>4. k \in DOMAIN dlqTopic'[q] /\ dlqTopic'[q][k] = event
      BY <2>2, <2>3, AppendAt DEF Typed
    <2>5. k - 1 \notin disposed[q]
      <3>1. Len(dlqTopic[q]) \in Nat /\ Len(DLQLog[q]) = Len(dlqTopic[q])
        BY DLQLength DEF Typed
      <3>2. disposed[q] \subseteq 0 .. Len(DLQLog[q]) - 1
        BY DEF R!IInv, R!InOrder
      <3> QED
        BY <2>3, <3>1, <3>2
    <2>6. disposed' = disposed
      BY <1>6 DEF Stores
    <2> QED
      BY <2>4, <2>5, <2>6 DEF Waits
  <1>7. CASE CG!Settled(p, o - 1)'
    BY <1>5, <1>6, <1>7, SettledBy
  <1> QED
    BY <1>4, <1>7

\* An event that waits in the DLQ goes on waiting there, or a replay gives it
\* up or has stored it in the topic.
LEMMA DLQKeeps ==
  ASSUME Typed, R!IInv, CG!IInv, Effect, NEW event \in EventTypes,
         NEW q \in DLQPartitions, NEW o \in DOMAIN dlqTopic[q],
         dlqTopic[q][o] = event, o - 1 \notin disposed[q]
  PROVE  GivenUp(event)' \/ Waits(event)'
  <1>1. Grown
    BY TypedStep
  <1>2. o \in DOMAIN dlqTopic'[q] /\ dlqTopic'[q][o] = event
    BY <1>1 DEF Grown
  <1>3. /\ dlqTopic[q] \in Seq(EventTypes)
        /\ rPos[q] \in Nat
        /\ disposed \in [DLQPartitions -> SUBSET R!Offsets]
    BY DEF Typed, R!IInv, R!TypeOK
  <1>4. CASE o - 1 \notin disposed'[q]
    BY <1>2, <1>4 DEF Waits
  <1>5. ASSUME NEW k \in DLQPartitions, Passes(k), o - 1 \in disposed'[q]
        PROVE  k = q /\ Replayed(k) = event
    <2>1. k = q /\ o - 1 = rPos[q]
      BY <1>3, <1>5 DEF Passes
    <2>2. rPos[q] + 1 = o
      BY <1>3, <2>1
    <2> QED
      BY <2>1, <2>2 DEF Replayed
  <1>6. CASE o - 1 \in disposed'[q]
    <2>1. ASSUME NEW k \in DLQPartitions, Skips(k)
          PROVE  GivenUp(event)'
      <3>1. event \notin wanted'
        BY <1>5, <1>6, <2>1 DEF Skips
      <3> QED
        BY <1>2, <1>6, <3>1 DEF GivenUp
    <2>2. ASSUME NEW p \in Partitions, NEW k \in DLQPartitions,
                 Appends(p, Replayed(k)), Passes(k)
          PROVE  Waits(event)'
      <3>1. Appends(p, event)
        BY <1>5, <1>6, <2>2
      <3> QED
        BY <3>1, NewWaits
    <2>3. disposed' # disposed
      BY <1>6
    <2> QED
      BY <2>1, <2>2, <2>3 DEF Effect, Quiet, Settles, Stores
  <1> QED
    BY <1>4, <1>6

\* A published event stays handled, given up, or waiting in a topic.
LEMMA AccountedStep ==
  ASSUME Typed, R!IInv, CG!IInv, Accounted, Effect
  PROVE  Accounted'
  <1> SUFFICES ASSUME NEW event \in EventTypes, Published(event)'
               PROVE  Handled(event)' \/ GivenUp(event)' \/ Waits(event)'
    BY DEF Accounted
  <1>1. CASE Published(event)
    <2>1. Handled(event) \/ GivenUp(event) \/ Waits(event)
      BY <1>1 DEF Accounted
    <2>2. CASE Handled(event) \/ GivenUp(event)
      BY <2>2, TypedStep, Final
    <2>3. CASE Waits(event)
      <3>1. ASSUME NEW p \in Partitions, NEW o \in DOMAIN log[p],
                   log[p][o] = event, ~CG!Settled(p, o - 1)
            PROVE  Handled(event)' \/ GivenUp(event)' \/ Waits(event)'
        BY <3>1, TopicKeeps
      <3>2. ASSUME NEW q \in DLQPartitions, NEW o \in DOMAIN dlqTopic[q],
                   dlqTopic[q][o] = event, o - 1 \notin disposed[q]
            PROVE  GivenUp(event)' \/ Waits(event)'
        BY <3>2, DLQKeeps
      <3> QED
        BY <2>3, <3>1, <3>2 DEF Waits
    <2> QED
      BY <2>1, <2>2, <2>3
  <1>2. CASE ~Published(event)
    <2>1. ASSUME NEW p \in Partitions, NEW e \in EventTypes, Appends(p, e)
          PROVE  Waits(event)'
      <3>1. e = event
        <4>1. /\ DOMAIN log'[p] = DOMAIN log[p] \cup {Len(log[p]) + 1}
              /\ log'[p][Len(log[p]) + 1] = e
              /\ \A k \in Partitions : /\ k # p => log'[k] = log[k]
                                       /\ \A o \in DOMAIN log[k] : log'[k][o] = log[k][o]
          BY <2>1, AppendAt DEF Typed, Appends
        <4>2. PICK k \in Partitions : \E o \in DOMAIN log'[k] : log'[k][o] = event
          BY DEF Published, Occurs
        <4> QED
          BY <1>2, <4>1, <4>2 DEF Published, Occurs
      <3> QED
        BY <2>1, <3>1, NewWaits
    <2>2. log' # log
      BY <1>2 DEF Published, Occurs
    <2>3. ASSUME NEW q \in DLQPartitions, Passes(q)
          PROVE  Replayed(q) \in EventTypes
      BY <2>3, EventsOf DEF Passes, Replayed
    <2>4. \E p \in Partitions, e \in EventTypes : Appends(p, e)
      BY <2>2, <2>3 DEF Effect, Quiet, Settles, Stores, Skips
    <2> QED
      BY <2>1, <2>4
  <1> QED
    BY <1>1, <1>2

\* Nothing is published at the start.
LEMMA InitInv == ASSUME Init PROVE IInv
  <1>1. CG!IInv
    <2>1. CGP!IInv
      BY SameGroup, GroupAssumption, CGP!InitInv DEF Init
    <2> QED
      BY <2>1, SameGroup
  <1>2. R!IInv
    <2>1. RP!IInv
      BY SameReplayer, ReplayAssumption, RP!InitInv DEF Init
    <2> QED
      BY <2>1, SameReplayer
  <1>3. Typed
    <2>1. log = [p \in Partitions |-> <<>>]
      BY DEF Init, CG!Init
    <2> QED
      BY <2>1, PipelineAssumption DEF Init, Typed
  <1>4. Accounted
    <2>1. \A event : ~Published(event)
      BY DEF Init, CG!Init, Published, Occurs
    <2> QED
      BY <2>1 DEF Accounted
  <1> QED
    BY <1>1, <1>2, <1>3, <1>4 DEF IInv

\* Every step keeps the invariant.
LEMMA NextInv == ASSUME IInv, [Next]_vars PROVE IInv'
  <1>1. CG!IInv'
    BY GroupStep, GroupInv DEF IInv
  <1>2. R!IInv'
    BY ReplayerStepOf, ReplayerInv DEF IInv
  <1>3. Typed' /\ Accounted'
    BY Effects, TypedStep, AccountedStep DEF IInv
  <1> QED
    BY <1>1, <1>2, <1>3 DEF IInv

\* The inductive invariant holds: each component keeps its own while it runs
\* next to the other, and every published event is accounted for.
THEOREM Inductive == Spec => []IInv
  <1> QED
    BY InitInv, NextInv, PTL DEF Spec

\* A run of Pipeline is one of a consumer group, and one of a replayer whose
\* DLQ that group fills.
THEOREM Components == Spec => CG!Spec /\ R!Spec
  <1>1. Init => CG!Init /\ R!Init
    BY DEF Init
  <1> QED
    BY <1>1, Inductive, GroupStep, ReplayerStepOf, PTL DEF Spec, CG!Spec, R!Spec

\* A published event is handled, given up, or ahead of a committed offset:
\* what waits is not settled or disposed of, and both groups commit only
\* offsets below which everything is.
THEOREM NothingLost == Spec => []NoEventLost
  <1>1. ASSUME IInv PROVE NoEventLost
    <2> SUFFICES ASSUME OffsetReset = "earliest", NEW event \in EventTypes,
                        Waits(event)
                 PROVE  Ahead(event)
      BY <1>1 DEF NoEventLost, IInv, Accounted
    <2>1. ASSUME NEW p \in Partitions, NEW o \in DOMAIN log[p],
                 log[p][o] = event, ~CG!Settled(p, o - 1)
          PROVE  Ahead(event)
      <3>1. log[p] \in Seq(EventTypes) /\ committed[p] \in Nat \cup {-1}
        BY <1>1 DEF IInv, Typed, CG!IInv, CG!TypeOK
      <3>2. \A k \in 0 .. committed[p] - 1 : CG!Settled(p, k)
        BY <1>1 DEF IInv, CG!IInv, CG!CommittedInLog, CG!SettledBelow
      <3>3. o - 1 \notin 0 .. committed[p] - 1
        BY <2>1, <3>2
      <3>4. o > committed[p]
        BY <3>1, <3>3
      <3> QED
        BY <2>1, <3>4 DEF Ahead
    <2>2. ASSUME NEW q \in DLQPartitions, NEW o \in DOMAIN dlqTopic[q],
                 dlqTopic[q][o] = event, o - 1 \notin disposed[q]
          PROVE  Ahead(event)
      <3>1. dlqTopic[q] \in Seq(EventTypes) /\ rCommitted[q] \in Nat \cup {-1}
        BY <1>1 DEF IInv, Typed, R!IInv, R!TypeOK
      <3>2. 0 .. rCommitted[q] - 1 \subseteq disposed[q]
        BY <1>1 DEF IInv, R!IInv, R!Prefix
      <3>3. o - 1 \notin 0 .. rCommitted[q] - 1
        BY <2>2, <3>2
      <3>4. o > rCommitted[q]
        BY <3>1, <3>3
      <3> QED
        BY <2>2, <3>4 DEF Ahead
    <2> QED
      BY <2>1, <2>2 DEF Waits
  <1> QED
    BY <1>1, Inductive, PTL

-----------------------------------------------------------------------------
(* No event is handled twice: there is one copy of it at a time.           *)

\* A disturbance is never forgotten.
LEMMA StillDisturbed ==
  ASSUME IInv, [Next]_vars, Undisturbed'
  PROVE  Undisturbed
  <1>1. ~faulted' => ~faulted
    <2>1. [CG!Next]_(CG!vars)
      BY GroupStep
    <2>2. CASE UNCHANGED faulted
      BY <2>2
    <2>3. faulted \in BOOLEAN
      BY DEF IInv, CG!IInv, CG!TypeOK
    <2>4. UNCHANGED faulted \/ faulted' = TRUE
      BY <2>1
         DEF CG!Next, CG!vars, CG!Produce, CG!Rebalance, CG!MemberStep, CG!ClaimStep,
             CG!Start, CG!Stop, CG!Heartbeat, CG!LoseSession, CG!EndSession, CG!Crash,
             CG!SkipUndecodable, CG!SkipUnrouted, CG!BeginAttempts,
             CG!HandlerSucceeds, CG!HandlerFails, CG!SendToDLQ, CG!FinishMessage,
             CG!AutoCommit, CG!EndClaim
    <2> QED
      BY <2>3, <2>4
  <1>2. ~rFaulted' /\ stats'.Failed = 0 => ~rFaulted /\ stats.Failed = 0
    <2>1. [R!Next]_(R!vars)
      BY ReplayerStepOf
    <2>2. /\ stats \in [Consumed : Nat, Replayed : Nat, Skipped : Nat, Failed : Nat]
          /\ rFaulted \in BOOLEAN
      BY DEF IInv, R!IInv, R!TypeOK
    <2>3. \/ UNCHANGED stats
          \/ rFaulted' = TRUE
          \/ stats' = [stats EXCEPT !.Consumed = @ + 1]
          \/ stats' = [stats EXCEPT !.Replayed = @ + 1]
          \/ stats' = [stats EXCEPT !.Skipped = @ + 1]
          \/ stats' = [stats EXCEPT !.Failed = @ + 1]
      BY <2>1
         DEF R!Next, R!vars, R!data, R!LoopStep, R!ClaimStep, R!CloserStep, R!Arrive,
             R!Crash, R!Cancel, R!Enter, R!LoopTop, R!OpenSession, R!ConsumeFails,
             R!SessionRebalance, R!EndSession, R!AfterSession, R!Receive, R!Skip,
             R!ReplaySucceeds, R!ReplayFails, R!EndClaim, R!AutoCommit,
             R!CloseFlag, R!CloseGroup, R!CloseLeave, R!CloseClient, R!CloseWait
    <2>4. UNCHANGED rFaulted \/ rFaulted' = TRUE
      BY <2>1
         DEF R!Next, R!vars, R!data, R!LoopStep, R!ClaimStep, R!CloserStep, R!Arrive,
             R!Crash, R!Cancel, R!Enter, R!LoopTop, R!OpenSession, R!ConsumeFails,
             R!SessionRebalance, R!EndSession, R!AfterSession, R!Receive, R!Skip,
             R!ReplaySucceeds, R!ReplayFails, R!EndClaim, R!AutoCommit,
             R!CloseFlag, R!CloseGroup, R!CloseLeave, R!CloseClient, R!CloseWait
    <2>5. stats'.Failed = 0 /\ ~rFaulted' => stats.Failed = 0
      BY <2>2, <2>3
    <2> QED
      BY <2>2, <2>4, <2>5
  <1> QED
    BY <1>1, <1>2 DEF Undisturbed

\* The copies of an event in the two topics, one by one.
LEMMA CopiesOnTopic ==
  ASSUME NEW event, NEW x
  PROVE  x \in OnTopic(event) <=>
            \E p \in Partitions : \E o \in DOMAIN log[p] :
               x = <<p, o>> /\ log[p][o] = event /\ ~CG!Settled(p, o - 1)
  BY DEF OnTopic

\* As above, of the DLQ topic.
LEMMA CopiesInDLQ ==
  ASSUME NEW event, NEW x
  PROVE  x \in InDLQ(event) <=>
            \E q \in DLQPartitions : \E o \in DOMAIN dlqTopic[q] :
               x = <<q, o>> /\ dlqTopic[q][o] = event /\ replays[q][o - 1] = 0
  BY DEF InDLQ

\* Every fate is that of an event in the topic.
LEMMA FateOf ==
  ASSUME Typed, CG!IInv, NEW x \in fate
  PROVE  /\ x[1] \in Partitions
         /\ x[2] + 1 \in DOMAIN log[x[1]]
         /\ x = <<x[1], x[2], x[3]>>
  <1>1. x \in Partitions \X Nat \X CG!Fates
    BY DEF CG!IInv, CG!TypeOK, CG!Dispositions
  <1>2. x[1] \in Partitions /\ x[2] \in Nat /\ x = <<x[1], x[2], x[3]>>
    BY <1>1
  <1>3. x[2] < Len(log[x[1]])
    BY DEF CG!IInv, CG!SettledInLog
  <1>4. log[x[1]] \in Seq(EventTypes)
    BY <1>2 DEF Typed
  <1> QED
    BY <1>2, <1>3, <1>4

\* Only a new fate changes where an event has been handled.
LEMMA HandledSame ==
  ASSUME Typed, CG!IInv, Grown, NEW event, UNCHANGED fate
  PROVE  HandledAt(event)' = HandledAt(event)
  <1>1. ASSUME NEW x \in fate
        PROVE  log'[x[1]][x[2] + 1] = log[x[1]][x[2] + 1]
    BY FateOf DEF Grown
  <1> QED
    BY <1>1 DEF HandledAt

\* An event that was never published is nowhere.
LEMMA Nowhere ==
  ASSUME Typed, CG!IInv, OneCopy, NEW event, ~Published(event)
  PROVE  OnTopic(event) = {} /\ InDLQ(event) = {} /\ HandledAt(event) = {}
  <1>1. OnTopic(event) = {}
    BY CopiesOnTopic DEF Published, Occurs
  <1>2. InDLQ(event) = {}
    BY CopiesInDLQ DEF OneCopy
  <1>3. HandledAt(event) = {}
    BY FateOf DEF HandledAt, Published, Occurs
  <1> QED
    BY <1>1, <1>2, <1>3

\* An event that the topic gets has one more copy there, no other has.
LEMMA OneMore ==
  ASSUME Typed, Grown, NEW p \in Partitions, NEW e \in EventTypes, Appends(p, e),
         NEW event
  PROVE  /\ event # e => OnTopic(event)' = OnTopic(event)
         /\ OnTopic(event)' \subseteq OnTopic(event) \cup {<<p, Len(log[p]) + 1>>}
  <1>1. /\ DOMAIN log'[p] = DOMAIN log[p] \cup {Len(log[p]) + 1}
        /\ log'[p][Len(log[p]) + 1] = e
        /\ \A k \in Partitions : /\ k # p => log'[k] = log[k]
                                 /\ \A o \in DOMAIN log[k] : log'[k][o] = log[k][o]
    BY AppendAt DEF Typed, Appends
  <1>2. \A k, o : CG!Settled(k, o)' <=> CG!Settled(k, o)
    BY DEF Appends, CG!Settled, CG!HasFate, CG!DeadLettered
  <1>3. ASSUME NEW x \in OnTopic(event)', event # e \/ x # <<p, Len(log[p]) + 1>>
        PROVE  x \in OnTopic(event)
    <2>1. PICK k \in Partitions : \E o \in DOMAIN log'[k] :
             x = <<k, o>> /\ log'[k][o] = event /\ ~CG!Settled(k, o - 1)'
      BY <1>3 DEF OnTopic
    <2>2. \E o \in DOMAIN log[k] :
             x = <<k, o>> /\ log[k][o] = event /\ ~CG!Settled(k, o - 1)
      BY <1>1, <1>2, <1>3, <2>1
    <2> QED
      BY <2>2, CopiesOnTopic
  <1>4. ASSUME NEW x \in OnTopic(event)
        PROVE  x \in OnTopic(event)'
    <2>1. PICK k \in Partitions : \E o \in DOMAIN log[k] :
             x = <<k, o>> /\ log[k][o] = event /\ ~CG!Settled(k, o - 1)
      BY <1>4, CopiesOnTopic
    <2>2. \E o \in DOMAIN log'[k] :
             x = <<k, o>> /\ log'[k][o] = event /\ ~CG!Settled(k, o - 1)'
      BY <1>2, <2>1 DEF Grown
    <2> QED
      BY <2>2 DEF OnTopic
  <1> QED
    BY <1>3, <1>4
\* What a claim settles leaves the topic, and the event was nowhere else.
LEMMA Leaves ==
  ASSUME Typed, NEW p \in Partitions, NEW o, UNCHANGED log,
         fate \subseteq fate', dlq \subseteq dlq', CG!Settled(p, o)', o \in Nat,
         NEW event
  PROVE  OnTopic(event)' \subseteq OnTopic(event) \ {<<p, o + 1>>}
  <1> SUFFICES ASSUME NEW x \in OnTopic(event)'
               PROVE  x \in OnTopic(event) /\ x # <<p, o + 1>>
    OBVIOUS
  <1>1. PICK k \in Partitions : \E n \in DOMAIN log[k] :
           x = <<k, n>> /\ log[k][n] = event /\ ~CG!Settled(k, n - 1)'
    BY DEF OnTopic
  <1>2. \A n : CG!Settled(k, n) => CG!Settled(k, n)'
    BY DEF CG!Settled, CG!HasFate, CG!DeadLettered
  <1>3. x \in OnTopic(event)
    BY <1>1, <1>2, CopiesOnTopic
  <1>4. (o + 1) - 1 = o
    OBVIOUS
  <1>5. x # <<p, o + 1>>
    BY <1>1, <1>4
  <1> QED
    BY <1>3, <1>5

\* Events keep to one place as they move: by cases of what a step does.
LEMMA SingleStep ==
  ASSUME IInv, IInv', OneCopy, Undisturbed, CG!NoRedeliveryWithoutFault, R!ReplayInv,
         Effect, stats'.Failed = 0, NEW event \in EventTypes
  PROVE  Single(event)'
  <1>1. Typed /\ CG!IInv /\ R!IInv /\ Grown
    BY TypedStep DEF IInv
  <1>2. \A e \in EventTypes : Single(e)
    BY DEF OneCopy
  <1> USE DEF Single, AtMostOne
  <1>3. CASE Quiet
    <2>1. OnTopic(event)' = OnTopic(event)
      BY <1>3 DEF Quiet, OnTopic, CG!Settled, CG!HasFate, CG!DeadLettered
    <2>2. InDLQ(event)' = InDLQ(event) /\ HandledAt(event)' = HandledAt(event)
      BY <1>3 DEF Quiet, InDLQ, HandledAt
    <2> QED
      BY <1>2, <2>1, <2>2
  <1>4. ASSUME NEW p \in Partitions, NEW e \in EventTypes, ~Published(e), Appends(p, e),
               UNCHANGED replays
        PROVE  Single(event)'
    <2>1. InDLQ(event)' = InDLQ(event)
      BY <1>4 DEF Appends, InDLQ
    <2>2. HandledAt(event)' = HandledAt(event)
      BY <1>1, <1>4, HandledSame DEF Appends
    <2>3. CASE event = e
      <3>1. OnTopic(event) = {} /\ InDLQ(event) = {} /\ HandledAt(event) = {}
        BY <1>1, <1>4, <2>3, Nowhere
      <3>2. OnTopic(event)' \subseteq {<<p, Len(log[p]) + 1>>}
        BY <1>1, <1>4, <3>1, OneMore
      <3> QED
        BY <2>1, <2>2, <3>1, <3>2
    <2>4. CASE event # e
      <3>1. OnTopic(event)' = OnTopic(event)
        BY <1>1, <1>4, <2>4, OneMore
      <3> QED
        BY <1>2, <2>1, <2>2, <3>1
    <2> QED
      BY <2>3, <2>4
  <1>5. ASSUME NEW m \in Members, NEW p \in Partitions,
               pc[m][p] \in {"idle", "invoke", "dlq"},
               pos[m][p] + 1 \in DOMAIN log[p]
        PROVE  \E o \in Nat, e \in EventTypes :
                  /\ pos[m][p] = o
                  /\ o + 1 \in DOMAIN log[p] /\ log[p][o + 1] = e
                  /\ <<p, o + 1>> \in OnTopic(e)
    <2>1. PICK o \in Nat : o = pos[m][p]
      BY <1>1 DEF CG!IInv, CG!TypeOK
    <2>2. PICK e \in EventTypes : e = log[p][o + 1]
      BY <1>1, <1>5, <2>1, EventsOf
    <2>3. ~CG!Settled(p, o)
      BY <1>5, <2>1 DEF CG!NoRedeliveryWithoutFault, Undisturbed
    <2>4. (o + 1) - 1 = o
      OBVIOUS
    <2>5. <<p, o + 1>> \in OnTopic(e)
      BY <1>5, <2>1, <2>2, <2>3, <2>4, CopiesOnTopic
    <2> QED
      BY <1>5, <2>1, <2>2, <2>5
  <1>6. ASSUME NEW m \in Members, NEW p \in Partitions,
               NEW f \in {"handled", "unrouted", "uninvoked", "discarded", "lost"},
               Settles(m, p, f)
        PROVE  Single(event)'
    <2>1. PICK o \in Nat, e \in EventTypes :
             /\ pos[m][p] = o
             /\ o + 1 \in DOMAIN log[p] /\ log[p][o + 1] = e
             /\ <<p, o + 1>> \in OnTopic(e)
      BY <1>5, <1>6 DEF Settles
    <2>2. CG!Settled(p, o)'
      <3>1. f \in CG!Fates /\ <<p, o, f>> \in fate'
        BY <1>6, <2>1 DEF Settles, CG!Fates
      <3> QED
        BY <3>1 DEF CG!Settled, CG!HasFate
    <2>3. OnTopic(event)' \subseteq OnTopic(event) \ {<<p, o + 1>>}
      BY <1>1, <1>6, <2>2, Leaves DEF Settles, Grown
    <2>4. InDLQ(event)' = InDLQ(event)
      BY <1>6 DEF Settles, InDLQ
    <2>5. HandledAt(event)' \subseteq HandledAt(event) \cup {<<p, o, f>>}
      BY <1>6, <2>1 DEF Settles, HandledAt
    <2>6. CASE event = e
      <3>1. InDLQ(event) = {} /\ HandledAt(event) = {} /\ OnTopic(event)' = {}
        BY <1>2, <2>1, <2>3, <2>6
      <3> QED
        BY <2>4, <2>5, <3>1
    <2>7. CASE event # e
      <3>1. HandledAt(event)' = HandledAt(event)
        BY <1>6, <2>1, <2>7 DEF Settles, HandledAt
      <3> QED
        BY <1>2, <2>3, <2>4, <3>1
    <2> QED
      BY <2>6, <2>7
  <1>7. ASSUME NEW m \in Members, NEW p \in Partitions, NEW q \in DLQPartitions,
               Stores(m, p, q)
        PROVE  Single(event)'
    <2> DEFINE y == <<q, Len(dlqTopic[q]) + 1>>
    <2>1. PICK o \in Nat, e \in EventTypes :
             /\ pos[m][p] = o
             /\ o + 1 \in DOMAIN log[p] /\ log[p][o + 1] = e
             /\ <<p, o + 1>> \in OnTopic(e)
      BY <1>5, <1>7 DEF Stores
    <2>2. CG!Settled(p, o)'
      BY <1>7, <2>1 DEF Stores, CG!Settled, CG!DeadLettered
    <2>3. OnTopic(event)' \subseteq OnTopic(event) \ {<<p, o + 1>>}
      BY <1>1, <1>7, <2>2, Leaves DEF Stores, Grown
    <2>4. HandledAt(event)' = HandledAt(event)
      BY <1>1, <1>7, HandledSame DEF Stores
    <2>5. /\ DOMAIN dlqTopic'[q] = DOMAIN dlqTopic[q] \cup {Len(dlqTopic[q]) + 1}
          /\ dlqTopic'[q][Len(dlqTopic[q]) + 1] = e
          /\ \A k \in DLQPartitions :
                /\ k # q => dlqTopic'[k] = dlqTopic[k]
                /\ \A n \in DOMAIN dlqTopic[k] : dlqTopic'[k][n] = dlqTopic[k][n]
      BY <1>1, <1>7, <2>1, AppendAt DEF Typed, Stores
    <2>6. InDLQ(event)' \subseteq InDLQ(event) \cup (IF event = e THEN {y} ELSE {})
      <3>1. ASSUME NEW z \in InDLQ(event)'
            PROVE  z \in InDLQ(event) \/ (event = e /\ z = y)
        <4>1. PICK k \in DLQPartitions : \E n \in DOMAIN dlqTopic'[k] :
                 z = <<k, n>> /\ dlqTopic'[k][n] = event /\ replays[k][n - 1] = 0
          BY <1>7 DEF Stores, InDLQ
        <4>2. \/ event = e /\ z = y
              \/ \E n \in DOMAIN dlqTopic[k] :
                    z = <<k, n>> /\ dlqTopic[k][n] = event /\ replays[k][n - 1] = 0
          BY <2>5, <4>1
        <4> QED
          BY <4>2, CopiesInDLQ
      <3> QED
        BY <3>1
    <2>7. CASE event = e
      <3>1. InDLQ(event) = {} /\ HandledAt(event) = {} /\ OnTopic(event)' = {}
        BY <1>2, <2>1, <2>3, <2>7
      <3> QED
        BY <2>4, <2>6, <3>1
    <2>8. CASE event # e
      BY <1>2, <2>3, <2>4, <2>6, <2>8
    <2> QED
      BY <2>7, <2>8
  <1>8. ASSUME NEW q \in DLQPartitions, Skips(q)
        PROVE  Single(event)'
    <2>1. OnTopic(event)' = OnTopic(event)
      BY <1>8 DEF Skips, OnTopic, CG!Settled, CG!HasFate, CG!DeadLettered
    <2>2. InDLQ(event)' = InDLQ(event) /\ HandledAt(event)' = HandledAt(event)
      BY <1>8 DEF Skips, InDLQ, HandledAt
    <2> QED
      BY <1>2, <2>1, <2>2
  <1>9. ASSUME NEW p \in Partitions, NEW q \in DLQPartitions,
               Appends(p, Replayed(q)), Passes(q),
               replays' = [replays EXCEPT ![q][rPos[q]] = @ + 1]
        PROVE  Single(event)'
    <2> DEFINE e == Replayed(q)
               y == <<q, rPos[q] + 1>>
    <2>1. /\ rPos[q] \in R!Offsets
          /\ replays \in [DLQPartitions -> [R!Offsets -> Nat]]
      <3>1. rPos[q] \in Nat /\ replays \in [DLQPartitions -> [R!Offsets -> Nat]]
        BY <1>1 DEF R!IInv, R!TypeOK
      <3>2. rPos[q] < Len(DLQLog[q]) /\ Len(DLQLog[q]) <= MaxDLQ
        BY <1>1, <1>9, <3>1, ClaimHas DEF Passes, R!IInv, R!InOrder
      <3>3. Len(DLQLog[q]) \in Nat
        BY <1>1, DLQLength DEF Typed
      <3>4. MaxDLQ \in Nat
        BY ComponentsAssumption DEF R!ReplayerAssumption
      <3> QED
        BY <3>1, <3>2, <3>3, <3>4 DEF R!Offsets
    <2>2. replays[q][rPos[q]] = 0
      <3>1. R!FreshFrom(q, rPos[q])
        BY <1>9 DEF Passes, R!ReplayInv, Undisturbed
      <3>2. rPos[q] >= rPos[q]
        BY <2>1 DEF R!Offsets
      <3> QED
        BY <2>1, <3>1, <3>2 DEF R!FreshFrom
    <2>3. (rPos[q] + 1) - 1 = rPos[q]
      BY <2>1 DEF R!Offsets
    <2>4. e \in EventTypes /\ y \in InDLQ(e)
      <3>1. rPos[q] + 1 \in DOMAIN dlqTopic[q] /\ e = dlqTopic[q][rPos[q] + 1]
        BY <1>9 DEF Passes, Replayed
      <3>2. e \in EventTypes
        BY <1>1, <3>1, EventsOf
      <3> HIDE DEF e
      <3>3. y \in InDLQ(e)
        BY <2>2, <2>3, <3>1, CopiesInDLQ
      <3> QED
        BY <3>2, <3>3
    <2>5. InDLQ(event)' \subseteq InDLQ(event) \ {y}
      <3>1. ASSUME NEW z \in InDLQ(event)'
            PROVE  z \in InDLQ(event) /\ z # y
        <4>1. PICK k \in DLQPartitions : \E o \in DOMAIN dlqTopic[k] :
                 z = <<k, o>> /\ dlqTopic[k][o] = event /\ replays'[k][o - 1] = 0
          BY <1>9 DEF Appends, InDLQ
        <4>2. PICK o \in DOMAIN dlqTopic[k] :
                 z = <<k, o>> /\ dlqTopic[k][o] = event /\ replays'[k][o - 1] = 0
          BY <4>1
        <4>3. o - 1 \in R!Offsets
          <5>1. o \in 1 .. Len(dlqTopic[k])
            BY <1>1 DEF Typed
          <5>2. Len(dlqTopic[k]) \in Nat /\ Len(dlqTopic[k]) <= MaxDLQ
            BY <1>1, DLQLength DEF Typed, R!IInv, R!InOrder
          <5>3. MaxDLQ \in Nat
            BY ComponentsAssumption DEF R!ReplayerAssumption
          <5> QED
            BY <5>1, <5>2, <5>3 DEF R!Offsets
        <4>4. \/ replays'[k][o - 1] = replays[k][o - 1] /\ ~(k = q /\ o - 1 = rPos[q])
              \/ replays'[k][o - 1] = replays[k][o - 1] + 1
          BY <1>9, <2>1, <4>3
        <4>5. replays[k][o - 1] \in Nat
          BY <2>1, <4>3
        <4>6. replays[k][o - 1] = 0 /\ ~(k = q /\ o - 1 = rPos[q])
          BY <4>2, <4>4, <4>5
        <4>7. z \in InDLQ(event)
          BY <4>2, <4>6, CopiesInDLQ
        <4>8. z # y
          BY <2>3, <4>2, <4>6
        <4> QED
          BY <4>7, <4>8
      <3> QED
        BY <3>1
    <2>6. HandledAt(event)' = HandledAt(event)
      BY <1>1, <1>9, HandledSame DEF Appends
    <2>7. CASE event = e
      <3>1. OnTopic(event) = {} /\ HandledAt(event) = {} /\ InDLQ(event)' = {}
        BY <1>2, <2>4, <2>5, <2>7
      <3>2. OnTopic(event)' \subseteq {<<p, Len(log[p]) + 1>>}
        BY <1>1, <1>9, <2>4, <3>1, OneMore
      <3> QED
        BY <2>6, <3>1, <3>2
    <2>8. CASE event # e
      <3>1. OnTopic(event)' = OnTopic(event)
        BY <1>1, <1>9, <2>4, <2>8, OneMore
      <3> QED
        BY <1>2, <2>5, <2>6, <3>1
    <2> QED
      BY <2>7, <2>8
  <1> QED
    BY <1>3, <1>4, <1>6, <1>7, <1>8, <1>9 DEF Effect

\* The DLQ gets no event that the topic has not had.
LEMMA DLQPublished ==
  ASSUME Typed, R!IInv, Effect,
         \A q \in DLQPartitions : \A o \in DOMAIN dlqTopic[q] : Published(dlqTopic[q][o])
  PROVE  (\A q \in DLQPartitions : \A o \in DOMAIN dlqTopic[q] :
             Published(dlqTopic[q][o]))'
  <1>1. Grown
    BY TypedStep
  <1>2. ASSUME NEW event, Published(event)
        PROVE  Published(event)'
    BY <1>1, <1>2 DEF Grown, Published, Occurs
  <1>3. CASE UNCHANGED dlqTopic
    BY <1>2, <1>3
  <1>4. ASSUME NEW m \in Members, NEW p \in Partitions, NEW q \in DLQPartitions,
               Stores(m, p, q), NEW event,
               NEW k \in DLQPartitions, NEW o \in DOMAIN dlqTopic'[k],
               event = dlqTopic'[k][o]
        PROVE  Published(event)'
    <2> DEFINE e == log[p][pos[m][p] + 1]
    <2>1. e \in EventTypes /\ Published(e)
      BY <1>4, EventsOf DEF Stores, Published, Occurs
    <2>2. /\ DOMAIN dlqTopic'[q] = DOMAIN dlqTopic[q] \cup {Len(dlqTopic[q]) + 1}
          /\ dlqTopic'[q][Len(dlqTopic[q]) + 1] = e
          /\ \A j \in DLQPartitions :
                /\ j # q => dlqTopic'[j] = dlqTopic[j]
                /\ \A n \in DOMAIN dlqTopic[j] : dlqTopic'[j][n] = dlqTopic[j][n]
      BY <1>4, <2>1, AppendAt DEF Typed, Stores
    <2>3. Published(event)
      BY <1>4, <2>1, <2>2
    <2> QED
      BY <1>2, <2>3
  <1>5. CASE \E m \in Members, p \in Partitions, q \in DLQPartitions : Stores(m, p, q)
    <2>1. \A event : \A k \in DLQPartitions : \A o \in DOMAIN dlqTopic'[k] :
             event = dlqTopic'[k][o] => Published(event)'
      BY <1>4, <1>5
    <2> QED
      BY <2>1
  <1> QED
    BY <1>3, <1>5 DEF Effect, Quiet, Appends, Settles, Skips

\* An undisturbed step moves the copy of an event, and makes no second one.
LEMMA OneCopyStep ==
  ASSUME IInv, OneCopy, CG!NoRedeliveryWithoutFault, R!ReplayInv, [Next]_vars
  PROVE  OneCopy'
  <1>1. Effect
    BY Effects
  <1>2. (\A q \in DLQPartitions : \A o \in DOMAIN dlqTopic[q] :
            Published(dlqTopic[q][o]))'
    BY <1>1, DLQPublished DEF IInv, OneCopy
  <1>3. ASSUME Undisturbed', NEW event \in EventTypes
        PROVE  Single(event)'
    <2>1. Undisturbed /\ stats'.Failed = 0
      BY <1>3, StillDisturbed DEF Undisturbed
    <2> QED
      BY <1>1, <2>1, NextInv, SingleStep
  <1> QED
    BY <1>2, <1>3 DEF OneCopy

\* An event that goes round undisturbed is in one place at a time: a claim
\* disposes of an offset, and a replay publishes a DLQ record, that was not
\* disposed of or replayed before, which is what the theorems about the two
\* components say.
THEOREM KeptSingle == Spec => []OneCopy
  <1>1. Init => OneCopy
    <2> SUFFICES ASSUME Init PROVE OneCopy
      OBVIOUS
    <2>1. \A event : OnTopic(event) = {} /\ InDLQ(event) = {} /\ HandledAt(event) = {}
      BY CopiesOnTopic, CopiesInDLQ DEF Init, CG!Init, HandledAt
    <2> QED
      BY <2>1 DEF Init, OneCopy, Single, AtMostOne
  <1>2. Spec => []CG!NoRedeliveryWithoutFault
    <2>1. CG!Spec => []CGP!NoRedeliveryWithoutFault
      <3>1. CG!Init => CGP!Init
        BY SameGroup
      <3>2. [CG!Next]_(CG!vars) => [CGP!Next]_(CGP!vars)
        BY SameGroup
      <3>3. CGP!Spec => []CGP!NoRedeliveryWithoutFault
        BY GroupAssumption, CGP!NoRedelivery
      <3> QED
        BY <3>1, <3>2, <3>3, PTL DEF CG!Spec, CGP!Spec
    <2>2. CGP!NoRedeliveryWithoutFault => CG!NoRedeliveryWithoutFault
      BY SameGroup
    <2> QED
      BY <2>1, <2>2, Components, PTL
  <1>3. Spec => []R!ReplayInv
    <2>1. R!Spec => []RP!ReplayInv
      <3>1. R!Init => RP!Init
        BY SameReplayer
      <3>2. [R!Next]_(R!vars) => [RP!Next]_(RP!vars)
        BY SameReplayer
      <3>3. RP!Spec => []RP!ReplayInv
        BY ReplayAssumption, RP!ReplaysFresh
      <3> QED
        BY <3>1, <3>2, <3>3, PTL DEF R!Spec, RP!Spec
    <2>2. RP!ReplayInv => R!ReplayInv
      BY SameReplayer
    <2> QED
      BY <2>1, <2>2, Components, PTL
  <1>4. IInv /\ OneCopy /\ CG!NoRedeliveryWithoutFault /\ R!ReplayInv /\ [Next]_vars
           => OneCopy'
    BY OneCopyStep
  <1> QED
    BY <1>1, <1>2, <1>3, <1>4, Inductive, PTL DEF Spec

\* Without a disturbance an event is handled once, though it may be retried,
\* dead-lettered and published again.
THEOREM NotHandledTwice == Spec => []HandledOnce
  <1>1. ASSUME OneCopy PROVE HandledOnce
    <2> SUFFICES ASSUME Undisturbed, NEW event \in EventTypes
                 PROVE  Cardinality(HandledAt(event)) <= 1
      BY DEF HandledOnce
    <2>1. AtMostOne(HandledAt(event))
      BY <1>1 DEF OneCopy, Single
    <2>2. CASE HandledAt(event) = {}
      BY <2>2, FS_EmptySet
    <2>3. CASE HandledAt(event) # {}
      <3>1. PICK x : HandledAt(event) = {x}
        BY <2>1, <2>3 DEF AtMostOne
      <3>2. Cardinality({x}) = 1
        BY FS_Singleton
      <3> QED
        BY <3>1, <3>2
    <2> QED
      BY <2>2, <2>3
  <1> QED
    BY <1>1, KeptSingle, PTL
=============================================================================

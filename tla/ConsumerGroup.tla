---------------------------- MODULE ConsumerGroup ----------------------------
(***************************************************************************)
(* A Kafka consumer group whose members run consumer.Consumer: the path of *)
(* a message from the partition log through processMessage (decoding,      *)
(* routing by event type, the retry loop, the DLQ callback, MarkMessage)   *)
(* to the committed offset, interleaved over members and partitions, with  *)
(* rebalances, crashes and restarts.                                       *)
(*                                                                         *)
(* A process is one member.  Each claimed partition is consumed by one     *)
(* goroutine (ConsumeClaim); claims of one member share its session.       *)
(* Broker, group coordinator and sarama session are external: they are     *)
(* modelled from what the code calls on them, and marked (external).       *)
(* Offsets start at 0; an offset of -1 means "no offset committed".        *)
(***************************************************************************)
EXTENDS Integers, Sequences, FiniteSets

CONSTANTS
    Members,            \* processes of the consumer group
    Partitions,         \* partitions of the subscribed topic
    EventTypes,         \* event types that occur in envelopes
    Malformed,          \* a record value that json.Unmarshal rejects
    Handlers,           \* event types registered with HandlerRegistry.Register
    Wildcard,           \* whether RegisterWildcard was called
    MaxRetries,         \* Config.MaxRetries, any int: Validate ignores it
    EnableAutoCommit,   \* Config.EnableAutoCommit
    OffsetReset,        \* Config.OffsetReset
    DLQHandler,         \* whether Consumer.DLQHandler is set
    BoundPartition,     \* originalPartition given to CreateConsumerDLQHandler
    BoundOffset,        \* originalOffset given to CreateConsumerDLQHandler
    MaxLog,             \* bound: messages published per partition
    MaxChurn            \* bound: crashes, stops, lost sessions, kicks

Values == EventTypes \cup {Malformed}

ASSUME ConfigAssumption ==
    /\ Malformed \notin EventTypes
    /\ Handlers \subseteq EventTypes
    /\ Wildcard \in BOOLEAN
    /\ MaxRetries \in Int
    /\ EnableAutoCommit \in BOOLEAN
    /\ OffsetReset \in {"earliest", "latest"}
    /\ DLQHandler \in BOOLEAN
    /\ BoundPartition \in Partitions
    /\ BoundOffset \in Nat
    /\ MaxLog \in Nat
    /\ MaxChurn \in Nat

VARIABLES
    log,        \* log[p]: partition p, a sequence of Values (external)
    committed,  \* committed[p]: committed offset of the group (external)
    member,     \* member[m]: "down", "joining" or "active" (in a session)
    current,    \* current[m]: m's generation is the coordinator's (external)
    cancelled,  \* cancelled[m]: the session's context is done
    pc,         \* pc[m][p]: where the goroutine of claim <<m, p>> is
    pos,        \* pos[m][p]: offset of the message being or next processed
    attempt,    \* attempt[m][p]: processMessage's attempt
    marked,     \* marked[m][p]: offset marked in the session, -1 if none
    fate,       \* <<p, o, f>>: how offset o of p was disposed of, but for dlq
    dlq,        \* messages in the DLQ topic
    churn,      \* disturbances used up, at most MaxChurn
    faulted     \* a crash, an eviction or a failed final commit happened

session == <<member, current, cancelled>>
claims == <<pc, pos, attempt, marked>>
vars == <<log, committed, member, current, cancelled, pc, pos, attempt,
          marked, fate, dlq, churn, faulted>>

-----------------------------------------------------------------------------
(* Messages and their routing. *)

Nil == "nil"
WildcardHandler == "wildcardHandler"

\* HandlerRegistry.Get: the specific handler, else the wildcard one, else nil.
Get(eventType) ==
    CASE eventType \in Handlers -> eventType
      [] eventType \notin Handlers /\ Wildcard -> WildcardHandler
      [] OTHER -> Nil

Message(p, o) == log[p][o + 1]

\* "unrouted": no handler; "uninvoked": marked without any attempt;
\* "discarded": attempts exhausted and no DLQHandler; "lost": attempts
\* exhausted and the DLQ rejected the message.
Fates == {"handled", "undecodable", "unrouted", "uninvoked", "discarded", "lost"}
Dispositions == Partitions \X Nat \X Fates

\* Where a claim is: not held, in its range loop, in processMessage, ended.
Stages == {"none", "idle", "invoke", "dlq", "mark", "done"}

\* NewMessage, with the offset and partition that the callback was built
\* with; the envelope is identified by where it really came from.
NewMessage(originalPartition, originalOffset, attemptCount, env) ==
    [original_partition |-> originalPartition,
     original_offset    |-> originalOffset,
     attempt_count      |-> attemptCount,
     envelope           |-> env]

DLQMessages == [original_partition : Partitions, original_offset : Nat,
                attempt_count : Int, envelope : Partitions \X Nat]

DeadLettered(p, o) == \E d \in dlq : d.envelope = <<p, o>>
HasFate(p, o) == \E f \in Fates : <<p, o, f>> \in fate
Settled(p, o) == HasFate(p, o) \/ DeadLettered(p, o)

-----------------------------------------------------------------------------
(* Group membership. *)

Owns(m, p) == current[m] /\ pc[m][p] # "none"
Joining == {m \in Members : member[m] = "joining"}
NeedsRebalance ==
    \/ Joining # {}
    \/ \E p \in Partitions : \A m \in Members : ~Owns(m, p)

\* Bug: OffsetReset is read the wrong way round.
StartOffset_Reset(p) ==
    CASE committed[p] >= 0 -> committed[p]
      [] committed[p] < 0 /\ OffsetReset = "earliest" -> Len(log[p])
      [] OTHER -> 0

\* Bug: the committed offset is taken for the last message processed.
StartOffset_Skip(p) ==
    CASE committed[p] >= 0 -> committed[p] + 1
      [] committed[p] < 0 /\ OffsetReset = "latest" -> Len(log[p])
      [] OTHER -> 0

\* Where a new claim starts: the committed offset, else where OffsetReset says.
StartOffset(p) ==
    CASE committed[p] >= 0 -> committed[p]
      [] committed[p] < 0 /\ OffsetReset = "latest" -> Len(log[p])
      [] OTHER -> 0

NoClaims(init) == [p \in Partitions |-> init]

ForgetClaims(m) ==
    /\ pc' = [pc EXCEPT ![m] = NoClaims("none")]
    /\ pos' = [pos EXCEPT ![m] = NoClaims(0)]
    /\ attempt' = [attempt EXCEPT ![m] = NoClaims(0)]
    /\ marked' = [marked EXCEPT ![m] = NoClaims(-1)]

Churn ==
    /\ churn < MaxChurn
    /\ churn' = churn + 1

Init ==
    /\ log = [p \in Partitions |-> <<>>]
    /\ committed = [p \in Partitions |-> -1]
    /\ member = [m \in Members |-> "down"]
    /\ current = [m \in Members |-> FALSE]
    /\ cancelled = [m \in Members |-> FALSE]
    /\ pc = [m \in Members |-> NoClaims("none")]
    /\ pos = [m \in Members |-> NoClaims(0)]
    /\ attempt = [m \in Members |-> NoClaims(0)]
    /\ marked = [m \in Members |-> NoClaims(-1)]
    /\ fate = {}
    /\ dlq = {}
    /\ churn = 0
    /\ faulted = FALSE

\* (external) A producer appends a record.
Produce(p, v) ==
    /\ Len(log[p]) < MaxLog
    /\ log' = [log EXCEPT ![p] = Append(@, v)]
    /\ UNCHANGED <<committed, session, claims, fate, dlq, churn, faulted>>

\* Start: the loop calls client.Consume, which joins the group.
Start(m) ==
    /\ member[m] = "down"
    /\ member' = [member EXCEPT ![m] = "joining"]
    /\ UNCHANGED <<log, committed, current, cancelled, claims, fate, dlq,
                   churn, faulted>>

\* Start returns: the loop finds ctx done between two sessions.
Stop(m) ==
    /\ member[m] = "joining"
    /\ Churn
    /\ member' = [member EXCEPT ![m] = "down"]
    /\ UNCHANGED <<log, committed, current, cancelled, claims, fate, dlq, faulted>>

\* (external) The coordinator completes a rebalance: the joined members form
\* a new generation and start a session.  It waits for the members of the
\* last generation to end theirs, or evicts them when they take too long.
Rebalance(assignment) ==
    /\ Joining # {}
    /\ assignment \in [Partitions -> Joining]
    /\ IF \E m \in Members : member[m] = "active" /\ current[m]
       THEN Churn /\ faulted' = TRUE
       ELSE UNCHANGED <<churn, faulted>>
    /\ member' = [m \in Members |->
                    IF m \in Joining THEN "active" ELSE member[m]]
    /\ current' = [m \in Members |-> m \in Joining]
    /\ cancelled' = [m \in Members |-> cancelled[m] /\ m \notin Joining]
    /\ pc' = [m \in Members |-> [p \in Partitions |->
                 CASE m \notin Joining -> pc[m][p]
                   [] m \in Joining /\ assignment[p] = m -> "idle"
                   [] OTHER -> "none"]]
    /\ pos' = [m \in Members |-> [p \in Partitions |->
                 IF m \in Joining /\ assignment[p] = m
                 THEN StartOffset(p) ELSE pos[m][p]]]
    /\ marked' = [m \in Members |-> [p \in Partitions |->
                 IF m \in Joining /\ assignment[p] = m
                 THEN committed[p] ELSE marked[m][p]]]
    /\ UNCHANGED <<log, committed, attempt, fate, dlq>>

\* (external) The session's context is cancelled: the heartbeat reports a
\* rebalance or an eviction.
Heartbeat(m) ==
    /\ member[m] = "active" /\ ~cancelled[m]
    /\ ~current[m] \/ NeedsRebalance
    /\ cancelled' = [cancelled EXCEPT ![m] = TRUE]
    /\ UNCHANGED <<log, committed, member, current, claims, fate, dlq,
                   churn, faulted>>

\* (external) The session's context is cancelled for another reason: the
\* caller cancelled ctx, or the connection to the coordinator broke.
LoseSession(m) ==
    /\ member[m] = "active" /\ ~cancelled[m]
    /\ Churn
    /\ cancelled' = [cancelled EXCEPT ![m] = TRUE]
    /\ UNCHANGED <<log, committed, member, current, claims, fate, dlq, faulted>>

-----------------------------------------------------------------------------
(* processMessage, one step per interleaving point. *)

\* Bug: the message's own offset is marked.
MarkMessage_Same(m, p) ==
    /\ marked' = [marked EXCEPT ![m][p] = pos[m][p]]
    /\ pos' = [pos EXCEPT ![m][p] = @ + 1]
    /\ pc' = [pc EXCEPT ![m][p] = "idle"]
    /\ attempt' = [attempt EXCEPT ![m][p] = 0]

\* session.MarkMessage stores the next offset in the session; the range loop
\* of ConsumeClaim then goes on to the next message.
MarkMessage(m, p) ==
    /\ marked' = [marked EXCEPT ![m][p] = pos[m][p] + 1]
    /\ pos' = [pos EXCEPT ![m][p] = @ + 1]
    /\ pc' = [pc EXCEPT ![m][p] = "idle"]
    /\ attempt' = [attempt EXCEPT ![m][p] = 0]

Dispose(m, p, f) == fate' = fate \cup {<<p, pos[m][p], f>>}

\* The next message of claim.Messages(); buffered ones still arrive after
\* the session's context is done.
Receives(m, p) == pc[m][p] = "idle" /\ pos[m][p] < Len(log[p])

\* Bug: an envelope that does not unmarshal is skipped without marking it.
SkipUndecodable_NoMark(m, p) ==
    /\ Receives(m, p)
    /\ Message(p, pos[m][p]) = Malformed
    /\ Dispose(m, p, "undecodable")
    /\ pos' = [pos EXCEPT ![m][p] = @ + 1]
    /\ UNCHANGED <<log, committed, session, pc, attempt, marked, dlq, churn, faulted>>

\* The envelope does not unmarshal: logged and marked.
SkipUndecodable(m, p) ==
    /\ Receives(m, p)
    /\ Message(p, pos[m][p]) = Malformed
    /\ Dispose(m, p, "undecodable")
    /\ MarkMessage(m, p)
    /\ UNCHANGED <<log, committed, session, dlq, churn, faulted>>

\* No handler for the event type: logged and marked.
SkipUnrouted(m, p) ==
    /\ Receives(m, p)
    /\ Message(p, pos[m][p]) # Malformed
    /\ Get(Message(p, pos[m][p])) = Nil
    /\ Dispose(m, p, "unrouted")
    /\ MarkMessage(m, p)
    /\ UNCHANGED <<log, committed, session, dlq, churn, faulted>>

\* Bug: the message is marked before it is processed.
BeginAttempts_MarkFirst(m, p) ==
    /\ Receives(m, p)
    /\ Message(p, pos[m][p]) # Malformed
    /\ Get(Message(p, pos[m][p])) # Nil
    /\ pc' = [pc EXCEPT ![m][p] = "invoke"]
    /\ attempt' = [attempt EXCEPT ![m][p] = 1]
    /\ marked' = [marked EXCEPT ![m][p] = pos[m][p] + 1]
    /\ UNCHANGED <<log, committed, session, pos, fate, dlq, churn, faulted>>

\* The retry loop is entered, unless MaxRetries leaves it no iteration: then
\* lastErr is nil and the message is marked with no attempt made.
BeginAttempts(m, p) ==
    /\ Receives(m, p)
    /\ Message(p, pos[m][p]) # Malformed
    /\ Get(Message(p, pos[m][p])) # Nil
    /\ IF 1 <= MaxRetries
       THEN /\ pc' = [pc EXCEPT ![m][p] = "invoke"]
            /\ attempt' = [attempt EXCEPT ![m][p] = 1]
            /\ UNCHANGED fate
       ELSE /\ pc' = [pc EXCEPT ![m][p] = "mark"]
            /\ Dispose(m, p, "uninvoked")
            /\ UNCHANGED attempt
    /\ UNCHANGED <<log, committed, session, pos, marked, dlq, churn, faulted>>

\* The handler returns nil.
HandlerSucceeds(m, p) ==
    /\ pc[m][p] = "invoke"
    /\ pc' = [pc EXCEPT ![m][p] = "mark"]
    /\ Dispose(m, p, "handled")
    /\ UNCHANGED <<log, committed, session, pos, attempt, marked, dlq, churn, faulted>>

\* Bug: one attempt too many.
HandlerFails_OneMore(m, p) ==
    /\ pc[m][p] = "invoke"
    /\ IF attempt[m][p] <= MaxRetries
       THEN /\ attempt' = [attempt EXCEPT ![m][p] = @ + 1]
            /\ UNCHANGED pc
       ELSE /\ pc' = [pc EXCEPT ![m][p] = "dlq"]
            /\ UNCHANGED attempt
    /\ UNCHANGED <<log, committed, session, pos, marked, fate, dlq, churn, faulted>>

\* Bug: the attempts start again when they are exhausted.
HandlerFails_Forever(m, p) ==
    /\ pc[m][p] = "invoke"
    /\ attempt' = [attempt EXCEPT ![m][p] = IF @ + 1 <= MaxRetries THEN @ + 1 ELSE 1]
    /\ UNCHANGED <<log, committed, session, pc, pos, marked, fate, dlq, churn, faulted>>

\* The handler returns an error, or panics and invokeHandler recovers: the
\* next attempt follows at once, or the attempts are exhausted.
HandlerFails(m, p) ==
    /\ pc[m][p] = "invoke"
    /\ IF attempt[m][p] + 1 <= MaxRetries
       THEN /\ attempt' = [attempt EXCEPT ![m][p] = @ + 1]
            /\ UNCHANGED pc
       ELSE /\ pc' = [pc EXCEPT ![m][p] = "dlq"]
            /\ UNCHANGED attempt
    /\ UNCHANGED <<log, committed, session, pos, marked, fate, dlq, churn, faulted>>

\* dlq.Handler.Handle: the message is wrapped and sent.  SendMessage may
\* acknowledge, fail, or fail although the broker stored the message.
Handle(m, p, originalPartition, originalOffset, attemptCount) ==
    LET msg == NewMessage(originalPartition, originalOffset, attemptCount,
                          <<p, pos[m][p]>>)
    IN  \E outcome \in {"acked", "failed", "unacked"} :
           IF outcome = "failed"
           THEN Dispose(m, p, "lost") /\ UNCHANGED dlq
           ELSE dlq' = dlq \cup {msg} /\ UNCHANGED fate

\* The callback made by CreateConsumerDLQHandler: it sends with the origin
\* it was created with, and only logs an error of Handle.
ConsumerDLQHandler(m, p) == Handle(m, p, BoundPartition, BoundOffset, MaxRetries)

\* Attempts exhausted: the DLQ callback runs if there is one.
SendToDLQ(m, p) ==
    /\ pc[m][p] = "dlq"
    /\ IF DLQHandler
       THEN ConsumerDLQHandler(m, p)
       ELSE Dispose(m, p, "discarded") /\ UNCHANGED dlq
    /\ pc' = [pc EXCEPT ![m][p] = "mark"]
    /\ UNCHANGED <<log, committed, session, pos, attempt, marked, churn, faulted>>

\* The message is marked whatever became of it.
FinishMessage(m, p) ==
    /\ pc[m][p] = "mark"
    /\ MarkMessage(m, p)
    /\ UNCHANGED <<log, committed, session, fate, dlq, churn, faulted>>

-----------------------------------------------------------------------------
(* Offsets and the end of a session. *)

\* Bug: the commit of a member of an older generation is accepted.
AutoCommit_Unfenced(m, p) ==
    /\ EnableAutoCommit
    /\ pc[m][p] # "none"
    /\ marked[m][p] >= 0 /\ marked[m][p] # committed[p]
    /\ committed' = [committed EXCEPT ![p] = marked[m][p]]
    /\ UNCHANGED <<log, session, claims, fate, dlq, churn, faulted>>

\* (external) The session's periodic commit, when auto-commit is on.  A
\* member of an older generation is refused by the coordinator.
AutoCommit(m, p) ==
    /\ EnableAutoCommit
    /\ current[m] /\ pc[m][p] # "none"
    /\ marked[m][p] >= 0 /\ marked[m][p] # committed[p]
    /\ committed' = [committed EXCEPT ![p] = marked[m][p]]
    /\ UNCHANGED <<log, session, claims, fate, dlq, churn, faulted>>

\* ConsumeClaim returns: the claim's channel is closed once the session's
\* context is done, whether or not messages were left in it.
EndClaim(m, p) ==
    /\ pc[m][p] = "idle"
    /\ cancelled[m]
    /\ pc' = [pc EXCEPT ![m][p] = "done"]
    /\ UNCHANGED <<log, committed, session, pos, attempt, marked, fate, dlq,
                   churn, faulted>>

\* Bug: the session is released without waiting for the claims in progress.
EndSession_Early(m) ==
    /\ member[m] = "active" /\ cancelled[m]
    /\ LET dirty == {p \in Partitions : /\ EnableAutoCommit /\ current[m]
                                        /\ pc[m][p] # "none"
                                        /\ marked[m][p] >= 0
                                        /\ marked[m][p] # committed[p]}
       IN  committed' = [p \in Partitions |->
              IF p \in dirty THEN marked[m][p] ELSE committed[p]]
    /\ member' = [member EXCEPT ![m] = "joining"]
    /\ current' = [current EXCEPT ![m] = FALSE]
    /\ cancelled' = [cancelled EXCEPT ![m] = FALSE]
    /\ ForgetClaims(m)
    /\ UNCHANGED <<log, fate, dlq, churn, faulted>>

\* client.Consume returns after the last claim: the session is released,
\* which commits what is marked if auto-commit is on (a failed commit is
\* not repeated), and the loop of Start calls Consume again.
EndSession(m) ==
    /\ member[m] = "active" /\ cancelled[m]
    /\ \A p \in Partitions : pc[m][p] \in {"none", "done"}
    /\ LET dirty == {p \in Partitions : /\ EnableAutoCommit /\ current[m]
                                        /\ pc[m][p] = "done"
                                        /\ marked[m][p] >= 0
                                        /\ marked[m][p] # committed[p]}
       IN  \E flushed \in SUBSET dirty :
              /\ committed' = [p \in Partitions |->
                    IF p \in flushed THEN marked[m][p] ELSE committed[p]]
              /\ IF flushed = dirty THEN UNCHANGED <<churn, faulted>>
                                    ELSE Churn /\ faulted' = TRUE
    /\ member' = [member EXCEPT ![m] = "joining"]
    /\ current' = [current EXCEPT ![m] = FALSE]
    /\ cancelled' = [cancelled EXCEPT ![m] = FALSE]
    /\ ForgetClaims(m)
    /\ UNCHANGED <<log, fate, dlq>>

\* The process dies; nothing but what is on the brokers survives.
Crash(m) ==
    /\ member[m] # "down"
    /\ Churn
    /\ faulted' = TRUE
    /\ member' = [member EXCEPT ![m] = "down"]
    /\ current' = [current EXCEPT ![m] = FALSE]
    /\ cancelled' = [cancelled EXCEPT ![m] = FALSE]
    /\ ForgetClaims(m)
    /\ UNCHANGED <<log, committed, fate, dlq>>

-----------------------------------------------------------------------------

ClaimStep(m, p) ==
    \/ SkipUndecodable(m, p)
    \/ SkipUnrouted(m, p)
    \/ BeginAttempts(m, p)
    \/ HandlerSucceeds(m, p)
    \/ HandlerFails(m, p)
    \/ SendToDLQ(m, p)
    \/ FinishMessage(m, p)
    \/ AutoCommit(m, p)
    \/ EndClaim(m, p)

MemberStep(m) ==
    \/ Start(m)
    \/ Stop(m)
    \/ Heartbeat(m)
    \/ LoseSession(m)
    \/ EndSession(m)
    \/ Crash(m)

Next ==
    \/ \E p \in Partitions, v \in Values : Produce(p, v)
    \/ \E assignment \in [Partitions -> Members] : Rebalance(assignment)
    \/ \E m \in Members : MemberStep(m)
    \/ \E m \in Members, p \in Partitions : ClaimStep(m, p)

Spec == Init /\ [][Next]_vars

-----------------------------------------------------------------------------
(* Fairness: goroutines are scheduled, handlers and the DLQ answer, brokers *)
(* answer, a stopped or crashed member is started again.  Nothing is        *)
(* assumed of producers, and nothing forces a crash or a lost session.      *)

Process(m, p) ==
    \/ SkipUndecodable(m, p)
    \/ SkipUnrouted(m, p)
    \/ BeginAttempts(m, p)
    \/ HandlerSucceeds(m, p)
    \/ HandlerFails(m, p)
    \/ SendToDLQ(m, p)
    \/ FinishMessage(m, p)
    \/ EndClaim(m, p)

Fairness ==
    /\ WF_vars(\E assignment \in [Partitions -> Members] : Rebalance(assignment))
    /\ \A m \in Members :
          /\ WF_vars(Start(m))
          /\ WF_vars(Heartbeat(m))
          /\ WF_vars(EndSession(m))
          /\ \A p \in Partitions :
                /\ WF_vars(Process(m, p))
                /\ WF_vars(AutoCommit(m, p))

FairSpec == Spec /\ Fairness

-----------------------------------------------------------------------------
(* Properties. *)

\* Types; in particular a message is attempted at most MaxRetries times.
TypeOK ==
    /\ log \in [Partitions -> Seq(Values)]
    /\ committed \in [Partitions -> Nat \cup {-1}]
    /\ member \in [Members -> {"down", "joining", "active"}]
    /\ current \in [Members -> BOOLEAN]
    /\ cancelled \in [Members -> BOOLEAN]
    /\ pc \in [Members -> [Partitions -> Stages]]
    /\ pos \in [Members -> [Partitions -> Nat]]
    /\ attempt \in [Members -> [Partitions -> {0} \cup 1 .. MaxRetries]]
    /\ marked \in [Members -> [Partitions -> Nat \cup {-1}]]
    /\ fate \subseteq Dispositions
    /\ dlq \subseteq DLQMessages
    /\ churn \in 0 .. MaxChurn
    /\ faulted \in BOOLEAN

\* At least once: whatever crashes, evictions and rebalances do, the group's
\* committed offset never passes a message that no member has disposed of,
\* because processMessage marks a message only on its way out.
CommittedSettled ==
    \A p \in Partitions : \A o \in 0 .. committed[p] - 1 : Settled(p, o)

\* A committed offset never moves back, although an evicted member may still
\* be processing, and marking, the partition that its successor consumes.
CommittedMonotone ==
    [][\A p \in Partitions : committed'[p] >= committed[p]]_committed

\* With auto-commit, rebalances and restarts alone never make a member
\* process a message again: the offset marked by MarkMessage is the next
\* one, and every session flushes it.  Redelivery takes a crash, an eviction
\* or a failed final commit.
NoRedeliveryWithoutFault ==
    EnableAutoCommit /\ ~faulted =>
        \A m \in Members, p \in Partitions :
            pc[m][p] \in {"idle", "invoke", "dlq"} => ~Settled(p, pos[m][p])

\* The group implements the specification of at-least-once consumption.
SettledOffsets ==
    [p \in Partitions |-> {o \in 0 .. Len(log[p]) - 1 : Settled(p, o)}]

ALO == INSTANCE AtLeastOnce WITH settled <- SettledOffsets

ImplementsAtLeastOnce == ALO!Spec

\* Every published message is disposed of, if crashes eventually stop.
EventuallySettled ==
    \A p \in Partitions : \A o \in 0 .. MaxLog - 1 :
        o < Len(log[p]) ~> Settled(p, o)

\* Every published message is eventually below the committed offset.
EventuallyCommitted ==
    \A p \in Partitions : \A o \in 0 .. MaxLog - 1 :
        o < Len(log[p]) ~> committed[p] > o

-----------------------------------------------------------------------------
(* The inductive invariant behind the safety properties. *)

SettledBelow(p, n) == \A o \in 0 .. n - 1 : Settled(p, o)

\* Only members in a session hold claims, and only they can be current.
ClaimsNeedSession ==
    \A m \in Members : member[m] # "active" =>
        /\ ~current[m]
        /\ \A p \in Partitions : pc[m][p] = "none"

\* No two members of the coordinator's generation claim the same partition.
OneOwner ==
    \A m, n \in Members, p \in Partitions : Owns(m, p) /\ Owns(n, p) => m = n

\* A claim goes through its partition in order; what it marked is behind it.
InOrder(m, p) ==
    pc[m][p] # "none" =>
        /\ pos[m][p] <= Len(log[p])
        /\ marked[m][p] <= pos[m][p]
        /\ OffsetReset = "earliest" => SettledBelow(p, pos[m][p])

\* processMessage: on what each step of it relies.
InProgress(m, p) ==
    /\ pc[m][p] \in {"invoke", "dlq", "mark"} => pos[m][p] < Len(log[p])
    /\ pc[m][p] = "invoke" => attempt[m][p] # 0
    /\ pc[m][p] = "mark" => Settled(p, pos[m][p])

\* What a current member would commit is not behind what is committed.
OwnerAhead(m, p) == Owns(m, p) => committed[p] <= marked[m][p]

ClaimsSound ==
    \A m \in Members, p \in Partitions :
        InOrder(m, p) /\ InProgress(m, p) /\ OwnerAhead(m, p)

CommittedInLog ==
    \A p \in Partitions :
        /\ committed[p] <= Len(log[p])
        /\ OffsetReset = "earliest" => SettledBelow(p, committed[p])

\* Only published messages are disposed of.
SettledInLog ==
    /\ \A x \in fate : x[2] < Len(log[x[1]])
    /\ \A d \in dlq : d.envelope[2] < Len(log[d.envelope[1]])

\* Why offsets are safe to commit: every claim runs in offset order over a
\* settled prefix of its partition, behind the end of the log, and ahead of
\* the committed offset if its member is current.
IInv ==
    /\ TypeOK
    /\ ClaimsNeedSession
    /\ OneOwner
    /\ ClaimsSound
    /\ CommittedInLog
    /\ SettledInLog

-----------------------------------------------------------------------------
(* The inductive invariant behind NoRedeliveryWithoutFault. *)

\* No message of p is disposed of from offset n on.
FreshFrom(p, n) == \A o \in n .. Len(log[p]) - 1 : ~Settled(p, o)

\* A member in a session is one of the coordinator's generation.
SessionsCurrent == \A m \in Members : member[m] = "active" => current[m]

\* A claim has what is ahead of it to itself, and has marked all it passed.
Resumable(m, p) ==
    pc[m][p] # "none" =>
        /\ FreshFrom(p, IF pc[m][p] = "mark" THEN pos[m][p] + 1 ELSE pos[m][p])
        /\ marked[m][p] # -1 => marked[m][p] = pos[m][p]
        /\ marked[m][p] = -1 /\ OffsetReset = "earliest" => pos[m][p] = 0

\* Why nothing is processed twice without a fault: the last owner left the
\* committed offset where the next one finds nothing that is disposed of.
RInv ==
    EnableAutoCommit /\ ~faulted =>
        /\ SessionsCurrent
        /\ \A m \in Members, p \in Partitions : Resumable(m, p)
        /\ \A p \in Partitions :
              (\A m \in Members : pc[m][p] = "none") => FreshFrom(p, StartOffset(p))

-----------------------------------------------------------------------------
(* What the documentation says of the consumer and the run                 *)
(* "group_dlq_unavailable" refutes.                                        *)

\* "Commit offset only after successful handling", "Send to DLQ after max
\* retries": a committed message that was decoded and routed was handled or
\* is in the DLQ.
HandledOrDeadLettered ==
    \A p \in Partitions : \A o \in 0 .. committed[p] - 1 :
        \/ DeadLettered(p, o)
        \/ \E f \in {"handled", "undecodable", "unrouted"} : <<p, o, f>> \in fate
=============================================================================

------------------------------- MODULE Producer -------------------------------
(***************************************************************************)
(* producer.Producer: concurrent calls of PublishBatch and Close.          *)
(*                                                                         *)
(* (external) sarama's SyncProducer sends a message, sends it again at     *)
(* most MaxRetries times while no answer comes, and reports either that    *)
(* the brokers have it or an error.  Every request may reach the broker    *)
(* late, even after the call has given up, or never; the broker drops      *)
(* what an idempotent producer has sent before.                            *)
(***************************************************************************)
EXTENDS Integers, Sequences, FiniteSets

CONSTANTS
    Callers,        \* calls of PublishBatch
    Closers,        \* calls of Close
    Partitions,     \* partitions of the topics published to
    MaxRetries,     \* Config.MaxRetries
    Batches         \* the batches that callers publish

\* What an envelope of a batch may be: none at all, of a type without topic,
\* refused by Validate, with a payload that json.Marshal refuses, or one that
\* goes to a partition.
Envelopes == {"nil", "noTopic", "invalid", "unmarshallable"} \cup Partitions

ASSUME ProducerAssumption ==
    /\ MaxRetries \in Nat
    /\ "free" \notin Closers
    /\ Batches \subseteq Seq(Envelopes)

VARIABLES
    batch,      \* batch[b]: the envelopes of the call b
    keyed,      \* the calls with as many keys as envelopes
    pc,         \* pc[b]: where the call b is
    i,          \* i[b]: index of the envelope it publishes
    tries,      \* tries[b]: requests sent for it after the first
    result,     \* result[b]: what the call returned
    closed,     \* Producer.closed
    mu,         \* the call of Close that has Producer.mu, or "free"
    sync,       \* the SyncProducer: "open", "closing", "closed" (external)
    closer,     \* closer[c]: where the call c of Close is
    wire,       \* requests that may still reach the broker (external)
    log         \* log[p]: the messages <<call, index>> of p (external)

callVars == <<batch, keyed, pc, i, tries, result>>
closeVars == <<closed, mu, sync, closer>>
vars == <<callVars, closeVars, wire, log>>

Init ==
    /\ batch \in [Callers -> Batches]
    /\ keyed \in SUBSET Callers
    /\ pc = [b \in Callers |-> "idle"]
    /\ i = [b \in Callers |-> 1]
    /\ tries = [b \in Callers |-> 0]
    /\ result = [b \in Callers |-> "none"]
    /\ closed = FALSE
    /\ mu = "free"
    /\ sync = "open"
    /\ closer = [c \in Closers |-> "idle"]
    /\ wire = {}
    /\ log = [p \in Partitions |-> <<>>]

-----------------------------------------------------------------------------
(* PublishBatch, Publish and PublishToTopic. *)

Envelope(b) == batch[b][i[b]]

Goto(b, l) ==
    /\ pc' = [pc EXCEPT ![b] = l]
    /\ UNCHANGED result

Return(b, r) ==
    /\ pc' = [pc EXCEPT ![b] = "returned"]
    /\ result' = [result EXCEPT ![b] = r]

\* The call checks that there are as many keys as envelopes.
PublishBatch(b) ==
    /\ pc[b] = "idle"
    /\ IF b \in keyed THEN Goto(b, "next") ELSE Return(b, "ErrBatchLengthMismatch")
    /\ UNCHANGED <<batch, keyed, i, tries, closeVars, wire, log>>

\* The next envelope's topic is looked up; after the last one, nil.
Publish(b) ==
    /\ pc[b] = "next"
    /\ IF i[b] > Len(batch[b]) THEN Return(b, "nil")
       ELSE CASE Envelope(b) = "nil" -> Return(b, "ErrNilEnvelope")
              [] Envelope(b) = "noTopic" -> Return(b, "ErrNoTopicForEventType")
              [] OTHER -> Goto(b, "check")
    /\ UNCHANGED <<batch, keyed, i, tries, closeVars, wire, log>>

\* closed is read under the read lock, and the envelope validated and
\* marshalled; the lock is free again when the message is sent.
CheckClosed(b) ==
    /\ pc[b] = "check" /\ mu = "free"
    /\ CASE closed -> Return(b, "ErrProducerClosed")
         [] ~closed /\ Envelope(b) = "invalid" -> Return(b, "ErrInvalidEnvelope")
         [] ~closed /\ Envelope(b) = "unmarshallable" -> Return(b, "marshal error")
         [] OTHER -> Goto(b, "send")
    /\ UNCHANGED <<batch, keyed, i, tries, closeVars, wire, log>>

Request(b) == <<b, i[b], tries[b]>>

\* (external) A SyncProducer that is being closed refuses a message; once it
\* is closed, SendMessage panics on its closed channel.
Refusal == IF sync = "closing" THEN "ErrShuttingDown" ELSE "panic"

\* SendMessage; nothing keeps Close from coming between it and the check.
SendMessage(b) ==
    /\ pc[b] = "send"
    /\ IF sync = "open"
       THEN Goto(b, "sent") /\ wire' = wire \cup {Request(b)}
       ELSE Return(b, Refusal) /\ UNCHANGED wire
    /\ UNCHANGED <<batch, keyed, i, tries, closeVars, log>>

\* (external) No answer in time: the message is sent again.
Resend(b) ==
    /\ pc[b] = "sent" /\ tries[b] < MaxRetries
    /\ tries' = [tries EXCEPT ![b] = @ + 1]
    /\ wire' = wire \cup {<<b, i[b], tries[b] + 1>>}
    /\ UNCHANGED <<batch, keyed, pc, i, result, closeVars, log>>

InLog(b, n) == \E p \in Partitions : \E k \in DOMAIN log[p] : log[p][k] = <<b, n>>

\* Bug: the producer is not idempotent.
Accept_Again(r) ==
    LET p == batch[r[1]][r[2]]
    IN  log' = [log EXCEPT ![p] = Append(@, <<r[1], r[2]>>)]

\* Idempotent = true: the broker drops what it has.
Accept(r) ==
    LET p == batch[r[1]][r[2]]
    IN  log' = IF InLog(r[1], r[2]) THEN log
               ELSE [log EXCEPT ![p] = Append(@, <<r[1], r[2]>>)]

\* (external) A request reaches the broker.
Land(r) ==
    /\ wire' = wire \ {r}
    /\ Accept(r)
    /\ UNCHANGED <<callVars, closeVars>>

\* Bug: the call goes on although the message failed.
SendFails_GoOn(b) ==
    /\ pc[b] = "sent"
    /\ Goto(b, "next")
    /\ i' = [i EXCEPT ![b] = @ + 1]
    /\ tries' = [tries EXCEPT ![b] = 0]
    /\ UNCHANGED <<batch, keyed, closeVars, wire, log>>

\* SendMessage returns an error, and so does the call: the message may be in
\* the log, get there later, or never.
SendFails(b) ==
    /\ pc[b] = "sent"
    /\ Return(b, "sendError")
    /\ UNCHANGED <<batch, keyed, i, tries, closeVars, wire, log>>

\* SendMessage returns nil; the call goes on to the next envelope.
SendSucceeds(b) ==
    /\ pc[b] = "sent" /\ InLog(b, i[b])
    /\ Goto(b, "next")
    /\ i' = [i EXCEPT ![b] = @ + 1]
    /\ tries' = [tries EXCEPT ![b] = 0]
    /\ UNCHANGED <<batch, keyed, closeVars, wire, log>>

-----------------------------------------------------------------------------
(* Close. *)

\* A call of Close is made, and waits for the lock.
CallClose(c) ==
    /\ closer[c] = "idle"
    /\ closer' = [closer EXCEPT ![c] = "lock"]
    /\ UNCHANGED <<callVars, closed, mu, sync, wire, log>>

\* Bug: the lock is not held while the SyncProducer is closed.
CloseFlag_Unlock(c) ==
    /\ closer[c] = "lock" /\ mu = "free"
    /\ closed' = TRUE
    /\ IF closed
       THEN closer' = [closer EXCEPT ![c] = "returned"] /\ UNCHANGED sync
       ELSE closer' = [closer EXCEPT ![c] = "flush"] /\ sync' = "closing"
    /\ UNCHANGED <<callVars, mu, wire, log>>

\* The lock is taken and kept until the SyncProducer is closed; a later call
\* finds closed set and returns nil.
CloseFlag(c) ==
    /\ closer[c] = "lock" /\ mu = "free"
    /\ closed' = TRUE
    /\ IF closed
       THEN closer' = [closer EXCEPT ![c] = "returned"] /\ UNCHANGED <<mu, sync>>
       ELSE closer' = [closer EXCEPT ![c] = "flush"] /\ mu' = c /\ sync' = "closing"
    /\ UNCHANGED <<callVars, wire, log>>

\* Bug: the lock is not given back.
CloseSync_Locked(c) ==
    /\ closer[c] = "flush"
    /\ \A b \in Callers : pc[b] # "sent"
    /\ sync' = "closed"
    /\ closer' = [closer EXCEPT ![c] = "returned"]
    /\ UNCHANGED <<callVars, closed, mu, wire, log>>

\* (external) SyncProducer.Close returns once every message it took has been
\* answered; Close returns with it and unlocks.
CloseSync(c) ==
    /\ closer[c] = "flush"
    /\ \A b \in Callers : pc[b] # "sent"
    /\ sync' = "closed"
    /\ mu' = "free"
    /\ closer' = [closer EXCEPT ![c] = "returned"]
    /\ UNCHANGED <<callVars, closed, wire, log>>

-----------------------------------------------------------------------------

CallStep(b) ==
    \/ PublishBatch(b)
    \/ Publish(b)
    \/ CheckClosed(b)
    \/ SendMessage(b)
    \/ Resend(b)
    \/ SendFails(b)
    \/ SendSucceeds(b)

Next ==
    \/ \E b \in Callers : CallStep(b)
    \/ \E c \in Closers : CallClose(c) \/ CloseFlag(c) \/ CloseSync(c)
    \/ \E r \in wire : Land(r)

Spec == Init /\ [][Next]_vars

(* A call goes on once it is made, and SendMessage answers: it has a        *)
(* timeout and a bounded number of retries.  Nobody has to call Close; a    *)
(* Close that is made gets the lock, which has writers before readers.      *)
Fairness ==
    /\ \A b \in Callers :
          /\ WF_vars(Publish(b) \/ CheckClosed(b) \/ SendMessage(b))
          /\ WF_vars(SendFails(b) \/ SendSucceeds(b))
    /\ \A c \in Closers : WF_vars(CloseFlag(c) \/ CloseSync(c))

FairSpec == Spec /\ Fairness

-----------------------------------------------------------------------------
(* Properties. *)

Results == {"none", "nil", "ErrBatchLengthMismatch", "ErrNilEnvelope",
            "ErrNoTopicForEventType", "ErrProducerClosed", "ErrInvalidEnvelope",
            "marshal error", "ErrShuttingDown", "panic", "sendError"}

\* Types of the variables.
TypeOK ==
    /\ batch \in [Callers -> Batches]
    /\ keyed \subseteq Callers
    /\ pc \in [Callers -> {"idle", "next", "check", "send", "sent", "returned"}]
    /\ result \in [Callers -> Results]
    /\ i \in [Callers -> Nat]
    /\ \A b \in Callers : i[b] \in 1 .. Len(batch[b]) + 1
    /\ tries \in [Callers -> 0 .. MaxRetries]
    /\ closed \in BOOLEAN
    /\ mu \in Closers \cup {"free"}
    /\ sync \in {"open", "closing", "closed"}
    /\ closer \in [Closers -> {"idle", "lock", "flush", "returned"}]
    /\ wire \subseteq Callers \X Nat \X (0 .. MaxRetries)
    /\ log \in [Partitions -> Seq(Callers \X Nat)]

\* The lock is held exactly while the SyncProducer is being closed, by the call
\* that closes it, and closed is set before that begins.
LockHeld ==
    /\ \A c \in Closers : mu = c <=> closer[c] = "flush"
    /\ mu # "free" <=> sync = "closing"
    /\ closed <=> sync # "open"

\* What has been sent of a batch, or is in the log, is an envelope that the
\* call has reached; the one it is at only if its answer is awaited or was an
\* error.
Sent(b, n) ==
    /\ n \in 1 .. Len(batch[b]) /\ n <= i[b]
    /\ n = i[b] => pc[b] = "sent" \/ result[b] = "sendError"
    /\ batch[b][n] \in Partitions
    /\ b \in keyed

OnlySent ==
    /\ \A r \in wire : Sent(r[1], r[2])
    /\ \A p \in Partitions : \A k \in DOMAIN log[p] :
          Sent(log[p][k][1], log[p][k][2]) /\ batch[log[p][k][1]][log[p][k][2]] = p

\* A call goes on to the next envelope when the log has the last one, and
\* returns nil at the end of the batch.
Answered ==
    \A b \in Callers :
        /\ \A n \in 1 .. i[b] - 1 : InLog(b, n)
        /\ pc[b] = "returned" <=> result[b] # "none"
        /\ result[b] = "nil" => i[b] = Len(batch[b]) + 1
        /\ pc[b] \in {"check", "send", "sent"} => i[b] <= Len(batch[b])
        /\ pc[b] = "check" => Envelope(b) \notin {"nil", "noTopic"}
        /\ pc[b] \in {"send", "sent"} => Envelope(b) \in Partitions
        /\ pc[b] \in {"next", "check", "send", "sent"} => b \in keyed
        /\ sync = "closed" => pc[b] # "sent"

\* What ties the calls, the lock, the SyncProducer, the requests and the log
\* together.
IInv == TypeOK /\ LockHeld /\ OnlySent /\ Answered

\* What the log holds of a batch is told by what the call returned: all of it
\* after nil, nothing after a mismatch, and after an error at envelope i all
\* of what is before i, nothing of what is behind, and i itself only if it is
\* a send error.
BatchIsPrefix ==
    \A b \in Callers : \A n \in 1 .. Len(batch[b]) :
        /\ result[b] # "none" /\ n < i[b] => InLog(b, n)
        /\ InLog(b, n) => b \in keyed /\ n <= i[b]
        /\ InLog(b, n) /\ n = i[b] => result[b] \in {"none", "sendError"}
        /\ result[b] = "nil" => InLog(b, n)

\* A partition has the messages of a batch in the order of the batch and each
\* of them once, whatever requests were sent again or came late.
BatchOrder ==
    \A p \in Partitions : \A j, k \in DOMAIN log[p] :
        j < k /\ log[p][j][1] = log[p][k][1] => log[p][j][2] < log[p][k][2]

\* When any call of Close has returned, the SyncProducer is closed and has
\* answered every message it took.
EveryCloseDrains ==
    (\E c \in Closers : closer[c] = "returned") =>
        sync = "closed" /\ \A b \in Callers : pc[b] # "sent"

\* No call waits for ever: Close keeps the lock only as long as messages are
\* in flight, and these need no lock to be answered.
CallsReturn ==
    /\ \A b \in Callers : pc[b] # "idle" ~> pc[b] = "returned"
    /\ \A c \in Closers : closer[c] # "idle" ~> closer[c] = "returned"
=============================================================================

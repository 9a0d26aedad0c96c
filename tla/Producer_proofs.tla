---------------------------- MODULE Producer_proofs ----------------------------
(***************************************************************************)
(* Proofs about Producer, for any number of calls, batches and partitions: *)
(* what the log holds of a batch, in which order, and that every call of   *)
(* Close returns with nothing in flight.                                   *)
(***************************************************************************)
EXTENDS Producer, TLAPS

PCs == {"idle", "next", "check", "send", "sent", "returned"}

\* How a step of the call b that stays at its envelope moves the call.
Moved(b) ==
    /\ pc' \in [Callers -> PCs] /\ result' \in [Callers -> Results]
    /\ \A d \in Callers \ {b} : pc'[d] = pc[d] /\ result'[d] = result[d]
    /\ pc[b] # "returned"
    /\ pc'[b] = "returned" <=> result'[b] # "none"
    /\ pc[b] = "sent" => pc'[b] = "sent" \/ result'[b] = "sendError"
    /\ result'[b] = "nil" => i[b] = Len(batch[b]) + 1
    /\ pc'[b] \in {"check", "send", "sent"} => i[b] <= Len(batch[b])
    /\ pc'[b] = "check" => Envelope(b) \notin {"nil", "noTopic"}
    /\ pc'[b] \in {"send", "sent"} => Envelope(b) \in Partitions
    /\ pc'[b] # "returned" => b \in keyed
    /\ pc'[b] = "sent" => sync # "closed"

\* What such a step may send.
Requests(b) == {b} \X {i[b]} \X (0 .. MaxRetries)

\* The batch of a call, and the envelope it has come to.
LEMMA BatchTypes ==
    ASSUME IInv, NEW b \in Callers
    PROVE  /\ batch[b] \in Seq(Envelopes) /\ Len(batch[b]) \in Nat
           /\ i[b] \in Nat /\ i[b] >= 1 /\ i[b] <= Len(batch[b]) + 1
           /\ i[b] <= Len(batch[b]) => Envelope(b) \in Envelopes
           /\ pc[b] \in PCs /\ result[b] \in Results
           /\ pc \in [Callers -> PCs] /\ result \in [Callers -> Results]
           /\ pc[b] # "returned" => result[b] = "none"
  <1>1. batch[b] \in Seq(Envelopes)
    BY ProducerAssumption DEF IInv, TypeOK
  <1>2. Len(batch[b]) \in Nat
    BY <1>1
  <1>3. i[b] \in 1 .. Len(batch[b]) + 1
    BY DEF IInv, TypeOK
  <1>4. pc[b] # "returned" => result[b] = "none"
    BY DEF IInv, Answered
  <1> QED
    BY <1>1, <1>2, <1>3, <1>4 DEF IInv, TypeOK, Envelope, PCs

\* Going on to another step of the code is such a step.
LEMMA GotoMoves ==
    ASSUME IInv, NEW b \in Callers, NEW l \in {"next", "check", "send", "sent"},
           Goto(b, l), pc[b] \notin {"sent", "returned"}, b \in keyed,
           l \in {"check", "send", "sent"} => i[b] <= Len(batch[b]),
           l = "check" => Envelope(b) \notin {"nil", "noTopic"},
           l \in {"send", "sent"} => Envelope(b) \in Partitions,
           l = "sent" => sync # "closed"
    PROVE  Moved(b)
  <1>1. pc' \in [Callers -> PCs] /\ result' \in [Callers -> Results]
    BY BatchTypes DEF Goto, PCs
  <1>2. /\ \A d \in Callers \ {b} : pc'[d] = pc[d] /\ result'[d] = result[d]
        /\ pc'[b] = l /\ result'[b] = "none"
    BY BatchTypes DEF Goto
  <1> QED
    BY <1>1, <1>2 DEF Moved

\* So is returning.
LEMMA ReturnMoves ==
    ASSUME IInv, NEW b \in Callers, NEW r \in Results \ {"none"}, Return(b, r),
           pc[b] # "returned",
           pc[b] = "sent" => r = "sendError",
           r = "nil" => i[b] = Len(batch[b]) + 1
    PROVE  Moved(b)
  <1>1. pc' \in [Callers -> PCs] /\ result' \in [Callers -> Results]
    BY BatchTypes DEF Return, PCs
  <1>2. /\ \A d \in Callers \ {b} : pc'[d] = pc[d] /\ result'[d] = result[d]
        /\ pc'[b] = "returned" /\ result'[b] = r
    BY BatchTypes DEF Return
  <1> QED
    BY <1>1, <1>2 DEF Moved

\* A step that stays at its envelope, and sends nothing else than that, keeps
\* the invariant.
LEMMA MovedKeepsSent ==
    ASSUME IInv, NEW b \in Callers, Moved(b), UNCHANGED <<batch, keyed, i>>,
           NEW d \in Callers, NEW n \in Nat, Sent(d, n)
    PROVE  Sent(d, n)'
  <1>1. CASE d = b
    <2>1. pc[b] # "returned" /\ result[b] = "none"
      BY BatchTypes DEF Moved
    <2>2. n = i[b] => pc'[b] = "sent" \/ result'[b] = "sendError"
      BY <1>1, <2>1 DEF Moved, Sent
    <2> QED
      BY <1>1, <2>2 DEF Sent
  <1>2. CASE d # b
    BY <1>2 DEF Moved, Sent
  <1> QED
    BY <1>1, <1>2

\* Such a step keeps the invariant.
LEMMA MovedKeepsIInv ==
    ASSUME IInv, NEW b \in Callers, Moved(b),
           UNCHANGED <<batch, keyed, i, closeVars, log>>,
           tries' \in [Callers -> 0 .. MaxRetries],
           wire' \subseteq wire \cup Requests(b),
           wire' = wire \/ pc'[b] = "sent"
    PROVE  IInv'
  <1>1. TypeOK'
    <2>1. wire' \subseteq Callers \X Nat \X (0 .. MaxRetries)
      BY BatchTypes DEF IInv, TypeOK, Requests
    <2> QED
      BY <2>1 DEF IInv, TypeOK, Moved, PCs, closeVars
  <1>2. LockHeld'
    BY DEF IInv, LockHeld, closeVars
  <1>3. OnlySent'
    <2>1. ASSUME NEW r \in wire'
          PROVE  Sent(r[1], r[2])'
      <3>1. CASE r \in wire
        <4>1. r[1] \in Callers /\ r[2] \in Nat /\ Sent(r[1], r[2])
          BY <3>1 DEF IInv, TypeOK, OnlySent
        <4> QED
          BY <4>1, MovedKeepsSent
      <3>2. CASE r \notin wire
        <4>1. r[1] = b /\ r[2] = i[b] /\ pc'[b] = "sent"
          BY <2>1, <3>2 DEF Requests
        <4>2. /\ i[b] <= Len(batch[b]) /\ batch[b][i[b]] \in Partitions /\ b \in keyed
          BY <4>1 DEF Moved, Envelope
        <4>3. i[b] \in 1 .. Len(batch[b])
          BY <4>2, BatchTypes
        <4> QED
          BY <4>1, <4>2, <4>3 DEF Sent
      <3> QED
        BY <3>1, <3>2
    <2>2. ASSUME NEW p \in Partitions, NEW k \in DOMAIN log[p],
                 NEW e \in Callers \X Nat, e = log[p][k]
          PROVE  Sent(e[1], e[2])' /\ batch[e[1]][e[2]] = p
      <3>1. Sent(e[1], e[2]) /\ batch[e[1]][e[2]] = p
        BY <2>2 DEF IInv, OnlySent
      <3> QED
        BY <3>1, MovedKeepsSent
    <2>3. \A p \in Partitions : \A k \in DOMAIN log[p] : log[p][k] \in Callers \X Nat
      BY DEF IInv, TypeOK
    <2> QED
      BY <2>1, <2>2, <2>3 DEF OnlySent, Sent
  <1>4. Answered'
    <2>1. \A d \in Callers, n \in Nat : InLog(d, n)' <=> InLog(d, n)
      BY DEF InLog
    <2>2. ASSUME NEW d \in Callers
          PROVE  \A n \in 1 .. i[d] - 1 : InLog(d, n)'
      BY <2>1 DEF IInv, Answered, InLog
    <2>3. ASSUME NEW d \in Callers
          PROVE  /\ pc'[d] = "returned" <=> result'[d] # "none"
                 /\ result'[d] = "nil" => i[d] = Len(batch[d]) + 1
                 /\ pc'[d] \in {"check", "send", "sent"} => i[d] <= Len(batch[d])
                 /\ pc'[d] = "check" => Envelope(d) \notin {"nil", "noTopic"}
                 /\ pc'[d] \in {"send", "sent"} => Envelope(d) \in Partitions
                 /\ pc'[d] \in {"next", "check", "send", "sent"} => d \in keyed
                 /\ sync = "closed" => pc'[d] # "sent"
      <3>1. CASE d = b
        BY <3>1 DEF Moved
      <3>2. CASE d # b
        BY <3>2 DEF Moved, IInv, Answered
      <3> QED
        BY <3>1, <3>2
    <2> QED
      BY <2>2, <2>3 DEF Answered, Envelope, InLog, closeVars
  <1> QED
    BY <1>1, <1>2, <1>3, <1>4 DEF IInv

\* The steps of a call before its message is answered.
LEMMA CallKeepsIInv ==
    ASSUME IInv, NEW b \in Callers,
           PublishBatch(b) \/ Publish(b) \/ CheckClosed(b) \/ SendMessage(b) \/ Resend(b) \/ SendFails(b)
    PROVE  IInv'
  <1>1. CASE PublishBatch(b)
    <2>1. "ErrBatchLengthMismatch" \in Results \ {"none"}
      BY DEF Results
    <2>4. Moved(b)
      <3>1. pc[b] = "idle"
        BY <1>1 DEF PublishBatch
      <3>2. CASE b \in keyed
        <4>1. Goto(b, "next")
          BY <1>1, <3>2 DEF PublishBatch
        <4> QED
          BY <3>1, <3>2, <4>1, GotoMoves
      <3>3. CASE b \notin keyed
        <4>1. Return(b, "ErrBatchLengthMismatch")
          BY <1>1, <3>3 DEF PublishBatch
        <4> QED
          BY <2>1, <3>1, <4>1, ReturnMoves
      <3> QED
        BY <3>2, <3>3
    <2> QED
      BY <1>1, <2>4, MovedKeepsIInv DEF PublishBatch, IInv, TypeOK
  <1>2. CASE Publish(b)
    <2>1. {"nil", "ErrNilEnvelope", "ErrNoTopicForEventType"} \subseteq Results \ {"none"}
      BY DEF Results
    <2>2. pc[b] = "next" /\ b \in keyed
      BY <1>2 DEF Publish, IInv, Answered
    <2>5. Moved(b)
      <3>1. CASE i[b] > Len(batch[b])
        <4>1. i[b] = Len(batch[b]) + 1 /\ Return(b, "nil")
          BY <1>2, <3>1, BatchTypes DEF Publish
        <4> QED
          BY <2>1, <2>2, <4>1, ReturnMoves
      <3>2. CASE ~(i[b] > Len(batch[b])) /\ Envelope(b) = "nil"
        <4>1. Return(b, "ErrNilEnvelope")
          BY <1>2, <3>2 DEF Publish
        <4> QED
          BY <2>1, <2>2, <4>1, ReturnMoves
      <3>3. CASE ~(i[b] > Len(batch[b])) /\ Envelope(b) = "noTopic"
        <4>1. Return(b, "ErrNoTopicForEventType")
          BY <1>2, <3>3 DEF Publish
        <4> QED
          BY <2>1, <2>2, <4>1, ReturnMoves
      <3>4. CASE ~(i[b] > Len(batch[b])) /\ Envelope(b) \notin {"nil", "noTopic"}
        <4>1. Goto(b, "check") /\ i[b] <= Len(batch[b])
          BY <1>2, <3>4, BatchTypes DEF Publish
        <4> QED
          BY <2>2, <3>4, <4>1, GotoMoves
      <3> QED
        BY <3>1, <3>2, <3>3, <3>4
    <2> QED
      BY <1>2, <2>5, MovedKeepsIInv DEF Publish, IInv, TypeOK
  <1>3. CASE CheckClosed(b)
    <2>1. {"ErrProducerClosed", "ErrInvalidEnvelope", "marshal error"} \subseteq Results \ {"none"}
      BY DEF Results
    <2>2. /\ pc[b] = "check" /\ b \in keyed /\ i[b] <= Len(batch[b])
          /\ Envelope(b) \notin {"nil", "noTopic"}
      BY <1>3 DEF CheckClosed, IInv, Answered
    <2>6. Moved(b)
      <3>1. CASE closed
        <4>1. Return(b, "ErrProducerClosed")
          BY <1>3, <3>1 DEF CheckClosed
        <4> QED
          BY <2>1, <2>2, <4>1, ReturnMoves
      <3>2. CASE ~closed /\ Envelope(b) = "invalid"
        <4>1. Return(b, "ErrInvalidEnvelope")
          BY <1>3, <3>2 DEF CheckClosed
        <4> QED
          BY <2>1, <2>2, <4>1, ReturnMoves
      <3>3. CASE ~closed /\ Envelope(b) = "unmarshallable"
        <4>1. Return(b, "marshal error")
          BY <1>3, <3>3 DEF CheckClosed
        <4> QED
          BY <2>1, <2>2, <4>1, ReturnMoves
      <3>4. CASE ~closed /\ Envelope(b) \notin {"invalid", "unmarshallable"}
        <4>1. Goto(b, "send")
          BY <1>3, <3>4 DEF CheckClosed
        <4>2. Envelope(b) \in Partitions
          BY <2>2, <3>4, BatchTypes DEF Envelopes
        <4> QED
          BY <2>2, <4>1, <4>2, GotoMoves
      <3> QED
        BY <3>1, <3>2, <3>3, <3>4
    <2> QED
      BY <1>3, <2>6, MovedKeepsIInv DEF CheckClosed, IInv, TypeOK
  <1>4. CASE SendMessage(b)
    <2>1. Refusal \in Results \ {"none", "nil"}
      BY DEF Results, Refusal
    <2>2. /\ pc[b] = "send" /\ b \in keyed /\ i[b] <= Len(batch[b])
          /\ Envelope(b) \in Partitions
      BY <1>4 DEF SendMessage, IInv, Answered
    <2>3. CASE sync = "open"
      <3>1. Goto(b, "sent") /\ wire' = wire \cup {Request(b)}
        BY <1>4, <2>3 DEF SendMessage
      <3>2. Moved(b)
        BY <2>2, <2>3, <3>1, GotoMoves
      <3>3. pc'[b] = "sent"
        BY <3>1, BatchTypes DEF Goto
      <3>4. Request(b) \in Requests(b)
        BY DEF Request, Requests, IInv, TypeOK
      <3> QED
        BY <1>4, <3>1, <3>2, <3>3, <3>4, MovedKeepsIInv DEF SendMessage, IInv, TypeOK
    <2>4. CASE sync # "open"
      <3>1. PICK r \in Results \ {"none", "nil"} : Return(b, r) /\ wire' = wire
        BY <1>4, <2>1, <2>4 DEF SendMessage, Return
      <3>2. Moved(b)
        BY <2>2, <3>1, ReturnMoves
      <3> QED
        BY <1>4, <3>1, <3>2, MovedKeepsIInv DEF SendMessage, IInv, TypeOK
    <2> QED
      BY <2>3, <2>4
  <1>5. CASE Resend(b)
    <2>1. /\ pc[b] = "sent" /\ b \in keyed /\ i[b] <= Len(batch[b])
          /\ Envelope(b) \in Partitions /\ sync # "closed"
      BY <1>5 DEF Resend, IInv, Answered
    <2>2. tries[b] \in 0 .. MaxRetries /\ tries[b] < MaxRetries
      BY <1>5 DEF Resend, IInv, TypeOK
    <2>3. tries[b] + 1 \in 0 .. MaxRetries
      BY <2>2, ProducerAssumption
    <2>4. tries' \in [Callers -> 0 .. MaxRetries]
      BY <1>5, <2>3 DEF Resend, IInv, TypeOK
    <2>5. wire' \subseteq wire \cup Requests(b)
      BY <1>5, <2>3 DEF Resend, Requests
    <2>6. pc' = pc /\ result' = result
      BY <1>5 DEF Resend
    <2>7. Moved(b)
      <3>1. pc' \in [Callers -> PCs] /\ result' \in [Callers -> Results] /\ result[b] = "none"
        BY <2>1, <2>6, BatchTypes
      <3> QED
        BY <2>1, <2>6, <3>1 DEF Moved
    <2> QED
      BY <1>5, <2>1, <2>4, <2>5, <2>6, <2>7, MovedKeepsIInv DEF Resend
  <1>6. CASE SendFails(b)
    <2>1. "sendError" \in Results \ {"none"}
      BY DEF Results
    <2>2. Moved(b)
      BY <1>6, <2>1, ReturnMoves DEF SendFails
    <2> QED
      BY <1>6, <2>2, MovedKeepsIInv DEF SendFails, IInv, TypeOK
  <1> QED
    BY <1>1, <1>2, <1>3, <1>4, <1>5, <1>6

\* An answer moves the call to its next envelope.
LEMMA SucceedsKeepsIInv ==
    ASSUME IInv, NEW b \in Callers, SendSucceeds(b)
    PROVE  IInv'
  <1>1. /\ pc[b] = "sent" /\ result[b] = "none" /\ b \in keyed
        /\ i[b] <= Len(batch[b]) /\ InLog(b, i[b])
    BY DEF SendSucceeds, IInv, Answered
  <1>2. UNCHANGED <<batch, keyed, result, closeVars, wire, log>>
    BY DEF SendSucceeds, Goto
  <1>3. /\ i[b] \in Nat /\ i[b] >= 1 /\ Len(batch[b]) \in Nat
        /\ i'[b] = i[b] + 1 /\ \A d \in Callers \ {b} : i'[d] = i[d]
        /\ i' \in [Callers -> Nat]
    <2>1. i \in [Callers -> Nat] /\ i' = [i EXCEPT ![b] = @ + 1]
      BY DEF SendSucceeds, IInv, TypeOK
    <2>2. i[b] \in Nat /\ i[b] >= 1 /\ Len(batch[b]) \in Nat
      BY BatchTypes
    <2> QED
      BY <2>1, <2>2
  <1>4. /\ pc'[b] = "next" /\ \A d \in Callers \ {b} : pc'[d] = pc[d]
        /\ pc' \in [Callers -> PCs]
    BY BatchTypes DEF SendSucceeds, Goto, PCs
  <1>5. TypeOK'
    <2>1. \A d \in Callers : i'[d] \in 1 .. Len(batch[d]) + 1
      <3>1. ASSUME NEW d \in Callers
            PROVE  i'[d] \in 1 .. Len(batch[d]) + 1
        <4>1. i[d] \in Nat /\ i[d] >= 1 /\ i[d] <= Len(batch[d]) + 1 /\ Len(batch[d]) \in Nat
          BY BatchTypes
        <4> QED
          BY <1>1, <1>3, <4>1
      <3> QED
        BY <3>1
    <2>2. tries' \in [Callers -> 0 .. MaxRetries]
      BY ProducerAssumption DEF SendSucceeds, IInv, TypeOK
    <2> QED
      BY <1>2, <1>3, <1>4, <2>1, <2>2 DEF IInv, TypeOK, PCs, closeVars
  <1>6. LockHeld'
    BY <1>2 DEF IInv, LockHeld, closeVars
  <1>7. OnlySent'
    <2>1. ASSUME NEW d \in Callers, NEW n \in Nat, Sent(d, n)
          PROVE  Sent(d, n)'
      <3>1. CASE d = b
        BY <1>2, <1>3, <2>1, <3>1 DEF Sent
      <3>2. CASE d # b
        BY <1>2, <1>3, <1>4, <2>1, <3>2 DEF Sent
      <3> QED
        BY <3>1, <3>2
    <2>2. \A r \in wire : Sent(r[1], r[2])'
      BY <2>1 DEF IInv, TypeOK, OnlySent
    <2>3. ASSUME NEW p \in Partitions, NEW k \in DOMAIN log[p],
                 NEW e \in Callers \X Nat, e = log[p][k]
          PROVE  Sent(e[1], e[2])' /\ batch[e[1]][e[2]] = p
      <3>1. Sent(e[1], e[2]) /\ batch[e[1]][e[2]] = p
        BY <2>3 DEF IInv, OnlySent
      <3> QED
        BY <2>1, <3>1
    <2>4. \A p \in Partitions : \A k \in DOMAIN log[p] : log[p][k] \in Callers \X Nat
      BY DEF IInv, TypeOK
    <2> QED
      BY <1>2, <2>2, <2>3, <2>4 DEF OnlySent, Sent
  <1>8. Answered'
    <2>1. ASSUME NEW d \in Callers
          PROVE  \A n \in 1 .. i'[d] - 1 : InLog(d, n)
      <3>1. \A n \in 1 .. i[d] - 1 : InLog(d, n)
        BY DEF IInv, Answered
      <3>2. CASE d = b
        <4>1. \A n \in 1 .. i'[d] - 1 : n \in 1 .. i[d] - 1 \/ n = i[b]
          BY <1>3, <3>2
        <4> QED
          BY <1>1, <3>1, <3>2, <4>1
      <3>3. CASE d # b
        BY <1>3, <3>1, <3>3
      <3> QED
        BY <3>2, <3>3
    <2>2. ASSUME NEW d \in Callers
          PROVE  /\ pc'[d] = "returned" <=> result[d] # "none"
                 /\ result[d] = "nil" => i'[d] = Len(batch[d]) + 1
                 /\ pc'[d] \in {"check", "send", "sent"} => i'[d] <= Len(batch[d])
                 /\ pc'[d] = "check" => batch[d][i'[d]] \notin {"nil", "noTopic"}
                 /\ pc'[d] \in {"send", "sent"} => batch[d][i'[d]] \in Partitions
                 /\ pc'[d] \in {"next", "check", "send", "sent"} => d \in keyed
                 /\ sync = "closed" => pc'[d] # "sent"
      <3>1. CASE d = b
        BY <1>1, <1>4, <3>1
      <3>2. CASE d # b
        BY <1>3, <1>4, <3>2 DEF IInv, Answered, Envelope
      <3> QED
        BY <3>1, <3>2
    <2> QED
      BY <1>2, <2>1, <2>2 DEF Answered, Envelope, InLog, closeVars
  <1> QED
    BY <1>5, <1>6, <1>7, <1>8 DEF IInv

\* The only step that writes to a log: the entry it appends is the one its call
\* is at, and those of the same call that are there come before it.
LEMMA LandAppends ==
    ASSUME IInv, NEW r \in wire, Land(r), ~InLog(r[1], r[2]), NEW p, p = batch[r[1]][r[2]]
    PROVE  /\ p \in Partitions
           /\ log' = [log EXCEPT ![p] = Append(@, <<r[1], r[2]>>)]
           /\ r[1] \in Callers /\ r[2] \in Nat /\ Sent(r[1], r[2])
           /\ \A q \in Partitions : \A k \in DOMAIN log[q] :
                 log[q][k][1] = r[1] => log[q][k][2] < r[2]
  <1>1. r[1] \in Callers /\ r[2] \in Nat /\ Sent(r[1], r[2])
    BY DEF IInv, TypeOK, OnlySent
  <1>2. p \in Partitions
    BY <1>1 DEF Sent
  <1>3. log' = [log EXCEPT ![p] = Append(@, <<r[1], r[2]>>)]
    BY DEF Land, Accept
  <1>4. ASSUME NEW q \in Partitions, NEW k \in DOMAIN log[q], log[q][k][1] = r[1]
        PROVE  log[q][k][2] < r[2]
    <2>1. log[q][k] \in Callers \X Nat /\ Sent(r[1], log[q][k][2])
      BY <1>4 DEF IInv, TypeOK, OnlySent
    <2>2. log[q][k] = <<r[1], log[q][k][2]>>
      BY <1>4, <2>1
    <2>3. log[q][k][2] # r[2]
      BY <2>2 DEF InLog
    <2>4. log[q][k][2] \in Nat /\ log[q][k][2] <= i[r[1]] /\ i[r[1]] \in Nat /\ r[2] <= i[r[1]]
      BY <1>1, <2>1, BatchTypes DEF Sent
    <2>5. ~(r[2] < i[r[1]])
      <3>1. ASSUME r[2] < i[r[1]]
            PROVE  FALSE
        <4>1. r[2] \in 1 .. i[r[1]] - 1
          BY <1>1, <2>4, <3>1 DEF Sent
        <4> QED
          BY <1>1, <4>1 DEF IInv, Answered
      <3> QED
        BY <3>1
    <2> QED
      BY <1>1, <2>3, <2>4, <2>5
  <1> QED
    BY <1>1, <1>2, <1>3, <1>4

\* What appending does to a log.
LEMMA AppendEntries ==
    ASSUME NEW S, NEW s \in Seq(S), NEW e \in S
    PROVE  /\ Append(s, e) \in Seq(S) /\ Len(s) \in Nat
           /\ DOMAIN Append(s, e) = DOMAIN s \cup {Len(s) + 1}
           /\ DOMAIN s = 1 .. Len(s)
           /\ \A k \in DOMAIN s : Append(s, e)[k] = s[k]
           /\ Append(s, e)[Len(s) + 1] = e
  OBVIOUS

\* A request that arrives keeps it: it appends what its call has sent.
LEMMA LandKeepsIInv ==
    ASSUME IInv, NEW r \in wire, Land(r)
    PROVE  IInv'
  <1>1. UNCHANGED <<callVars, closeVars>> /\ wire' \subseteq wire
    BY DEF Land
  <1>2. LockHeld'
    BY <1>1 DEF IInv, LockHeld, closeVars
  <1>3. \A d, n : Sent(d, n)' <=> Sent(d, n)
    BY <1>1 DEF Sent, callVars
  <1>4. \A x \in wire' : Sent(x[1], x[2])'
    BY <1>1, <1>3 DEF IInv, OnlySent
  <1>5. CASE InLog(r[1], r[2])
    <2>1. log' = log
      BY <1>5 DEF Land, Accept
    <2>2. TypeOK'
      BY <1>1, <2>1 DEF IInv, TypeOK, callVars, closeVars
    <2>3. OnlySent'
      BY <1>1, <1>4, <2>1 DEF IInv, OnlySent, Sent, callVars
    <2>4. Answered'
      BY <1>1, <2>1 DEF IInv, Answered, InLog, Envelope, callVars, closeVars
    <2> QED
      BY <1>2, <2>2, <2>3, <2>4 DEF IInv
  <1>6. CASE ~InLog(r[1], r[2])
    <2> DEFINE p == batch[r[1]][r[2]]
               e == <<r[1], r[2]>>
    <2>1. /\ p \in Partitions /\ log' = [log EXCEPT ![p] = Append(@, e)]
          /\ r[1] \in Callers /\ r[2] \in Nat /\ Sent(r[1], r[2]) /\ e \in Callers \X Nat
      BY <1>6, LandAppends
    <2>2. /\ log[p] \in Seq(Callers \X Nat) /\ log'[p] = Append(log[p], e)
          /\ \A q \in Partitions : q # p => log'[q] = log[q]
      BY <2>1 DEF IInv, TypeOK
    <2>3. /\ log'[p] \in Seq(Callers \X Nat) /\ Len(log[p]) \in Nat
          /\ DOMAIN log'[p] = DOMAIN log[p] \cup {Len(log[p]) + 1}
          /\ \A k \in DOMAIN log[p] : log'[p][k] = log[p][k]
          /\ log'[p][Len(log[p]) + 1] = e
      <3>1. ASSUME NEW t, t = log[p], NEW x, x = e
            PROVE  /\ Append(t, x) \in Seq(Callers \X Nat) /\ Len(t) \in Nat
                   /\ DOMAIN Append(t, x) = DOMAIN t \cup {Len(t) + 1}
                   /\ \A k \in DOMAIN t : Append(t, x)[k] = t[k]
                   /\ Append(t, x)[Len(t) + 1] = x
        <4>1. t \in Seq(Callers \X Nat) /\ x \in Callers \X Nat
          BY <2>1, <2>2, <3>1
        <4> HIDE DEF p, e
        <4> QED
          BY <4>1, AppendEntries
      <3>2. PICK t, x : t = log[p] /\ x = e
        OBVIOUS
      <3>3. log'[p] = Append(t, x)
        BY <2>2, <3>2
      <3> HIDE DEF p, e
      <3> QED
        BY <2>2, <3>1, <3>2, <3>3
    <2>4. TypeOK'
      <3>1. log' \in [Partitions -> Seq(Callers \X Nat)]
        BY <2>1, <2>2, <2>3 DEF IInv, TypeOK
      <3> QED
        BY <1>1, <3>1 DEF IInv, TypeOK, callVars, closeVars
    <2>5. OnlySent'
      <3>1. ASSUME NEW q \in Partitions, NEW k \in DOMAIN log'[q]
            PROVE  \/ k \in DOMAIN log[q] /\ log'[q][k] = log[q][k]
                   \/ q = p /\ log'[q][k] = e
        BY <2>2, <2>3, <3>1
      <3>2. ASSUME NEW q \in Partitions, NEW k \in DOMAIN log'[q], NEW x, x = log'[q][k]
            PROVE  Sent(x[1], x[2]) /\ batch[x[1]][x[2]] = q
        <4>1. CASE k \in DOMAIN log[q] /\ x = log[q][k]
          BY <4>1 DEF IInv, OnlySent
        <4>2. CASE q = p /\ x = e
          BY <2>1, <4>2
        <4> QED
          BY <3>1, <3>2, <4>1, <4>2
      <3>3. ASSUME NEW q \in Partitions, NEW k \in DOMAIN log'[q], NEW x, x = log'[q][k]
            PROVE  Sent(x[1], x[2])' /\ (batch[x[1]][x[2]] = q)'
        BY <1>1, <1>3, <3>2, <3>3 DEF callVars
      <3> QED
        BY <1>4, <3>3 DEF OnlySent, Sent
    <2>6. Answered'
      <3>1. ASSUME NEW d \in Callers, NEW n \in Nat, InLog(d, n)
            PROVE  InLog(d, n)'
        <4>1. PICK q \in Partitions : \E k \in DOMAIN log[q] : log[q][k] = <<d, n>>
          BY <3>1 DEF InLog
        <4>2. PICK k \in DOMAIN log[q] : log[q][k] = <<d, n>>
          BY <4>1
        <4>3. k \in DOMAIN log'[q] /\ log'[q][k] = <<d, n>>
          BY <2>2, <2>3, <4>2
        <4> QED
          BY <4>3 DEF InLog
      <3>2. ASSUME NEW d \in Callers
            PROVE  \A n \in 1 .. i[d] - 1 : InLog(d, n)'
        <4>1. i[d] \in Nat
          BY BatchTypes
        <4>2. \A n \in 1 .. i[d] - 1 : n \in Nat /\ InLog(d, n)
          BY <4>1 DEF IInv, Answered
        <4> QED
          BY <3>1, <4>2
      <3> QED
        BY <1>1, <3>2 DEF IInv, Answered, InLog, Envelope, callVars, closeVars
    <2> QED
      BY <1>2, <2>4, <2>5, <2>6 DEF IInv
  <1> QED
    BY <1>5, <1>6

\* The steps of Close keep it: they touch neither the calls nor the log.
LEMMA CloseKeepsIInv ==
    ASSUME IInv, NEW c \in Closers, CallClose(c) \/ CloseFlag(c) \/ CloseSync(c)
    PROVE  IInv'
  <1>1. UNCHANGED <<callVars, wire, log>>
    BY DEF CallClose, CloseFlag, CloseSync
  <1>2. TypeOK'
    BY <1>1 DEF CallClose, CloseFlag, CloseSync, IInv, TypeOK, callVars
  <1>3. LockHeld'
    <2>1. CASE CallClose(c)
      BY <2>1 DEF CallClose, IInv, TypeOK, LockHeld
    <2>2. CASE CloseFlag(c) /\ closed
      BY <2>2 DEF CloseFlag, IInv, TypeOK, LockHeld
    <2>3. CASE CloseFlag(c) /\ ~closed
      BY <2>3, ProducerAssumption DEF CloseFlag, IInv, TypeOK, LockHeld
    <2>4. CASE CloseSync(c)
      BY <2>4, ProducerAssumption DEF CloseSync, IInv, TypeOK, LockHeld
    <2> QED
      BY <2>1, <2>2, <2>3, <2>4
  <1>4. OnlySent'
    BY <1>1 DEF IInv, OnlySent, Sent, callVars
  <1>5. Answered'
    <2>1. sync' = "closed" => \A b \in Callers : pc[b] # "sent"
      BY DEF CallClose, CloseFlag, CloseSync, IInv, Answered
    <2> QED
      BY <1>1, <2>1 DEF IInv, Answered, InLog, Envelope, callVars
  <1> QED
    BY <1>2, <1>3, <1>4, <1>5 DEF IInv

-----------------------------------------------------------------------------

\* No call has begun, and the log is empty.
LEMMA InitIInv == Init => IInv
  <1> SUFFICES ASSUME Init PROVE IInv
    OBVIOUS
  <1>1. TypeOK
    <2>1. \A b \in Callers : batch[b] \in Seq(Envelopes)
      BY ProducerAssumption DEF Init
    <2>2. \A b \in Callers : i[b] \in 1 .. Len(batch[b]) + 1
      BY <2>1 DEF Init
    <2>3. log \in [Partitions -> Seq(Callers \X Nat)]
      BY DEF Init
    <2>4. tries \in [Callers -> 0 .. MaxRetries] /\ i \in [Callers -> Nat]
      BY ProducerAssumption DEF Init
    <2>5. result \in [Callers -> Results]
      BY DEF Init, Results
    <2>6. /\ batch \in [Callers -> Batches] /\ keyed \subseteq Callers
          /\ pc \in [Callers -> {"idle", "next", "check", "send", "sent", "returned"}]
      BY DEF Init
    <2>7. /\ closed \in BOOLEAN /\ mu \in Closers \cup {"free"}
          /\ sync \in {"open", "closing", "closed"}
          /\ closer \in [Closers -> {"idle", "lock", "flush", "returned"}]
      BY DEF Init
    <2>8. wire \subseteq Callers \X Nat \X (0 .. MaxRetries)
      BY DEF Init
    <2> QED
      BY <2>2, <2>3, <2>4, <2>5, <2>6, <2>7, <2>8 DEF TypeOK
  <1>2. LockHeld
    BY ProducerAssumption DEF Init, LockHeld
  <1>3. OnlySent
    BY DEF Init, OnlySent
  <1>4. Answered
    BY DEF Init, Answered
  <1> QED
    BY <1>1, <1>2, <1>3, <1>4 DEF IInv

\* Every step keeps the invariant.
LEMMA NextIInv == IInv /\ [Next]_vars => IInv'
  <1> SUFFICES ASSUME IInv, [Next]_vars PROVE IInv'
    OBVIOUS
  <1>1. ASSUME NEW b \in Callers, CallStep(b)
        PROVE  IInv'
    BY <1>1, CallKeepsIInv, SucceedsKeepsIInv DEF CallStep
  <1>2. ASSUME NEW c \in Closers, CallClose(c) \/ CloseFlag(c) \/ CloseSync(c)
        PROVE  IInv'
    BY <1>2, CloseKeepsIInv
  <1>3. ASSUME NEW r \in wire, Land(r)
        PROVE  IInv'
    BY <1>3, LandKeepsIInv
  <1>4. CASE UNCHANGED vars
    <2>1. TypeOK' /\ LockHeld'
      BY <1>4 DEF IInv, TypeOK, LockHeld, vars, callVars, closeVars
    <2>2. OnlySent'
      BY <1>4 DEF IInv, OnlySent, Sent, vars, callVars, closeVars
    <2>3. Answered'
      BY <1>4 DEF IInv, Answered, InLog, Envelope, vars, callVars, closeVars
    <2> QED
      BY <2>1, <2>2, <2>3 DEF IInv
  <1> QED
    BY <1>1, <1>2, <1>3, <1>4 DEF Next

\* The calls, the lock, the SyncProducer, the requests and the log stay tied
\* together (Publish, PublishToTopic, Close in producer.go).
THEOREM Inductive == Spec => []IInv
  BY InitIInv, NextIInv, PTL DEF Spec

\* What a call of PublishBatch returned tells what the log has of its batch,
\* whatever was sent again or came late, and whoever called Close meanwhile.
THEOREM ResultTells == Spec => []BatchIsPrefix
  <1>1. IInv => BatchIsPrefix
    <2> SUFFICES ASSUME IInv, NEW b \in Callers, NEW n \in 1 .. Len(batch[b])
                 PROVE  /\ result[b] # "none" /\ n < i[b] => InLog(b, n)
                        /\ InLog(b, n) => b \in keyed /\ n <= i[b]
                        /\ InLog(b, n) /\ n = i[b] => result[b] \in {"none", "sendError"}
                        /\ result[b] = "nil" => InLog(b, n)
      BY DEF BatchIsPrefix
    <2>1. n \in Nat /\ n >= 1 /\ n <= Len(batch[b]) /\ Len(batch[b]) \in Nat /\ i[b] \in Nat
      BY BatchTypes
    <2>2. n < i[b] => InLog(b, n)
      <3>1. n < i[b] => n \in 1 .. i[b] - 1
        BY <2>1
      <3> QED
        BY <3>1 DEF IInv, Answered
    <2>3. InLog(b, n) => Sent(b, n)
      BY DEF InLog, IInv, OnlySent
    <2>4. InLog(b, n) => b \in keyed /\ n <= i[b]
      BY <2>3 DEF Sent
    <2>5. InLog(b, n) /\ n = i[b] => result[b] \in {"none", "sendError"}
      BY <2>3, BatchTypes DEF Sent
    <2>6. result[b] = "nil" => n < i[b]
      BY <2>1 DEF IInv, Answered
    <2> QED
      BY <2>2, <2>4, <2>5, <2>6
  <1> QED
    BY <1>1, Inductive, PTL

\* Every partition has a batch in its order and each message once, as an
\* idempotent producer promises (Config.Idempotent in config.go).
THEOREM InBatchOrder == Spec => []BatchOrder
  <1>1. Init => BatchOrder
    BY DEF Init, BatchOrder
  <1>2. IInv /\ BatchOrder /\ [Next]_vars => BatchOrder'
    <2> SUFFICES ASSUME IInv, BatchOrder, [Next]_vars PROVE BatchOrder'
      OBVIOUS
    <2>1. CASE log' = log
      BY <2>1 DEF BatchOrder
    <2>2. CASE \E r \in wire : Land(r) /\ ~InLog(r[1], r[2])
      <3>1. PICK r \in wire : Land(r) /\ ~InLog(r[1], r[2])
        BY <2>2
      <3>2. PICK p : p = batch[r[1]][r[2]]
        OBVIOUS
      <3>3. PICK e : e = <<r[1], r[2]>>
        OBVIOUS
      <3>4. /\ p \in Partitions /\ log' = [log EXCEPT ![p] = Append(@, e)]
            /\ e \in Callers \X Nat /\ e[1] = r[1] /\ e[2] = r[2]
            /\ \A k \in DOMAIN log[p] : log[p][k][1] = e[1] => log[p][k][2] < e[2]
        BY <3>1, <3>2, <3>3, LandAppends
      <3>5. /\ log[p] \in Seq(Callers \X Nat) /\ log'[p] = Append(log[p], e)
            /\ \A q \in Partitions : q # p => log'[q] = log[q]
        BY <3>4 DEF IInv, TypeOK
      <3>6. /\ Len(log[p]) \in Nat /\ DOMAIN log[p] = 1 .. Len(log[p])
            /\ DOMAIN log'[p] = DOMAIN log[p] \cup {Len(log[p]) + 1}
            /\ \A k \in DOMAIN log[p] : log'[p][k] = log[p][k]
            /\ log'[p][Len(log[p]) + 1] = e
        <4>1. PICK t : t = log[p]
          OBVIOUS
        <4> QED
          BY <3>4, <3>5, <4>1, AppendEntries
      <3>7. ASSUME NEW q \in Partitions, NEW j \in DOMAIN log'[q], NEW k \in DOMAIN log'[q],
                   j < k, log'[q][j][1] = log'[q][k][1]
            PROVE  log'[q][j][2] < log'[q][k][2]
        <4>1. CASE q # p
          BY <3>5, <3>7, <4>1 DEF BatchOrder
        <4>2. CASE q = p /\ k \in DOMAIN log[p]
          <5>1. j \in DOMAIN log[p]
            BY <3>6, <3>7, <4>2
          <5> QED
            BY <3>6, <3>7, <4>2, <5>1 DEF BatchOrder
        <4>3. CASE q = p /\ k = Len(log[p]) + 1
          <5>1. j \in DOMAIN log[p]
            BY <3>6, <3>7, <4>3
          <5> QED
            BY <3>4, <3>6, <3>7, <4>3, <5>1
        <4> QED
          BY <3>6, <4>1, <4>2, <4>3
      <3> QED
        BY <3>7 DEF BatchOrder
    <2>3. log' = log \/ \E r \in wire : Land(r) /\ ~InLog(r[1], r[2])
      <3>1. ASSUME NEW b \in Callers, CallStep(b)
            PROVE  log' = log
        BY <3>1 DEF CallStep, PublishBatch, Publish, CheckClosed, SendMessage, Resend,
                    SendFails, SendSucceeds
      <3>2. ASSUME NEW c \in Closers, CallClose(c) \/ CloseFlag(c) \/ CloseSync(c)
            PROVE  log' = log
        BY <3>2 DEF CallClose, CloseFlag, CloseSync
      <3>3. ASSUME NEW r \in wire, Land(r), InLog(r[1], r[2])
            PROVE  log' = log
        BY <3>3 DEF Land, Accept
      <3>4. CASE UNCHANGED vars
        BY <3>4 DEF vars
      <3> QED
        BY <3>1, <3>2, <3>3, <3>4 DEF Next
    <2> QED
      BY <2>1, <2>2, <2>3
  <1> QED
    BY <1>1, <1>2, Inductive, PTL DEF Spec

\* A call of Close that has returned leaves a closed SyncProducer with nothing
\* in flight, also when another call closed it (Producer.Close).
THEOREM CloseDrains == Spec => []EveryCloseDrains
  <1> DEFINE Done == \A c \in Closers : closer[c] = "returned" => sync = "closed"
  <1>1. Init => Done
    BY DEF Init
  <1>2. IInv /\ Done /\ [Next]_vars => Done'
    <2> SUFFICES ASSUME IInv, Done, [Next]_vars PROVE Done'
      OBVIOUS
    <2>1. CASE UNCHANGED <<sync, closer>>
      BY <2>1
    <2>2. ASSUME NEW c \in Closers, CallClose(c)
          PROVE  Done'
      BY <2>2 DEF CallClose, IInv, TypeOK
    <2>3. ASSUME NEW c \in Closers, CloseFlag(c)
          PROVE  Done'
      <3>1. CASE closed
        <4>1. sync = "closed"
          BY <2>3, <3>1 DEF CloseFlag, IInv, TypeOK, LockHeld
        <4> QED
          BY <2>3, <3>1, <4>1 DEF CloseFlag, IInv, TypeOK
      <3>2. CASE ~closed
        <4>1. \A d \in Closers : closer[d] # "returned"
          BY <3>2 DEF IInv, TypeOK, LockHeld
        <4> QED
          BY <2>3, <3>2, <4>1 DEF CloseFlag, IInv, TypeOK
      <3> QED
        BY <3>1, <3>2
    <2>4. ASSUME NEW c \in Closers, CloseSync(c)
          PROVE  Done'
      BY <2>4 DEF CloseSync
    <2>5. ASSUME NEW b \in Callers, CallStep(b)
          PROVE  UNCHANGED <<sync, closer>>
      BY <2>5 DEF CallStep, PublishBatch, Publish, CheckClosed, SendMessage, Resend,
                  SendFails, SendSucceeds, closeVars
    <2>6. ASSUME NEW r \in wire, Land(r)
          PROVE  UNCHANGED <<sync, closer>>
      BY <2>6 DEF Land, closeVars
    <2>7. CASE UNCHANGED vars
      BY <2>7 DEF vars, closeVars
    <2> QED
      BY <2>1, <2>2, <2>3, <2>4, <2>5, <2>6, <2>7 DEF Next
  <1>3. IInv /\ Done => EveryCloseDrains
    BY DEF IInv, Answered, EveryCloseDrains
  <1> QED
    BY <1>1, <1>2, <1>3, Inductive, PTL DEF Spec
=============================================================================

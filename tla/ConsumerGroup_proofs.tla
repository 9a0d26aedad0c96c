------------------------- MODULE ConsumerGroup_proofs -------------------------
(* Proofs about ConsumerGroup, for every value of its constants. *)
EXTENDS ConsumerGroup, TLAPS

\* StartOffset is an offset.
LEMMA StartOffsetType ==
    ASSUME TypeOK, NEW p \in Partitions
    PROVE  StartOffset(p) \in Nat
  BY DEF TypeOK, StartOffset

\* Moving a claim to another stage keeps the type of pc.
LEMMA StageType ==
    ASSUME TypeOK, NEW m \in Members, NEW p \in Partitions, NEW s \in Stages,
           pc' = [pc EXCEPT ![m][p] = s]
    PROVE  pc' \in [Members -> [Partitions -> Stages]]
  BY DEF TypeOK

\* Marking a message keeps the types of a claim.
LEMMA MarkMessageType ==
    ASSUME TypeOK, NEW m \in Members, NEW p \in Partitions, MarkMessage(m, p)
    PROVE  /\ pc' \in [Members -> [Partitions -> Stages]]
           /\ pos' \in [Members -> [Partitions -> Nat]]
           /\ attempt' \in [Members -> [Partitions -> {0} \cup 1 .. MaxRetries]]
           /\ marked' \in [Members -> [Partitions -> Nat \cup {-1}]]
  <1>1. pos[m][p] \in Nat
    BY DEF TypeOK
  <1>2. pos' \in [Members -> [Partitions -> Nat]]
    BY <1>1 DEF TypeOK, MarkMessage
  <1>3. marked' \in [Members -> [Partitions -> Nat \cup {-1}]]
    BY <1>1 DEF TypeOK, MarkMessage
  <1>4. pc' \in [Members -> [Partitions -> Stages]]
    BY DEF TypeOK, MarkMessage, Stages
  <1>5. attempt' \in [Members -> [Partitions -> {0} \cup 1 .. MaxRetries]]
    BY DEF TypeOK, MarkMessage
  <1> QED
    BY <1>2, <1>3, <1>4, <1>5

\* So does disposing of one.
LEMMA DisposeType ==
    ASSUME TypeOK, NEW m \in Members, NEW p \in Partitions, NEW f \in Fates,
           Dispose(m, p, f)
    PROVE  fate' \subseteq Dispositions
  <1>1. <<p, pos[m][p], f>> \in Dispositions
    BY DEF TypeOK, Dispositions
  <1> QED
    BY <1>1 DEF TypeOK, Dispose

\* The steps of a claim keep the types; a failed attempt is followed by
\* another only while MaxRetries allows it.
LEMMA ClaimStepType ==
    ASSUME TypeOK, NEW m \in Members, NEW p \in Partitions, ClaimStep(m, p)
    PROVE  TypeOK'
  <1> {"handled", "undecodable", "unrouted", "uninvoked", "discarded", "lost"}
         \subseteq Fates
    BY DEF Fates
  <1> {"idle", "invoke", "dlq", "mark", "done"} \subseteq Stages
    BY DEF Stages
  <1>1. CASE SkipUndecodable(m, p)
    BY <1>1, MarkMessageType, DisposeType DEF TypeOK, SkipUndecodable, session
  <1>2. CASE SkipUnrouted(m, p)
    BY <1>2, MarkMessageType, DisposeType DEF TypeOK, SkipUnrouted, session
  <1>3. CASE BeginAttempts(m, p)
    <2>1. fate' \subseteq Dispositions
      BY <1>3, DisposeType DEF TypeOK, BeginAttempts
    <2>2. attempt' \in [Members -> [Partitions -> {0} \cup 1 .. MaxRetries]]
      <3>1. CASE 1 <= MaxRetries
        <4>1. 1 \in {0} \cup 1 .. MaxRetries
          BY <3>1, ConfigAssumption DEF ConfigAssumption
        <4>2. attempt' = [attempt EXCEPT ![m][p] = 1]
          BY <1>3, <3>1 DEF BeginAttempts
        <4> QED
          BY <4>1, <4>2 DEF TypeOK
      <3>2. CASE ~(1 <= MaxRetries)
        BY <1>3, <3>2 DEF BeginAttempts, TypeOK
      <3> QED
        BY <3>1, <3>2
    <2>3. pc' \in [Members -> [Partitions -> Stages]]
      <3>1. CASE 1 <= MaxRetries
        <4>1. pc' = [pc EXCEPT ![m][p] = "invoke"]
          BY <1>3, <3>1 DEF BeginAttempts
        <4> QED
          BY <4>1, StageType
      <3>2. CASE ~(1 <= MaxRetries)
        <4>1. pc' = [pc EXCEPT ![m][p] = "mark"]
          BY <1>3, <3>2 DEF BeginAttempts
        <4> QED
          BY <4>1, StageType
      <3> QED
        BY <3>1, <3>2
    <2> QED
      BY <1>3, <2>1, <2>2, <2>3 DEF TypeOK, BeginAttempts, session
  <1>4. CASE HandlerSucceeds(m, p)
    <2>1. pc' \in [Members -> [Partitions -> Stages]]
      BY <1>4 DEF TypeOK, HandlerSucceeds
    <2> QED
      BY <1>4, <2>1, DisposeType DEF TypeOK, HandlerSucceeds, session
  <1>5. CASE HandlerFails(m, p)
    <2>1. attempt' \in [Members -> [Partitions -> {0} \cup 1 .. MaxRetries]]
      <3>1. CASE attempt[m][p] + 1 <= MaxRetries
        <4>1. attempt[m][p] \in {0} \cup 1 .. MaxRetries
          BY DEF TypeOK
        <4>2. attempt[m][p] + 1 \in 1 .. MaxRetries
          BY <3>1, <4>1, ConfigAssumption DEF ConfigAssumption
        <4>3. attempt' = [attempt EXCEPT ![m][p] = @ + 1]
          BY <1>5, <3>1 DEF HandlerFails
        <4> QED
          BY <4>2, <4>3 DEF TypeOK
      <3>2. CASE ~(attempt[m][p] + 1 <= MaxRetries)
        BY <1>5, <3>2 DEF HandlerFails, TypeOK
      <3> QED
        BY <3>1, <3>2
    <2>2. pc' \in [Members -> [Partitions -> Stages]]
      <3>1. CASE attempt[m][p] + 1 <= MaxRetries
        BY <1>5, <3>1 DEF HandlerFails, TypeOK
      <3>2. CASE ~(attempt[m][p] + 1 <= MaxRetries)
        <4>1. pc' = [pc EXCEPT ![m][p] = "dlq"]
          BY <1>5, <3>2 DEF HandlerFails
        <4> QED
          BY <4>1, StageType
      <3> QED
        BY <3>1, <3>2
    <2> QED
      BY <1>5, <2>1, <2>2 DEF TypeOK, HandlerFails, session
  <1>6. CASE SendToDLQ(m, p)
    <2>1. pos[m][p] \in Nat
      BY DEF TypeOK
    <2>2. fate' \subseteq Dispositions
      BY <1>6, DisposeType DEF TypeOK, SendToDLQ, ConsumerDLQHandler, Handle
    <2>3. dlq' \subseteq DLQMessages
      BY <1>6, <2>1, ConfigAssumption
      DEF ConfigAssumption, TypeOK, SendToDLQ, ConsumerDLQHandler, Handle,
          NewMessage, DLQMessages
    <2>4. pc' \in [Members -> [Partitions -> Stages]]
      BY <1>6 DEF TypeOK, SendToDLQ
    <2> QED
      BY <1>6, <2>2, <2>3, <2>4 DEF TypeOK, SendToDLQ, session
  <1>7. CASE FinishMessage(m, p)
    BY <1>7, MarkMessageType DEF TypeOK, FinishMessage, session
  <1>8. CASE AutoCommit(m, p)
    BY <1>8 DEF TypeOK, AutoCommit, session, claims
  <1>9. CASE EndClaim(m, p)
    <2>1. pc' \in [Members -> [Partitions -> Stages]]
      BY <1>9 DEF TypeOK, EndClaim
    <2> QED
      BY <1>9, <2>1 DEF TypeOK, EndClaim, session
  <1> QED
    BY <1>1, <1>2, <1>3, <1>4, <1>5, <1>6, <1>7, <1>8, <1>9 DEF ClaimStep

\* Ending a session or a process clears the claims of the member.
LEMMA ForgetClaimsType ==
    ASSUME TypeOK, NEW m \in Members, ForgetClaims(m)
    PROVE  /\ pc' \in [Members -> [Partitions -> Stages]]
           /\ pos' \in [Members -> [Partitions -> Nat]]
           /\ attempt' \in [Members -> [Partitions -> {0} \cup 1 .. MaxRetries]]
           /\ marked' \in [Members -> [Partitions -> Nat \cup {-1}]]
  BY DEF TypeOK, ForgetClaims, NoClaims, Stages

\* The budget of disturbances is respected.
LEMMA ChurnType ==
    ASSUME TypeOK, Churn
    PROVE  churn' \in 0 .. MaxChurn
  BY ConfigAssumption DEF ConfigAssumption, TypeOK, Churn

\* The steps of a member keep the types.
LEMMA MemberStepType ==
    ASSUME TypeOK, NEW m \in Members, MemberStep(m)
    PROVE  TypeOK'
  <1>1. CASE Start(m)
    BY <1>1 DEF TypeOK, Start, claims
  <1>2. CASE Stop(m)
    BY <1>2, ChurnType DEF TypeOK, Stop, claims
  <1>3. CASE Heartbeat(m)
    BY <1>3 DEF TypeOK, Heartbeat, claims
  <1>4. CASE LoseSession(m)
    BY <1>4, ChurnType DEF TypeOK, LoseSession, claims
  <1>5. CASE EndSession(m)
    <2>1. PICK flushed \in SUBSET Partitions :
             /\ \A p \in flushed : pc[m][p] = "done"
             /\ committed' = [p \in Partitions |->
                    IF p \in flushed THEN marked[m][p] ELSE committed[p]]
      BY <1>5 DEF EndSession
    <2>2. committed' \in [Partitions -> Nat \cup {-1}]
      BY <2>1 DEF TypeOK
    <2>3. churn' \in 0 .. MaxChurn
      BY <1>5, ChurnType DEF TypeOK, EndSession
    <2>4. faulted' \in BOOLEAN
      BY <1>5 DEF TypeOK, EndSession
    <2> QED
      BY <1>5, <2>2, <2>3, <2>4, ForgetClaimsType DEF TypeOK, EndSession
  <1>6. CASE Crash(m)
    <2>1. churn' \in 0 .. MaxChurn
      BY <1>6, ChurnType DEF Crash
    <2> QED
      BY <1>6, <2>1, ForgetClaimsType DEF TypeOK, Crash
  <1> QED
    BY <1>1, <1>2, <1>3, <1>4, <1>5, <1>6 DEF MemberStep

\* A rebalance gives claims their start offsets.
LEMMA RebalanceType ==
    ASSUME TypeOK, NEW assignment \in [Partitions -> Members], Rebalance(assignment)
    PROVE  TypeOK'
  <1> USE DEF Rebalance
  <1>1. pos' \in [Members -> [Partitions -> Nat]]
    BY StartOffsetType DEF TypeOK
  <1>2. marked' \in [Members -> [Partitions -> Nat \cup {-1}]]
    BY DEF TypeOK
  <1>3. churn' \in 0 .. MaxChurn
    BY ChurnType DEF TypeOK
  <1>4. pc' \in [Members -> [Partitions -> Stages]]
    BY DEF TypeOK, Stages
  <1>5. /\ member' \in [Members -> {"down", "joining", "active"}]
        /\ current' \in [Members -> BOOLEAN]
    BY DEF TypeOK
  <1>6. cancelled' \in [Members -> BOOLEAN]
    BY Zenon DEF TypeOK
  <1>7. faulted' \in BOOLEAN
    BY DEF TypeOK
  <1> QED
    BY <1>1, <1>2, <1>3, <1>4, <1>5, <1>6, <1>7 DEF TypeOK

\* A record appended to a log keeps it a sequence of record values.
LEMMA ProduceType ==
    ASSUME TypeOK, NEW p \in Partitions, NEW v \in Values, Produce(p, v)
    PROVE  TypeOK'
  BY DEF TypeOK, Produce, session, claims

\* The initial values have their types.
LEMMA InitType ==
    ASSUME Init
    PROVE  TypeOK
  <1>1. log \in [Partitions -> Seq(Values)]
    BY DEF Init
  <1>2. /\ pc \in [Members -> [Partitions -> Stages]]
        /\ pos \in [Members -> [Partitions -> Nat]]
        /\ attempt \in [Members -> [Partitions -> {0} \cup 1 .. MaxRetries]]
        /\ marked \in [Members -> [Partitions -> Nat \cup {-1}]]
    BY DEF Init, NoClaims, Stages
  <1>3. /\ member \in [Members -> {"down", "joining", "active"}]
        /\ current \in [Members -> BOOLEAN]
        /\ cancelled \in [Members -> BOOLEAN]
        /\ committed \in [Partitions -> Nat \cup {-1}]
    BY DEF Init
  <1>4. churn \in 0 .. MaxChurn
    BY ConfigAssumption DEF ConfigAssumption, Init
  <1> QED
    BY <1>1, <1>2, <1>3, <1>4 DEF Init, TypeOK

\* The values of the variables stay within their types, and no message is
\* attempted more than MaxRetries times in a session.
THEOREM TypeCorrect == Spec => []TypeOK
  <1>1. Init => TypeOK
    BY InitType
  <1>2. TypeOK /\ [Next]_vars => TypeOK'
    <2> SUFFICES ASSUME TypeOK, [Next]_vars PROVE TypeOK'
      OBVIOUS
    <2>1. CASE UNCHANGED vars
      BY <2>1 DEF TypeOK, vars
    <2> QED
      BY <2>1, ProduceType, RebalanceType, MemberStepType, ClaimStepType DEF Next
  <1> QED
    BY <1>1, <1>2, PTL DEF Spec

-----------------------------------------------------------------------------
(* The inductive invariant. *)

\* Nothing is taken back: logs, dispositions and the DLQ only grow.
Grows ==
    /\ fate \subseteq fate'
    /\ dlq \subseteq dlq'
    /\ \A p \in Partitions : Len(log[p]) <= Len(log'[p])

\* What is disposed of stays so.
LEMMA SettledStays ==
    ASSUME Grows, NEW p, NEW o, Settled(p, o)
    PROVE  Settled(p, o)'
  BY DEF Grows, Settled, HasFate, DeadLettered

\* So does a settled prefix.
LEMMA SettledBelowStays ==
    ASSUME Grows, NEW p, NEW n \in Int, SettledBelow(p, n)
    PROVE  SettledBelow(p, n)'
  BY SettledStays DEF SettledBelow

\* A settled prefix has settled prefixes.
LEMMA SettledBelowLess ==
    ASSUME NEW p, NEW n \in Int, NEW k \in Int, k <= n, SettledBelow(p, n)
    PROVE  SettledBelow(p, k)
  BY DEF SettledBelow

\* A claim that a step leaves alone stays sound, if the commit it would
\* make stays ahead.
LEMMA ClaimFrame ==
    ASSUME TypeOK, TypeOK', Grows, NEW m \in Members, NEW p \in Partitions,
           pc'[m][p] = pc[m][p], pos'[m][p] = pos[m][p],
           attempt'[m][p] = attempt[m][p], marked'[m][p] = marked[m][p],
           InOrder(m, p), InProgress(m, p)
    PROVE  InOrder(m, p)' /\ InProgress(m, p)'
  <1> DEFINE n == pos[m][p]
  <1>1. /\ n \in Nat
        /\ Len(log[p]) \in Nat /\ Len(log'[p]) \in Nat
        /\ Len(log[p]) <= Len(log'[p])
    BY DEF TypeOK, Grows
  <1>2. SettledBelow(p, n) => SettledBelow(p, n)'
    BY <1>1, SettledBelowStays
  <1>3. Settled(p, n) => Settled(p, n)'
    BY SettledStays
  <1>4. InOrder(m, p)'
    <2> HIDE DEF n
    <2> SUFFICES ASSUME pc[m][p] # "none"
                 PROVE  /\ n <= Len(log'[p])
                        /\ marked[m][p] <= n
                        /\ OffsetReset = "earliest" => SettledBelow(p, n)'
      BY DEF InOrder, SettledBelow, n
    <2> QED
      BY <1>1, <1>2 DEF InOrder, n
  <1>5. InProgress(m, p)'
    BY <1>1, <1>3 DEF InProgress, Settled, HasFate, DeadLettered
  <1> QED
    BY <1>4, <1>5

-----------------------------------------------------------------------------
(* The steps of one claim. *)

\* No step of a claim touches the logs, the sessions or other claims, nor
\* takes up or gives back the claim itself.
LEMMA ClaimStepFrame ==
    ASSUME TypeOK, NEW m \in Members, NEW p \in Partitions, ClaimStep(m, p)
    PROVE  /\ log' = log /\ member' = member /\ current' = current
           /\ pc[m][p] # "none" /\ pc'[m][p] # "none"
           /\ Grows
           /\ \A n \in Members, q \in Partitions : n # m \/ q # p =>
                 /\ pc'[n][q] = pc[n][q] /\ pos'[n][q] = pos[n][q]
                 /\ attempt'[n][q] = attempt[n][q] /\ marked'[n][q] = marked[n][q]
           /\ \A q \in Partitions : q # p => committed'[q] = committed[q]
  <1> DEFINE Frame ==
           \A n \in Members, q \in Partitions : n # m \/ q # p =>
                 /\ pc'[n][q] = pc[n][q] /\ pos'[n][q] = pos[n][q]
                 /\ attempt'[n][q] = attempt[n][q] /\ marked'[n][q] = marked[n][q]
  <1>1. log' = log /\ UNCHANGED session
    BY DEF ClaimStep, SkipUndecodable, SkipUnrouted, BeginAttempts,
           HandlerSucceeds, HandlerFails, SendToDLQ, FinishMessage, AutoCommit,
           EndClaim
  <1>2. pc[m][p] # "none"
    BY DEF ClaimStep, SkipUndecodable, SkipUnrouted, BeginAttempts, Receives,
           HandlerSucceeds, HandlerFails, SendToDLQ, FinishMessage, AutoCommit,
           EndClaim
  <1>3. ASSUME MarkMessage(m, p) PROVE Frame /\ pc'[m][p] # "none"
    BY <1>3 DEF MarkMessage, TypeOK
  <1>4. ASSUME NEW s \in Stages \ {"none"}, pc' = [pc EXCEPT ![m][p] = s],
               pos' = pos, marked' = marked,
               \/ attempt' = attempt
               \/ \E k : attempt' = [attempt EXCEPT ![m][p] = k]
        PROVE  Frame /\ pc'[m][p] # "none"
    BY <1>4 DEF TypeOK
  <1>5. Frame /\ pc'[m][p] # "none"
    <2>1. CASE SkipUndecodable(m, p) \/ SkipUnrouted(m, p) \/ FinishMessage(m, p)
      BY <2>1, <1>3 DEF SkipUndecodable, SkipUnrouted, FinishMessage
    <2>2. CASE BeginAttempts(m, p)
      <3>1. CASE 1 <= MaxRetries
        <4>1. /\ pc' = [pc EXCEPT ![m][p] = "invoke"] /\ pos' = pos
              /\ marked' = marked /\ attempt' = [attempt EXCEPT ![m][p] = 1]
          BY <2>2, <3>1 DEF BeginAttempts
        <4> QED
          BY <4>1, <1>4 DEF Stages
      <3>2. CASE ~(1 <= MaxRetries)
        <4>1. /\ pc' = [pc EXCEPT ![m][p] = "mark"] /\ pos' = pos
              /\ marked' = marked /\ attempt' = attempt
          BY <2>2, <3>2 DEF BeginAttempts
        <4> QED
          BY <4>1, <1>4 DEF Stages
      <3> QED
        BY <3>1, <3>2
    <2>3. CASE HandlerFails(m, p)
      <3>1. CASE attempt[m][p] + 1 <= MaxRetries
        BY <2>3, <3>1, <1>2 DEF HandlerFails, TypeOK
      <3>2. CASE ~(attempt[m][p] + 1 <= MaxRetries)
        <4>1. /\ pc' = [pc EXCEPT ![m][p] = "dlq"] /\ pos' = pos
              /\ marked' = marked /\ attempt' = attempt
          BY <2>3, <3>2 DEF HandlerFails
        <4> QED
          BY <4>1, <1>4 DEF Stages
      <3> QED
        BY <3>1, <3>2
    <2>4. CASE HandlerSucceeds(m, p) \/ SendToDLQ(m, p)
      <3>1. /\ pc' = [pc EXCEPT ![m][p] = "mark"] /\ pos' = pos
            /\ marked' = marked /\ attempt' = attempt
        BY <2>4 DEF HandlerSucceeds, SendToDLQ
      <3> QED
        BY <3>1, <1>4 DEF Stages
    <2>5. CASE AutoCommit(m, p)
      BY <2>5, <1>2 DEF AutoCommit, claims
    <2>6. CASE EndClaim(m, p)
      <3>1. /\ pc' = [pc EXCEPT ![m][p] = "done"] /\ pos' = pos
            /\ marked' = marked /\ attempt' = attempt
        BY <2>6 DEF EndClaim
      <3> QED
        BY <3>1, <1>4 DEF Stages
    <2> QED
      BY <2>1, <2>2, <2>3, <2>4, <2>5, <2>6 DEF ClaimStep
  <1>6. fate \subseteq fate' /\ dlq \subseteq dlq'
    BY DEF ClaimStep, SkipUndecodable, SkipUnrouted, BeginAttempts, Dispose,
           HandlerSucceeds, HandlerFails, SendToDLQ, ConsumerDLQHandler, Handle,
           FinishMessage, AutoCommit, EndClaim
  <1>7. Grows
    BY <1>1, <1>6 DEF Grows, TypeOK
  <1>8. \A q \in Partitions : q # p => committed'[q] = committed[q]
    BY DEF ClaimStep, SkipUndecodable, SkipUnrouted, BeginAttempts,
           HandlerSucceeds, HandlerFails, SendToDLQ, FinishMessage, AutoCommit,
           EndClaim, TypeOK
  <1> QED
    BY <1>1, <1>2, <1>5, <1>7, <1>8 DEF session

\* A step of a claim disposes of no message but the one it is at, which is
\* in the log.
LEMMA ClaimStepDisposes ==
    ASSUME TypeOK, NEW m \in Members, NEW p \in Partitions, ClaimStep(m, p),
           InProgress(m, p)
    PROVE  /\ \A x \in fate' \ fate : x[1] = p /\ x[2] = pos[m][p]
           /\ \A d \in dlq' \ dlq : d.envelope = <<p, pos[m][p]>>
           /\ fate' # fate \/ dlq' # dlq => pos[m][p] < Len(log[p])
  <1>1. CASE SkipUndecodable(m, p) \/ SkipUnrouted(m, p)
    BY <1>1 DEF SkipUndecodable, SkipUnrouted, Dispose, Receives
  <1>2. CASE BeginAttempts(m, p)
    BY <1>2 DEF BeginAttempts, Dispose, Receives
  <1>3. CASE HandlerSucceeds(m, p)
    BY <1>3 DEF HandlerSucceeds, Dispose, InProgress
  <1>4. CASE SendToDLQ(m, p)
    BY <1>4 DEF SendToDLQ, ConsumerDLQHandler, Handle, NewMessage, Dispose, InProgress
  <1>5. CASE HandlerFails(m, p) \/ FinishMessage(m, p) \/ AutoCommit(m, p) \/ EndClaim(m, p)
    BY <1>5 DEF HandlerFails, FinishMessage, AutoCommit, EndClaim
  <1> QED
    BY <1>1, <1>2, <1>3, <1>4, <1>5 DEF ClaimStep

\* Marking a message that has just been disposed of keeps its claim sound.
LEMMA MarkMessageSound ==
    ASSUME TypeOK, Grows, NEW m \in Members, NEW p \in Partitions,
           NEW o \in Nat, o = pos[m][p], o < Len(log[p]), Settled(p, o)',
           MarkMessage(m, p), log' = log, current' = current,
           committed' = committed, pc[m][p] # "none",
           InOrder(m, p), OwnerAhead(m, p)
    PROVE  InOrder(m, p)' /\ InProgress(m, p)' /\ OwnerAhead(m, p)'
  <1>1. /\ pc'[m][p] = "idle" /\ pos'[m][p] = o + 1 /\ marked'[m][p] = o + 1
    BY DEF TypeOK, MarkMessage
  <1>2. marked[m][p] \in Int /\ committed[p] \in Int
    BY DEF TypeOK
  <1>3. OffsetReset = "earliest" => SettledBelow(p, o)'
    BY SettledBelowStays DEF InOrder
  <1>5. o < Len(log'[p]) /\ Len(log'[p]) \in Nat
    BY DEF TypeOK
  <1>6. marked[m][p] <= o
    BY DEF InOrder
  <1>7. OffsetReset = "earliest" => SettledBelow(p, o + 1)'
    BY <1>3 DEF SettledBelow
  <1>8. InOrder(m, p)'
    <2>1. OffsetReset = "earliest" => SettledBelow(p, pos[m][p])'
      BY <1>1, <1>7 DEF SettledBelow, Settled, HasFate, DeadLettered
    <2> QED
      BY <1>1, <1>2, <1>5, <2>1 DEF InOrder
  <1>9. InProgress(m, p)'
    BY <1>1 DEF InProgress
  <1>10. OwnerAhead(m, p)'
    BY <1>1, <1>2, <1>6 DEF OwnerAhead, Owns
  <1> QED
    BY <1>8, <1>9, <1>10

\* Moving a claim to a stage whose conditions hold keeps it sound.
LEMMA StageSound ==
    ASSUME TypeOK, Grows, NEW m \in Members, NEW p \in Partitions, NEW s \in Stages,
           NEW o \in Nat, o = pos[m][p],
           pc' = [pc EXCEPT ![m][p] = s], pos' = pos, marked' = marked,
           log' = log, current' = current, committed' = committed,
           pc[m][p] # "none", InOrder(m, p), OwnerAhead(m, p),
           s \in {"invoke", "dlq", "mark"} => o < Len(log[p]),
           s = "invoke" => attempt'[m][p] # 0,
           s = "mark" => Settled(p, o)'
    PROVE  InOrder(m, p)' /\ InProgress(m, p)' /\ OwnerAhead(m, p)'
  <1>1. pc'[m][p] = s
    BY DEF TypeOK
  <1>2. OffsetReset = "earliest" => SettledBelow(p, o)'
    BY SettledBelowStays DEF InOrder
  <1>3. InOrder(m, p)'
    <2>1. OffsetReset = "earliest" => SettledBelow(p, pos[m][p])'
      BY <1>2 DEF SettledBelow, Settled, HasFate, DeadLettered
    <2> QED
      BY <2>1 DEF InOrder
  <1>4. InProgress(m, p)'
    BY <1>1 DEF InProgress, Settled, HasFate, DeadLettered
  <1>5. OwnerAhead(m, p)'
    BY DEF OwnerAhead, Owns
  <1> QED
    BY <1>3, <1>4, <1>5

\* Every step of a claim keeps it sound: a message is marked only once it
\* is disposed of.
LEMMA OwnClaimSound ==
    ASSUME TypeOK, NEW m \in Members, NEW p \in Partitions, ClaimStep(m, p),
           InOrder(m, p), InProgress(m, p), OwnerAhead(m, p)
    PROVE  InOrder(m, p)' /\ InProgress(m, p)' /\ OwnerAhead(m, p)'
  <1>1. Grows /\ log' = log /\ current' = current /\ pc[m][p] # "none"
    BY ClaimStepFrame
  <1> PICK o \in Nat : o = pos[m][p]
    BY DEF TypeOK
  <1>2. \A f \in Fates : Dispose(m, p, f) => Settled(p, o)'
    BY DEF Dispose, Settled, HasFate
  <1>3. CASE SkipUndecodable(m, p)
    BY <1>1, <1>2, <1>3, MarkMessageSound DEF SkipUndecodable, Receives, Fates
  <1>4. CASE SkipUnrouted(m, p)
    BY <1>1, <1>2, <1>4, MarkMessageSound DEF SkipUnrouted, Receives, Fates
  <1>5. CASE BeginAttempts(m, p)
    <2>1. /\ pos[m][p] < Len(log[p]) /\ pos' = pos /\ marked' = marked
          /\ committed' = committed
      BY <1>5 DEF BeginAttempts, Receives
    <2>2. CASE 1 <= MaxRetries
      <3>1. pc' = [pc EXCEPT ![m][p] = "invoke"]
        BY <1>5, <2>2 DEF BeginAttempts
      <3>2. attempt'[m][p] # 0
        BY <1>5, <2>2 DEF BeginAttempts, TypeOK
      <3> QED
        BY <1>1, <2>1, <3>1, <3>2, StageSound DEF Stages
    <2>3. CASE ~(1 <= MaxRetries)
      <3>1. pc' = [pc EXCEPT ![m][p] = "mark"] /\ Dispose(m, p, "uninvoked")
        BY <1>5, <2>3 DEF BeginAttempts
      <3>2. Settled(p, o)'
        BY <1>2, <3>1 DEF Fates
      <3> QED
        BY <1>1, <2>1, <3>1, <3>2, StageSound DEF Stages
    <2> QED
      BY <2>2, <2>3
  <1>6. CASE HandlerSucceeds(m, p)
    <2>1. Settled(p, o)'
      BY <1>2, <1>6 DEF HandlerSucceeds, Fates
    <2> QED
      BY <1>1, <1>6, <2>1, StageSound DEF HandlerSucceeds, InProgress, Stages
  <1>7. CASE HandlerFails(m, p)
    <2>1. /\ pos[m][p] < Len(log[p]) /\ pos' = pos /\ marked' = marked
          /\ committed' = committed /\ pc[m][p] = "invoke"
      BY <1>7 DEF HandlerFails, InProgress
    <2>2. CASE attempt[m][p] + 1 <= MaxRetries
      <3>1. pc' = pc /\ attempt' = [attempt EXCEPT ![m][p] = @ + 1]
        BY <1>7, <2>2 DEF HandlerFails
      <3>2. attempt[m][p] \in Nat
        BY ConfigAssumption DEF TypeOK, ConfigAssumption
      <3>3. attempt'[m][p] # 0
        BY <3>1, <3>2 DEF TypeOK
      <3>4. pc' = [pc EXCEPT ![m][p] = "invoke"]
        BY <2>1, <3>1 DEF TypeOK
      <3> QED
        BY <1>1, <2>1, <3>3, <3>4, StageSound DEF Stages
    <2>3. CASE ~(attempt[m][p] + 1 <= MaxRetries)
      <3>1. pc' = [pc EXCEPT ![m][p] = "dlq"]
        BY <1>7, <2>3 DEF HandlerFails
      <3> QED
        BY <1>1, <2>1, <3>1, StageSound DEF Stages
    <2> QED
      BY <2>2, <2>3
  <1>8. CASE SendToDLQ(m, p)
    <2>1. Settled(p, o)'
      <3>1. \/ \E f \in Fates : Dispose(m, p, f)
            \/ \E msg : msg.envelope = <<p, o>> /\ dlq' = dlq \cup {msg}
        BY <1>8 DEF SendToDLQ, ConsumerDLQHandler, Handle, NewMessage, Fates
      <3> QED
        BY <1>2, <3>1 DEF Settled, DeadLettered
    <2> QED
      BY <1>1, <1>8, <2>1, StageSound DEF SendToDLQ, InProgress, Stages
  <1>9. CASE FinishMessage(m, p)
    <2>1. Settled(p, o)'
      BY <1>1, <1>9, SettledStays DEF FinishMessage, InProgress
    <2> QED
      BY <1>1, <1>9, <2>1, MarkMessageSound DEF FinishMessage, InProgress
  <1>10. CASE AutoCommit(m, p)
    <2>1. /\ claims' = claims /\ log' = log /\ fate' = fate /\ dlq' = dlq
          /\ committed'[p] = marked[m][p]
      BY <1>10 DEF AutoCommit, TypeOK
    <2>2. InOrder(m, p)' /\ InProgress(m, p)'
      BY <2>1 DEF InOrder, InProgress, SettledBelow, Settled, HasFate, DeadLettered, claims
    <2>3. marked'[m][p] = marked[m][p] /\ marked[m][p] \in Int
      BY <2>1 DEF claims, TypeOK
    <2>4. OwnerAhead(m, p)'
      BY <2>1, <2>3 DEF OwnerAhead
    <2> QED
      BY <2>2, <2>4
  <1>11. CASE EndClaim(m, p)
    BY <1>1, <1>11, StageSound DEF EndClaim, Stages
  <1> QED
    BY <1>3, <1>4, <1>5, <1>6, <1>7, <1>8, <1>9, <1>10, <1>11 DEF ClaimStep

\* A claim that is not moved, and whose commit does not move, stays sound.
LEMMA ClaimSoundFrame ==
    ASSUME TypeOK, TypeOK', Grows, NEW m \in Members, NEW p \in Partitions,
           pc'[m][p] = pc[m][p], pos'[m][p] = pos[m][p],
           attempt'[m][p] = attempt[m][p], marked'[m][p] = marked[m][p],
           Owns(m, p)' => Owns(m, p) /\ committed'[p] = committed[p],
           InOrder(m, p), InProgress(m, p), OwnerAhead(m, p)
    PROVE  InOrder(m, p)' /\ InProgress(m, p)' /\ OwnerAhead(m, p)'
  <1>1. InOrder(m, p)' /\ InProgress(m, p)'
    BY ClaimFrame
  <1>2. OwnerAhead(m, p)'
    BY DEF OwnerAhead
  <1> QED
    BY <1>1, <1>2

\* Committed offsets stay in the log, over settled messages, if a step
\* commits nothing but what a sound claim has marked.
LEMMA CommitSound ==
    ASSUME TypeOK, TypeOK', Grows, CommittedInLog,
           \A p \in Partitions : committed'[p] # committed[p] =>
              \E m \in Members : /\ pc[m][p] # "none" /\ InOrder(m, p)
                                 /\ committed'[p] = marked[m][p]
    PROVE  CommittedInLog'
  <1> SUFFICES ASSUME NEW p \in Partitions
               PROVE  (/\ committed[p] <= Len(log[p])
                       /\ OffsetReset = "earliest" => SettledBelow(p, committed[p]))'
    BY DEF CommittedInLog
  <1>0. committed'[p] \in Nat \cup {-1}
    BY DEF TypeOK
  <1> PICK c \in Int : c = committed'[p]
    BY <1>0
  <1> SUFFICES /\ c <= Len(log'[p])
               /\ OffsetReset = "earliest" => SettledBelow(p, c)'
    BY DEF SettledBelow, Settled, HasFate, DeadLettered
  <1>1. /\ Len(log[p]) \in Nat /\ Len(log'[p]) \in Nat
        /\ Len(log[p]) <= Len(log'[p])
    BY DEF TypeOK, Grows
  <1>2. c <= Len(log[p]) /\ (OffsetReset = "earliest" => SettledBelow(p, c))
    <2>1. CASE c = committed[p]
      BY <2>1 DEF CommittedInLog
    <2>2. CASE c # committed[p]
      <3>1. PICK m \in Members : /\ pc[m][p] # "none" /\ InOrder(m, p)
                                 /\ c = marked[m][p]
        BY <2>2
      <3>2. pos[m][p] \in Int /\ c <= pos[m][p] /\ pos[m][p] <= Len(log[p])
        BY <3>1 DEF TypeOK, InOrder
      <3>3. OffsetReset = "earliest" => SettledBelow(p, pos[m][p])
        BY <3>1 DEF InOrder
      <3> QED
        BY <1>1, <3>2, <3>3, SettledBelowLess
    <2> QED
      BY <2>1, <2>2
  <1> QED
    BY <1>1, <1>2, SettledBelowStays

\* The steps of a claim preserve the invariant.
LEMMA ClaimStepInv ==
    ASSUME IInv, NEW m \in Members, NEW p \in Partitions, ClaimStep(m, p)
    PROVE  IInv'
  <1> USE DEF IInv
  <1>1. TypeOK'
    BY ClaimStepType
  <1>2. /\ log' = log /\ member' = member /\ current' = current
        /\ pc[m][p] # "none" /\ pc'[m][p] # "none" /\ Grows
    BY ClaimStepFrame
  <1>3. \A n \in Members, q \in Partitions : n # m \/ q # p =>
           /\ pc'[n][q] = pc[n][q] /\ pos'[n][q] = pos[n][q]
           /\ attempt'[n][q] = attempt[n][q] /\ marked'[n][q] = marked[n][q]
    BY ClaimStepFrame
  <1>4. \A n \in Members, q \in Partitions : Owns(n, q)' <=> Owns(n, q)
    BY <1>2, <1>3 DEF Owns
  <1>5. \A q \in Partitions : committed'[q] # committed[q] =>
           q = p /\ Owns(m, p) /\ committed'[p] = marked[m][p]
    <2>1. \A q \in Partitions : q # p => committed'[q] = committed[q]
      BY ClaimStepFrame
    <2>2. AutoCommit(m, p) \/ committed' = committed
      BY DEF ClaimStep, SkipUndecodable, SkipUnrouted, BeginAttempts,
             HandlerSucceeds, HandlerFails, SendToDLQ, FinishMessage, EndClaim
    <2>3. AutoCommit(m, p) => Owns(m, p) /\ committed'[p] = marked[m][p]
      BY DEF AutoCommit, Owns, TypeOK
    <2> QED
      BY <2>1, <2>2, <2>3
  <1>6. ClaimsNeedSession'
    BY <1>2, <1>3 DEF ClaimsNeedSession
  <1>7. OneOwner'
    BY <1>4 DEF OneOwner
  <1>8. ClaimsSound'
    <2> SUFFICES ASSUME NEW n \in Members, NEW q \in Partitions
                 PROVE  InOrder(n, q)' /\ InProgress(n, q)' /\ OwnerAhead(n, q)'
      BY DEF ClaimsSound
    <2>1. InOrder(n, q) /\ InProgress(n, q) /\ OwnerAhead(n, q)
      BY DEF ClaimsSound
    <2>2. CASE n = m /\ q = p
      BY <2>1, <2>2, OwnClaimSound
    <2>3. CASE n # m \/ q # p
      <3>1. Owns(n, q)' => Owns(n, q) /\ committed'[q] = committed[q]
        BY <1>4, <1>5, <2>3 DEF OneOwner
      <3> QED
        BY <1>1, <1>2, <1>3, <2>1, <2>3, <3>1, ClaimSoundFrame
    <2> QED
      BY <2>2, <2>3
  <1>9. CommittedInLog'
    BY <1>1, <1>2, <1>5, CommitSound DEF ClaimsSound
  <1>10. SettledInLog'
    <2>1. InProgress(m, p)
      BY DEF ClaimsSound
    <2> QED
      BY <1>2, <2>1, ClaimStepDisposes DEF SettledInLog
  <1> QED
    BY <1>1, <1>6, <1>7, <1>8, <1>9, <1>10

-----------------------------------------------------------------------------
(* The steps of members and of the coordinator, and new records. *)

\* A step that leaves every claim and commit alone, and makes no member of
\* a dead session current, preserves the invariant.
LEMMA SessionFrame ==
    ASSUME IInv, TypeOK', Grows, claims' = claims, committed' = committed,
           current' = current, fate' = fate, dlq' = dlq, ClaimsNeedSession'
    PROVE  IInv'
  <1> USE DEF IInv
  <1>1. \A n \in Members, q \in Partitions : Owns(n, q)' <=> Owns(n, q)
    BY DEF Owns, claims
  <1>2. OneOwner'
    BY <1>1 DEF OneOwner
  <1>3. ClaimsSound'
    BY <1>1, ClaimSoundFrame DEF ClaimsSound, claims
  <1>4. CommittedInLog'
    BY CommitSound
  <1>5. SettledInLog'
    <2>1. ASSUME NEW x \in fate PROVE x[2] < Len(log'[x[1]])
      <3>1. x[1] \in Partitions /\ x[2] \in Nat
        BY DEF TypeOK, Dispositions
      <3> QED
        BY <3>1 DEF SettledInLog, Grows, TypeOK
    <2>2. ASSUME NEW d \in dlq PROVE d.envelope[2] < Len(log'[d.envelope[1]])
      <3>1. d.envelope[1] \in Partitions /\ d.envelope[2] \in Nat
        BY DEF TypeOK, DLQMessages
      <3> QED
        BY <3>1 DEF SettledInLog, Grows, TypeOK
    <2> QED
      BY <2>1, <2>2 DEF SettledInLog
  <1> QED
    BY <1>2, <1>3, <1>4, <1>5

\* A member that leaves its session loses its claims, and commits at most
\* what they have marked.
LEMMA LeaveSessionInv ==
    ASSUME IInv, TypeOK', NEW m \in Members, ForgetClaims(m),
           log' = log, fate' = fate, dlq' = dlq,
           current' = [current EXCEPT ![m] = FALSE],
           member'[m] # "active", \A n \in Members \ {m} : member'[n] = member[n],
           \A p \in Partitions : committed'[p] # committed[p] =>
              Owns(m, p) /\ committed'[p] = marked[m][p]
    PROVE  IInv'
  <1> USE DEF IInv
  <1>1. Grows
    BY DEF Grows, TypeOK
  <1>2. \A p \in Partitions : pc'[m][p] = "none"
    BY DEF ForgetClaims, NoClaims, TypeOK
  <1>3. \A n \in Members \ {m}, p \in Partitions :
           /\ pc'[n][p] = pc[n][p] /\ pos'[n][p] = pos[n][p]
           /\ attempt'[n][p] = attempt[n][p] /\ marked'[n][p] = marked[n][p]
    BY DEF ForgetClaims, TypeOK
  <1>4. ~current'[m] /\ \A n \in Members \ {m} : current'[n] = current[n]
    BY DEF TypeOK
  <1>5. ClaimsNeedSession'
    BY <1>2, <1>3, <1>4 DEF ClaimsNeedSession
  <1>6. \A n \in Members, p \in Partitions : Owns(n, p)' => n # m /\ Owns(n, p)
    BY <1>2, <1>3, <1>4 DEF Owns
  <1>7. OneOwner'
    BY <1>6 DEF OneOwner
  <1>8. ClaimsSound'
    <2> SUFFICES ASSUME NEW n \in Members, NEW p \in Partitions
                 PROVE  InOrder(n, p)' /\ InProgress(n, p)' /\ OwnerAhead(n, p)'
      BY DEF ClaimsSound
    <2>1. CASE n = m
      BY <1>2, <2>1 DEF InOrder, InProgress, OwnerAhead, Owns
    <2>2. CASE n # m
      <3>1. Owns(n, p)' => Owns(n, p) /\ committed'[p] = committed[p]
        BY <1>6, <2>2 DEF OneOwner
      <3> QED
        BY <1>1, <1>3, <2>2, <3>1, ClaimSoundFrame DEF ClaimsSound
    <2> QED
      BY <2>1, <2>2
  <1>9. CommittedInLog'
    BY <1>1, CommitSound DEF ClaimsSound, Owns
  <1>10. SettledInLog'
    BY DEF SettledInLog
  <1> QED
    BY <1>5, <1>7, <1>8, <1>9, <1>10

\* The steps of a member preserve the invariant.
LEMMA MemberStepInv ==
    ASSUME IInv, NEW m \in Members, MemberStep(m)
    PROVE  IInv'
  <1> USE DEF IInv
  <1>1. TypeOK'
    BY MemberStepType
  <1>2. CASE Start(m) \/ Stop(m) \/ Heartbeat(m) \/ LoseSession(m)
    <2>1. /\ log' = log /\ claims' = claims /\ committed' = committed
          /\ current' = current /\ fate' = fate /\ dlq' = dlq
      BY <1>2 DEF Start, Stop, Heartbeat, LoseSession
    <2>2. Grows
      BY <2>1 DEF Grows, TypeOK
    <2>3. \A n \in Members : member'[n] # "active" => member[n] # "active"
      BY <1>2 DEF Start, Stop, Heartbeat, LoseSession, TypeOK
    <2>4. ClaimsNeedSession'
      BY <2>1, <2>3 DEF ClaimsNeedSession, claims
    <2> QED
      BY <1>1, <2>1, <2>2, <2>4, SessionFrame
  <1>3. CASE EndSession(m)
    <2>1. \A p \in Partitions : committed'[p] # committed[p] =>
             Owns(m, p) /\ committed'[p] = marked[m][p]
      <3>1. PICK flushed \in SUBSET Partitions :
               /\ \A p \in flushed : current[m] /\ pc[m][p] = "done"
               /\ committed' = [p \in Partitions |->
                      IF p \in flushed THEN marked[m][p] ELSE committed[p]]
        BY <1>3 DEF EndSession
      <3> QED
        BY <3>1 DEF Owns
    <2>2. /\ member'[m] # "active"
          /\ \A n \in Members \ {m} : member'[n] = member[n]
      BY <1>3 DEF EndSession, TypeOK
    <2> QED
      BY <1>1, <1>3, <2>1, <2>2, LeaveSessionInv DEF EndSession
  <1>4. CASE Crash(m)
    <2>1. /\ member'[m] # "active"
          /\ \A n \in Members \ {m} : member'[n] = member[n]
      BY <1>4 DEF Crash, TypeOK
    <2> QED
      BY <1>1, <1>4, <2>1, LeaveSessionInv DEF Crash
  <1> QED
    BY <1>2, <1>3, <1>4 DEF MemberStep

\* A start offset is in the log and, read from the earliest record, leaves
\* only settled messages behind.
LEMMA StartOffsetSound ==
    ASSUME TypeOK, CommittedInLog, NEW p \in Partitions
    PROVE  /\ StartOffset(p) \in Nat
           /\ committed[p] <= StartOffset(p)
           /\ StartOffset(p) <= Len(log[p])
           /\ OffsetReset = "earliest" => SettledBelow(p, StartOffset(p))
  <1>1. committed[p] \in Nat \cup {-1} /\ Len(log[p]) \in Nat
    BY DEF TypeOK
  <1>2. OffsetReset \in {"earliest", "latest"}
    BY ConfigAssumption DEF ConfigAssumption
  <1>3. CASE committed[p] >= 0
    BY <1>1, <1>3 DEF StartOffset, CommittedInLog
  <1>4. CASE committed[p] < 0
    BY <1>1, <1>2, <1>4 DEF StartOffset, SettledBelow
  <1> QED
    BY <1>1, <1>3, <1>4

\* A rebalance preserves the invariant: the new owners start from what is
\* committed, and nobody else stays current.
LEMMA RebalanceInv ==
    ASSUME IInv, NEW assignment \in [Partitions -> Members], Rebalance(assignment)
    PROVE  IInv'
  <1> USE DEF IInv
  <1>1. TypeOK'
    BY RebalanceType
  <1>2. /\ log' = log /\ committed' = committed /\ attempt' = attempt
        /\ fate' = fate /\ dlq' = dlq
    BY DEF Rebalance
  <1>3. Grows
    BY <1>2 DEF Grows, TypeOK
  <1>4. \A m \in Members : /\ current'[m] => m \in Joining
                           /\ member'[m] # "active" => member[m] # "active"
                           /\ m \in Joining => member'[m] = "active"
    BY DEF Rebalance, TypeOK
  <1>5. \A m \in Members, p \in Partitions :
           m \notin Joining \/ assignment[p] # m =>
              /\ pos'[m][p] = pos[m][p] /\ marked'[m][p] = marked[m][p]
    BY DEF Rebalance
  <1>6. \A m \in Members, p \in Partitions : m \notin Joining =>
           pc'[m][p] = pc[m][p]
    BY DEF Rebalance
  <1>7. \A m \in Members, p \in Partitions : m \in Joining =>
           pc'[m][p] = IF assignment[p] = m THEN "idle" ELSE "none"
    BY DEF Rebalance
  <1>8. \A m \in Members, p \in Partitions : m \in Joining /\ assignment[p] = m =>
           pos'[m][p] = StartOffset(p) /\ marked'[m][p] = committed[p]
    BY DEF Rebalance
  <1>9. ClaimsNeedSession'
    BY <1>4, <1>6 DEF ClaimsNeedSession
  <1>10. \A m \in Members, p \in Partitions :
            Owns(m, p)' => m \in Joining /\ assignment[p] = m
    BY <1>4, <1>7 DEF Owns
  <1>11. OneOwner'
    BY <1>10 DEF OneOwner
  <1>12. ClaimsSound'
    <2> SUFFICES ASSUME NEW m \in Members, NEW p \in Partitions
                 PROVE  InOrder(m, p)' /\ InProgress(m, p)' /\ OwnerAhead(m, p)'
      BY DEF ClaimsSound
    <2>1. CASE m \notin Joining
      <3>1. ~Owns(m, p)'
        BY <1>10, <2>1
      <3> QED
        BY <1>1, <1>2, <1>3, <1>5, <1>6, <2>1, <3>1, ClaimSoundFrame DEF ClaimsSound
    <2>2. CASE m \in Joining /\ assignment[p] # m
      BY <1>7, <2>2 DEF InOrder, InProgress, OwnerAhead, Owns
    <2>3. CASE m \in Joining /\ assignment[p] = m
      <3> PICK o \in Nat : o = StartOffset(p)
        BY StartOffsetSound
      <3>1. /\ pc'[m][p] = "idle" /\ pos'[m][p] = o
            /\ marked'[m][p] = committed[p]
        BY <1>7, <1>8, <2>3
      <3>2. OffsetReset = "earliest" => SettledBelow(p, o)'
        BY <1>3, StartOffsetSound, SettledBelowStays
      <3>3. OffsetReset = "earliest" => SettledBelow(p, pos[m][p])'
        BY <3>1, <3>2 DEF SettledBelow, Settled, HasFate, DeadLettered
      <3>4. InOrder(m, p)'
        BY <1>2, <3>1, <3>3, StartOffsetSound DEF InOrder
      <3>5. InProgress(m, p)'
        BY <3>1 DEF InProgress
      <3>6. committed[p] <= marked'[m][p]
        <4>1. committed[p] \in Nat \cup {-1}
          BY DEF TypeOK
        <4> QED
          BY <3>1, <4>1
      <3>7. OwnerAhead(m, p)'
        BY <1>2, <3>6 DEF OwnerAhead
      <3> QED
        BY <3>4, <3>5, <3>7
    <2> QED
      BY <2>1, <2>2, <2>3
  <1>13. CommittedInLog'
    BY <1>1, <1>2, <1>3, CommitSound
  <1>14. SettledInLog'
    BY <1>2 DEF SettledInLog
  <1> QED
    BY <1>1, <1>9, <1>11, <1>12, <1>13, <1>14

\* A new record preserves the invariant.
LEMMA ProduceInv ==
    ASSUME IInv, NEW p \in Partitions, NEW v \in Values, Produce(p, v)
    PROVE  IInv'
  <1> USE DEF IInv
  <1>1. TypeOK'
    BY ProduceType
  <1>2. /\ claims' = claims /\ committed' = committed /\ fate' = fate /\ dlq' = dlq
        /\ current' = current /\ member' = member
    BY DEF Produce, session
  <1>3. Grows
    <2>1. \A q \in Partitions : log'[q] = IF q = p THEN Append(log[p], v) ELSE log[q]
      BY DEF Produce, TypeOK
    <2>2. \A q \in Partitions : Len(log[q]) \in Nat
      BY DEF TypeOK
    <2>3. Len(Append(log[p], v)) = Len(log[p]) + 1
      BY DEF TypeOK
    <2>4. ASSUME NEW q \in Partitions PROVE Len(log[q]) <= Len(log'[q])
      <3>1. CASE q = p
        <4>1. Len(log'[q]) = Len(log[q]) + 1
          BY <2>1, <2>3, <3>1
        <4> QED
          BY <2>2, <4>1
      <3>2. CASE q # p
        BY <2>1, <2>2, <3>2
      <3> QED
        BY <3>1, <3>2
    <2> QED
      BY <1>2, <2>4 DEF Grows
  <1>4. ClaimsNeedSession'
    BY <1>2 DEF ClaimsNeedSession, claims
  <1> QED
    BY <1>1, <1>2, <1>3, <1>4, SessionFrame

-----------------------------------------------------------------------------
(* Theorems. *)

\* No claims, no messages, no offsets: the invariant holds initially.
LEMMA InitInv == Init => IInv
  <1> SUFFICES ASSUME Init PROVE IInv
    OBVIOUS
  <1>1. TypeOK
    BY InitType
  <1>2. \A m \in Members, p \in Partitions : pc[m][p] = "none"
    BY DEF Init, NoClaims
  <1>3. ClaimsNeedSession
    BY <1>2 DEF Init, ClaimsNeedSession
  <1>4. OneOwner /\ ClaimsSound
    BY <1>2 DEF OneOwner, ClaimsSound, Owns, InOrder, InProgress, OwnerAhead
  <1>5. \A p \in Partitions : committed[p] = -1 /\ Len(log[p]) = 0
    BY DEF Init
  <1>6. CommittedInLog
    BY <1>5 DEF CommittedInLog, SettledBelow
  <1>7. SettledInLog
    BY DEF Init, SettledInLog
  <1> QED
    BY <1>1, <1>3, <1>4, <1>6, <1>7 DEF IInv

\* Every step of the group preserves the invariant.
LEMMA NextInv == ASSUME IInv, [Next]_vars PROVE IInv'
  <1>1. CASE UNCHANGED vars
    <2>1. TypeOK'
      BY <1>1 DEF IInv, TypeOK, vars
    <2>2. Grows
      BY <1>1 DEF Grows, IInv, TypeOK, vars
    <2>3. ClaimsNeedSession'
      BY <1>1 DEF IInv, ClaimsNeedSession, vars
    <2> QED
      BY <1>1, <2>1, <2>2, <2>3, SessionFrame DEF vars, claims
  <1> QED
    BY <1>1, ProduceInv, RebalanceInv, MemberStepInv, ClaimStepInv DEF Next

\* Whatever members, brokers and handlers do, claims run in order over a
\* settled prefix of their partition and ahead of the committed offset.
THEOREM Inductive == Spec => []IInv
  BY InitInv, NextInv, PTL DEF Spec

\* At least once: with OffsetReset "earliest", a committed offset has only
\* settled messages behind it, whatever the members, their crashes, their
\* rebalances and the results of their handlers are.
THEOREM AtLeastOnceCommits ==
    OffsetReset = "earliest" => (Spec => []CommittedSettled)
  <1> SUFFICES ASSUME OffsetReset = "earliest" PROVE Spec => []CommittedSettled
    OBVIOUS
  <1>1. IInv => CommittedSettled
    BY DEF IInv, CommittedInLog, SettledBelow, CommittedSettled
  <1> QED
    BY <1>1, Inductive, PTL

\* No step moves a committed offset back: it is moved by a current owner,
\* and the owner is ahead.
LEMMA CommitStepMonotone ==
    ASSUME IInv, [Next]_vars, NEW p \in Partitions
    PROVE  committed'[p] >= committed[p]
  <1>1. committed[p] \in Int
    BY DEF IInv, TypeOK
  <1>2. committed'[p] = committed[p]
           \/ \E m \in Members : Owns(m, p) /\ committed'[p] = marked[m][p]
    <2>1. CASE \E m \in Members, q \in Partitions : ClaimStep(m, q)
      <3> PICK m \in Members, q \in Partitions : ClaimStep(m, q)
        BY <2>1
      <3>1. CASE AutoCommit(m, q)
        BY <3>1 DEF AutoCommit, Owns, IInv, TypeOK
      <3>2. CASE ~AutoCommit(m, q)
        BY <3>2 DEF ClaimStep, SkipUndecodable, SkipUnrouted, BeginAttempts,
                    HandlerSucceeds, HandlerFails, SendToDLQ, FinishMessage,
                    EndClaim
      <3> QED
        BY <3>1, <3>2
    <2>2. CASE \E m \in Members : EndSession(m)
      <3> PICK m \in Members : EndSession(m)
        BY <2>2
      <3>1. PICK flushed \in SUBSET Partitions :
               /\ \A q \in flushed : current[m] /\ pc[m][q] = "done"
               /\ committed' = [q \in Partitions |->
                      IF q \in flushed THEN marked[m][q] ELSE committed[q]]
        BY DEF EndSession
      <3> QED
        BY <3>1 DEF Owns
    <2>3. CASE \E m \in Members : MemberStep(m) /\ ~EndSession(m)
      BY <2>3 DEF MemberStep, Start, Stop, Heartbeat, LoseSession, Crash
    <2>4. CASE \/ \E q \in Partitions, v \in Values : Produce(q, v)
               \/ \E a \in [Partitions -> Members] : Rebalance(a)
      BY <2>4 DEF Produce, Rebalance
    <2> QED
      BY <2>1, <2>2, <2>3, <2>4 DEF Next, vars
  <1>3. \A m \in Members : Owns(m, p) => committed[p] <= marked[m][p]
    BY DEF IInv, ClaimsSound, OwnerAhead
  <1>4. \A m \in Members : marked[m][p] \in Int
    BY DEF IInv, TypeOK
  <1> QED
    BY <1>1, <1>2, <1>3, <1>4

\* Committed offsets never move back, even while an evicted member is still
\* processing the partition that its successor has taken over.
THEOREM CommitsAreMonotone == Spec => CommittedMonotone
  <1>1. ASSUME IInv, [Next]_vars
        PROVE  [\A p \in Partitions : committed'[p] >= committed[p]]_committed
    BY <1>1, CommitStepMonotone
  <1> QED
    BY <1>1, Inductive, PTL DEF Spec, CommittedMonotone

-----------------------------------------------------------------------------
(* Refinement. *)

\* A step that disposes of nothing is a commit of the abstract
\* specification, possibly of nothing new.
LEMMA CommitStepRefines ==
    ASSUME OffsetReset = "earliest", IInv, IInv', [Next]_vars,
           log' = log, fate' = fate, dlq' = dlq
    PROVE  ALO!Commit
  <1>1. SettledOffsets' = SettledOffsets
    BY DEF SettledOffsets, Settled, HasFate, DeadLettered
  <1>2. committed' \in [Partitions -> Int]
    BY DEF IInv, TypeOK
  <1>3. ASSUME NEW p \in Partitions
        PROVE  /\ committed'[p] >= committed[p]
               /\ \A o \in 0 .. committed'[p] - 1 : o \in SettledOffsets[p]
    <2>1. committed'[p] <= Len(log[p]) /\ SettledBelow(p, committed[p])'
      BY DEF IInv, CommittedInLog
    <2>2. \A o \in 0 .. committed'[p] - 1 : Settled(p, o)
      BY <2>1 DEF SettledBelow, Settled, HasFate, DeadLettered
    <2>3. Len(log[p]) \in Nat /\ committed'[p] \in Int
      BY DEF IInv, TypeOK
    <2>4. \A o \in 0 .. committed'[p] - 1 : o \in SettledOffsets[p]
      BY <2>1, <2>2, <2>3 DEF SettledOffsets
    <2> QED
      BY <2>4, CommitStepMonotone
  <1> QED
    BY <1>1, <1>2, <1>3 DEF ALO!Commit

\* A new record is a publication: its offset has not been disposed of.
LEMMA ProduceRefines ==
    ASSUME IInv, NEW p \in Partitions, NEW v \in Values, Produce(p, v)
    PROVE  ALO!Publish(p, v)
  <1>1. \A q \in Partitions : log'[q] = IF q = p THEN Append(log[p], v) ELSE log[q]
    BY DEF Produce, IInv, TypeOK
  <1>2. Len(Append(log[p], v)) = Len(log[p]) + 1 /\ Len(log[p]) \in Nat
    BY DEF IInv, TypeOK
  <1>3. \A q, o : Settled(q, o)' <=> Settled(q, o)
    BY DEF Produce, Settled, HasFate, DeadLettered
  <1>4. ~Settled(p, Len(log[p]))
    <2>1. \A f \in Fates : <<p, Len(log[p]), f>> \notin fate
      BY <1>2 DEF IInv, SettledInLog
    <2>2. \A d \in dlq : d.envelope # <<p, Len(log[p])>>
      BY <1>2 DEF IInv, SettledInLog
    <2> QED
      BY <2>1, <2>2 DEF Settled, HasFate, DeadLettered
  <1>5. ASSUME NEW q \in Partitions PROVE SettledOffsets'[q] = SettledOffsets[q]
    <2>1. CASE q = p
      <3>1. Len(log'[p]) = Len(log[p]) + 1
        BY <1>1, <1>2
      <3>2. \A o \in 0 .. Len(log'[p]) - 1 :
               o \in 0 .. Len(log[p]) - 1 \/ o = Len(log[p])
        BY <1>2, <3>1
      <3>3. \A o \in 0 .. Len(log[p]) - 1 : o \in 0 .. Len(log'[p]) - 1
        BY <1>2, <3>1
      <3> QED
        BY <1>3, <1>4, <2>1, <3>2, <3>3 DEF SettledOffsets
    <2>2. CASE q # p
      BY <1>1, <1>3, <2>2 DEF SettledOffsets
    <2> QED
      BY <2>1, <2>2
  <1>6. SettledOffsets' = SettledOffsets
    BY <1>5 DEF SettledOffsets
  <1> QED
    BY <1>6 DEF Produce, ALO!Publish

\* A step of a claim that disposes of a message settles the first unsettled
\* message of the partition, or repeats what was settled before.
LEMMA DisposeRefines ==
    ASSUME OffsetReset = "earliest", IInv, NEW m \in Members,
           NEW p \in Partitions, ClaimStep(m, p), fate' # fate \/ dlq' # dlq
    PROVE  ALO!Settle(p, pos[m][p]) \/ UNCHANGED ALO!vars
  <1> DEFINE o == pos[m][p]
  <1>1. /\ log' = log /\ Grows /\ pc[m][p] # "none"
        /\ fate \subseteq fate' /\ dlq \subseteq dlq'
    BY ClaimStepFrame DEF IInv, Grows
  <1>2. InOrder(m, p) /\ InProgress(m, p) /\ TypeOK
    BY DEF IInv, ClaimsSound
  <1>3. committed' = committed
    BY DEF ClaimStep, SkipUndecodable, SkipUnrouted, BeginAttempts,
           HandlerSucceeds, HandlerFails, SendToDLQ, FinishMessage, AutoCommit,
           EndClaim
  <1>4. /\ \A x \in fate' \ fate : x[1] = p /\ x[2] = o
        /\ \A d \in dlq' \ dlq : d.envelope = <<p, o>>
        /\ o < Len(log[p])
    BY <1>2, ClaimStepDisposes
  <1>5. o \in Nat /\ Len(log[p]) \in Nat
    BY <1>2 DEF TypeOK
  <1>6. o \in 0 .. Len(log[p]) - 1
    BY <1>4, <1>5
  <1>7. \A k \in 0 .. o - 1 : k \in SettledOffsets[p]
    BY <1>1, <1>2, <1>4, <1>5 DEF InOrder, SettledBelow, SettledOffsets
  <1> HIDE DEF o
  <1>8. (\E f \in Fates : <<p, o, f>> \in fate') \/ \E d \in dlq' : d.envelope = <<p, o>>
    <2>1. CASE fate' # fate
      <3> PICK x \in fate' : x \notin fate
        BY <1>1, <2>1
      <3>1. x \in Dispositions
        BY <1>2, ClaimStepType DEF TypeOK
      <3>2. x = <<p, o, x[3]>> /\ x[3] \in Fates
        BY <1>4, <3>1 DEF Dispositions
      <3> QED
        BY <3>2
    <2>2. CASE dlq' # dlq
      BY <1>1, <1>4, <2>2
    <2> QED
      BY <2>1, <2>2
  <1>9. ASSUME NEW q \in Partitions, NEW k \in Nat
        PROVE  Settled(q, k)' <=> Settled(q, k) \/ (q = p /\ k = o)
    <2>1. (\E f \in Fates : <<q, k, f>> \in fate') =>
             (\E f \in Fates : <<q, k, f>> \in fate) \/ (q = p /\ k = o)
      BY <1>4
    <2>2. (\E d \in dlq' : d.envelope = <<q, k>>) =>
             (\E d \in dlq : d.envelope = <<q, k>>) \/ (q = p /\ k = o)
      BY <1>4
    <2>3. Settled(q, k) => Settled(q, k)'
      BY <1>1, SettledStays
    <2>4. q = p /\ k = o => Settled(q, k)'
      BY <1>8 DEF Settled, HasFate, DeadLettered
    <2> QED
      BY <2>1, <2>2, <2>3, <2>4 DEF Settled, HasFate, DeadLettered
  <1>10. SettledOffsets' = [SettledOffsets EXCEPT ![p] = @ \cup {o}]
    <2>1. ASSUME NEW q \in Partitions
          PROVE  SettledOffsets'[q] = IF q = p THEN SettledOffsets[p] \cup {o}
                                               ELSE SettledOffsets[q]
      BY <1>1, <1>6, <1>9 DEF SettledOffsets
    <2> QED
      BY <2>1 DEF SettledOffsets
  <1>11. CASE o \in SettledOffsets[p]
    <2>1. SettledOffsets' = SettledOffsets
      BY <1>10, <1>11 DEF SettledOffsets
    <2> QED
      BY <1>1, <1>3, <2>1 DEF ALO!vars
  <1>12. CASE o \notin SettledOffsets[p]
    BY <1>1, <1>3, <1>7, <1>10, <1>12 DEF ALO!Settle, o
  <1> QED
    BY <1>11, <1>12

\* The group implements at-least-once consumption: every partition is
\* settled in order, and committed over settled messages only.
THEOREM Refinement ==
    OffsetReset = "earliest" => (Spec => ImplementsAtLeastOnce)
  <1> SUFFICES ASSUME OffsetReset = "earliest" PROVE Spec => ALO!Spec
    BY DEF ImplementsAtLeastOnce
  <1>1. Init => ALO!Init
    <2> SUFFICES ASSUME Init PROVE ALO!Init
      OBVIOUS
    <2>1. \A p \in Partitions : Len(log[p]) = 0
      BY DEF Init
    <2>2. \A p \in Partitions : SettledOffsets[p] = {}
      BY <2>1 DEF SettledOffsets
    <2>3. SettledOffsets = [p \in Partitions |-> {}]
      BY <2>2 DEF SettledOffsets
    <2> QED
      BY <2>3 DEF Init, ALO!Init
  <1>2. ASSUME IInv, IInv', [Next]_vars PROVE [ALO!Next]_(ALO!vars)
    <2>1. CASE \E p \in Partitions, v \in Values : Produce(p, v)
      BY <1>2, <2>1, ProduceRefines DEF ALO!Next
    <2>2. CASE log' = log /\ fate' = fate /\ dlq' = dlq
      BY <1>2, <2>2, CommitStepRefines DEF ALO!Next
    <2>3. CASE /\ \E m \in Members, p \in Partitions : ClaimStep(m, p)
               /\ fate' # fate \/ dlq' # dlq
      <3> PICK m \in Members, p \in Partitions : ClaimStep(m, p)
        BY <2>3
      <3>1. pos[m][p] \in 0 .. Len(log[p]) - 1
        <4>1. pos[m][p] < Len(log[p])
          BY <1>2, <2>3, ClaimStepDisposes DEF IInv, ClaimsSound
        <4>2. pos[m][p] \in Nat /\ Len(log[p]) \in Nat
          BY <1>2 DEF IInv, TypeOK
        <4> QED
          BY <4>1, <4>2
      <3>2. ALO!Settle(p, pos[m][p]) \/ UNCHANGED ALO!vars
        BY <1>2, <2>3, DisposeRefines
      <3> QED
        BY <3>1, <3>2 DEF ALO!Next
    <2>4. CASE \E m \in Members, p \in Partitions : ClaimStep(m, p)
      BY <1>2, <2>2, <2>3, <2>4, ClaimStepFrame DEF IInv
    <2>5. CASE \E a \in [Partitions -> Members] : Rebalance(a)
      BY <2>2, <2>5 DEF Rebalance
    <2>6. CASE \E m \in Members : MemberStep(m)
      BY <2>2, <2>6 DEF MemberStep, Start, Stop, Heartbeat, LoseSession,
                        EndSession, Crash
    <2>7. CASE UNCHANGED vars
      BY <2>2, <2>7 DEF vars
    <2> QED
      BY <1>2, <2>1, <2>4, <2>5, <2>6, <2>7 DEF Next
  <1> QED
    BY <1>1, <1>2, Inductive, PTL DEF Spec, ALO!Spec
=============================================================================

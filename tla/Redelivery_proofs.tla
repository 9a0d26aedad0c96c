--------------------------- MODULE Redelivery_proofs ---------------------------
(***************************************************************************)
(* Proof that a consumer group with auto-commit processes no message again *)
(* unless a member crashes or is evicted, or a final commit fails, for     *)
(* every value of the constants of ConsumerGroup.                          *)
(***************************************************************************)
EXTENDS ConsumerGroup_proofs

\* What a step disposes of, it disposes of in one place only.
DisposesOnly(p, n) ==
    \A q \in Partitions, o \in Int :
        q # p \/ o # n => (Settled(q, o)' <=> Settled(q, o))

\* A step of a claim disposes of nothing but the message at its position.
LEMMA ClaimStepDisposesOnly ==
    ASSUME IInv, NEW m \in Members, NEW p \in Partitions, ClaimStep(m, p)
    PROVE  DisposesOnly(p, pos[m][p])
  <1>1. /\ \A x \in fate' \ fate : x[1] = p /\ x[2] = pos[m][p]
        /\ \A d \in dlq' \ dlq : d.envelope = <<p, pos[m][p]>>
    BY ClaimStepDisposes DEF IInv, ClaimsSound
  <1>2. Grows
    BY ClaimStepFrame DEF IInv
  <1> SUFFICES ASSUME NEW q \in Partitions, NEW o \in Int, q # p \/ o # pos[m][p],
                      Settled(q, o)'
               PROVE  Settled(q, o)
    BY <1>2, SettledStays DEF DisposesOnly
  <1>3. CASE HasFate(q, o)'
    <2>1. PICK f \in Fates : <<q, o, f>> \in fate'
      BY <1>3 DEF HasFate
    <2>2. <<q, o, f>> \in fate
      BY <1>1, <2>1
    <2> QED
      BY <2>1, <2>2 DEF Settled, HasFate
  <1>4. CASE DeadLettered(q, o)'
    <2>1. PICK d \in dlq' : d.envelope = <<q, o>>
      BY <1>4 DEF DeadLettered
    <2>2. d \in dlq
      BY <1>1, <2>1
    <2> QED
      BY <2>1, <2>2 DEF Settled, DeadLettered
  <1> QED
    BY <1>3, <1>4 DEF Settled

\* Where nothing is disposed of, the log ahead stays fresh.
LEMMA FreshStays ==
    ASSUME NEW p \in Partitions, NEW n \in Int, FreshFrom(p, n), log' = log,
           \A o \in Int : o >= n => (Settled(p, o)' <=> Settled(p, o))
    PROVE  \A o \in n .. Len(log'[p]) - 1 : ~Settled(p, o)'
  BY DEF FreshFrom

\* A claim keeps the way ahead of it fresh, and marks all it passes.
LEMMA OwnResumable ==
    ASSUME IInv, NEW m \in Members, NEW p \in Partitions, ClaimStep(m, p),
           Resumable(m, p)
    PROVE  Resumable(m, p)'
  <1> PICK n \in Nat : n = pos[m][p]
    BY DEF IInv, TypeOK
  <1>1. /\ log' = log /\ pc[m][p] # "none"
        /\ DisposesOnly(p, n)
    BY ClaimStepFrame, ClaimStepDisposesOnly DEF IInv
  <1>2. /\ FreshFrom(p, IF pc[m][p] = "mark" THEN n + 1 ELSE n)
        /\ marked[m][p] # -1 => marked[m][p] = n
        /\ marked[m][p] = -1 /\ OffsetReset = "earliest" => n = 0
    BY <1>1 DEF Resumable
  <1>3. FreshFrom(p, n + 1)
    BY <1>2 DEF FreshFrom
  <1>4. \A o \in n + 1 .. Len(log'[p]) - 1 : ~Settled(p, o)'
    BY <1>1, <1>3, FreshStays DEF DisposesOnly
  <1>5. CASE SkipUndecodable(m, p) \/ SkipUnrouted(m, p) \/ FinishMessage(m, p)
    <2>1. MarkMessage(m, p)
      BY <1>5 DEF SkipUndecodable, SkipUnrouted, FinishMessage
    <2>2. /\ pc'[m][p] = "idle" /\ pos'[m][p] = n + 1 /\ marked'[m][p] = n + 1
      BY <2>1 DEF MarkMessage, IInv, TypeOK
    <2>3. FreshFrom(p, pos[m][p])'
      BY <1>4, <2>2 DEF FreshFrom, Settled, HasFate, DeadLettered
    <2> QED
      BY <2>2, <2>3 DEF Resumable
  <1>6. CASE pos' = pos /\ marked' = marked /\ pc'[m][p] = "mark"
    <2>1. FreshFrom(p, pos[m][p] + 1)'
      BY <1>4, <1>6 DEF FreshFrom, Settled, HasFate, DeadLettered
    <2> QED
      BY <1>2, <1>6, <2>1 DEF Resumable
  <1>7. CASE /\ pos' = pos /\ marked' = marked /\ fate' = fate /\ dlq' = dlq
             /\ pc[m][p] # "mark" /\ pc'[m][p] # "mark"
    <2>1. FreshFrom(p, pos[m][p])'
      BY <1>1, <1>2, <1>7 DEF FreshFrom, Settled, HasFate, DeadLettered
    <2> QED
      BY <1>2, <1>7, <2>1 DEF Resumable
  <1>8. CASE AutoCommit(m, p)
    <2>1. claims' = claims /\ fate' = fate /\ dlq' = dlq
      BY <1>8 DEF AutoCommit
    <2> QED
      BY <1>1, <2>1 DEF claims, Resumable, FreshFrom, Settled, HasFate, DeadLettered
          , IInv
  <1>9. CASE BeginAttempts(m, p)
    <2>1. pos' = pos /\ marked' = marked /\ dlq' = dlq /\ pc[m][p] = "idle"
      BY <1>9 DEF BeginAttempts, Receives
    <2>2. \/ pc'[m][p] = "invoke" /\ fate' = fate
          \/ pc'[m][p] = "mark"
      BY <1>9 DEF BeginAttempts, IInv, TypeOK
    <2> QED
      BY <1>6, <1>7, <2>1, <2>2
  <1>10. CASE HandlerSucceeds(m, p) \/ SendToDLQ(m, p)
    <2>1. pos' = pos /\ marked' = marked /\ pc'[m][p] = "mark"
      BY <1>10 DEF HandlerSucceeds, SendToDLQ, IInv, TypeOK
    <2> QED
      BY <1>6, <2>1
  <1>11. CASE HandlerFails(m, p) \/ EndClaim(m, p)
    <2>1. /\ pos' = pos /\ marked' = marked /\ fate' = fate /\ dlq' = dlq
          /\ pc[m][p] \in {"invoke", "idle"}
      BY <1>11 DEF HandlerFails, EndClaim
    <2>2. pc'[m][p] \in {"invoke", "dlq", "done"}
      BY <1>11 DEF HandlerFails, EndClaim, IInv, TypeOK
    <2> QED
      BY <1>7, <2>1, <2>2
  <1> QED
    BY <1>5, <1>8, <1>9, <1>10, <1>11 DEF ClaimStep

\* Where nothing is disposed of and no record arrives, fresh stays fresh.
LEMMA FreshFrame ==
    ASSUME NEW p \in Partitions, NEW n \in Int, FreshFrom(p, n), log' = log,
           \A o \in Int : Settled(p, o)' <=> Settled(p, o)
    PROVE  \A k : k = n => FreshFrom(p, k)'
  <1>1. \A o \in n .. Len(log'[p]) - 1 : ~Settled(p, o)'
    BY FreshStays
  <1> QED
    BY <1>1 DEF FreshFrom, Settled, HasFate, DeadLettered

\* A claim whose partition no step disposes of anything in stays resumable.
LEMMA ResumableFrame ==
    ASSUME NEW m \in Members, NEW p \in Partitions, Resumable(m, p),
           pos[m][p] \in Nat, log' = log,
           pc'[m][p] = pc[m][p], pos'[m][p] = pos[m][p], marked'[m][p] = marked[m][p],
           \A o \in Int : Settled(p, o)' <=> Settled(p, o)
    PROVE  Resumable(m, p)'
  <1> DEFINE n == IF pc[m][p] = "mark" THEN pos[m][p] + 1 ELSE pos[m][p]
  <1> SUFFICES ASSUME pc[m][p] # "none"
               PROVE  FreshFrom(p, IF pc[m][p] = "mark" THEN pos[m][p] + 1 ELSE pos[m][p])'
    BY DEF Resumable
  <1>1. FreshFrom(p, n) /\ n \in Int
    BY DEF Resumable
  <1>2. n' = n
    OBVIOUS
  <1>3. \A k : k = n => FreshFrom(p, k)'
    <2> HIDE DEF n
    <2> QED
      BY <1>1, FreshFrame
  <1> QED
    BY <1>2, <1>3 DEF FreshFrom

-----------------------------------------------------------------------------
(* Each step preserves the invariant. *)

Strength ==
    /\ SessionsCurrent
    /\ \A m \in Members, p \in Partitions : Resumable(m, p)
    /\ \A p \in Partitions :
          (\A m \in Members : pc[m][p] = "none") => FreshFrom(p, StartOffset(p))

\* A member in a session is the only one that claims a partition.
LEMMA OneClaim ==
    ASSUME IInv, Strength, NEW m \in Members, NEW n \in Members,
           NEW p \in Partitions, pc[m][p] # "none", pc[n][p] # "none"
    PROVE  m = n
  <1>1. Owns(m, p) /\ Owns(n, p)
    BY DEF IInv, ClaimsNeedSession, Strength, SessionsCurrent, Owns, TypeOK
  <1> QED
    BY <1>1 DEF IInv, OneOwner

\* The steps of a claim.
LEMMA ClaimStepStrength ==
    ASSUME IInv, Strength, NEW m \in Members, NEW p \in Partitions, ClaimStep(m, p)
    PROVE  Strength'
  <1> USE DEF IInv
  <1>1. /\ log' = log /\ member' = member /\ current' = current
        /\ pc[m][p] # "none" /\ pc'[m][p] # "none"
        /\ \A n \in Members, q \in Partitions : n # m \/ q # p =>
              /\ pc'[n][q] = pc[n][q] /\ pos'[n][q] = pos[n][q]
              /\ marked'[n][q] = marked[n][q]
        /\ \A q \in Partitions : q # p => committed'[q] = committed[q]
    BY ClaimStepFrame
  <1>2. \A q \in Partitions, o \in Int : q # p => (Settled(q, o)' <=> Settled(q, o))
    BY ClaimStepDisposesOnly DEF DisposesOnly
  <1>3. SessionsCurrent'
    BY <1>1 DEF Strength, SessionsCurrent
  <1>4. ASSUME NEW n \in Members, NEW q \in Partitions PROVE Resumable(n, q)'
    <2>1. CASE n = m /\ q = p
      BY <2>1, OwnResumable DEF Strength
    <2>2. CASE n # m /\ q = p
      <3>1. pc[n][q] = "none"
        BY <1>1, <2>2, OneClaim
      <3> QED
        BY <1>1, <2>2, <3>1 DEF Resumable
    <2>3. CASE q # p
      <3>1. pos[n][q] \in Nat
        BY DEF TypeOK
      <3>2. \A o \in Int : Settled(q, o)' <=> Settled(q, o)
        BY <1>2, <2>3
      <3> QED
        BY <1>1, <2>3, <3>1, <3>2, ResumableFrame DEF Strength
    <2> QED
      BY <2>1, <2>2, <2>3
  <1>5. ASSUME NEW q \in Partitions, \A n \in Members : pc'[n][q] = "none"
        PROVE  FreshFrom(q, StartOffset(q))'
    <2>1. q # p /\ \A n \in Members : pc[n][q] = "none"
      BY <1>1, <1>5
    <2>2. FreshFrom(q, StartOffset(q)) /\ StartOffset(q) \in Int
      BY <2>1, StartOffsetType DEF Strength
    <2>3. StartOffset(q)' = StartOffset(q)
      BY <1>1, <2>1 DEF StartOffset
    <2>4. \A k : k = StartOffset(q) => FreshFrom(q, k)'
      BY <1>1, <1>2, <2>1, <2>2, FreshFrame
    <2> QED
      BY <2>3, <2>4
  <1> QED
    BY <1>3, <1>4, <1>5 DEF Strength

\* A step that leaves claims, commits, logs and dispositions alone.
LEMMA SessionStepStrength ==
    ASSUME IInv, Strength, claims' = claims, committed' = committed, log' = log,
           current' = current, fate' = fate, dlq' = dlq,
           \A m \in Members : member'[m] = "active" => member[m] = "active"
    PROVE  Strength'
  <1>1. SessionsCurrent'
    BY DEF Strength, SessionsCurrent
  <1> QED
    BY <1>1 DEF Strength, claims, Resumable, FreshFrom, StartOffset, Settled,
                HasFate, DeadLettered

\* A session that ends commits what it has marked, so that nothing is
\* disposed of where the next owner starts.
LEMMA EndSessionStrength ==
    ASSUME IInv, Strength, EnableAutoCommit, ~faulted', NEW m \in Members, EndSession(m)
    PROVE  Strength'
  <1> USE DEF IInv
  <1>1. /\ log' = log /\ fate' = fate /\ dlq' = dlq
        /\ \A p \in Partitions, o \in Int : Settled(p, o)' <=> Settled(p, o)
    BY DEF EndSession, Settled, HasFate, DeadLettered
  <1>2. /\ \A p \in Partitions : pc'[m][p] = "none"
        /\ \A n \in Members \ {m}, p \in Partitions :
              /\ pc'[n][p] = pc[n][p] /\ pos'[n][p] = pos[n][p]
              /\ marked'[n][p] = marked[n][p]
    BY DEF EndSession, ForgetClaims, NoClaims, TypeOK
  <1>3. current[m]
    BY DEF EndSession, Strength, SessionsCurrent
  <1>4. \A p \in Partitions : committed'[p] =
           IF pc[m][p] = "done" /\ marked[m][p] >= 0 THEN marked[m][p] ELSE committed[p]
    <2> DEFINE dirty == {p \in Partitions : /\ EnableAutoCommit /\ current[m]
                                            /\ pc[m][p] = "done"
                                            /\ marked[m][p] >= 0
                                            /\ marked[m][p] # committed[p]}
    <2>1. committed' = [p \in Partitions |->
                           IF p \in dirty THEN marked[m][p] ELSE committed[p]]
      BY DEF EndSession
    <2> QED
      BY <1>3, <2>1
  <1>5. SessionsCurrent'
    BY DEF EndSession, Strength, SessionsCurrent, TypeOK
  <1>6. ASSUME NEW n \in Members, NEW p \in Partitions PROVE Resumable(n, p)'
    <2>1. CASE n = m
      BY <1>2, <2>1 DEF Resumable
    <2>2. CASE n # m
      <3>1. pos[n][p] \in Nat
        BY DEF TypeOK
      <3> QED
        BY <1>1, <1>2, <2>2, <3>1, ResumableFrame DEF Strength
    <2> QED
      BY <2>1, <2>2
  <1>7. ASSUME NEW p \in Partitions, \A n \in Members : pc'[n][p] = "none"
        PROVE  FreshFrom(p, StartOffset(p))'
    <2>0. /\ committed[p] \in Nat \cup {-1} /\ marked[m][p] \in Nat \cup {-1}
          /\ pos[m][p] \in Nat /\ Len(log[p]) \in Nat
      BY DEF TypeOK
    <2>1. \A n \in Members \ {m} : pc[n][p] = "none"
      BY <1>2, <1>7
    <2>2. CASE pc[m][p] = "none"
      <3>1. FreshFrom(p, StartOffset(p)) /\ StartOffset(p) \in Int
        BY <2>1, <2>2, StartOffsetType DEF Strength
      <3>2. StartOffset(p)' = StartOffset(p)
        BY <1>1, <1>4, <2>2 DEF StartOffset
      <3>3. \A k : k = StartOffset(p) => FreshFrom(p, k)'
        BY <1>1, <3>1, FreshFrame
      <3> QED
        BY <3>2, <3>3
    <2>3. CASE pc[m][p] = "done"
      <3>1. FreshFrom(p, pos[m][p])
        BY <2>3 DEF Strength, Resumable
      <3>2. CASE marked[m][p] >= 0
        <4>1. committed'[p] = pos[m][p] /\ committed'[p] >= 0
          BY <1>4, <2>0, <2>3, <3>2 DEF Strength, Resumable
        <4>2. StartOffset(p)' = pos[m][p]
          BY <2>0, <4>1 DEF StartOffset
        <4>3. \A k : k = pos[m][p] => FreshFrom(p, k)'
          BY <1>1, <2>0, <3>1, FreshFrame
        <4> QED
          BY <4>2, <4>3
      <3>3. CASE marked[m][p] = -1
        <4>1. committed[p] = -1 /\ committed'[p] = -1
          BY <1>3, <1>4, <2>0, <2>3, <3>3 DEF ClaimsSound, OwnerAhead, Owns
        <4>2. CASE OffsetReset = "earliest"
          <5>1. pos[m][p] = 0 /\ StartOffset(p)' = 0
            BY <2>3, <3>3, <4>1, <4>2 DEF Strength, Resumable, StartOffset
          <5>2. \A k : k = pos[m][p] => FreshFrom(p, k)'
            BY <1>1, <2>0, <3>1, FreshFrame
          <5> QED
            BY <5>1, <5>2
        <4>3. CASE OffsetReset = "latest"
          <5>1. StartOffset(p)' = Len(log'[p])
            BY <4>1, <4>3 DEF StartOffset
          <5> QED
            BY <1>1, <2>0, <5>1 DEF FreshFrom
        <4> QED
          BY <4>2, <4>3, ConfigAssumption DEF ConfigAssumption
      <3> QED
        BY <2>0, <3>2, <3>3
    <2>4. pc[m][p] \in {"none", "done"}
      BY DEF EndSession
    <2> QED
      BY <2>2, <2>3, <2>4
  <1> QED
    BY <1>5, <1>6, <1>7 DEF Strength

\* A rebalance without an eviction finds no claims, and starts the new ones
\* where nothing is disposed of.
LEMMA RebalanceStrength ==
    ASSUME IInv, Strength, ~faulted', NEW assignment \in [Partitions -> Members],
           Rebalance(assignment)
    PROVE  Strength'
  <1> USE DEF IInv
  <1>1. /\ log' = log /\ committed' = committed
        /\ \A p \in Partitions, o \in Int : Settled(p, o)' <=> Settled(p, o)
    BY DEF Rebalance, Settled, HasFate, DeadLettered
  <1>2. \A m \in Members : member[m] # "active"
    BY DEF Rebalance, Strength, SessionsCurrent
  <1>3. \A m \in Members, p \in Partitions : pc[m][p] = "none"
    BY <1>2 DEF ClaimsNeedSession
  <1>4. \A p \in Partitions : assignment[p] \in Joining
    BY DEF Rebalance
  <1>5. \A m \in Members, p \in Partitions :
           IF assignment[p] = m
           THEN /\ pc'[m][p] = "idle" /\ pos'[m][p] = StartOffset(p)
                /\ marked'[m][p] = committed[p]
           ELSE pc'[m][p] = "none"
    BY <1>3, <1>4 DEF Rebalance
  <1>6. SessionsCurrent'
    BY <1>2 DEF Rebalance, SessionsCurrent, TypeOK
  <1>7. ASSUME NEW m \in Members, NEW p \in Partitions PROVE Resumable(m, p)'
    <2>1. CASE assignment[p] # m
      BY <1>5, <2>1 DEF Resumable
    <2>2. CASE assignment[p] = m
      <3>1. FreshFrom(p, StartOffset(p)) /\ StartOffset(p) \in Int
        BY <1>3, StartOffsetType DEF Strength
      <3>2. \A k : k = StartOffset(p) => FreshFrom(p, k)'
        BY <1>1, <3>1, FreshFrame
      <3>3. /\ pc'[m][p] = "idle" /\ pos'[m][p] = StartOffset(p)
            /\ marked'[m][p] = committed[p]
        BY <1>5, <2>2
      <3>4. FreshFrom(p, pos[m][p])'
        BY <3>2, <3>3
      <3>5. /\ committed[p] # -1 => StartOffset(p) = committed[p]
            /\ committed[p] = -1 /\ OffsetReset = "earliest" => StartOffset(p) = 0
        BY DEF StartOffset, TypeOK
      <3> QED
        BY <3>3, <3>4, <3>5 DEF Resumable
    <2> QED
      BY <2>1, <2>2
  <1>8. ASSUME NEW p \in Partitions PROVE ~ \A m \in Members : pc'[m][p] = "none"
    BY <1>5
  <1> QED
    BY <1>6, <1>7, <1>8 DEF Strength

\* What is disposed of is in the log.
LEMMA SettledIsInLog ==
    ASSUME IInv, NEW p, NEW o, Settled(p, o)
    PROVE  o < Len(log[p])
  <1>1. CASE HasFate(p, o)
    <2>1. PICK f \in Fates : <<p, o, f>> \in fate
      BY <1>1 DEF HasFate
    <2> QED
      BY <2>1 DEF IInv, SettledInLog
  <1>2. CASE DeadLettered(p, o)
    <2>1. PICK d \in dlq : d.envelope = <<p, o>>
      BY <1>2 DEF DeadLettered
    <2>2. d.envelope[1] = p /\ d.envelope[2] = o
      BY <2>1
    <2> QED
      BY <2>1, <2>2 DEF IInv, SettledInLog
  <1> QED
    BY <1>1, <1>2 DEF Settled

\* A new record is not disposed of.
LEMMA ProduceStrength ==
    ASSUME IInv, Strength, NEW p \in Partitions, NEW v \in Values, Produce(p, v)
    PROVE  Strength'
  <1> USE DEF IInv
  <1>1. /\ claims' = claims /\ committed' = committed /\ member' = member
        /\ current' = current
        /\ \A q \in Partitions, o \in Int : Settled(q, o)' <=> Settled(q, o)
    BY DEF Produce, session, Settled, HasFate, DeadLettered
  <1>2. \A q \in Partitions : Len(log[q]) \in Nat /\ Len(log'[q]) \in Nat
    BY ProduceType DEF TypeOK
  <1>3. \A q \in Partitions, o \in Int : Settled(q, o) => o < Len(log[q])
    BY SettledIsInLog
  <1>4. ASSUME NEW q \in Partitions, NEW n \in Int, FreshFrom(q, n)
        PROVE  \A k : k = n => FreshFrom(q, k)'
    <2>1. \A o \in n .. Len(log'[q]) - 1 : ~Settled(q, o)'
      BY <1>1, <1>2, <1>3, <1>4 DEF FreshFrom
    <2> QED
      BY <2>1 DEF FreshFrom, Settled, HasFate, DeadLettered
  <1>5. SessionsCurrent'
    BY <1>1 DEF Strength, SessionsCurrent
  <1>6. ASSUME NEW m \in Members, NEW q \in Partitions PROVE Resumable(m, q)'
    <2> SUFFICES ASSUME pc[m][q] # "none"
                 PROVE  FreshFrom(q, IF pc[m][q] = "mark" THEN pos[m][q] + 1 ELSE pos[m][q])'
      BY <1>1 DEF Resumable, claims, Strength
    <2> DEFINE n == IF pc[m][q] = "mark" THEN pos[m][q] + 1 ELSE pos[m][q]
    <2>1. FreshFrom(q, n) /\ n \in Int /\ n' = n
      BY <1>1 DEF Strength, Resumable, TypeOK, claims
    <2>2. \A k : k = n => FreshFrom(q, k)'
      <3> HIDE DEF n
      <3> QED
        BY <1>4, <2>1
    <2> QED
      BY <2>1, <2>2 DEF FreshFrom
  <1>7. ASSUME NEW q \in Partitions, \A m \in Members : pc'[m][q] = "none"
        PROVE  FreshFrom(q, StartOffset(q))'
    <2>1. FreshFrom(q, StartOffset(q)) /\ StartOffset(q) \in Int
      BY <1>1, <1>7, StartOffsetType DEF Strength, claims
    <2>2. CASE StartOffset(q)' = StartOffset(q)
      BY <1>4, <2>1, <2>2
    <2>3. CASE StartOffset(q)' = Len(log'[q])
      BY <1>2, <2>3 DEF FreshFrom
    <2>4. StartOffset(q)' = StartOffset(q) \/ StartOffset(q)' = Len(log'[q])
      BY <1>1 DEF StartOffset
    <2> QED
      BY <2>2, <2>3, <2>4
  <1> QED
    BY <1>5, <1>6, <1>7 DEF Strength

-----------------------------------------------------------------------------
(* Theorems. *)

\* Without a fault, the way ahead of every owner stays fresh: the invariant
\* of consumer.go's sessions behind the theorem below.
THEOREM Resumes == Spec => []RInv
  <1>1. Init => RInv
    <2> SUFFICES ASSUME Init PROVE Strength
      BY DEF RInv, Strength
    <2>1. \A p \in Partitions : Len(log[p]) = 0
      BY DEF Init
    <2>2. \A p \in Partitions : StartOffset(p) = 0
      BY <2>1 DEF Init, StartOffset
    <2>3. \A m \in Members, p \in Partitions : pc[m][p] = "none"
      BY DEF Init, NoClaims
    <2> QED
      BY <2>1, <2>2, <2>3 DEF Init, Strength, SessionsCurrent, Resumable, FreshFrom
  <1>2. IInv /\ RInv /\ [Next]_vars => RInv'
    <2> SUFFICES ASSUME IInv, RInv, [Next]_vars, EnableAutoCommit, ~faulted'
                 PROVE  Strength'
      BY DEF RInv, Strength
    <2>1. CASE UNCHANGED vars
      <3>1. faulted' = faulted
        BY <2>1 DEF vars
      <3>2. Strength
        BY <3>1 DEF RInv, Strength
      <3> QED
        BY <2>1, <3>2, SessionStepStrength DEF vars, claims
    <2>2. ASSUME NEW p \in Partitions, NEW v \in Values, Produce(p, v)
          PROVE  Strength'
      <3>1. Strength
        BY <2>2 DEF Produce, RInv, Strength
      <3> QED
        BY <2>2, <3>1, ProduceStrength
    <2>3. ASSUME NEW assignment \in [Partitions -> Members], Rebalance(assignment)
          PROVE  Strength'
      <3>1. Strength
        BY <2>3 DEF Rebalance, RInv, Strength
      <3> QED
        BY <2>3, <3>1, RebalanceStrength
    <2>4. ASSUME NEW m \in Members, MemberStep(m) PROVE Strength'
      <3>1. ~Crash(m)
        BY DEF Crash
      <3>2. CASE EndSession(m)
        <4>1. Strength
          BY <3>2 DEF EndSession, RInv, Strength
        <4> QED
          BY <3>2, <4>1, EndSessionStrength
      <3>3. CASE Start(m) \/ Stop(m) \/ Heartbeat(m) \/ LoseSession(m)
        <4>1. /\ claims' = claims /\ committed' = committed /\ log' = log
              /\ current' = current /\ fate' = fate /\ dlq' = dlq
              /\ faulted' = faulted
          BY <3>3 DEF Start, Stop, Heartbeat, LoseSession
        <4>2. \A n \in Members : member'[n] = "active" => member[n] = "active"
          BY <3>3 DEF Start, Stop, Heartbeat, LoseSession, IInv, TypeOK
        <4>3. Strength
          BY <4>1 DEF RInv, Strength
        <4> QED
          BY <4>1, <4>2, <4>3, SessionStepStrength
      <3> QED
        BY <2>4, <3>1, <3>2, <3>3 DEF MemberStep
    <2>5. ASSUME NEW m \in Members, NEW p \in Partitions, ClaimStep(m, p)
          PROVE  Strength'
      <3>1. faulted' = faulted
        BY <2>5 DEF ClaimStep, SkipUndecodable, SkipUnrouted, BeginAttempts,
                    HandlerSucceeds, HandlerFails, SendToDLQ, FinishMessage,
                    AutoCommit, EndClaim
      <3>2. Strength
        BY <3>1 DEF RInv, Strength
      <3> QED
        BY <2>5, <3>2, ClaimStepStrength
    <2> QED
      BY <2>1, <2>2, <2>3, <2>4, <2>5 DEF Next
  <1> QED
    BY <1>1, <1>2, Inductive, PTL DEF Spec

\* With auto-commit, rebalances and restarts alone make no member process a
\* message again, however many members, partitions and messages there are.
THEOREM NoRedelivery == Spec => []NoRedeliveryWithoutFault
  <1>1. IInv /\ RInv => NoRedeliveryWithoutFault
    <2> SUFFICES ASSUME IInv, RInv, EnableAutoCommit, ~faulted,
                        NEW m \in Members, NEW p \in Partitions,
                        pc[m][p] \in {"idle", "invoke", "dlq"}, Settled(p, pos[m][p])
                 PROVE  FALSE
      BY DEF NoRedeliveryWithoutFault
    <2>1. FreshFrom(p, pos[m][p])
      <3>1. Resumable(m, p)
        BY DEF RInv
      <3> QED
        BY <3>1 DEF Resumable
    <2>2. pos[m][p] < Len(log[p])
      BY SettledIsInLog
    <2> QED
      <3>1. pos[m][p] \in Nat /\ Len(log[p]) \in Nat
        BY DEF IInv, TypeOK
      <3> QED
        BY <2>1, <2>2, <3>1 DEF FreshFrom
  <1> QED
    BY <1>1, Inductive, Resumes, PTL
=============================================================================

---------------------------- MODULE Replayer_proofs ----------------------------
(***************************************************************************)
(* Proofs about Replayer, for any number of calls, partitions and messages *)
(* and every configuration: its inductive invariant, that the statistics   *)
(* add up, that Close waits for the loops, that no message is replayed     *)
(* twice without a fault, and that it implements AtLeastOnce.              *)
(***************************************************************************)
EXTENDS Replayer, FiniteSetTheorems, TLAPS

\* The steps of calls outside of a session, which touch no claim.
CallStep(l) ==
    \/ Cancel(l) \/ Enter(l) \/ LoopTop(l) \/ ConsumeFails(l) \/ AfterSession(l)

\* Calls that leave the sessions alone leave what the claims did alone.
LEMMA CallStepInv ==
    ASSUME IInv, NEW l \in Loops, CallStep(l)
    PROVE  /\ TypeOK' /\ Counted' /\ CloseProgress'
           /\ InSession' = InSession
           /\ UNCHANGED <<log, data>>
  <1> USE DEF IInv
  <1>1. UNCHANGED <<closed, group, closer, log, data>>
    BY DEF CallStep, Cancel, Enter, LoopTop, ConsumeFails, AfterSession
  <1>2. CASE Cancel(l)
    BY <1>1, <1>2 DEF Cancel, TypeOK, Counted, CloseProgress, InSession, data
  <1>3. ASSUME NEW r \in {"nil", "cause", "error", "ErrReplayerClosed"},
               Return(l, r), loop[l] # "session", ctxDone' = ctxDone
        PROVE  TypeOK' /\ Counted' /\ CloseProgress' /\ InSession' = InSession
    <2>1. TypeOK'
      BY <1>1, <1>3 DEF TypeOK, Return, data
    <2>2. Counted' /\ InSession' = InSession
      BY <1>3 DEF TypeOK, Counted, Return, InSession
    <2>3. wg' \subseteq wg
      BY <1>3 DEF Return
    <2> QED
      BY <1>1, <2>1, <2>2, <2>3 DEF CloseProgress
  <1>4. ASSUME l \in wg', wg' = wg \/ (wg' = wg \cup {l} /\ ~closed),
               loop[l] # "session",
               \/ loop' = [loop EXCEPT ![l] = "loop"]
               \/ loop' = [loop EXCEPT ![l] = "consume"],
               result' = result, ctxDone' = ctxDone
        PROVE  TypeOK' /\ Counted' /\ CloseProgress' /\ InSession' = InSession
    <2>1. TypeOK'
      BY <1>1, <1>4 DEF TypeOK, data
    <2>2. Counted' /\ InSession' = InSession
      BY <1>4 DEF TypeOK, Counted, InSession
    <2> QED
      BY <1>1, <1>4, <2>1, <2>2 DEF CloseProgress, TypeOK
  <1>5. CASE Enter(l)
    <2>1. CASE closed
      BY <1>1, <1>3, <1>5, <2>1 DEF Enter
    <2>2. CASE ~closed
      <3>1. /\ loop' = [loop EXCEPT ![l] = "loop"] /\ wg' = wg \cup {l}
            /\ loop[l] # "session" /\ result' = result /\ ctxDone' = ctxDone
        BY <1>5, <2>2 DEF Enter
      <3>2. l \in wg'
        BY <3>1
      <3> QED
        BY <1>1, <1>4, <2>2, <3>1, <3>2
    <2> QED
      BY <2>1, <2>2
  <1>6. CASE LoopTop(l)
    <2>1. loop[l] = "loop" /\ l \in wg /\ ctxDone' = ctxDone
      BY <1>6 DEF LoopTop, Counted
    <2>2. CASE l \in ctxDone
      BY <1>1, <1>3, <1>6, <2>1, <2>2 DEF LoopTop
    <2>4. CASE l \notin ctxDone /\ group # "open"
      <3>1. ConsumeError(l)
        BY <1>6, <2>4 DEF LoopTop
      <3> QED
        BY <1>1, <1>3, <2>1, <3>1 DEF ConsumeError
    <2>3. CASE l \notin ctxDone /\ group = "open"
      <3>1. loop' = [loop EXCEPT ![l] = "consume"] /\ wg' = wg /\ result' = result
        BY <1>6, <2>3 DEF LoopTop
      <3>2. l \in wg' /\ loop[l] # "session"
        BY <2>1, <3>1
      <3> QED
        BY <1>1, <1>4, <2>1, <3>1, <3>2
    <2> QED
      BY <2>2, <2>3, <2>4
  <1>7. CASE ConsumeFails(l)
    BY <1>1, <1>3, <1>7 DEF ConsumeFails, ConsumeError
  <1>8. CASE AfterSession(l)
    BY <1>1, <1>3, <1>4, <1>8 DEF AfterSession, Counted
  <1> QED
    BY <1>1, <1>2, <1>5, <1>6, <1>7, <1>8 DEF CallStep

\* Close goes on in an order that keeps it ahead of the loops.
LEMMA CloserStepInv ==
    ASSUME IInv, NEW c \in Closers, CloserStep(c)
    PROVE  /\ TypeOK' /\ Counted' /\ CloseProgress'
           /\ InSession' = InSession
           /\ UNCHANGED <<log, data>>
  <1> USE DEF IInv
  <1>1. UNCHANGED <<wg, ctxDone, loop, result, log, data>>
    BY DEF CloserStep, CloseFlag, CloseGroup, CloseLeave, CloseClient, CloseWait
  <1>2. Counted' /\ InSession' = InSession
    BY <1>1 DEF Counted, InSession
  <1>3. CASE CloseFlag(c)
    BY <1>1, <1>2, <1>3 DEF CloseFlag, TypeOK, CloseProgress, data
  <1>4. CASE CloseGroup(c)
    BY <1>1, <1>2, <1>4 DEF CloseGroup, TypeOK, CloseProgress, data
  <1>5. CASE CloseLeave(c)
    BY <1>1, <1>2, <1>5 DEF CloseLeave, TypeOK, CloseProgress, data
  <1>6. CASE CloseWait(c)
    BY <1>1, <1>2, <1>6 DEF CloseWait, TypeOK, CloseProgress, data
  <1>7. CASE CloseClient(c)
    BY <1>1, <1>2, <1>7 DEF CloseClient, TypeOK, CloseProgress, data
  <1> QED
    BY <1>1, <1>2, <1>3, <1>4, <1>5, <1>6, <1>7 DEF CloserStep

\* What the claims have done stays in order while no claim takes a step.
LEMMA ClaimsFrame ==
    ASSUME IInv, UNCHANGED <<log, data>>, InSession' = InSession
    PROVE  OneSession' /\ InOrder' /\ Prefix'
  BY DEF IInv, data, OneSession, InOrder, Prefix

\* A message is marked: the claim goes on behind it, over a disposed prefix.
LEMMA MarkInv ==
    ASSUME IInv, NEW p \in Partitions, claim[p] = "got", Mark(p),
           UNCHANGED <<log, committed>>
    PROVE  /\ claim' \in [Partitions -> {"none", "idle", "got", "done"}]
           /\ pos' \in [Partitions -> Nat]
           /\ marked' \in [Partitions -> Nat \cup {-1}]
           /\ disposed' \in [Partitions -> SUBSET Offsets]
           /\ pos[p] \in Offsets
           /\ InOrder' /\ Prefix'
           /\ \A q \in Partitions : claim'[q] # "none" <=> claim[q] # "none"
  <1> USE DEF IInv
  <1>1. /\ pos[p] \in Nat /\ Len(log[p]) \in Nat /\ pos[p] < Len(log[p])
        /\ Len(log[p]) <= MaxLog /\ MaxLog \in Nat
    BY ReplayerAssumption DEF TypeOK, InOrder
  <1>2. pos[p] \in Offsets
    BY <1>1 DEF Offsets
  <1>3. /\ claim' \in [Partitions -> {"none", "idle", "got", "done"}]
        /\ pos' \in [Partitions -> Nat]
        /\ marked' \in [Partitions -> Nat \cup {-1}]
        /\ disposed' \in [Partitions -> SUBSET Offsets]
    BY <1>1, <1>2 DEF Mark, TypeOK
  <1>4. /\ \A q \in Partitions \ {p} :
              /\ claim'[q] = claim[q] /\ pos'[q] = pos[q]
              /\ marked'[q] = marked[q] /\ disposed'[q] = disposed[q]
        /\ claim'[p] = "idle" /\ pos'[p] = pos[p] + 1 /\ marked'[p] = pos[p] + 1
        /\ disposed'[p] = disposed[p] \cup {pos[p]}
    BY DEF Mark, TypeOK
  <1>5. /\ committed[p] <= pos[p] + 1
        /\ disposed[p] \subseteq 0 .. Len(log[p]) - 1
        /\ committed[p] <= Len(log[p])
    <2>1. /\ committed[p] \in Int /\ marked[p] \in Int
          /\ committed[p] <= marked[p] /\ (marked[p] = pos[p] \/ marked[p] = -1)
      BY DEF TypeOK, InOrder
    <2> QED
      BY <1>1, <2>1 DEF InOrder
  <1>6. disposed'[p] \subseteq 0 .. Len(log[p]) - 1
    BY <1>1, <1>4, <1>5
  <1>7. InOrder'
    BY <1>1, <1>4, <1>5, <1>6 DEF InOrder
  <1>8. OffsetReset = "earliest" => 0 .. pos'[p] - 1 \subseteq disposed'[p]
    <2> SUFFICES ASSUME OffsetReset = "earliest", NEW o \in 0 .. pos'[p] - 1
                 PROVE  o \in disposed'[p]
      OBVIOUS
    <2>1. o = pos[p] \/ o \in 0 .. pos[p] - 1
      BY <1>1, <1>4
    <2> QED
      BY <1>4, <2>1 DEF Prefix
  <1>9. Prefix'
    BY <1>4, <1>8 DEF Prefix
  <1> QED
    BY <1>2, <1>3, <1>4, <1>7, <1>9

\* The steps of a claim in the session of call l.
LEMMA ClaimStepInv ==
    ASSUME IInv, NEW l \in Loops, NEW p \in Partitions, ClaimStep(l, p)
    PROVE  IInv'
  <1> USE DEF IInv
  <1>1. UNCHANGED <<calls, log>>
    BY DEF ClaimStep, Receive, Skip, ReplaySucceeds, ReplayFails, EndClaim, AutoCommit
  <1>2. /\ Counted' /\ CloseProgress' /\ InSession' = InSession
        /\ UNCHANGED <<closed, wg, group, ctxDone, loop, result, closer>>
    BY <1>1 DEF calls, Counted, CloseProgress, InSession
  <1>3. l \in InSession
    BY DEF InSession, ClaimStep, Receive, Skip, ReplaySucceeds, ReplayFails,
           EndClaim, AutoCommit
  <1>4. ASSUME TypeOK', InOrder', Prefix',
               \A q \in Partitions : claim'[q] # "none" <=> claim[q] # "none"
        PROVE  IInv'
    BY <1>2, <1>4 DEF OneSession
  <1>9. stats' \in [Consumed : Nat, Replayed : Nat, Skipped : Nat, Failed : Nat]
    <2>1. \/ stats' = stats
          \/ stats' = [stats EXCEPT !.Consumed = @ + 1]
          \/ stats' = [stats EXCEPT !.Skipped = @ + 1]
          \/ stats' = [stats EXCEPT !.Replayed = @ + 1]
          \/ stats' = [stats EXCEPT !.Failed = @ + 1]
      BY DEF ClaimStep, Receive, Skip, ReplaySucceeds, ReplayFails, EndClaim, AutoCommit
    <2>2. /\ stats.Consumed + 1 \in Nat /\ stats.Skipped + 1 \in Nat
          /\ stats.Replayed + 1 \in Nat /\ stats.Failed + 1 \in Nat
          /\ stats \in [Consumed : Nat, Replayed : Nat, Skipped : Nat, Failed : Nat]
      BY DEF TypeOK
    <2> QED
      BY <2>1, <2>2
  <1>5. CASE Skip(l, p)
    <2>1. Mark(p) /\ claim[p] = "got" /\ UNCHANGED <<log, committed>>
      BY <1>5 DEF Skip
    <2>3. UNCHANGED <<replays, ended, faults, faulted>>
      BY <1>5 DEF Skip
    <2>4. /\ claim' \in [Partitions -> {"none", "idle", "got", "done"}]
          /\ pos' \in [Partitions -> Nat]
          /\ marked' \in [Partitions -> Nat \cup {-1}]
          /\ disposed' \in [Partitions -> SUBSET Offsets]
          /\ InOrder' /\ Prefix'
          /\ \A q \in Partitions : claim'[q] # "none" <=> claim[q] # "none"
      BY <2>1, MarkInv
    <2>2. TypeOK'
      BY <1>1, <1>2, <1>9, <2>1, <2>3, <2>4 DEF TypeOK
    <2> QED
      BY <1>4, <2>2, <2>4
  <1>6. CASE ReplaySucceeds(l, p)
    <2>1. Mark(p) /\ claim[p] = "got" /\ UNCHANGED <<log, committed>>
      BY <1>6 DEF ReplaySucceeds
    <2>2. replays' \in [Partitions -> [Offsets -> Nat]]
      BY <1>6, <2>1, MarkInv DEF ReplaySucceeds, TypeOK
    <2>3. TypeOK'
      BY <1>1, <1>2, <1>6, <1>9, <2>1, <2>2, MarkInv DEF ReplaySucceeds, TypeOK
    <2> QED
      BY <1>4, <2>1, <2>3, MarkInv
  <1>7. CASE Receive(l, p) \/ ReplayFails(l, p) \/ EndClaim(l, p)
    <2>5. faults' \in 0 .. MaxFaults
      BY <1>7, ReplayerAssumption DEF Receive, ReplayFails, EndClaim, Fault, TypeOK
    <2>6. claim' \in [Partitions -> {"none", "idle", "got", "done"}] /\ ended' \in BOOLEAN
      BY <1>7 DEF Receive, ReplayFails, EndClaim, TypeOK
    <2>7. UNCHANGED <<committed, pos, marked, replays, disposed, faulted>>
      BY <1>7 DEF Receive, ReplayFails, EndClaim
    <2>1. TypeOK'
      BY <1>1, <1>2, <1>9, <2>5, <2>6, <2>7 DEF TypeOK
    <2>2. /\ UNCHANGED <<log, committed, pos, marked, disposed>>
          /\ claim[p] # "none"
          /\ \E v \in {"got", "done"} :
                /\ claim' = [claim EXCEPT ![p] = v]
                /\ v = "got" => pos[p] < Len(log[p])
      BY <1>7 DEF Receive, ReplayFails, EndClaim
    <2>3. /\ \A q \in Partitions : claim'[q] # "none" <=> claim[q] # "none"
          /\ \A q \in Partitions : claim'[q] = "got" => pos[q] < Len(log[q])
      BY <2>2 DEF TypeOK, InOrder
    <2>4. InOrder' /\ Prefix'
      BY <2>2, <2>3 DEF InOrder, Prefix
    <2> QED
      BY <1>4, <2>1, <2>3, <2>4
  <1>8. CASE AutoCommit(l, p)
    <2>1. /\ committed' = [committed EXCEPT ![p] = marked[p]]
          /\ marked[p] >= 0 /\ marked[p] \in Nat \cup {-1}
          /\ UNCHANGED <<log, stats, claim, pos, marked, ended, replays,
                         disposed, faults, faulted>>
      BY <1>8 DEF AutoCommit, TypeOK
    <2>2. TypeOK'
      BY <1>2, <2>1 DEF TypeOK
    <2>3. claim[p] # "none"
      BY <1>3 DEF OneSession
    <2>4. marked[p] = pos[p] /\ pos[p] <= Len(log[p])
      BY <2>1, <2>3 DEF InOrder
    <2>5. \A q \in Partitions :
             committed'[q] = IF q = p THEN marked[p] ELSE committed[q]
      BY <2>1 DEF TypeOK
    <2>6. InOrder'
      BY <2>1, <2>4, <2>5 DEF InOrder, TypeOK
    <2>7. Prefix'
      BY <2>1, <2>3, <2>4, <2>5 DEF Prefix
    <2> QED
      BY <1>4, <2>1, <2>2, <2>6, <2>7
  <1> QED
    BY <1>5, <1>6, <1>7, <1>8 DEF ClaimStep

\* A session starts where the committed offset, or OffsetReset, says.
LEMMA StartOffsetInLog ==
    ASSUME IInv, NEW p \in Partitions
    PROVE  /\ StartOffset(p) \in Nat /\ StartOffset(p) <= Len(log[p])
           /\ committed[p] >= 0 => StartOffset(p) = committed[p]
           /\ OffsetReset = "earliest" /\ committed[p] < 0 => StartOffset(p) = 0
  <1>1. /\ committed[p] \in Nat \cup {-1} /\ Len(log[p]) \in Nat
        /\ committed[p] <= Len(log[p])
    BY DEF IInv, TypeOK, InOrder
  <1>2. CASE committed[p] >= 0
    BY <1>1, <1>2 DEF StartOffset
  <1>3. CASE committed[p] < 0 /\ OffsetReset = "latest"
    BY <1>1, <1>3 DEF StartOffset
  <1>4. CASE committed[p] < 0 /\ OffsetReset # "latest"
    BY <1>1, <1>4 DEF StartOffset
  <1> QED
    BY <1>1, <1>2, <1>3, <1>4

\* A session begins with all claims, each where StartOffset says.
LEMMA OpenSessionInv ==
    ASSUME IInv, NEW l \in Loops, OpenSession(l)
    PROVE  IInv'
  <1> USE DEF IInv
  <1>1. /\ UNCHANGED <<closed, wg, group, ctxDone, result, closer, log, stats,
                       committed, replays, disposed, faults, faulted>>
        /\ InSession = {} /\ loop[l] = "consume"
        /\ loop' = [loop EXCEPT ![l] = "session"]
        /\ marked' = committed /\ ended' = FALSE
        /\ \A p \in Partitions : claim'[p] = "idle" /\ pos'[p] = StartOffset(p)
        /\ claim' \in [Partitions -> {"idle"}]
    BY DEF OpenSession
  <1>2. pos' \in [Partitions -> Nat]
    BY StartOffsetInLog DEF OpenSession
  <1>3. TypeOK'
    BY <1>1, <1>2 DEF TypeOK
  <1>4. InSession' = {l} /\ Counted'
    BY <1>1 DEF InSession, Counted, TypeOK
  <1>5. OneSession'
    BY <1>1, <1>4 DEF OneSession
  <1>6. CloseProgress'
    BY <1>1, <1>4 DEF CloseProgress
  <1>7. InOrder'
    <2> SUFFICES ASSUME NEW p \in Partitions
                 PROVE  /\ committed[p] <= marked'[p]
                        /\ marked'[p] = pos'[p] \/ marked'[p] = -1
                        /\ pos'[p] <= Len(log[p])
      BY <1>1 DEF InOrder
    <2> QED
      BY <1>1, StartOffsetInLog DEF TypeOK
  <1>8. Prefix'
    <2> SUFFICES ASSUME OffsetReset = "earliest", NEW p \in Partitions
                 PROVE  0 .. pos'[p] - 1 \subseteq disposed[p]
      BY <1>1 DEF Prefix
    <2>1. pos'[p] = committed[p] \/ pos'[p] = 0
      BY <1>1, StartOffsetInLog DEF TypeOK
    <2> QED
      BY <2>1 DEF Prefix
  <1> QED
    BY <1>3, <1>4, <1>5, <1>6, <1>7, <1>8

\* A session ends with all its claims; a commit covers what they marked.
LEMMA EndSessionInv ==
    ASSUME IInv, NEW l \in Loops, EndSession(l)
    PROVE  IInv'
  <1> USE DEF IInv
  <1>1. /\ UNCHANGED <<closed, wg, group, ctxDone, result, closer, log, stats,
                       replays, disposed>>
        /\ loop[l] = "session" /\ loop' = [loop EXCEPT ![l] = "ended"]
        /\ ForgetClaims
    BY DEF EndSession
  <1>2. \A p \in Partitions : claim'[p] = "none"
    BY <1>1 DEF ForgetClaims
  <1>3. \A p \in Partitions :
           \/ committed'[p] = committed[p]
           \/ marked[p] >= 0 /\ committed'[p] = marked[p]
    BY DEF EndSession
  <1>4. committed' \in [Partitions -> Nat \cup {-1}]
    <2>1. committed' = [p \in Partitions |-> committed'[p]]
      BY DEF EndSession
    <2> QED
      BY <1>3, <2>1 DEF TypeOK
  <1>5. faults' \in 0 .. MaxFaults /\ faulted' \in BOOLEAN
    <2> DEFINE dirty == {p \in Partitions : /\ EnableAutoCommit
                                            /\ marked[p] >= 0
                                            /\ marked[p] # committed[p]}
    <2>0. PICK flushed \in SUBSET dirty :
             IF flushed = dirty THEN UNCHANGED <<faults, faulted>>
                                ELSE Fault /\ faulted' = TRUE
      BY DEF EndSession
    <2>1. \/ UNCHANGED <<faults, faulted>>
          \/ Fault /\ faulted' = TRUE
      BY <2>0
    <2>2. faults' = faults \/ (faults < MaxFaults /\ faults' = faults + 1)
      BY <2>1 DEF Fault
    <2>3. faulted' = faulted \/ faulted' = TRUE
      BY <2>1
    <2>4. faults' \in 0 .. MaxFaults
      BY <2>2, ReplayerAssumption DEF TypeOK
    <2>5. faulted' \in BOOLEAN
      BY <2>3 DEF TypeOK
    <2> QED
      BY <2>4, <2>5
  <1>6. TypeOK'
    BY <1>1, <1>4, <1>5 DEF TypeOK, ForgetClaims
  <1>7. l \in InSession /\ InSession' = {}
    BY <1>1 DEF InSession, OneSession, TypeOK
  <1>8. Counted' /\ OneSession'
    BY <1>1, <1>2, <1>7 DEF Counted, OneSession, TypeOK
  <1>9. CloseProgress'
    BY <1>1, <1>7 DEF CloseProgress
  <1>10. \A p \in Partitions : claim[p] # "none"
    BY <1>7 DEF OneSession
  <1>11. \A p \in Partitions : marked[p] >= 0 => marked[p] = pos[p] /\ pos[p] <= Len(log[p])
    BY <1>10 DEF InOrder
  <1>12. InOrder'
    BY <1>1, <1>2, <1>3, <1>11 DEF InOrder
  <1>13. Prefix'
    BY <1>1, <1>2, <1>3, <1>10, <1>11 DEF Prefix
  <1> QED
    BY <1>6, <1>8, <1>9, <1>12, <1>13

\* The process dies: offsets and messages are all that is left.
LEMMA CrashInv ==
    ASSUME IInv, Crash
    PROVE  IInv'
  <1> USE DEF IInv
  <1>1. /\ UNCHANGED <<log, committed, replays, disposed>>
        /\ \A p \in Partitions : claim'[p] = "none"
        /\ \A k \in Loops : loop'[k] = "idle"
        /\ \A c \in Closers : closer'[c] = "idle"
        /\ wg' = {} /\ group' = "open"
    BY DEF Crash, ForgetClaims
  <1>2. faults' \in 0 .. MaxFaults
    BY ReplayerAssumption DEF Crash, Fault, TypeOK
  <1>3. TypeOK'
    <2>1. /\ closed' \in BOOLEAN /\ wg' \subseteq Loops /\ group' \in {"open", "closing", "closed"}
          /\ ctxDone' \subseteq Loops /\ faulted' \in BOOLEAN
          /\ loop' \in [Loops -> {"idle"}] /\ result' \in [Loops -> {"none"}]
          /\ closer' \in [Closers -> {"idle"}]
      BY DEF Crash
    <2>2. stats' \in [Consumed : Nat, Replayed : Nat, Skipped : Nat, Failed : Nat]
      BY DEF Crash
    <2>3. /\ claim' \in [Partitions -> {"none"}] /\ pos' \in [Partitions -> Nat]
          /\ marked' \in [Partitions -> Nat \cup {-1}] /\ ended' \in BOOLEAN
      BY DEF Crash, ForgetClaims
    <2> QED
      BY <1>1, <1>2, <2>1, <2>2, <2>3 DEF TypeOK
  <1>4. Counted' /\ OneSession'
    BY <1>1 DEF Counted, OneSession, InSession
  <1>5. CloseProgress'
    BY <1>1 DEF CloseProgress
  <1>6. InOrder' /\ Prefix'
    BY <1>1 DEF InOrder, Prefix
  <1> QED
    BY <1>3, <1>4, <1>5, <1>6

\* A record arrives behind all others.
LEMMA ArriveInv ==
    ASSUME IInv, NEW p \in Partitions, NEW kind \in Kinds, Arrive(p, kind)
    PROVE  /\ IInv'
           /\ \A q \in Partitions : Len(log'[q]) \in Nat /\ Len(log[q]) <= Len(log'[q])
  <1> USE DEF IInv
  <1>1. UNCHANGED <<calls, data>> /\ log' = [log EXCEPT ![p] = Append(@, kind)]
        /\ Len(log[p]) < MaxLog
    BY DEF Arrive
  <1>2. log' \in [Partitions -> Seq(Kinds)]
    BY <1>1 DEF TypeOK
  <1>3. \A q \in Partitions :
           Len(log'[q]) = IF q = p THEN Len(log[q]) + 1 ELSE Len(log[q])
    BY <1>1 DEF TypeOK
  <1>4. \A q \in Partitions : Len(log[q]) \in Nat
    BY DEF TypeOK
  <1>5. TypeOK'
    BY <1>1, <1>2 DEF TypeOK, calls, data
  <1>6. Counted' /\ OneSession' /\ CloseProgress' /\ Prefix'
    BY <1>1 DEF calls, data, Counted, OneSession, CloseProgress, Prefix, InSession
  <1>7. InOrder'
    <2> SUFFICES ASSUME NEW q \in Partitions
                 PROVE  /\ Len(log'[q]) <= MaxLog
                        /\ committed[q] <= Len(log'[q])
                        /\ disposed[q] \subseteq 0 .. Len(log'[q]) - 1
                        /\ claim[q] # "none" => pos[q] <= Len(log'[q])
                        /\ claim[q] = "got" => pos[q] < Len(log'[q])
      BY <1>1 DEF data, InOrder
    <2>1. /\ MaxLog \in Nat /\ Len(log'[q]) <= MaxLog
          /\ Len(log[q]) <= Len(log'[q])
      BY <1>1, <1>3, <1>4, ReplayerAssumption DEF InOrder
    <2>2. committed[q] \in Int /\ pos[q] \in Int
      BY DEF TypeOK
    <2>3. /\ committed[q] <= Len(log[q])
          /\ disposed[q] \subseteq 0 .. Len(log[q]) - 1
          /\ claim[q] # "none" => pos[q] <= Len(log[q])
          /\ claim[q] = "got" => pos[q] < Len(log[q])
      BY DEF InOrder
    <2> QED
      BY <1>3, <1>4, <2>1, <2>2, <2>3
  <1> QED
    BY <1>3, <1>4, <1>5, <1>6, <1>7

\* A rebalance ends the session, and touches no claim.
LEMMA RebalanceInv ==
    ASSUME IInv, NEW l \in Loops, SessionRebalance(l)
    PROVE  IInv'
  <1>1. /\ UNCHANGED <<calls, log, stats, committed, claim, pos, marked, replays,
                       disposed, faulted>>
        /\ ended' = TRUE /\ Fault
    BY DEF SessionRebalance
  <1>2. TypeOK'
    BY <1>1, ReplayerAssumption DEF IInv, TypeOK, calls, Fault
  <1> QED
    BY <1>1, <1>2 DEF IInv, calls, Counted, OneSession, CloseProgress, InOrder,
                      Prefix, InSession

\* Every step preserves the invariant, and is of one of these kinds.
LEMMA NextInv == ASSUME IInv, [Next]_vars PROVE IInv'
  <1>1. CASE UNCHANGED vars
    BY <1>1 DEF vars, calls, data, IInv, TypeOK, Counted, OneSession,
                CloseProgress, InOrder, Prefix, InSession
  <1>2. ASSUME NEW l \in Loops, LoopStep(l) PROVE IInv'
    <2>1. CASE CallStep(l)
      BY <2>1, CallStepInv, ClaimsFrame DEF IInv
    <2> QED
      BY <1>2, <2>1, OpenSessionInv, EndSessionInv, RebalanceInv
         DEF LoopStep, CallStep
  <1>3. ASSUME NEW c \in Closers, CloserStep(c) PROVE IInv'
    BY <1>3, CloserStepInv, ClaimsFrame DEF IInv
  <1> QED
    BY <1>1, <1>2, <1>3, ClaimStepInv, ArriveInv, CrashInv DEF Next

\* No call has begun, and nothing is counted.
LEMMA InitInv == Init => IInv
  <1> SUFFICES ASSUME Init PROVE IInv
    OBVIOUS
  <1>1. \A p \in Partitions : log[p] = <<>> /\ Len(log[p]) = 0
    BY DEF Init
  <1>2. TypeOK
    <2>5. <<>> \in Seq(Kinds)
      OBVIOUS
    <2>6. [o \in Offsets |-> 0] \in [Offsets -> Nat]
      OBVIOUS
    <2>1. /\ log \in [Partitions -> Seq(Kinds)]
          /\ replays \in [Partitions -> [Offsets -> Nat]]
          /\ disposed \in [Partitions -> SUBSET Offsets]
      BY <2>5, <2>6 DEF Init
    <2>2. stats \in [Consumed : Nat, Replayed : Nat, Skipped : Nat, Failed : Nat]
      BY DEF Init
    <2>3. /\ loop \in [Loops -> {"idle"}] /\ result \in [Loops -> {"none"}]
          /\ closer \in [Closers -> {"idle"}]
          /\ claim \in [Partitions -> {"none"}]
          /\ pos \in [Partitions -> Nat]
          /\ committed \in [Partitions -> {-1}] /\ marked \in [Partitions -> {-1}]
      BY DEF Init
    <2>4. /\ wg \subseteq Loops /\ ctxDone \subseteq Loops
          /\ closed \in BOOLEAN /\ ended \in BOOLEAN /\ faulted \in BOOLEAN
          /\ group \in {"open", "closing", "closed"}
      BY DEF Init
    <2>7. faults \in 0 .. MaxFaults
      BY ReplayerAssumption DEF Init
    <2> QED
      BY <2>1, <2>2, <2>3, <2>4, <2>7 DEF TypeOK
  <1>3. Counted /\ OneSession /\ CloseProgress
    BY DEF Init, Counted, OneSession, CloseProgress, InSession
  <1>4. InOrder /\ Prefix
    BY <1>1, ReplayerAssumption DEF Init, InOrder, Prefix
  <1> QED
    BY <1>2, <1>3, <1>4 DEF IInv

\* Calls, sessions, claims and offsets of the replayer agree in every state,
\* whatever calls race and whatever the process or the coordinator does.
THEOREM Inductive == Spec => []IInv
  BY InitInv, NextInv, PTL DEF Spec

\* Close of the replayer returns only when every call of ReplayWithFilter has.
THEOREM CloseWaits == Spec => []CloseWaitsForLoops
  <1>1. IInv => CloseWaitsForLoops
    BY DEF IInv, TypeOK, Counted, CloseProgress, CloseWaitsForLoops
  <1> QED
    BY <1>1, Inductive, PTL

-----------------------------------------------------------------------------
(* The statistics. *)

\* The partitions whose claim has a message in hand.
Held == {p \in Partitions : claim[p] = "got"}

\* What a step does to the statistics, it does to the messages in hand.
LEMMA ClaimStepStats ==
    ASSUME IInv, StatsConserved, NEW l \in Loops, NEW p \in Partitions, ClaimStep(l, p)
    PROVE  StatsConserved'
  <1> USE DEF IInv
  <1>1. IsFiniteSet(Held) /\ Cardinality(Held) \in Nat
    BY ReplayerAssumption, FS_Subset, FS_CardinalityType DEF Held
  <1>2. /\ stats.Consumed \in Nat /\ stats.Replayed \in Nat
        /\ stats.Skipped \in Nat /\ stats.Failed \in Nat
        /\ DOMAIN stats = {"Consumed", "Replayed", "Skipped", "Failed"}
        /\ stats = [Consumed |-> stats.Consumed, Replayed |-> stats.Replayed,
                    Skipped |-> stats.Skipped, Failed |-> stats.Failed]
    BY DEF TypeOK
  <1>3. stats.Consumed = stats.Replayed + stats.Skipped + stats.Failed + Cardinality(Held)
    BY DEF StatsConserved, Held
  <1>4. ASSUME stats'.Consumed = stats'.Replayed + stats'.Skipped + stats'.Failed
                                   + Cardinality(Held')
        PROVE  StatsConserved'
    BY <1>4 DEF StatsConserved, Held
  <1>5. CASE Receive(l, p)
    <2>1. Held' = Held \cup {p} /\ p \notin Held
      BY <1>5 DEF Receive, Held, TypeOK
    <2>2. Cardinality(Held') = Cardinality(Held) + 1
      BY <1>1, <2>1, FS_AddElement
    <2>3. /\ stats'.Consumed = stats.Consumed + 1 /\ stats'.Replayed = stats.Replayed
          /\ stats'.Skipped = stats.Skipped /\ stats'.Failed = stats.Failed
      BY <1>2, <1>5 DEF Receive
    <2> QED
      BY <1>1, <1>2, <1>3, <1>4, <2>2, <2>3
  <1>6. CASE Skip(l, p) \/ ReplaySucceeds(l, p) \/ ReplayFails(l, p)
    <2>1. Held' = Held \ {p} /\ p \in Held
      BY <1>6 DEF Skip, ReplaySucceeds, ReplayFails, Mark, Held, TypeOK
    <2>2. Cardinality(Held') = Cardinality(Held) - 1
      BY <1>1, <2>1, FS_RemoveElement
    <2>3. \/ stats' = [stats EXCEPT !.Skipped = stats.Skipped + 1]
          \/ stats' = [stats EXCEPT !.Replayed = stats.Replayed + 1]
          \/ stats' = [stats EXCEPT !.Failed = stats.Failed + 1]
      BY <1>6 DEF Skip, ReplaySucceeds, ReplayFails
    <2>4. /\ stats'.Consumed = stats.Consumed
          /\ stats'.Replayed + stats'.Skipped + stats'.Failed =
                stats.Replayed + stats.Skipped + stats.Failed + 1
          /\ stats'.Replayed \in Nat /\ stats'.Skipped \in Nat /\ stats'.Failed \in Nat
      <3>1. CASE stats' = [stats EXCEPT !.Skipped = stats.Skipped + 1]
        BY <1>2, <3>1
      <3>2. CASE stats' = [stats EXCEPT !.Replayed = stats.Replayed + 1]
        BY <1>2, <3>2
      <3>3. CASE stats' = [stats EXCEPT !.Failed = stats.Failed + 1]
        BY <1>2, <3>3
      <3> QED
        BY <2>3, <3>1, <3>2, <3>3
    <2> QED
      BY <1>1, <1>2, <1>3, <1>4, <2>2, <2>4
  <1>7. CASE EndClaim(l, p) \/ AutoCommit(l, p)
    <2>1. Held' = Held /\ stats' = stats
      BY <1>7 DEF EndClaim, AutoCommit, Held, TypeOK
    <2> QED
      BY <1>3, <1>4, <2>1
  <1> QED
    BY <1>5, <1>6, <1>7 DEF ClaimStep

\* Every message that the replayer has taken is accounted for in Stats, while
\* the claims of any number of partitions count at the same time.
THEOREM StatsAddUp == Spec => []StatsConserved
  <1>1. Init => StatsConserved
    <2> SUFFICES ASSUME Init PROVE StatsConserved
      OBVIOUS
    <2>1. {p \in Partitions : claim[p] = "got"} = {}
      BY DEF Init
    <2>2. Cardinality({p \in Partitions : claim[p] = "got"}) = 0
      BY <2>1, FS_EmptySet
    <2>3. /\ stats.Consumed = 0 /\ stats.Replayed = 0
          /\ stats.Skipped = 0 /\ stats.Failed = 0
      BY DEF Init
    <2> QED
      BY <2>2, <2>3 DEF StatsConserved
  <1>2. ASSUME IInv, StatsConserved, [Next]_vars PROVE StatsConserved'
    <2>1. ASSUME UNCHANGED <<stats, claim>> PROVE StatsConserved'
      BY <1>2, <2>1 DEF StatsConserved
    <2>2. ASSUME stats' = stats, Held = {}, Held' = {} PROVE StatsConserved'
      BY <1>2, <2>2 DEF StatsConserved, Held
    <2>3. CASE UNCHANGED vars
      BY <2>1, <2>3 DEF vars, data
    <2>4. ASSUME NEW l \in Loops, LoopStep(l) PROVE StatsConserved'
      <3>1. CASE CallStep(l)
        BY <1>2, <2>1, <3>1, CallStepInv DEF data
      <3>2. CASE OpenSession(l)
        <4>1. Held = {} /\ Held' = {} /\ stats' = stats
          BY <1>2, <3>2 DEF OpenSession, Held, IInv, OneSession
        <4> QED
          BY <2>2, <4>1
      <3>3. CASE EndSession(l)
        <4>1. Held = {} /\ Held' = {} /\ stats' = stats
          BY <3>3 DEF EndSession, ForgetClaims, Held
        <4> QED
          BY <2>2, <4>1
      <3>4. CASE SessionRebalance(l)
        BY <2>1, <3>4 DEF SessionRebalance
      <3> QED
        BY <2>4, <3>1, <3>2, <3>3, <3>4 DEF LoopStep, CallStep
    <2>5. ASSUME NEW c \in Closers, CloserStep(c) PROVE StatsConserved'
      BY <1>2, <2>1, <2>5, CloserStepInv DEF data
    <2>6. CASE Crash
      <3>1. {p \in Partitions : claim'[p] = "got"} = {}
        BY <2>6 DEF Crash, ForgetClaims
      <3> QED
        BY <2>6, <3>1, FS_EmptySet DEF Crash, StatsConserved
    <2>7. ASSUME NEW p \in Partitions, NEW kind \in Kinds, Arrive(p, kind)
          PROVE  StatsConserved'
      BY <2>1, <2>7 DEF Arrive, data
    <2> QED
      BY <1>2, <2>3, <2>4, <2>5, <2>6, <2>7, ClaimStepStats DEF Next
  <1> QED
    BY <1>1, <1>2, Inductive, PTL DEF Spec

-----------------------------------------------------------------------------
(* No message is replayed twice without a fault. *)

\* ReplayInv for one partition.
Fresh(p) ==
    /\ \A o \in Offsets : replays[p][o] <= 1
    /\ FreshFrom(p, Len(log[p]))
    /\ claim[p] = "none" => FreshFrom(p, StartOffset(p))
    /\ claim[p] # "none" =>
          /\ FreshFrom(p, pos[p])
          /\ (marked[p] = -1 /\ OffsetReset = "earliest") => pos[p] = 0

\* A claim that leaves replays alone and stays where it is stays fresh.
LEMMA FreshFrame ==
    ASSUME NEW p \in Partitions, Fresh(p), claim[p] # "none", claim'[p] # "none",
           replays'[p] = replays[p], log' = log, pos'[p] = pos[p], marked'[p] = marked[p]
    PROVE  Fresh(p)'
  BY DEF Fresh, FreshFrom

\* A claim moves past a message only when it has marked it, and what it
\* replays it has not replayed before.
LEMMA ClaimStepFresh ==
    ASSUME IInv, NEW l \in Loops, NEW p \in Partitions, ClaimStep(l, p),
           NEW q \in Partitions, Fresh(q)
    PROVE  Fresh(q)'
  <1> USE DEF IInv
  <1>1. claim[q] # "none" /\ claim'[q] # "none" /\ log' = log
    <2>1. l \in InSession
      BY DEF InSession, ClaimStep, Receive, Skip, ReplaySucceeds, ReplayFails,
             EndClaim, AutoCommit
    <2>2. claim[q] # "none"
      BY <2>1 DEF OneSession
    <2>3. claim'[q] # "none"
      BY <2>2 DEF ClaimStep, Receive, Skip, ReplaySucceeds, ReplayFails, Mark,
                  EndClaim, AutoCommit, TypeOK
    <2> QED
      BY <2>2, <2>3 DEF ClaimStep, Receive, Skip, ReplaySucceeds, ReplayFails,
                        EndClaim, AutoCommit
  <1>2. CASE q # p \/ Receive(l, p) \/ ReplayFails(l, p) \/ EndClaim(l, p) \/ AutoCommit(l, p)
    <2>1. replays'[q] = replays[q] /\ pos'[q] = pos[q] /\ marked'[q] = marked[q]
      BY <1>2 DEF ClaimStep, Receive, Skip, ReplaySucceeds, ReplayFails, Mark,
                  EndClaim, AutoCommit, TypeOK
    <2> QED
      BY <1>1, <2>1, FreshFrame
  <1>3. CASE q = p /\ (Skip(l, p) \/ ReplaySucceeds(l, p))
    <2>1. /\ pos[p] \in Nat /\ Len(log[p]) \in Nat /\ pos[p] < Len(log[p])
          /\ pos'[p] = pos[p] + 1 /\ marked'[p] = pos[p] + 1
      BY <1>3 DEF Skip, ReplaySucceeds, Mark, TypeOK, InOrder
    <2>2. /\ \A o \in Offsets : o # pos[p] => replays'[p][o] = replays[p][o]
          /\ \A o \in Offsets : o = pos[p] => replays'[p][o] <= replays[p][o] + 1
          /\ \A o \in Offsets : o \in Nat /\ replays[p][o] \in Nat
      <3>1. /\ replays \in [Partitions -> [Offsets -> Nat]]
            /\ \A o \in Offsets : o \in Nat
        BY DEF TypeOK, Offsets
      <3>2. CASE replays' = replays
        BY <3>1, <3>2
      <3>3. CASE replays' = [replays EXCEPT ![p][pos[p]] = @ + 1]
        BY <3>1, <3>3
      <3> QED
        BY <1>3, <3>2, <3>3 DEF Skip, ReplaySucceeds
    <2>3. \A o \in Offsets : (replays[p][o] <= 1 /\ (o >= pos[p] => replays[p][o] = 0))
      BY <1>1, <1>3 DEF Fresh, FreshFrom
    <2>4. \A o \in Offsets : replays'[p][o] <= 1
      BY <2>1, <2>2, <2>3
    <2>5. \A o \in Offsets : o >= pos[p] + 1 => replays'[p][o] = 0
      BY <2>1, <2>2, <2>3
    <2>6. \A o \in Offsets : o >= Len(log[p]) => replays'[p][o] = 0
      BY <2>1, <2>2, <2>5
    <2> QED
      BY <1>1, <1>3, <2>1, <2>4, <2>5, <2>6 DEF Fresh, FreshFrom
  <1> QED
    BY <1>2, <1>3 DEF ClaimStep

\* A session starts on fresh ground, and leaves fresh ground behind if its
\* last commit does not fail.
LEMMA SessionFresh ==
    ASSUME IInv, NEW l \in Loops, NEW q \in Partitions, Fresh(q),
           EnableAutoCommit, ~faulted',
           OpenSession(l) \/ EndSession(l)
    PROVE  Fresh(q)'
  <1> USE DEF IInv
  <1>1. CASE OpenSession(l)
    <2>1. /\ claim[q] = "none" /\ claim'[q] = "idle" /\ log' = log /\ replays' = replays
          /\ pos'[q] = StartOffset(q) /\ marked'[q] = committed[q]
      BY <1>1 DEF OpenSession, OneSession
    <2>2. (marked'[q] = -1 /\ OffsetReset = "earliest") => pos'[q] = 0
      <3>1. marked'[q] = -1 => committed[q] < 0
        BY <2>1
      <3> QED
        BY <2>1, <3>1, StartOffsetInLog
    <2> QED
      BY <2>1, <2>2 DEF Fresh, FreshFrom
  <1>2. CASE EndSession(l)
    <2> DEFINE dirty == {p \in Partitions : /\ EnableAutoCommit
                                            /\ marked[p] >= 0
                                            /\ marked[p] # committed[p]}
    <2>1. PICK flushed \in SUBSET dirty :
             /\ committed' = [p \in Partitions |->
                    IF p \in flushed THEN marked[p] ELSE committed[p]]
             /\ IF flushed = dirty THEN UNCHANGED <<faults, faulted>>
                                   ELSE Fault /\ faulted' = TRUE
      BY <1>2 DEF EndSession
    <2>2. flushed = dirty
      BY <2>1
    <2>3. claim[q] # "none" /\ claim'[q] = "none" /\ log' = log /\ replays' = replays
      BY <1>2 DEF EndSession, ForgetClaims
    <2>4. /\ marked[q] \in Nat \cup {-1} /\ committed[q] \in Nat \cup {-1}
          /\ committed[q] <= marked[q] /\ (marked[q] = pos[q] \/ marked[q] = -1)
          /\ pos[q] \in Nat
      BY <2>3 DEF TypeOK, InOrder
    <2>5. committed'[q] = marked[q]
      BY <2>1, <2>2, <2>4
    <2>6. CASE marked[q] >= 0
      <3>1. StartOffset(q)' = pos[q]
        BY <2>4, <2>5, <2>6 DEF StartOffset
      <3> QED
        BY <2>3, <3>1 DEF Fresh, FreshFrom
    <2>7. CASE marked[q] < 0 /\ OffsetReset = "latest"
      <3>1. StartOffset(q)' = Len(log[q])
        BY <2>3, <2>4, <2>5, <2>7 DEF StartOffset
      <3> QED
        BY <2>3, <3>1 DEF Fresh, FreshFrom
    <2>8. CASE marked[q] < 0 /\ OffsetReset # "latest"
      <3>1. StartOffset(q)' = 0 /\ pos[q] = 0
        BY <2>3, <2>4, <2>5, <2>8, ReplayerAssumption DEF StartOffset, Fresh
      <3> QED
        BY <2>3, <3>1 DEF Fresh, FreshFrom
    <2> QED
      BY <2>4, <2>6, <2>7, <2>8
  <1> QED
    BY <1>1, <1>2

\* New messages arrive where nothing was replayed.
LEMMA ArriveFresh ==
    ASSUME IInv, NEW p \in Partitions, NEW kind \in Kinds, Arrive(p, kind),
           NEW q \in Partitions, Fresh(q)
    PROVE  Fresh(q)'
  <1>1. /\ Len(log'[q]) \in Nat /\ Len(log[q]) <= Len(log'[q]) /\ Len(log[q]) \in Nat
        /\ UNCHANGED <<claim, pos, marked, replays, committed>>
    BY ArriveInv DEF Arrive, data, IInv, TypeOK
  <1>2. \A o \in Offsets : o \in Nat
    BY DEF Offsets
  <1>3. \A o \in Offsets : o >= Len(log'[q]) => replays[q][o] = 0
    BY <1>1, <1>2 DEF Fresh, FreshFrom
  <1>4. committed[q] \in Int
    BY DEF IInv, TypeOK
  <1>5. StartOffset(q)' = StartOffset(q) \/ StartOffset(q)' = Len(log'[q])
    <2>1. CASE committed[q] >= 0
      BY <1>1, <1>4, <2>1 DEF StartOffset
    <2>2. CASE committed[q] < 0 /\ OffsetReset = "latest"
      BY <1>1, <1>4, <2>2 DEF StartOffset
    <2>3. CASE committed[q] < 0 /\ OffsetReset # "latest"
      BY <1>1, <1>4, <2>3 DEF StartOffset
    <2> QED
      BY <1>4, <2>1, <2>2, <2>3
  <1> QED
    BY <1>1, <1>3, <1>5 DEF Fresh, FreshFrom

\* Without a fault, what is ahead of every claim, or of the next one, was not
\* replayed.
THEOREM ReplaysFresh == Spec => []ReplayInv
  <1>1. ReplayInv <=> (EnableAutoCommit /\ ~faulted => \A p \in Partitions : Fresh(p))
    BY DEF ReplayInv, Fresh
  <1>2. Init => ReplayInv
    BY DEF Init, ReplayInv, FreshFrom
  <1>3. ASSUME IInv, ReplayInv, [Next]_vars PROVE ReplayInv'
    <2> SUFFICES ASSUME EnableAutoCommit, ~faulted', NEW q \in Partitions
                 PROVE  Fresh(q)'
      BY DEF ReplayInv, Fresh
    <2>1. ~faulted
      BY <1>3 DEF Next, LoopStep, ClaimStep, CloserStep, Cancel, Enter, LoopTop,
             OpenSession, ConsumeFails, SessionRebalance, EndSession, AfterSession,
             Receive, Skip, ReplaySucceeds, ReplayFails, EndClaim, AutoCommit,
             CloseFlag, CloseGroup, CloseLeave, CloseClient, CloseWait, Arrive, Crash, vars, data
    <2>2. Fresh(q)
      BY <1>1, <1>3, <2>1
    <2>3. ASSUME UNCHANGED <<log, committed, claim, pos, marked, replays>>
          PROVE  Fresh(q)'
      BY <2>2, <2>3 DEF Fresh, FreshFrom, StartOffset
    <2>4. ASSUME NEW l \in Loops, LoopStep(l) PROVE Fresh(q)'
      <3>1. CASE CallStep(l)
        BY <1>3, <2>3, <3>1, CallStepInv DEF data
      <3>2. CASE OpenSession(l) \/ EndSession(l)
        BY <1>3, <2>2, <3>2, SessionFresh
      <3>3. CASE SessionRebalance(l)
        BY <2>3, <3>3 DEF SessionRebalance
      <3> QED
        BY <2>4, <3>1, <3>2, <3>3 DEF LoopStep, CallStep
    <2>5. ASSUME NEW c \in Closers, CloserStep(c) PROVE Fresh(q)'
      BY <1>3, <2>3, <2>5, CloserStepInv DEF data
    <2>6. ~Crash
      BY DEF Crash
    <2>7. CASE UNCHANGED vars
      BY <2>3, <2>7 DEF vars, data
    <2> QED
      BY <1>3, <2>2, <2>4, <2>5, <2>6, <2>7, ClaimStepFresh, ArriveFresh DEF Next
  <1> QED
    BY <1>2, <1>3, Inductive, PTL DEF Spec

\* With auto-commit, a message is replayed twice only after the process died
\* or a session's last commit failed.
THEOREM NoSecondReplay == Spec => []ReplayedOnce
  <1>1. ReplayInv => ReplayedOnce
    BY DEF ReplayInv, ReplayedOnce
  <1> QED
    BY <1>1, ReplaysFresh, PTL

-----------------------------------------------------------------------------
(* The replayer implements AtLeastOnce. *)

\* Marking disposes of the first message that is not disposed of, or again of
\* one that is.
LEMMA MarkRefines ==
    ASSUME IInv, OffsetReset = "earliest", NEW p \in Partitions,
           claim[p] = "got", Mark(p), UNCHANGED <<log, committed>>
    PROVE  [ALO!Next]_(ALO!vars)
  <1> USE DEF IInv
  <1>1. /\ pos[p] \in Nat /\ Len(log[p]) \in Nat /\ pos[p] < Len(log[p])
        /\ 0 .. pos[p] - 1 \subseteq disposed[p]
    BY DEF TypeOK, InOrder, Prefix
  <1>2. disposed' = [disposed EXCEPT ![p] = @ \cup {pos[p]}]
    BY DEF Mark
  <1>3. CASE pos[p] \in disposed[p]
    <2>1. disposed' = disposed
      BY <1>2, <1>3 DEF TypeOK
    <2> QED
      BY <2>1 DEF ALO!vars
  <1>4. CASE pos[p] \notin disposed[p]
    <2>1. ALO!Settle(p, pos[p])
      BY <1>1, <1>2, <1>4 DEF ALO!Settle
    <2>2. pos[p] \in 0 .. Len(log[p]) - 1
      BY <1>1
    <2> QED
      BY <2>1, <2>2 DEF ALO!Next
  <1> QED
    BY <1>3, <1>4

\* What a step commits is marked, so disposed of and ahead of what was
\* committed.
LEMMA CommitRefines ==
    ASSUME IInv, OffsetReset = "earliest", UNCHANGED <<log, disposed>>,
           committed' \in [Partitions -> Nat \cup {-1}],
           \A p \in Partitions :
              \/ committed'[p] = committed[p]
              \/ claim[p] # "none" /\ marked[p] >= 0 /\ committed'[p] = marked[p]
    PROVE  [ALO!Next]_(ALO!vars)
  <1>1. committed' \in [Partitions -> Int]
    OBVIOUS
  <1>2. ASSUME NEW p \in Partitions
        PROVE  /\ committed'[p] >= committed[p]
               /\ \A o \in 0 .. committed'[p] - 1 : o \in disposed[p]
    <2>1. /\ committed[p] \in Int /\ marked[p] \in Int /\ pos[p] \in Int
          /\ 0 .. committed[p] - 1 \subseteq disposed[p]
          /\ claim[p] # "none" => 0 .. pos[p] - 1 \subseteq disposed[p]
          /\ claim[p] # "none" => committed[p] <= marked[p]
          /\ claim[p] # "none" /\ marked[p] >= 0 => marked[p] = pos[p]
      BY DEF IInv, TypeOK, InOrder, Prefix
    <2>2. CASE committed'[p] = committed[p]
      BY <2>1, <2>2
    <2>3. CASE claim[p] # "none" /\ marked[p] >= 0 /\ committed'[p] = marked[p]
      BY <2>1, <2>3
    <2> QED
      BY <2>2, <2>3
  <1>3. ALO!Commit
    BY <1>1, <1>2 DEF ALO!Commit
  <1> QED
    BY <1>3 DEF ALO!Next

\* With OffsetReset = "earliest" a message whose replay failed is neither
\* committed nor overtaken, in its session, the next, or after a crash.
THEOREM Refinement ==
    OffsetReset = "earliest" => (Spec => ImplementsAtLeastOnce)
  <1> SUFFICES ASSUME OffsetReset = "earliest" PROVE Spec => ALO!Spec
    BY DEF ImplementsAtLeastOnce
  <1>1. Init => ALO!Init
    BY DEF Init, ALO!Init
  <1>2. ASSUME IInv, [Next]_vars PROVE [ALO!Next]_(ALO!vars)
    <2>1. ASSUME UNCHANGED <<log, disposed, committed>> PROVE [ALO!Next]_(ALO!vars)
      BY <2>1 DEF ALO!vars
    <2>2. CASE UNCHANGED vars
      BY <2>1, <2>2 DEF vars, data
    <2>3. ASSUME NEW l \in Loops, LoopStep(l) PROVE [ALO!Next]_(ALO!vars)
      <3>1. CASE CallStep(l)
        BY <1>2, <2>1, <3>1, CallStepInv DEF data
      <3>2. CASE OpenSession(l) \/ SessionRebalance(l)
        BY <2>1, <3>2 DEF OpenSession, SessionRebalance
      <3>3. CASE EndSession(l)
        <4>1. UNCHANGED <<log, disposed>> /\ \A p \in Partitions : claim[p] # "none"
          BY <3>3 DEF EndSession
        <4>2. \A p \in Partitions :
                 \/ committed'[p] = committed[p]
                 \/ marked[p] >= 0 /\ committed'[p] = marked[p]
          BY <3>3 DEF EndSession
        <4>3. committed' \in [Partitions -> Nat \cup {-1}]
          BY <1>2, <3>3, EndSessionInv DEF IInv, TypeOK
        <4> QED
          BY <1>2, <4>1, <4>2, <4>3, CommitRefines
      <3> QED
        BY <2>3, <3>1, <3>2, <3>3 DEF LoopStep, CallStep
    <2>4. ASSUME NEW l \in Loops, NEW p \in Partitions, ClaimStep(l, p)
          PROVE  [ALO!Next]_(ALO!vars)
      <3>1. CASE Receive(l, p) \/ ReplayFails(l, p) \/ EndClaim(l, p)
        BY <2>1, <3>1 DEF Receive, ReplayFails, EndClaim
      <3>2. CASE Skip(l, p) \/ ReplaySucceeds(l, p)
        <4>1. claim[p] = "got" /\ Mark(p) /\ UNCHANGED <<log, committed>>
          BY <3>2 DEF Skip, ReplaySucceeds
        <4> QED
          BY <1>2, <4>1, MarkRefines
      <3>3. CASE AutoCommit(l, p)
        <4>1. /\ UNCHANGED <<log, disposed>>
              /\ \A q \in Partitions :
                    \/ committed'[q] = committed[q]
                    \/ q = p /\ marked[q] >= 0 /\ committed'[q] = marked[q]
          BY <1>2, <3>3 DEF AutoCommit, IInv, TypeOK
        <4>2. claim[p] # "none"
          BY <1>2, <3>3 DEF AutoCommit, InSession, IInv, OneSession
        <4>3. committed' \in [Partitions -> Nat \cup {-1}]
          BY <1>2, <2>4, ClaimStepInv DEF IInv, TypeOK
        <4> QED
          BY <1>2, <4>1, <4>2, <4>3, CommitRefines
      <3> QED
        BY <2>4, <3>1, <3>2, <3>3 DEF ClaimStep
    <2>5. ASSUME NEW c \in Closers, CloserStep(c) PROVE [ALO!Next]_(ALO!vars)
      BY <1>2, <2>1, <2>5, CloserStepInv DEF data
    <2>6. ASSUME NEW p \in Partitions, NEW kind \in Kinds, Arrive(p, kind)
          PROVE  [ALO!Next]_(ALO!vars)
      BY <2>6 DEF Arrive, data, ALO!Publish, ALO!Next
    <2>7. CASE Crash
      BY <2>1, <2>7 DEF Crash
    <2> QED
      BY <1>2, <2>2, <2>3, <2>4, <2>5, <2>6, <2>7 DEF Next
  <1> QED
    BY <1>1, <1>2, Inductive, PTL DEF Spec, ALO!Spec

\* A call that Close stops does not report the closed group as an error.
THEOREM CloseReportsNoError == Spec => CloseIsNoError
  <1>1. ASSUME IInv, [Next]_vars
        PROVE  [\A l \in Loops : result'[l] = "error" /\ result[l] # "error" =>
                   group = "open"]_result
    <2> SUFFICES ASSUME NEW l \in Loops, result'[l] = "error", result[l] # "error"
                 PROVE  group = "open"
      OBVIOUS
    <2>1. ASSUME NEW k \in Loops, CallStep(k) PROVE group = "open"
      <3>1. CASE ConsumeError(k)
        <4>1. ~closed
          BY <1>1, <3>1 DEF ConsumeError, Return, IInv, TypeOK
        <4> QED
          BY <1>1, <4>1 DEF IInv, TypeOK, CloseProgress
      <3>2. CASE LoopTop(k) /\ ~ConsumeError(k)
        BY <1>1, <3>2 DEF LoopTop, Return, IInv, TypeOK
      <3>3. CASE Cancel(k) \/ Enter(k) \/ AfterSession(k)
        BY <1>1, <3>3 DEF Cancel, Enter, AfterSession, Return, IInv, TypeOK
      <3> QED
        BY <2>1, <3>1, <3>2, <3>3 DEF CallStep, ConsumeFails
    <2>2. result' = result \/ Crash \/ \E k \in Loops : CallStep(k)
      BY <1>1 DEF Next, LoopStep, ClaimStep, CloserStep, CallStep, OpenSession,
                  SessionRebalance, EndSession, Receive, Skip, ReplaySucceeds,
                  ReplayFails, EndClaim, AutoCommit, CloseFlag, CloseGroup,
                  CloseLeave, CloseClient, CloseWait, Arrive, vars, calls
    <2>3. ~Crash
      BY DEF Crash
    <2> QED
      BY <2>1, <2>2, <2>3
  <1> QED
    BY <1>1, Inductive, PTL DEF Spec, CloseIsNoError
=============================================================================

----------------------- MODULE ConsumerLifecycle_proofs -----------------------
(* Proofs about ConsumerLifecycle, for any number of calls. *)
EXTENDS ConsumerLifecycle, TLAPS

\* A step of Start that leaves Close's state alone and adds to the wait group
\* only late calls keeps the invariant, if it keeps the types.
LEMMA StarterFrame ==
    ASSUME IInv, TypeOK', UNCHANGED <<closed, group, closer>>, late \subseteq late',
           (\E c \in Closers : Waited(c)) => wg' \subseteq wg \cup late'
    PROVE  IInv'
  <1>1. \A c \in Closers : Waited(c)' <=> Waited(c)
    BY DEF Waited
  <1> QED
    BY <1>1 DEF IInv

\* The steps of a call of Start preserve the invariant: the wait group
\* follows the calls in the loop, and who joins it after Close waited is late.
LEMMA StarterStepInv ==
    ASSUME IInv, NEW s \in Starters, Cancel(s) \/ StarterStep(s)
    PROVE  IInv'
  <1>1. UNCHANGED <<closed, group, closer>>
    BY DEF Cancel, StarterStep, StartCheck, StartAdd, LoopTop, OpenSession,
           ConsumeFails, EndSession
  <1>2. TypeOK
    BY DEF IInv
  <1>3. CASE Cancel(s)
    <2>1. TypeOK'
      BY <1>2, <1>3 DEF Cancel, TypeOK
    <2> QED
      BY <1>1, <1>3, <2>1, StarterFrame DEF Cancel
  <1>4. ASSUME NEW next \in {"loop", "consume", "session"}, Continue(s, next),
               s \in wg, ctxDone' = ctxDone, late' = late
        PROVE  IInv'
    <2>1. TypeOK'
      BY <1>1, <1>2, <1>4 DEF TypeOK, Continue, StarterStates
    <2> QED
      BY <1>1, <1>4, <2>1, StarterFrame DEF Continue
  <1>5. ASSUME StartReturn(s), ctxDone' = ctxDone, late' = late
        PROVE  IInv'
    <2>1. TypeOK'
      BY <1>1, <1>2, <1>5 DEF TypeOK, StartReturn, StarterStates
    <2> QED
      BY <1>1, <1>5, <2>1, StarterFrame DEF StartReturn
  <1>6. CASE StartCheck(s)
    <2>1. PICK x \in {"returned", "checked"} : starter' = [starter EXCEPT ![s] = x]
      BY <1>6 DEF StartCheck
    <2>2. TypeOK'
      BY <1>2, <1>6, <2>1 DEF TypeOK, StartCheck, StarterStates
    <2> QED
      BY <1>1, <1>6, <2>2, StarterFrame DEF StartCheck
  <1>7. CASE StartAdd(s)
    <2>1. TypeOK'
      BY <1>1, <1>2, <1>7 DEF TypeOK, StartAdd, StarterStates
    <2>2. (\E c \in Closers : Waited(c)) => wg' \subseteq wg \cup late'
      BY <1>7 DEF StartAdd
    <2>3. late \subseteq late'
      BY <1>7 DEF StartAdd
    <2> QED
      BY <1>1, <2>1, <2>2, <2>3, StarterFrame
  <1>8. CASE LoopTop(s)
    BY <1>2, <1>4, <1>5, <1>8 DEF LoopTop, ConsumeError, TypeOK
  <1>9. CASE OpenSession(s)
    BY <1>2, <1>4, <1>9 DEF OpenSession, TypeOK
  <1>10. CASE ConsumeFails(s)
    BY <1>2, <1>4, <1>5, <1>10 DEF ConsumeFails, ConsumeError, TypeOK
  <1>11. CASE EndSession(s)
    BY <1>2, <1>4, <1>5, <1>11 DEF EndSession, ConsumeError, TypeOK
  <1> QED
    BY <1>3, <1>6, <1>7, <1>8, <1>9, <1>10, <1>11 DEF StarterStep

\* So do the steps of a call of Close: the first one alone gets past the
\* flag, and past the wait only when the wait group is empty.
LEMMA CloserStepInv ==
    ASSUME IInv, NEW c \in Closers, CloserStep(c)
    PROVE  IInv'
  <1>1. UNCHANGED <<wg, ctxDone, starter, late>>
    BY DEF CloserStep, CloseFlag, CloseWait, CloseGroup, CloseLeave, CloseClient
  <1>2. TypeOK
    BY DEF IInv
  <1>3. TypeOK'
    <2>1. closer' \in [Closers -> CloserStates]
      BY <1>2 DEF CloserStep, CloseFlag, CloseWait, CloseGroup, CloseLeave,
             CloseClient, TypeOK, CloserStates
    <2>2. closed' \in BOOLEAN /\ group' \in {"open", "closing", "closed"}
      BY <1>2 DEF CloserStep, CloseFlag, CloseWait, CloseGroup, CloseLeave,
             CloseClient, TypeOK
    <2> QED
      BY <1>1, <1>2, <2>1, <2>2 DEF TypeOK
  <1>4. \A d \in Closers : d # c => closer'[d] = closer[d]
    BY <1>2 DEF CloserStep, CloseFlag, CloseWait, CloseGroup, CloseLeave,
           CloseClient, TypeOK
  <1>5. CASE CloseFlag(c)
    <2>1. closer[c] = "idle" /\ closed' = TRUE /\ group' = group
      BY <1>5 DEF CloseFlag
    <2>2. CASE closed
      <3>1. closer'[c] = "early"
        BY <1>2, <1>5, <2>2 DEF CloseFlag, TypeOK
      <3> QED
        BY <1>1, <1>3, <1>4, <2>1, <2>2, <3>1 DEF IInv, Waited
    <2>3. CASE ~closed
      <3>1. closer'[c] = "wait"
        BY <1>2, <1>5, <2>3 DEF CloseFlag, TypeOK
      <3>2. \A d \in Closers : closer[d] = "idle"
        BY <2>3 DEF IInv
      <3> QED
        BY <1>1, <1>3, <1>4, <2>1, <3>1, <3>2 DEF IInv, Waited
    <2> QED
      BY <2>2, <2>3
  <1>6. ASSUME closer[c] \notin {"idle", "early"}
        PROVE  \A d \in Closers : closer'[d] \notin {"idle", "early"} => d = c
    BY <1>4, <1>6 DEF IInv
  <1>7. CASE CloseWait(c)
    <2>1. closer[c] = "wait" /\ closer'[c] = "close" /\ wg = {}
          /\ UNCHANGED <<closed, group>>
      BY <1>2, <1>7 DEF CloseWait, TypeOK
    <2> QED
      BY <1>1, <1>3, <1>4, <1>6, <2>1 DEF IInv, Waited
  <1>8. CASE CloseGroup(c)
    <2>1. closer[c] = "close" /\ closer'[c] = "leave" /\ group' = "closing"
          /\ UNCHANGED closed
      BY <1>2, <1>8 DEF CloseGroup, TypeOK
    <2> QED
      BY <1>1, <1>3, <1>4, <1>6, <2>1 DEF IInv, Waited
  <1>9. CASE CloseLeave(c)
    <2>1. closer[c] = "leave" /\ closer'[c] = "client" /\ UNCHANGED <<closed, group>>
      BY <1>2, <1>9 DEF CloseLeave, TypeOK
    <2> QED
      BY <1>1, <1>3, <1>4, <1>6, <2>1 DEF IInv, Waited
  <1>10. CASE CloseClient(c)
    <2>1. closer[c] = "client" /\ closer'[c] = "returned" /\ group' = "closed"
          /\ UNCHANGED closed
      BY <1>2, <1>10 DEF CloseClient, TypeOK
    <2> QED
      BY <1>1, <1>3, <1>4, <1>6, <2>1 DEF IInv, Waited
  <1> QED
    BY <1>5, <1>7, <1>8, <1>9, <1>10 DEF CloserStep

\* The wait group counts the loops, one call closes the group, and whoever is
\* in the wait group after it waited is late, whatever calls of Start and
\* Close race (Start, Close in consumer.go).
THEOREM Inductive == Spec => []IInv
  <1>1. Init => IInv
    <2> SUFFICES ASSUME Init PROVE IInv
      OBVIOUS
    <2>1. TypeOK
      BY DEF Init, TypeOK, StarterStates, CloserStates
    <2>2. \A c \in Closers : closer[c] = "idle"
      BY DEF Init
    <2> QED
      BY <2>1, <2>2 DEF IInv, Waited
  <1>2. IInv /\ [Next]_vars => IInv'
    <2> SUFFICES ASSUME IInv, [Next]_vars PROVE IInv'
      OBVIOUS
    <2>1. CASE UNCHANGED vars
      BY <2>1 DEF IInv, TypeOK, Waited, vars
    <2> QED
      BY <2>1, StarterStepInv, CloserStepInv DEF Next
  <1> QED
    BY <1>1, <1>2, PTL DEF Spec

\* When the call of Close that closes the consumer has returned, only handlers
\* of late calls of Start may still run, whatever calls race with it: every
\* call that had joined the wait group when Close waited is over.
THEOREM CloseWaitsForHandlers == Spec => []CloseDrains
  <1>1. IInv => CloseDrains
    <2> SUFFICES ASSUME IInv, NEW c \in Closers, closer[c] = "returned"
                 PROVE  InSession \subseteq late
      BY DEF CloseDrains
    <2>1. wg \subseteq late
      BY DEF IInv, Waited
    <2>2. InSession \subseteq wg
      BY DEF IInv, TypeOK, InSession
    <2> QED
      BY <2>1, <2>2
  <1> QED
    BY <1>1, Inductive, PTL
=============================================================================

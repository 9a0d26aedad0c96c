-------------------------- MODULE ConsumerLifecycle --------------------------
(***************************************************************************)
(* Start and Close of one consumer.Consumer, called by several goroutines: *)
(* the closed flag under its mutex, the wait group that counts the consume *)
(* loops, and the sarama consumer group under them.  A call of Start has   *)
(* its own context.  What a session does with messages is ConsumerGroup.   *)
(*                                                                         *)
(* (external) sarama: Consume refuses a group that is being closed, else   *)
(* takes the group's lock and holds it for as long as its session lasts; a *)
(* session lasts until its context is done, the group is being closed, or  *)
(* a rebalance.  Closing the group takes the lock to leave it, and closes  *)
(* its client afterwards.                                                  *)
(***************************************************************************)
EXTENDS FiniteSets

CONSTANTS
    Starters,   \* calls of Start
    Closers     \* calls of Close

VARIABLES
    closed,     \* Consumer.closed
    wg,         \* the calls of Start counted by Consumer.wg
    group,      \* the sarama group: "open", "closing", "closed" (external)
    ctxDone,    \* the calls of Start whose context is done
    starter,    \* starter[s]: where the call s of Start is
    closer,     \* closer[c]: where the call c of Close is
    late        \* history: the calls of Start that joined wg after wg.Wait

vars == <<closed, wg, group, ctxDone, starter, closer, late>>

StarterStates == {"idle", "checked", "loop", "consume", "session", "returned"}

\* "early": returned because another call had set closed.
CloserStates == {"idle", "wait", "close", "leave", "client", "returned", "early"}

InSession == {s \in Starters : starter[s] = "session"}

Init ==
    /\ closed = FALSE
    /\ wg = {}
    /\ group = "open"
    /\ ctxDone = {}
    /\ starter = [s \in Starters |-> "idle"]
    /\ closer = [c \in Closers |-> "idle"]
    /\ late = {}

-----------------------------------------------------------------------------
(* Start. *)

\* The caller cancels the context of s.
Cancel(s) ==
    /\ s \notin ctxDone
    /\ ctxDone' = ctxDone \cup {s}
    /\ UNCHANGED <<closed, wg, group, starter, closer, late>>

\* The closed flag is read under the read lock, which is then released.
StartCheck(s) ==
    /\ starter[s] = "idle"
    /\ starter' = [starter EXCEPT ![s] = IF closed THEN "returned" ELSE "checked"]
    /\ UNCHANGED <<closed, wg, group, ctxDone, closer, late>>

\* The call of Close is past wg.Wait.
Waited(c) == closer[c] \in {"close", "leave", "client", "returned"}

\* Bug: wg.Add is forgotten.
StartAdd_Uncounted(s) ==
    /\ starter[s] = "checked"
    /\ starter' = [starter EXCEPT ![s] = "loop"]
    /\ late' = IF \E c \in Closers : Waited(c) THEN late \cup {s} ELSE late
    /\ UNCHANGED <<closed, wg, group, ctxDone, closer>>

\* wg.Add(1), after the lock was released.
StartAdd(s) ==
    /\ starter[s] = "checked"
    /\ wg' = wg \cup {s}
    /\ starter' = [starter EXCEPT ![s] = "loop"]
    /\ late' = IF \E c \in Closers : Waited(c) THEN late \cup {s} ELSE late
    /\ UNCHANGED <<closed, group, ctxDone, closer>>

\* Start returns; the deferred wg.Done runs.
StartReturn(s) ==
    /\ starter' = [starter EXCEPT ![s] = "returned"]
    /\ wg' = wg \ {s}

Continue(s, next) ==
    /\ starter' = [starter EXCEPT ![s] = next]
    /\ UNCHANGED wg

\* Bug: the wait group is not told of a return.
ConsumeError_NoDone(s) ==
    /\ starter' = [starter EXCEPT ![s] = IF s \in ctxDone THEN "returned" ELSE "loop"]
    /\ UNCHANGED wg

\* Consume returned an error: Start returns if its context is done.
ConsumeError(s) == IF s \in ctxDone THEN StartReturn(s) ELSE Continue(s, "loop")

\* Bug: the loop does not look at its context.
LoopTop_NoCtx(s) ==
    /\ starter[s] = "loop"
    /\ Continue(s, "consume")
    /\ UNCHANGED <<closed, group, ctxDone, closer, late>>

\* The select at the top of the loop; (external) then Consume looks whether
\* the group is being closed, and if not waits for its lock.
LoopTop(s) ==
    /\ starter[s] = "loop"
    /\ CASE s \in ctxDone -> StartReturn(s)
         [] s \notin ctxDone /\ group # "open" -> ConsumeError(s)
         [] OTHER -> Continue(s, "consume")
    /\ UNCHANGED <<closed, group, ctxDone, closer, late>>

\* (external) Consume has the lock and opens a session, even if the group is
\* being closed meanwhile.
OpenSession(s) ==
    /\ starter[s] = "consume"
    /\ group # "closed" /\ InSession = {}
    /\ Continue(s, "session")
    /\ UNCHANGED <<closed, group, ctxDone, closer, late>>

\* Consume has the lock and fails: the group's client is closed, or a broker
\* answered with an error.
ConsumeFails(s) ==
    /\ starter[s] = "consume"
    /\ InSession = {}
    /\ ConsumeError(s)
    /\ UNCHANGED <<closed, group, ctxDone, closer, late>>

\* Consume returns after its session, when the claims have returned, with
\* or without an error.
EndSession(s) ==
    /\ starter[s] = "session"
    /\ ConsumeError(s) \/ Continue(s, "loop")
    /\ UNCHANGED <<closed, group, ctxDone, closer, late>>

-----------------------------------------------------------------------------
(* Close. *)

\* The flag is set under the lock by the first call; others return nil.
CloseFlag(c) ==
    /\ closer[c] = "idle"
    /\ closed' = TRUE
    /\ closer' = [closer EXCEPT ![c] = IF closed THEN "early" ELSE "wait"]
    /\ UNCHANGED <<wg, group, ctxDone, starter, late>>

\* Bug: Close returns when the loops have, and leaves the group open.
CloseWait_Return(c) ==
    /\ closer[c] = "wait"
    /\ wg = {}
    /\ closer' = [closer EXCEPT ![c] = "returned"]
    /\ UNCHANGED <<closed, wg, group, ctxDone, starter, late>>

\* wg.Wait returns.
CloseWait(c) ==
    /\ closer[c] = "wait"
    /\ wg = {}
    /\ closer' = [closer EXCEPT ![c] = "close"]
    /\ UNCHANGED <<closed, wg, group, ctxDone, starter, late>>

\* client.Close(): sessions are told to end, and none is to begin ...
CloseGroup(c) ==
    /\ closer[c] = "close"
    /\ group' = "closing"
    /\ closer' = [closer EXCEPT ![c] = "leave"]
    /\ UNCHANGED <<closed, wg, ctxDone, starter, late>>

\* ... (external) the group is left, for which it takes the lock ...
CloseLeave(c) ==
    /\ closer[c] = "leave"
    /\ InSession = {}
    /\ closer' = [closer EXCEPT ![c] = "client"]
    /\ UNCHANGED <<closed, wg, group, ctxDone, starter, late>>

\* ... and its client closed, without the lock.  Close then returns, with or
\* without an error.
CloseClient(c) ==
    /\ closer[c] = "client"
    /\ group' = "closed"
    /\ closer' = [closer EXCEPT ![c] = "returned"]
    /\ UNCHANGED <<closed, wg, ctxDone, starter, late>>

-----------------------------------------------------------------------------

StarterStep(s) ==
    \/ StartCheck(s)
    \/ StartAdd(s)
    \/ LoopTop(s)
    \/ OpenSession(s)
    \/ ConsumeFails(s)
    \/ EndSession(s)

CloserStep(c) ==
    \/ CloseFlag(c)
    \/ CloseWait(c)
    \/ CloseGroup(c)
    \/ CloseLeave(c)
    \/ CloseClient(c)

Next ==
    \/ \E s \in Starters : Cancel(s) \/ StarterStep(s)
    \/ \E c \in Closers : CloserStep(c)

Spec == Init /\ [][Next]_vars

(* Goroutines are scheduled and Consume answers; handlers return, so a      *)
(* session ends once its context is done or the group being closed. Nothing *)
(* makes a caller call Start or Close or cancel, and no rebalance is due.   *)
MustEnd(s) == (s \in ctxDone \/ group # "open") /\ EndSession(s)

Fairness ==
    /\ \A s \in Starters :
          /\ WF_vars(StartAdd(s))
          /\ WF_vars(LoopTop(s))
          /\ WF_vars(OpenSession(s) \/ ConsumeFails(s))
          /\ WF_vars(MustEnd(s))
    /\ \A c \in Closers : WF_vars(\/ CloseWait(c) \/ CloseGroup(c)
                                    \/ CloseLeave(c) \/ CloseClient(c))

FairSpec == Spec /\ Fairness

-----------------------------------------------------------------------------
(* Properties. *)

\* Types; the wait group counts the calls of Start that are in the loop, and
\* a Consume holds the group's lock alone.
TypeOK ==
    /\ closed \in BOOLEAN
    /\ wg = {s \in Starters : starter[s] \in {"loop", "consume", "session"}}
    /\ group \in {"open", "closing", "closed"}
    /\ ctxDone \subseteq Starters
    /\ starter \in [Starters -> StarterStates]
    /\ closer \in [Closers -> CloserStates]
    /\ late \subseteq Starters

\* When the call of Close that closes the consumer has returned, the only
\* handlers that may still run are those of a Start that read the closed flag
\* before Close set it and joined the wait group after Close had waited.
CloseDrains ==
    (\E c \in Closers : closer[c] = "returned") => InSession \subseteq late

\* Even these are soon over: some time after Close has returned, no handler
\* runs any more, and none ever will, whatever the contexts of the calls.
CloseStopsHandlers ==
    (\E c \in Closers : closer[c] = "returned") ~> [](InSession = {})

\* The pattern of the documentation, cancel and then Close, always gets
\* through: once every context is done, every Start and Close returns.
CancelThenClose ==
    /\ \A s \in Starters :
          ctxDone = Starters /\ starter[s] # "idle" ~> starter[s] = "returned"
    /\ \A c \in Closers :
          ctxDone = Starters /\ closer[c] # "idle" ~> closer[c] \in {"returned", "early"}

\* Why CloseDrains holds: once a call of Close has waited, the wait group has
\* late calls only; and one call at most closes the group, step by step.
IInv ==
    /\ TypeOK
    /\ \A c \in Closers : closer[c] # "idle" => closed
    /\ \A c, d \in Closers :
          closer[c] \notin {"idle", "early"} /\ closer[d] \notin {"idle", "early"} => c = d
    /\ \A c \in Closers :
          /\ Waited(c) => wg \subseteq late
          /\ closer[c] \in {"leave", "client"} => group = "closing"
          /\ closer[c] = "returned" => group = "closed"

-----------------------------------------------------------------------------
(* What the documentation says and the run "lifecycle_close_hangs" refutes.  *)

\* "This method blocks until the context is cancelled or Close is called":
\* Start returns once Close is called.
CloseStopsStart ==
    \A s \in Starters :
        closed /\ starter[s] # "idle" ~> starter[s] = "returned"
=============================================================================

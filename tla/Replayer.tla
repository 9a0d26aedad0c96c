------------------------------- MODULE Replayer -------------------------------
(***************************************************************************)
(* dlq.Replayer: concurrent calls of ReplayWithFilter and Close on one     *)
(* replayer, the messages of the DLQ topic that its sessions replay while  *)
(* others arrive, the statistics, the offsets, and the death and restart   *)
(* of the process.                                                         *)
(*                                                                         *)
(* (external) sarama: Consume refuses a group that is being closed, else   *)
(* takes the group's lock and holds it while its session lasts, so one     *)
(* call of ReplayWithFilter at a time has a session, and it claims every   *)
(* partition.  A session ends when its context is done, the group is being *)
(* closed, a ConsumeClaim returns, or on a rebalance; it returns after     *)
(* every ConsumeClaim.                                                     *)
(***************************************************************************)
EXTENDS Integers, Sequences, FiniteSets

CONSTANTS
    Loops,              \* calls of ReplayWithFilter
    Filtering,          \* those with a filter, which matches "wanted" only
    Closers,            \* calls of Close
    Partitions,         \* partitions of the DLQ topic
    EnableAutoCommit,   \* consumer.Config.EnableAutoCommit
    OffsetReset,        \* consumer.Config.OffsetReset
    MaxLog,             \* bound: DLQ messages per partition
    MaxFaults           \* bound: handler errors, rebalances, lost commits,
                        \* crashes

ASSUME ReplayerAssumption ==
    /\ Filtering \subseteq Loops
    /\ IsFiniteSet(Partitions)
    /\ EnableAutoCommit \in BOOLEAN
    /\ OffsetReset \in {"earliest", "latest"}
    /\ MaxLog \in Nat
    /\ MaxFaults \in Nat

VARIABLES
    closed,     \* Replayer.closed
    wg,         \* the calls counted by Replayer.wg
    group,      \* the sarama group: "open", "closing", "closed" (external)
    ctxDone,    \* the calls whose context is done
    loop,       \* loop[l]: where the call l is
    result,     \* result[l]: what it returned
    closer,     \* closer[c]: where the call c of Close is
    stats,      \* Replayer.stats
    log,        \* log[p]: the messages of the DLQ topic (external)
    committed,  \* committed[p]: the group's committed offset, -1 if none (external)
    claim,      \* claim[p]: where the session's ConsumeClaim of p is
    pos,        \* pos[p]: offset of the message being or next processed
    marked,     \* marked[p]: offset marked in the session, -1 if none
    ended,      \* the session was cancelled by a claim or a rebalance
    replays,    \* replays[p][o]: how often the handler replayed message o
    disposed,   \* disposed[p]: offsets replayed or skipped
    faults,     \* disturbances used up, at most MaxFaults
    faulted     \* a crash or a failed last commit of a session happened

calls == <<closed, wg, group, ctxDone, loop, result, closer>>
data == <<stats, committed, claim, pos, marked, ended, replays, disposed,
          faults, faulted>>
vars == <<calls, log, data>>

\* What a DLQ record may hold: an envelope that a filter wants or not, or
\* none that decodes.
Kinds == {"wanted", "unwanted", "unusable"}
Offsets == 0 .. MaxLog - 1

Init ==
    /\ closed = FALSE
    /\ wg = {}
    /\ group = "open"
    /\ ctxDone = {}
    /\ loop = [l \in Loops |-> "idle"]
    /\ result = [l \in Loops |-> "none"]
    /\ closer = [c \in Closers |-> "idle"]
    /\ stats = [Consumed |-> 0, Replayed |-> 0, Skipped |-> 0, Failed |-> 0]
    /\ log = [p \in Partitions |-> <<>>]
    /\ committed = [p \in Partitions |-> -1]
    /\ claim = [p \in Partitions |-> "none"]
    /\ pos = [p \in Partitions |-> 0]
    /\ marked = [p \in Partitions |-> -1]
    /\ ended = FALSE
    /\ replays = [p \in Partitions |-> [o \in Offsets |-> 0]]
    /\ disposed = [p \in Partitions |-> {}]
    /\ faults = 0
    /\ faulted = FALSE

Fault ==
    /\ faults < MaxFaults
    /\ faults' = faults + 1

\* (external) A consumer's DLQ handler, or anyone, appends a record.
Arrive(p, kind) ==
    /\ Len(log[p]) < MaxLog
    /\ log' = [log EXCEPT ![p] = Append(@, kind)]
    /\ UNCHANGED <<calls, data>>

ForgetClaims ==
    /\ claim' = [p \in Partitions |-> "none"]
    /\ pos' = [p \in Partitions |-> 0]
    /\ marked' = [p \in Partitions |-> -1]
    /\ ended' = FALSE

\* The process dies and is started again, with a new replayer: a crash, or a
\* panic of the replay handler or the filter, which nothing recovers.
Crash ==
    /\ Fault
    /\ faulted' = TRUE
    /\ closed' = FALSE
    /\ wg' = {}
    /\ group' = "open"
    /\ ctxDone' = {}
    /\ loop' = [l \in Loops |-> "idle"]
    /\ result' = [l \in Loops |-> "none"]
    /\ closer' = [c \in Closers |-> "idle"]
    /\ stats' = [Consumed |-> 0, Replayed |-> 0, Skipped |-> 0, Failed |-> 0]
    /\ ForgetClaims
    /\ UNCHANGED <<log, committed, replays, disposed>>

-----------------------------------------------------------------------------
(* ReplayWithFilter. *)

InSession == {l \in Loops : loop[l] = "session"}

\* The session is over for its claims.
SessionDone ==
    \/ ended
    \/ group # "open"
    \/ InSession \cap ctxDone # {}

\* The caller cancels the context of l, which tells nothing to a call that has
\* returned.
Cancel(l) ==
    /\ l \notin ctxDone /\ loop[l] # "returned"
    /\ ctxDone' = ctxDone \cup {l}
    /\ UNCHANGED <<closed, wg, group, loop, result, closer, log, data>>

\* The call returns, and its deferred wg.Done runs.
Return(l, r) ==
    /\ loop' = [loop EXCEPT ![l] = "returned"]
    /\ result' = [result EXCEPT ![l] = r]
    /\ wg' = wg \ {l}

\* Bug: the wait group is not told of the call.
Enter_NoAdd(l) ==
    /\ loop[l] = "idle"
    /\ IF closed
       THEN Return(l, "ErrReplayerClosed")
       ELSE /\ loop' = [loop EXCEPT ![l] = "loop"]
            /\ UNCHANGED <<wg, result>>
    /\ UNCHANGED <<closed, group, ctxDone, closer, log, data>>

\* closed is checked and wg.Add(1) done under one read lock.
Enter(l) ==
    /\ loop[l] = "idle"
    /\ IF closed
       THEN Return(l, "ErrReplayerClosed")
       ELSE /\ wg' = wg \cup {l}
            /\ loop' = [loop EXCEPT ![l] = "loop"]
            /\ UNCHANGED result
    /\ UNCHANGED <<closed, group, ctxDone, closer, log, data>>

\* Bug: an error is returned although it comes from Close.
ConsumeError_Report(l) == IF l \in ctxDone THEN Return(l, "cause") ELSE Return(l, "error")

\* What the call makes of an error of Consume.
ConsumeError(l) ==
    CASE l \in ctxDone -> Return(l, "cause")
      [] l \notin ctxDone /\ closed -> Return(l, "nil")
      [] OTHER -> Return(l, "error")

\* The context is looked at on top of the loop; (external) then Consume looks
\* whether the group is being closed, and if not waits for its lock.
LoopTop(l) ==
    /\ loop[l] = "loop"
    /\ CASE l \in ctxDone -> Return(l, "cause")
         [] l \notin ctxDone /\ group # "open" -> ConsumeError(l)
         [] OTHER -> loop' = [loop EXCEPT ![l] = "consume"] /\ UNCHANGED <<wg, result>>
    /\ UNCHANGED <<closed, group, ctxDone, closer, log, data>>

\* Bug: the committed offset is taken for the last message processed.
StartOffset_Skip(p) ==
    CASE committed[p] >= 0 -> committed[p] + 1
      [] committed[p] < 0 /\ OffsetReset = "latest" -> Len(log[p])
      [] OTHER -> 0

\* Where a claim starts: the committed offset, else where OffsetReset says.
StartOffset(p) ==
    CASE committed[p] >= 0 -> committed[p]
      [] committed[p] < 0 /\ OffsetReset = "latest" -> Len(log[p])
      [] OTHER -> 0

\* (external) Consume has the lock and opens a session, which claims every
\* partition, even if the group is being closed meanwhile.
OpenSession(l) ==
    /\ loop[l] = "consume"
    /\ group # "closed" /\ InSession = {}
    /\ loop' = [loop EXCEPT ![l] = "session"]
    /\ claim' = [p \in Partitions |-> "idle"]
    /\ pos' = [p \in Partitions |-> StartOffset(p)]
    /\ marked' = committed
    /\ ended' = FALSE
    /\ UNCHANGED <<closed, wg, group, ctxDone, result, closer, log, stats,
                   committed, replays, disposed, faults, faulted>>

\* Consume has the lock and fails: the group's client is closed, or a broker
\* answered with an error.
ConsumeFails(l) ==
    /\ loop[l] = "consume"
    /\ InSession = {}
    /\ ConsumeError(l)
    /\ UNCHANGED <<closed, group, ctxDone, closer, log, data>>

\* After a session, the call returns if the replayer was closed.
AfterSession(l) ==
    /\ loop[l] = "ended"
    /\ IF closed
       THEN Return(l, "nil")
       ELSE loop' = [loop EXCEPT ![l] = "loop"] /\ UNCHANGED <<wg, result>>
    /\ UNCHANGED <<closed, group, ctxDone, closer, log, data>>

-----------------------------------------------------------------------------
(* ConsumeClaim and processMessage, in the session of call l. *)

Message(p) == log[p][pos[p] + 1]

\* Bug: the count is updated without the lock, and may be lost to that of
\* another claim.
Receive_Unlocked(l, p) ==
    /\ loop[l] = "session"
    /\ claim[p] = "idle" /\ pos[p] < Len(log[p])
    /\ \/ stats' = [stats EXCEPT !.Consumed = @ + 1]
       \/ (\E q \in Partitions : claim[q] = "got") /\ UNCHANGED stats
    /\ claim' = [claim EXCEPT ![p] = "got"]
    /\ UNCHANGED <<calls, log, committed, pos, marked, ended, replays,
                   disposed, faults, faulted>>

\* The next message arrives and is counted, under the lock of the statistics.
Receive(l, p) ==
    /\ loop[l] = "session"
    /\ claim[p] = "idle" /\ pos[p] < Len(log[p])
    /\ stats' = [stats EXCEPT !.Consumed = @ + 1]
    /\ claim' = [claim EXCEPT ![p] = "got"]
    /\ UNCHANGED <<calls, log, committed, pos, marked, ended, replays,
                   disposed, faults, faulted>>

\* Bug: the message's own offset is marked.
Mark_Same(p) ==
    /\ marked' = [marked EXCEPT ![p] = pos[p]]
    /\ pos' = [pos EXCEPT ![p] = @ + 1]
    /\ claim' = [claim EXCEPT ![p] = "idle"]
    /\ disposed' = [disposed EXCEPT ![p] = @ \cup {pos[p]}]

\* session.MarkMessage, and on to the next message.
Mark(p) ==
    /\ marked' = [marked EXCEPT ![p] = pos[p] + 1]
    /\ pos' = [pos EXCEPT ![p] = @ + 1]
    /\ claim' = [claim EXCEPT ![p] = "idle"]
    /\ disposed' = [disposed EXCEPT ![p] = @ \cup {pos[p]}]

Skipped(l, p) ==
    \/ Message(p) = "unusable"
    \/ Message(p) = "unwanted" /\ l \in Filtering

\* Undecodable, without envelope, or not matched by the filter.
Skip(l, p) ==
    /\ loop[l] = "session" /\ claim[p] = "got"
    /\ Skipped(l, p)
    /\ stats' = [stats EXCEPT !.Skipped = @ + 1]
    /\ Mark(p)
    /\ UNCHANGED <<calls, log, committed, ended, replays, faults, faulted>>

\* The replay handler returns nil.
ReplaySucceeds(l, p) ==
    /\ loop[l] = "session" /\ claim[p] = "got"
    /\ ~Skipped(l, p)
    /\ stats' = [stats EXCEPT !.Replayed = @ + 1]
    /\ replays' = [replays EXCEPT ![p][pos[p]] = @ + 1]
    /\ Mark(p)
    /\ UNCHANGED <<calls, log, committed, ended, faults, faulted>>

\* Bug: the claim goes on after a failed message.
ReplayFails_GoOn(l, p) ==
    /\ loop[l] = "session" /\ claim[p] = "got"
    /\ ~Skipped(l, p)
    /\ Fault
    /\ stats' = [stats EXCEPT !.Failed = @ + 1]
    /\ claim' = [claim EXCEPT ![p] = "idle"]
    /\ pos' = [pos EXCEPT ![p] = @ + 1]
    /\ UNCHANGED <<calls, log, committed, marked, ended, replays, disposed, faulted>>

\* Bug: a message whose replay failed is marked like the others.
ReplayFails_Mark(l, p) ==
    /\ loop[l] = "session" /\ claim[p] = "got"
    /\ ~Skipped(l, p)
    /\ Fault
    /\ stats' = [stats EXCEPT !.Failed = @ + 1]
    /\ Mark(p)
    /\ UNCHANGED <<calls, log, committed, ended, replays, faulted>>

\* It returns an error: ConsumeClaim returns it, and (external) that cancels
\* the session.
ReplayFails(l, p) ==
    /\ loop[l] = "session" /\ claim[p] = "got"
    /\ ~Skipped(l, p)
    /\ Fault
    /\ stats' = [stats EXCEPT !.Failed = @ + 1]
    /\ claim' = [claim EXCEPT ![p] = "done"]
    /\ ended' = TRUE
    /\ UNCHANGED <<calls, log, committed, pos, marked, replays, disposed, faulted>>

\* (external) A rebalance ends the session.
SessionRebalance(l) ==
    /\ loop[l] = "session" /\ ~ended
    /\ Fault
    /\ ended' = TRUE
    /\ UNCHANGED <<calls, log, stats, committed, claim, pos, marked, replays,
                   disposed, faulted>>

\* The claim's channel is closed once the session is over.
EndClaim(l, p) ==
    /\ loop[l] = "session" /\ claim[p] = "idle"
    /\ SessionDone
    /\ claim' = [claim EXCEPT ![p] = "done"]
    /\ UNCHANGED <<calls, log, stats, committed, pos, marked, ended, replays,
                   disposed, faults, faulted>>

\* (external) The periodic commit of the session, when auto-commit is on.
AutoCommit(l, p) ==
    /\ EnableAutoCommit
    /\ loop[l] = "session"
    /\ marked[p] >= 0 /\ marked[p] # committed[p]
    /\ committed' = [committed EXCEPT ![p] = marked[p]]
    /\ UNCHANGED <<calls, log, stats, claim, pos, marked, ended, replays,
                   disposed, faults, faulted>>

\* (external) Consume returns nil after the last claim; what is marked is
\* committed if auto-commit is on, unless the commit fails.
EndSession(l) ==
    /\ loop[l] = "session"
    /\ \A p \in Partitions : claim[p] = "done"
    /\ LET dirty == {p \in Partitions : /\ EnableAutoCommit
                                        /\ marked[p] >= 0
                                        /\ marked[p] # committed[p]}
       IN  \E flushed \in SUBSET dirty :
              /\ committed' = [p \in Partitions |->
                    IF p \in flushed THEN marked[p] ELSE committed[p]]
              /\ IF flushed = dirty THEN UNCHANGED <<faults, faulted>>
                                    ELSE Fault /\ faulted' = TRUE
    /\ loop' = [loop EXCEPT ![l] = "ended"]
    /\ ForgetClaims
    /\ UNCHANGED <<closed, wg, group, ctxDone, result, closer, log, stats,
                   replays, disposed>>

-----------------------------------------------------------------------------
(* Close. *)

\* The first call sets closed; the others return nil.
CloseFlag(c) ==
    /\ closer[c] = "idle"
    /\ closed' = TRUE
    /\ closer' = [closer EXCEPT ![c] = IF closed THEN "early" ELSE "close"]
    /\ UNCHANGED <<wg, group, ctxDone, loop, result, log, data>>

\* Bug: the loops are waited for before the group is closed.
CloseGroup_WaitFirst(c) ==
    /\ closer[c] = "close"
    /\ wg = {}
    /\ group' = "closed"
    /\ closer' = [closer EXCEPT ![c] = "wait"]
    /\ UNCHANGED <<closed, wg, ctxDone, loop, result, log, data>>

\* consumerGroup.Close(): sessions are told to end, and none is to begin ...
CloseGroup(c) ==
    /\ closer[c] = "close"
    /\ group' = "closing"
    /\ closer' = [closer EXCEPT ![c] = "leave"]
    /\ UNCHANGED <<closed, wg, ctxDone, loop, result, log, data>>

\* ... (external) the group is left, for which it takes the lock ...
CloseLeave(c) ==
    /\ closer[c] = "leave"
    /\ InSession = {}
    /\ closer' = [closer EXCEPT ![c] = "client"]
    /\ UNCHANGED <<closed, wg, group, ctxDone, loop, result, log, data>>

\* ... and then its client closed, without the lock.
CloseClient(c) ==
    /\ closer[c] = "client"
    /\ group' = "closed"
    /\ closer' = [closer EXCEPT ![c] = "wait"]
    /\ UNCHANGED <<closed, wg, ctxDone, loop, result, log, data>>

\* wg.Wait returns, and Close.
CloseWait(c) ==
    /\ closer[c] = "wait"
    /\ wg = {}
    /\ closer' = [closer EXCEPT ![c] = "returned"]
    /\ UNCHANGED <<closed, wg, group, ctxDone, loop, result, log, data>>

-----------------------------------------------------------------------------

ClaimStep(l, p) ==
    \/ Receive(l, p)
    \/ Skip(l, p)
    \/ ReplaySucceeds(l, p)
    \/ ReplayFails(l, p)
    \/ EndClaim(l, p)
    \/ AutoCommit(l, p)

LoopStep(l) ==
    \/ Cancel(l)
    \/ Enter(l)
    \/ LoopTop(l)
    \/ OpenSession(l)
    \/ ConsumeFails(l)
    \/ SessionRebalance(l)
    \/ EndSession(l)
    \/ AfterSession(l)

CloserStep(c) ==
    \/ CloseFlag(c)
    \/ CloseGroup(c)
    \/ CloseLeave(c)
    \/ CloseClient(c)
    \/ CloseWait(c)

Next ==
    \/ \E l \in Loops : LoopStep(l) \/ \E p \in Partitions : ClaimStep(l, p)
    \/ \E c \in Closers : CloserStep(c)
    \/ \E p \in Partitions, kind \in Kinds : Arrive(p, kind)
    \/ Crash

Spec == Init /\ [][Next]_vars

(* Goroutines are scheduled, Consume answers and replay handlers return:    *)
(* each call goes on, and so does each claim of the session.  Nothing makes *)
(* a caller call Replay or Close or cancel a context.                       *)
Fairness ==
    /\ \A l \in Loops :
          WF_vars(\/ LoopTop(l) \/ OpenSession(l) \/ ConsumeFails(l)
                  \/ EndSession(l) \/ AfterSession(l))
    /\ \A p \in Partitions :
          WF_vars(\E l \in Loops :
                     \/ Receive(l, p) \/ EndClaim(l, p)
                     \/ Skip(l, p) \/ ReplaySucceeds(l, p) \/ ReplayFails(l, p))
    /\ \A c \in Closers :
          WF_vars(CloseGroup(c) \/ CloseLeave(c) \/ CloseClient(c) \/ CloseWait(c))

FairSpec == Spec /\ Fairness

-----------------------------------------------------------------------------
(* Properties. *)

\* Types of the variables.
TypeOK ==
    /\ closed \in BOOLEAN
    /\ wg \subseteq Loops
    /\ group \in {"open", "closing", "closed"}
    /\ ctxDone \subseteq Loops
    /\ loop \in [Loops -> {"idle", "loop", "consume", "session", "ended", "returned"}]
    /\ result \in [Loops -> {"none", "nil", "cause", "error", "ErrReplayerClosed"}]
    /\ closer \in [Closers -> {"idle", "close", "leave", "client", "wait",
                               "returned", "early"}]
    /\ stats \in [Consumed : Nat, Replayed : Nat, Skipped : Nat, Failed : Nat]
    /\ log \in [Partitions -> Seq(Kinds)]
    /\ committed \in [Partitions -> Nat \cup {-1}]
    /\ claim \in [Partitions -> {"none", "idle", "got", "done"}]
    /\ pos \in [Partitions -> Nat]
    /\ marked \in [Partitions -> Nat \cup {-1}]
    /\ replays \in [Partitions -> [Offsets -> Nat]]
    /\ disposed \in [Partitions -> SUBSET Offsets]
    /\ faults \in 0 .. MaxFaults
    /\ ended \in BOOLEAN
    /\ faulted \in BOOLEAN

\* The wait group counts the calls that may consume, and no other.
Counted ==
    wg = {l \in Loops : loop[l] \in {"loop", "consume", "session", "ended"}}

\* One session at a time has all the claims there are.
OneSession ==
    /\ \A l, k \in InSession : l = k
    /\ \A p \in Partitions : claim[p] # "none" <=> InSession # {}

\* How far a call of Close is, the group and the loops tell the same.
CloseProgress ==
    /\ group # "open" => closed
    /\ \A c \in Closers :
          /\ closer[c] # "idle" => closed
          /\ closer[c] \in {"leave", "client", "wait", "returned"} => group # "open"
          /\ closer[c] = "returned" => wg = {}

\* A claim marks every message it passes, and passes none that is neither
\* replayed nor skipped.
InOrder ==
    \A p \in Partitions :
        /\ Len(log[p]) <= MaxLog
        /\ committed[p] <= Len(log[p])
        /\ disposed[p] \subseteq 0 .. Len(log[p]) - 1
        /\ claim[p] # "none" =>
              /\ committed[p] <= marked[p]
              /\ marked[p] = pos[p] \/ marked[p] = -1
              /\ pos[p] <= Len(log[p])
              /\ claim[p] = "got" => pos[p] < Len(log[p])

\* What is committed, and what a claim has passed, is disposed of.
Prefix ==
    OffsetReset = "earliest" =>
        \A p \in Partitions :
            /\ 0 .. committed[p] - 1 \subseteq disposed[p]
            /\ claim[p] # "none" => 0 .. pos[p] - 1 \subseteq disposed[p]

\* The inductive invariant: calls, sessions, claims and offsets agree between
\* the steps of every goroutine of the replayer.
IInv == TypeOK /\ Counted /\ OneSession /\ CloseProgress /\ InOrder /\ Prefix

\* The statistics add up while claims count concurrently: a consumed message
\* is replayed, skipped, failed or in the hands of a claim.
StatsConserved ==
    stats.Consumed = stats.Replayed + stats.Skipped + stats.Failed
                        + Cardinality({p \in Partitions : claim[p] = "got"})

\* Messages are disposed of in order, and a commit covers disposed ones only:
\* a message whose replay failed is neither committed nor overtaken by a later
\* one of its partition, in this session, the next, or after a crash.
ALO == INSTANCE AtLeastOnce WITH Values <- Kinds, settled <- disposed

ImplementsAtLeastOnce == ALO!Spec

\* The failure of one message makes no other one be replayed twice: with
\* auto-commit that takes a crash or a last commit that fails.
ReplayedOnce ==
    EnableAutoCommit /\ ~faulted =>
        \A p \in Partitions : \A o \in Offsets : replays[p][o] <= 1

\* No message of p is replayed from offset n on.
FreshFrom(p, n) == \A o \in Offsets : o >= n => replays[p][o] = 0

\* Why no message is replayed twice: what is ahead of a claim, or of the next
\* one if there is none, was not replayed.
ReplayInv ==
    EnableAutoCommit /\ ~faulted =>
        \A p \in Partitions :
            /\ \A o \in Offsets : replays[p][o] <= 1
            /\ FreshFrom(p, Len(log[p]))
            /\ claim[p] = "none" => FreshFrom(p, StartOffset(p))
            /\ claim[p] # "none" =>
                  /\ FreshFrom(p, pos[p])
                  /\ marked[p] = -1 /\ OffsetReset = "earliest" => pos[p] = 0

\* The call of Close that closes the replayer returns only when no call of
\* ReplayWithFilter runs, and none starts to consume after it.
CloseWaitsForLoops ==
    (\E c \in Closers : closer[c] = "returned") =>
        \A l \in Loops : loop[l] \in {"idle", "returned"}

\* A call that Close stops does not report the error of the closed group.
CloseIsNoError ==
    [][\A l \in Loops : result'[l] = "error" /\ result[l] # "error" =>
           group = "open"]_result

\* Close stops every call without any context being cancelled, even when a
\* claim has just failed, and then returns, unless the process dies.
CloseStopsLoops ==
    closed ~>
        \/ ~closed
        \/ /\ wg = {}
           /\ \A c \in Closers : closer[c] \in {"idle", "returned", "early"}

\* As long as a call of Replay goes on, no message holds up the others: again
\* and again all that is in the DLQ has been replayed or skipped, also what
\* arrived behind a message that failed, was unusable or not wanted.
ReplayProgress ==
    <>[](wg # {}) =>
        []<>(\A p \in Partitions : Cardinality(disposed[p]) = Len(log[p]))
=============================================================================

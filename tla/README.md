# txova-go-kafka: a TLA+ verification of the library

This directory models the Go library `txova-go-kafka` (the code under `src/`): a
thin layer over IBM/sarama that publishes event envelopes, consumes them in
consumer groups with retries and a dead letter queue (DLQ), replays the DLQ, and
reports the health of a consumer group. The modules are checked with TLC, and
the main safety results are proved with TLAPS.

## 1. The system

| Component | State | Operations | Hard behaviour | What makes it correct |
|---|---|---|---|---|
| Consumer, message path (`consumer/consumer.go:134-210`, `handler.go`, `config.go`) | per claim: the message in hand, attempt, marked offset; on the brokers: log, committed offset | `ConsumeClaim`, `processMessage`, `invokeHandler`, `HandlerRegistry.Get` | one goroutine per claimed partition; rebalances, evictions and crashes at every step; commits that fail | a committed offset never passes a message that was not disposed of, never moves back; messages are disposed of in order; no redelivery without a fault; no message is forgotten |
| DLQ handler (`dlq/handler.go`, `dlq/message.go`) | none | `Handle`, `NewMessage`, the callback of `CreateConsumerDLQHandler` | the send may fail, or be stored without an answer | a message that is given up is in the DLQ |
| Consumer, lifecycle (`consumer.go:66-119`) | `closed` and its mutex, `wg`, the sarama group | `Start`, `Close` | calls from several goroutines; `wg.Add` after the lock is released | `Close` waits for the handlers it must wait for, and soon none runs; cancel and `Close` always get through |
| DLQ replayer (`dlq/replayer.go`) | `closed`, `wg`, `stats`; on the brokers: the DLQ topic, committed offsets | `Replay`, `ReplayWithFilter`, `Close`, `Stats`, `ConsumeClaim`, `processMessage` | concurrent calls, concurrent claims, records that arrive meanwhile, a failure that ends the session of all partitions, rebalances, crashes and restarts, lost commits | statistics add up; a failed message stays; others are not replayed again; nothing holds up what is behind it; `Close` stops every loop |
| Producer (`producer/producer.go`, `config.go`) | `closed` and its mutex, the `SyncProducer` | `Publish`, `PublishToTopic`, `PublishBatch`, `Close` | concurrent calls, `Close` between check and send, requests resent, late or lost | what a batch returned tells what is in the log; order; every `Close` drains; every call returns |
| Group health (`consumer/group_health.go`) | none of its own | `Check`, `Close` | a verdict put together from several reads of a cluster that moves | the lag and the verdict are true, but for what is committed while they are put together |
| Handler registry (`consumer/handler.go`) | the map of handlers, the wildcard | `Register`, `RegisterWildcard`, `Get`, `Has` | no lock | specific before wildcard |
| Envelope (`envelope/`), events (`events/`), topics (`topics/`) | values, and the caller's `Config` | `New`, `NewWithContext`, `Validate`, `WithCorrelationID`, `ForEventType` | two sets of checks and two tables that must agree; `NewWithContext` writes to the caller's `Config` | what `New` builds `Publish` takes, but for the reasons a caller is told of |

How they interact. `Consumer.Start` calls `sarama.ConsumerGroup.Consume` in a
loop; sarama calls `ConsumeClaim` on one goroutine per partition, which calls
`processMessage`, the handler, and at the end `session.MarkMessage`; sarama
commits what is marked, if auto-commit is on. `DLQHandler` is a callback of the
consumer, usually made by `dlq.Handler`, and sends with its own `SyncProducer`.
The replayer is a consumer group of its own on the DLQ topic; its handler is the
caller's, usually a `Producer`. So an event can go round: published, consumed,
dead-lettered, replayed, published again. Before that, `envelope.New` builds what
`Producer.Publish` checks again and routes by `topics.ForEventType`. The health
checker reads what the brokers know of a group.

sarama, the brokers and the group coordinator are not part of the repository.
They are modelled from what the code calls on them; those actions are marked
`(external)` in the modules.

## 2. The modules

| Module | Models |
|---|---|
| `AtLeastOnce` | the abstract specification: partitions are settled in offset order, and commits cover settled messages only and move forward |
| `ConsumerGroup` | the message path and the DLQ handler, for any number of members and partitions |
| `ConsumerGroup_proofs`, `Redelivery_proofs` | its theorems |
| `ConsumerLifecycle` | `Start` and `Close` of one consumer |
| `ConsumerLifecycle_proofs` | its theorems |
| `Replayer` | the replayer: calls, sessions, messages, statistics, crashes |
| `Replayer_proofs` | its theorems |
| `Pipeline` | `ConsumerGroup` and `Replayer` composed: the way of an event round the library |
| `Pipeline_proofs` | its theorems |
| `Producer` | the producer: batches, `Close`, requests, the log |
| `Producer_proofs` | its theorems |
| `Envelope` | building envelopes from shared `Config`s, and what `Publish` makes of them |
| `Envelope_proofs` | its theorems |
| `GroupHealth` | one `Check` in a cluster that changes |
| `GroupHealth_proofs` | its theorems |
| `MC*` | the sets and model values of the TLC runs |

Beside some actions stands an `Action_Something` under a comment `Bug:`. It is a
plausible mistake in the same code (a dropped check, an off-by-one, a wrong
order) and not part of `Next`; `PROJECT.json` lists under `mutants` which
property each one breaks when it takes the place of the action.

### ConsumerGroup

One process is one member of the group. `member` says whether it runs and has a
session; `pc[m][p]` is where the goroutine of claim `<<m, p>>` is, between the
steps of `processMessage` at which others can get in between: the message
arrives (`SkipUndecodable`, `SkipUnrouted`, `BeginAttempts`), the handler returns
(`HandlerSucceeds`, `HandlerFails`; a panic is a failure, `invokeHandler`
recovers it), the DLQ callback (`SendToDLQ`), `MarkMessage` (`FinishMessage`).
`fate` and `dlq` record how each offset was disposed of. What the code does not
decide is free: the outcome of a handler and of the DLQ's `SendMessage`, the
assignment, when a session is cancelled, who crashes, which commits fail.

`current[m]` is the coordinator's view: a member it has evicted goes on with its
session until its heartbeat tells it, and may process and mark meanwhile; its
commits are refused. `churn` bounds crashes, stops, lost sessions, evictions and
failed final commits; `faulted` records those that may cause redelivery.

Configuration is constants: `MaxRetries` is any integer, because `Validate` does
not look at it.

### ConsumerLifecycle

The steps of `Start` and `Close` are cut where locks are taken and released, at
`wg.Add`, `wg.Wait` and the calls of sarama. `Consume` holds the lock of the
sarama group while its session lasts, so a second `Start` waits, and closing the
group waits for the session. `Consume` refuses a group that is being closed before
it takes the lock, not after: a call that waits for the lock when `Close` comes may
still have a session, which ends at once (`OpenSession`, `CloseLeave`). `late` is a
history variable: the calls of `Start` that joined the wait group after `Close` had
waited for it.

### Replayer

`ReplayWithFilter` and `Close` as above, except that here the closed check and
`wg.Add` are one step, under the read lock (`Enter`), and `Close` closes the group
before it waits. `claim[p]` is where the `ConsumeClaim` of a partition is: a
message is counted when it arrives (`Receive`), and skipped, replayed or failed in
a later step (`Skip`, `ReplaySucceeds`, `ReplayFails`), so that the counts of several
claims interleave. A claim whose handler fails returns an error, and sarama then
ends the whole session; the next one starts where `StartOffset` says. Records
`Arrive` at any time. `Crash` is the death and restart of the process, with a new
replayer: also what a panic of the replay handler or of the filter comes to, since
nothing recovers it. `faulted` records crashes and failed last commits, the two
things that may cause a second replay. `disposed`, the offsets that were replayed
or skipped, is the `settled` of `AtLeastOnce`, which the replayer implements like
the consumer.

### Pipeline

The composition takes `ConsumerGroup` and `Replayer` by `INSTANCE` and shares two
topics between them. A step that touches no topic of the other is a step of one
(`Consumer(A)`, `Replay(A)`). The steps that do are steps of both: `DeadLetter` is
`SendToDLQ` of the consumer and, when the DLQ has stored the message, `Arrive` of
the replayer; `Republish` is `ReplaySucceeds` of the replayer and `Produce` of the
consumer's topic; `RepublishFails` may have stored the event although the handler
returned an error. The replay handler is the caller's; the model takes it to
publish the envelope to its topic again. `wanted` is what the filter of
the replays matches, chosen at the start; `Kind` says what it makes of an event. An event is identified by its event type, and published once by a caller.

### Producer

A call of `PublishBatch` goes through its envelopes; `PublishToTopic` reads
`closed` under the read lock and sends after releasing it. `wire` holds requests
that may still arrive, also after the call has given up. `Close` holds the write
lock while the `SyncProducer` is drained. A `SendMessage` that meets a
`SyncProducer` being closed is refused (`Refusal`): an error while the producer
shuts down, and a panic (send on a closed channel) once it has. The default
configuration is modelled: idempotent, `WaitForAll`.

### Envelope

A call of `New` or `NewWithContext` uses a `Config` of its own, one that other calls
use before or after it, or none. `ConfigError` and `EnvelopeError` are the two
validations, in their order; `Complete` is what `NewWithContext` leaves in the
caller's `Config`. A payload may be one that cannot be marshalled, and the event ID
may fail to be generated. A caller may take a copy with another correlation ID, or
with none, and may close the producer. `ForEventType` is the table of `topics`.
`OtherTypes` are event types that no constant names, some of them within a known
domain. `changed` is a history variable: the calls whose envelope got another ID.

### GroupHealth

`Check` is one step per call to the cluster; between the steps messages arrive,
offsets are committed, members join and leave. Every call may fail, and so may the
decoding of an assignment (`CallFails`). `lagThen` is a history variable: how far the
group was behind the end of each partition when the committed offsets were listed.

## 3. What is checked

| Run | Properties | What it shows |
|---|---|---|
| `group_safety` | `TypeOK`, `CommittedSettled`, `CommittedMonotone`, `NoRedeliveryWithoutFault`, `IInv`, `ImplementsAtLeastOnce` | two members, one partition of two messages of three kinds, two attempts, DLQ, three disturbances: enough for a member to be evicted in the middle of a message, its successor to crash and the first to come back |
| `group_liveness` | `RInv`, `EventuallySettled`, `EventuallyCommitted` | two members, two partitions of one message each in one session, one disturbance, wildcard handler, no DLQ: nothing stops the committed offset for ever, and a session that ends with its last claim is resumed where it ended |
| `group_manual_commit` | `EventuallyCommitted` (violated) | finding 1 |
| `group_dlq_unavailable` | `HandledOrDeadLettered` (violated) | finding 2 |
| `lifecycle_calls` | `IInv`, `CloseDrains`, `CloseStopsHandlers`, `CancelThenClose` | two calls each of `Start` and `Close`: also the `Start` that read `closed` before `Close` set it |
| `lifecycle_close_hangs` | `CloseStopsStart` (violated) | finding 3 |
| `replayer_calls` | `IInv`, `StatsConserved`, `ReplayedOnce`, `ReplayInv`, `CloseWaitsForLoops`, `CloseIsNoError`, `CloseStopsLoops`, `ReplayProgress`, `ImplementsAtLeastOnce` | two calls of `ReplayWithFilter`, the second with a filter, on one partition with up to two messages, or one call on two partitions with one each, so that two claims of a session count at once; one call of `Close`; messages arrive at any time; one fault: a failed replay, a rebalance, a lost commit or a crash |
| `pipeline_roundtrip` | `IInv`, `OneCopy`, `NoEventLost`, `HandledOnce`, `EventuallyHandled` | two events, one with a handler, which the filter of the replay wants or not; one failed attempt, one disturbance of the consumer and one of the replayer: enough for an event to go round and for either side to crash or lose a commit with it in hand |
| `producer_calls` | `IInv`, `BatchIsPrefix`, `BatchOrder`, `EveryCloseDrains`, `CallsReturn` | two batches of two on one partition or one that fails, one retry, two calls of `Close` |
| `envelope_calls` | `IInv`, `BuiltIsPublished`, `FirstCallDecides` | two calls that share a `Config` or have none, every event type, one of every way a `Config` may be wrong, every context, copies with another ID or none, a `Close` at any time |
| `health_lag` | `IInv`, `LagBounded`, `VerdictSound` | two partitions of up to two messages, threshold 2 |
| `health_rebalancing` | `RebalancingIsDegraded` (violated) | finding 4 |

Bounds. Offsets and logs are bounded by `MaxLog` (`MaxDLQ` for the DLQ topic in
`Pipeline`), disturbances by `MaxChurn` and `MaxFaults`, failed attempts in
`Pipeline` by `MaxFailures`, batches by the set `Batches`; all are guards of actions
or initial values, none is a state constraint. `MCReplayer` has one more, `Bound`, a
conjunct of its next-state relation: the second partition has a message only if the
first has no second one and the second call has not come, and only the first message
of the first partition is of any kind. Two members suffice for every
property of `ConsumerGroup` because a partition has at most one current owner, and
any other holder is an evicted one; the proofs cover the rest. `replayer_calls`
has `OffsetReset = "earliest"` and a single fault, so a failed replay that a crash
follows is left to the proofs. Its safety properties are proved for any number of
partitions and, but for `ImplementsAtLeastOnce`, for both values; `CloseStopsLoops` and
`ReplayProgress` are limited to that instance. No run has `OffsetReset = "latest"` or
`MaxRetries <= 0`: `TypeCorrect` and `Inductive` of `ConsumerGroup_proofs` cover both.
`group_liveness`
has a wildcard handler, with which no message is unroutable: that such a one is
marked as well, and so does not stop the committed offset, is part of `RInv` (a claim
has marked what it has passed), which is proved. Members are
interchangeable, so `group_safety` and `group_dlq_unavailable` use symmetry, and so
do the runs of `GroupHealth`; no run with a liveness property does.

Deadlock is not checked: every instance may come to rest, when all messages of
the bounded log are done, all calls have returned, and nobody has to call again.
What must not come to rest is stated as a liveness property.

Fairness. Goroutines are scheduled: weak fairness on what a claim, a loop or a call
does next. Where a goroutine may go on in one of several ways, the condition is on
all of them together, and which one it takes is free. In `ConsumerLifecycle`, where a
session may last, `EndSession` must happen only once its context is done or the group
is being closed (`MustEnd`). Handlers, the DLQ and brokers answer: the code passes
handlers no deadline (section 6), so this is an assumption on callers; sarama's
requests have timeouts. A member that is down is started again, which is the deployment's part.
A rebalance that is due happens. Nothing is assumed of producers, of callers who
cancel or close, or of crashes, which are bounded instead. Handler outcomes are
free: no fairness makes a handler succeed; where a failed replay is tried again
(`Replayer`, `Pipeline`) the number of failures is bounded, since a message that
always fails is replayed for ever.

## 4. What is proved

For every value of the constants:

- `ConsumerGroup_proofs`. `TypeCorrect`, `Inductive`: `TypeOK` and `IInv` are
  invariants of `ConsumerGroup`. `AtLeastOnceCommits`: with
  `OffsetReset = "earliest"`, no committed offset passes a message that was not
  disposed of (`CommittedSettled`). `CommitsAreMonotone`: no committed offset moves
  back (`CommittedMonotone`). `Refinement`: with `OffsetReset = "earliest"`,
  `ConsumerGroup` implements `AtLeastOnce` (`ImplementsAtLeastOnce`).
- `Redelivery_proofs`. `Resumes`: `RInv` is an invariant; `NoRedelivery`: with
  auto-commit, no message is processed to its end twice unless a crash, an
  eviction or a failed last commit was (`NoRedeliveryWithoutFault`).
- `ConsumerLifecycle_proofs`. `Inductive`: `IInv`; `CloseWaitsForHandlers`:
  `CloseDrains`, for any number of calls.
- `Replayer_proofs`. `Inductive`: `IInv`; `CloseWaits`: `CloseWaitsForLoops`;
  `StatsAddUp`: `StatsConserved`; `ReplaysFresh`: `ReplayInv`; `NoSecondReplay`:
  `ReplayedOnce`; `CloseReportsNoError`: `CloseIsNoError`; `Refinement`: with
  `OffsetReset = "earliest"`, `Replayer` implements `AtLeastOnce`.
- `Producer_proofs`. `Inductive`: `IInv`; `ResultTells`: `BatchIsPrefix`;
  `InBatchOrder`: `BatchOrder`; `CloseDrains`: `EveryCloseDrains`.
- `GroupHealth_proofs`. `Inductive`: `IInv`; `LagIsTrue`: `LagBounded`;
  `VerdictIsSound`: `VerdictSound`.
- `Pipeline_proofs`. `Inductive`: `IInv`; `Components`: a behaviour of `Pipeline` is
  one of `ConsumerGroup` and one of `Replayer`, so that the theorems above hold of
  both; `NothingLost`: `NoEventLost`; `KeptSingle`: `OneCopy`; `NotHandledTwice`:
  `HandledOnce`.
- `Envelope_proofs`. `Inductive`: `IInv`; `PublishesWhatIsBuilt`: `BuiltIsPublished`;
  `FirstDecides`: `FirstCallDecides`.

The argument. `CommittedSettled` alone is not inductive: a commit is safe because
of what was marked, a mark because the messages before it were disposed of, and
that because the claim started at a committed offset and went on in order.
`IInv` says so: every claim runs over a settled prefix of its partition
(`InOrder`), each step of `processMessage` has what the next one relies on
(`InProgress`), only a member in a session has claims (`ClaimsNeedSession`), at
most one member of the current generation has a partition (`OneOwner`), and what
it marked is not behind what is committed (`OwnerAhead`), which is why commits are
monotone although evicted members go on. The refinement maps `settled` to the
offsets that have a fate or are in the DLQ; because claims settle in order and
several members can redo a message, a step settles the first unsettled offset or
is a stutter. `ConfigAssumption` is the only assumption on constants; it is what
the types of the configuration give, and that the value that does not decode is
no event type. With `OffsetReset = "latest"` the first claim passes over messages
on purpose, so the two theorems name `"earliest"`.

`NoRedeliveryWithoutFault` needs more: it says nothing of where the next session
starts. `RInv` does, as long as no fault was recorded: of a claim of the current
generation nothing ahead is disposed of, and it has marked all it has passed; of
a partition without one, nothing from the committed offset on is disposed of. A
step disposes of the message at its position only, so what is ahead stays fresh.

`CloseDrains`: the wait group is empty when `Close` has waited, and whoever joins it
later is late, so from then on `wg \subseteq late`; a call with a session is in the
wait group. That there is one such `Close` only is part of `IInv`, since only the
call that finds `closed` false gets past the flag. That it says no more is the
point: `Start` joins the wait group after it has released the lock, so `Close` can
return while a late handler runs. `CloseStopsHandlers`, which is model-checked, says
that this is soon over.

`Replayer`: `IInv` is types, that the wait group counts the calls that may consume
(`Counted`), one session at a time with all claims (`OneSession`), what each step
of `Close` relies on (`CloseProgress`), and order as in `ConsumerGroup` (`InOrder`,
`Prefix`). `StatsConserved` follows by the cardinality of the set of claims with a
message in hand. `CloseWaitsForLoops` has no exception for late calls as `CloseDrains`
has: `Enter` checks `closed` and joins the wait group in one step, so nobody joins
after `closed` is set.
`ReplayInv` is to `ReplayedOnce` what `RInv` is above.

`Producer`: only `Land` appends to the log. A batch sends an envelope after the one
before has been answered with success, and success means that it is in the log; so
all earlier envelopes are there when one lands (`OnlySent`, `Answered`), which
gives the order and the prefix. `LockHeld` ties the lock to the call of `Close`
that drains; a call of `Close` returns after the one that had the lock before it,
and so with the `SyncProducer` closed and nothing in flight.

`GroupHealth`: nothing in the cluster moves back, and what a check has listed stays
behind it (`Listed`). A lag computed from an older offset and a younger end is
therefore no less than the lag at the time of the offset. It need not be a lag that
the partition ever had: from offset 0 and end 0, let a message be produced, the
group commit 1, another be produced, the group commit 2; a check that listed the
offset first computes 2, and the partition never lagged by more than 1. What it
exceeds the present lag by is at most what was committed in between (`LagBounded`).
For the verdict, the totals must be compared, and a total is a fold over the
partitions, in an order that `CHOOSE` picks. `TotalMonotone` does it without an
induction rule, for any finite set of partitions: if two such sums compared otherwise than their terms do, there would be
a smallest set for which they do, and without its first element they still would
(`SumsCompare`). That the function that the fold is defined by exists is shown in
the same way (`SumExists`).

`Pipeline`: what a step does to the group is a step of `ConsumerGroup`, and what it
does to the replayer a step of `Replayer` or a stutter (`GroupStep`,
`ReplayerStepOf`), so that the invariants of both hold without being proved again.
`Effects` says all that a step can do to events: nothing, one appears in the topic,
the consumer settles one, stores one in the DLQ, or the replayer passes one, with or
without its being published again. `Accounted` goes through these: what is published
is handled, given up, or waits, in the topic to be settled or in the DLQ to be
replayed; what leaves one place is in the next one in the same step, or was handled
or given up. `HandledOnce` needs more than that, since an event that waits in two
places, or waits although it was handled, is handled twice later. `OneCopy` says
that, as long as nothing was disturbed, it does neither; its step rests on
`NoRedeliveryWithoutFault` of the group and `ReplayInv` of the replayer, through
`Components`.

`Envelope`: a `Config` that has an ID keeps it, gets one from a call that uses it
only (`Completed`), and an envelope has the ID of its `Config`, unless that came later
(`Correlated`), or its caller changed it (`changed`): so two calls that share a
`Config` have the same ID or one has none. What `New` lets through is one of
`Envelopes`, for which all checks of `Validate` hold but that of the ID (`Checked`,
`EnvelopeChecked`), and `KnownTypes` goes through the event types and topics. So
`Publish` refuses it for its event type, for the missing ID, because the producer is
closed or because the send fails. `FirstCallDecides` does not say that the leak is
right: it says how far it goes.

The assumptions are the named `ASSUME`s on constants, which are what the types of
the configuration and the bounds give; TLC evaluates each in a run.

Only model-checked: all liveness properties, since fairness and `ENABLED` are beyond
the prover (`EventuallySettled`, `EventuallyCommitted`, `CancelThenClose`,
`CloseStopsHandlers`, `CloseStopsLoops`, `ReplayProgress`, `EventuallyHandled`,
`CallsReturn`). Every other property of a passing run is the subject of a theorem.

## 5. Findings

1. `group_manual_commit`: nothing ever calls `session.Commit`, and auto-commit is
   off by default: no offset is committed, whereas `PRD.md:144` lists manual commit
   as "Commit after processing". The replayer (`execution_plan.md:260`, "Commit
   offset on success") is in the same position.
2. `group_dlq_unavailable`: a message that was neither handled nor dead-lettered
   is committed when the DLQ rejects it (`PRD.md:170`, "Commit offset only after
   successful handling"); the callback cannot report an error.
3. `lifecycle_close_hangs`: `Close` does not make `Start` return
   (`consumer.go:66-67`); both hang until the context is cancelled. `Replayer.Close`
   gets this right.
4. `health_rebalancing`: `Check` dereferences the missing assignment of a member
   of a rebalancing group, which its test expects to be Degraded.

Disagreements met while modelling that are certain from the code and have no run:

- `CreateConsumerDLQHandler` binds one partition and offset for all messages
  (`dlq/handler.go:113-120`), while `dlq/message.go:18` calls it "the offset of the
  original message".
- `MaxRetries = 0` passes `Validate`, and then every message is marked without an
  attempt (`consumer.go:170`).
- A second `Close` of a consumer or a replayer returns at once while the first
  still waits (`consumer.go:104-107`, `replayer.go:183-186`), unlike that of a
  producer (`EveryCloseDrains` of `Producer`).
- A publish that has passed the closed check can meet a `SyncProducer` that is
  being closed, and then does not return `ErrProducerClosed`
  (`producer.go:75-80`, `106`): `SendMessage` of `Producer` has that outcome.

- `RegisterWildcard` is documented to match "all event types within a domain"
  (`consumer/handler.go:33-35`); it matches all event types of all domains.
- `usage.md:393-430` reads the DLQ with an ordinary consumer, which decodes a
  `dlq.Message` as an envelope: the event type is empty and the payload missing.
- A `Config` that is used again keeps the first ID that `NewWithContext` found for
  it (`envelope.go:144-158`), which its comment does not say (`FirstCallDecides` of
  `Envelope`).
- `New` takes a `Config` without correlation ID ("optional", `envelope.go:104`),
  and `Publish` then refuses the envelope (`BuiltIsPublished`).
- Payloads of `payout.*`, `safety.emergency_triggered` and `safety.trip_shared`
  lack the field that their topic is keyed by (`events/payment.go`, `events/safety.go`,
  `topics.go:92-107`), and no event type is routed to `Locations`. These are constant
  tables that no code compares; `Publish` takes its key from the caller.
- `Close` "waits for all handlers to complete" (`consumer.go:101`). A `Start` that has
  read `closed` before `Close` set it, and joins the wait group when `Close` has
  waited, can have a handler running when `Close` returns, until its session ends
  (`CloseDrains`, with `late`).
- "consumer group lag %d exceeds threshold %d" (`group_health.go:214`) may name a lag
  that the group never had, when it commits between the two reads (section 4). A
  group that keeps up with a fast topic can thus be called Degraded.
- `PublishBatch` is planned to "Validate all before sending"
  (`execution_plan.md:149`) and `Publish` to "Inject correlation ID from context if
  not set" (`execution_plan.md:139`, `PRD.md:133`): it validates each envelope as
  it comes to it, and no publish looks at the context for an ID.
- A filtered replay commits what the filter passes over, so a later replay does
  not see it (`replayer.go:283-288`): `GivenUp` of `Pipeline` counts it as given up, and
  `AtLeastOnce` as settled, as it does a message that the DLQ rejected (finding 2).

## 6. What is not modelled

- Payload structs and partition keys, `WithCausationID`, `WithActor`,
  `UnmarshalPayload`, the predicates of `events`, and the values of `topics.Config` and
  `consumer_groups.go`: pure values that no control depends on.
- A `Config` that goroutines share while `NewWithContext` writes to it, and
  registering handlers while consuming: data races, which Go leaves undefined
  (a map may even end the process). `Envelope` has its callers take turns.
- `ProcessingTimeout`: the code hands it to sarama's `MaxProcessingTime` only and
  bounds no handler with it. A handler that never returns is excluded by fairness.
- Retries do not look at the context: a handler may be tried again after its
  session has ended. `ConsumerGroup` allows that; no property is about it.
- A panic of a DLQ callback: it ends the process, and `Crash` of `ConsumerGroup`
  covers it.
- The panic that `sync.WaitGroup` may raise when `Add` and `Wait` race at zero.
- Logging, headers, JSON, error texts, time.
- Producers that are not idempotent, or with acknowledgements other than
  `WaitForAll`; brokers that lose acknowledged messages.
- Groups whose members subscribe to topics other than the health checker's.

## 7. Plan

Done: `AtLeastOnce`; `ConsumerGroup`, `ConsumerLifecycle`, `Replayer`, `Producer`,
`GroupHealth`, `Pipeline` and `Envelope`, each with its proofs.

Left:

1. An abstract specification of a closable service (calls enter, run, leave; a
   closed service has none running) that `ConsumerLifecycle` and `Replayer`
   implement, so that their difference on `Close` is one of refinement.
2. `Pipeline`: what the producer's `Close` and lost acknowledgements
   (`Producer`) do to an event on its way round.
3. `HandlerRegistry`: `Register` against `Get`.
4. `GroupHealth`: members with partitions of other topics.
5. `Replayer`: liveness with both calls and two full partitions, beyond `Bound`.

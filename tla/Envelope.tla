------------------------------- MODULE Envelope -------------------------------
(***************************************************************************)
(* Packages envelope, events and topics: calls of New and NewWithContext   *)
(* that build envelopes from Configs, which later calls may use again,     *)
(* and what Producer.Publish makes of the envelopes: refused, or sent to   *)
(* the topic of their event type.  How concurrent calls of Publish and     *)
(* Close interleave is the matter of module Producer; here each of them is *)
(* one step.                                                               *)
(*                                                                         *)
(* A Config is no more safe for concurrent use than any Go struct: the     *)
(* calls that share one use it one after the other.                        *)
(***************************************************************************)
CONSTANTS
    Calls,          \* calls of New or NewWithContext
    Configs,        \* the Configs they use
    OtherTypes      \* event types <<domain, action>> that no constant names

\* An event type <<domain, action>>; one without dot is <<domain, "">>.
ValidTypes ==
    ({"user"} \X {"registered", "verified", "profile_updated", "suspended", "deleted"})
    \cup ({"driver"} \X {"application_submitted", "documents_submitted", "approved",
                         "rejected", "went_online", "went_offline", "location_updated"})
    \cup ({"ride"} \X {"requested", "driver_assigned", "driver_arrived", "started",
                       "completed", "cancelled", "rated"})
    \cup ({"payment"} \X {"initiated", "completed", "failed", "refunded"})
    \cup ({"payout"} \X {"requested", "completed"})
    \cup ({"safety"} \X {"emergency_triggered", "incident_reported", "trip_shared"})

ASSUME EnvelopeAssumption == OtherTypes \cap ValidTypes = {}

Domain(type) == type[1]

\* Bug: payouts have a domain of their own, which is forgotten.
ForEventType_NoPayout(type) ==
    CASE Domain(type) = "user" -> "Users"
      [] Domain(type) = "driver" -> "Drivers"
      [] Domain(type) = "ride" -> "Rides"
      [] Domain(type) = "payment" -> "Payments"
      [] Domain(type) = "safety" -> "Safety"
      [] OTHER -> ""

\* The topic of an event type is told by its domain alone.
ForEventType(type) ==
    CASE Domain(type) = "user" -> "Users"
      [] Domain(type) = "driver" -> "Drivers"
      [] Domain(type) = "ride" -> "Rides"
      [] Domain(type) \in {"payment", "payout"} -> "Payments"
      [] Domain(type) = "safety" -> "Safety"
      [] OTHER -> ""

-----------------------------------------------------------------------------

\* The part of a Config that no call changes.  A payload may be missing, of a
\* kind that cannot be marshalled, or a nil pointer, which marshals to null.
ConfigValues == [type : ValidTypes \cup OtherTypes \cup {<<"", "">>},
                 version : {"", "malformed", "semver"},
                 source : {"", "set"},
                 payload : {"nil", "unmarshallable", "null", "value"}]

NoID == <<"none">>
Given(c) == <<"given", c>>
OfContext(k) == <<"context", k>>
OfRequest(k) == <<"request", k>>
Changed(k) == <<"changed", k>>

CONSTANTS Values    \* the values that Configs have

ASSUME ValuesAssumption == Values \subseteq ConfigValues

VARIABLES
    value,      \* value[c]: the Config c, but for its correlation ID
    corrID,     \* corrID[c]: its correlation ID
    supplied,   \* the Configs that came with one
    use,        \* use[k]: the Config of the call k, or "nil"
    withCtx,    \* the calls of NewWithContext; the others are of New
    ctx,        \* ctx[k]: the IDs that the context of k has
    pc,         \* pc[k]: where k is, or what New or Publish returned
    env,        \* env[k]: the envelope that k built
    changed,    \* history: the calls whose envelope got another ID
    closed      \* Producer.closed

inputs == <<value, supplied, use, withCtx, ctx>>
vars == <<inputs, corrID, pc, env, changed, closed>>

Init ==
    /\ value \in [Configs -> Values]
    /\ supplied \in SUBSET Configs
    /\ corrID = [c \in Configs |-> IF c \in supplied THEN Given(c) ELSE NoID]
    /\ use \in [Calls -> Configs \cup {"nil"}]
    /\ withCtx \in SUBSET Calls
    /\ ctx \in [Calls -> SUBSET {"correlation", "request"}]
    /\ pc = [k \in Calls |-> <<"idle">>]
    /\ env = [k \in Calls |-> <<>>]
    /\ changed = {}
    /\ closed = FALSE

Return(k, r) ==
    /\ pc' = [pc EXCEPT ![k] = r]
    /\ UNCHANGED env

\* validateConfig; the correlation ID may be empty.
ConfigError(v) ==
    IF v.type = <<"", "">> THEN "ErrEventTypeRequired"
    ELSE IF v.version = "" THEN "ErrVersionRequired"
    ELSE IF v.version = "malformed" THEN "ErrVersionInvalid"
    ELSE IF v.source = "" THEN "ErrSourceRequired"
    ELSE IF v.payload = "nil" THEN "ErrPayloadRequired"
    ELSE "none"

\* New: validateConfig; an event ID is generated, which may fail; the payload
\* is marshalled, and the envelope built.
Build(k, v, id) ==
    IF ConfigError(v) # "none" THEN Return(k, <<"New", ConfigError(v)>>)
    ELSE \/ Return(k, <<"New", "event ID error">>)
         \/ /\ v.payload = "unmarshallable"
            /\ Return(k, <<"New", "marshal error">>)
         \/ /\ v.payload # "unmarshallable"
            /\ pc' = [pc EXCEPT ![k] = <<"built">>]
            /\ env' = [env EXCEPT ![k] = [type |-> v.type, version |-> v.version,
                                          source |-> v.source, payload |-> v.payload,
                                          correlation |-> id]]

\* New(cfg)
New(k) ==
    /\ pc[k] = <<"idle">> /\ k \notin withCtx
    /\ IF use[k] = "nil"
       THEN Return(k, <<"New", "ErrConfigRequired">>)
       ELSE Build(k, value[use[k]], corrID[use[k]])
    /\ UNCHANGED <<inputs, corrID, changed, closed>>

\* The correlation ID of the context, else its request ID.
ContextID(k) ==
    CASE "correlation" \in ctx[k] -> OfContext(k)
      [] ctx[k] = {"request"} -> OfRequest(k)
      [] OTHER -> NoID

\* Bug: an ID that the Config has is overwritten.
Complete_Always(k) == ContextID(k)

\* The correlation ID that NewWithContext leaves in the caller's Config.
Complete(k) == IF corrID[use[k]] = NoID THEN ContextID(k) ELSE corrID[use[k]]

\* NewWithContext(ctx, cfg): the Config is completed, for the calls to come
\* too, and New called.
NewWithContext(k) ==
    /\ pc[k] = <<"idle">> /\ k \in withCtx
    /\ IF use[k] = "nil"
       THEN Return(k, <<"New", "ErrConfigRequired">>) /\ UNCHANGED corrID
       ELSE /\ corrID' = [corrID EXCEPT ![use[k]] = Complete(k)]
            /\ Build(k, value[use[k]], Complete(k))
    /\ UNCHANGED <<inputs, changed, closed>>

\* WithCorrelationID: the caller goes on with a copy that has another ID, or
\* the empty one.
WithCorrelationID(k) ==
    /\ pc[k] = <<"built">>
    /\ \E id \in {NoID, Changed(k)} : env' = [env EXCEPT ![k].correlation = id]
    /\ changed' = changed \cup {k}
    /\ UNCHANGED <<inputs, corrID, pc, closed>>

\* Envelope.Validate; New sets the event ID and the timestamp.
EnvelopeError(e) ==
    IF e.type = <<"", "">> THEN "ErrEventTypeRequired"
    ELSE IF e.version = "" THEN "ErrVersionRequired"
    ELSE IF e.version = "malformed" THEN "ErrVersionInvalid"
    ELSE IF e.source = "" THEN "ErrSourceRequired"
    ELSE IF e.correlation = NoID THEN "ErrCorrelationIDRequired"
    ELSE IF e.payload = "nil" THEN "ErrPayloadRequired"
    ELSE "none"

\* Producer.Publish and PublishToTopic: the topic is looked up, closed read,
\* the envelope validated and sent, which may fail.  What New built can be
\* marshalled again: its payload is JSON.
Publish(k) ==
    /\ pc[k] = <<"built">>
    /\ LET topic == ForEventType(env[k].type)
           error == EnvelopeError(env[k])
       IN  CASE topic = "" -> Return(k, <<"Publish", "ErrNoTopicForEventType">>)
             [] topic # "" /\ closed -> Return(k, <<"Publish", "ErrProducerClosed">>)
             [] topic # "" /\ ~closed /\ error # "none" -> Return(k, <<"Publish", error>>)
             [] OTHER -> \/ Return(k, <<"sent", topic>>)
                         \/ Return(k, <<"Publish", "send error">>)
    /\ UNCHANGED <<inputs, corrID, changed, closed>>

\* Producer.Close
CloseProducer ==
    /\ ~closed
    /\ closed' = TRUE
    /\ UNCHANGED <<inputs, corrID, pc, env, changed>>

Next ==
    \/ \E k \in Calls : New(k) \/ NewWithContext(k) \/ WithCorrelationID(k) \/ Publish(k)
    \/ CloseProducer

Spec == Init /\ [][Next]_vars

-----------------------------------------------------------------------------
(* Properties. *)

\* NoSource(k): neither the Config of the call k nor its context had an ID.
NoSource(k) == use[k] \notin supplied /\ (k \in withCtx => ctx[k] = {})

\* What New has built Publish sends while the producer is open and the brokers
\* take it, as long as the event type is known and the envelope has a
\* correlation ID.  It lacks one only if nobody gave it one, or its caller took
\* it away: the checks on a Config, the checks on an envelope and the topics of
\* the event types agree, whatever the payload, and in whatever order calls
\* share a Config.
BuiltIsPublished ==
    \A k \in Calls : pc[k][1] = "Publish" =>
        \/ pc[k][2] = "ErrNoTopicForEventType" /\ env[k].type \in OtherTypes
        \/ pc[k][2] = "ErrProducerClosed" /\ closed
        \/ /\ pc[k][2] = "ErrCorrelationIDRequired" /\ env[k].correlation = NoID
           /\ k \in changed \/ NoSource(k)
        \/ pc[k][2] = "send error"

\* Built(k): the envelope of k as it was built.
Built(k) == env[k] # <<>> /\ k \notin changed

\* The first call of NewWithContext that finds an ID decides for all calls
\* that use its Config later: they get this ID, and not the one of their own
\* context.  A call that has its Config for itself gets its own.
FirstCallDecides ==
    \A j, k \in withCtx :
        use[j] = use[k] /\ Built(j) /\ Built(k) =>
            /\ \/ env[j].correlation = env[k].correlation
               \/ NoID \in {env[j].correlation, env[k].correlation}
            /\ ctx[k] # {} => env[k].correlation # NoID
            /\ /\ use[k] \notin supplied
               /\ \A l \in Calls : l # k => use[l] # use[k]
               => env[k].correlation = ContextID(k)

-----------------------------------------------------------------------------
(* The inductive invariant behind the properties. *)

IDs == {NoID} \cup {Given(c) : c \in Configs}
       \cup UNION {{OfContext(k), OfRequest(k), Changed(k)} : k \in Calls}

\* What the checks of New leave to be built.
Envelopes == [type : (ValidTypes \cup OtherTypes) \ {<<"", "">>}, version : {"semver"},
              source : {"set"}, payload : {"null", "value"}, correlation : IDs]

\* Types of what the calls are given and share.
TypeOK ==
    /\ value \in [Configs -> ConfigValues]
    /\ supplied \subseteq Configs
    /\ use \in [Calls -> Configs \cup {"nil"}]
    /\ withCtx \subseteq Calls
    /\ ctx \in [Calls -> SUBSET {"correlation", "request"}]
    /\ corrID \in [Configs -> IDs]
    /\ DOMAIN pc = Calls /\ DOMAIN env = Calls
    /\ changed \subseteq Calls
    /\ closed \in BOOLEAN

\* New returned an envelope to the call k.
HasEnvelope(k) == pc[k][1] \in {"built", "Publish", "sent"}

\* A Config loses no ID, and gets none but from a call that uses it.
Completed ==
    \A c \in Configs :
        /\ c \in supplied => corrID[c] = Given(c)
        /\ corrID[c] # NoID =>
              c \in supplied \/ \E k \in Calls : use[k] = c /\ pc[k] # <<"idle">>

\* What there is of an envelope, and where it was sent.
Progress(k) ==
    /\ pc[k] = <<"idle">> \/ pc[k][1] \in {"New", "built", "Publish", "sent"}
    /\ ~HasEnvelope(k) => env[k] = <<>>
    /\ HasEnvelope(k) => env[k] \in Envelopes /\ use[k] \in Configs
    /\ pc[k][1] = "sent" => pc[k][2] = ForEventType(env[k].type)

\* Where an envelope has its correlation ID from.
Correlated(k) ==
    HasEnvelope(k) =>
        /\ env[k].correlation = NoID => k \in changed \/ NoSource(k)
        /\ k \in withCtx /\ k \notin changed =>
              /\ env[k].correlation \in {NoID, corrID[use[k]]}
              /\ /\ use[k] \notin supplied
                 /\ \A l \in Calls : l # k => use[l] # use[k]
                 => env[k].correlation = ContextID(k)

\* Why calls that share a Config agree: an ID that it has stays, and each
\* envelope has the one that its Config had when it was built.
IInv ==
    /\ TypeOK
    /\ Completed
    /\ \A k \in Calls : Progress(k) /\ Correlated(k)
    /\ BuiltIsPublished
=============================================================================

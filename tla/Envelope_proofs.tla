---------------------------- MODULE Envelope_proofs ----------------------------
(***************************************************************************)
(* Proofs about Envelope, for any calls, Configs and values: how they      *)
(* share correlation IDs, and for which reasons an envelope is refused.    *)
(***************************************************************************)
EXTENDS Envelope, TLAPS

-----------------------------------------------------------------------------
(* Topics of the event types. *)

\* Each constant names an event type with a topic.
LEMMA KnownTypes ==
  ASSUME NEW type \in ValidTypes
  PROVE  ForEventType(type) # ""
  <1> USE DEF ForEventType, Domain
  <1>1. CASE type \in {"user"} \X {"registered", "verified", "profile_updated",
                                   "suspended", "deleted"}
    BY <1>1
  <1>2. CASE type \in {"driver"} \X {"application_submitted", "documents_submitted",
                                     "approved", "rejected", "went_online",
                                     "went_offline", "location_updated"}
    BY <1>2
  <1>3. CASE type \in {"ride"} \X {"requested", "driver_assigned", "driver_arrived",
                                   "started", "completed", "cancelled", "rated"}
    BY <1>3
  <1>4. CASE type \in {"payment"} \X {"initiated", "completed", "failed", "refunded"}
    BY <1>4
  <1>5. CASE type \in {"payout"} \X {"requested", "completed"}
    BY <1>5
  <1>6. CASE type \in {"safety"} \X {"emergency_triggered", "incident_reported",
                                     "trip_shared"}
    BY <1>6
  <1> QED
    BY <1>1, <1>2, <1>3, <1>4, <1>5, <1>6 DEF ValidTypes

-----------------------------------------------------------------------------
(* One call at a time. *)

\* An ID is none of the others, and is there.
LEMMA IDsDiffer ==
  /\ \A x : Given(x) # NoID /\ OfContext(x) # NoID /\ OfRequest(x) # NoID
            /\ Changed(x) # NoID
  BY DEF Given, OfContext, OfRequest, Changed, NoID

\* A Config that passes the checks makes an envelope whose own checks can fail
\* for its correlation ID only.
LEMMA Checked ==
  ASSUME NEW v \in ConfigValues, ConfigError(v) = "none", v.payload # "unmarshallable",
         NEW id \in IDs
  PROVE  [type |-> v.type, version |-> v.version, source |-> v.source,
          payload |-> v.payload, correlation |-> id] \in Envelopes
  <1>1. /\ v.type \in ValidTypes \cup OtherTypes
        /\ v.type # <<"", "">>
    BY DEF ConfigError, ConfigValues
  <1>2. v.version = "semver" /\ v.source = "set"
    BY DEF ConfigError, ConfigValues
  <1>3. v.payload \in {"null", "value"}
    BY DEF ConfigError, ConfigValues
  <1> QED
    BY <1>1, <1>2, <1>3 DEF Envelopes

\* What Publish can find wrong with such an envelope.
LEMMA EnvelopeChecked ==
  ASSUME NEW e \in Envelopes
  PROVE  EnvelopeError(e) = IF e.correlation = NoID THEN "ErrCorrelationIDRequired"
                                                    ELSE "none"
  BY DEF Envelopes, EnvelopeError

\* The ID of a context is missing only if it has none.
LEMMA ContextIDs ==
  ASSUME TypeOK, NEW k \in Calls
  PROVE  /\ ContextID(k) \in IDs
         /\ ContextID(k) = NoID <=> ctx[k] = {}
  <1>1. ctx[k] \in SUBSET {"correlation", "request"}
    BY DEF TypeOK
  <1>2. CASE "correlation" \in ctx[k]
    BY <1>2, IDsDiffer DEF ContextID, IDs
  <1>3. CASE ctx[k] = {"request"}
    BY <1>3, IDsDiffer DEF ContextID, IDs
  <1>4. CASE ctx[k] = {}
    BY <1>4 DEF ContextID, IDs
  <1> QED
    BY <1>1, <1>2, <1>3, <1>4

\* Why Publish refused the envelope of k, if it did: BuiltIsPublished, of k.
Refused(k) ==
    pc[k][1] = "Publish" =>
        \/ pc[k][2] = "ErrNoTopicForEventType" /\ env[k].type \in OtherTypes
        \/ pc[k][2] = "ErrProducerClosed" /\ closed
        \/ /\ pc[k][2] = "ErrCorrelationIDRequired" /\ env[k].correlation = NoID
           /\ k \in changed \/ NoSource(k)
        \/ pc[k][2] = "send error"

\* What a step of the call k leaves of the invariant, when it keeps the IDs
\* that Configs have and gives one to no Config but its own: all but the
\* progress of k itself.
LEMMA OthersKeep ==
  ASSUME IInv, NEW k \in Calls, UNCHANGED inputs,
         corrID' \in [Configs -> IDs],
         \A c \in Configs : corrID[c] # NoID => corrID'[c] = corrID[c],
         \A c \in Configs : corrID[c] = NoID /\ corrID'[c] # NoID => use[k] = c,
         DOMAIN pc' = Calls, DOMAIN env' = Calls,
         changed' \subseteq Calls, changed' \ {k} = changed \ {k}, closed' = closed,
         \A j \in Calls \ {k} : pc'[j] = pc[j] /\ env'[j] = env[j],
         pc'[k][1] \in {"New", "built", "Publish", "sent"},
         Progress(k)', Correlated(k)', Refused(k)'
  PROVE  IInv'
  <1>1. TypeOK'
    BY DEF IInv, TypeOK, inputs
  <1>2. pc'[k] # <<"idle">>
    OBVIOUS
  <1>3. Completed'
    <2> SUFFICES ASSUME NEW c \in Configs
                 PROVE  /\ c \in supplied => corrID'[c] = Given(c)
                        /\ corrID'[c] # NoID =>
                              c \in supplied
                              \/ \E j \in Calls : use[j] = c /\ pc'[j] # <<"idle">>
      BY DEF Completed, inputs
    <2>1. c \in supplied => corrID'[c] = Given(c)
      BY IDsDiffer DEF IInv, Completed
    <2>2. CASE corrID[c] = NoID
      BY <1>2, <2>1, <2>2
    <2>3. ASSUME corrID[c] # NoID, c \notin supplied
          PROVE  \E j \in Calls : use[j] = c /\ pc'[j] # <<"idle">>
      <3>1. PICK j \in Calls : use[j] = c /\ pc[j] # <<"idle">>
        BY <2>3 DEF IInv, Completed
      <3> QED
        BY <3>1, <1>2
    <2> QED
      BY <2>1, <2>2, <2>3
  <1>4. ASSUME NEW j \in Calls \ {k}
        PROVE  Progress(j)' /\ Correlated(j)' /\ Refused(j)'
    <2>1. Progress(j) /\ Correlated(j) /\ Refused(j)
      BY DEF IInv, BuiltIsPublished, Refused
    <2>2. pc'[j] = pc[j] /\ env'[j] = env[j]
      OBVIOUS
    <2>3. (j \in changed' <=> j \in changed) /\ NoSource(j)' = NoSource(j)
      BY DEF NoSource, inputs
    <2>7. Progress(j)' /\ Refused(j)'
      BY <2>1, <2>2, <2>3 DEF Progress, Refused, HasEnvelope, inputs
    <2>4. HasEnvelope(j) /\ corrID[use[j]] # NoID => corrID'[use[j]] = corrID[use[j]]
      BY <2>1 DEF Progress
    <2>5. ContextID(j)' = ContextID(j)
      BY DEF ContextID, inputs
    <2>6. Correlated(j)'
      BY <2>1, <2>2, <2>3, <2>4, <2>5 DEF Correlated, HasEnvelope, inputs
    <2> QED
      BY <2>6, <2>7
  <1>5. \A j \in Calls : Progress(j)' /\ Correlated(j)' /\ Refused(j)'
    BY <1>4
  <1>6. BuiltIsPublished'
    BY <1>5 DEF BuiltIsPublished, Refused
  <1> QED
    BY <1>1, <1>3, <1>5, <1>6 DEF IInv

\* A call that returns without envelope.
LEMMA ReturnsNone ==
  ASSUME IInv, NEW k \in Calls, pc[k] = <<"idle">>, NEW r, r[1] = "New",
         Return(k, r), UNCHANGED <<inputs, changed, closed>>,
         corrID' \in [Configs -> IDs],
         \A c \in Configs : corrID[c] # NoID => corrID'[c] = corrID[c],
         \A c \in Configs : corrID[c] = NoID /\ corrID'[c] # NoID => use[k] = c
  PROVE  IInv'
  <1>1. /\ DOMAIN pc = Calls /\ DOMAIN env = Calls
        /\ env[k] = <<>>
    BY DEF IInv, TypeOK, Progress, HasEnvelope
  <1>2. /\ DOMAIN pc' = Calls /\ DOMAIN env' = Calls
        /\ pc'[k] = r /\ env'[k] = <<>>
        /\ \A j \in Calls \ {k} : pc'[j] = pc[j] /\ env'[j] = env[j]
    BY <1>1 DEF Return
  <1>3. Progress(k)' /\ Correlated(k)' /\ Refused(k)'
    BY <1>2 DEF Progress, Correlated, Refused, HasEnvelope
  <1> QED
    BY <1>2, <1>3, OthersKeep DEF IInv, TypeOK

\* New, called with a Config and the ID to put into the envelope: the envelope
\* has it, or there is none.
LEMMA BuildStep ==
  ASSUME IInv, NEW k \in Calls, pc[k] = <<"idle">>, use[k] \in Configs,
         NEW id \in IDs, Build(k, value[use[k]], id),
         UNCHANGED <<inputs, changed, closed>>,
         corrID' \in [Configs -> IDs],
         \A c \in Configs : corrID[c] # NoID => corrID'[c] = corrID[c],
         \A c \in Configs : corrID[c] = NoID /\ corrID'[c] # NoID => use[k] = c,
         id = NoID => NoSource(k),
         k \in withCtx =>
            /\ id = corrID'[use[k]]
            /\ /\ use[k] \notin supplied
               /\ \A l \in Calls : l # k => use[l] # use[k]
               => id = ContextID(k)
  PROVE  IInv'
  <1> DEFINE v == value[use[k]]
             e == [type |-> v.type, version |-> v.version, source |-> v.source,
                   payload |-> v.payload, correlation |-> id]
  <1>1. v \in ConfigValues
    BY DEF IInv, TypeOK
  <1>2. CASE ConfigError(v) # "none"
    <2>1. Return(k, <<"New", ConfigError(v)>>)
      BY <1>2 DEF Build
    <2> QED
      BY <2>1, ReturnsNone
  <1>3. CASE \/ Return(k, <<"New", "event ID error">>)
             \/ Return(k, <<"New", "marshal error">>)
    BY <1>3, ReturnsNone
  <1>4. CASE /\ ConfigError(v) = "none" /\ v.payload # "unmarshallable"
             /\ pc' = [pc EXCEPT ![k] = <<"built">>] /\ env' = [env EXCEPT ![k] = e]
    <2>1. pc' = [pc EXCEPT ![k] = <<"built">>] /\ env' = [env EXCEPT ![k] = e]
      BY <1>4
    <2>2. e \in Envelopes /\ e.correlation = id
      BY <1>1, <1>4, Checked
    <2> HIDE DEF e
    <2>3. DOMAIN pc = Calls /\ DOMAIN env = Calls
      BY DEF IInv, TypeOK
    <2>4. /\ DOMAIN pc' = Calls /\ DOMAIN env' = Calls
          /\ pc'[k] = <<"built">> /\ env'[k] = e
          /\ \A j \in Calls \ {k} : pc'[j] = pc[j] /\ env'[j] = env[j]
      BY <2>1, <2>3
    <2>5. Envelopes' = Envelopes
      BY DEF Envelopes, IDs
    <2>6. Progress(k)' /\ Refused(k)'
      BY <2>2, <2>4, <2>5 DEF Progress, Refused, HasEnvelope, inputs
    <2>7. ContextID(k)' = ContextID(k) /\ NoSource(k)' = NoSource(k)
      BY DEF ContextID, NoSource, inputs
    <2>8. Correlated(k)'
      BY <2>2, <2>4, <2>7 DEF Correlated, inputs
    <2> QED
      BY <2>4, <2>6, <2>8, OthersKeep DEF IInv, TypeOK
  <1> QED
    BY <1>2, <1>3, <1>4 DEF Build

\* New leaves each Config as it is.
LEMMA NewStep ==
  ASSUME IInv, NEW k \in Calls, New(k)
  PROVE  IInv'
  <1>1. /\ UNCHANGED <<inputs, changed, closed>> /\ corrID' = corrID
        /\ pc[k] = <<"idle">> /\ k \notin withCtx
    BY DEF New
  <1>2. corrID' \in [Configs -> IDs]
    BY <1>1 DEF IInv, TypeOK
  <1>3. CASE use[k] = "nil"
    <2>1. Return(k, <<"New", "ErrConfigRequired">>)
      BY <1>3 DEF New
    <2> QED
      BY <1>1, <1>2, <2>1, ReturnsNone
  <1>4. CASE use[k] # "nil"
    <2>1. /\ use[k] \in Configs
          /\ corrID[use[k]] \in IDs
      BY <1>4 DEF IInv, TypeOK
    <2>2. Build(k, value[use[k]], corrID[use[k]])
      BY <1>4 DEF New
    <2>3. corrID[use[k]] = NoID => NoSource(k)
      BY <1>1, <2>1, IDsDiffer DEF IInv, Completed, NoSource
    <2> QED
      BY <1>1, <1>2, <2>1, <2>2, <2>3, BuildStep
  <1> QED
    BY <1>3, <1>4

\* NewWithContext gives its Config an ID if it has none; when no other call
\* uses the Config it has none unless it came with one.
LEMMA NewWithContextStep ==
  ASSUME IInv, NEW k \in Calls, NewWithContext(k)
  PROVE  IInv'
  <1>1. UNCHANGED <<inputs, changed, closed>> /\ pc[k] = <<"idle">> /\ k \in withCtx
    BY DEF NewWithContext
  <1>2. TypeOK /\ Completed
    BY DEF IInv
  <1>3. CASE use[k] = "nil"
    <2>1. Return(k, <<"New", "ErrConfigRequired">>) /\ corrID' = corrID
      BY <1>3 DEF NewWithContext
    <2>2. corrID' \in [Configs -> IDs]
      BY <1>2, <2>1 DEF TypeOK
    <2> QED
      BY <1>1, <2>1, <2>2, ReturnsNone
  <1>4. CASE use[k] # "nil"
    <2>1. use[k] \in Configs
      BY <1>2, <1>4 DEF TypeOK
    <2>2. /\ corrID' = [corrID EXCEPT ![use[k]] = Complete(k)]
          /\ Build(k, value[use[k]], Complete(k))
      BY <1>4 DEF NewWithContext
    <2>3. Complete(k) \in IDs
      BY <1>2, <2>1, ContextIDs DEF Complete, TypeOK
    <2>4. corrID \in [Configs -> IDs]
      BY <1>2 DEF TypeOK
    <2>5. /\ corrID' \in [Configs -> IDs]
          /\ corrID'[use[k]] = Complete(k)
          /\ \A c \in Configs : c # use[k] => corrID'[c] = corrID[c]
      BY <2>1, <2>2, <2>3, <2>4
    <2>6. \A c \in Configs : corrID[c] # NoID => corrID'[c] = corrID[c]
      BY <2>5 DEF Complete
    <2>7. \A c \in Configs : corrID[c] = NoID /\ corrID'[c] # NoID => use[k] = c
      BY <2>5
    <2>8. Complete(k) = NoID => NoSource(k)
      BY <1>2, <2>1, ContextIDs, IDsDiffer DEF Complete, Completed, NoSource
    <2>9. ASSUME use[k] \notin supplied, \A l \in Calls : l # k => use[l] # use[k]
          PROVE  Complete(k) = ContextID(k)
      BY <1>1, <1>2, <2>1, <2>9 DEF Complete, Completed
    <2> HIDE DEF Complete
    <2> QED
      BY <1>1, <2>1, <2>2, <2>3, <2>5, <2>6, <2>7, <2>8, <2>9, BuildStep
  <1> QED
    BY <1>3, <1>4

\* A copy with another ID has that one.
LEMMA WithCorrelationIDStep ==
  ASSUME IInv, NEW k \in Calls, WithCorrelationID(k)
  PROVE  IInv'
  <1>1. /\ UNCHANGED <<inputs, closed>> /\ corrID' = corrID /\ pc' = pc
        /\ pc[k] = <<"built">> /\ changed' = changed \cup {k}
    BY DEF WithCorrelationID
  <1>2. /\ TypeOK
        /\ env[k] \in Envelopes /\ use[k] \in Configs
    BY <1>1 DEF IInv, Progress, HasEnvelope
  <1>3. PICK id \in {NoID, Changed(k)} : env' = [env EXCEPT ![k].correlation = id]
    BY DEF WithCorrelationID
  <1>4. id \in IDs
    BY <1>3 DEF IDs
  <1>5. [env[k] EXCEPT !.correlation = id] \in Envelopes
    BY <1>2, <1>4 DEF Envelopes
  <1>6. /\ env'[k] = [env[k] EXCEPT !.correlation = id]
        /\ DOMAIN env' = Calls
        /\ \A j \in Calls \ {k} : env'[j] = env[j]
    BY <1>2, <1>3 DEF TypeOK
  <1>7. Envelopes' = Envelopes
    BY DEF Envelopes, IDs
  <1>8. Progress(k)' /\ Correlated(k)' /\ Refused(k)'
    BY <1>1, <1>2, <1>5, <1>6, <1>7
       DEF Progress, Correlated, Refused, HasEnvelope, inputs
  <1>9. changed' \subseteq Calls /\ changed' \ {k} = changed \ {k}
    BY <1>1, <1>2 DEF TypeOK
  <1> QED
    BY <1>1, <1>2, <1>6, <1>8, <1>9, OthersKeep DEF TypeOK

\* Publish refuses an envelope for an unknown type, after Close, or for a
\* missing ID, and for nothing else.
LEMMA PublishStep ==
  ASSUME IInv, NEW k \in Calls, Publish(k)
  PROVE  IInv'
  <1> DEFINE topic == ForEventType(env[k].type)
             error == EnvelopeError(env[k])
  <1>1. UNCHANGED <<inputs, changed, closed>> /\ corrID' = corrID /\ pc[k] = <<"built">>
    BY DEF Publish
  <1>2. /\ TypeOK
        /\ env[k] \in Envelopes /\ use[k] \in Configs /\ Correlated(k)
    BY <1>1 DEF IInv, Progress, HasEnvelope
  <1>3. /\ topic = "" => env[k].type \in OtherTypes
        /\ error # "none" => error = "ErrCorrelationIDRequired" /\ env[k].correlation = NoID
    BY <1>2, KnownTypes, EnvelopeChecked DEF Envelopes
  <1>4. PICK r :
          /\ Return(k, r)
          /\ \/ r = <<"Publish", "ErrNoTopicForEventType">> /\ topic = ""
             \/ r = <<"Publish", "ErrProducerClosed">> /\ closed
             \/ r = <<"Publish", error>> /\ error # "none"
             \/ r = <<"sent", topic>>
             \/ r = <<"Publish", "send error">>
    BY DEF Publish
  <1> HIDE DEF topic, error
  <1>5. /\ DOMAIN pc' = Calls /\ env' = env
        /\ pc'[k] = r
        /\ \A j \in Calls \ {k} : pc'[j] = pc[j]
    BY <1>2, <1>4 DEF Return, TypeOK
  <1>6. Envelopes' = Envelopes
    BY DEF Envelopes, IDs
  <1>7. /\ r[1] \in {"Publish", "sent"}
        /\ r[1] = "sent" => r[2] = topic
        /\ r[1] = "Publish" => \/ r[2] = "ErrNoTopicForEventType" /\ topic = ""
                               \/ r[2] = "ErrProducerClosed" /\ closed
                               \/ r[2] = error /\ error # "none"
                               \/ r[2] = "send error"
    <2>1. CASE r = <<"Publish", "ErrNoTopicForEventType">> /\ topic = ""
      BY <2>1
    <2>2. CASE r = <<"Publish", error>> /\ error # "none"
      BY <2>2
    <2>3. CASE r = <<"sent", topic>>
      BY <2>3
    <2>4. CASE r = <<"Publish", "ErrProducerClosed">> /\ closed
      BY <2>4
    <2>5. CASE r = <<"Publish", "send error">>
      BY <2>5
    <2> QED
      BY <1>4, <2>1, <2>2, <2>3, <2>4, <2>5
  <1>8. Progress(k)'
    BY <1>1, <1>2, <1>5, <1>6, <1>7 DEF Progress, HasEnvelope, inputs, topic
  <1>9. HasEnvelope(k) /\ ContextID(k)' = ContextID(k) /\ NoSource(k)' = NoSource(k)
    BY <1>1 DEF HasEnvelope, ContextID, NoSource, inputs
  <1>10. Correlated(k)'
    BY <1>1, <1>2, <1>5, <1>9 DEF Correlated, inputs
  <1>11. Refused(k)'
    <2>1. /\ pc'[k] = r /\ env'[k] = env[k] /\ changed' = changed
          /\ use' = use /\ supplied' = supplied /\ withCtx' = withCtx /\ ctx' = ctx
          /\ closed => closed'
      BY <1>1, <1>5 DEF inputs
    <2>2. env[k].correlation = NoID => k \in changed \/ NoSource(k)
      BY <1>2, <1>9 DEF Correlated
    <2>3. r[1] = "Publish" =>
             \/ r[2] = "ErrNoTopicForEventType" /\ env[k].type \in OtherTypes
             \/ r[2] = "ErrProducerClosed" /\ closed
             \/ r[2] = "ErrCorrelationIDRequired" /\ env[k].correlation = NoID
             \/ r[2] = "send error"
      BY <1>3, <1>7
    <2> QED
      BY <2>1, <2>2, <2>3 DEF Refused, NoSource
  <1> QED
    BY <1>1, <1>2, <1>5, <1>7, <1>8, <1>10, <1>11, OthersKeep DEF TypeOK

-----------------------------------------------------------------------------
(* The invariant. *)

\* A Config starts with the ID it came with, and no call has begun.
LEMMA InitInv == Init => IInv
  <1> SUFFICES ASSUME Init PROVE IInv
    OBVIOUS
  <1>1. TypeOK
    <2>1. value \in [Configs -> ConfigValues]
      BY ValuesAssumption DEF Init
    <2>2. corrID \in [Configs -> IDs]
      BY DEF Init, IDs
    <2> QED
      BY <2>1, <2>2 DEF Init, TypeOK
  <1>2. Completed
    BY DEF Init, Completed
  <1>3. ASSUME NEW k \in Calls
        PROVE  Progress(k) /\ Correlated(k) /\ pc[k][1] # "Publish"
    BY DEF Init, Progress, Correlated, HasEnvelope
  <1> QED
    BY <1>1, <1>2, <1>3 DEF IInv, BuiltIsPublished

\* Every step keeps the invariant.
LEMMA NextInv == IInv /\ [Next]_vars => IInv'
  <1> SUFFICES ASSUME IInv, [Next]_vars PROVE IInv'
    OBVIOUS
  <1>1. ASSUME NEW k \in Calls, New(k) PROVE IInv'
    BY <1>1, NewStep
  <1>2. ASSUME NEW k \in Calls, NewWithContext(k) PROVE IInv'
    BY <1>2, NewWithContextStep
  <1>3. ASSUME NEW k \in Calls, WithCorrelationID(k) PROVE IInv'
    BY <1>3, WithCorrelationIDStep
  <1>4. ASSUME NEW k \in Calls, Publish(k) PROVE IInv'
    BY <1>4, PublishStep
  <1>5. CASE CloseProducer \/ UNCHANGED vars
    <2>1. /\ UNCHANGED <<value, supplied, use, withCtx, ctx, corrID, pc, env, changed>>
          /\ closed' \in BOOLEAN
          /\ closed => closed'
      BY <1>5 DEF CloseProducer, vars, inputs, IInv, TypeOK
    <2>2. TypeOK' /\ Completed'
      BY <2>1 DEF IInv, TypeOK, Completed
    <2>4. BuiltIsPublished'
      <3>1. ASSUME NEW k \in Calls PROVE Refused(k)'
        <4>1. Refused(k)
          BY DEF IInv, BuiltIsPublished, Refused
        <4> QED
          BY <2>1, <4>1 DEF Refused, NoSource
      <3> QED
        BY <3>1 DEF BuiltIsPublished, Refused
    <2>3. ASSUME NEW k \in Calls PROVE Progress(k)' /\ Correlated(k)'
      <3>1. Progress(k) /\ Correlated(k)
        BY DEF IInv
      <3>2. ContextID(k)' = ContextID(k) /\ NoSource(k)' = NoSource(k)
        BY <2>1 DEF ContextID, NoSource
      <3> QED
        BY <2>1, <3>1, <3>2 DEF Progress, Correlated, HasEnvelope
    <2> QED
      BY <2>2, <2>3, <2>4 DEF IInv
  <1> QED
    BY <1>1, <1>2, <1>3, <1>4, <1>5 DEF Next

\* Calls that share a Config agree on its ID, and an envelope has the ID that
\* its Config had when it was built, whatever the calls and their order.
THEOREM Inductive == Spec => []IInv
  BY InitInv, NextInv, PTL DEF Spec

\* The checks of New and of Publish agree: what was built is refused for an
\* unknown event type, after Close, or for a correlation ID that nobody gave or
\* its caller took away; otherwise it is sent, or fails to be sent.
THEOREM PublishesWhatIsBuilt == Spec => []BuiltIsPublished
  <1>1. IInv => BuiltIsPublished
    BY DEF IInv
  <1> QED
    BY <1>1, Inductive, PTL

\* Of the calls that share a Config the first one that finds an ID decides.
THEOREM FirstDecides == Spec => []FirstCallDecides
  <1>1. IInv => FirstCallDecides
    <2> SUFFICES ASSUME IInv, NEW j \in withCtx, NEW k \in withCtx,
                        use[j] = use[k], Built(j), Built(k)
                 PROVE  /\ \/ env[j].correlation = env[k].correlation
                           \/ NoID \in {env[j].correlation, env[k].correlation}
                        /\ ctx[k] # {} => env[k].correlation # NoID
                        /\ /\ use[k] \notin supplied
                           /\ \A l \in Calls : l # k => use[l] # use[k]
                           => env[k].correlation = ContextID(k)
      BY DEF FirstCallDecides
    <2>1. j \in Calls /\ k \in Calls
      BY DEF IInv, TypeOK
    <2>2. HasEnvelope(j) /\ HasEnvelope(k)
      BY <2>1 DEF IInv, Progress, Built
    <2>3. Correlated(j) /\ Correlated(k)
      BY <2>1 DEF IInv
    <2> QED
      BY <2>2, <2>3 DEF Correlated, Built, NoSource
  <1> QED
    BY <1>1, Inductive, PTL
=============================================================================

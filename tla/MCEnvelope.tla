------------------------------ MODULE MCEnvelope ------------------------------
(* Instances of Envelope for TLC. *)
EXTENDS Envelope

CONSTANTS k1, k2, c1

TwoCalls == {k1, k2}
OneConfig == {c1}

\* An unknown domain, a known domain with an unknown action, and no action.
UnknownTypes == {<<"fleet", "created">>, <<"ride", "">>}

Good(type) == [type |-> type, version |-> "semver", source |-> "set", payload |-> "value"]
Ride == <<"ride", "requested">>

\* Each event type, and each way in which a Config may be wrong.
SomeValues ==
    {Good(type) : type \in ValidTypes \cup UnknownTypes}
    \cup {[Good(Ride) EXCEPT !.type = <<"", "">>],
          [Good(Ride) EXCEPT !.version = ""],
          [Good(Ride) EXCEPT !.version = "malformed"],
          [Good(Ride) EXCEPT !.source = ""]}
    \cup {[Good(Ride) EXCEPT !.payload = p] : p \in {"nil", "unmarshallable", "null"}}
=============================================================================

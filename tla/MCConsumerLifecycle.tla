------------------------- MODULE MCConsumerLifecycle -------------------------
(* Instances of ConsumerLifecycle for TLC. *)
EXTENDS ConsumerLifecycle

CONSTANTS s1, s2, c1, c2

OneStarter == {s1}
TwoStarters == {s1, s2}
OneCloser == {c1}
TwoClosers == {c1, c2}
=============================================================================

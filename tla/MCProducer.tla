------------------------------ MODULE MCProducer ------------------------------
(* Instances of Producer for TLC. *)
EXTENDS Producer

CONSTANTS b1, b2, c1, c2, p1, p2

OneCaller == {b1}
TwoCallers == {b1, b2}
OneCloser == {c1}
TwoClosers == {c1, c2}
OnePartition == {p1}
TwoPartitions == {p1, p2}

\* One batch for every way to end; two of the first interleave on a partition.
SomeBatches == {<<p1, p1>>, <<"nil">>, <<"noTopic">>, <<"invalid">>,
                <<"unmarshallable">>}
=============================================================================

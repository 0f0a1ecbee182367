---------------------------- MODULE MCEpochTransport ---------------------------
(* The smallest budget is one byte short of the least, and the largest lets   *)
(* several geometries compete; groups may be empty.  One of the stream ids    *)
(* reads as the magic of the adapter and that of FEC.                         *)
EXTENDS EpochTransport

MCAdapters == {[maxSize |-> size, stream |-> stream] : size \in 6..12,
                 stream \in {{}, {<<7, 7>>}, {<<7, 8>>}, {<<AudioWord, FecWord>>}}}
MCAdapter == [maxSize |-> 10, stream |-> {<<7, 7>>}]

MCConfig == [maxSize |-> 99, overhead |-> 0, repair |-> RepairCount, maxSource |-> 3]
MCConfigs == {[MCConfig EXCEPT !.maxSource = most] : most \in 1..4}

MCEpoch == <<2, 3>>
MCGroupings == UNION {[1..count -> {0, 1, 3, 4, 7}] : count \in 0..3}

=============================================================================

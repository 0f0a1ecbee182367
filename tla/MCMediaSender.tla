----------------------------- MODULE MCMediaSender -----------------------------
(* Three kinds of frame, of one block and of two.                           *)
EXTENDS MediaSender

Key == [flags |-> {}, priority |-> "VideoKey"]
Delta == [flags |-> {}, priority |-> "VideoDelta"]
Header == [flags |-> {"Initialization"}, priority |-> "Data"]

Block(source, repair) == [source |-> source, repair |-> repair]

KeyFrame == [stream |-> 2, content |-> Key, latency |-> 2, blocks |-> <<Block(1, 1)>>]
DeltaFrame == [stream |-> 1, content |-> Delta, latency |-> 3, blocks |-> <<Block(2, 1)>>]
NearDelta == [stream |-> 2, content |-> Delta, latency |-> 2, blocks |-> <<Block(1, 1)>>]
HeaderFrame == [stream |-> 1, content |-> Header, latency |-> 3, blocks |-> <<Block(1, 0), Block(1, 0)>>]

Offered ==
  {<<KeyFrame>>, <<DeltaFrame, NearDelta>>, <<NearDelta, KeyFrame>>,
   <<KeyFrame, HeaderFrame>>, <<HeaderFrame, DeltaFrame, KeyFrame>>}

RepairPaths == {[rtt |-> 1, queueDelay |-> 0, spacing |-> 1]}
FetchEstimates == {{2}}

=============================================================================

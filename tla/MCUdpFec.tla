------------------------------- MODULE MCUdpFec -------------------------------
(* Two senders that use the same ids, a third address for a restart, and     *)
(* payloads of the first sender whose blocks differ in geometry but not in   *)
(* symbols; the second sends blocks of one geometry in between.              *)
EXTENDS UdpFec

MCFirstAddress == [s \in Senders |-> s]
MCPayloads ==
  << {<< <<1>>, 0>>, << <<1, 1>>, 0>>, << <<2>>, 0>>, << <<3>>, 0>>}, {<< <<2>>, 0>>} >>

=============================================================================

------------------------------ MODULE MCMediaFec ------------------------------
(* Two streams that number their frames from different starts.              *)
EXTENDS MediaFec

FirstSequences == 1 :> 0 @@ 2 :> 5

=============================================================================

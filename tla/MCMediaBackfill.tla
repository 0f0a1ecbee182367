---------------------------- MODULE MCMediaBackfill ----------------------------
(* Two streams that number their frames from different starts.                *)
EXTENDS MediaBackfill

FirstSequences == 1 :> 0 @@ 2 :> 5

=============================================================================

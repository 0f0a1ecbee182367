----------------------------- MODULE MCAudioSession -----------------------------
(* Two of the histories of MultichannelAudioFec are no part of the view:     *)
(* nothing a step of the session does depends on them, nor any property, so  *)
(* states that differ in them alone have the same future.                    *)
EXTENDS AudioSession

View == <<blockId, sent, audio, returned, pts, receiver, outcomes>>

=============================================================================

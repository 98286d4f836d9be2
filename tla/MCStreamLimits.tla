---------------------------- MODULE MCStreamLimits ----------------------------
(* StreamLimits for TLC. *)
EXTENDS StreamLimits
=============================================================================

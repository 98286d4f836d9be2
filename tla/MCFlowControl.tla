---------------------------- MODULE MCFlowControl ----------------------------
(* FlowControl for TLC: s2 is sent and read to its end, s1 may end before. *)
EXTENDS FlowControl, TLC

CONSTANTS s1, s2

MCMaxData == s1 :> 1 @@ s2 :> 2
=============================================================================

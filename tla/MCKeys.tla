------------------------------- MODULE MCKeys -------------------------------
(* Keys for TLC. *)
EXTENDS Keys

CONSTANTS ClientPackets, ServerPackets

MCMaxPackets == [e \in Endpoints |-> IF e = "client" THEN ClientPackets ELSE ServerPackets]

MCSessionIDs == <<"s1", "s2">>
=============================================================================

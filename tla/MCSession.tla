----------------------------- MODULE MCSession -----------------------------
(* Session for TLC: a handshake in which the messages that need keys        *)
(* surround one that does not, as ServerHello, Certificate and Finished do. *)
EXTENDS Session

MCFlight == <<"sync", "async", "sync">>
=============================================================================

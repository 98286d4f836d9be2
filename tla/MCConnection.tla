---------------------------- MODULE MCConnection ----------------------------
(* Connection for TLC: the handshake of MCSession, and a client that prefers *)
(* a version which some servers do not have.                                 *)
EXTENDS Connection

CONSTANTS v1, v2

MCFlight         == <<"sync", "async", "sync">>
MCVersions       == <<v1, v2>>
MCServerVersions == {{}, {v2}, {v1, v2}}
=============================================================================

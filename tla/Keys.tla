-------------------------------- MODULE Keys --------------------------------
(***************************************************************************)
(* The keys of a connection: the handshake from which both endpoints have  *)
(* them (Handshake), and the updates of the 1-RTT keys after it            *)
(* (KeyUpdate).  The two do not overlap: nothing but 1-RTT packets is left *)
(* when the first packet with the next key is sent, after an ACK.          *)
(***************************************************************************)
EXTENDS KeyUpdate

CONSTANTS SessionIDs, RetryIDs, FrameLens, MaxCryptoStreamOffset, MaxUndecryptablePackets, Buffers

VARIABLES stage,                              \* "handshake" or "established"
          ep, helloRetry, retryRequired       \* of Handshake

vars == <<stage, ep, helloRetry, retryRequired, updateVars>>

HS == INSTANCE Handshake

Init ==
    /\ stage \in {"handshake", "established"}
    /\ HS!HandshakeInit /\ UpdateInit
    /\ stage = "established" => ~helloRetry /\ ~retryRequired

Next ==
    \/ stage = "handshake" /\ HS!HandshakeNext /\ UNCHANGED <<stage, updateVars>>
    \/ stage = "established" /\ UpdateNext /\ UNCHANGED <<stage, ep, helloRetry, retryRequired>>

Spec ==
    /\ Init /\ [][Next]_vars
    /\ stage = "handshake" => HS!HandshakeFairness

-----------------------------------------------------------------------------
\* Handshake!HandshakeNeverFails: cryptoStreamImpl and cryptoSetup never report an
\* error in a handshake of honest endpoints, whatever the network does.
HandshakeNeverFails == HS!HandshakeNeverFails

\* Handshake!KeysDroppedInTime: SetLargest1RTTAcked drops the Initial and Handshake keys
\* when neither endpoint needs them any more.
KeysDroppedInTime == HS!KeysDroppedInTime

\* Handshake!QueuedPacketsAreSafe: packets that wait for their keys keep their
\* packetBuffer, and tryDecryptingQueuedPackets takes them up in time.
QueuedPacketsAreSafe == HS!QueuedPacketsAreSafe

\* Handshake!HandshakeCompletes: the client and a session of the server complete the
\* handshake (handleHandshakeComplete), and drop the keys that were for it, the
\* client if data of its application arrived.
HandshakeCompletes == stage = "handshake" => HS!HandshakeCompletes
=============================================================================

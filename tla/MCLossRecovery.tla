--------------------------- MODULE MCLossRecovery ---------------------------
(* LossRecovery for TLC. *)
EXTENDS LossRecovery

CONSTANTS CryptoFrames, AppFrames, CryptoPNs, OneRTTPNs

MCFramesOf == [s \in {Crypto, OneRTT} |-> IF s = Crypto THEN CryptoFrames ELSE AppFrames]
MCMaxPN == [s \in {Crypto, OneRTT} |-> IF s = Crypto THEN CryptoPNs ELSE OneRTTPNs]
=============================================================================

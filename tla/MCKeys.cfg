SPECIFICATION Spec
CONSTANTS
    SessionIDs <- MCSessionIDs
    RetryIDs = {"r1"}
    FrameLens = {1, 2}
    MaxCryptoStreamOffset = 4
    MaxUndecryptablePackets = 1
    Buffers = {1, 2, 3}
    Endpoints = {"client", "server"}
    ByteBits = 1
    keyUpdateInterval = 1
    MaxPackets <- MCMaxPackets
    ClientPackets = 4
    ServerPackets = 2
INVARIANTS HandshakeNeverFails KeysDroppedInTime QueuedPacketsAreSafe
           OnlyLatePacketsAreDropped SomeoneIsHeard
PROPERTY HandshakeCompletes
CHECK_DEADLOCK FALSE

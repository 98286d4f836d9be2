SPECIFICATION Spec
CONSTANTS
    MaxAckFrameSize = 60
    MinStreamFrameBufferSize = 128
    MaxReceivePacketSize = 1452
    MaxByteCount = 2147483647
    AckDelayExponent = 3
    Streams = {4, 100}
    Crowd = 0
    CrowdSize = 40
    StreamMultiplexLimits = {1, 64}
    MinStreamFrameSize = 128
    WriteSizes = {700}
    MaxWrites = 1
    ControlFrames <- MCControlFrames
    Perspectives = {"client", "server"}
    MaxPacketSize = 1252
    PeerMaxPacketSizes = {0, 1210}
    MinInitialPacketSize = 1200
    Overhead = 16
    MaxNonAckElicitingAcks = 1
    PacketNumberLen1RTT = {2}
    InitialSizes = {1000, 1154, 1155}
    HandshakeSizes = {1500}
    CryptoSizes <- MCCryptoSizes
    AckFrames <- MCAckFrames
    RetryTokenLens = {100}
    CloseReasonLens = {1000}
    MaxInFlight = 1
    MaxEvents = 2
INVARIANTS NoStreamForgotten
PROPERTIES EverythingSurvivesTheWire EverythingHasItsTurn
CHECK_DEADLOCK FALSE

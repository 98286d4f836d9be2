SPECIFICATION Spec
CONSTANTS
    Crypto = Crypto
    OneRTT = OneRTT
    CryptoFrames = {c1, c2}
    AppFrames = {f1}
    NoFrame = NoFrame
    Ping = Ping
    FramesOf <- MCFramesOf
    MaxPN <- MCMaxPN
    CryptoPNs = 1
    OneRTTPNs = 1
    packetThreshold = 2
    MaxNumAckRanges = 1
    MaxTrackedSentPackets = 4
    initialAckElicitingPacketsBeforeAck = 2
    MaxArrivals = 5
    MaxSkips = 0
    MaxFaults = 0

INVARIANT PackerHasKeys
CHECK_DEADLOCK FALSE

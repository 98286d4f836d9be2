SPECIFICATION Spec
CONSTANTS
    Crypto = Crypto
    OneRTT = OneRTT
    CryptoFrames = {c1, c2}
    AppFrames = {f1}
    NoFrame = NoFrame
    Ping = Ping
    FramesOf <- MCFramesOf
    MaxPN <- MCMaxPN
    CryptoPNs = 1
    OneRTTPNs = 3
    packetThreshold = 2
    MaxNumAckRanges = 2
    MaxTrackedSentPackets = 4
    initialAckElicitingPacketsBeforeAck = 2
    MaxArrivals = 5
    MaxSkips = 1
    MaxFaults = 1
INVARIANTS FramesTracked AcksExact
PROPERTY FramesArrive
CHECK_DEADLOCK FALSE

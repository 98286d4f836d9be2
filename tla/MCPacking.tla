----------------------------- MODULE MCPacking -----------------------------
(* PacketPacker for TLC, and the frames whose encoding is checked. *)
EXTENDS PacketPacker

CONSTANTS InitialSizes, HandshakeSizes

MCCryptoSizes == [l \in CryptoLevels |-> IF l = "Initial" THEN InitialSizes ELSE HandshakeSizes]

Ack(ranges) ==
    [type |-> "Ack", DelayTime |-> 800,
     AckRanges |-> [i \in DOMAIN ranges |-> [Smallest |-> ranges[i][1], Largest |-> ranges[i][2]]]]

MCAckFrames == {Ack(<<<<90000, 95000>>, <<0, 20000>>>>)}

MCControlFrames == {[type |-> "NewToken", TokenLen |-> 1050]}

-----------------------------------------------------------------------------
(* Frames and headers at the limits of the variable-length integers. *)

Nums == {0, 63, 64, 16383, 16384, 1073741823, 1073741824, 2147483647}
Lens == {0, 1, 63, 64, 1000}

\* Ranges with a packet missing between them, from the top; the gaps and lengths
\* need one byte, or eight in all.
ManyRanges(n, width) == Ack([i \in 1 .. n |-> <<2 * width * (n - i), 2 * width * (n - i) + width - 1>>])

SampleFrames ==
    [type : {"ResetStream"}, StreamID : Nums, ErrorCode : {0, 65535}, ByteOffset : Nums]
    \cup [type : {"StopSending"}, StreamID : Nums, ErrorCode : {0, 65535}]
    \cup [type : {"MaxData"}, ByteOffset : Nums]
    \cup [type : {"MaxStreamData"}, StreamID : Nums, ByteOffset : Nums]
    \cup [type : {"MaxStreams"}, Uni : BOOLEAN, MaxStreamNum : Nums]
    \cup [type : {"DataBlocked"}, DataLimit : Nums]
    \cup [type : {"StreamDataBlocked"}, StreamID : Nums, DataLimit : Nums]
    \cup [type : {"StreamsBlocked"}, Uni : BOOLEAN, StreamLimit : Nums]
    \cup [type : {"RetireConnectionID"}, SequenceNumber : Nums]
    \cup [type : {"Ping", "PathChallenge", "PathResponse"}]
    \cup [type : {"Crypto"}, Offset : Nums, DataLen : Lens]
    \cup [type : {"NewToken"}, TokenLen : Lens \ {0}]
    \cup [type : {"NewConnectionID"}, SequenceNumber : {64, 16384}, RetirePriorTo : {0, 64},
          ConnectionID : {Filler(4), Filler(18)}]
    \cup [type : {"ConnectionClose"}, IsApplicationError : {FALSE}, ErrorCode : {0, 65535},
          FrameType : Nums, ReasonLen : Lens]
    \cup [type : {"ConnectionClose"}, IsApplicationError : {TRUE}, ErrorCode : {0, 65535},
          FrameType : {0}, ReasonLen : Lens]
    \cup {f \in [type : {"Stream"}, StreamID : Nums, Offset : Nums \ {2147483647}, DataLen : Lens,
                  FinBit : BOOLEAN, DataLenPresent : BOOLEAN] : ~IsEmptyWithoutFin(f)}
    \cup {ManyRanges(n, 1) : n \in 1 .. 4} \cup {ManyRanges(3, 20000)}

SampleHeaders ==
    LET long == [NoHeader EXCEPT !.IsLongHeader = TRUE, !.Version = VersionTLS,
                                 !.DestConnectionID = Filler(8), !.SrcConnectionID = srcConnID]
    IN  {[long EXCEPT !.Type = t, !.TokenLen = IF t = "Initial" THEN n ELSE 0, !.Length = 100,
                      !.PacketNumberLen = l, !.PacketNumber = 77] :
            t \in {"Initial", "0RTT", "Handshake"}, n \in {0, 63, 64}, l \in 1 .. 4}
        \cup {[NoHeader EXCEPT !.DestConnectionID = Filler(n), !.KeyPhase = k,
                               !.PacketNumberLen = l, !.PacketNumber = 77] :
                 n \in {0, 4, 18}, k \in {0, 1}, l \in 1 .. 4}

SampleRetry ==
    [NoHeader EXCEPT !.IsLongHeader = TRUE, !.Version = VersionTLS, !.Type = "Retry",
                     !.DestConnectionID = Filler(8), !.SrcConnectionID = srcConnID,
                     !.OrigDestConnectionID = Filler(18), !.TokenLen = 70]

\* An ACK with more ranges than fit into MaxAckFrameSize, and one that just fits.
LongAcks == {ManyRanges(n, w) : n \in {8, 9, 10, 25}, w \in {1, 100, 20000}}

FrameSurvives(f) ==
    LET bytes == Write(f)
        \* A frame without a length has to be the last.
        after == IF f.type = "Stream" /\ ~f.DataLenPresent THEN <<>> ELSE <<0, 1>>
        got == ParseNext(<<0, 0>> \o bytes \o after, AckDelayExponent, "1RTT")
    IN  /\ ~got.err /\ got.frame = f /\ got.rest = after
        /\ Len(bytes) = Length(f)
        /\ Len(bytes) > 1 /\ after # <<>> => ParseNext(Front(bytes), AckDelayExponent, "1RTT").err

\* All of maxSize is used, except where the length field grows.
SplitIsExact(f, maxSize) ==
    LET split == MaybeSplitOffFrame(f, maxSize)
    IN  /\ split.split = "done"
        /\ Length(split.new) \in {maxSize - 1, maxSize}
        /\ split.new.Offset + split.new.DataLen = split.left.Offset
        /\ split.left.Offset + split.left.DataLen = f.Offset + f.DataLen

\* The highest ranges are kept, and not many fewer than there is room for.
AckIsCut(f) ==
    LET got == ParseNext(Write(f), AckDelayExponent, "1RTT")
    IN  /\ Length(f) <= MaxAckFrameSize /\ Length(f) = Len(Write(f))
        /\ ~got.err /\ got.rest = <<>> /\ ReadAs(got.frame, f)
        /\ got.frame = f \/ Length(f) > MaxAckFrameSize - 20

\* The packet has 100 bytes from its number on, and there is another one behind it.
HeaderSurvives(h) ==
    LET bytes == WriteHeader(h) \o Filler(100 - h.PacketNumberLen)
        next == IF h.IsLongHeader THEN <<192, 0>> ELSE <<>>
        p == ParsePacket(bytes \o next, Len(h.DestConnectionID))
    IN  /\ Len(WriteHeader(h)) = GetLength(h)
        /\ ParseConnectionID(bytes, Len(h.DestConnectionID)) = h.DestConnectionID
        /\ p.res = "ok" /\ p.rest = next /\ ParseExtended(p) = [res |-> "ok", hdr |-> h]

VersionsSurvive(versions) ==
    LET bytes == ComposeVersionNegotiation(srcConnID, Filler(8), versions)
    IN  /\ IsVersionNegotiationPacket(bytes)
        /\ parseHeader(bytes, 4).hdr.SupportedVersions = versions

SamplesSurvive ==
    /\ \A f \in SampleFrames : FrameSurvives(f)
    /\ \A f \in {g \in SampleFrames : g.type = "Stream" /\ g.DataLen = 1000} :
          \A n \in {20, 65, 66, 90, 900} : SplitIsExact(f, n)
    /\ \A f \in LongAcks : AckIsCut(f)
    /\ \A h \in SampleHeaders : HeaderSurvives(h)
    /\ parseHeader(WriteHeader(SampleRetry), 4).hdr = SampleRetry
    /\ \A versions \in {<<VersionTLS, 168430090>>, <<168430090, VersionTLS>>} :
          VersionsSurvive(versions)

\* Whatever the session sends, its peer reads: every packet that the packer
\* returns, as IsReadable says, unless a ClientHello of more than 1154 bytes made
\* it panic (HelloTooLong); parse and Write of every frame
\* type are inverse to each other and Length is the length of what Write writes,
\* at every size of the variable-length integers; MaybeSplitOffFrame fills the
\* room and no more; an ACK is cut to MaxAckFrameSize; and the receiver of a
\* datagram finds the packets that were coalesced in it, the tokens and versions.
EverythingSurvivesTheWire ==
    [][packet # NoPacket /\ packet' = NoPacket => SamplesSurvive /\ (IsReadable \/ HelloTooLong)]_vars
=============================================================================

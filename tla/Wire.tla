-------------------------------- MODULE Wire --------------------------------
(***************************************************************************)
(* The frames of QUIC as bytes (core/wire).  For every type of frame the   *)
(* code has three functions that nothing but testing keeps consistent: the *)
(* parser, Write, and Length, from which the packer computes how much fits *)
(* into a packet.  Each is translated on its own.                          *)
(*                                                                         *)
(* A frame is a record whose field "type" is its Go type.  Data, tokens    *)
(* and reason phrases are represented by their length, connection IDs by   *)
(* their bytes.                                                            *)
(***************************************************************************)
EXTENDS VarInt

CONSTANTS MaxAckFrameSize,          \* 1000
          MinStreamFrameBufferSize, \* 128
          MaxReceivePacketSize,     \* 1452
          MaxByteCount,             \* bound: 2^62 - 1 in the code
          AckDelayExponent          \* 3

MaxConnIDLen == 20

\* Bytes whose content does not matter; no frame type has this value.
Filler(n) == [k \in 1 .. n |-> 255]

Sum(seq) == FoldLeft(LAMBDA a, b : a + b, 0, seq)
Bool(b) == IF b THEN 1 ELSE 0

WriteVarInts(seq) == FoldLeft(LAMBDA bytes, i : bytes \o WriteVarInt(i), <<>>, seq)
VarIntLens(seq) == FoldLeft(LAMBDA n, i : n + VarIntLen(i), 0, seq)
ReadVarInts(r, n) == FoldLeft(LAMBDA s, i : ReadVarInt(s), r, [i \in 1 .. n |-> i])

\* What a parser returns: the frame that Make builds, or an error.
Parsed(r, Make(_)) ==
    IF r.err THEN [err |-> TRUE] ELSE [err |-> FALSE, frame |-> Make(r.vals), rest |-> r.rest]

-----------------------------------------------------------------------------
(* Frames of a type and numbers.  The type byte is the first value read. *)

parsePingFrame(r) == Parsed(ReadByte(r), LAMBDA v : [type |-> "Ping"])
WritePingFrame(f) == <<1>>
LengthPingFrame(f) == 1

parseResetStreamFrame(r) ==
    Parsed(ReadVarInts(ReadByte(r), 3),
           LAMBDA v : [type |-> "ResetStream", StreamID |-> v[2], ErrorCode |-> v[3],
                       ByteOffset |-> v[4]])
WriteResetStreamFrame(f) == <<4>> \o WriteVarInts(<<f.StreamID, f.ErrorCode, f.ByteOffset>>)
LengthResetStreamFrame(f) == 1 + VarIntLens(<<f.StreamID, f.ErrorCode, f.ByteOffset>>)

\* The error code is 16 bits here, whatever the 64 bits of ErrorCode hold.
parseStopSendingFrame(r) ==
    Parsed(ReadUint(ReadVarInt(ReadByte(r)), 2),
           LAMBDA v : [type |-> "StopSending", StreamID |-> v[2], ErrorCode |-> v[3]])
WriteStopSendingFrame(f) ==
    <<5>> \o WriteVarInt(f.StreamID) \o BigEndianBytes(f.ErrorCode % 2 ^ 16, 2)
LengthStopSendingFrame(f) == 1 + VarIntLen(f.StreamID) + 2

parseMaxDataFrame(r) ==
    Parsed(ReadVarInt(ReadByte(r)), LAMBDA v : [type |-> "MaxData", ByteOffset |-> v[2]])
WriteMaxDataFrame(f) == <<16>> \o WriteVarInt(f.ByteOffset)
LengthMaxDataFrame(f) == 1 + VarIntLen(f.ByteOffset)

parseMaxStreamDataFrame(r) ==
    Parsed(ReadVarInts(ReadByte(r), 2),
           LAMBDA v : [type |-> "MaxStreamData", StreamID |-> v[2], ByteOffset |-> v[3]])
WriteMaxStreamDataFrame(f) == <<17>> \o WriteVarInts(<<f.StreamID, f.ByteOffset>>)
LengthMaxStreamDataFrame(f) == 1 + VarIntLen(f.StreamID) + VarIntLen(f.ByteOffset)

parseMaxStreamsFrame(r) ==
    Parsed(ReadVarInt(ReadByte(r)),
           LAMBDA v : [type |-> "MaxStreams", Uni |-> v[1] = 19, MaxStreamNum |-> v[2]])
WriteMaxStreamsFrame(f) == <<IF f.Uni THEN 19 ELSE 18>> \o WriteVarInt(f.MaxStreamNum)
LengthMaxStreamsFrame(f) == 1 + VarIntLen(f.MaxStreamNum)

parseDataBlockedFrame(r) ==
    Parsed(ReadVarInt(ReadByte(r)), LAMBDA v : [type |-> "DataBlocked", DataLimit |-> v[2]])
WriteDataBlockedFrame(f) == <<20>> \o WriteVarInt(f.DataLimit)
LengthDataBlockedFrame(f) == 1 + VarIntLen(f.DataLimit)

parseStreamDataBlockedFrame(r) ==
    Parsed(ReadVarInts(ReadByte(r), 2),
           LAMBDA v : [type |-> "StreamDataBlocked", StreamID |-> v[2], DataLimit |-> v[3]])
WriteStreamDataBlockedFrame(f) == <<21>> \o WriteVarInts(<<f.StreamID, f.DataLimit>>)
LengthStreamDataBlockedFrame(f) == 1 + VarIntLen(f.StreamID) + VarIntLen(f.DataLimit)

parseStreamsBlockedFrame(r) ==
    Parsed(ReadVarInt(ReadByte(r)),
           LAMBDA v : [type |-> "StreamsBlocked", Uni |-> v[1] = 23, StreamLimit |-> v[2]])
WriteStreamsBlockedFrame(f) == <<IF f.Uni THEN 23 ELSE 22>> \o WriteVarInt(f.StreamLimit)
LengthStreamsBlockedFrame(f) == 1 + VarIntLen(f.StreamLimit)

parseRetireConnectionIDFrame(r) ==
    Parsed(ReadVarInt(ReadByte(r)),
           LAMBDA v : [type |-> "RetireConnectionID", SequenceNumber |-> v[2]])
WriteRetireConnectionIDFrame(f) == <<25>> \o WriteVarInt(f.SequenceNumber)
LengthRetireConnectionIDFrame(f) == 1 + VarIntLen(f.SequenceNumber)

-----------------------------------------------------------------------------
(* Frames that carry bytes. *)

parseCryptoFrame(r) ==
    Parsed(SkipCounted(ReadVarInts(ReadByte(r), 2)),
           LAMBDA v : [type |-> "Crypto", Offset |-> v[2], DataLen |-> v[4]])
WriteCryptoFrame(f) == <<6>> \o WriteVarInts(<<f.Offset, f.DataLen>>) \o Filler(f.DataLen)
LengthCryptoFrame(f) == 1 + VarIntLen(f.Offset) + VarIntLen(f.DataLen) + f.DataLen

\* The length of the data is assumed to take one byte, and corrected after.
CryptoMaxDataLen(f, maxSize) ==
    LET headerLen == 1 + VarIntLen(f.Offset) + 1
        maxDataLen == maxSize - headerLen
    IN  IF headerLen > maxSize THEN 0
        ELSE maxDataLen - Bool(VarIntLen(maxDataLen) # 1)

parseNewTokenFrame(r) ==
    Parsed(Require(SkipCounted(ReadVarInt(ReadByte(r))), LAMBDA v : v[2] # 0),
           LAMBDA v : [type |-> "NewToken", TokenLen |-> v[3]])
WriteNewTokenFrame(f) == <<7>> \o WriteVarInt(f.TokenLen) \o Filler(f.TokenLen)
LengthNewTokenFrame(f) == 1 + VarIntLen(f.TokenLen) + f.TokenLen

parseNewConnectionIDFrame(r) ==
    LET seqAndRet == Require(ReadVarInts(ReadByte(r), 2), LAMBDA v : v[3] <= v[2])
        len == Require(ReadByte(seqAndRet), LAMBDA v : v[4] <= MaxConnIDLen)
    IN  Parsed(Skip(ReadCounted(len), 16),
               LAMBDA v : [type |-> "NewConnectionID", SequenceNumber |-> v[2],
                           RetirePriorTo |-> v[3], ConnectionID |-> v[5]])
WriteNewConnectionIDFrame(f) ==
    <<24>> \o WriteVarInts(<<f.SequenceNumber, f.RetirePriorTo>>)
        \o <<Len(f.ConnectionID)>> \o f.ConnectionID \o Filler(16)
LengthNewConnectionIDFrame(f) ==
    1 + VarIntLen(f.SequenceNumber) + VarIntLen(f.RetirePriorTo) + 1 + Len(f.ConnectionID) + 16

parsePathChallengeFrame(r) ==
    Parsed(Skip(ReadByte(r), 8), LAMBDA v : [type |-> "PathChallenge"])
WritePathChallengeFrame(f) == <<26>> \o Filler(8)
LengthPathChallengeFrame(f) == 1 + 8

parsePathResponseFrame(r) ==
    Parsed(Skip(ReadByte(r), 8), LAMBDA v : [type |-> "PathResponse"])
WritePathResponseFrame(f) == <<27>> \o Filler(8)
LengthPathResponseFrame(f) == 1 + 8

\* An application error has no field for the type of the frame.
parseConnectionCloseFrame(r) ==
    LET start == ReadVarInt(ReadByte(r))
        app == ~start.err /\ start.vals[1] = 29
        numbers == ReadVarInts(start, IF app THEN 1 ELSE 2)
    IN  Parsed(SkipCounted(numbers),
               LAMBDA v : [type |-> "ConnectionClose", IsApplicationError |-> app,
                           ErrorCode |-> v[2], FrameType |-> IF app THEN 0 ELSE v[3],
                           ReasonLen |-> v[Len(v)]])
WriteConnectionCloseFrame(f) ==
    <<IF f.IsApplicationError THEN 29 ELSE 28>> \o WriteVarInt(f.ErrorCode)
        \o (IF f.IsApplicationError THEN <<>> ELSE WriteVarInt(f.FrameType))
        \o WriteVarInt(f.ReasonLen) \o Filler(f.ReasonLen)
LengthConnectionCloseFrame(f) ==
    1 + VarIntLen(f.ErrorCode) + VarIntLen(f.ReasonLen) + f.ReasonLen
      + (IF f.IsApplicationError THEN 0 ELSE VarIntLen(f.FrameType))

-----------------------------------------------------------------------------
(* STREAM frames.  The type byte says which of the fields are there; a     *)
(* frame without a length extends to the end of the packet.                *)

parseStreamFrame(r) ==
    LET type == ReadByte(r)
        flag(bit) == (type.vals[1] \div bit) % 2 = 1
        id == ReadVarInt(type)
        offset == IF flag(4) THEN ReadVarInt(id) ELSE id
        length == IF flag(2) THEN ReadVarInt(offset) ELSE offset
        dataLen == IF flag(2) THEN LastVal(length) ELSE Len(length.rest)
        offsetVal(v) == IF flag(4) THEN v[3] ELSE 0
        fits(v) == dataLen < MinStreamFrameBufferSize \/ dataLen <= MaxReceivePacketSize
        data == IF length.err THEN length ELSE Skip(Require(length, fits), dataLen)
    IN  Parsed(Require(data, LAMBDA v : offsetVal(v) <= MaxByteCount - dataLen),
               LAMBDA v : [type |-> "Stream", StreamID |-> v[2], Offset |-> offsetVal(v),
                           DataLen |-> dataLen, FinBit |-> flag(1),
                           DataLenPresent |-> flag(2)])

WriteStreamFrame(f) ==
    <<8 + Bool(f.FinBit) + 2 * Bool(f.DataLenPresent) + 4 * Bool(f.Offset # 0)>>
        \o WriteVarInt(f.StreamID)
        \o (IF f.Offset # 0 THEN WriteVarInt(f.Offset) ELSE <<>>)
        \o (IF f.DataLenPresent THEN WriteVarInt(f.DataLen) ELSE <<>>)
        \o Filler(f.DataLen)

\* Write fails for such a frame.
IsEmptyWithoutFin(f) == f.DataLen = 0 /\ ~f.FinBit

StreamHeaderLen(f) ==
    1 + VarIntLen(f.StreamID) + (IF f.Offset # 0 THEN VarIntLen(f.Offset) ELSE 0)

LengthStreamFrame(f) ==
    StreamHeaderLen(f) + (IF f.DataLenPresent THEN VarIntLen(f.DataLen) ELSE 0) + f.DataLen

\* As for CRYPTO frames, if the frame has a length.
MaxDataLen(f, maxSize) ==
    LET headerLen == StreamHeaderLen(f) + Bool(f.DataLenPresent)
        maxDataLen == maxSize - headerLen
    IN  IF headerLen > maxSize THEN 0
        ELSE maxDataLen - Bool(f.DataLenPresent /\ VarIntLen(maxDataLen) # 1)

\* The frame cut off and what is left of f; or why there is none.
MaybeSplitOffFrame(f, maxSize) ==
    LET n == MaxDataLen(f, maxSize)
    IN  IF maxSize >= LengthStreamFrame(f) THEN [split |-> "not needed"]
        ELSE IF n = 0 THEN [split |-> "no room"]
        ELSE [split |-> "done",
              new |-> [f EXCEPT !.DataLen = n, !.FinBit = FALSE],
              left |-> [f EXCEPT !.Offset = @ + n, !.DataLen = @ - n]]

-----------------------------------------------------------------------------
(* ACK frames: ranges from the highest to the lowest, each encoded by its   *)
(* distance from the one before.  The delay is counted in microseconds.    *)

encodeAckDelay(delay) == delay \div 2 ^ AckDelayExponent

LargestAcked(f) == f.AckRanges[1].Largest
LowestAcked(f) == f.AckRanges[Len(f.AckRanges)].Smallest

\* Range i > 1 is a gap and a length.
encodeAckRange(f, i) ==
    <<f.AckRanges[i - 1].Smallest - f.AckRanges[i].Largest - 2,
      f.AckRanges[i].Largest - f.AckRanges[i].Smallest>>

\* Range i is the first that would be too much.  The code keeps one less than
\* the i - 1 ranges before it.
numEncodableAckRanges(f) ==
    LET upTo(i) == 1 + VarIntLen(LargestAcked(f)) + VarIntLen(encodeAckDelay(f.DelayTime)) + 2
                     + Sum([k \in 1 .. i - 1 |-> VarIntLens(encodeAckRange(f, k + 1))])
        tooLong == {i \in 2 .. Len(f.AckRanges) : upTo(i) > MaxAckFrameSize}
    IN  IF tooLong = {} THEN Len(f.AckRanges) ELSE Min(tooLong) - 2

validateAckRanges(ranges) ==
    /\ ranges # <<>>
    /\ \A i \in DOMAIN ranges : ranges[i].Smallest <= ranges[i].Largest
    /\ \A i \in DOMAIN ranges \ {1} :
          /\ ranges[i - 1].Smallest > ranges[i].Smallest
          /\ ranges[i - 1].Smallest > ranges[i].Largest + 1

\* One more range, below the last: its gap and its length are read.
ParseAckRange(s) ==
    LET r == ReadVarInt(ReadVarInt(s.r))
        gap == r.vals[Len(r.vals) - 1]
        smallest == s.ranges[Len(s.ranges)].Smallest
        largest == smallest - gap - 2
    IN  IF s.r.err THEN s
        ELSE IF r.err \/ smallest < gap + 2 \/ LastVal(r) > largest THEN [s EXCEPT !.r = Failed(r)]
        ELSE [r |-> r, ranges |-> Append(s.ranges, [Smallest |-> largest - LastVal(r),
                                                    Largest |-> largest])]

parseAckFrame(r, ackDelayExponent) ==
    LET start == Require(ReadVarInts(ReadByte(r), 4), LAMBDA v : v[5] <= v[2])
        first == [Smallest |-> start.vals[2] - start.vals[5], Largest |-> start.vals[2]]
        all == FoldLeft(LAMBDA s, i : ParseAckRange(s), [r |-> start, ranges |-> <<first>>],
                        [i \in 1 .. start.vals[4] |-> i])
        valid == Require(all.r, LAMBDA v : validateAckRanges(all.ranges))
        ecn == IF start.vals[1] % 2 = 1 THEN ReadVarInts(valid, 3) ELSE valid
    IN  IF start.err THEN [err |-> TRUE]
        ELSE Parsed(ecn, LAMBDA v : [type |-> "Ack", AckRanges |-> all.ranges,
                                     DelayTime |-> v[3] * 2 ^ ackDelayExponent])

WriteAckFrame(f) ==
    LET n == numEncodableAckRanges(f)
    IN  <<2>> \o WriteVarInts(<<LargestAcked(f), encodeAckDelay(f.DelayTime), n - 1,
                                LargestAcked(f) - f.AckRanges[1].Smallest>>)
              \o FoldLeft(LAMBDA bytes, i : bytes \o WriteVarInts(encodeAckRange(f, i + 1)),
                          <<>>, [i \in 1 .. n - 1 |-> i])

LengthAckFrame(f) ==
    LET n == numEncodableAckRanges(f)
    IN  1 + VarIntLen(LargestAcked(f)) + VarIntLen(encodeAckDelay(f.DelayTime))
          + VarIntLen(n - 1) + VarIntLen(LargestAcked(f) - f.AckRanges[1].Smallest)
          + Sum([i \in 1 .. n - 1 |-> VarIntLens(encodeAckRange(f, i + 1))])

\* sort.Search: the first range that begins at or below p.
AcksPacket(f, p) ==
    /\ LowestAcked(f) <= p /\ p <= LargestAcked(f)
    /\ p <= f.AckRanges[Min({i \in DOMAIN f.AckRanges : p >= f.AckRanges[i].Smallest})].Largest

-----------------------------------------------------------------------------
(* The methods of the interface Frame, and the frameParser. *)

Write(f) ==
    CASE f.type = "Ping" -> WritePingFrame(f)
      [] f.type = "Ack" -> WriteAckFrame(f)
      [] f.type = "ResetStream" -> WriteResetStreamFrame(f)
      [] f.type = "StopSending" -> WriteStopSendingFrame(f)
      [] f.type = "Crypto" -> WriteCryptoFrame(f)
      [] f.type = "NewToken" -> WriteNewTokenFrame(f)
      [] f.type = "Stream" -> WriteStreamFrame(f)
      [] f.type = "MaxData" -> WriteMaxDataFrame(f)
      [] f.type = "MaxStreamData" -> WriteMaxStreamDataFrame(f)
      [] f.type = "MaxStreams" -> WriteMaxStreamsFrame(f)
      [] f.type = "DataBlocked" -> WriteDataBlockedFrame(f)
      [] f.type = "StreamDataBlocked" -> WriteStreamDataBlockedFrame(f)
      [] f.type = "StreamsBlocked" -> WriteStreamsBlockedFrame(f)
      [] f.type = "NewConnectionID" -> WriteNewConnectionIDFrame(f)
      [] f.type = "RetireConnectionID" -> WriteRetireConnectionIDFrame(f)
      [] f.type = "PathChallenge" -> WritePathChallengeFrame(f)
      [] f.type = "PathResponse" -> WritePathResponseFrame(f)
      [] f.type = "ConnectionClose" -> WriteConnectionCloseFrame(f)

Length(f) ==
    CASE f.type = "Ping" -> LengthPingFrame(f)
      [] f.type = "Ack" -> LengthAckFrame(f)
      [] f.type = "ResetStream" -> LengthResetStreamFrame(f)
      [] f.type = "StopSending" -> LengthStopSendingFrame(f)
      [] f.type = "Crypto" -> LengthCryptoFrame(f)
      [] f.type = "NewToken" -> LengthNewTokenFrame(f)
      [] f.type = "Stream" -> LengthStreamFrame(f)
      [] f.type = "MaxData" -> LengthMaxDataFrame(f)
      [] f.type = "MaxStreamData" -> LengthMaxStreamDataFrame(f)
      [] f.type = "MaxStreams" -> LengthMaxStreamsFrame(f)
      [] f.type = "DataBlocked" -> LengthDataBlockedFrame(f)
      [] f.type = "StreamDataBlocked" -> LengthStreamDataBlockedFrame(f)
      [] f.type = "StreamsBlocked" -> LengthStreamsBlockedFrame(f)
      [] f.type = "NewConnectionID" -> LengthNewConnectionIDFrame(f)
      [] f.type = "RetireConnectionID" -> LengthRetireConnectionIDFrame(f)
      [] f.type = "PathChallenge" -> LengthPathChallengeFrame(f)
      [] f.type = "PathResponse" -> LengthPathResponseFrame(f)
      [] f.type = "ConnectionClose" -> LengthConnectionCloseFrame(f)

isAllowedAtEncLevel(f, encLevel) ==
    encLevel = "1RTT" \/ f.type \in {"Crypto", "Ack", "ConnectionClose"}

parseFrame(bytes, ackDelayExponent, encLevel) ==
    LET type == bytes[1]
        r == Reader(bytes)
        exponent == IF encLevel = "1RTT" THEN ackDelayExponent ELSE 3
        res == CASE type \in 8 .. 15 -> parseStreamFrame(r)
                 [] type = 1 -> parsePingFrame(r)
                 [] type \in {2, 3} -> parseAckFrame(r, exponent)
                 [] type = 4 -> parseResetStreamFrame(r)
                 [] type = 5 -> parseStopSendingFrame(r)
                 [] type = 6 -> parseCryptoFrame(r)
                 [] type = 7 -> parseNewTokenFrame(r)
                 [] type = 16 -> parseMaxDataFrame(r)
                 [] type = 17 -> parseMaxStreamDataFrame(r)
                 [] type \in {18, 19} -> parseMaxStreamsFrame(r)
                 [] type = 20 -> parseDataBlockedFrame(r)
                 [] type = 21 -> parseStreamDataBlockedFrame(r)
                 [] type \in {22, 23} -> parseStreamsBlockedFrame(r)
                 [] type = 24 -> parseNewConnectionIDFrame(r)
                 [] type = 25 -> parseRetireConnectionIDFrame(r)
                 [] type = 26 -> parsePathChallengeFrame(r)
                 [] type = 27 -> parsePathResponseFrame(r)
                 [] type \in {28, 29} -> parseConnectionCloseFrame(r)
                 [] OTHER -> [err |-> TRUE]
    IN  IF ~res.err /\ isAllowedAtEncLevel(res.frame, encLevel) THEN res ELSE [err |-> TRUE]

\* PADDING frames are skipped; there may be nothing else.
ParseNext(bytes, ackDelayExponent, encLevel) ==
    LET nonzero == {i \in DOMAIN bytes : bytes[i] # 0}
    IN  IF nonzero = {} THEN [err |-> FALSE, frame |-> [type |-> "none"], rest |-> <<>>]
        ELSE parseFrame(SubSeq(bytes, Min(nonzero), Len(bytes)), ackDelayExponent, encLevel)

\* The frames of a payload, as session.handleUnpackedPacket asks for them; an
\* error ends it.
RECURSIVE ParseFrames(_, _, _)
ParseFrames(bytes, ackDelayExponent, encLevel) ==
    LET next == ParseNext(bytes, ackDelayExponent, encLevel)
    IN  IF next.err THEN <<[type |-> "error"]>>
        ELSE IF next.frame.type = "none" THEN <<>>
        ELSE <<next.frame>> \o ParseFrames(next.rest, ackDelayExponent, encLevel)
=============================================================================

------------------------------- MODULE Header -------------------------------
(***************************************************************************)
(* Packet headers as bytes (core/wire/header.go, extended_header.go,       *)
(* version_negotiation.go).  parseHeader reads what is not protected, up   *)
(* to the packet number; ParseExtended the rest.                           *)
(*                                                                         *)
(* A header is a record with the fields of ExtendedHeader.  The token is   *)
(* represented by its length; typeByte is the first byte as it was read.   *)
(***************************************************************************)
EXTENDS Wire

VersionTLS == 1363628031        \* 0x51474fff
SupportedVersions == {VersionTLS}

NoHeader ==
    [IsLongHeader |-> FALSE, Type |-> "none", Version |-> 0, SrcConnectionID |-> <<>>,
     DestConnectionID |-> <<>>, OrigDestConnectionID |-> <<>>, Length |-> 0, TokenLen |-> 0,
     SupportedVersions |-> <<>>, KeyPhase |-> 0, PacketNumberLen |-> 1, PacketNumber |-> 0]

PacketTypes == <<"Initial", "0RTT", "Handshake", "Retry">>
TypeBits(type) == CHOOSE i \in 0 .. 3 : PacketTypes[i + 1] = type

WithLen(bytes) == <<Len(bytes)>> \o bytes

\* writePacketNumber: as many of the lowest bytes as the header has room for.
writePacketNumber(h) == BigEndianBytes(h.PacketNumber, h.PacketNumberLen)

writeLongHeader(h) ==
    LET retry == h.Type = "Retry"
    IN  <<192 + 16 * TypeBits(h.Type) + (IF retry THEN 0 ELSE h.PacketNumberLen - 1)>>
        \o BigEndianBytes(h.Version, 4)
        \o WithLen(h.DestConnectionID) \o WithLen(h.SrcConnectionID)
        \o (IF retry THEN WithLen(h.OrigDestConnectionID) \o Filler(h.TokenLen)
            ELSE (IF h.Type = "Initial" THEN WriteVarInt(h.TokenLen) \o Filler(h.TokenLen)
                                        ELSE <<>>)
                 \o WriteVarInt(h.Length) \o writePacketNumber(h))

writeShortHeader(h) ==
    <<64 + h.PacketNumberLen - 1 + 4 * h.KeyPhase>> \o h.DestConnectionID \o writePacketNumber(h)

WriteHeader(h) == IF h.IsLongHeader THEN writeLongHeader(h) ELSE writeShortHeader(h)

GetLength(h) ==
    IF h.IsLongHeader
    THEN 1 + 4 + 1 + Len(h.DestConnectionID) + 1 + Len(h.SrcConnectionID) + h.PacketNumberLen
           + VarIntLen(h.Length)
           + (IF h.Type = "Initial" THEN VarIntLen(h.TokenLen) + h.TokenLen ELSE 0)
    ELSE 1 + Len(h.DestConnectionID) + h.PacketNumberLen

-----------------------------------------------------------------------------
(* What the packetHandlerMap and the client look at first. *)

NoConnID == <<"EOF">>

ParseConnectionID(data, shortHeaderConnIDLen) ==
    IF data = <<>> THEN NoConnID
    ELSE IF data[1] < 128
    THEN IF Len(data) < shortHeaderConnIDLen + 1 THEN NoConnID
         ELSE SubSeq(data, 2, 1 + shortHeaderConnIDLen)
    ELSE IF Len(data) < 6 \/ Len(data) < 6 + data[6] THEN NoConnID
         ELSE SubSeq(data, 7, 6 + data[6])

IsVersionNegotiationPacket(data) ==
    Len(data) >= 5 /\ data[1] >= 128 /\ \A i \in 2 .. 5 : data[i] = 0

\* The versions come with a reserved one in a random place.
ComposeVersionNegotiation(destConnID, srcConnID, greasedVersions) ==
    <<255>> \o BigEndianBytes(0, 4) \o WithLen(destConnID) \o WithLen(srcConnID)
        \o FoldLeft(LAMBDA bytes, v : bytes \o BigEndianBytes(v, 4), <<>>, greasedVersions)

-----------------------------------------------------------------------------
(* Parsing.  The result has the header, and how it went: "ok", "error", or  *)
(* "unsupported" for a version that leaves the rest uninterpreted.          *)

HeaderError == [res |-> "error"]

parseVersionNegotiationPacket(h, r) ==
    IF r.err \/ r.rest = <<>> \/ Len(r.rest) % 4 # 0 THEN HeaderError
    ELSE [res |-> "ok", rest |-> <<>>,
          hdr |-> [h EXCEPT !.SupportedVersions =
                       [i \in 1 .. Len(r.rest) \div 4 |->
                          BigEndianNumber(SubSeq(r.rest, 4 * i - 3, 4 * i))]]]

\* Retry packets end with the token; the others have a length.
parseTypeSpecific(h, r) ==
    IF h.Type = "Retry"
    THEN LET orig == ReadCounted(ReadByte(r))
         IN  IF orig.err THEN HeaderError
             ELSE [res |-> "ok", rest |-> <<>>,
                   hdr |-> [h EXCEPT !.OrigDestConnectionID = LastVal(orig),
                                     !.TokenLen = Len(orig.rest)]]
    ELSE LET token == IF h.Type = "Initial" THEN SkipCounted(ReadVarInt(r)) ELSE r
             length == ReadVarInt(token)
         IN  IF length.err THEN HeaderError
             ELSE [res |-> "ok", rest |-> length.rest,
                   hdr |-> [h EXCEPT !.TokenLen = IF h.Type = "Initial" THEN LastVal(token) ELSE 0,
                                     !.Length = LastVal(length)]]

parseLongHeader(typeByte, start) ==
    LET version == ReadUint(start, 4)
        r == ReadCounted(ReadByte(ReadCounted(ReadByte(version))))
        v == r.vals
        h == [NoHeader EXCEPT !.IsLongHeader = TRUE, !.Version = v[1],
                              !.DestConnectionID = v[3], !.SrcConnectionID = v[5]]
        typed == [h EXCEPT !.Type = PacketTypes[1 + ((typeByte \div 16) % 4)]]
    IN  IF r.err \/ (v[1] # 0 /\ (typeByte \div 64) % 2 = 0) THEN HeaderError
        ELSE IF v[1] = 0 THEN parseVersionNegotiationPacket(h, r)
        ELSE IF v[1] \notin SupportedVersions THEN [res |-> "unsupported", hdr |-> h]
        ELSE parseTypeSpecific(typed, r)

parseShortHeader(typeByte, start, shortHeaderConnIDLen) ==
    LET r == ReadBytes(start, shortHeaderConnIDLen)
    IN  IF r.err \/ (typeByte \div 64) % 2 = 0 THEN HeaderError
        ELSE [res |-> "ok", rest |-> r.rest,
              hdr |-> [NoHeader EXCEPT !.DestConnectionID = LastVal(r)]]

parseHeader(data, shortHeaderConnIDLen) ==
    LET start == Reader(Tail(data))
    IN  IF data = <<>> THEN HeaderError
        ELSE IF data[1] >= 128 THEN parseLongHeader(data[1], start)
        ELSE parseShortHeader(data[1], start, shortHeaderConnIDLen)

\* A packet with a long header ends where its length says; what follows is the
\* next packet of the datagram.
ParsePacket(data, shortHeaderConnIDLen) ==
    LET p == parseHeader(data, shortHeaderConnIDLen)
        parsedLen == Len(data) - Len(p.rest)
        packetLen == IF p.hdr.IsLongHeader THEN parsedLen + p.hdr.Length ELSE Len(data)
    IN  IF p.res # "ok" THEN p
        ELSE IF Len(data) < packetLen THEN HeaderError
        ELSE [res |-> "ok", hdr |-> p.hdr, parsedLen |-> parsedLen,
              data |-> SubSeq(data, 1, packetLen),
              rest |-> SubSeq(data, packetLen + 1, Len(data))]

\* ExtendedHeader.parse: the first byte, now without protection, tells the key
\* phase and how long the packet number is.
ParseExtended(p) ==
    LET typeByte == p.data[1]
        pnLen == 1 + (typeByte % 4)
        reserved == IF p.hdr.IsLongHeader THEN (typeByte \div 4) % 4 ELSE (typeByte \div 8) % 4
        r == ReadUint(Reader(SubSeq(p.data, p.parsedLen + 1, Len(p.data))), pnLen)
    IN  IF r.err THEN HeaderError
        ELSE [res |-> IF reserved = 0 THEN "ok" ELSE "reserved bits",
              hdr |-> [p.hdr EXCEPT !.PacketNumberLen = pnLen, !.PacketNumber = LastVal(r),
                                    !.KeyPhase = IF p.hdr.IsLongHeader THEN 0
                                                 ELSE (typeByte \div 4) % 2]]
=============================================================================

---------------------------- MODULE PacketPacker ----------------------------
(***************************************************************************)
(* The packetPacker (packet_packer.go) with what it takes frames from: the *)
(* framer, the crypto streams (crypto_stream.go), the retransmission queue *)
(* (retransmission_queue.go) and the ACKs that are due.  Sizes are those   *)
(* of the code; a packet is kept as its header and its frames, and         *)
(* PacketBytes writes them.                                                *)
(*                                                                         *)
(* Keys, arriving packets and the network are choices.  Keys are dropped   *)
(* only when nothing is queued at their level: what happens otherwise is   *)
(* the subject of LossRecovery.                                            *)
(***************************************************************************)
EXTENDS Framer, Header

CONSTANTS Perspectives,
          MaxPacketSize,          \* 1252: getMaxPacketSize for IPv4
          PeerMaxPacketSizes,     \* what the peer may announce; 0 for nothing
          MinInitialPacketSize,   \* 1200
          Overhead,               \* 16
          MaxNonAckElicitingAcks, \* 19
          PacketNumberLen1RTT,    \* what PeekPacketNumber may return
          CryptoSizes,            \* level -> sizes of what TLS may write
          AckFrames,              \* ACK frames that may be due
          RetryTokenLens,         \* lengths of the token of a Retry
          CloseReasonLens,        \* lengths of the reason of a CONNECTION_CLOSE
          StreamMultiplexLimits,  \* what may be configured
          MaxInFlight             \* bound: the congestion window, in packets

VARIABLES
    conn,           \* the packer's and the session's fields that change with the handshake
    handshakeConfirmed, numNonAckElicitingAcks,
    cryptoStream,   \* level -> writeBuf (a length), writeOffset, and whether TLS wrote
    retransmission, \* level -> queue of frames (AddInitial, AddHandshake, AddAppData)
    acks,           \* level -> the ACK frame that is due, or NoFrame
    payload,        \* what composeNextPacket has before the STREAM frames
    packet,         \* the packet just packed, or NoPacket
    inFlight,       \* packets that were sent and neither acknowledged nor lost
    session         \* "open", "closing" (CONNECTION_CLOSE is packed next), "closed"

packerVars == <<handshakeConfirmed, numNonAckElicitingAcks, cryptoStream, retransmission, acks,
                payload, packet>>
sessionVars == <<conn, inFlight, session>>
vars == <<framerVars, packerVars, sessionVars>>

CryptoLevels == {"Initial", "Handshake"}
Levels == CryptoLevels \cup {"1RTT"}

NoPacket == [level |-> "none"]
NoPayload == [frames |-> <<>>, length |-> -1]

srcConnID == <<1, 2, 3, 4>>
TotalLength(frames) == Sum([i \in DOMAIN frames |-> Length(frames[i])])

AckLen(ack) == IF ack = NoFrame THEN 0 ELSE Length(ack)

\* A packer of a client or a server, with Initial keys.
newPacketPacker(p, limit) ==
    [perspective |-> p, maxPacketSize |-> MaxPacketSize, multiplexLimit |-> limit, tokenLen |-> 0,
     destConnID |-> Filler(8), receivedFirstPacket |-> FALSE, apps |-> FALSE,
     sealers |-> [l \in Levels |-> IF l = "Initial" THEN "available" ELSE "not yet"]]

\* The same after the handshake, when applications use the session.
Established(packer) ==
    [packer EXCEPT !.receivedFirstPacket = TRUE, !.apps = TRUE,
                   !.sealers = [l \in Levels |-> IF l = "1RTT" THEN "available" ELSE "dropped"]]

\* Bound: behaviours begin with a handshake, and leave the streams alone, or they
\* begin after it.
Init ==
    /\ conn \in {newPacketPacker(p, Max(StreamMultiplexLimits)) : p \in Perspectives}
                \cup {Established(newPacketPacker("client", l)) : l \in StreamMultiplexLimits}
    /\ FramerInit
    /\ streamQueue # <<>> => conn.apps
    /\ handshakeConfirmed = FALSE
    /\ numNonAckElicitingAcks = 0
    /\ cryptoStream = [l \in CryptoLevels |->
                         [writeBuf |-> 0, writeOffset |-> 0, written |-> conn.apps]]
    /\ retransmission = [l \in Levels |-> <<>>]
    /\ acks = [l \in Levels |-> NoFrame]
    /\ payload = NoPayload
    /\ packet = NoPacket
    /\ inFlight = <<>>
    /\ session = "open"

-----------------------------------------------------------------------------
(* The packet: its header, its frames, its bytes. *)

getShortHeader(pnLen) ==
    [NoHeader EXCEPT !.DestConnectionID = conn.destConnID, !.PacketNumberLen = pnLen]

getLongHeader(encLevel) ==
    [NoHeader EXCEPT !.IsLongHeader = TRUE, !.Type = encLevel, !.Version = VersionTLS,
                     !.DestConnectionID = conn.destConnID, !.SrcConnectionID = srcConnID,
                     !.TokenLen = IF encLevel = "Initial" THEN conn.tokenLen ELSE 0,
                     !.PacketNumberLen = 4, !.Length = conn.maxPacketSize]

getHeader(encLevel, pnLen) ==
    IF encLevel = "1RTT" THEN getShortHeader(pnLen) ELSE getLongHeader(encLevel)

WriteFrames(frames) == FoldLeft(LAMBDA bytes, f : bytes \o Write(f), <<>>, frames)

\* The ACK, the padding, the other frames.
PayloadBytes(p) ==
    (IF p.ack = NoFrame THEN <<>> ELSE Write(p.ack))
        \o [i \in 1 .. p.paddingLen |-> 0] \o WriteFrames(p.frames)

writeAndSealPacketWithPadding(hdr, ack, frames, length, paddingLen, encLevel) ==
    [level |-> encLevel, hdr |-> hdr, ack |-> ack, frames |-> frames, length |-> length,
     paddingLen |-> paddingLen]

\* The errors of writeAndSealPacketWithPadding; what is written has the length
\* that Length tells (IsReadable compares).  A length of the padding below zero is
\* a huge one in the code, as ByteCount is unsigned, and bytes.Repeat panics.
PackError(p) ==
    LET frames == (IF p.ack = NoFrame THEN <<>> ELSE <<p.ack>>) \o p.frames
        written == TotalLength(frames) + p.paddingLen
    IN  IF p.paddingLen < 0 THEN "panic"
        ELSE IF written - p.paddingLen # p.length THEN "payload size inconsistent"
        ELSE IF GetLength(p.hdr) + written > conn.maxPacketSize THEN "packet too large"
        ELSE "none"

writeAndSealPacket(hdr, ack, frames, length, encLevel) ==
    LET pnLen == hdr.PacketNumberLen
        headerLen == GetLength(hdr)
    IN  IF encLevel = "1RTT"
        THEN writeAndSealPacketWithPadding(hdr, ack, frames, length,
                 IF length < 4 - pnLen THEN 4 - pnLen - length ELSE 0, encLevel)
        ELSE IF conn.perspective = "client" /\ hdr.Type = "Initial"
        THEN writeAndSealPacketWithPadding(
                 [hdr EXCEPT !.Length = pnLen + MinInitialPacketSize - headerLen],
                 ack, frames, length, MinInitialPacketSize - Overhead - headerLen - length, encLevel)
        ELSE writeAndSealPacketWithPadding([hdr EXCEPT !.Length = pnLen + Overhead + length],
                 ack, frames, length, 0, encLevel)

\* What goes on the wire; the seal adds Overhead bytes.
PacketBytes(p) == WriteHeader(p.hdr) \o PayloadBytes(p) \o Filler(Overhead)

-----------------------------------------------------------------------------
(* PackPacket, before the handshake is confirmed: a packet of the Initial   *)
(* or the Handshake level goes first.                                      *)

HasCryptoData(l) ==
    cryptoStream[l].writeBuf > 0 \/ retransmission[l] # <<>> \/ acks[l] # NoFrame

\* The level that has something; "none" if there is nothing.
CryptoLevel ==
    IF handshakeConfirmed THEN "none"
    ELSE IF HasCryptoData("Initial") THEN "Initial"
    ELSE IF HasCryptoData("Handshake") THEN "Handshake" ELSE "none"

PopCryptoFrame(s, maxLen) ==
    LET empty == [type |-> "Crypto", Offset |-> s.writeOffset, DataLen |-> 0]
    IN  [empty EXCEPT !.DataLen = Min({CryptoMaxDataLen(empty, maxLen), s.writeBuf})]

\* How many frames GetInitialFrame and its siblings return, one after the other.
NumFitting(queue, maxLen) ==
    Max({k \in 0 .. Len(queue) : TotalLength(SubSeq(queue, 1, k)) <= maxLen})

idle == session = "open" /\ packet = NoPacket /\ payload = NoPayload /\ ~Locked

\* The frames of such a packet: lost ones, or else new data.
CryptoFramesToSend(l, ackLen) ==
    LET room(size) == size - GetLength(getLongHeader(l)) - Overhead - ackLen
        k == NumFitting(retransmission[l],
                        room(IF l = "Initial" THEN MinInitialPacketSize ELSE conn.maxPacketSize))
    IN  IF retransmission[l] # <<>> THEN SubSeq(retransmission[l], 1, k)
        ELSE IF cryptoStream[l].writeBuf > 0
        THEN <<PopCryptoFrame(cryptoStream[l], room(conn.maxPacketSize))>> ELSE <<>>

maybePackCryptoPacket ==
    LET l == CryptoLevel
        ackLen == AckLen(acks[l])
    IN  /\ idle /\ Len(inFlight) < MaxInFlight /\ l # "none"
        /\ \E frames \in {CryptoFramesToSend(l, ackLen)}, hdr \in {getLongHeader(l)} :
              /\ packet' = writeAndSealPacket(hdr, acks[l], frames, ackLen + TotalLength(frames), l)
              /\ IF retransmission[l] # <<>>
                 THEN /\ retransmission' = [retransmission EXCEPT ![l] =
                                              SubSeq(@, Len(frames) + 1, Len(@))]
                      /\ UNCHANGED cryptoStream
                 ELSE /\ cryptoStream' = IF frames = <<>> THEN cryptoStream
                                         ELSE [cryptoStream EXCEPT
                                                 ![l].writeBuf = @ - frames[1].DataLen,
                                                 ![l].writeOffset = @ + frames[1].DataLen]
                      /\ UNCHANGED retransmission
        /\ acks' = [acks EXCEPT ![l] = NoFrame]
        /\ UNCHANGED <<framerVars, sessionVars, handshakeConfirmed, numNonAckElicitingAcks, payload>>

-----------------------------------------------------------------------------
(* PackPacket, for application data: composeNextPacket in three steps, as   *)
(* other goroutines may come in between.                                   *)

\* ACK, retransmissions and control frames, and AppendStreamFrames up to its loop.
composeNextPacket(pnLen, maxFrameSize, ackLen) ==
    LET queue == retransmission["1RTT"]
        lostLen(k) == ackLen + TotalLength(SubSeq(queue, 1, k))
        \* GetAppDataFrame is asked while there is room for MinStreamFrameSize.
        taken(k) == lostLen(k - 1) <= maxFrameSize - MinStreamFrameSize /\ lostLen(k) <= maxFrameSize
        numLost == Max({k \in 0 .. Len(queue) : \A j \in 1 .. k : taken(j)})
    IN  \E lost \in {SubSeq(queue, 1, numLost)} :
        \E control \in {AppendedControlFrames(maxFrameSize - ackLen - TotalLength(lost))} :
        \E length \in {ackLen + TotalLength(lost) + TotalLength(control)} :
           /\ payload' = [ack |-> acks["1RTT"], frames |-> lost \o control, length |-> length,
                          pnLen |-> pnLen]
           /\ round' = NewRound(maxFrameSize - length, conn.multiplexLimit)
           /\ acks' = [acks EXCEPT !["1RTT"] = NoFrame]
           /\ retransmission' = [retransmission EXCEPT !["1RTT"] = SubSeq(@, Len(lost) + 1, Len(@))]
           /\ controlFrames' = SubSeq(controlFrames, 1, Len(controlFrames) - Len(control))

\* Once both keys are gone, no later call looks at them.
PackAppData ==
    /\ idle /\ Len(inFlight) < MaxInFlight /\ CryptoLevel = "none"
    /\ handshakeConfirmed' = (handshakeConfirmed \/ \A l \in CryptoLevels : conn.sealers[l] = "dropped")
    /\ IF conn.sealers["1RTT"] # "available"
       THEN UNCHANGED <<framerVars, payload, acks, retransmission>>
       ELSE /\ \E pnLen \in PacketNumberLen1RTT, ackLen \in {AckLen(acks["1RTT"])} :
               \E hdrLen \in {GetLength(getShortHeader(pnLen))} :
                  composeNextPacket(pnLen, conn.maxPacketSize - Overhead - hdrLen, ackLen)
            /\ UNCHANGED <<stream, notify, activeStreams, streamQueue, numEvents>>
    /\ UNCHANGED <<sessionVars, numNonAckElicitingAcks, cryptoStream, packet>>

LoopStep ==
    /\ Locked /\ ~RoundOver(round)
    /\ PopStreamFrame \/ RequeueStream
    /\ UNCHANGED <<sessionVars, packerVars>>

FinishPacket ==
    /\ Locked /\ RoundOver(round)
    /\ \E streamFrames \in {AppendedStreamFrames(round)}, hdr \in {getShortHeader(payload.pnLen)} :
          LET frames == payload.frames \o streamFrames
              length == payload.length + TotalLength(streamFrames)
              ping == numNonAckElicitingAcks >= MaxNonAckElicitingAcks
          IN  IF frames = <<>> /\ payload.ack = NoFrame
              THEN UNCHANGED <<numNonAckElicitingAcks, packet>>
              ELSE IF frames = <<>> /\ ping
              THEN /\ packet' = writeAndSealPacket(hdr, payload.ack, <<[type |-> "Ping"]>>,
                                                   length + 1, "1RTT")
                   /\ numNonAckElicitingAcks' = 0
              ELSE /\ packet' = writeAndSealPacket(hdr, payload.ack, frames, length, "1RTT")
                   /\ numNonAckElicitingAcks' = IF frames = <<>> THEN numNonAckElicitingAcks + 1
                                                                 ELSE 0
    /\ payload' = NoPayload
    /\ round' = NoRound
    /\ UNCHANGED <<stream, notify, activeStreams, streamQueue, controlFrames, numEvents,
                   sessionVars, handshakeConfirmed, cryptoStream, retransmission, acks>>

-----------------------------------------------------------------------------
(* The other packets. *)

\* When congestion limited.
MaybePackAckPacket ==
    LET l == IF ~handshakeConfirmed /\ acks["Initial"] # NoFrame THEN "Initial"
             ELSE IF ~handshakeConfirmed /\ acks["Handshake"] # NoFrame THEN "Handshake"
             ELSE "1RTT"
    IN  /\ idle /\ Len(inFlight) = MaxInFlight /\ acks[l] # NoFrame
        /\ \E pnLen \in PacketNumberLen1RTT :
              packet' = writeAndSealPacket(getHeader(l, pnLen), acks[l], <<>>, Length(acks[l]), l)
        /\ acks' = [acks EXCEPT ![l] = NoFrame]
        /\ UNCHANGED <<framerVars, sessionVars, handshakeConfirmed,
                       numNonAckElicitingAcks, cryptoStream, retransmission, payload>>

\* With the highest keys there are.
PackConnectionClose ==
    LET l == IF conn.sealers["1RTT"] = "available" THEN "1RTT"
             ELSE IF conn.sealers["Handshake"] = "available" THEN "Handshake" ELSE "Initial"
    IN  /\ session = "closing"
        /\ \E pnLen \in PacketNumberLen1RTT, n \in CloseReasonLens :
              LET ccf == [type |-> "ConnectionClose", IsApplicationError |-> FALSE, ErrorCode |-> 1,
                          FrameType |-> 0, ReasonLen |-> n]
              IN  packet' = writeAndSealPacket(getHeader(l, pnLen), NoFrame, <<ccf>>, Length(ccf), l)
        /\ session' = "closed"
        /\ UNCHANGED <<framerVars, conn, inFlight, handshakeConfirmed, numNonAckElicitingAcks,
                       cryptoStream, retransmission, acks, payload>>

-----------------------------------------------------------------------------
(* The session around the packer. *)

\* SentPacket and the send queue.  An error of the packer closes the session (a
\* panic ends the program).
SendPacket ==
    /\ packet # NoPacket
    /\ packet' = NoPacket
    /\ IF PackError(packet) # "none"
       THEN session' = "closed" /\ UNCHANGED inFlight
       ELSE /\ inFlight' = IF packet.frames = <<>> \/ session # "open" THEN inFlight
                           ELSE Append(inFlight, [level |-> packet.level, frames |-> packet.frames])
            /\ UNCHANGED session
    /\ UNCHANGED <<framerVars, conn, handshakeConfirmed, numNonAckElicitingAcks, cryptoStream,
                   retransmission, acks, payload>>

IsStreamFrame(f) == f.type = "Stream"

AckPacket ==
    /\ idle /\ inFlight # <<>>
    /\ stream' = FoldLeft(frameAcked, stream, SelectSeq(Head(inFlight).frames, IsStreamFrame))
    /\ inFlight' = Tail(inFlight)
    /\ conn' = [conn EXCEPT !.receivedFirstPacket = TRUE]
    /\ UNCHANGED <<notify, activeStreams, streamQueue, controlFrames, numEvents, round, session,
                   packerVars>>

\* ToAckHandlerPacket decided where the frames go: STREAM frames to their
\* streams, which become active, the others to the retransmission queue.
LosePacket ==
    LET p == Head(inFlight)
        lost == SelectSeq(p.frames, IsStreamFrame)
        ids == {lost[i].StreamID : i \in DOMAIN lost} \ activeStreams
        firstOf(id) == Min({i \in DOMAIN lost : lost[i].StreamID = id})
    IN  /\ idle /\ inFlight # <<>>
        /\ Event
        /\ stream' = FoldLeft(queueRetransmission, stream, lost)
        /\ streamQueue' = streamQueue \o SetToSortSeq(ids, LAMBDA a, b : firstOf(a) < firstOf(b))
        /\ activeStreams' = activeStreams \cup ids
        /\ retransmission' = [retransmission EXCEPT ![p.level] =
                                 @ \o SelectSeq(p.frames, LAMBDA f : ~IsStreamFrame(f))]
        /\ inFlight' = Tail(inFlight)
        /\ UNCHANGED <<notify, controlFrames, round, conn, session, handshakeConfirmed,
                       numNonAckElicitingAcks, cryptoStream, acks, payload, packet>>

\* A client hears from the server only once the ClientHello is sent.
HelloSent == cryptoStream["Initial"].written /\ cryptoStream["Initial"].writeBuf = 0

\* A packet arrived at a level with keys: an ACK is due.
AckDue(l) ==
    /\ idle /\ conn.sealers[l] = "available"
    /\ Event
    /\ conn.perspective = "client" => HelloSent
    /\ \E ack \in AckFrames : acks' = [acks EXCEPT ![l] = ack]
    /\ conn' = [conn EXCEPT !.receivedFirstPacket = TRUE]
    /\ UNCHANGED <<queueVars, inFlight, session, handshakeConfirmed, numNonAckElicitingAcks,
                   cryptoStream, retransmission, payload, packet>>

\* TLS writes its flight of a level into the crypto stream.
CryptoWrite(l) ==
    /\ idle /\ conn.sealers[l] = "available" /\ ~cryptoStream[l].written
    /\ \E n \in CryptoSizes[l] :
          cryptoStream' = [cryptoStream EXCEPT ![l] = [@ EXCEPT !.writeBuf = n, !.written = TRUE]]
    /\ UNCHANGED <<framerVars, sessionVars, handshakeConfirmed,
                   numNonAckElicitingAcks, retransmission, acks, payload, packet>>

\* The keys of a level come with the peer's transport parameters or before.
InstallKeys(l) ==
    /\ idle /\ conn.sealers[l] = "not yet"
    /\ conn.perspective = "client" => HelloSent
    /\ l = "1RTT" => conn.sealers["Handshake"] = "available"
    /\ \E n \in IF l = "1RTT" THEN PeerMaxPacketSizes ELSE {0} :
          conn' = [conn EXCEPT !.sealers[l] = "available", !.receivedFirstPacket = TRUE,
                               !.maxPacketSize = IF n = 0 THEN @ ELSE Min({@, n})]
    /\ UNCHANGED <<framerVars, packerVars, inFlight, session>>

\* The tracked packets of the level are forgotten.
DropKeys(l) ==
    /\ idle /\ conn.sealers[l] = "available" /\ cryptoStream[l].written
    /\ conn.sealers[IF l = "Initial" THEN "Handshake" ELSE "1RTT"] = "available"
    /\ l = "Handshake" => conn.sealers["Initial"] = "dropped"
    /\ cryptoStream[l].writeBuf = 0 /\ retransmission[l] = <<>>
    /\ conn' = [conn EXCEPT !.sealers[l] = "dropped"]
    /\ acks' = [acks EXCEPT ![l] = NoFrame]
    /\ inFlight' = SelectSeq(inFlight, LAMBDA p : p.level # l)
    /\ UNCHANGED <<framerVars, session, handshakeConfirmed, numNonAckElicitingAcks, cryptoStream,
                   retransmission, payload, packet>>

\* handleRetryPacket: the Initial packets are queued again, with the token.
HandleRetry ==
    /\ idle /\ conn.perspective = "client" /\ conn.tokenLen = 0
    /\ conn.sealers["Handshake"] = "not yet" /\ ~conn.receivedFirstPacket
    /\ Event
    /\ HelloSent
    /\ \E n \in RetryTokenLens :
          conn' = [conn EXCEPT !.tokenLen = n, !.destConnID = Filler(5)]
    /\ retransmission' = [retransmission EXCEPT !["Initial"] =
                            @ \o FoldLeft(LAMBDA frames, p : frames \o p.frames, <<>>, inFlight)]
    /\ inFlight' = <<>>
    /\ UNCHANGED <<queueVars, session, handshakeConfirmed,
                   numNonAckElicitingAcks, cryptoStream, acks, payload, packet>>

\* Bound: not while the applications are at work.
CloseSession ==
    /\ idle /\ ~conn.apps
    /\ Event
    /\ session' = "closing"
    /\ UNCHANGED <<queueVars, conn, packerVars, inFlight>>

AppStep(s) ==
    /\ session = "open" /\ conn.apps
    /\ \/ StreamWrite(s) \/ StreamWriteDeadline(s) \/ StreamClose(s) \/ StreamCancelWrite(s)
       \/ AddActiveStream(s)
    /\ UNCHANGED <<sessionVars, packerVars>>

QueueControl ==
    /\ session = "open" /\ conn.apps
    /\ QueueControlFrame
    /\ UNCHANGED <<sessionVars, packerVars>>

Next ==
    \/ maybePackCryptoPacket \/ PackAppData \/ LoopStep \/ FinishPacket
    \/ MaybePackAckPacket \/ PackConnectionClose \/ SendPacket
    \/ AckPacket \/ LosePacket \/ QueueControl
    \/ \E l \in Levels : AckDue(l)
    \/ \E l \in CryptoLevels : CryptoWrite(l) \/ DropKeys(l)
    \/ \E l \in {"Handshake", "1RTT"} : InstallKeys(l)
    \/ HandleRetry \/ CloseSession
    \/ \E s \in Streams : AppStep(s)

-----------------------------------------------------------------------------
\* Where the run loop has a packet to compose or to send, and a goroutine may call
\* AddActiveStream: Pack and Add change the state in exactly these states.
Pack == PackAppData \/ LoopStep \/ FinishPacket \/ SendPacket

CanPack ==
    \/ packet # NoPacket \/ Locked
    \/ /\ idle /\ Len(inFlight) < MaxInFlight /\ CryptoLevel = "none"
       /\ \/ conn.sealers["1RTT"] = "available"
          \/ ~handshakeConfirmed /\ \A l \in CryptoLevels : conn.sealers[l] = "dropped"

Add(s) == s \in notify /\ s \notin notify'
CanAdd(s) == session = "open" /\ conn.apps /\ s \in notify /\ ~Locked

\* The run loop calls the packer again and again, what is sent is acknowledged in
\* the end (weak fairness), and a goroutine that waits for the framer's mutex gets
\* it in the end, as Go's mutexes guarantee (strong fairness).
Fairness ==
    /\ []<>~CanPack \/ []<><<Pack>>_vars
    /\ []<>~(idle /\ inFlight # <<>>) \/ []<><<AckPacket>>_vars
    /\ \A s \in Streams : <>[]~CanAdd(s) \/ []<><<Add(s)>>_vars

Spec == Init /\ [][Next]_vars /\ Fairness

-----------------------------------------------------------------------------
\* A FIN that came up without room for it does not count.
HasSomethingToSend(s) ==
    LET str == stream[s]
    IN  \/ str.retransmissionQueue # <<>>
        \/ ~str.canceledWrite /\ str.dataForWriting > 0
        \/ ~str.canceledWrite /\ str.finishedWriting /\ ~str.finSent /\ ~str.finForgotten

\* A stream is queued once while it is active (framer.AddActiveStream,
\* AppendStreamFrames), and a stream with data, a FIN or a lost frame to send is
\* active or its goroutine is about to make it so: no Write, Close or loss is
\* overlooked, wherever it falls in AppendStreamFrames.  Excluded is a Close whose
\* FIN comes up alone when the stream's share of the packet has no room for a byte
\* of data: popNewStreamFrame then claims that there is no more, and it is
\* forgotten.
NoStreamForgotten ==
    /\ IsInjective(streamQueue)
    /\ activeStreams = ToSet(streamQueue) \cup (IF Locked /\ round.at = "popped" THEN {round.id} ELSE {})
    /\ \A s \in Streams :
          session = "open" /\ HasSomethingToSend(s) => s \in activeStreams \cup notify

\* What the receiver makes of a frame: of an ACK, the ranges that could be encoded.
ReadAs(got, f) ==
    IF f.type = "Ack" THEN got.type = "Ack" /\ got.DelayTime = f.DelayTime
                           /\ IsPrefix(got.AckRanges, f.AckRanges)
    ELSE got = IF f.type = "Stream" THEN [f EXCEPT !.DataLenPresent = got.DataLenPresent] ELSE f

\* A client's Initial packet is padded to 1200 bytes, but its CRYPTO frame may take
\* the room of maxPacketSize.  The ClientHello has to be small enough, or sending
\* it panics.
HelloTooLong ==
    /\ conn.perspective = "client" /\ packet.level = "Initial"
    /\ \E i \in DOMAIN packet.frames : packet.frames[i].type = "Crypto"
    /\ packet.length > MinInitialPacketSize - Overhead - GetLength(packet.hdr)

\* A packet that the packer returns can be sent and read: the errors called
\* "PacketPacker BUG" do not happen, it is not larger than the peer and the path
\* allow (the code does not count the seal), a client's Initial has 1200 bytes,
\* the receiver finds the header and the end of the packet, enough bytes to
\* remove the header protection, and the frames that were packed, each allowed
\* at its level.
IsReadable ==
    LET bytes == PacketBytes(packet)
        p == ParsePacket(bytes, Len(conn.destConnID))
        ext == ParseExtended(p)
        payloadLen == Len(bytes) - Len(WriteHeader(packet.hdr))
        body == SubSeq(bytes, Len(bytes) - payloadLen + 1, Len(bytes) - Overhead)
        all == (IF packet.ack = NoFrame THEN <<>> ELSE <<packet.ack>>) \o packet.frames
    IN  /\ PackError(packet) = "none"
        /\ Len(WriteHeader(packet.hdr)) = GetLength(packet.hdr)
        /\ \A i \in DOMAIN all : Len(Write(all[i])) = Length(all[i])
        /\ Len(bytes) <= conn.maxPacketSize
        /\ conn.perspective = "client" /\ packet.hdr.Type = "Initial"
              => Len(bytes) = MinInitialPacketSize
        /\ p.res = "ok" /\ p.rest = <<>> /\ ext.res = "ok"
        /\ ext.hdr = packet.hdr
        /\ Len(bytes) >= p.parsedLen + 4 + 16
        /\ LET got == ParseFrames(body, AckDelayExponent, packet.level)
           IN  /\ Len(got) = Len(all)
               /\ \A i \in DOMAIN all : ReadAs(got[i], all[i])

\* What an application writes and the control frames
\* are sent, unless the data is taken back or the session closes: no stream and
\* no frame waits behind the others for ever (framer's round robin), if the limit
\* of streams per packet ends rounds, or a share is too small for data.  Excluded
\* is the FIN that came up when its share was.
EverythingHasItsTurn ==
    /\ \A s \in Streams :
          HasSomethingToSend(s) ~> (~HasSomethingToSend(s) \/ session # "open")
    /\ controlFrames # <<>> ~> (controlFrames = <<>> \/ session # "open")
=============================================================================

----------------------------- MODULE Handshake -----------------------------
(***************************************************************************)
(* The handshake of a client with a server: which keys exist and are       *)
(* dropped when (core/handshake/crypto_setup.go), the CRYPTO streams       *)
(* (crypto_stream.go, crypto_stream_manager.go), packets that arrive       *)
(* before their keys (session.go) and the buffers that hold them           *)
(* (buffer_pool.go), Retry, and the server's choice of a session for a     *)
(* packet (server.go).                                                     *)
(*                                                                         *)
(* The server does not know a session by the connection ID that the client *)
(* made up: every Initial with that ID creates another session, with an ID *)
(* of its own, and the client goes on with the first one that it hears of. *)
(*                                                                         *)
(* The network loses, repeats, reorders and coalesces packets, and an      *)
(* endpoint sends its CRYPTO data again in frames of any size: whatever    *)
(* could have been sent so far may arrive now.  qtls is external: the      *)
(* messages it writes, the keys it hands over.  How the run loop waits for *)
(* it is in Session; here a message is handled in one step.                *)
(***************************************************************************)
EXTENDS Integers, Sequences, FiniteSets, SequencesExt, FiniteSetsExt

CONSTANTS SessionIDs,               \* bound: the connection IDs that the server generates, a sequence
          RetryIDs,                 \* bound: connection IDs in Retry packets
          FrameLens,                \* bound: sizes of CRYPTO frames
          MaxCryptoStreamOffset,    \* 16 KB, in the units of Stream
          MaxUndecryptablePackets,  \* 10
          Buffers                   \* bound: buffers of a session, 1 .. n

VARIABLES
    ep,              \* endpoint -> its session
    helloRetry,      \* whether qtls sends a HelloRetryRequest
    retryRequired    \* whether the server's AcceptToken demands a token

hsVars == <<ep, helloRetry, retryRequired>>

Client == "client"
Sessions == ToSet(SessionIDs)
Ends == {Client} \cup Sessions
Levels == {"Initial", "Handshake", "1RTT"}

\* External: what qtls writes, in units of a CRYPTO stream; a message ends with
\* the unit that has its type.
Stream(e, l) ==
    LET hello == IF e = Client THEN <<"-", "ClientHello">> ELSE <<"ServerHello">>
    IN  CASE l = "Initial"   -> IF helloRetry THEN hello \o hello ELSE hello
          [] l = "Handshake" -> IF e = Client THEN <<"Finished">>
                                ELSE <<"EncryptedExtensions", "Finished">>
          [] l = "1RTT"      -> IF e = Client THEN <<>> ELSE <<"NewSessionTicket">>

Hello(e) == IF e = Client THEN 2 ELSE 1

newCryptoStream == [rcvd |-> {}, read |-> 0, highestOffset |-> 0, finished |-> FALSE, written |-> 0]

\* newSession and newClientSession.
newEndpoint(id, keyID, dest, orig) ==
    [id |-> id, keyID |-> keyID, destConnID |-> dest, origDestConnID |-> orig,
     receivedRetry |-> FALSE, receivedFirstPacket |-> FALSE,
     openers |-> {"Initial"}, sealers |-> {"Initial"}, keysOf |-> "none",
     crypto |-> [l \in Levels |-> newCryptoStream],
     qtls |-> "runs", handshakeComplete |-> FALSE, received1RTT |-> "nothing",
     undecryptablePackets |-> <<>>, receivedPackets |-> <<>>,
     refCount |-> [b \in Buffers |-> 0], pool |-> {}, failed |-> FALSE]

NoSession == [id |-> "none", failed |-> FALSE]

Exists(e) == ep[e] # NoSession

HandshakeInit ==
    /\ ep = [e \in Ends |->
               IF e = Client
               THEN [newEndpoint(Client, "orig", "orig", "none")
                        EXCEPT !.crypto["Initial"].written = Hello(Client)]
               ELSE NoSession]
    /\ helloRetry \in BOOLEAN /\ retryRequired \in BOOLEAN /\ ~(helloRetry /\ retryRequired)

-----------------------------------------------------------------------------
(* The CRYPTO streams. *)

\* The frame sorter gives out what it has without a gap.
Contiguous(c) == Max({0} \cup {n \in c.rcvd : 1 .. n \subseteq c.rcvd})

Fail(x) == [x EXCEPT !.failed = TRUE]

Written(x, l, n) == [x EXCEPT !.crypto[l].written = @ + n]

checkEncryptionLevel(type) ==
    CASE type \in {"ClientHello", "ServerHello"} -> "Initial"
      [] type = "NewSessionTicket" -> "1RTT"
      [] OTHER -> "Handshake"

\* processTransportParametersForClient: the token of a Retry carried our first
\* destination connection ID to the server.
OnReceivedParams(x, from) ==
    IF x.id = Client /\ ep[from].origDestConnID # x.origDestConnID THEN Fail(x) ELSE x

\* External: the keys of a level; those of qtls are the ones of the server's hello.
KeyOf(x, l) ==
    IF l = "Initial" THEN x.keyID ELSE IF x.id = Client THEN x.keysOf ELSE x.id

HaveKeys(x, read, write) ==
    [x EXCEPT !.openers = @ \cup read, !.sealers = @ \cup write]

\* Result of HandleMessage: the endpoint, and whether the level is finished.
\* again: it is the first of two hellos.
handleMessageForClient(x, type, from, again) ==
    CASE type = "ServerHello" /\ again ->
            [x |-> Written(x, "Initial", Hello(Client)), finished |-> FALSE]
      [] type = "ServerHello" /\ ~again ->
            [x |-> [HaveKeys(x, {"Handshake"}, {"Handshake"}) EXCEPT !.keysOf = from],
             finished |-> TRUE]
      [] type = "EncryptedExtensions" ->
            [x |-> OnReceivedParams(x, from), finished |-> FALSE]
      [] type = "Finished" ->
            [x |-> [Written(HaveKeys(x, {"1RTT"}, {"1RTT"}), "Handshake", 1)
                       EXCEPT !.qtls = "finished"],
             finished |-> TRUE]
      [] type = "NewSessionTicket" -> [x |-> x, finished |-> FALSE]

handleMessageForServer(x, type, from, again) ==
    CASE type = "ClientHello" /\ again ->
            [x |-> Written(x, "Initial", Hello(x.id)), finished |-> FALSE]
      [] type = "ClientHello" /\ ~again ->
            LET written == Written(Written(x, "Initial", Hello(x.id)), "Handshake",
                                   Len(Stream(x.id, "Handshake")))
            IN  [x |-> HaveKeys(OnReceivedParams(written, from), {"Handshake"},
                                {"Handshake", "1RTT"}),
                 finished |-> TRUE]
      [] type = "Finished" ->
            [x |-> [HaveKeys(x, {"1RTT"}, {}) EXCEPT !.qtls = "finished"], finished |-> TRUE]

HandleMessage(x, l, n, from) ==
    LET type == Stream(from, l)[n]
        again == helloRetry /\ l = "Initial" /\ n = Hello(from)
    IN  IF l # checkEncryptionLevel(type) THEN [x |-> Fail(x), finished |-> FALSE]
        ELSE IF x.id = Client THEN handleMessageForClient(x, type, from, again)
        ELSE handleMessageForServer(x, type, from, again)

\* cryptoStreamImpl.HandleCryptoFrame, of a frame with the units lo + 1 .. hi.  (The
\* sorter's own error, for more gaps than a handshake has data, is in FrameSorter.)
PushFrame_AnyIsNew(x, l, lo, hi) ==
    LET c == x.crypto[l]
    IN  IF hi > MaxCryptoStreamOffset THEN Fail(x)
        ELSE IF c.finished
        THEN IF hi >= c.highestOffset THEN Fail(x) ELSE x
        ELSE [x EXCEPT !.crypto[l].highestOffset = Max({@, hi}),
                       !.crypto[l].rcvd = @ \cup (lo + 1 .. hi)]

PushFrame(x, l, lo, hi) ==
    LET c == x.crypto[l]
    IN  IF hi > MaxCryptoStreamOffset THEN Fail(x)
        ELSE IF c.finished
        THEN IF hi > c.highestOffset THEN Fail(x) ELSE x
        ELSE [x EXCEPT !.crypto[l].highestOffset = Max({@, hi}),
                       !.crypto[l].rcvd = @ \cup (lo + 1 .. hi)]

Finish(x, l) ==
    LET c == x.crypto[l]
    IN  IF \E n \in c.rcvd : n > Contiguous(c) THEN Fail(x)
        ELSE [x EXCEPT !.crypto[l].finished = TRUE]

\* cryptoStreamManager.HandleCryptoFrame: the messages that are complete now, until
\* one of them finishes the level.  Returns whether one did.
HandleCryptoFrame(x, l, lo, hi, from) ==
    LET pushed == PushFrame(x, l, lo, hi)
        c == pushed.crypto[l]
        Step(r, n) ==
            IF r.changed \/ r.x.failed THEN r
            ELSE IF Stream(from, l)[n] = "-" THEN r
            ELSE LET m == HandleMessage([r.x EXCEPT !.crypto[l].read = n], l, n, from)
                 IN  [x |-> IF m.finished THEN Finish(m.x, l) ELSE m.x, changed |-> m.finished]
    IN  IF c.finished THEN [x |-> pushed, changed |-> FALSE]
        ELSE FoldLeft(Step, [x |-> pushed, changed |-> FALSE],
                      [i \in 1 .. Contiguous(c) - c.read |-> c.read + i])

\* The packets that were queued go through the channel of received packets again,
\* which has room for some of them (the others are lost).
tryDecryptingQueuedPackets(x, room) ==
    [x EXCEPT !.receivedPackets = @ \o SubSeq(x.undecryptablePackets, 1,
                                        Min({room, Len(x.undecryptablePackets)})),
              !.undecryptablePackets = <<>>]

handleCryptoFrame(x, l, lo, hi, from, room) ==
    LET r == HandleCryptoFrame(x, l, lo, hi, from)
    IN  IF r.changed /\ ~r.x.failed THEN tryDecryptingQueuedPackets(r.x, room) ELSE r.x

-----------------------------------------------------------------------------
(* Packets. *)

\* handleRetryPacket: Initial keys follow the connection ID; what was sent is sent
\* again, with the token.
handleRetryPacket(x, p) ==
    IF \/ x.id # Client \/ x.receivedFirstPacket \/ p.orig # x.destConnID
       \/ p.src = x.destConnID \/ x.receivedRetry
    THEN x
    ELSE [x EXCEPT !.origDestConnID = x.destConnID, !.destConnID = p.src,
                   !.receivedRetry = TRUE, !.keyID = p.src]

\* SetLargest1RTTAcked, with the dropKeys of the run loop.
SetLargest1RTTAcked(x) == [x EXCEPT !.openers = {"1RTT"}, !.sealers = {"1RTT"}]

\* What Unpack returns: GetInitialOpener, GetHandshakeOpener, Get1RTTOpener, and
\* whether the packet was protected with the same key.
Unpack(x, p) ==
    IF p.level \in x.openers
    THEN IF p.key = KeyOf(x, p.level) THEN "ok" ELSE "decryption failed"
    ELSE IF p.level = "Initial" \/ (p.level = "Handshake" /\ "Initial" \notin x.openers)
    THEN "keys dropped"
    ELSE "opener not yet available"

handleFrame_AnyAck(x, p, room) ==
    CASE p.frame = "crypto" -> handleCryptoFrame(x, p.level, p.lo, p.hi, p.src, room)
      [] p.frame = "ack" /\ p.level \in {"Handshake", "1RTT"} -> SetLargest1RTTAcked(x)
      [] OTHER -> x

handleFrame(x, p, room) ==
    CASE p.frame = "crypto" -> handleCryptoFrame(x, p.level, p.lo, p.hi, p.src, room)
      [] p.frame = "ack" /\ p.level = "1RTT" -> SetLargest1RTTAcked(x)
      [] OTHER -> x

\* The client goes on with the session whose packet it could open first.  The
\* receivedPacketHandler acknowledges the first 1-RTT packet whatever is in it
\* (maybeQueueAck), and then the ack-eliciting ones.
handleUnpackedPacket(x, p, room) ==
    LET first == x.id = Client /\ ~x.receivedFirstPacket /\ p.level # "1RTT"
        y == [x EXCEPT !.destConnID = IF first THEN p.src ELSE @, !.receivedFirstPacket = TRUE]
        z == handleFrame(y, p, room)
    IN  IF p.level # "1RTT" THEN z
        ELSE [z EXCEPT !.received1RTT =
                 IF p.frame # "ack" THEN "eliciting" ELSE IF @ = "nothing" THEN "acks" ELSE @]

tryQueueingUndecryptablePacket(x, p) ==
    IF x.handshakeComplete \/ Len(x.undecryptablePackets) + 1 > MaxUndecryptablePackets THEN x
    ELSE [x EXCEPT !.undecryptablePackets = Append(@, p)]

IgnoresSource_Never(x, p) == FALSE

IgnoresSource(x, p) ==
    x.receivedFirstPacket /\ p.level # "1RTT" /\ p.src # x.destConnID

Split_NotCounted(x, b) == x

Split(x, b) == [x EXCEPT !.refCount[b] = @ + 1]

Decrement(x, b) == [x EXCEPT !.refCount[b] = @ - 1]

\* External: a buffer that nothing refers to is garbage, or waits in the pool; both
\* are as good as new.
Collect(x) ==
    LET used == {p.buf : p \in ToSet(x.undecryptablePackets \o x.receivedPackets)}
    IN  [x EXCEPT !.refCount = [b \in Buffers |-> IF b \in used THEN @[b] ELSE 0],
                  !.pool = @ \cap used]

MaybeRelease(x, b) == IF x.refCount[b] = 0 THEN [x EXCEPT !.pool = @ \cup {b}] ELSE x

\* The buffer of a packet that was queued, or that should have been, is kept.
handleSinglePacket(x, p, room) ==
    IF p.level = "Retry" THEN Decrement(handleRetryPacket(x, p), p.buf)
    ELSE IF IgnoresSource(x, p) THEN Decrement(x, p.buf)
    ELSE CASE Unpack(x, p) = "opener not yet available" -> tryQueueingUndecryptablePacket(x, p)
           [] Unpack(x, p) = "ok" -> Decrement(handleUnpackedPacket(x, p, room), p.buf)
           [] OTHER -> Decrement(x, p.buf)

\* The packets of a datagram, in order.
handlePacketImpl(x, datagram, room) ==
    LET b == Head(datagram).buf
        Part(y, i) == handleSinglePacket(IF i > 1 THEN Split(y, b) ELSE y, datagram[i], room)
    IN  Collect(MaybeRelease(FoldLeft(Part, x, [i \in 1 .. Len(datagram) |-> i]), b))

-----------------------------------------------------------------------------
(* What may arrive. *)

Packet(src, l, frame, lo, hi, key, orig) ==
    [src |-> src, level |-> l, frame |-> frame, lo |-> lo, hi |-> hi, key |-> key, orig |-> orig,
     buf |-> 0]

CryptoFrames(n) == {f \in (0 .. n) \X (0 .. n) : f[2] - f[1] \in FrameLens}

\* What e may have sent at a level: an ACK if something of the peer may have arrived,
\* its CRYPTO data, and data: of the application, and the server's NEW_TOKEN.
Sent(e, l) ==
    LET x == ep[e]
        key == KeyOf(x, l)
        acks == CASE l = "Initial" -> x.receivedFirstPacket
                  [] l = "Handshake" -> l \in x.openers
                  [] l = "1RTT" -> x.received1RTT # "nothing"
    IN  IF l \notin x.sealers THEN {}
        ELSE {Packet(e, l, "crypto", f[1], f[2], key, "none") : f \in CryptoFrames(x.crypto[l].written)}
             \cup (IF acks THEN {Packet(e, l, "ack", 0, 0, key, "none")} ELSE {})
             \cup (IF l = "1RTT" THEN {Packet(e, l, "data", 0, 0, key, "none")} ELSE {})

Peers(e) ==
    IF e = Client THEN {s \in Sessions : Exists(s)}
    ELSE IF ep[Client].destConnID = e THEN {Client} ELSE {}

Retries ==
    IF retryRequired THEN {Packet(r, "Retry", "none", 0, 0, "none", "orig") : r \in RetryIDs} ELSE {}

Packets(e) == UNION {Sent(s, l) : s \in Peers(e), l \in Levels} \cup (IF e = Client THEN Retries ELSE {})

\* A datagram is a packet, or two of different levels (unless both can be opened:
\* then they may as well arrive one by one).
Datagrams(e) ==
    {<<p>> : p \in Packets(e)}
    \cup {d \in Packets(e) \X Packets(e) :
             /\ d[1].src = d[2].src /\ d[1].frame = "crypto" /\ d[2].frame # "ack"
             /\ ~({d[1].level, d[2].level} \subseteq ep[e].openers)
             /\ <<d[1].level, d[2].level>> \in {<<"Initial", "Handshake">>, <<"Handshake", "1RTT">>}}

\* getPacketBuffer, for a datagram.
InBuffer(x, d) ==
    LET b == Min({c \in Buffers : x.refCount[c] = 0})
    IN  [x |-> [x EXCEPT !.refCount[b] = 1], d |-> [i \in DOMAIN d |-> [d[i] EXCEPT !.buf = b]]]

-----------------------------------------------------------------------------
(* The steps. *)

Runs(e) == Exists(e) /\ ~ep[e].failed

Becomes(e, x) == ep' = [ep EXCEPT ![e] = x] /\ UNCHANGED <<helloRetry, retryRequired>>

\* handlePostHandshakeMessage waits until qtls.Handshake has returned.
Waits(x, d) ==
    \E i \in DOMAIN d : d[i].level = "1RTT" /\ d[i].frame = "crypto" /\ x.qtls = "finished"

\* The run loop takes a datagram from the network.
Receive(e, d) ==
    LET r == InBuffer(ep[e], d)
    IN  /\ ~Waits(ep[e], d)
        /\ \E room \in 0 .. Len(ep[e].undecryptablePackets) :
              Becomes(e, handlePacketImpl(r.x, r.d, room))

\* The run loop takes a packet that was queued again.
ReceiveQueued(e) ==
    LET x == ep[e]
        p == Head(x.receivedPackets)
    IN  /\ Runs(e) /\ x.receivedPackets # <<>> /\ ~Waits(x, <<p>>)
        /\ \E room \in 0 .. Len(x.undecryptablePackets) :
              Becomes(e, handlePacketImpl([x EXCEPT !.receivedPackets = Tail(@)], <<p>>, room))

\* baseServer.handleInitialImpl: an Initial for a connection ID that is not that of a
\* session.  It has a part of the first ClientHello, and maybe a token, which
\* the server demands or not (a Retry is what it sends otherwise).
handleInitialImpl(i) ==
    LET s == SessionIDs[i] IN
    /\ ~Exists(s) /\ \A j \in 1 .. i - 1 : Exists(SessionIDs[j])
    /\ IF retryRequired THEN ep[Client].receivedRetry ELSE TRUE
    /\ \E f \in CryptoFrames(Hello(Client)) :
          LET dest == ep[Client].keyID
              x == newEndpoint(s, dest, Client, IF retryRequired THEN "orig" ELSE "none")
              r == InBuffer(x, <<Packet(Client, "Initial", "crypto", f[1], f[2], dest, "none")>>)
          IN  Becomes(s, handlePacketImpl(r.x, r.d, 0))

\* qtls.Handshake returns, and RunHandshake: OnHandshakeComplete, and the server's
\* session ticket.
RunHandshake(e) ==
    /\ Runs(e) /\ ep[e].qtls = "finished"
    /\ Becomes(e, [Written(ep[e], "1RTT", Len(Stream(e, "1RTT"))) EXCEPT !.qtls = "returned"])

handleHandshakeComplete(e) ==
    /\ Runs(e) /\ ep[e].qtls = "returned" /\ ~ep[e].handshakeComplete
    /\ Becomes(e, [ep[e] EXCEPT !.handshakeComplete = TRUE])

HandshakeNext ==
    \/ \E e \in Ends :
          \/ Runs(e) /\ \E d \in Datagrams(e) : Receive(e, d)
          \/ ReceiveQueued(e) \/ RunHandshake(e) \/ handleHandshakeComplete(e)
    \/ \E i \in DOMAIN SessionIDs : handleInitialImpl(i)

\* How far a session is: what it has heard of its peer, packets that are queued
\* again, and the end of the handshake.
Position(x) ==
    IF x = NoSession THEN <<>>
    ELSE <<x.receivedRetry, x.receivedFirstPacket, x.openers, [l \in Levels |-> x.crypto[l].rcvd],
           x.received1RTT, Len(x.receivedPackets), x.qtls, x.handshakeComplete>>

\* Whether p is sent until it arrives.  Of the 1-RTT packets that are those with
\* the server's NEW_TOKEN, and ACKs of packets that are themselves repeated; the
\* applications need not send anything.
IsRepeated(p) ==
    p.level = "1RTT" =>
        CASE p.frame = "crypto" -> TRUE
          [] p.frame = "data" -> p.src # Client /\ ep[p.src].handshakeComplete
          [] p.frame = "ack" -> ep[p.src].received1RTT = "eliciting"

NewsArrive(e) ==
    \E p \in {q \in Packets(e) : IsRepeated(q)} :
        LET r == InBuffer(ep[e], <<p>>)
        IN  ~Waits(ep[e], <<p>>) /\ Position(handlePacketImpl(r.x, r.d, 0)) # Position(ep[e])

CanAdvance ==
    \/ \E s \in Sessions : ~Exists(s) /\ (retryRequired => ep[Client].receivedRetry)
    \/ \E e \in Ends : Runs(e) /\ (\/ ep[e].qtls = "finished"
                                   \/ ep[e].qtls = "returned" /\ ~ep[e].handshakeComplete
                                   \/ ep[e].receivedPackets # <<>>
                                   \/ NewsArrive(e))

Advance == \E e \in Ends : Position(ep'[e]) # Position(ep[e])

\* What elicits an ACK is sent again until it is acknowledged, and the goroutines
\* run: the handshake advances as long as it must.  (WF of the steps that do, with their
\* ENABLED spelled out.)
HandshakeFairness == []<>~CanAdvance \/ []<><<Advance>>_hsVars

HandshakeSpec == HandshakeInit /\ [][HandshakeNext]_hsVars /\ HandshakeFairness

-----------------------------------------------------------------------------
\* Whatever is lost, repeated or reordered, no honest endpoint closes the
\* connection during the handshake: neither "received crypto data after change
\* of encryption level" nor "crypto stream has more data to read", no message at
\* a wrong level, no wrong original_connection_id (cryptoStreamImpl, cryptoSetup).
HandshakeNeverFails == \A e \in Ends : ~ep[e].failed

\* The session that the client talks to.
Partner(e) == IF e = Client THEN ep[Client].destConnID ELSE Client

Paired(e) ==
    /\ e \in Ends /\ Exists(e) /\ Partner(e) \in Ends /\ Exists(Partner(e))
    /\ Partner(Partner(e)) = e

\* Keys are dropped in time and not too early (SetLargest1RTTAcked): an endpoint that
\* has no Initial or Handshake keys any more needs nothing of these levels, and
\* neither does its peer.
KeysDroppedInTime ==
    \A e \in Ends :
        Paired(e) /\ ep[e].openers = {"1RTT"} =>
            \A f \in {e, Partner(e)}, l \in {"Initial", "Handshake"} :
                ep[f].crypto[l].finished /\ "1RTT" \in ep[f].openers \cap ep[f].sealers

\* A packet that arrived before its keys waits for them in a buffer that is not
\* used for anything else (packetBuffer), and is not forgotten once they are
\* there (tryDecryptingQueuedPackets).
QueuedPacketsAreSafe ==
    \A e \in Ends : Exists(e) =>
        LET x == ep[e]
            queued == x.undecryptablePackets \o x.receivedPackets
        IN  /\ \A i \in DOMAIN queued :
                  /\ queued[i].buf \notin x.pool
                  /\ x.refCount[queued[i].buf] >=
                        Cardinality({j \in DOMAIN queued : queued[j].buf = queued[i].buf})
            /\ \A p \in ToSet(x.undecryptablePackets) : p.level \notin x.openers

\* The client and one session of the server complete the handshake, and the server
\* drops the keys that it needed for it, even if no application sends anything.  So
\* does the client, if data of its application arrived: an ACK of its ACKs is sent
\* once at most, and may get lost.
HandshakeCompletes ==
    <>[](LET s == ep[Client].destConnID
         IN  /\ Paired(Client)
             /\ ep[Client].handshakeComplete /\ ep[s].handshakeComplete
             /\ ep[s].openers = {"1RTT"}
             /\ ep[s].received1RTT = "eliciting" => ep[Client].openers = {"1RTT"})
=============================================================================

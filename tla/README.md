# A TLA+ model of qperf

qperf replays recorded page loads over QUIC and measures them. Nearly all of
its behaviour is in `quic-go/`, a fork of quic-go that differs from the original
mainly in the framer, where at most `StreamMultiplexLimit` streams share a packet.

This directory holds TLA+ modules for `quic-go/`, TLC configurations that check them
on small instances, and proofs, checked by TLAPS, for instances of any size.
`PROJECT.json` lists components, runs, mutants, source lines, hazards and theorems.

1. [The system and its parts](#1-the-system-and-its-parts)
2. [Modules and code](#2-modules-and-code)
3. [Runs](#3-runs)
4. [Fairness](#4-fairness)
5. [What is proved](#5-what-is-proved)
6. [Where the code and its comments disagree](#6-where-the-code-and-its-comments-disagree)
7. [What is not modelled](#7-what-is-not-modelled)

## 1. The system and its parts

A **session** has a run loop, a goroutine that writes packets (send queue), two
goroutines of the handshake (RunHandshake and qtls), and any number of application
goroutines in Open, Accept, Read, Write and Close. A **client** dials: it runs a session,
and a second one if versions have to be negotiated. A **server** makes a session
for each Initial packet and hands it to Accept. The parts are called from several goroutines,
mostly under a mutex that is released in the middle, and two endpoints meet over a
network that loses, repeats and reorders.

| part | source (under `quic-go/`) | modules | proofs |
| --- | --- | --- | --- |
| streams that are opened and accepted, and their limits | `streams_map*.go` | OutgoingStreams, IncomingStreams, StreamLimits | StreamLimitsProofs |
| flow control, window updates | `core/flowcontrol/`, `window_update_queue.go` | FlowControl | FlowControlProofs |
| reordering of received frames | `frame_sorter.go` | FrameSorter, ReorderBuffer (abstract) | FrameSorterProofs |
| a stream and its halves | `stream.go`, `receive_stream.go`, `send_stream.go` | Stream, ReceiveStream, SendStream | StreamProofs |
| run loop, closing, handshake goroutines, send queue | `session.go`, `send_queue.go`, `core/handshake/crypto_setup.go` | Session, SessionLife (abstract), Connection | ConnectionProofs |
| client, version negotiation, closed sessions | `client.go`, `closed_session.go`, `multiplexer.go` | Client, Connection | ConnectionProofs |
| server, map of packet handlers | `server.go`, `packet_handler_map.go` | Server | ServerProofs |
| loss recovery, ACKs, retransmission | `core/ackhandler/`, `retransmission_queue.go` | LossRecovery, ReceivedPacketHistory | LossRecoveryProofs |
| handshake, CRYPTO streams, queued packets, buffers | `core/handshake/crypto_setup.go`, `crypto_stream*.go`, `session.go`, `buffer_pool.go` | Handshake, Keys | |
| key updates, packet numbers, unpacker | `core/handshake/updatable_aead.go`, `packet_unpacker.go`, `core/protocol/packet_number.go` | KeyUpdate, PacketNumber, Keys | KeyUpdateProofs |
| framer, packer | `framer.go`, `packet_packer.go` | Framer, PacketPacker | |
| frames and headers as bytes | `core/wire/`, `core/utils/varint.go` | VarInt, Wire, Header | |

The modules `MC...` give the constants their values for TLC.

## 2. Modules and code

In every module a section of code between two operations on a mutex (or channel) is one
step, because other goroutines run only in between. Definitions have the names of the
functions they model; a function that releases the mutex is several actions, named
for what is done in each.

**OutgoingStreams, IncomingStreams.** The fields of the two maps. A caller of `OpenStreamSync` is a
small program counter: the fast path, the wait in `select`, the wake-up, the return through
a cancelled context. A wait channel is identified with its place in the queue; closing it twice
is `panicked`. `newStreamChan` has no buffer, so a send succeeds only while an
acceptor is parked. **StreamLimits** instantiates both. Every limit ever announced and every
stream ever opened stays deliverable. The peer of the opener is such an acceptor,
or any peer, which announces limits as it likes.

**FlowControl.** One direction: the send windows of one endpoint, the controllers and
the window update queue of the other. The callers are those of `receive_stream.go`: Read, which copies, counts and
completes in separate steps, CancelRead, and the run loop, each of which may call `Abandon`. `AddBytesRead` is two steps, the check and the
queueing. `counted` records what the connection has counted for each stream. The clock-driven doubling of the window is a choice.

**FrameSorter** models `push` on intervals, and which pooled buffer holds the data of
which entry. **ReorderBuffer** is what a reader is owed: bytes in order, once, and
all of the contiguous prefix.

**ReceiveStream.** Read (wait, copy and accounting are separate steps), CancelRead,
deadlines, STREAM, RESET_STREAM, shutdown, and `streamCompleted`, which runs after the
mutex was released. The sorter returns the frame that starts at its position; once frames that differ have
overlapped (`overlapped`), it returns any piece it may have, or keeps it back, as FrameSorter does.
**SendStream.** Write, Close, CancelWrite, deadlines, popping and splitting of frames, their
acknowledgement or loss, STOP_SENDING, MAX_STREAM_DATA and MAX_DATA. A packet's room is
chosen for each pop; `active` says whether the framer still knows the stream.
**Stream** follows one half in detail; the other one completes at any time or never.

**Session.** `closeChan` with its one slot, `closeOnce`, the run loop's blocking points
(`select`, `Send`, the hand-over of keys), the unbuffered channels of the handshake, the
write goroutine that stops at a write error. **SessionLife** is what those outside rely on: one
reason to close, the matching answer to the map of packet handlers, then the
return of `run`. Whether CONNECTION_CLOSE is sent is a choice, since packing it may fail. **Client** has a session of which only
SessionLife is known, and that its run loop may hang for good (`SessionHangs`), the goroutines that
negotiate a version, the read loop and the closed session left in the map.
**Connection** composes: a behaviour is about the session in detail or about the client.

**Server.** The server's mutex and the packet handler map's mutex with their holders,
one goroutine per Initial packet, one per new session, `listen`, Accept and Close. A
session is what Session says of one that stops.

**LossRecovery.** A sender with two packet number spaces (`Crypto` stands for Initial and
Handshake) and a receiver. A packet has one frame. `h` is the sent packet handler, `r`
the trackers of the receiver, whose ranges are the sequences of **ReceivedPacketHistory**. When the
clock says a packet is old enough is a choice that respects the order of sending.

**Handshake.** A client and the sessions of a server, at message level: levels and keys, the
CRYPTO streams with their limit, what was received in 1-RTT packets (the first is acknowledged whatever it holds, others only if
they hold more than ACKs), the queue of undecryptable packets, the reference counts of coalesced packets,
Retry, HelloRetryRequest. qtls is external: which message it writes after which, and
the keys it hands over. **KeyUpdate.** Two endpoints, the phase bit, truncated packet numbers
(**PacketNumber**), late ACKs. **Keys** runs one after the other.

**Framer**, **PacketPacker.** Two streams that are written, closed and cancelled while packets are put
together, the round of active streams with the share that each gets and the limit of streams per packet, CRYPTO data, ACKs, padding and
headers, with the sizes of the code. `Crowd` is an entry of the queue that stands for many streams that were completed while queued. A negative
padding, which is a huge number in the code, is the error "panic". **Wire**, **Header**, **VarInt** have parser, Write and Length of each
frame and header, each translated on its own, and every packet is written and read back.

## 3. Runs

| run | shows | bounds | distinct states |
| --- | --- | --- | --- |
| MCStreamLimits | stream numbers within the limit, nobody falsely accused, credit exactly the free capacity; it reaches waiters, closing unblocks every call | 3 callers, 1 acceptor, 2 streams at a time, 3 in all | 405,414 |
| MCFlowControl | no false accusation, buffers bounded, everything is read unless bytes are miscounted | 2 streams of 2 bytes, shared window of 1 | 531,929 |
| MCFrameSorter | gaps exact, next bytes only; for whole retransmissions the prefix is delivered and buffers are held | 6 bytes, 3 gaps, 5 arrivals | 269,798 |
| MCStream | bytes read in order and counted once, every byte sent in one place, the final offset final, one deletion; Read and Write return, a closed stream completes | 2 bytes read, 2 written, room 0 to 2, 1 loss | 381,902 |
| MCConnection | Session implements SessionLife, closed when Close returns, packet numbers continue in a new session; closing and dialing end | 1 closer, 1 destroyer, bursts of 2, 2 versions, 2 negotiation packets | 113,640 |
| MCServer | accept queue counted exactly, closing closes the sessions of the map; Accept and Close return, stopped sessions leave the map | 2 connections, 1 acceptor, 1 closer, queue of 1 | 419,204 |
| MCLossRecovery | no frame forgotten, bytes in flight exact, timer armed; ACKs exact, valid and never empty; frames arrive | 2 + 1 frames, 1 fault, 1 skipped number, 2 ranges | 234,499 |
| MCPacking | every packet survives the wire, no stream forgotten, everything has its turn | real sizes, streams 4 and 100, 40 completed ones or none, limit 1 or 64, ClientHello of 1000, 1154 or 1155 bytes, 2 events | 348,694 |
| MCKeys | handshake never fails, keys dropped in time, queued packets kept; only late packets dropped, endpoints never lose each other; the handshake completes | 1 Retry, 3 buffers, 1 bit per byte of a packet number, 4 + 2 packets | 273,738 |
| MCFrameSorterStall | violation: see section 6 | 4 bytes, one split | |
| MCSessionHang | violation: see section 6 | no destroyer | |
| MCLossRecoveryKeys | violation: see section 6 | no fault needed | |

*Why the bounds are enough.* They are the smallest that let the cases meet: three callers, so that
one is woken, one cancelled and one takes the fast path; two streams, so that each can use
up the connection's window of the other; three gaps and five arrivals, so that a frame spans two gaps and
is covered twice; room 0, so that not even a header fits; a queue of one accepted session,
so that it is full; two ranges, so that they merge and the oldest is deleted; narrow packet numbers, so that
they wrap around; stream 100, so that its ID takes two bytes; 40 completed streams, so that the share of a packet has no room for a byte
of data; limit 1, so that a round ends before all streams had their turn; 1154 bytes, the longest ClientHello that fits without a token, and 1155. For most invariants the proofs of
section 5 remove the bounds.

`CHECK_DEADLOCK FALSE` is set where the system ends: all callers returned, the session or
server is closed, the bytes or packet numbers of the instance are used up. MCStream checks for deadlock.

Every property has a mutant: a plausible slip in one modelled definition (the operator
`Definition_Slip` above it) under which TLC finds the property violated.

## 4. Fairness

Only what the code does by itself is assumed, and nothing of packets, timers or the
application where the text does not say so.

* *Goroutines that can go on do* (weak fairness of each, as Go's scheduler starves nobody): callers and
  acceptors in StreamLimits, Read and Write in Stream, the run loop, send queue and handshake in
  Session, the goroutines of Client. In Server and LossRecovery, whose instances are finite, one
  condition for all of them together, which assumes less.
* *Mutexes are fair* (strong fairness): `createNewTLSSession` and `destroy` of the client wait for `c.mutex`, which
  others hold in turn; a goroutine in `AddActiveStream` waits for the framer's mutex.
* *The network delivers what is sent again and again*, since the code retransmits what is not
  acknowledged: in FlowControl, LossRecovery, Handshake, PacketPacker and the sending half of a stream, where a packet
  with room for data comes in the end (strong fairness of `PopData`). In Handshake these are the CRYPTO frames, the NEW_TOKEN of
  the server, and the ACKs of packets that are repeated themselves (`IsRepeated`); that an application sends anything, or that an ACK
  of an ACK arrives, is not assumed.
* *The application keeps reading* in FlowControl, FrameSorter and Stream. *A handshake that does
  not complete times out* in Connection. Of a run loop that hangs nothing is assumed.

In Handshake and PacketPacker weak fairness is spelled out with the states in which the step can be taken, because
TLC would have to compute all packets to evaluate ENABLED.

Some liveness properties name the state in which the code does stop, so that they say that
there is no other: `WriteAndCloseEnd` (a FIN without room), `ClosingEnds` (a send queue or
alert channel without reader), `ClosingAndSessionsEnd` (two locks taken in opposite order),
`CreditReachesWaiters` (a cancelled caller has taken the wake-up), `DialingEnds` (a run loop that hangs, a socket that nobody
closes, a closed session that is in no map), `EverythingIsRead` (bytes counted twice or not at all), `ReadIsUnblocked` (frames that
overlapped), `EverythingHasItsTurn` (again the FIN), `HandshakeCompletes` (the keys of a client that only sends ACKs). Section 6 tells of each.

## 5. What is proved

Eight modules hold theorems. Each is about every value of the constants that satisfies the `ASSUME` of its
module: that sets of goroutines, streams and connections are finite where they are counted,
and that bounds are natural numbers. A bound on a run (bytes, arrivals, losses, packets) is any number here.
The assumptions that say more are named below.

| theorem | says | property |
| --- | --- | --- |
| FlowControlProofs `TypeCorrect` | no counter is ever negative | TypeOK |
| `HonestSenderNeverFails` | a sender within its limits is never accused | NoFalseError |
| `BufferBound` | no controller buffers more than its maximum | BufferedDataBounded |
| `LimitsNeverTakenBack` | no step lowers an announced window | |
| `ReadsCountedOnce` | the connection counts the sum of its streams, and a stream neither cancelled nor reset once | |
| StreamLimitsProofs `LimitsTypeCorrect` | types of both maps | TypeOK |
| `OpenersObeyLimits` | numbers unique and within limits, nobody falsely refused | StreamsWithinLimit |
| `CreditCorrect` | announced limit = numbers used + free slots | CreditIsExact |
| `NoChannelPanic` | no wait channel closed twice or while nil | |
| FrameSorterProofs `GapsCorrect` | the gaps are what is missing | GapsAreExact |
| `BuffersCorrect` | buffers held while used, if frames are retransmitted whole | BuffersAreHeld |
| `DeliversOnlyTheNextBytes` | refinement of ReorderBuffer's safety, for any frames | (half of PrefixIsDelivered) |
| StreamProofs `StreamTypeCorrect` | types; numOutstandingFrames never negative | StreamTypeOK |
| `ReadOnceInOrder` | Read returns the stream; flow control counts it once | ReadAndCountedOnce |
| `BytesNeverForgotten` | a byte sent is acknowledged, in flight or queued | EveryByteOnce |
| `DeletedOnce` | deleted only when both halves completed, and once | DeletedOnceWhenCompleted |
| `FinalOffsetStays` | nothing new is sent after FIN or RESET_STREAM | FinalOffsetIsFinal |
| ConnectionProofs `SessionImplementsLife` | refinement: Session implements SessionLife | ImplementsLife |
| `ClosedBeforeReturning` | Close returns only when everything is closed; whenever CONNECTION_CLOSE was sent, the session that repeats it is in the map | ClosedWhenReturned |
| `ConnectionTypeCorrect` | types of session and client | ConnectionTypeOK |
| `NewSessionIsSafe` | a recreated session continues the packet numbers, once | NewSessionContinues |
| ServerProofs `QueueLenCorrect` | the atomic counter equals the waiting sessions | QueueLenExact |
| `CloseWaitsForSessions` | no session of the map runs when Close returned | ClosedServerHasNoSessions |
| `NoDoubleClose` | the error channel is closed once | |
| LossRecoveryProofs `FramesNeverForgotten` | a frame is in one place, bytesInFlight exact, timer armed | FramesTracked |
| `AcksAreExact` | ACKs name what was received, are not empty, are accepted | (the part of AcksExact along behaviours) |
| KeyUpdateProofs `PacketsAreOpened` | only late packets fail to open | OnlyLatePacketsAreDropped |
| `EndpointsAreHeard` | never more than one phase apart, never both deaf | SomeoneIsHeard |

None of the invariants is inductive as it stands. The strengthenings, and why they are needed:

* **FlowControl** (`IInv`): no limit in the network or at the sender exceeds the receiver's window, the receiver
  knows no byte that was not sent, the sent and received bytes of the connection are the sums of those of the streams,
  no window reaches further than its size beyond what was counted as read. What is counted as read has an invariant of its own (`CountInv`):
  the steps of a caller that has copied and not yet counted, the sum over the streams, and one count for each byte of a stream that is
  neither cancelled nor reset. Sums over a set of streams would need
  induction, so they are cardinalities: `ByteSet(f)` is the set of bytes below each stream's
  offset, and pointwise order is set inclusion. Assumes `ConfigOK` (maxima not below the initial
  windows; the code checks only one of the two, section 6), except for `TypeCorrect`.
* **StreamLimits** (`CompositionInv`): a wait channel is nil exactly below `lowestInQueue`, and until
  CloseWithError only those were closed (`QueueInv`); what the incoming map has opened, is
  opening and may open (`IncomingInv`); the opener knows of no limit that was not announced (`LimitsInv`).
  A step belongs to one map and leaves the other alone.
* **FrameSorter** (`SorterInv`): the gaps are a list (`IsGapList`: not empty, apart, the last without end); lemmas
  say which gap GapOf and EndGap choose in such a list, where a frame is cut, and that `GapsAfter` is again a list
  that lacks exactly the frame. `DataInv`: an entry has bytes from its key on, all received, and all bytes
  before `readPos` were. If no two frames overlap (`WholeInv`) entries are whole frames, and each
  one received and not read waits; then every buffer has one user (`BuffersInv`).
* **Stream** (`StreamInv`): the frames in flight and the ones queued are disjoint intervals that, with the bytes acknowledged,
  make up all bytes sent, and one of them has the FIN (`WellCut`, through popping, splitting, losing, acknowledging);
  a completed half has nothing outstanding, and the call of `onStreamCompleted` was made or one goroutine is
  about to make it (`SendCompletes`). Receiving, with overlapping frames too: the positions of sorter, frame and Read (`ReadPositions`), who may run
  `streamCompleted` (`WhoCompletes`), and that the flow controllers know of all bytes that Read returned but the
  ones it copied just now (`StreamCounts`, `ConnectionCounts`). `Deletions` relates both to the deletion.
* **Connection**: a close error is in `closeChan` or was taken from it, and there is one if and only if `closeOnce`
  was used (`CloseInv`). The many steps of Session are of five kinds for those outside, and each kind is a step of SessionLife or
  a stutter. `ReturnInv` adds what has stopped by when. For the client, `ClientInv` says where dialer, runner
  and session can be at a time (`Stage`), who holds `c.mutex` (`Negotiation`), and which packet number is next (`Numbers`).
* **Server** (`SessionsInv`): one call of Close at most gets beyond the lock (`MutexInv`), a session that runs and was
  added is in the map (`MapInv`), Close waits for all of those (`WaitInv`).
* **LossRecovery** (`Inv`): `SenderInv` is the property with types and the fact that outstanding packets have numbers
  given away. The receiver's ranges are ordered and apart; `addToRanges` inserts, extends or merges, and lemmas
  for each of the three say that the ranges stay so and gain exactly p. `ProtocolInv` connects the ends: packets and
  ACKs in the network have numbers that were sent, and what the peer confirmed lies below the packet that says so, so
  that IgnoreBelow never empties an ACK that is due.
* **KeyUpdate** (`KeysInv`): later packets have no older key, an ACK's key is not older than those of the packets
  it is for, what is no longer outstanding was received, and so much of a number is in a packet that the receiver cannot
  take it for another (`NumberInv`). Assumes fewer than 2^31 packets (`2 ^ (ByteBits * 4 - 1)`), which 4 bytes tell apart.

**Only model-checked:**

* liveness, and with it the second half of `PrefixIsDelivered`: TLAPS has no reasoning about fairness or ENABLED;
* `ExactForAllArrivals` in AcksExact: it is about a fold over sequences of arrivals, which needs induction over data
  (what one arrival does to the ranges is proved);
* `NoStreamForgotten` and `EverythingSurvivesTheWire`: Wire, Header and the packer above them use recursive operators,
  which the prover cannot take;
* `HandshakeNeverFails`, `KeysDroppedInTime`, `QueuedPacketsAreSafe`: a step of Handshake handles a datagram of several packets by
  folds over sequences of frames, messages and queued packets; an inductive invariant would need induction over
  these.

## 6. Where the code and its comments disagree

Three disagreements are runs, with the trace TLC finds:

* **MCFrameSorterStall** (`frame_sorter.go:70`): a frame that was split for retransmission and then arrives
  whole is cut wrongly; bytes that were received are neither in a gap nor in the queue, and Read waits forever.
* **MCSessionHang** (`send_queue.go:30`, `session.go:967`): after a failed write nobody empties the send
  queue, a run loop that is sending blocks, and Close does not return; the same happens when
  RunHandshake chooses to abort while qtls sends an alert.
* **MCLossRecoveryKeys** (`session.go:1008`): dropping the keys of a space leaves its
  lost frames in the retransmission queue, and the packer fails on them.

The following showed up while modelling. The model has the behaviour; the property of
the passing run that touches it excludes it and says so.

Streams:

* `streams_map_outgoing_generic.go:91`: a cancelled caller may have taken a wake-up.
* `streams_map_incoming_generic.go:119`: the wake-up for a new stream may fall between the check and the
  select of AcceptStream; the stream is accepted only when the next one arrives.
* `session.go:1274`: `MaxReceiveStreamFlowControlWindow` below the initial window is accepted.
* `frame_sorter.go:57` and `:101`: with overlapping frames a buffer may be released while an
  entry refers to it, and covered entries stay in the queue.
* `receive_stream.go:250`, `:320`, `:183`: after CancelRead bytes may be counted twice for the connection (Abandon runs while Read has copied and not
  counted, or runs again for a further FIN or a RESET_STREAM), after RESET_STREAM some may be missing. If the count passes the window, the unsigned
  subtraction of `base_flow_controller.go:76` wraps, MAX_DATA is sent no more, and other streams stall.
* `receive_stream.go:271`: a receiving half that is cancelled or reset after the last Read may complete twice; to delete
  an unknown stream is an error, which closes the session (`session.go:1331`).
* `send_stream.go:366`: CancelWrite after Close still resets the stream (`interface.go:78` calls it a no-op).
* `frame_sorter.go:70`: as in MCFrameSorterStall, Read may wait for ever for bytes that were received in frames that overlap.
* `send_stream.go:224`: a FIN that meets a packet without room is forgotten by the framer. The share
  of a packet in this fork can be that small (`framer.go:127`), also because streams that were completed while queued still count. With `StreamMultiplexLimit` 0 nothing is sent.

Connections:

* `client.go:306`: a run loop that hangs as in MCSessionHang keeps Dial from returning, even if its context is cancelled.
* `session.go:1001`: an error while CONNECTION_CLOSE is packed is only logged; the closed session then stands in the map without the packet.
* `client.go:60`: DialAddr says that it closes the connection when the session is closed. It does not when dialing fails before a
  session ran, or is cancelled just while the session is recreated. And the goroutine of a closed session
  (`closed_session.go:49`) goes on when the timer of the map removes it, or when it is put into a map that was closed.
* `server.go:306` and `packet_handler_map.go:165`: two locks in opposite order.
* `server.go:386`: only the connection ID chosen by the server is in the map, so each Initial with the client's
  original one creates another session.
* `server.go:419`: the accept queue can grow beyond its maximum by the handshakes under way.
* `server.go:508`: Accept may return a session that just ended.
* `server.go:342`: an Initial in flight creates a session after Close (`interface.go:266` says that all
  active sessions will be closed).

Packets and keys:

* `sent_packet_handler.go:318`: the loss time is overwritten by the probe timeout.
* `packet_unpacker.go`: there is one largest received packet number for all spaces.
* `core/handshake/updatable_aead.go`: KeyPhase rolls the keys even if nothing is sent then; packets of a peer that was idle for more than
  3 PTOs are dropped until the side that rolled sends.
* `core/ackhandler/received_packet_tracker.go:97`: an ACK-only packet is acknowledged if it is the first one, and once. A client whose application sends
  nothing keeps its Initial and Handshake keys if that ACK is lost.
* `session.go:1291`: the buffers of packets for which queue or channel has no room are left to the garbage collector.
* `packet_packer.go:473`: "Since the header can't get any larger, we don't need to split CRYPTO frames." The token of a Retry
  makes it larger: a CRYPTO frame that filled a packet is too long when it is sent again.
* `packet_packer.go:371`, `:497`: a CRYPTO frame may fill an Initial up to `maxPacketSize`, which is larger than the 1200 bytes to which the packet is
  padded. With a ClientHello of more than 1154 bytes (less with a token) the padding is negative, and `bytes.Repeat` (`:533`) panics.
* A CONNECTION_CLOSE with a too long reason is an error of the packer. STOP_SENDING truncates the error code to 16 bits.
  `numEncodableAckRanges` keeps one range fewer than would fit.

## 7. What is not modelled

Cryptography and qtls (external), transport parameters and tokens (data), logging, tracing, generated code, offline
scripts. Congestion control computes with floats and clocks; LossRecovery lets it delay any packet. 0-RTT, stateless resets and
the content of Retry and version negotiation packets are left out, and ACK decimation is a timer that may fire at any time.
TLC's integers end at 2^31 - 1: the upper half of 8-byte varints is always zero.

The replay application (`client.go`, `server.go`, `schedulers/`) does not compile at this commit: the
scheduler uses fields it lacks, and its caller another signature. HTTP/3 is not used by qperf.

---------------------------- MODULE LossRecovery ----------------------------
(***************************************************************************)
(* Loss recovery between a sender (sentPacketHandler, its packet number    *)
(* generator and the retransmission queue) and a receiver                  *)
(* (receivedPacketTracker and receivedPacketHistory), over a network that  *)
(* loses, repeats and reorders packets and ACKs.                           *)
(*                                                                         *)
(* A packet carries one frame that has to arrive, or only an ACK           *)
(* (NoFrame), and has length 1.  Crypto stands for the Initial and for the *)
(* Handshake space.  Time is left out: a packet is old enough to be        *)
(* declared lost when the clock says so, and then so are earlier ones.     *)
(* An ACK frame is the set of packet numbers it acknowledges.              *)
(***************************************************************************)
EXTENDS Integers, FiniteSets, ReceivedPacketHistory

CONSTANTS Crypto, OneRTT,     \* packet number spaces
          FramesOf,           \* the frames to be sent in each of them
          NoFrame, Ping,
          packetThreshold, MaxNumAckRanges, MaxTrackedSentPackets,
          initialAckElicitingPacketsBeforeAck,
          MaxPN, MaxSkips, MaxFaults, \* bounds: numbers per space, numbers
                                      \* skipped, losses and repetitions,
          MaxArrivals                 \* and arrivals in AcksExact

ASSUME LossRecoveryAssumption ==
    /\ Crypto # OneRTT /\ MaxPN \in [{Crypto, OneRTT} -> Nat]
    /\ FramesOf[Crypto] \cap FramesOf[OneRTT] = {}
    /\ {NoFrame, Ping} \cap (FramesOf[Crypto] \cup FramesOf[OneRTT]) = {}
    /\ packetThreshold \in Nat \ {0} /\ MaxNumAckRanges \in Nat \ {0}
    /\ MaxTrackedSentPackets \in Nat \ {0} /\ initialAckElicitingPacketsBeforeAck \in Nat \ {0}
    /\ MaxSkips \in Nat /\ MaxFaults \in Nat /\ MaxArrivals \in Nat

VARIABLES
    next, skipFrom, skipped,  \* packetNumberGenerator
    h,                        \* sentPacketHandler, see Handler
    queue,                    \* frames to be sent: new ones and lost ones
    acked,                    \* frames whose OnAcked was called
    heard,                    \* largest number in an ACK received, plus 1
    err,                      \* "ack": the sender rejected an ACK;
                              \* "packer": it has frames but no keys
    r,                        \* receivedPacketTracker per space, see Tracker
    peerDropped,              \* whether the receiver dropped Crypto
    received,                 \* the packets that arrived
    net, acks, faults         \* packets and ACKs under way

genVars  == <<next, skipFrom, skipped>>
sendVars == <<genVars, h, queue, acked, heard, err>>
recvVars == <<r, peerDropped, received>>
netVars  == <<net, acks, faults>>
vars == <<sendVars, recvVars, netVars>>

Spaces == {Crypto, OneRTT}
Frames == UNION {FramesOf[s] : s \in Spaces}
Numbers(s) == 0 .. MaxPN[s]
Empty == [n \in {} |-> NoFrame]

\* history: number -> frame of the outstanding packets; lossTime and alarm:
\* whether they are set; dropped: whether the Crypto space is gone.
NewHandler ==
    [history |-> [s \in Spaces |-> Empty], largestAcked |-> [s \in Spaces |-> -1],
     lossTime |-> [s \in Spaces |-> FALSE], dropped |-> FALSE,
     bytesInFlight |-> 0, alarm |-> FALSE, numProbesToSend |-> 0]

NewTracker ==
    [ranges |-> <<>>, ignoreBelow |-> 0, forgot |-> 0, lastAck |-> {}, ackQueued |-> FALSE,
     ackAlarm |-> FALSE, eliciting |-> 0]
Init ==
    /\ next = [s \in Spaces |-> 0] /\ skipFrom = [s \in Spaces |-> 2]
    /\ skipped = [s \in Spaces |-> {}] /\ h = NewHandler
    /\ queue = Frames /\ acked = {} /\ heard = 0 /\ err = "none"
    /\ r = [s \in Spaces |-> NewTracker] /\ peerDropped = FALSE
    /\ received = [s \in Spaces |-> {}]
    /\ net = {} /\ acks = {} /\ faults = 0

-----------------------------------------------------------------------------
(* The state of the sentPacketHandler after each of its operations. *)

Without(f, S) == [n \in DOMAIN f \ S |-> f[n]]
FramesIn_OnlyFirst(f, S) == {f[n] : n \in {m \in S : \A k \in S : m <= k}}

FramesIn(f, S) == {f[n] : n \in S}
Tracked(hh) == Cardinality(DOMAIN hh.history[Crypto]) + Cardinality(DOMAIN hh.history[OneRTT])

setLossDetectionTimer(hh) == [hh EXCEPT !.alarm = Tracked(hh) > 0]

BytesOf(packets) == Cardinality(packets)

RemovePackets(hh, s, packets) ==
    [hh EXCEPT !.history[s] = Without(@, packets), !.bytesInFlight = @ - BytesOf(packets)]

Counts(n) == IF n > 0 THEN n - 1 ELSE n

\* sentPacketImpl and SentPacket, for a packet with a frame.
AfterSending(hh, s, n, f) ==
    setLossDetectionTimer(
        [hh EXCEPT !.history[s] = [m \in DOMAIN @ \cup {n} |-> IF m = n THEN f ELSE @[m]],
                   !.bytesInFlight = @ + 1,
                   !.numProbesToSend = Counts(@)])

\* What detectLostPackets takes for lost: packets far below the largest
\* acknowledged, and those below it that were sent before the time "cut".
Lost(hh, s, cut) ==
    {n \in DOMAIN hh.history[s] :
        /\ n <= hh.largestAcked[s]
        /\ n < cut \/ hh.largestAcked[s] >= n + packetThreshold}

detectLostPackets(hh, s, cut) ==
    LET rest == RemovePackets(hh, s, Lost(hh, s, cut)) IN
    [rest EXCEPT !.lossTime[s] = \E n \in DOMAIN rest.history[s] : n <= hh.largestAcked[s]]

WithLargest(hh, s, ack) == [hh EXCEPT !.largestAcked[s] = Max({@, Max(ack)})]

NewlyAcked(hh, s, ack) == ack \cap DOMAIN hh.history[s]

\* ReceivedAck after onPacketAcked; nothing happens if it acknowledges nothing new.
AfterAcks(hh, s, ack) == RemovePackets(WithLargest(hh, s, ack), s, NewlyAcked(hh, s, ack))

AfterAck(hh, s, ack, cut) ==
    IF NewlyAcked(hh, s, ack) = {}
    THEN WithLargest(hh, s, ack)
    ELSE setLossDetectionTimer(
            [detectLostPackets(AfterAcks(hh, s, ack), s, cut) EXCEPT !.numProbesToSend = 0])

\* DropPackets for the Crypto space; the alarm stays as it is.
DropPackets(hh) ==
    [RemovePackets(hh, Crypto, DOMAIN hh.history[Crypto]) EXCEPT !.lossTime[Crypto] = FALSE,
                                                          !.dropped = TRUE]

-----------------------------------------------------------------------------
(* Sending. *)

\* Pop: the number after this one may be skipped, but not two in a row.
Pop(s) ==
    LET n == next[s] + 1 IN
    \/ /\ next' = [next EXCEPT ![s] = n]
       /\ UNCHANGED <<skipFrom, skipped>>
    \/ /\ n >= skipFrom[s] /\ n <= MaxPN[s] /\ Cardinality(skipped[s]) < MaxSkips
       /\ next' = [next EXCEPT ![s] = n + 1]
       /\ skipped' = [skipped EXCEPT ![s] = @ \cup {n}]
       /\ skipFrom' = [skipFrom EXCEPT ![s] = n + 3]

Transmit(s, f) ==
    /\ next[s] <= MaxPN[s]
    /\ net' = net \cup {[space |-> s, pn |-> next[s], frame |-> f, heard |-> heard]}
    /\ Pop(s)
    /\ UNCHANGED <<acks, faults>>

\* The retransmissionQueue q: the frames of the Crypto space, and those of
\* which one may be packed next (their order is left out).
CryptoData(q) == q \cap FramesOf[Crypto]
NextFrames(q) == IF CryptoData(q) # {} THEN CryptoData(q) ELSE q

\* PackPacket, SentPacket, Send: frames of the Crypto space go first, and
\* packing them fails without keys.
PackPacket(hh, q) ==
    LET space == IF CryptoData(q) # {} THEN Crypto ELSE OneRTT IN
    IF CryptoData(q) # {} /\ hh.dropped
    THEN /\ err' = "packer" /\ h' = hh /\ queue' = q
         /\ UNCHANGED <<genVars, netVars>>
    ELSE /\ \E f \in NextFrames(q) :
               /\ Transmit(space, f)
               /\ h' = AfterSending(hh, space, next[space], f)
               /\ queue' = q \ {f}
         /\ UNCHANGED err

MaySend == err = "none" /\ Tracked(h) < MaxTrackedSentPackets

\* The congestion controller, which is not modelled, may hold it back.
SendAny ==
    /\ MaySend /\ h.numProbesToSend = 0
    /\ PackPacket(h, queue)
    /\ UNCHANGED <<acked, heard, recvVars>>

FirstOutstanding(hh, s) == Min(DOMAIN hh.history[s])

\* sendProbePacket: QueueProbePacket takes the first outstanding packet for
\* lost; without one a PING is sent.
SendPTO ==
    /\ MaySend /\ h.numProbesToSend > 0
    /\ IF Tracked(h) = 0
       THEN PackPacket(h, queue \cup {Ping})
       ELSE LET s == IF DOMAIN h.history[Crypto] # {} THEN Crypto ELSE OneRTT
                n == FirstOutstanding(h, s) IN
            PackPacket(RemovePackets(h, s, {n}), queue \cup {h.history[s][n]})
    /\ UNCHANGED <<acked, heard, recvVars>>

\* A packet with nothing but an ACK is neither counted nor kept.
SendAck ==
    /\ MaySend /\ heard > 0
    /\ Transmit(OneRTT, NoFrame)
    /\ UNCHANGED <<h, queue, acked, heard, err, recvVars>>

-----------------------------------------------------------------------------
(* The loss detection timer, and ACKs. *)

AddProbes_Not(n) == n

AddProbes(n) == n + 2

\* A loss time has passed for the packet it was set for.
Passed(s, cut) ==
    LET below == {n \in DOMAIN h.history[s] : n <= h.largestAcked[s]} IN
    h.lossTime[s] /\ (below # {} => Min(below) < cut)

OnLossDetectionTimeout ==
    /\ err = "none" /\ h.alarm /\ h.numProbesToSend = 0
    /\ IF Tracked(h) > 0 /\ \E s \in Spaces : h.lossTime[s]
       THEN \E s \in Spaces : \E cut \in 0 .. MaxPN[s] + 1 :
               /\ Passed(s, cut)
               /\ h' = setLossDetectionTimer(detectLostPackets(h, s, cut))
               /\ queue' = queue \cup FramesIn(h.history[s], Lost(h, s, cut))
       ELSE /\ h' = setLossDetectionTimer(
                        [h EXCEPT !.numProbesToSend = IF Tracked(h) > 0 THEN AddProbes(@) ELSE @])
            /\ UNCHANGED queue
    /\ UNCHANGED <<genVars, acked, heard, err, recvVars, netVars>>

\* ReceivedAck: the check for packets that were not sent, and Validate.
Invalid(s, ack) == Max(ack) >= next[s] \/ ack \cap skipped[s] # {}

LostByAck(s, ack, cut) ==
    IF NewlyAcked(h, s, ack) = {} THEN {} ELSE Lost(AfterAcks(h, s, ack), s, cut)

\* handleAckFrame.  An ACK in the 1-RTT space drops the Crypto space; the
\* frames of that space in the retransmission queue stay there.
handleAckFrame(a) ==
    LET s == a.space IN
    /\ err = "none"
    /\ s = Crypto => ~h.dropped
    /\ IF Invalid(s, a.ack)
       THEN err' = "ack" /\ UNCHANGED <<h, queue, acked, heard>>
       ELSE /\ \E cut \in 0 .. MaxPN[s] + 1 :
                  LET after == AfterAck(h, s, a.ack, cut) IN
                  /\ h' = IF s = OneRTT /\ ~h.dropped THEN DropPackets(after) ELSE after
                  /\ queue' = queue \cup FramesIn(h.history[s], LostByAck(s, a.ack, cut))
            /\ acked' = acked \cup FramesIn(h.history[s], NewlyAcked(h, s, a.ack))
            /\ heard' = IF s = OneRTT THEN Max({heard, Max(a.ack) + 1}) ELSE heard
            /\ UNCHANGED err
    /\ UNCHANGED <<genVars, recvVars>>

-----------------------------------------------------------------------------
(* The receiver. *)

\* forgot is kept by the model only: numbers below it may have been deleted
\* here although the peer never confirmed them.
maybeDeleteOldRanges(t) ==
    IF Len(t.ranges) <= MaxNumAckRanges THEN t
    ELSE [t EXCEPT !.ranges = Tail(@), !.forgot = Max({@, Head(t.ranges).hi + 1})]

IgnoreBelow_Inclusive(t, p) ==
    [t EXCEPT !.ignoreBelow = p + 1, !.ranges = DeleteBelow(@, p + 1)]

IgnoreBelow(t, p) ==
    IF p <= t.ignoreBelow THEN t
    ELSE [t EXCEPT !.ignoreBelow = p, !.ranges = DeleteBelow(@, p)]

isMissing(t, p) == t.lastAck # {} /\ p < Max(t.lastAck) /\ p \notin t.lastAck

\* maybeQueueAck.  An alarm that is set may expire at any time.
maybeQueueAck(t, wasMissing, eliciting) ==
    LET count  == IF t.ackQueued \/ wasMissing \/ ~eliciting THEN t.eliciting ELSE t.eliciting + 1
        queued == t.ackQueued \/ wasMissing \/ count >= initialAckElicitingPacketsBeforeAck IN
    IF t.lastAck = {}
    THEN [t EXCEPT !.ackQueued = TRUE]
    ELSE [t EXCEPT !.eliciting = count, !.ackQueued = queued,
                   !.ackAlarm = ~queued /\ (@ \/ eliciting)]

ReceivedPacket(t, p, eliciting) ==
    IF p < t.ignoreBelow THEN t
    ELSE maybeQueueAck(maybeDeleteOldRanges([t EXCEPT !.ranges = addToRanges(@, p)]),
                       isMissing(t, p), eliciting)

HasCrypto == FramesOf[Crypto] \subseteq {p.frame : p \in received[Crypto]}

\* handleUnpackedPacket: first the ACK in it, which may confirm that the
\* sender has an ACK of ours, then the packet itself.
handleUnpackedPacket(p) ==
    /\ IF p.space = Crypto THEN ~peerDropped ELSE HasCrypto
    /\ \E confirmed \in {0, p.heard} :
          /\ p.frame = NoFrame => confirmed = p.heard
          /\ r' = [r EXCEPT ![p.space] =
                      ReceivedPacket(IF p.space = OneRTT THEN IgnoreBelow(@, confirmed) ELSE @,
                                     p.pn, p.frame # NoFrame)]
          /\ peerDropped' = (peerDropped \/ (p.space = OneRTT /\ confirmed > 0))
    /\ received' = [received EXCEPT ![p.space] = @ \cup {[pn |-> p.pn, frame |-> p.frame]}]
    /\ UNCHANGED sendVars

GetAckFrame(s) ==
    /\ s = Crypto => ~peerDropped
    /\ r[s].ackQueued \/ r[s].ackAlarm
    /\ LET ack == Covered(r[s].ranges) IN
       /\ acks' = acks \cup {[space |-> s, ack |-> ack]}
       /\ r' = [r EXCEPT ![s] = [@ EXCEPT !.lastAck = ack, !.ackAlarm = FALSE,
                                          !.ackQueued = FALSE, !.eliciting = 0]]
    /\ UNCHANGED <<sendVars, peerDropped, received, net, faults>>

-----------------------------------------------------------------------------
(* The network.  A 1-RTT packet that comes too early is kept, a Crypto packet *)
(* that comes too late is discarded.                                          *)

Undecryptable(p) == p.space = Crypto /\ peerDropped

DeliverPacket ==
    \E p \in net :
        /\ net' = net \ {p}
        /\ IF Undecryptable(p) THEN UNCHANGED <<sendVars, recvVars>> ELSE handleUnpackedPacket(p)
        /\ UNCHANGED <<acks, faults>>

DeliverAck ==
    \E a \in acks :
        /\ acks' = acks \ {a}
        /\ handleAckFrame(a)
        /\ UNCHANGED <<net, faults>>

Fault ==
    /\ faults < MaxFaults /\ faults' = faults + 1
    /\ \/ \E p \in net : net' = net \ {p} /\ UNCHANGED <<acks, sendVars, recvVars>>
       \/ \E a \in acks : acks' = acks \ {a} /\ UNCHANGED <<net, sendVars, recvVars>>
       \/ \E p \in net : handleUnpackedPacket(p) /\ UNCHANGED <<net, acks>>
       \/ \E a \in acks : handleAckFrame(a) /\ UNCHANGED <<net, acks>>

Progress ==
    \/ SendAny \/ SendPTO \/ OnLossDetectionTimeout
    \/ \E s \in Spaces : GetAckFrame(s)
    \/ DeliverPacket \/ DeliverAck

Next == Progress \/ SendAck \/ Fault

\* The sender sends when it may, timers fire, and what the network does not
\* lose arrives.  There are finitely many numbers, so that weak fairness of
\* all of these together is enough.
Spec == Init /\ [][Next]_vars /\ WF_vars(Progress)

-----------------------------------------------------------------------------
(* Properties. *)

\* A frame that was not acknowledged is in one place: it waits to be sent, or
\* one outstanding packet has it, and then the timer is armed.  No frame is
\* forgotten or sent twice at a time, unless its space was dropped.  And
\* bytesInFlight is the size of the outstanding packets of all spaces, however
\* they were acknowledged, lost, probed or dropped.
FramesTracked ==
    /\ \A s \in Spaces : \A f \in FramesOf[s] :
          s = OneRTT \/ ~h.dropped =>
              LET carriers == {n \in DOMAIN h.history[s] : h.history[s][n] = f} IN
              IF f \in queue THEN carriers = {}
              ELSE Cardinality(carriers) = IF f \in acked THEN 0 ELSE 1
    /\ Tracked(h) > 0 => h.alarm
    /\ h.bytesInFlight = Tracked(h)

ExactFor(t, numbers) ==
    LET rs == t.ranges IN
    /\ Len(rs) <= MaxNumAckRanges
    /\ \A k \in DOMAIN rs : rs[k].lo <= rs[k].hi
    /\ \A k \in 2 .. Len(rs) : rs[k - 1].hi + 1 < rs[k].lo
    /\ Covered(rs) \subseteq numbers
    /\ \A n \in numbers : n >= Max({t.ignoreBelow, t.forgot}) => n \in Covered(rs)

Arrivals == [1 .. MaxArrivals -> 0 .. MaxArrivals]
AfterArrivals(q) ==
    LET after[n \in 0 .. MaxArrivals] ==
            IF n = 0 THEN NewTracker ELSE ReceivedPacket(after[n - 1], q[n], TRUE)
    IN  after[MaxArrivals]
ExactForAllArrivals == \A q \in Arrivals : ExactFor(AfterArrivals(q), Range(q))

\* The ranges of the receiver (received_packet_history.go) are apart from each
\* other and in order, hold only what arrived, and everything that did unless
\* the peer has confirmed it or there were too many ranges.  An ACK that is due
\* is not empty although confirmed ranges are deleted (LargestAcked would panic),
\* and the sender rejects none, whatever numbers it skipped.
TrackersExact ==
    /\ \A s \in Spaces : ExactFor(r[s], {p.pn : p \in received[s]})
    /\ \A s \in Spaces : r[s].ackQueued \/ r[s].ackAlarm => r[s].ranges # <<>>
    /\ err # "ack"

\* This holds along the behaviours, and the ranges are as exact for every order
\* in which a few more packet numbers than these send can arrive.
AcksExact == TrackersExact /\ ExactForAllArrivals

\* The numbers of the model are used up, with something left to send.
Exhausted ==
    \E s \in Spaces :
        next[s] > MaxPN[s] /\ (queue \cap FramesOf[s] # {} \/ h.numProbesToSend > 0)

\* All frames of the 1-RTT space are acknowledged in the end, whatever the
\* network does a bounded number of times, unless the packer failed or the
\* numbers of the model are used up.
FramesArrive ==
    <>(FramesOf[OneRTT] \subseteq acked) \/ <>[](err = "packer" \/ Exhausted)

\* "PacketPacker BUG: no Handshake sealer": it never happens.
PackerHasKeys == err # "packer"
=============================================================================

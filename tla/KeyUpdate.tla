----------------------------- MODULE KeyUpdate -----------------------------
(***************************************************************************)
(* Two endpoints that exchange 1-RTT packets and update their keys         *)
(* (core/handshake/updatable_aead.go), the packetUnpacker                  *)
(* (packet_unpacker.go) and the encoding of packet numbers (PacketNumber). *)
(*                                                                         *)
(* A packet is protected with the key of its phase and its packet number   *)
(* as the nonce; its header has one bit of the phase and some bits of the  *)
(* number.  It opens if the receiver tries the right key with the right    *)
(* number.  The network loses, repeats and reorders packets: those ever    *)
(* sent may arrive at any time, any number of times, or never.             *)
(*                                                                         *)
(* Every packet elicits an ACK here, and stays outstanding until then.     *)
(* The up to 19 packets in a row with nothing but an ACK, and the ones     *)
(* that sentPacketHandler.QueueProbePacket forgets, are not outstanding    *)
(* and could make a packet number too short, but only if there were 2^15   *)
(* of them.                                                                *)
(***************************************************************************)
EXTENDS PacketNumber, FiniteSets, FiniteSetsExt

CONSTANTS Endpoints,
          keyUpdateInterval,  \* 100000
          MaxPackets          \* bound: endpoint -> packets that it sends

\* There are two endpoints.  A packet number of 4 bytes has room for half of its
\* range in unacknowledged packets; the code relies on there never being more.
ASSUME KeyUpdateAssumption ==
    /\ \E e, f \in Endpoints : e # f /\ Endpoints = {e, f}
    /\ ByteBits \in 1 .. 8 /\ keyUpdateInterval \in Nat
    /\ MaxPackets \in [Endpoints -> 0 .. 2 ^ (ByteBits * 4 - 1) - 1]

VARIABLES
    aead,       \* endpoint -> its updatableAEAD, and the peer's packets it knows of
    sent,       \* endpoint -> what its sentPacketHandler knows
    network     \* all packets sent

updateVars == <<aead, sent, network>>

Peer(e) == CHOOSE f \in Endpoints : f # e

InvalidPacketNumber == -1

newUpdatableAEAD ==
    [keyPhase |-> 0, largestAcked |-> InvalidPacketNumber,
     prevRcvAEAD |-> FALSE, prevRcvAEADExpired |-> FALSE,
     firstRcvdWithCurrentKey |-> InvalidPacketNumber,
     firstSentWithCurrentKey |-> InvalidPacketNumber,
     numRcvdWithCurrentKey |-> 0, numSentWithCurrentKey |-> 0]

\* newPacketUnpacker, and the receivedPacketHandler.
newUnpacker == [largestRcvdPacketNumber |-> 0, rcvd |-> {}, ackQueued |-> FALSE]

UpdateInit ==
    /\ aead = [e \in Endpoints |-> [a |-> newUpdatableAEAD, u |-> newUnpacker]]
    /\ sent = [e \in Endpoints |-> [next |-> 0, outstanding |-> {},
                                    largestAcked |-> InvalidPacketNumber]]
    /\ network = {}

-----------------------------------------------------------------------------
(* The updatableAEAD. *)

Bit(phase) == phase % 2

\* Counters matter up to the interval.
CountUp(n) == IF n < keyUpdateInterval THEN n + 1 ELSE n

\* The expiry of the previous key is 3 PTOs from now.
rollKeys_KeepFirst(a) ==
    [a EXCEPT !.keyPhase = @ + 1, !.prevRcvAEAD = TRUE, !.prevRcvAEADExpired = FALSE,
              !.firstSentWithCurrentKey = InvalidPacketNumber,
              !.numRcvdWithCurrentKey = 0, !.numSentWithCurrentKey = 0]

rollKeys(a) ==
    [a EXCEPT !.keyPhase = @ + 1, !.prevRcvAEAD = TRUE, !.prevRcvAEADExpired = FALSE,
              !.firstRcvdWithCurrentKey = InvalidPacketNumber,
              !.firstSentWithCurrentKey = InvalidPacketNumber,
              !.numRcvdWithCurrentKey = 0, !.numSentWithCurrentKey = 0]

updateAllowed_WithoutAck(a) == a.firstSentWithCurrentKey # InvalidPacketNumber

updateAllowed(a) ==
    /\ a.firstSentWithCurrentKey # InvalidPacketNumber
    /\ a.largestAcked # InvalidPacketNumber
    /\ a.largestAcked >= a.firstSentWithCurrentKey

shouldInitiateKeyUpdate(a) ==
    /\ updateAllowed(a)
    /\ \/ a.numRcvdWithCurrentKey >= keyUpdateInterval
       \/ a.numSentWithCurrentKey >= keyUpdateInterval

\* KeyPhase has a side effect, whether or not a packet follows.
KeyPhase(a) == IF shouldInitiateKeyUpdate(a) THEN rollKeys(a) ELSE a

Seal(a, pn) ==
    [a EXCEPT !.firstSentWithCurrentKey = IF @ = InvalidPacketNumber THEN pn ELSE @,
              !.numSentWithCurrentKey = CountUp(@)]

\* The AEAD with the key of a phase, on packet p taken for number pn.
KeyOpens(phase, p, pn) == p.keyPhase = phase /\ p.packetNumber = pn

\* What Open returns, and the AEAD after it; late: the packet was received after
\* the expiry of the previous key.
Open(a0, p, pn, late) ==
    LET a == IF a0.prevRcvAEAD /\ late THEN [a0 EXCEPT !.prevRcvAEAD = FALSE] ELSE a0
        Result(res, new) == [res |-> res, a |-> new]
        first == a.firstRcvdWithCurrentKey
    IN  IF Bit(p.keyPhase) # Bit(a.keyPhase)
        THEN IF first = InvalidPacketNumber \/ pn < first
             THEN IF a.keyPhase = 0 THEN Result("wrong initial keyphase", a)
                  ELSE IF ~a.prevRcvAEAD THEN Result("keys dropped", a)
                  ELSE IF KeyOpens(a.keyPhase - 1, p, pn) THEN Result("ok", a)
                  ELSE Result("decryption failed", a)
             ELSE IF ~KeyOpens(a.keyPhase + 1, p, pn) THEN Result("decryption failed", a)
             ELSE IF a.firstSentWithCurrentKey = InvalidPacketNumber
             THEN Result("keys updated too quickly", a)
             ELSE Result("ok", [rollKeys(a) EXCEPT !.firstRcvdWithCurrentKey = pn])
        ELSE IF ~KeyOpens(a.keyPhase, p, pn) THEN Result("decryption failed", a)
        ELSE Result("ok", [a EXCEPT !.numRcvdWithCurrentKey = CountUp(@),
                                    !.firstRcvdWithCurrentKey =
                                        IF @ = InvalidPacketNumber THEN pn ELSE @])

-----------------------------------------------------------------------------
(* Sending. *)

PeekPacketNumber(s) ==
    LET lowestUnacked == IF s.outstanding # {} THEN Min(s.outstanding) ELSE s.largestAcked + 1
    IN  [packetNumber |-> s.next, len |-> GetPacketNumberLengthForHeader(s.next, lowestUnacked)]

\* The packet that e sends next, if it is asked for one.
PacketOf(e, a, ack) ==
    LET pn == PeekPacketNumber(sent[e])
    IN  [from |-> e, keyPhase |-> a.keyPhase, packetNumber |-> pn.packetNumber,
         len |-> pn.len, wire |-> Truncated(pn.packetNumber, pn.len),
         ack |-> ack]

\* PackPacket with nothing to send.
PackNothing(e) ==
    /\ aead' = [aead EXCEPT ![e].a = KeyPhase(@)]
    /\ UNCHANGED <<sent, network>>

\* PackPacket with application data, and an ACK if one is due.
PackPacket(e) ==
    LET a == KeyPhase(aead[e].a)
        u == aead[e].u
        pn == sent[e].next
    IN  /\ pn < MaxPackets[e]
        /\ network' = network \cup {PacketOf(e, a, IF u.ackQueued THEN u.rcvd ELSE {})}
        /\ sent' = [sent EXCEPT ![e].next = @ + 1, ![e].outstanding = @ \cup {pn}]
        /\ aead' = [aead EXCEPT ![e] = [a |-> Seal(a, pn), u |-> [u EXCEPT !.ackQueued = FALSE]]]

-----------------------------------------------------------------------------
(* Receiving. *)

\* unpackShortHeaderPacket, without its effect on the unpacker.
unpackShortHeaderPacket(x, p, late) ==
    LET pn == DecodePacketNumber(p.len, x.u.largestRcvdPacketNumber, p.wire)
    IN  [pn |-> pn, open |-> Open(x.a, p, pn, late)]

\* handleSinglePacket: Unpack, then the ACK and the tracking of received packets.
\* Whatever error Open returns, the packet is dropped and nothing else happens.
handleSinglePacket(e, p) ==
    \E late \in IF aead[e].a.prevRcvAEADExpired THEN BOOLEAN ELSE {FALSE} :
       LET r == unpackShortHeaderPacket(aead[e], p, late)
           u == aead[e].u
       IN  IF r.open.res # "ok"
           THEN /\ aead' = [aead EXCEPT ![e].a = r.open.a]
                /\ UNCHANGED sent
           ELSE /\ aead' = [aead EXCEPT ![e] =
                     [a |-> IF p.ack = {} THEN r.open.a
                            ELSE [r.open.a EXCEPT !.largestAcked = Max(p.ack)],
                      u |-> [largestRcvdPacketNumber |-> Max({u.largestRcvdPacketNumber, r.pn}),
                             rcvd |-> u.rcvd \cup {r.pn},
                             ackQueued |-> TRUE]]]
                /\ sent' = IF p.ack = {} THEN sent
                           ELSE [sent EXCEPT ![e].outstanding = @ \ p.ack,
                                             ![e].largestAcked = Max({@, Max(p.ack)})]

Receive(e) ==
    /\ \E p \in network : p.from = Peer(e) /\ handleSinglePacket(e, p)
    /\ UNCHANGED network

\* Three PTOs have passed since the keys were rolled.
TimePasses(e) ==
    /\ aead[e].a.prevRcvAEAD /\ ~aead[e].a.prevRcvAEADExpired
    /\ aead' = [aead EXCEPT ![e].a.prevRcvAEADExpired = TRUE]
    /\ UNCHANGED <<sent, network>>

UpdateNext == \E e \in Endpoints : PackNothing(e) \/ PackPacket(e) \/ Receive(e) \/ TimePasses(e)

UpdateSpec == UpdateInit /\ [][UpdateNext]_updateVars

-----------------------------------------------------------------------------
\* Whatever arrives from an honest peer in whatever order is opened with the right
\* key and number (updatableAEAD.Open): neither "wrong initial keyphase" nor
\* "keys updated too quickly" is ever returned, and a packet is dropped only for
\* being late: its key expired or is two phases old, or so many packets
\* overtook it that its number is ambiguous.
OnlyLatePacketsAreDropped ==
    \A p \in network :
        LET x == aead[Peer(p.from)]
            r == unpackShortHeaderPacket(x, p, FALSE)
            keyIsGone == \/ p.keyPhase = x.a.keyPhase - 1 /\ ~x.a.prevRcvAEAD
                         \/ p.keyPhase <= x.a.keyPhase - 2
            overtaken == 2 * (x.u.largestRcvdPacketNumber + 1 - p.packetNumber) >= EpochDelta(p.len)
        IN  /\ r.open.res \notin {"wrong initial keyphase", "keys updated too quickly"}
            /\ r.open.res = "ok" \/ keyIsGone \/ overtaken
            /\ r.open.res = "ok" => r.pn = p.packetNumber

\* Whether the peer could open what e would send now, late or not.
IsHeard(e, late) ==
    LET p == PacketOf(e, KeyPhase(aead[e].a), {})
    IN  unpackShortHeaderPacket(aead[Peer(e)], p, late).open.res = "ok"

\* The endpoints never lose each other (updatableAEAD): they are at most one key
\* phase apart, and if one cannot be heard, because the peer rolled its keys
\* more than three PTOs ago, then the peer is heard, which ends it.
SomeoneIsHeard ==
    /\ \A e, f \in Endpoints : aead[e].a.keyPhase <= aead[f].a.keyPhase + 1
    /\ \A e \in Endpoints :
          ~IsHeard(e, aead[Peer(e)].a.prevRcvAEADExpired) =>
             /\ aead[Peer(e)].a.keyPhase = aead[e].a.keyPhase + 1
             /\ aead[Peer(e)].a.prevRcvAEADExpired
             /\ IsHeard(Peer(e), FALSE) /\ IsHeard(Peer(e), TRUE)
=============================================================================

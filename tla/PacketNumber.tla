---------------------------- MODULE PacketNumber ----------------------------
(***************************************************************************)
(* Packet numbers in headers (core/protocol/packet_number.go): how many    *)
(* bytes the sender writes, and how the receiver recovers the number from  *)
(* them and from the largest one it has received.                          *)
(*                                                                         *)
(* ByteBits is the number of bits in a byte of a packet number: 8 in the   *)
(* code, fewer where TLC has to see numbers wrap around.                   *)
(***************************************************************************)
EXTENDS Integers

CONSTANT ByteBits

PacketNumberLens == 1 .. 4

EpochDelta(len) == 2 ^ (ByteBits * len)

Distance(a, b) == IF a < b THEN b - a ELSE a - b

closestTo(target, a, b) == IF Distance(target, a) < Distance(target, b) THEN a ELSE b

\* DecodePacketNumber with 1 << (8 * packetNumberLength) as a parameter.
DecodeInEpoch(epochDelta, lastPacketNumber, wirePacketNumber) ==
    LET epoch == lastPacketNumber - (lastPacketNumber % epochDelta)
        prevEpochBegin == IF epoch > epochDelta THEN epoch - epochDelta ELSE 0
        nextEpochBegin == epoch + epochDelta
    IN  closestTo(lastPacketNumber + 1, epoch + wirePacketNumber,
            closestTo(lastPacketNumber + 1, prevEpochBegin + wirePacketNumber,
                      nextEpochBegin + wirePacketNumber))

DecodePacketNumber(packetNumberLength, lastPacketNumber, wirePacketNumber) ==
    DecodeInEpoch(EpochDelta(packetNumberLength), lastPacketNumber, wirePacketNumber)

\* What is left of a number in a header (writePacketNumber's conversions).
Truncated(packetNumber, len) == packetNumber % EpochDelta(len)

GetPacketNumberLengthForHeader(packetNumber, leastUnacked) ==
    LET diff == packetNumber - leastUnacked
    IN  IF diff < 2 ^ (2 * ByteBits - 1) THEN 2
        ELSE IF diff < 2 ^ (3 * ByteBits - 1) THEN 3 ELSE 4
=============================================================================

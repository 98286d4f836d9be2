------------------------------- MODULE VarInt -------------------------------
(***************************************************************************)
(* The encoding of integers (core/utils/varint.go, byteorder_big_endian.go)*)
(* on sequences of bytes, and the bytes.Reader that the parsers share.     *)
(*                                                                         *)
(* A reader is a record: err once a read failed, the values read so far,   *)
(* and the bytes that are left.  The parsers return at the first error, so *)
(* a reader with an error ignores everything else.                         *)
(*                                                                         *)
(* Integers go up to 2^31 - 1, what TLC can represent: all four lengths of *)
(* a varint occur, but the upper half of the longest is always zero.       *)
(***************************************************************************)
EXTENDS Integers, Sequences, SequencesExt

maxVarInt1 == 63
maxVarInt2 == 16383
maxVarInt4 == 1073741823

VarIntLen(i) ==
    IF i <= maxVarInt1 THEN 1
    ELSE IF i <= maxVarInt2 THEN 2
    ELSE IF i <= maxVarInt4 THEN 4 ELSE 8

\* Big-endian numbers of n bytes.
BigEndianBytes(i, n) ==
    [k \in 1 .. n |-> IF n - k > 3 THEN 0 ELSE (i \div 256 ^ (n - k)) % 256]

BigEndianNumber(bytes) == FoldLeft(LAMBDA n, x : n * 256 + x, 0, bytes)

\* The two highest bits of the first byte say how many bytes there are.
LengthBits(n) == CASE n = 1 -> 0 [] n = 2 -> 64 [] n = 4 -> 128 [] n = 8 -> 192
WithLength(bytes) == <<bytes[1] + LengthBits(Len(bytes))>> \o Tail(bytes)

WriteVarInt_OffByOne(i) ==
    LET n == IF i <= maxVarInt1 + 1 THEN 1 ELSE VarIntLen(i)
    IN  WithLength(BigEndianBytes(i, n))

WriteVarInt(i) ==
    LET n == VarIntLen(i)
    IN  WithLength(BigEndianBytes(i, n))

-----------------------------------------------------------------------------
Reader(bytes) == [err |-> FALSE, vals |-> <<>>, rest |-> bytes]

Failed(r) == [r EXCEPT !.err = TRUE]

\* Consume n bytes, if they are there, and keep the value that Value makes.
Consume(r, n, Value(_)) ==
    IF r.err \/ Len(r.rest) < n THEN Failed(r)
    ELSE [r EXCEPT !.vals = Append(@, Value(SubSeq(r.rest, 1, n))),
                   !.rest = SubSeq(@, n + 1, Len(@))]

ReadByte(r) == Consume(r, 1, LAMBDA b : b[1])

ReadUint(r, n) == Consume(r, n, BigEndianNumber)

ReadBytes(r, n) == Consume(r, n, LAMBDA b : b)

\* A run of bytes whose content does not matter: its length is kept.
Skip(r, n) == Consume(r, n, Len)

ReadVarInt(r) ==
    IF r.err \/ r.rest = <<>> THEN Failed(r)
    ELSE Consume(r, 2 ^ (r.rest[1] \div 64),
                 LAMBDA b : BigEndianNumber(<<b[1] % 64>> \o Tail(b)))

\* The parser returns an error unless what it has read so far passes Test.
Require(r, Test(_)) == IF r.err \/ Test(r.vals) THEN r ELSE Failed(r)

\* The value read last.
LastVal(r) == r.vals[Len(r.vals)]

\* A length that was just read, and that many bytes.
SkipCounted(r) == IF r.err THEN r ELSE Skip(r, LastVal(r))
ReadCounted(r) == IF r.err THEN r ELSE ReadBytes(r, LastVal(r))
=============================================================================

------------------------------ MODULE QuicVarInt ------------------------------
(***************************************************************************)
(* QUIC's variable-length integers (src/src/quic/varint.rs).  The two top  *)
(* bits of the first byte say whether the integer takes 1, 2, 4 or 8       *)
(* bytes; the rest is the value, most significant byte first.              *)
(***************************************************************************)
EXTENDS Octets

\* The values of a byte whose two top bits say the length.
Unit == ByteValues \div 4

Lengths == {1, 2, 4, 8}

Prefix(length) ==
    IF length = 1 THEN 0 ELSE IF length = 2 THEN 1 ELSE IF length = 4 THEN 2 ELSE 3

BigEndian(value, length) ==
    IF length = 1 THEN <<Low(value)>>
    ELSE IF length = 2 THEN U16Bytes(value)
    ELSE IF length = 4 THEN U32Bytes(value)
    ELSE U64Bytes(value)

\* The value leaves the two top bits of this length free.
Fits(value, length) ==
    /\ value < Unit \/ length > 1
    /\ Rest(value) < Unit \/ length > 2
    /\ Rest(Rest(Rest(value))) < Unit \/ length > 4
    /\ Rest(Rest(Rest(Rest(Rest(Rest(Rest(value))))))) < Unit

\* Mutant: the least value of two bytes is given one.
CanonicalLengthShort(value) ==
    IF value <= Unit THEN 1
    ELSE IF Fits(value, 2) THEN 2
    ELSE IF Fits(value, 4) THEN 4
    ELSE 8

CanonicalLength(value) ==
    IF Fits(value, 1) THEN 1
    ELSE IF Fits(value, 2) THEN 2
    ELSE IF Fits(value, 4) THEN 4
    ELSE 8

\* No integer longer than eight bytes is written.
Encodable(value) == Fits(value, 8)

VarInt(value, length) ==
    LET bytes == BigEndian(value, length)
    IN  [bytes EXCEPT ![1] = @ + Prefix(length) * Unit]

Canonical(value) == VarInt(value, CanonicalLength(value))

\* One of several integers, in the lengths chosen for them or canonical.
Written(value, widths, k) ==
    IF widths = <<>> THEN Canonical(value) ELSE VarInt(value, widths[k])

----------------------------------------------------------------------------
(* Reading *)

VarIntLength(bytes) ==
    LET prefix == bytes[1] \div Unit
    IN  IF prefix = 0 THEN 1 ELSE IF prefix = 1 THEN 2 ELSE IF prefix = 2 THEN 4 ELSE 8

\* QuicVarInt::parse succeeds on bytes that start with a whole integer.
HasVarInt(bytes) == Len(bytes) > 0 /\ VarIntLength(bytes) <= Len(bytes)

VarIntIn(bytes) ==
    LET length == VarIntLength(bytes)
        unprefixed == [bytes EXCEPT ![1] = @ % Unit]
    IN  IF length = 1 THEN unprefixed[1]
        ELSE IF length = 2 THEN U16(unprefixed)
        ELSE IF length = 4 THEN U32(unprefixed)
        ELSE U64(unprefixed)

AfterVarInt(bytes) == From(bytes, VarIntLength(bytes) + 1)

\* Bytes with their length in front.
HasBlock(bytes) == HasVarInt(bytes) /\ VarIntIn(bytes) <= Len(AfterVarInt(bytes))
Block(bytes) == Leading(AfterVarInt(bytes), VarIntIn(bytes))
AfterBlock(bytes) == From(AfterVarInt(bytes), VarIntIn(bytes) + 1)

IsOneVarInt(bytes) == HasVarInt(bytes) /\ VarIntLength(bytes) = Len(bytes)

----------------------------------------------------------------------------
(* What the peer writes: the frames and the transport parameters, which    *)
(* this crate only reads, as a sequence of parts.                          *)

\* An integer, or bytes behind their length, in the given width or in the shortest (0).
InWidth(value, width) == IF width = 0 THEN Canonical(value) ELSE VarInt(value, width)
Number(value, width) == [value |-> <<value>>, bytes |-> InWidth(value, width)]
Sized(bytes, width) == [value |-> bytes, bytes |-> InWidth(Len(bytes), width) \o bytes]

\* Bytes behind one byte for their length, and bytes as they are.
Counted(bytes) == [value |-> bytes, bytes |-> <<Len(bytes)>> \o bytes]
Raw(bytes) == [value |-> bytes, bytes |-> bytes]

Joined(pieces) ==
    LET upTo[k \in 0 .. Len(pieces)] == IF k = 0 THEN <<>> ELSE upTo[k - 1] \o pieces[k]
    IN  upTo[Len(pieces)]

PartsBytes(parts) == Joined([k \in 1 .. Len(parts) |-> parts[k].bytes])
PartsValue(parts) == Joined([k \in 1 .. Len(parts) |-> parts[k].value])

=============================================================================

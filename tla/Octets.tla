-------------------------------- MODULE Octets --------------------------------
(***************************************************************************)
(* Unsigned integers of 2, 4 and 8 bytes in network byte order, as         *)
(* to_be_bytes and from_be_bytes write and read them wherever the          *)
(* protocols carry one, and pieces of byte strings.                        *)
(*                                                                         *)
(* ByteValues is the number of values of a byte, 256 in the code.  With a  *)
(* smaller multiple of four the limits of the lengths come into reach of   *)
(* small values.                                                           *)
(***************************************************************************)
EXTENDS Integers, Sequences

CONSTANT ByteValues

ASSUME ByteAssumption == /\ ByteValues \in Nat
                         /\ ByteValues >= 4
                         /\ ByteValues % 4 = 0

Byte == 0 .. (ByteValues - 1)

Low(n) == n % ByteValues
Rest(n) == n \div ByteValues

U16Bytes(n) == <<Low(Rest(n)), Low(n)>>
U32Bytes(n) == <<Low(Rest(Rest(Rest(n)))), Low(Rest(Rest(n))), Low(Rest(n)), Low(n)>>
U64Bytes(n) == U32Bytes(Rest(Rest(Rest(Rest(n))))) \o U32Bytes(n)

U16(b) == b[1] * ByteValues + b[2]
U32(b) == (U16(b) * ByteValues + b[3]) * ByteValues + b[4]
U64(b) == (((U32(b) * ByteValues + b[5]) * ByteValues + b[6]) * ByteValues + b[7])
             * ByteValues + b[8]

\* The bytes from a position on, the first or the last n of them.
From(bytes, start) == SubSeq(bytes, start, Len(bytes))
Leading(bytes, n) == SubSeq(bytes, 1, n)
Trailing(bytes, n) == SubSeq(bytes, Len(bytes) - n + 1, Len(bytes))

=============================================================================

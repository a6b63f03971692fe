------------------------------ MODULE QuicPacket ------------------------------
(***************************************************************************)
(* QUIC packets under their protection, and the datagrams that carry one   *)
(* or several of them: the builders of src/src/quic/builder, the parsers   *)
(* and the walk over a datagram of src/src/quic/packet.                    *)
(*                                                                         *)
(* What is given to a builder is one record:                               *)
(*   type      a name of TypeNames, "VersionNegotiation", "Short", or      *)
(*             "Unknown" for a packet of some other version                *)
(*   low       the protected or unused bits of the first byte              *)
(*   version, dcid, scid, token                                            *)
(*   body      the protected remainder, the integrity tag of a Retry, the  *)
(*             list of versions, or what an unknown version has            *)
(*   widths    <<>>, or the lengths in which the caller wants the token    *)
(*             length and the length of a protected packet                 *)
(* Versions are four bytes.  The first byte is read with ByteValues = 256. *)
(***************************************************************************)
EXTENDS QuicVarInt

NEGOTIATION == <<0, 0, 0, 0>>
V1 == <<0, 0, 0, 1>>
V2 == <<107, 51, 67, 207>>
Versions == {V1, V2}

TypeNames(version) ==
    IF version = V1 THEN <<"Initial", "ZeroRtt", "Handshake", "Retry">>
    ELSE <<"Retry", "Initial", "ZeroRtt", "Handshake">>

ProtectedTypes == {"Initial", "ZeroRtt", "Handshake"}

RawType(version, type) == (CHOOSE k \in 1 .. 4 : TypeNames(version)[k] = type) - 1

\* Mutant: version 2 is read with the types of version 1.
LongTypeV1(version, raw) ==
    IF version \in Versions THEN TypeNames(V1)[raw + 1] ELSE "Unknown"

LongType(version, raw) ==
    IF version \in Versions THEN TypeNames(version)[raw + 1] ELSE "Unknown"

MaximumCid == 20
TagLength == 16

----------------------------------------------------------------------------
(* Building *)

LongHeaderBytes(first, given) ==
    <<first>> \o given.version \o <<Len(given.dcid)>> \o given.dcid
        \o <<Len(given.scid)>> \o given.scid

TokenBytes(given) == Written(Len(given.token), given.widths, 1) \o given.token

\* build_long
ProtectedBytes(given) ==
    LongHeaderBytes(192 + 16 * RawType(given.version, given.type) + given.low, given)
        \o (IF given.type = "Initial" THEN TokenBytes(given) ELSE <<>>)
        \o Written(Len(given.body), given.widths, 2)
        \o given.body

RetryBytes(given) ==
    LongHeaderBytes(192 + 16 * RawType(given.version, "Retry") + given.low, given)
        \o given.token \o given.body

\* Version Negotiation, and packets of other versions, which this crate cannot build.
InvariantBytes(given) == LongHeaderBytes(128 + given.low, given) \o given.body

ShortBytes(given) == <<64 + given.low>> \o given.dcid \o given.body

PacketBytes(given) ==
    IF given.type \in ProtectedTypes THEN ProtectedBytes(given)
    ELSE IF given.type = "Retry" THEN RetryBytes(given)
    ELSE IF given.type = "Short" THEN ShortBytes(given)
    ELSE InvariantBytes(given)

HasShortCids(given) == Len(given.dcid) <= MaximumCid /\ Len(given.scid) <= MaximumCid

WidthsFit(given) ==
    given.widths = <<>> \/ (Fits(Len(given.token), given.widths[1])
                               /\ Fits(Len(given.body), given.widths[2]))

\* The checks of the builders, in front of those of the buffer.
BuildAllowed(given) ==
    /\ given.type \in ProtectedTypes =>
          /\ given.version \in Versions /\ given.low < 16 /\ HasShortCids(given)
          /\ Len(given.body) >= 2 /\ WidthsFit(given)
    /\ given.type = "Retry" =>
          /\ given.version \in Versions /\ given.low < 16 /\ HasShortCids(given)
          /\ given.token # <<>> /\ Len(given.body) = TagLength
    /\ given.type = "Short" =>
          given.low < 64 /\ HasShortCids(given) /\ Len(given.body) >= 2
    /\ given.type = "VersionNegotiation" =>
          /\ given.version = NEGOTIATION /\ given.low < 128
          /\ Len(given.dcid) < ByteValues /\ Len(given.scid) < ByteValues
          /\ given.body # <<>> /\ Len(given.body) % 4 = 0

----------------------------------------------------------------------------
(* Headers *)

IsLong(bytes) == bytes[1] >= 128
HasFixedBit(bytes) == (bytes[1] \div 64) % 2 = 1
RawTypeBits(bytes) == (bytes[1] \div 16) % 4

\* Where the source connection ID ends, if the bytes hold so many.
DcidLength(bytes) == bytes[6]
ScidLength(bytes) == bytes[7 + DcidLength(bytes)]

HasLongHeader(bytes) ==
    /\ Len(bytes) >= 6
    /\ Len(bytes) >= 7 + DcidLength(bytes)
    /\ Len(bytes) >= 7 + DcidLength(bytes) + ScidLength(bytes)

VersionIn(bytes) == SubSeq(bytes, 2, 5)
DcidIn(bytes) == SubSeq(bytes, 7, 6 + DcidLength(bytes))
ScidIn(bytes) ==
    SubSeq(bytes, 8 + DcidLength(bytes), 7 + DcidLength(bytes) + ScidLength(bytes))
AfterHeader(bytes) == From(bytes, 8 + DcidLength(bytes) + ScidLength(bytes))

----------------------------------------------------------------------------
(* Parsing one packet at the start of the bytes.  Its length says how many  *)
(* of them it takes.                                                        *)

Packet(type, bytes, token, body, length) ==
    [type |-> type, first |-> bytes[1], version |-> VersionIn(bytes),
     dcid |-> DcidIn(bytes), scid |-> ScidIn(bytes), token |-> token, body |-> body,
     length |-> length]

Error == [type |-> "Error"]

HasParsedCids(bytes) == DcidLength(bytes) <= MaximumCid /\ ScidLength(bytes) <= MaximumCid

\* QuicProtectedLongPacket::parse
ProtectedIn(type, bytes) ==
    LET header == AfterHeader(bytes)
        rest == IF type = "Initial" THEN AfterBlock(header) ELSE header
        token == IF type = "Initial" THEN Block(header) ELSE <<>>
    IN  IF ~HasFixedBit(bytes) \/ ~HasParsedCids(bytes) THEN Error
        ELSE IF type = "Initial" /\ ~HasBlock(header) THEN Error
        ELSE IF ~HasBlock(rest) THEN Error
        ELSE IF VarIntIn(rest) < 2 THEN Error
        ELSE Packet(type, bytes, token, Block(rest), Len(bytes) - Len(AfterBlock(rest)))

\* QuicRetryPacket::parse
RetryIn(bytes) ==
    LET rest == AfterHeader(bytes)
        tokenLength == Len(rest) - TagLength
    IN  IF ~HasFixedBit(bytes) \/ ~HasParsedCids(bytes) \/ tokenLength < 1 THEN Error
        ELSE Packet("Retry", bytes, Leading(rest, tokenLength), Trailing(rest, TagLength),
                    Len(bytes))

\* QuicVersionNegotiationPacket::parse
VersionNegotiationIn(bytes) ==
    LET versions == AfterHeader(bytes)
    IN  IF versions = <<>> \/ Len(versions) % 4 # 0 THEN Error
        ELSE Packet("VersionNegotiation", bytes, <<>>, versions, Len(bytes))

LongIn(bytes) ==
    LET type == LongType(VersionIn(bytes), RawTypeBits(bytes))
    IN  IF VersionIn(bytes) = NEGOTIATION THEN VersionNegotiationIn(bytes)
        ELSE IF type = "Retry" THEN RetryIn(bytes)
        ELSE IF type = "Unknown" THEN Packet(type, bytes, <<>>, AfterHeader(bytes), Len(bytes))
        ELSE ProtectedIn(type, bytes)

\* A short header is read with the length of the receiver's own connection IDs, <<>>
\* when it has none to offer.
ShortIn(bytes, context) ==
    IF context = <<>> THEN Error
    ELSE IF Len(bytes) < 1 + context[1] THEN Error
    ELSE [type |-> "Short", first |-> bytes[1], version |-> <<>>,
          dcid |-> SubSeq(bytes, 2, 1 + context[1]), scid |-> <<>>, token |-> <<>>,
          body |-> From(bytes, 2 + context[1]), length |-> Len(bytes)]

PacketIn(bytes, context) ==
    IF ~IsLong(bytes) THEN ShortIn(bytes, context)
    ELSE IF HasLongHeader(bytes) THEN LongIn(bytes)
    ELSE Error

\* QuicPackets: the packets of a datagram, and an Error where the walk fails.
PacketsIn(bytes, context) ==
    LET from[i \in 1 .. (Len(bytes) + 1)] ==
            IF i > Len(bytes) THEN <<>>
            ELSE LET packet == PacketIn(From(bytes, i), context)
                 IN  IF packet.type \in ProtectedTypes
                     THEN <<packet>> \o from[i + packet.length] ELSE <<packet>>
    IN  from[1]

----------------------------------------------------------------------------
(* The overlay of a header without its protection *)

\* The bits of the first byte that header protection leaves alone.
Preserved(packet, first) == IF packet.type = "Short" THEN first \div 32 ELSE first \div 16

NumberLength(first) == (first % 4) + 1

OverlayAllowed(packet, first, number) ==
    /\ Preserved(packet, first) = Preserved(packet, packet.first)
    /\ Len(number) = NumberLength(first)
    /\ Len(packet.body) >= NumberLength(first)

\* QuicTruncatedPacketNumber::value
NumberIn(number) ==
    LET upTo[k \in 0 .. Len(number)] ==
            IF k = 0 THEN 0 ELSE ByteValues * upTo[k - 1] + number[k]
    IN  upTo[Len(number)]

=============================================================================

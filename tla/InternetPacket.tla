---------------------------- MODULE InternetPacket ----------------------------
(***************************************************************************)
(* UDP datagrams in IPv4 or IPv6 packets in Ethernet frames, as bytes: the *)
(* builders, the parsers and the dispatch from one layer to the next of    *)
(* src/src/ethernet, ipv4, ipv6 and udp, and the Internet checksum.        *)
(*                                                                         *)
(* What is given to the builders of the four layers is one record:         *)
(*   version                   4 or 6                                      *)
(*   source, destination       IP addresses                                *)
(*   sourcePort, destinationPort                                           *)
(*   fragment                  flags_fragment_offset of IPv4               *)
(*   options                   options of IPv4                             *)
(*   extensions                IPv6 extension headers, each [type, bytes]  *)
(*                             with a first byte for the type of the next  *)
(*   checked                   whether the sender computes the checksum,   *)
(*                             which IPv4 leaves to it                     *)
(*   payload                                                               *)
(* The fields that no layer acts on have fixed values.                     *)
(***************************************************************************)
EXTENDS Octets

UDP == 17
IPV4 == <<8, 0>>
IPV6 == <<134, 221>>

WordValues == ByteValues * ByteValues

Zeros(n) == [k \in 1 .. n |-> 0]

----------------------------------------------------------------------------
(* The Internet checksum *)

Fold(sum) == (sum % WordValues) + (sum \div WordValues)

\* The words of the bytes, an odd one at the end taken for the upper half of a word.
OnesSum(bytes) ==
    LET padded == IF Len(bytes) % 2 = 0 THEN bytes ELSE Append(bytes, 0)
        upTo[k \in 0 .. (Len(padded) \div 2)] ==
            IF k = 0 THEN 0
            ELSE Fold(upTo[k - 1] + U16(SubSeq(padded, 2 * k - 1, 2 * k)))
    IN  upTo[Len(padded) \div 2]

Complement(sum) == WordValues - 1 - sum
IsWhole(bytes) == OnesSum(bytes) = WordValues - 1

\* Mutant: the destination is left out for IPv6.
PseudoHeaderSource(version, source, destination, length) ==
    IF version = 4 THEN source \o destination \o <<0, UDP>> \o U16Bytes(length)
    ELSE source \o U32Bytes(length) \o <<0, 0, 0, UDP>>

PseudoHeader(version, source, destination, length) ==
    IF version = 4 THEN source \o destination \o <<0, UDP>> \o U16Bytes(length)
    ELSE source \o destination \o U32Bytes(length) \o <<0, 0, 0, UDP>>

----------------------------------------------------------------------------
(* Building *)

UdpHeaderLength == 8

\* Mutant: for IPv6 a checksum that comes out as zero is sent as zero.
UdpChecksumZero(given, unchecked) ==
    LET value == Complement(OnesSum(PseudoHeader(given.version, given.source,
                                                 given.destination, Len(unchecked))
                                        \o unchecked))
    IN  IF value = 0 /\ given.version = 4 THEN WordValues - 1 ELSE value

\* update_checksum_ipv4 and update_checksum_ipv6
UdpChecksum(given, unchecked) ==
    LET value == Complement(OnesSum(PseudoHeader(given.version, given.source,
                                                 given.destination, Len(unchecked))
                                        \o unchecked))
    IN  IF value = 0 THEN WordValues - 1 ELSE value

UdpBytes(given) ==
    LET header == U16Bytes(given.sourcePort) \o U16Bytes(given.destinationPort)
                      \o U16Bytes(UdpHeaderLength + Len(given.payload))
        unchecked == header \o <<0, 0>> \o given.payload
    IN  IF given.checked
        THEN header \o U16Bytes(UdpChecksum(given, unchecked)) \o given.payload
        ELSE unchecked

Ipv4HeaderLength == 20

Ipv4Bytes(given, payload) ==
    LET length == Ipv4HeaderLength + Len(given.options)
        before == <<64 + (length \div 4), 0>> \o U16Bytes(length + Len(payload))
                      \o <<0, 0>> \o U16Bytes(given.fragment) \o <<64, UDP>>
        after == given.source \o given.destination \o given.options
        checksum == Complement(OnesSum(before \o <<0, 0>> \o after))
    IN  before \o U16Bytes(checksum) \o after \o payload

Ipv6HeaderLength == 40

\* The extension headers are the caller's, before the payload.
ExtensionBytes(extensions) ==
    LET from[k \in 1 .. (Len(extensions) + 1)] ==
            IF k > Len(extensions) THEN <<>>
            ELSE extensions[k].bytes \o from[k + 1]
    IN  from[1]

Ipv6Bytes(given, upper) ==
    LET payload == ExtensionBytes(given.extensions) \o upper
        nextHeader == IF given.extensions = <<>> THEN UDP ELSE given.extensions[1].type
    IN  <<96, 0, 0, 0>> \o U16Bytes(Len(payload)) \o <<nextHeader, 64>>
            \o given.source \o given.destination \o payload

\* The bytes of a MAC address do not depend on the rest.
EthernetBytes(etherType, payload) ==
    <<2, 0, 0, 0, 0, 1>> \o <<2, 0, 0, 0, 0, 2>> \o etherType \o payload

OnTheLink(given) ==
    IF given.version = 4 THEN EthernetBytes(IPV4, Ipv4Bytes(given, UdpBytes(given)))
    ELSE EthernetBytes(IPV6, Ipv6Bytes(given, UdpBytes(given)))

BuildAllowed(given) ==
    /\ UdpHeaderLength + Len(given.payload) < WordValues
    /\ given.version = 4 =>
          /\ given.fragment < WordValues \div 2
          /\ Len(given.options) <= 40 /\ Len(given.options) % 4 = 0
          /\ Ipv4HeaderLength + Len(given.options) + Len(UdpBytes(given)) < WordValues
    /\ given.version = 6 =>
          Len(ExtensionBytes(given.extensions)) + Len(UdpBytes(given)) < WordValues

----------------------------------------------------------------------------
(* Parsing.  Nothing stands for bytes that a layer refuses, or that are     *)
(* not for the next one.                                                    *)

Nothing == [version |-> 0]

EthernetHeaderLength == 14
EtherType(frame) == SubSeq(frame, 13, 14)
EthernetPayload(frame) == From(frame, EthernetHeaderLength + 1)

Ipv4Header(bytes) == 4 * (bytes[1] % 16)
TotalLength(bytes) == U16(SubSeq(bytes, 3, 4))

\* Ipv4Packet::parse and checksum_is_valid
IsIpv4(bytes) ==
    /\ Len(bytes) >= Ipv4HeaderLength
    /\ bytes[1] \div 16 = 4
    /\ Ipv4Header(bytes) >= Ipv4HeaderLength
    /\ Len(bytes) >= Ipv4Header(bytes)
    /\ TotalLength(bytes) >= Ipv4Header(bytes)
    /\ Len(bytes) >= TotalLength(bytes)
    /\ IsWhole(Leading(bytes, Ipv4Header(bytes)))

IsNonAtomicIpv4(bytes) == U16(SubSeq(bytes, 7, 8)) % (WordValues \div 4) # 0

PayloadLength(bytes) == U16(SubSeq(bytes, 5, 6))

IsIpv6(bytes) ==
    /\ Len(bytes) >= Ipv6HeaderLength
    /\ bytes[1] \div 16 = 6
    /\ Len(bytes) >= Ipv6HeaderLength + PayloadLength(bytes)

Ipv6Payload(bytes) ==
    IF PayloadLength(bytes) = 0 THEN From(bytes, Ipv6HeaderLength + 1)
    ELSE SubSeq(bytes, Ipv6HeaderLength + 1, Ipv6HeaderLength + PayloadLength(bytes))

AUTHENTICATION == 51
FRAGMENT == 44
Skipped == {0, 43, 60, AUTHENTICATION, FRAGMENT}
Resolved == Skipped \cup {UDP}

ExtensionLength(nextHeader, bytes) ==
    IF nextHeader = FRAGMENT THEN 8
    ELSE IF nextHeader = AUTHENTICATION THEN 4 * (bytes[2] + 2)
    ELSE 8 * (bytes[2] + 1)

\* One extension header of this type lies whole at the start of the bytes.
HasExtension(nextHeader, bytes) ==
    /\ Len(bytes) >= 2
    /\ Len(bytes) >= ExtensionLength(nextHeader, bytes)
    /\ nextHeader = AUTHENTICATION => bytes[2] >= 1

\* The fragment offset or the M flag is set; the two reserved bits are not looked at.
IsNonAtomicIpv6(bytes) == bytes[3] # 0 \/ bytes[4] \div 8 # 0 \/ bytes[4] % 2 = 1

\* extensions::traverse: the bytes of the upper layer, <<>> if it is not UDP.
UpperLayer(nextHeader, payload) ==
    LET from[at \in (1 .. (Len(payload) + 1)) \X Resolved] ==
            LET type == at[2]
                bytes == From(payload, at[1])
                next == bytes[1]
            IN  IF type = UDP THEN bytes
                ELSE IF ~HasExtension(type, bytes) THEN <<>>
                ELSE IF type = FRAGMENT /\ IsNonAtomicIpv6(bytes) THEN <<>>
                ELSE IF next \notin Resolved THEN <<>>
                ELSE from[<<at[1] + ExtensionLength(type, bytes), next>>]
    IN  IF nextHeader \in Resolved THEN from[<<1, nextHeader>>] ELSE <<>>

UdpLength(bytes) == U16(SubSeq(bytes, 5, 6))
UdpChecksumIn(bytes) == SubSeq(bytes, 7, 8)

IsUdp(bytes) ==
    /\ Len(bytes) >= UdpHeaderLength
    /\ UdpLength(bytes) >= UdpHeaderLength
    /\ Len(bytes) >= UdpLength(bytes)

\* checksum_status_ipv4 and checksum_is_valid_ipv6
IsUndamaged(version, source, destination, bytes) ==
    IF UdpChecksumIn(bytes) = <<0, 0>> THEN version = 4
    ELSE IsWhole(PseudoHeader(version, source, destination, Len(bytes)) \o bytes)

\* What a receiver that checks the checksums takes from the bytes of a UDP datagram.
UdpIn(version, source, destination, bytes) ==
    LET datagram == Leading(bytes, UdpLength(bytes))
    IN  IF ~IsUdp(bytes) THEN Nothing
        ELSE IF ~IsUndamaged(version, source, destination, datagram) THEN Nothing
        ELSE [version |-> version, source |-> source, destination |-> destination,
              sourcePort |-> U16(datagram), destinationPort |-> U16(From(datagram, 3)),
              payload |-> From(datagram, UdpHeaderLength + 1)]

Ipv4In(bytes) ==
    IF ~IsIpv4(bytes) THEN Nothing
    ELSE IF bytes[10] # UDP \/ IsNonAtomicIpv4(bytes) THEN Nothing
    ELSE UdpIn(4, SubSeq(bytes, 13, 16), SubSeq(bytes, 17, 20),
               SubSeq(bytes, Ipv4Header(bytes) + 1, TotalLength(bytes)))

\* A packet of unspecified length that goes on after its header is not resolved.
Ipv6In(bytes) ==
    IF ~IsIpv6(bytes) THEN Nothing
    ELSE IF PayloadLength(bytes) = 0 /\ Ipv6Payload(bytes) # <<>> THEN Nothing
    ELSE UdpIn(6, SubSeq(bytes, 9, 24), SubSeq(bytes, 25, 40),
               UpperLayer(bytes[7], Ipv6Payload(bytes)))

Received(frame) ==
    LET packet == EthernetPayload(frame)
    IN  IF Len(frame) < EthernetHeaderLength THEN Nothing
        ELSE IF EtherType(frame) = IPV4 THEN Ipv4In(packet)
        ELSE IF EtherType(frame) = IPV6 THEN Ipv6In(packet)
        ELSE Nothing

=============================================================================

------------------------------- MODULE QuicPath -------------------------------
(***************************************************************************)
(* A QUIC handshake over UDP, IP and Ethernet, from the payload of a frame *)
(* to the bytes on the link and back: InternetPacket, QuicPacket, QuicFrame*)
(* and QuicTransportParameters composed.                                   *)
(*                                                                         *)
(* The crate builds and parses; what an endpoint does with what it has     *)
(* parsed is its user's.  Two such users are modelled here, with as little *)
(* as the documentation of the parsers asks of them: they take protected   *)
(* packets once per number, learn the peer's connection ID from its first  *)
(* Initial, answer with Retry or Version Negotiation, and check transport  *)
(* parameters in the context the packets gave them.  The cryptography is   *)
(* the user's too: header protection permutes the protected bits, and what *)
(* was not sealed by an endpoint does not open.                            *)
(*                                                                         *)
(* Every datagram that was sent stays on the link, so that it may arrive   *)
(* late, after later ones, several times or never, as it was sent, padded, *)
(* cut short or with a byte changed.                                       *)
(***************************************************************************)
EXTENDS Integers, Sequences, FiniteSets

CONSTANTS ByteValues,       \* the values of a byte on the link
          FrameByteValues,  \* the values of a byte inside of a payload
          Scenarios         \* see MCQuicPath

ASSUME ByteAssumption ==
    /\ ByteValues = 256
    /\ FrameByteValues \in Nat /\ FrameByteValues % 16 = 0
    /\ FrameByteValues > 0 /\ FrameByteValues <= ByteValues

Link == INSTANCE InternetPacket
Packets == INSTANCE QuicPacket
Frames == INSTANCE QuicFrame WITH ByteValues <- FrameByteValues
Parameters == INSTANCE QuicTransportParameters WITH ByteValues <- FrameByteValues

VARIABLES
    scenario,   \* what the two users do, chosen once
    sent,       \* the datagrams on the link
    local,      \* what each endpoint knows
    arrival     \* the last datagram that has arrived, and what became of it

vars == <<scenario, sent, local, arrival>>

Endpoints == {"Client", "Server"}
Other(e) == IF e = "Client" THEN "Server" ELSE "Client"

ClientCid == <<12>>
OriginalCid == <<1, 2, 3>>
RetryCid == <<4, 5>>
ServerCid == <<6>>
RetryToken == <<9, 9>>

OwnCids(e) == IF e = "Client" THEN {ClientCid} ELSE {OriginalCid, RetryCid, ServerCid}

----------------------------------------------------------------------------
(* The protection of a packet, outside of this crate *)

Mask == 5
TAG == 255      \* for all the bytes of a tag

ProtectedBits(type) == IF type = "Short" THEN 32 ELSE 16

\* A packet that is to be built, with the bytes of its number and its payload.
Sealed(given, number, payload) ==
    [given EXCEPT
        !.low = (Len(number) - 1 + Mask) % ProtectedBits(given.type),
        !.body = [k \in DOMAIN number |-> (number[k] + Mask) % ByteValues]
                     \o payload \o <<TAG>>]

UnprotectedFirst(packet) ==
    LET bits == ProtectedBits(packet.type)
        masked == packet.first % bits
    IN  (packet.first - masked) + ((masked - Mask) % bits)

UnprotectedNumber(packet) ==
    [k \in 1 .. Packets!NumberLength(UnprotectedFirst(packet)) |->
        (packet.body[k] - Mask) % ByteValues]

Payload(packet) ==
    SubSeq(packet.body, Packets!NumberLength(UnprotectedFirst(packet)) + 1, Len(packet.body) - 1)

----------------------------------------------------------------------------
(* What the users write.  A given frame has a type and its width, parts for *)
(* integers and data, and says whether a peer may send it.                  *)

FrameBytes(frame) ==
    Frames!InWidth(frame.type, frame.width) \o Frames!PartsBytes(frame.integers)
        \o Frames!PartsBytes(frame.data)

PayloadBytes(frames) == Frames!Joined([k \in 1 .. Len(frames) |-> FrameBytes(frames[k])])

Least(numbers) == CHOOSE n \in numbers : \A m \in numbers : n <= m
Greatest(numbers) == CHOOSE n \in numbers : \A m \in numbers : m <= n

\* Where the range that holds the greatest of the numbers begins.
RangeStart(numbers) ==
    Least({n \in numbers : n .. Greatest(numbers) \subseteq numbers})

\* The gap and the length of every range under the last one, downwards.
RangeParts(numbers, smallest) ==
    LET from[n \in 0 .. smallest] ==
            LET below == {m \in numbers : m < n}
                start == RangeStart(below)
            IN  IF below = {} THEN <<>>
                ELSE <<n - Greatest(below) - 2, Greatest(below) - start>> \o from[start]
    IN  from[smallest]

\* The ACK of these packet numbers, with ECN counts or without.
AckFrame(numbers, type) ==
    LET start == RangeStart(numbers)
        lower == RangeParts(numbers, start)
        counts == IF type = 3 THEN <<0, 0, 1>> ELSE <<>>
        integers == <<Greatest(numbers), 0, Len(lower) \div 2, Greatest(numbers) - start>>
                        \o lower \o counts
    IN  [type |-> type, width |-> 0,
         integers |-> [k \in DOMAIN integers |-> Frames!Number(integers[k], 0)],
         data |-> <<>>, legal |-> TRUE]

CryptoFrame(bytes) ==
    [type |-> Frames!CRYPTO, width |-> 0, integers |-> <<Frames!Number(0, 0)>>,
     data |-> <<Frames!Sized(bytes, 0)>>, legal |-> TRUE]

PingFrame == [type |-> 1, width |-> 0, integers |-> <<>>, data |-> <<>>, legal |-> TRUE]

----------------------------------------------------------------------------
(* What a scenario may ask of the users *)

\* Packet numbers leave gaps.
NUMBERS == <<0, 1, 4>>

Part == [value : Seq(Nat), bytes : Seq(Frames!Byte)]

GivenFrame ==
    [type : Nat, width : {0} \cup Frames!Lengths, integers : Seq(Part), data : Seq(Part),
     legal : BOOLEAN]

\* Extension headers that are whole and lead to each other and to UDP.
IsExtensions(extensions) ==
    /\ extensions \in Seq([type : Link!Skipped, bytes : Seq(Link!Byte)])
    /\ \A k \in 1 .. Len(extensions) :
          LET header == extensions[k]
          IN  /\ Link!HasExtension(header.type, header.bytes)
              /\ Len(header.bytes) = Link!ExtensionLength(header.type, header.bytes)
              /\ header.bytes[1] = IF k = Len(extensions) THEN Link!UDP
                                   ELSE extensions[k + 1].type

IsCarrier(carrier) ==
    /\ carrier.version \in {4, 6}
    /\ carrier.checked \in BOOLEAN
    /\ \A e \in Endpoints :
          /\ carrier.address[e] \in Seq(Link!Byte)
          /\ Len(carrier.address[e]) = IF carrier.version = 4 THEN 4 ELSE 16
    /\ carrier.version = 4 =>
          /\ carrier.fragment \in 0 .. (Link!WordValues - 1)
          /\ carrier.options \in Seq(Link!Byte)
          /\ carrier.fragmented <=> carrier.fragment % (Link!WordValues \div 4) # 0
    /\ carrier.version = 6 =>
          /\ carrier.checked
          /\ IsExtensions(carrier.extensions)
          /\ carrier.fragmented <=>
                \E k \in 1 .. Len(carrier.extensions) :
                    /\ carrier.extensions[k].type = Link!FRAGMENT
                    /\ Link!IsNonAtomicIpv6(carrier.extensions[k].bytes)

IsList(bytes) == bytes \in Seq(Frames!Byte) /\ Frames!Encodable(Len(bytes))

IsScenario(given) ==
    /\ given.version \in Seq(Link!Byte) /\ Len(given.version) = 4
    /\ given.version # Packets!NEGOTIATION
    /\ given.initials \in 0 .. Len(NUMBERS)
    /\ \A e \in Endpoints : given.shorts[e] \in 0 .. Len(NUMBERS)
    /\ given.widths # <<>> => given.widths \in Packets!Lengths \X Packets!Lengths
    /\ IsList(given.clientList) /\ IsList(given.serverList)
    /\ given.frames \in Seq(GivenFrame)
    /\ \A k \in 1 .. Len(given.frames) : FrameBytes(given.frames[k]) \in Seq(Frames!Byte)
    /\ IsCarrier(given.carrier)

ASSUME ScenarioAssumption == \A given \in Scenarios : IsScenario(given)

----------------------------------------------------------------------------
(* Sending *)

Space(type) == IF type \in {"ZeroRtt", "Short"} THEN "Application" ELSE type

PacketsSent(e) ==
    UNION {{sent[i].packets[k] : k \in DOMAIN sent[i].packets} :
              i \in {i \in DOMAIN sent : sent[i].by = e}}

NumbersSent(e, space) == {p.number : p \in {p \in PacketsSent(e) : p.space = space}}

NextNumber(e, space) == NUMBERS[Cardinality(NumbersSent(e, space)) + 1]

\* What the users keep of a packet they build: the given record, sealed, and its contents.
Protected(e, type, given, frames, acked) ==
    LET number == NextNumber(e, Space(type))
        bytes == IF type \in {"Initial", "Handshake"} THEN <<number>> ELSE <<0, number>>
    IN  [given |-> Sealed(given, bytes, PayloadBytes(frames)),
         space |-> Space(type), number |-> number, frames |-> frames, acked |-> acked]

Bare(given) ==
    [given |-> given, space |-> "None", number |-> 0, frames |-> <<>>, acked |-> {}]

Given(type, dcid, scid, token) ==
    [type |-> type, low |-> 0, version |-> scenario.version, dcid |-> dcid, scid |-> scid,
     token |-> token, body |-> <<>>, widths |-> IF type = "Short" THEN <<>> ELSE scenario.widths]

\* The datagram that is given to the lower layers.  A sender may take the port for
\* which the checksum comes out as zero.
Datagram(e, payload) ==
    LET carrier == scenario.carrier
        port0 == [version |-> carrier.version, source |-> carrier.address[e],
                  destination |-> carrier.address[Other(e)],
                  sourcePort |-> 0, destinationPort |-> 443,
                  fragment |-> carrier.fragment, options |-> carrier.options,
                  extensions |-> carrier.extensions, checked |-> FALSE,
                  payload |-> payload]
        unchecked == Link!UdpBytes(port0)
        port == IF carrier.balanced
                THEN Link!Complement(Link!OnesSum(
                         Link!PseudoHeader(port0.version, port0.source, port0.destination,
                                           Len(unchecked)) \o unchecked))
                ELSE 4433
    IN  [port0 EXCEPT !.sourcePort = port, !.checked = carrier.checked]

\* The packets of one datagram, and zeros that fill it up.
Send(e, packets, zeros) ==
    LET built == [k \in DOMAIN packets |-> Packets!PacketBytes(packets[k].given)]
        datagram == Datagram(e, Frames!Joined(built) \o Link!Zeros(zeros))
        failed == {k \in DOMAIN packets : ~Packets!BuildAllowed(packets[k].given)}
    IN  /\ failed = {}
        /\ {datagram} = {d \in {datagram} : Link!BuildAllowed(d)}
        /\ sent' = Append(sent, [by |-> e, packets |-> packets, zeros |-> zeros,
                                 datagram |-> datagram, frame |-> Link!OnTheLink(datagram)])
        /\ arrival' = [of |-> 0]
        /\ UNCHANGED <<scenario, local>>

NumbersRead(e, space) == {r.number : r \in {r \in local[e].read : r.space = space}}

HasSent(e, type) == \E p \in PacketsSent(e) : p.given.type = type

PeerCid(e) == local[e].peer[1]

ClientDcid ==
    IF local["Client"].peer # <<>> THEN PeerCid("Client")
    ELSE IF local["Client"].retry # <<>> THEN local["Client"].retry[1].scid
    ELSE OriginalCid

ClientToken == IF local["Client"].retry = <<>> THEN <<>> ELSE local["Client"].retry[1].token

\* What the client puts behind its Initial.
ClientMore ==
    IF scenario.behind # "ZeroRtt" THEN <<>>
    ELSE <<Protected("Client", "ZeroRtt", Given("ZeroRtt", ClientDcid, ClientCid, <<>>),
                     <<PingFrame>>, {})>>

ClientSendsInitial ==
    LET initial == Protected("Client", "Initial",
                             Given("Initial", ClientDcid, ClientCid, ClientToken),
                             <<CryptoFrame(scenario.clientList)>>, {})
    IN  /\ scenario.version \in Packets!Versions
        /\ ~local["Client"].closed
        /\ local["Client"].verdict = "None"
        /\ Cardinality(NumbersSent("Client", "Initial")) < scenario.initials
        /\ Send("Client", <<initial>> \o ClientMore, IF scenario.behind = "Zeros" THEN 5 ELSE 0)

\* A client of a version that this crate does not know.
ClientSendsUnknown ==
    /\ scenario.version \notin Packets!Versions
    /\ sent = <<>>
    /\ Send("Client", <<Bare([Given("Unknown", OriginalCid, ClientCid, <<>>)
                                 EXCEPT !.body = <<7, 7>>])>>, 0)

ServerSendsNegotiation ==
    /\ local["Server"].seen = "Unknown"
    /\ ~HasSent("Server", "VersionNegotiation")
    /\ Send("Server", <<Bare([Given("VersionNegotiation", ClientCid, OriginalCid, <<>>)
                                 EXCEPT !.version = Packets!NEGOTIATION,
                                        !.body = Packets!V1 \o Packets!V2])>>, 0)

ServerSendsRetry ==
    /\ local["Server"].seen = "Tokenless"
    /\ ~HasSent("Server", "Retry")
    /\ Send("Server", <<Bare([Given("Retry", ClientCid, RetryCid, RetryToken)
                                 EXCEPT !.body = [k \in 1 .. Packets!TagLength |-> TAG]])>>, 0)

ServerSendsHandshake ==
    LET read == NumbersRead("Server", "Initial")
        initial == Protected("Server", "Initial",
                             Given("Initial", PeerCid("Server"), ServerCid, <<>>),
                             <<AckFrame(read, 2)>>, read)
        handshake == Protected("Server", "Handshake",
                               Given("Handshake", PeerCid("Server"), ServerCid, <<>>),
                               <<CryptoFrame(scenario.serverList)>>, {})
    IN  /\ local["Server"].verdict = "Accepted"
        /\ ~local["Server"].closed
        /\ ~HasSent("Server", "Handshake")
        /\ Send("Server", <<initial, handshake>>, 0)

MayUseShort(e) ==
    /\ ~local[e].closed
    /\ IF e = "Client" THEN local[e].verdict = "Accepted" ELSE HasSent(e, "Handshake")

\* The frames of the scenario come from the server; either end acknowledges what it read.
SendsShort(e) ==
    LET read == NumbersRead(e, "Application")
        acks == IF read = {} THEN <<>>
                ELSE <<AckFrame(read, IF e = "Client" THEN 2 ELSE 3)>>
        frames == IF e = "Server" THEN scenario.frames ELSE <<PingFrame>>
    IN  /\ MayUseShort(e)
        /\ Cardinality(NumbersSent(e, "Application")) < scenario.shorts[e]
        /\ Send(e, <<Protected(e, "Short", Given("Short", PeerCid(e), <<>>, <<>>),
                               acks \o frames, read)>>, 0)

----------------------------------------------------------------------------
(* Receiving *)

\* A server reads short headers once it has given out a connection ID.
Context(e) ==
    IF e = "Client" THEN <<Len(ClientCid)>>
    ELSE IF HasSent("Server", "Handshake") THEN <<Len(ServerCid)>> ELSE <<>>

\* The version-1 context of section 7.3, from the packets an endpoint has seen.
HandshakeContext(e, now) ==
    IF e = "Server" THEN [initial |-> now.peer[1]]
    ELSE [initial |-> now.peer[1], original |-> OriginalCid,
          retry |-> [k \in DOMAIN now.retry |-> now.retry[k].scid]]

Seen(packet) == [type |-> packet.type, dcid |-> packet.dcid, scid |-> packet.scid,
                 token |-> packet.token, body |-> packet.body]

\* The tag tells what the peer sealed, first byte and all, from everything else.
Opens(e, packet) ==
    /\ \E p \in PacketsSent(Other(e)) :
          /\ Seen(packet) = Seen(p.given)
          /\ packet.first = Packets!PacketBytes(p.given)[1]
    /\ Packets!OverlayAllowed(packet, UnprotectedFirst(packet), UnprotectedNumber(packet))

\* The packet has keys, is for this endpoint and was sealed by an endpoint.
MayTake(e, now, packet) ==
    /\ packet.type \in Packets!ProtectedTypes \cup {"Short"}
    /\ packet.dcid \in OwnCids(e)
    /\ IF packet.type = "Short" THEN now.peer # <<>> ELSE packet.version = scenario.version
    /\ IF packet.type # "Initial" THEN now.peer # <<>>
       ELSE IF e = "Server" /\ scenario.retry THEN packet.token = RetryToken
       ELSE TRUE
    /\ Opens(e, packet)

\* The packet that carries the other's transport parameters.
CarriesParameters(e, type) == type = IF e = "Client" THEN "Handshake" ELSE "Initial"

Verdict(e, now, type, frames) ==
    LET crypto == SelectSeq(frames, LAMBDA f : f.type = Frames!CRYPTO)
    IN  IF now.verdict # "None" \/ ~CarriesParameters(e, type) \/ crypto = <<>>
        THEN now.verdict
        ELSE IF Parameters!Accepted(crypto[1].data, Other(e), HandshakeContext(e, now))
        THEN "Accepted" ELSE "Refused"

\* What an endpoint knows after a packet with this number and these frames.
AfterFrames(e, now, packet, number, frames) ==
    LET entry == [space |-> Space(packet.type), number |-> number, frames |-> frames]
        learned == [now EXCEPT
                       !.peer = IF @ = <<>> THEN <<packet.scid>> ELSE @,
                       !.read = @ \cup {entry},
                       !.closed = (frames = <<>>)]
        verdict == Verdict(e, learned, packet.type, frames)
    IN  IF \E r \in now.read : r.space = entry.space /\ r.number = number THEN now
        ELSE [learned EXCEPT !.verdict = verdict, !.closed = @ \/ verdict = "Refused"]

AfterProtected(e, now, packet) ==
    AfterFrames(e, now, packet, Packets!NumberIn(UnprotectedNumber(packet)),
                Frames!FramesIn(Payload(packet)))

AfterPacket(e, now, packet) ==
    IF now.closed \/ packet.type = "Error" THEN now
    ELSE IF e = "Server" /\ packet.type = "Unknown" THEN [now EXCEPT !.seen = "Unknown"]
    ELSE IF e = "Server" /\ packet.type = "Initial" /\ scenario.retry /\ packet.token = <<>>
    THEN [now EXCEPT !.seen = "Tokenless"]
    ELSE IF e = "Client" /\ packet.type = "VersionNegotiation"
    THEN [now EXCEPT !.closed = @ \/ packet.dcid = ClientCid]
    ELSE IF e = "Client" /\ packet.type = "Retry"
    THEN IF packet.dcid = ClientCid /\ now.retry = <<>> /\ now.peer = <<>>
         THEN [now EXCEPT !.retry = <<[scid |-> packet.scid, token |-> packet.token]>>]
         ELSE now
    ELSE IF MayTake(e, now, packet) THEN AfterProtected(e, now, packet)
    ELSE now

AfterPackets(e, packets) ==
    LET upTo[k \in 0 .. Len(packets)] ==
            IF k = 0 THEN local[e] ELSE AfterPacket(e, upTo[k - 1], packets[k])
    IN  upTo[Len(packets)]

\* What may become of a datagram on its way.  The wire damages only the first one that
\* is sent, and only in the scenarios that ask for it.
Whole == [kind |-> "Whole", at |-> 0, byte |-> 0]
Padded == [kind |-> "Padded", at |-> 0, byte |-> 0]

Damages(frame) ==
    IF ~scenario.damaged \/ Len(sent) # 1 THEN {}
    ELSE [kind : {"Cut"}, at : 0 .. (Len(frame) - 1), byte : {0}]
             \cup [kind : {"Changed"}, at : 1 .. Len(frame), byte : {0, 44, 255}]

OnArrival(frame, copy) ==
    IF copy.kind = "Whole" THEN frame
    ELSE IF copy.kind = "Padded" THEN frame \o Link!Zeros(3)
    ELSE IF copy.kind = "Cut" THEN Packets!Leading(frame, copy.at)
    ELSE [frame EXCEPT ![copy.at] = copy.byte]

Receive(e) ==
    /\ ~local[e].closed
    /\ \E i \in DOMAIN sent :
          /\ sent[i].by = Other(e)
          /\ \E copy \in {Whole, Padded} \cup Damages(sent[i].frame) :
                LET datagram == Link!Received(OnArrival(sent[i].frame, copy))
                    packets == IF datagram = Link!Nothing THEN <<>>
                               ELSE Packets!PacketsIn(datagram.payload, Context(e))
                IN  /\ arrival' = [of |-> i, copy |-> copy.kind, datagram |-> datagram,
                                   packets |-> packets]
                    /\ local' = [local EXCEPT ![e] = AfterPackets(e, packets)]
    /\ UNCHANGED <<scenario, sent>>

----------------------------------------------------------------------------

Init ==
    /\ scenario \in Scenarios
    /\ sent = <<>>
    /\ local = [e \in Endpoints |->
                   [peer |-> <<>>, retry |-> <<>>, seen |-> "Nothing", read |-> {},
                    verdict |-> "None", closed |-> FALSE]]
    /\ arrival = [of |-> 0]

Next ==
    \/ ClientSendsInitial
    \/ ClientSendsUnknown
    \/ ServerSendsNegotiation
    \/ ServerSendsRetry
    \/ ServerSendsHandshake
    \/ \E e \in Endpoints : SendsShort(e)
    \/ \E e \in Endpoints : Receive(e)

Spec == Init /\ [][Next]_vars

----------------------------------------------------------------------------
(* Properties *)

Delivered(datagram) ==
    [version |-> datagram.version, source |-> datagram.source,
     destination |-> datagram.destination, sourcePort |-> datagram.sourcePort,
     destinationPort |-> datagram.destinationPort, payload |-> datagram.payload]

\* What UdpDatagramBuilder, the IP builders and EthernetFrameBuilder have nested comes
\* back out of the parsers and dispatches of the same layers: addresses, ports and
\* payload as they were given, through options and extension headers, through padding
\* that Ethernet adds and whatever the checksum came out as; nothing comes out of a
\* fragment.
DatagramsComeBack ==
    (arrival.of # 0 /\ arrival.copy \in {"Whole", "Padded"}) =>
        arrival.datagram = IF scenario.carrier.fragmented THEN Link!Nothing
                           ELSE Delivered(sent[arrival.of].datagram)

\* No copy that was cut or changed passes for anything else than what was sent, as long
\* as its sender computed the UDP checksum: the parsers compare every length with the
\* bytes that are there, and verify the checksums of both layers.
DamageIsNoticed ==
    (arrival.of # 0 /\ sent[arrival.of].datagram.checked) =>
        arrival.datagram \in {Link!Nothing, Delivered(sent[arrival.of].datagram)}

\* QuicPackets takes a datagram apart into the packets the builders were given, in
\* order, for either version and any width of the lengths: with connection IDs, token
\* and protected remainder as they were, up to a short header that comes before the
\* receiver has given out a connection ID.  Zeros behind the last packet add at most one
\* more packet or error, and other datagrams add nothing.
PacketsComeBack ==
    (arrival.of # 0 /\ ~scenario.carrier.fragmented) =>
        LET packets == sent[arrival.of].packets
            got == arrival.packets
        IN  arrival.copy \in {"Whole", "Padded"} =>
                /\ Len(got) \in Len(packets) ..
                      (Len(packets) + (IF sent[arrival.of].zeros = 0 THEN 0 ELSE 1))
                /\ \A k \in DOMAIN packets :
                      LET given == packets[k].given
                      IN  \/ got[k].type # "Error" /\ Seen(got[k]) = Seen(given)
                          \/ /\ got[k].type = "Error" /\ given.type = "Short"
                             /\ sent[arrival.of].by = "Client"
                             /\ ~HasSent("Server", "Handshake")

SentAs(e, entry) ==
    CHOOSE p \in PacketsSent(e) : p.space = entry.space /\ p.number = entry.number

FrameGiven(frame) ==
    [type |-> frame.type, integers |-> Frames!PartsValue(frame.integers),
     data |-> Frames!PartsValue(frame.data)]

FrameRead(frame) ==
    [type |-> frame.type, integers |-> frame.integers, data |-> frame.data]

\* The frames of a packet that was taken are those its sender wrote, in order and with
\* their values, when all of them are legal, and none when one of them is not, however
\* many legal ones go before it: QuicFrames does not hand out the frames of a payload
\* that it has to refuse.
PayloadsExactlyLegal ==
    \A e \in Endpoints : \A entry \in local[e].read :
        LET frames == SentAs(Other(e), entry).frames
        IN  IF frames # <<>> /\ \A k \in DOMAIN frames : frames[k].legal
            THEN /\ Len(entry.frames) = Len(frames)
                 /\ \A k \in DOMAIN frames : FrameRead(entry.frames[k]) = FrameGiven(frames[k])
            ELSE entry.frames = <<>>

Acknowledged(frame) ==
    LET ranges == Frames!AckRanges(frame.integers)
    IN  UNION {ranges[k].smallest .. ranges[k].largest : k \in DOMAIN ranges}

\* The ranges of an ACK frame, as first range and QuicAckRanges give them, hold the
\* numbers its sender had taken in that packet number space and no others; so an
\* endpoint is never told of a packet that it has not sent, in whatever order packets
\* arrived and whichever were lost.
AcknowledgedWereReceived ==
    \A e \in Endpoints : \A entry \in local[e].read :
        LET acked == SentAs(Other(e), entry).acked
        IN  (acked # {} /\ entry.frames # <<>>) =>
                /\ entry.frames[1].type \in Frames!ACKS
                /\ Acknowledged(entry.frames[1]) = acked
                /\ acked \subseteq NumbersSent(e, entry.space)

\* An endpoint accepts the other's transport parameters exactly if they are a legal list
\* and name the connection IDs this handshake has used: with a Retry and without, over
\* retransmitted, repeated and reordered Initials, for every parameter at its limits.
ParametersExactlyAuthentic ==
    \A e \in Endpoints :
        local[e].verdict # "None" =>
            (local[e].verdict = "Accepted" <=>
                IF e = "Client" THEN scenario.serverLegal ELSE scenario.clientLegal)

=============================================================================

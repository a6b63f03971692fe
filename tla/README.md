# Formal models of net-wire

`net-wire` is a `no_std`, allocation-free Rust crate of wire layouts: parsers that
return borrowed views, builders that write into the caller's storage, and small
pieces of *bounded protocol state* (compression tables, feedback accounting, stream
trackers) that the caller owns and drives. It performs no I/O and runs no thread.
What can go wrong beyond a single call is therefore in the protocol state: the order
in which a caller's events reach it, and two endpoints that each hold one half of a
state and see each other only through messages in flight.

These modules model that state, in the order of its difficulty. QPACK comes first:
it is the one part where two endpoints must keep their tables in step over three
kinds of streams that overtake each other. HTTP/3 messages come next: their sequencing
and their content are kept in two states that advance in separate calls. HPACK follows:
two contexts that must agree although a change of their limit reaches them at different
times. Then come HTTP/2 frames and the rule that a header block split over several of them
is not interrupted, the unidirectional streams of an HTTP/3 connection, and a QUIC
handshake over UDP, IP and Ethernet, where most of the code holds no state but depends on
what earlier packets have said.

Paths below are relative to the crate's `src/` (`qpack/...` is `src/qpack/...`).

## 1. Inventory

| Component | State it keeps | Operations | What makes it correct |
|---|---|---|---|
| QPACK dynamic table `qpack/table/dynamic.rs` | packed bytes, packed slots, `len`, `size`, `capacity`, `insert_count` | `set_capacity`, `insert`, lookups by absolute, encoder-relative, field-relative and post-base index | no overrun of either array, the RFC size is exact, entries keep index and contents until evicted |
| Encoder accounting `qpack/state/encoder.rs` | packed sections and references, Known Received Count | `register`/`reserve_registration`+`commit`, `apply` (acknowledgment, cancellation, increment), `is_evictable` | no referenced or unreceived entry is evicted; the right section is released; the blocked-streams limit holds |
| Decoder feedback `qpack/state/decoder.rs` | Known Received Count reported so far | `acknowledge_field_section`, `cancel_stream`, `emit_insert_count_increment` | reports every insertion exactly once |
| Blocked streams `qpack/state/blocked.rs` | stream, Required Insert Count records | `register`, `remove`, `ready`, iteration | never refuses a peer that kept to the limit |
| Field sections `qpack/field/section/*`, `qpack/field/line*` | none (reads a table, registers in the accounting) | `encode`, `decode` | what is read is what was meant, whenever it is read; blocked only until the insertions arrive |
| Encoder-stream instructions `qpack/stream/encoder*` | none (changes a table) | `apply`, `apply_sequence`, four builders | both tables go through the same states |
| Decoder-stream instructions `qpack/stream/decoder*` | none | three builders, parser, iterator | feedback is applied in order |
| QPACK integers, strings, Huffman, static table | none | codecs | round trips |
| HTTP/3 bridge `http3/qpack.rs` | none | forwards to QPACK | a blocked section is retried unchanged |
| HTTP/3 message streams and content `http3/stream/message.rs`, `http3/content.rs` | phase of a message, pending headers, content length and its running total | `receive`, `accept`, `finish`, `receive_data`, `accept_trailers` | legal orders only; content matches its length; stream and content stay in step |
| HTTP/3 control and peer unidirectional streams `http3/stream/control.rs`, `peer.rs`, `uni.rs` | SETTINGS seen, last GOAWAY, last MAX_PUSH_ID, critical streams | `receive*`, `receive_header`, `receive_closed` | SETTINGS first and once, monotone identifiers, critical streams unique and never closed |
| HTTP/3 frames, settings, stream headers `http3/frame/*`, `http3/settings.rs`, `http3/stream/uni.rs` | none | parsers, builders, views | what was built comes back from any pieces; settings are distinct and have their defaults |
| HPACK contexts and blocks `http2/hpack/context.rs`, `encoder.rs`, `decoder.rs` | dynamic table, allowed maximum, pending size updates, whether the open block has a field | `set_allowed_maximum_size`, blocks of `encode_*`/`decode_next`, `finish` | both tables in step across size changes; every required update is possible |
| HPACK dynamic table `http2/hpack/table.rs` | packed bytes, packed slots, `count`, `size`, `maximum_size` | `set_maximum_size`, `insert`, `clear`, `get` | no overrun of either array, entries keep their contents until evicted |
| HPACK representations, integers, strings, Huffman | none | codecs | round trips |
| HTTP/2 header-block sequences `http2/sequence.rs` | the stream of the open block | `observe` | a frame is a fragment exactly when it starts a block while none is open, or continues the open one |
| HTTP/2 frames and builders `http2/frame.rs`, `layout.rs`, `headers.rs`, `data.rs`, `control.rs`, `settings.rs`, `builder/*` | none | `parse`, `from_frame`, `build_with_maximum` | the receiver cuts the bytes where the sender did, and the view returns what the builder was given |
| HTTP/1 heads, framing, chunked bodies `http1/*` | iteration cursors | parsers, body framing, chunk walk | the same message boundary for every reader |
| QUIC packets and datagrams `quic/varint.rs`, `quic/packet/*`, `quic/builder/*` | iteration cursor of a datagram, the receiver's connection-ID length | builders, parsers, `QuicPackets`, overlays for unprotected headers | coalesced packets come apart as they were built |
| QUIC frames `quic/frame.rs`, `quic/frame/*` | iteration cursor of a payload | parsers, `QuicFrames`, ACK ranges | a payload is taken whole or refused; ranges are the numbers received |
| QUIC transport parameters `quic/transport_parameters/*` | iteration cursor | `parse`, `validate_v1`, `validate_handshake` | no duplicate, every value in its range, the connection IDs of this handshake |
| UDP, the Internet checksum, IPv4, IPv6, Ethernet `udp/*`, `internet_checksum.rs`, `ipv4/*`, `ipv6/*`, `ethernet/*` | none | builders, parsers, checksums, extension traversal, dispatch | what was nested comes back; what was damaged does not pass |
| KCP segments `kcp/*` | iteration cursor | segment walk, builder | |
| TLS records and handshakes, TCP, ARP, ICMP, RFC 7541 Huffman code | none | parsers, builders | |

### How the parts interact

```
 encoding endpoint                                            decoding endpoint
 QpackDynamicTable  <- caller inserts, evicts if              QpackDynamicTable
        |              is_evictable allows                          ^
        |  encoder stream: capacity, insert, duplicate              | apply
        +----------------------------------------------------------+
 QpackFieldSectionEncoder                                     QpackFieldSectionDecoder
        |  request streams: prefix and field lines                  ^
        +----------------------------------------------------------+-> QpackBlockedStreams
 QpackEncoderState                                            QpackDecoderState
        ^  decoder stream: acknowledgment, cancellation, increment  |
        +----------------------------------------------------------+
```

Calls are synchronous; all coupling between the two sides is by messages. Each
stream is reliable and ordered (they are QUIC streams), and nothing orders one stream
against another.

### What is hard

* A section overtakes the insertions it needs (blocking), and its Required Insert
  Count travels modulo a small number while the decoder's own count moves on.
* Eviction is decided on feedback that is always late; a referenced entry must
  outlive every section on its way, and an entry must outlive its own insertion.
* An acknowledgment names a stream only; a cancellation crosses acknowledgments.
* Both sides count blocked streams, from different knowledge.
* The encoder's ledger is two packed arrays with ranges that move.
* A change of HPACK's table size is effective at the encoder when SETTINGS arrives and at
  the decoder when the acknowledgment does, with blocks of both kinds in between, and
  takes hold of the tables only at the start of a block; several changes are folded into
  at most two updates.
* A header block is open across frames; a refused frame leaves it open, and identifiers
  that differ in their reserved bit name one stream.
* Critical streams may be opened once and closed never, over streams that nothing orders,
  and the control stream's rules hold across every frame before.
* What a QUIC parser may be given, and with what context, depends on what came before: which
  connection IDs are in use, whether there was a Retry, which packet numbers have been taken.
  Datagrams come late, twice, cut, padded or not at all.

`PROJECT.json` lists each hazard at its line with the properties that watch it.

## 2. Modules

| Module | Models | Composes / implements |
|---|---|---|
| `PackedEntries` | what the tables of QPACK and HPACK share: a list of entries with offsets, its size, the eviction of the oldest | used by both |
| `PackedArrays` | what the two share in storage: `copy_within`, offsets, `storage_capacity` | used by both byte-level tables |
| `QpackTable` | the dynamic table as a list of entries: pure operators, a condition and a result per operation | extends `PackedEntries` |
| `QpackTableHistory` | the same as a state machine | abstract specification of the next |
| `QpackDynamicTable` | the table's bytes and slots, `size`, `insert_count` | implements `QpackTableHistory` |
| `QpackFieldSection` | prefix and index arithmetic | |
| `QpackLedger` | what the encoder remembers of unacknowledged sections, as a function | |
| `QpackReferences` | the ledger as a state machine | abstract specification of the next |
| `QpackEncoderState` | the packed arrays of sections and references | implements `QpackReferences` |
| `HeaderChannel` | what a user of QPACK or HPACK sees: what is sent comes out as it went in, in order, at most once | abstract specification of `QpackConnection` and `HpackConnection` |
| `QpackConnection` | both endpoints and the streams between them | composes `QpackTable`, `QpackFieldSection`, `QpackLedger`; implements `HeaderChannel` |
| `Http3HeaderSection` | analyzed field sections: role in a context, Content-Length members | |
| `Http3Message` | one incoming message: the stream's frame order and the content accounting | composes the two states; compared with `Legal` and `Whole`, which say of a whole sequence of frames what a message is |
| `HpackTable` | HPACK's dynamic table as a list of entries, and the index space behind the static table | extends `PackedEntries` |
| `HpackTableHistory` | the same as a state machine | abstract specification of the next |
| `HpackDynamicTable` | the table's bytes and slots | implements `HpackTableHistory` |
| `HpackContext` | a context with the block it may have open: for each call its errors and the context it leaves | extends `HpackTable` |
| `HpackConnection` | two contexts, the blocks and acknowledgments from one to the other, the settings in the other direction | composes `HpackContext` twice; implements `HeaderChannel` |
| `Http2Frame` | frames as bytes: header, builders, parser, views | pure operators |
| `Http2HeaderBlocks` | a sender with all builders, another implementation's frames, the parser and the header-block sequence | extends `Http2Frame`; compared with `Open`, which says from the frames taken whether a block is open |
| `Octets`, `QuicVarInt` | integers in network byte order; QUIC's variable-length integers, and what a peer writes with them | used by the next and by QUIC |
| `Http3Frame` | HTTP/3 frames, settings and stream headers as bytes: builders, parsers, views | pure operators; extends `QuicVarInt` |
| `Http3PeerStreams` | a peer's unidirectional streams, the tracker of its critical ones and the state of its control stream | extends `Http3Frame`; compared with `MayOpen`, `MayClose` and `IsLegalFrame`, which say of all that came before what may follow |
| `InternetPacket` | UDP in IPv4 or IPv6 in Ethernet as bytes, and the Internet checksum | pure operators |
| `QuicPacket` | QUIC packets under protection, coalesced in datagrams | pure operators; extends `QuicVarInt` |
| `QuicFrame` | the frames in a packet and the rules on them | pure operators; extends `QuicVarInt` |
| `QuicTransportParameters` | the parameters, the rules of version 1, the check of a handshake | pure operators; extends `QuicVarInt` |
| `QuicPath` | two users of these parsers and builders, and the link between them | composes the last four |
| `MC*` | instances for TLC | |
| `CallerArrays_proofs`, `QpackConnection_proofs`, `HpackConnection_proofs`, `Http3Message_proofs`, `Http2HeaderBlocks_proofs`, `Http3PeerStreams_proofs`, `QuicDatagrams_proofs`, `QuicPath_proofs` | theorems | the last extends the one before it |

### `QpackConnection` and the code

| Variable | In the code |
|---|---|
| `encTable`, `decTable` | each side's `QpackDynamicTable` |
| `outstanding`, `encKrc` | `QpackEncoderState`: registration number to stream, Required Insert Count and references; `known_received_count` |
| `decKrc` | `QpackDecoderState::known_received_count` |
| `blocked` | `QpackBlockedStreams`: stream to Required Insert Count |
| `unacknowledged` | the `QpackDecodedFieldSection` values the caller still holds, oldest first |
| `instructions`, `requests`, `feedback` | the bytes on the encoder stream, the request streams and the decoder stream |
| `cancelled`, `delivered`, `failed`, `sectionCount` | the caller's knowledge, the last section handed over, the first error, and a numbering of sections used by the properties only |

| Action | One call of |
|---|---|
| `SetCapacity`, `InsertLiteral`, `InsertNameReference`, `Duplicate` | the encoding side's table operation, with `is_evictable` as its policy, and the instruction builder |
| `EncodeSection` | `QpackFieldSectionEncoder::encode`, with its registration |
| `ReceiveFeedback` | `QpackEncoderState::apply` on the next decoder-stream instruction |
| `ReceiveInstruction` | `QpackEncoderInstructionApplier::apply` on the next encoder-stream instruction |
| `DecodeSection` | `decode` of a stream's oldest section, and the removal of its blocked record |
| `BlockSection` | a `decode` that reports `Blocked`, and `QpackBlockedStreams::register` |
| `AcknowledgeSection`, `CancelStream`, `EmitIncrement` | the three operations of `QpackDecoderState` |

An operation that fails changes nothing in the code but reports an error; in the
model an error of a *received* message sets `failed` and stops the connection, and an
operation that a *sender* could not do is not enabled. `NeverFails` then says that two
callers of this crate never make each other fail.

The table appears twice, as entries and as bytes, and so does the ledger, as a
function and as arrays. The connection uses the abstract one each time; the
refinements justify that.

Callers follow the documentation: bytes are put on their stream in the order of the
calls (`state/decoder.rs` asks for it), sections of a stream are acknowledged in the
order they were decoded, a stream's blocked record is removed once a retry succeeds or
the stream is abandoned, streams that are ready are retried before another one is
registered (`state/blocked.rs`: ready records remain registered until removed), and a
sender stops using a stream once it has seen it cancelled.

What is abstracted: a name or value is a model value with a length; Huffman coding,
static-table references (they touch no state), integer layout, and output or scratch
buffers that are too short (nothing is committed in those cases) are left out. `u64`
counts are unbounded: a count grows by one per insertion. An instruction that sets the
capacity a table already has changes nothing and is left out.

### `Http3Message` and the code

| Variable | In the code |
|---|---|
| `kind` | the kind of `Http3MessageStreamState` and of `Http3MessageContentState` (the caller gives both the same) |
| `position` | `Http3MessageStreamState::position` |
| `phase`, `declared`, `length` | `Http3MessageContentState`: `phase`, `declared_length` (an empty set or one length), `received_length` |
| `pending` | an `Http3PendingHeaders`, which keeps the stream borrowed until it is accepted, and the role its section was found to have |
| `outcome` | open, complete, or the error that ended the message |
| `frames`, `misread`, `ended` | history for the properties: what came, whether the caller analyzed a section in a context its position rules out, whether the stream has ended |

| Action | Calls |
|---|---|
| `ReceiveHeaders` | `receive` of a HEADERS frame |
| `ReadSection` | the section's analysis in a context of the caller's choice, then `accept_initial_headers` or `accept_trailers` |
| `AcceptHeaders` | `Http3PendingHeaders::accept` |
| `ReceiveData` | `receive` of a DATA frame, then `receive_data` |
| `ReceiveOther` | `receive` of every other frame |
| `EndStream` | `finish` of the stream, then of the accounting |

`content.rs` asks for the order of the three steps of a HEADERS frame: receive, account,
accept. The two states therefore differ between `ReadSection` and `AcceptHeaders`, and
nothing in the code compares them. The caller is otherwise free: it may analyze a
section as a request, a response or trailers wherever it is. It does not account for the
bytes of a tunnel, which the disposition of the headers announces. An error is the end
of the message. Field names and values are abstracted to what analysis makes of them
(a form, a status, the members of Content-Length), and `u64::MAX` to `LengthLimit`.

### `HpackConnection` and the code

| Variable | In the code |
|---|---|
| `encoder`, `decoder` | `HpackEncoderContext`, `HpackDecoderContext`: `table`, `allowed_maximum_size`, `pending`; `block` is the `HpackBlockEncoder` or `HpackBlockDecoder` that borrows them, with `has_emitted_field` or `saw_field`; `applied` counts the settings the owner has applied |
| `wire` | header blocks, one representation an event, and SETTINGS acknowledgments, in the order of the HTTP/2 connection |
| `offered` | the values of SETTINGS_HEADER_TABLE_SIZE sent by the decoding end |
| `read`, `failed` | the field that `decode_next` returned last, the first error |
| `eager` | history: the decoder's table if it shrank with each acknowledged change |

| Action | One call of |
|---|---|
| `ReceiveSettings`, `ReceiveAck` | `set_allowed_maximum_size` of the encoder's and of the decoder's context |
| `BeginBlock`, `FinishBlock` | `begin_block`, `finish` |
| `EncodeUpdate`, `EncodeField` | `encode_dynamic_table_size_update`; `encode_indexed` or `encode_literal*` |
| `DecodeBlock` | `decode_block` |
| `DecodeUpdate`, `DecodeField`, `CompleteBlock` | `decode_next` on a size update, on a field and at the end of the block |
| `SendSettings` | none: the connection's owner offers another maximum |

When a change becomes effective is "the HTTP/2 connection owner"'s business
(`context.rs:5`). The model's owner does what RFC 9113 asks: it applies a setting before it
acknowledges it, acknowledges in order, and does so between header blocks, of which a
context has one open at a time. A block reaches `decode_block` whole. The decoder requires
exactly the updates that its `PendingSizes` derives from the settings, which is more than
RFC 7541 asks of an encoder (one that stays below a raised maximum need not say so); the
runs pair it with this crate's encoder, which sends them.

Both ends have the same `Capacity`. An encoder with less storage gets
`AllowedMaximumExceedsCapacity` for a setting that it cannot follow and is out of the
model. A block that its caller gives up half-way, output buffers that are too short
(nothing is committed then) and Huffman choices are left out. Each event carries the context that
the encoder had after producing it and the field meant: the properties read them, the
decoder does not.

### `Http2HeaderBlocks` and the code

| Variable | In the code |
|---|---|
| `wire` | the bytes that the caller sent and has not yet parsed |
| `locked` | `Http2HeaderBlockSequence::locked_stream_id` |
| `stopped` | `Http2Frame::parse` returned `PayloadTooLarge`: the caller cannot skip such a frame |
| `sent`, `taken` | history: what each builder was given; each parsed frame and what `observe` answered |

| Action | Calls |
|---|---|
| `BuildData`, `BuildHeaders`, ... `BuildGoaway` | `build_with_maximum` of that builder |
| `BuildRaw`, `ForeignFrame` | `Http2FrameBuilder`; a frame of another implementation, which may set the reserved bit |
| `ReceiveFrame` | `Http2Frame::parse` on what has arrived of the bytes, then `observe` |
| `RefuseLength` | a `parse` that returns `PayloadTooLarge` |

A builder that refuses writes nothing, so refusals are not steps. `parse` is tried on every
prefix of the bytes under way: that is all that splitting and coalescing of packets can do.
After a frame that `observe` refuses, the model's caller goes on with the next one, as the
code allows. Frames of types without a view count as unrelated, as in the code.
A view is `Accepts` (its `from_frame` succeeds) with `SectionOf`, `PaddingLength` and
`Payload`; which error a refusal returns is left out, and so are the client preface,
`Http2FrameMut` and the fields inside a priority section. Limits in HTTP/2 are
powers of 256. `ByteValues` stands for the 256, so that the limits of 24, 31 and 32 bits lie
at 63, 127 and 255 when it is 4; types and flags, with which nothing is computed, keep their
values.

### `Http3PeerStreams` and the code

| Variable | In the code |
|---|---|
| `role` | `local_role` of both states |
| `critical` | `control`, `qpack_encoder`, `qpack_decoder` of `Http3PeerUniStreamState` |
| `settings`, `goaway`, `maximumPush` | `settings`, `last_goaway_identifier`, `maximum_push_id` of `Http3ControlStreamState` |
| `wire` | the bytes on each stream that the receiver has not parsed |
| `closed`, `stopped` | streams the peer has closed or reset; streams on which `Http3Frame::parse` has refused a payload, behind which the receiver cannot find the next frame |
| `sent`, `events` | history: what was given to a builder on which stream; what was received and the answer |

| Action | Calls |
|---|---|
| `OpenStream`, `WriteFrame` | `Http3UniStreamHeaderBuilder` and the frame builders, or another implementation's bytes, with integers in any width |
| `CloseStream` | none: the peer ends or resets a stream |
| `ReceiveHeader` | `Http3UniStreamHeader::parse` on what has arrived, then `receive_header` |
| `ReceiveClosed` | `receive_closed` |
| `ReceiveFrame`, `RefuseLength` | `Http3Frame::parse` on what has arrived of the control stream, then `receive` |

The header of every stream is given to the tracker, whoever's stream it says it is, as
`peer.rs` asks. A caller parses frames on the stream that the tracker has as the control
stream. An error changes neither state, and this caller goes on after it, so that the
properties also see whether an error leaves a trace. A reset is a close that overtakes the
bytes before it. The names of errors are kept, their fields are not.

### `QuicPath` and the code

Most of `quic/*` is parsers with arguments that a user must take from what came before: the
length of its own connection IDs, the unprotected first byte, the connection IDs of the
handshake. `QuicPath` has two users that do this, no cleverer than the documentation of those
parsers needs, and runs every byte of what they send through the crate's builders of QUIC
packets, UDP, IP and Ethernet, and back through the parsers.

| Variable | What it is |
|---|---|
| `scenario` | what the two users do: version, Retry or not, their transport parameters, the server's frames, the lower layers |
| `sent` | every datagram sent, with what the builders were given and the bytes on the link |
| `local` | what an endpoint knows: `peer` (the peer's connection ID), `retry` (the Retry it has accepted), `seen`, `read` (the protected packets it has taken, with their frames), `verdict` on the peer's transport parameters, `closed` |
| `arrival` | the datagram received last, and what the parsers made of it |

| Action | Calls |
|---|---|
| `ClientSendsInitial` | `QuicInitialPacketBuilder`, `QuicZeroRttPacketBuilder`, and the lower builders |
| `ClientSendsUnknown` | none of QUIC: a version that the crate does not know |
| `ServerSendsNegotiation`, `ServerSendsRetry` | `QuicVersionNegotiationPacketBuilder`, `QuicRetryPacketBuilder` |
| `ServerSendsHandshake` | an Initial and a `QuicHandshakePacketBuilder` in one datagram |
| `SendsShort` | `QuicShortPacketBuilder` |
| `Receive` | `EthernetFrame::parse`, `ipv4` or `ipv6`, `udp`, the checksum; `QuicPackets` over the payload; for each packet that opens, the overlay with its packet number, `QuicFrames`, and `validate_handshake` on the first CRYPTO data |

A datagram that was sent stays on the link: it may arrive any number of times, in any order,
also never. It arrives whole, with padding behind it (as Ethernet adds), cut short at any
byte, or with one byte changed to 0, 44 (an extension type) or 255.

The crate builds no frames and no transport parameters: `FrameBytes` and the MC module's lists
are those of the users, legal and illegal ones. Cryptography is the users' too. `Sealed` and
`UnprotectedFirst` shift the protected bits and back, so that they have other values on the
link than inside, and `Opens` accepts exactly what an endpoint sealed, whose header it
covers. The byte of a packet is one of 256, as the versions and flags need; inside a payload
bytes are numbers below 16, so that the limits of 2^60 and 2^62 become 2^28 and 2^30, which
TLC can count to. Of the lower layers' fields, those on which nothing depends have fixed
values. Mutable views are left out, as are the errors' fields.

A scenario may ask of the users whatever `IsScenario` admits (`ScenarioAssumption`): any version
but zero, frames and parameter lists of any bytes, addresses of the right length, IPv4 options,
and extension headers that are whole and lead to one another and to UDP. An IPv6 sender
computes its checksum; an IPv4 one may leave it out. This says of the arguments what a caller
of the builders knows anyway; what is too long for a builder's limits is refused by it
(`BuildAllowed`) and not sent.

## 3. Runs

| Run | Question | Instance |
|---|---|---|
| `qpack_connection` | Do two endpoints stay in step under every interleaving, and does the connection implement `HeaderChannel`? | two streams (symmetric), one may block; three sections, three insertions, a table of two entries; increments capped at 1; two instructions in flight |
| `qpack_wrap` | Is the Required Insert Count recovered when it wraps, and is every representation read as meant? | one stream, five insertions (the count is sent modulo 4), indexed, name-reference and literal lines, an explicit Base |
| `qpack_liveness` | Does everything sent get decoded, every reference released, every insertion reported? | two streams, two sections, two insertions, with fairness |
| `qpack_encoder_state` | Do the packed arrays implement the ledger? | streams 0 and 4 (0 is also the identifier in an empty slot), three section slots, five reference slots, four registrations |
| `qpack_dynamic_table` | Do the bytes and slots implement the table? | three slots and 96 bytes; capacities 32 to 128, the last one above the limit of 127; five insertions |
| `hpack_connection` | Do two contexts stay in step whenever the maximum changes, and does the connection implement `HeaderChannel`? | a table of two short fields or of one long one; one static field; maxima 34, 40 and 74 (one short, one long, two short fields), two changes; updates to 0 of the caller's own accord; five events in flight |
| `hpack_dynamic_table` | Do the bytes and slots implement HPACK's table? | three slots and 96 bytes; maxima 0 to 128, the last one above the limit of 127; clears |
| `http3_message` | Do the stream and the accounting together accept exactly the legal messages, and stay in step? | the five kinds; five frames; 25 sections of every form and class of status, with no length, one, two that disagree, one out of range; DATA of at most 2 bytes; lengths up to 3 |
| `http2_header_blocks` | Are frames found and read as they were built, and is each taken as a fragment exactly when it is one? | bytes of four values; three frames of any builder, two on the way; padding, priority, promises; settings up to a full length; malformed frames, other implementations' reserved bits, a stream above 63; a frame of 12 bytes above the receiver's maximum |
| `http3_peer_streams` | Are a peer's streams and its control frames accepted exactly if all that came before leaves room for them, however their bytes are cut? | both roles; streams 2, 3 and 6; five headers and fifteen frames, of this crate's builders and of others; four writes, two of them not yet read; bytes of eight values, payloads of at most 8 bytes |
| `quic_path` | Does a handshake over a link that loses, repeats, reorders and damages datagrams come through the builders and parsers of five layers, and is what a peer may not send refused? | 96 scenarios, each of which varies one thing: eleven stacks of lower layers, ten courses of the handshake, 44 lists of transport parameters, 31 payloads; up to three Initials, and three packets of an end's Application space |
| `http3_message_codes` | Is a peer's failure always given an error code, as `content.rs` says? (No: see below.) | the same |

### Properties

* `NeverFails`: no API call on received data fails.
* `ReferencesStayActive`: no unacknowledged reference leaves the encoder's table.
* `EvictionsAreSafe`: an entry is evicted only after the decoder has it and no section
  still to be decoded, read as the decoder will read it, refers to it.
* `FeedbackBringsAgreement`: the counters of the two sides never overtake each other, and
  the feedback under way takes the encoder's to the decoder's, whatever is cancelled.
* `AcknowledgmentsMatch`: an acknowledgment releases the section that was decoded.
* `WrappedCountsRecovered`: however late a section is read, the decoder computes the
  count the encoder registered.
* `TablesAgree`: entries in both tables are the same; the decoder drops none first.
* `BlockingIsForeseen`: what really blocks is a subset of what the encoder counts.
* `DeliversHeaders`: refinement of `HeaderChannel`, of field sections on each stream (QPACK) and
  of fields on the connection (HPACK).
* `SectionsAreDecoded`, `ReferencesAreReleased`, `InsertionsBecomeKnown`: progress.
* `RangesTile`, `AnswersAgree`, `ImplementsLedger`: the packed arrays.
* `InsertionsFit` (QPACK), `ImplementsTable` (both): the bytes and slots of a table. The size
  is that of the active entries, what the maximum admits finds room in both arrays, and an
  entry reads back as it was inserted.
* `DecoderFollows`: the decoder will accept what is on the wire and go through the contexts
  that the encoder went through, pending updates included.
* `MaximaStayAllowed`: the updates that an end requires are ones the encoder may make, the
  last of them is the allowed maximum, and the table is within it once the first is made.
* `ReductionsAreNotLost`: when fields are read, the table is what it would be had it shrunk
  with each acknowledged change, also when a later change raised the maximum again.
* `AcceptedExactlyLegal`, `WholeIsComplete`: what `receive`, the accounting
  and `finish` admit is what a message is. `Legal` and `Whole` are written from the shape
  of the whole sequence of frames, without any state: this is where a rule present in
  one of the two states and missing from the other would show.
* `InStep`: the stream's position and the accounting's phase are those of one place in the
  message, and an accounted section is never refused by the stream afterwards.
* `FramesComeBack`: each frame parsed is the one that was built, in order, and a typed one's
  view accepts it and returns its parts; parsing gives up only at a frame above the maximum.
* `FragmentsExactlyLegal`: `observe` answers from one remembered stream what the whole
  sequence of frames before says, refused ones and raw ones among them.
* `WholeBlocksAreTaken`: a block that the builders wrote without interruption is taken whole,
  whatever came before it, and leaves the sequence idle.
* `StreamsComeBack`: a stream's header and frames are found one after the other and read as
  they were built, from every prefix that has arrived and for integers of any width.
* `StreamsExactlyLegal`: a header or a close is accepted exactly if the accepted headers of all
  streams before it leave room.
* `FramesExactlyLegal`: a control frame is accepted exactly if it is legal after all frames
  accepted before it, of which the code remembers three values.
* `SettingsAreAsSent`: the settings in force are those given to the peer's builder, or the
  defaults, until the end.
* `DatagramsComeBack`: addresses, ports and payload come out of the lower layers as they went
  in, and nothing comes out of a fragment.
* `DamageIsNoticed`: a copy that was cut or changed never passes for another datagram if its
  sender computed the UDP checksum.
* `PacketsComeBack`: coalesced packets come apart into those built, up to a short header
  without context; padding behind them adds at most one more result.
* `PayloadsExactlyLegal`: the frames of a packet are those written if all are legal, and none
  if one of them is not.
* `AcknowledgedWereReceived`: the ranges of an ACK hold exactly the numbers its sender had
  taken.
* `ParametersExactlyAuthentic`: an endpoint accepts transport parameters exactly if the list is
  legal and names the connection IDs that this handshake has used.
* `PeerFailuresHaveCodes` is violated. `content.rs:140` offers "the HTTP/3 peer error code
  when this failure is peer-caused", and `content.rs:58` gives the accounting's local
  errors to a caller's mistakes. A peer that sends a 204 response and then trailers makes
  `accept_trailers` return `OperationNotReady`, for which `error_code` is `None`, although
  the caller made every call as documented.

### Bounds, and why they are enough

`MaxInserts`, `MaxSections`, `MaxLines`, `MaxInFlight`, `MaxRegistrations` and
`MaxReferences` bound the state space and stand for nothing in the code. Three
insertions into a table of two entries evict one, with sections in flight before and
after; three sections give two on one stream and one on another, the least that tells
"the first of the stream" from "the first" and from "the last". Five insertions take a
count sent modulo four past its range. Four registrations in three slots with up to two
references exercise removal at the front, in the middle and at the end, and reuse of
cleared slots. Five frames are an informational response, a final one, two DATA frames and
trailers, with any of the other frames in place of one; a declared length of 2 is met,
undershot and exceeded by payloads of up to 2, and three full payloads pass a
`LengthLimit` of 3. A capacity of 105 holds three of the smallest entries and two of the
largest, 127 and 128 lie on both sides of the storage limit. Two changes of three HPACK
maxima give every pattern of a minimum and a final size (a third change folds into one of
these again, which the proof covers), and five events hold a block with both updates and a
field, or two short blocks around an acknowledgment. Three frames are HEADERS or PUSH_PROMISE,
something in between, and a CONTINUATION; two on the way put bytes of the second behind
an incomplete first. Four writes are a header and three frames of the control stream (SETTINGS,
and two of which the second may break a rule that the first has set), or headers of all three
streams and a close. Bytes of eight values put the limits of variable-length integers at 2,
16 and 1024, so that frames of a few bytes lie on both sides of the first two; a type below 16
can be written in every width. Packet numbers 0, 1 and 4 give an ACK one, two or three numbers
in one or two ranges. The legal payload has every frame type, with values at their limits, and
each illegal one differs from a legal one by one byte or one step across a limit; the same
holds for the lists of transport parameters. Damage comes to the first datagram only: a
receiver that has taken nothing depends on it alone. Each property is paired in
`PROJECT.json` with a plausible bug in one definition that these bounds are large enough
to expose.

### Fairness

The crate takes no steps of its own: fairness is an assumption about callers. `Fairness`
asks of them only what the documentation tells them to do: keep reading both
unidirectional streams (`ReceiveInstruction`, `ReceiveFeedback`), retry a section once it
is no longer blocked (`DecodeSection`), acknowledge what was decoded
(`AcknowledgeSection`) and report insertions (`EmitIncrement`). Weak fairness is enough:
once such a call is possible it stays possible until it is made, or until the stream is
cancelled. Sending, inserting, evicting and cancelling are not assumed ever to happen.

Runs switch deadlock checking off where bounds or an exhausted script end the behaviour:
an endpoint may stop sending at any time.

## 4. Proofs

TLAPS checks these for all values of the constants: any number of streams, fields of any
length, any capacity.

* The eviction loop, for both tables; the lemmas stand at the head of `HpackConnection_proofs`
  and, as far as they are needed, of `QpackConnection_proofs`. The loop finds a number of survivors
  (`EvictionSucceeds`, by well-founded descent on the number of entries dropped) and only
  one (`EvictionIsDeterministic`), so that `\E keep` and `CHOOSE keep` in the models are the
  loop's result and not a choice. The newest entries of a packed list are packed, and so
  is the list with a new field in front (`NewestArePacked`, `PushedIsPacked`).
* `CallerArrays_proofs`, about what is kept in storage that the caller lends. Its second part
  is about the arrays of both tables. One inductive invariant, `Stored`,
  serves both: the active slots lie one behind the other, their size is within the capacity, that
  within `StorageCapacity`, and between the bounds of every active slot are the bytes of a
  field. The loop's recursion over sizes is what the offsets say (`SizeWithIs`, by a least
  counterexample), and it always stops (`RetainedExists`). `EntryFits` is what
  `storage_capacity` is computed for: an entry that the capacity admits has room
  in both arrays, and only therefore do the copies move whole entries (`BytesMoved`,
  `SlotsMoved`). The new field reads as itself and every survivor as before (`NewIsHeld`,
  `OldIsHeld`), and bytes are those of one field only (`HoldsOne`), since there is one string of
  no bytes. From this follow `InsertionsAlwaysFit` (`Spec => []InsertionsFit`) and
  both refinements, `QpackArraysImplementTable` and `HpackArraysImplementTable`
  (`Spec => ImplementsTable`): the list that the arrays hold is cut and pushed
  (`CutActive`, `PushedActive`) as the table's is, and where the loop stops is the only
  number that the table's eviction allows (`RetainsSame`). HPACK's module is an instance in
  this one, its count and maximum in the place of QPACK's length and capacity.
* `QpackConnection_proofs`. It begins with the table: `IsWellFormed` (entries packed one behind
  the other, all inserted, size within capacity) is preserved by `set_capacity` and `insert`
  (`WithCapacityWellFormed`, `WithInsertedWellFormed`). `EntriesSurvive` and `CapacityEvicts`:
  what is not evicted keeps its absolute index and contents. `TypeCorrect` (`Spec => []TypeOK`): `TypeOK` is inductive
  because it includes `IsWellFormed` for both tables, which is what makes absolute indexes
  natural numbers and a lookup yield a field; there is one lemma per action.
  `ReferencesProtected` (`Spec => []ReferencesStayActive`): inductive together with
  `TypeOK`. An eviction removes `Evicted(encTable, keep)` and nothing else (from the
  table's theorems), the policy admits only unreferenced indexes, and a new section
  refers only to active ones.
  Then the arithmetic of field sections. `BaseRoundTrip`, `IndexRoundTrip`, and
  `RicRoundTrip`: the Required Insert Count is recovered whenever the decoder's insert count is
  within the maximum number of entries of it. The last rests on two lemmas: numbers with the
  same rest in one window of the modulus's width are equal, and both the encoder's count and the
  reconstructed one lie in that window.
  The rest of the module shows that the connection works. None of its properties is inductive alone,
  since each says something of what one side will make of a message that the other side sent
  long ago, when tables, counts and records were different. One invariant, `Inv`, says of
  everything on its way how it fits the state of both sides, and all of the properties follow
  from it.

  | Part of `Inv` | What it says |
  |---|---|
  | `TypeOK`, `ReferencesStayActive` | as above |
  | `DecoderFollows` | there are tables, one per instruction under way, that lead from the decoder's to the encoder's; each may be a past state of the encoder's (`Precedes`: no newer entry, none that was dropped earlier, the same fields at the same absolute indexes) |
  | `EvictedIsReceived` | what has left the encoder's table lies below its Known Received Count |
  | `CountsMeet` | there are counts, one per message on the decoder stream, that lead from the encoder's Known Received Count to the decoder's |
  | `SectionsPass` | on each stream the sections acknowledged, decoded and still to be decoded have increasing numbers, those with references are on the encoder's record, the record has no others, and nothing follows a cancellation |
  | `SectionsSay` | the prefix and lines of a section, read with the Required Insert Count on record, name entries on record, and these still hold the fields its sender meant |
  | `BlockedIsAwaited`, `RiskIsLimited` | a blocked stream has a section on the way that needs the insertions; the streams at risk are within the limit |
  | `NeverFails` | no call has failed |

  The argument goes around a circle. An acknowledgment releases the oldest record of its stream,
  and by `SectionsPass` that is the record of the section that was decoded
  (`RightSectionsReleased`). So records outlive the sections they are for (`RecordsAreKept`), so
  entries that these refer to stay (`ReferencesProtected`), and by `SectionsSay` a section means
  the same however late it is read. Its Required Insert Count is on record and thereby within the
  encoder's table; what left this table is known to be received, so that the decoder's insert
  count is within `MaxEntries` of it and `RicRoundTrip` applies (`CountsRecovered`). By
  `DecoderFollows` the two tables then agree on the entries (`TablesNeverDisagree`), and the
  section decodes to what was meant (`SectionDecodes`). Acknowledging it reports a count that the
  encoder reads off the same record, which is `CountsMeet` (`SidesAgree`: the fold `KrcAfter`
  equals the end of the chain of counts, by a least counterexample), and that lets entries be
  evicted (`NothingNeededIsEvicted`). `NoCallFails` collects the cases, and
  `ConnectionImplementsChannel` shows the refinement of `HeaderChannel`: the initial state is the
  channel's, and a step that sends, decodes or cancels is the channel's `Send`, `Deliver` or
  `Abandon` and every other a stutter. TLC checks the same parts on the instances of the runs;
  the theorems need no bound on insertions, sections, streams or messages under way.

* `CallerArrays_proofs`, first part. That the packed arrays of the encoder's accounting hold the ledger (`ArraysImplementLedger`,
  `Spec => ImplementsLedger`), for any number of streams and slots. The inductive invariant
  `Inv` says that the sections in use lie one behind the other in the references, that together
  they cover all of those in use and that the rest is cleared (`Packed`), that they are in the
  order of registration (`Numbered`), and that the streams at risk are within the limit.
  Removing a section is the hard step: it moves two arrays and the ranges of the later sections,
  and each section must say afterwards what it said before from its former slot
  (`RemovedHolds`), so that the ledger loses that section and no other (`LedgerRemoved`).
  A cancellation is as many steps of one pass over a shrinking array as there were sections
  (`Stands`: what is behind the pass is not of the stream, what is gone was); it ends exactly
  when none is left (`CancelParts`). `RangesAlwaysTile` follows from `Packed` without
  induction: the first slot of a gap would be covered by no section. `AnswersAlwaysAgree`
  needs that coverage for evictability, and a bijection between the first risky sections and
  the streams at risk for the count (`CountIsOfStreams`).
* `Http3Message_proofs`. `MessageTypeCorrect` (`Spec => []TypeOK`): its parts say that a
  declared length is one number and that content stays within it, which is inductive
  because `DataErrors` refuses the bytes before they are added. `StreamAndContentInStep`
  (`Spec => []InStep`): each role takes the accounting to a phase that `Matches` the
  position the same role takes the stream to, whichever context the caller chose; the
  proof goes through the roles, and needs no bound on the number of frames.
  `ExactlyLegalAccepted` and `ExactlyWholeComplete` (`Spec => []AcceptedExactlyLegal`,
  `Spec => []WholeIsComplete`) compare what the two keep (a position, a phase, a declared and a
  received length) with a grammar said of all the frames. `PlacedAt` is the link: no head yet,
  a head at index h whose content is what was counted, or trailers at t behind it. A frame that is
  taken leads from one such place to another (`DataPlaced`, `HeadPlaced`, `TrailersPlaced`),
  every place is legal (`PlacedIsLegal`), and from a place whatever the code refuses would
  have been illegal (`MisplacedDataRefused`, `LegalHeadAccepted`, `LegalTrailersAccepted`,
  `SecondTrailersRefused`); `FinishedExactlyWhole` says the same of the end. The sums of
  content are recursive functions, and the lemmas about them go by least counterexamples.
* `HpackConnection_proofs`. One inductive invariant, `Following`, carries `TypesStay`,
  `DecoderNeverFails` and `DecoderFollowsEncoder` (`Spec => []NeverFails` and so on):
  along the wire, each event is acceptable to the context before it and leads to the
  context after it, and the last context is the encoder's. `NeverFails` alone is not
  inductive, since it says nothing of what is still on its way. A sender's step extends this
  chain at its end: the encoder's own conditions imply the decoder's in the same context
  (`FieldParts`, `UpdateParts`). A receiver's step takes its first link away. A new
  setting leaves it alone because an acknowledgment on its way stands for an earlier one.
  `MaximaAreAllowed` follows from the same steps, as whatever an end makes of an event
  that it accepts stays within bounds. `ReductionsAreKept` needs
  `ShrinkingComposes` (shrinking a table in two steps is shrinking it at once) and an
  invariant that says what `eager` is while an update is pending: the decoder's table cut to
  the least maximum since. None of this bounds the number of changes.
  `ConnectionDeliversFields` (`Spec => DeliversHeaders`) maps what the wire still means
  (`MeaningsOf`) to the channel's `pending`: an event produced adds its field at the end
  (`MeaningsAppended`), an event taken has it at the front (`MeaningsInFront`), and by `Following`
  the field read is that one. That the recursive function inside `MeaningsOf` exists, and that
  lists which begin alike gather alike, is shown by least counterexamples.
* `Http2HeaderBlocks_proofs`. Arithmetic first: `LengthComesBack` and `U32ComesBack` for
  numbers in any even base, then `FrameComesBack` and `ParseFindsFrame` (parsing any prefix
  finds the first frame, refuses it, or asks for more), `SectionsComeBack` and
  `SettingsComeBack` (the views' index arithmetic undoes the builders'), and
  `BuiltFramesAreAccepted`. `SpecFramesComeBack` is inductive only with a statement about the
  bytes under way: `BytesInv` says that they are those of the frames written and not yet
  taken, one behind the other (`PlacedAt`). `SpecFragmentsExactlyLegal` adds `LockInv`: the
  lock is the stream of the block that the frames taken leave open, and idle if they leave
  none. `SpecWholeBlocksAreTaken` adds `WholeInv`, which follows a block from its first frame
  to its latest. All hold for any number of frames.
* `Http3PeerStreams_proofs`. `PeerStreamsTypeCorrect` (`Spec => []TypeOK`) is inductive
  with `WireInv`, that what is on its way are numbers: builders write numbers in whatever
  widths (`VarIntTyped`, and `CanonicalAllTyped` by a least counterexample), parsers leave
  tails of them, and so an identifier read from a frame is a number that can be compared.
  `SpecStreamsExactlyLegal` adds `CriticalInv`: each of the tracker's three fields names a
  stream exactly if a header of that type has been accepted on it. `SpecFramesExactlyLegal` adds
  `ControlInv`: there are settings exactly if a frame has been taken, and the last GOAWAY and
  the last MAX_PUSH_ID are the least and the greatest of all that were, so that comparing with
  one value is comparing with all (`ReceivedIsLegal`, `ReceivedSums`). Neither says anything of
  how many streams, frames and errors there have been.
  `SpecStreamsComeBack` adds `DeliveryInv`: of every stream, what was read was written
  first, each header and frame as it was given, and the bytes left are those of the rest, piece
  by piece (`Delivered`). The argument starts from the integers: in each of the
  four widths a number of bytes is the number again (`IntegerComesBack`; with two bits for the
  width, 62 for the value, in base 256). `JoinedSteps` and `AreJoined` say what it means that
  pieces lie one behind the other, without the recursion that joins them, so that
  `NumbersComeBack` finds every integer of a payload where it was put and finds no other.
  `HeaderFound` and `FrameFound` parse the first piece whatever bytes are behind it, and
  `HeaderOfPrefix` and `FrameOfPrefix` parse any part of it that has arrived: they wait, or find the
  same. `SpecSettingsAreAsSent` adds `SettingsInv`, that the settings are those of the frame that
  brought them; by `DeliveryInv` that frame's numbers are the builder's.
* `QuicDatagrams_proofs`, about bytes. The Internet checksum first: ones' complement addition
  of words does not depend on where a checksum lies in them, so that what was filled in makes the
  whole sum come out as all ones, also when a result of zero was sent as all ones
  (`ChecksumMakesWhole`; `OnesSumSteps` states the sum without its recursion). Then each layer with whatever is behind
  it (`UdpComesBack`, `Ipv4ComesBack` with any options, `Ipv6ComesBack`, `EthernetComesBack`):
  IPv6's extension headers are walked exactly as far as they lead, up to the first fragment
  (`UpperLayerFound`); together these are `LinkComesBack`. Then
  QUIC's integers in each of the four widths (`IntegerComesBack`), the header of each type of packet, the cut that
  the length of one makes before the next (`PacketComesBack`, `TwoPacketsComeBack`,
  `PacketAndZerosComeBack`), and the protection of first byte and packet number
  (`SealedComesBack`).
* `QuicPath_proofs`, about the two endpoints and the link. None of the properties is inductive
  alone, since each speaks of bytes that were written in an earlier step. The inductive
  invariant `PathInvariant` (`PathIsInvariant`) has these parts:

  | Part | What it says, and what needs it |
  |---|---|
  | `IsScenario(scenario)` | what the users are asked to send never changes: every builder's arguments are legal |
  | `IsDatagramSent` of each datagram in `sent` | its frame is `OnTheLink` of what was given, and its packets are ones that come apart again: all that a copy's arrival depends on |
  | `local[e] \in Known(e)` | whatever an endpoint has made of a damaged or reordered copy, its connection IDs are ones that a builder takes and fit the receiver's context, and every protected packet that it has read is one of the other's |
  | `NumbersInOrder`, `NumbersAreUnique` | in a packet number space the numbers sent are the first ones of the script, each on one packet only; so a number that was read names the packet it came in |
  | `AcksOfSent` | an ACK that was written is of numbers its sender had read, hence of ones that the other had sent |
  | `SpacesInStep`, `ClientBegins` | the client begins; its early packets go behind its Initials until it has a verdict, and the server sends Initial and Handshake packets together and after it has one: so a next number is there whenever one is taken from the script |

  `EveryDatagramComesBack` and `EveryPacketComesBack` (`Spec => []DatagramsComeBack`,
  `Spec => []PacketsComeBack`) follow with the lemmas on bytes: an arrival is computed from a
  datagram in `sent`, which is one that comes back. `EveryAckTellsOfSent`
  (`Spec => []AcknowledgedWereReceived`) adds that an ACK frame's integers are read as written,
  and that first range, gap and second range hold exactly the numbers acknowledged. They hold
  for every scenario, and for any order, repetition, loss and damage of the datagrams. What
  stays bounded is the users' script: packet numbers are those of `NUMBERS`, three in each
  space, so that an ACK has one range or two.

Assumptions: the length of each name and value is a natural number, and in the arrays one
name and one value at most have none, as there is one empty string of bytes; capacities the encoder
chooses do not exceed the decoder's advertised maximum (the caller of the encoding side is
told that maximum); the maxima offered to HPACK do not exceed the storage; a byte has an even
number of values, inputs of HTTP/2 builders fit their types in Rust and a payload fits 24 bits;
headers and frames of HTTP/3 are what a builder takes (`IsHeader`, `IsGivenFrame`) and a width
that a peer chooses for an integer holds it, as no bytes say anything else; limits and bounds are
natural numbers; and of QUIC's users what `IsScenario` says.

Only model-checked are three invariants of `QuicPath` and everything temporal (liveness under
fairness and `ENABLED` are beyond the prover). `PayloadsExactlyLegal` and
`ParametersExactlyAuthentic` compare what the parsers accept with what a scenario says of its
frames and lists, one by one: there is no second definition of legality to prove anything
about, and for payloads and lists of any length the parsers' recursion would need an induction
over data. `DamageIsNoticed` is not true of every scenario. No checksum covers the extension
headers of IPv6 or the next header before them; a changed byte may make the walk end elsewhere, and a
caller's header could hold a whole UDP datagram there. And a changed byte in UDP's
length may cut off just what balances the sum. TLC says that this does not happen on the stacks of
the run, for any byte that is cut or changed to the three values. No module here uses `RECURSIVE`, whose presence would keep the prover from
the module.

## 5. Plan

1. *(done)* QPACK: table, field section arithmetic, ledger, packed accounting, connection.
2. HTTP/3: `Http3Message`, `Http3Frame`, `Http3PeerStreams` *(done)*.
3. HTTP/2: `HpackTable`, `HpackContext`, `HpackConnection`, `Http2Frame`,
   `Http2HeaderBlocks` *(done)*.
4. QUIC over UDP, IP and Ethernet: `QuicPath` and its parts *(done)*. TCP beside UDP in
   `InternetPacket`.
5. Pure algorithms with reference definitions over bounded inputs: HTTP/1 body framing and
   chunk walk, KCP segment walk, the integers of HPACK and QPACK.
6. Proofs: the connections of QPACK and HPACK, the tables' arrays, the packed accounting, the
   messages and the peer's streams of HTTP/3, and of `QuicPath` the datagrams, the packets and
   the acknowledgments *(done)*.

## 6. Not modelled

The layouts of ARP, ICMP, TCP and TLS are functions of their input with no order of events
to get wrong; the repository's tests enumerate their boundaries. Mutable views of packets are
setters over the same layouts as the immutable ones. The Huffman code is a constant table. The
HTTP/3 bridge forwards calls; the retry it documents is the decoding caller's behaviour in
`QpackConnection`. Everything else without a module is in the plan above.

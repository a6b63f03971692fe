----------------------------- MODULE Http2Frame -----------------------------
(***************************************************************************)
(* HTTP/2 frames as bytes: the nine-byte header and its payload, the typed *)
(* builders that write them into a caller's buffer (src/src/http2/builder) *)
(* and the typed views that read them back (headers.rs, data.rs,           *)
(* control.rs, settings.rs over frame.rs and layout.rs).                   *)
(*                                                                         *)
(* ByteValues is the number of values of a byte, 256 in the code.  Lengths,*)
(* padding lengths and integers are written in that base, so a small value *)
(* brings the 24-bit and 31-bit boundaries into reach.  The type and flags *)
(* bytes are never computed with and keep the code's values.               *)
(*                                                                         *)
(* What a caller hands to a builder is one record, whatever the type:      *)
(*   typed    FALSE for Http2FrameBuilder, the builder of raw frames       *)
(*   type, flags, stream                                                   *)
(*   pad      <<>>, or <<n>> for n bytes of padding                        *)
(*   section  <<>>, the five bytes of a priority section in HEADERS, or    *)
(*            the promised stream in PUSH_PROMISE                          *)
(*   data     the field-block fragment, the DATA, or the fixed payload     *)
(***************************************************************************)
EXTENDS Integers, Sequences

CONSTANTS ByteValues,           \* values of a u8
          MinimumFrameSize      \* the least SETTINGS_MAX_FRAME_SIZE, 0x4000

ASSUME ByteAssumption == /\ ByteValues \in Nat
                         /\ ByteValues >= 2
                         /\ ByteValues % 2 = 0
                         /\ MinimumFrameSize \in Nat

Byte == 0 .. (ByteValues - 1)
U16 == 0 .. (ByteValues * ByteValues - 1)
U32Value == 0 .. (ByteValues * ByteValues * ByteValues * ByteValues - 1)

DATA == 0
HEADERS == 1
PRIORITY == 2
RST_STREAM == 3
SETTINGS == 4
PUSH_PROMISE == 5
PING == 6
GOAWAY == 7
WINDOW_UPDATE == 8
CONTINUATION == 9

ACK == 1
END_HEADERS == 4
PADDED == 8
PRIORITY_FLAG == 32

HasFlag(flags, bit) == (flags \div bit) % 2 = 1
WithFlag(flags, bit) == IF HasFlag(flags, bit) THEN flags ELSE flags + bit

FrameHeaderLength == 9
MaximumPayload == ByteValues * ByteValues * ByteValues - 1

----------------------------------------------------------------------------
(* Integers on the wire *)

Low(n) == n % ByteValues
Rest(n) == n \div ByteValues

LengthBytes(n) == <<Low(Rest(Rest(n))), Low(Rest(n)), Low(n)>>
\* Mutant: the middle byte is not shifted.
LengthInUnshifted(b) == b[1] * (ByteValues * ByteValues) + b[2] + b[3]

LengthIn(b) == b[1] * (ByteValues * ByteValues) + b[2] * ByteValues + b[3]

U32Bytes(n) == <<Low(Rest(Rest(Rest(n)))), Low(Rest(Rest(n))),
                 Low(Rest(n)), Low(n)>>
U32(b) == b[1] * (ByteValues * ByteValues * ByteValues)
            + b[2] * (ByteValues * ByteValues) + b[3] * ByteValues + b[4]

\* The numbers below the reserved top bit of a 32-bit field.
ReservedBit == (ByteValues * ByteValues * ByteValues * ByteValues) \div 2
Value(raw) == raw % ReservedBit
Reserved(raw) == raw >= ReservedBit

----------------------------------------------------------------------------
(* The envelope *)

CanWriteEnvelope(length, maximum, capacity) ==
    /\ length <= maximum
    /\ length <= MaximumPayload
    /\ FrameHeaderLength + length <= capacity

Bytes(frame) ==
    LengthBytes(Len(frame.payload)) \o <<frame.type, frame.flags>>
        \o U32Bytes(frame.stream) \o frame.payload

\* Http2Frame::parse on the bytes received so far.
Parse(bytes, maximum) ==
    LET required == FrameHeaderLength + LengthIn(bytes)
    IN  IF Len(bytes) < FrameHeaderLength
            THEN [result |-> "incomplete", bytes |-> <<>>]
        ELSE IF LengthIn(bytes) > maximum
            THEN [result |-> "too large", bytes |-> <<>>]
        ELSE IF Len(bytes) < required
            THEN [result |-> "incomplete", bytes |-> <<>>]
        ELSE [result |-> "frame", bytes |-> SubSeq(bytes, 1, required)]

FrameIn(bytes) ==
    [type |-> bytes[4], flags |-> bytes[5],
     stream |-> U32(SubSeq(bytes, 6, 9)),
     payload |-> SubSeq(bytes, FrameHeaderLength + 1, Len(bytes))]

----------------------------------------------------------------------------
(* The builders *)

StreamAllowed(stream) == Value(stream) # 0 /\ ~Reserved(stream)

Setting(id, value) == [id |-> id, value |-> value]

HasValidIntrinsicValue(setting) ==
    /\ setting.id \in {2, 8} => setting.value <= 1
    /\ setting.id = 4 => setting.value < ReservedBit
    /\ setting.id = 5 => setting.value \in MinimumFrameSize .. MaximumPayload

SettingBytes(setting) ==
    <<Low(Rest(setting.id)), Low(setting.id)>> \o U32Bytes(setting.value)

SettingsPayload(list) ==
    [k \in 1 .. (6 * Len(list)) |->
        SettingBytes(list[((k - 1) \div 6) + 1])[((k - 1) % 6) + 1]]

SettingAt(payload, k) ==
    Setting(payload[6 * k - 5] * ByteValues + payload[6 * k - 4],
            U32(SubSeq(payload, 6 * k - 3, 6 * k)))

PadLength(pad) == IF pad = <<>> THEN 0 ELSE pad[1]

Build(given) ==
    [type |-> given.type,
     stream |-> given.stream,
     flags |->
        LET padded == IF given.pad = <<>> THEN given.flags
                      ELSE WithFlag(given.flags, PADDED)
        IN  IF given.type = HEADERS /\ given.section # <<>>
            THEN WithFlag(padded, PRIORITY_FLAG) ELSE padded,
     payload |-> given.pad \o given.section \o given.data
                    \o [i \in 1 .. PadLength(given.pad) |-> 0]]

\* What the builders of DATA, HEADERS and PUSH_PROMISE check before they write.
SectionedBuildAllowed(given) ==
    /\ given.type \in {DATA, HEADERS, PUSH_PROMISE}
          => ~HasFlag(given.flags, PADDED)
    /\ given.type = HEADERS => ~HasFlag(given.flags, PRIORITY_FLAG)
    /\ given.type = PUSH_PROMISE => StreamAllowed(U32(given.section))

\* What the builders of control frames check.  The SETTINGS builder checks its
\* list of settings, of which given.data is the encoding.
ControlBuildAllowed(given) ==
    /\ given.type = GOAWAY => ~Reserved(U32(given.data))
    /\ given.type = WINDOW_UPDATE =>
          /\ ~Reserved(given.stream)
          /\ StreamAllowed(U32(given.data))
    /\ given.type = SETTINGS /\ HasFlag(given.flags, ACK) => given.data = <<>>

TypedBuildAllowed(given) ==
    /\ given.type \in {DATA, HEADERS, PUSH_PROMISE, CONTINUATION, PRIORITY, RST_STREAM}
          => StreamAllowed(given.stream)
    /\ SectionedBuildAllowed(given)
    /\ ControlBuildAllowed(given)

BuildAllowed(given, maximum, capacity) ==
    /\ IF given.typed THEN TypedBuildAllowed(given) ELSE ~Reserved(given.stream)
    /\ CanWriteEnvelope(Len(Build(given).payload), maximum, capacity)

----------------------------------------------------------------------------
(* The typed views *)

IsPadded(frame) == HasFlag(frame.flags, PADDED)

PaddingIsValid(frame) ==
    IsPadded(frame) => /\ Len(frame.payload) > 0
                       /\ frame.payload[1] < Len(frame.payload)

PaddingLength(frame) == IF IsPadded(frame) THEN frame.payload[1] ELSE 0

SectionLength(frame) ==
    IF frame.type = PUSH_PROMISE THEN 4
    ELSE IF frame.type = HEADERS /\ HasFlag(frame.flags, PRIORITY_FLAG) THEN 5
    ELSE 0

SectionStart(frame) == IF IsPadded(frame) THEN 1 ELSE 0
DataStart(frame) == SectionStart(frame) + SectionLength(frame)
DataEnd(frame) == Len(frame.payload) - PaddingLength(frame)

SectionOf(frame) == SubSeq(frame.payload, SectionStart(frame) + 1, DataStart(frame))
DataOf(frame) == SubSeq(frame.payload, DataStart(frame) + 1, DataEnd(frame))

\* Http2Data, Http2Headers and Http2PushPromise::from_frame
SectionsAreValid(frame) ==
    /\ Value(frame.stream) # 0
    /\ PaddingIsValid(frame)
    /\ DataEnd(frame) - SectionStart(frame) >= SectionLength(frame)
    /\ frame.type = PUSH_PROMISE => Value(U32(SectionOf(frame))) # 0

\* Http2PriorityFrame, Http2RstStream, Http2Ping, Http2Goaway and
\* Http2WindowUpdate::from_frame
ControlIsValid(frame) ==
    LET length == Len(frame.payload)
    IN  /\ frame.type = PRIORITY => length = 5
        /\ frame.type = RST_STREAM => length = 4
        /\ frame.type = PING => length = 8
        /\ frame.type = GOAWAY => length >= 8
        /\ frame.type = WINDOW_UPDATE =>
              length = 4 /\ Value(U32(frame.payload)) # 0

\* Http2Settings::from_frame
SettingsAreValid(frame) ==
    LET length == Len(frame.payload)
    IN  /\ HasFlag(frame.flags, ACK) => length = 0
        /\ length % 6 = 0
        /\ \A k \in 1 .. (length \div 6) :
              HasValidIntrinsicValue(SettingAt(frame.payload, k))

\* from_frame of the frame's own type
Accepts(frame) ==
    /\ frame.type \in {DATA, HEADERS, PUSH_PROMISE} => SectionsAreValid(frame)
    /\ frame.type \in {CONTINUATION, PRIORITY, RST_STREAM}
          => Value(frame.stream) # 0
    /\ frame.type \in {PING, GOAWAY, SETTINGS} => Value(frame.stream) = 0
    /\ ControlIsValid(frame)
    /\ frame.type = SETTINGS => SettingsAreValid(frame)

Payload(frame) ==
    IF frame.type \in {DATA, HEADERS, PUSH_PROMISE} THEN DataOf(frame)
    ELSE frame.payload
=============================================================================

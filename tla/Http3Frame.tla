----------------------------- MODULE Http3Frame -----------------------------
(***************************************************************************)
(* HTTP/3 frames and the headers of unidirectional streams as bytes: the   *)
(* builders and parsers of src/src/http3/frame, settings.rs and            *)
(* stream/uni.rs.                                                          *)
(*                                                                         *)
(* What a caller hands to a frame builder is one record, whatever the type:*)
(*   type                                                                  *)
(*   numbers  the integers of a typed payload: a Push ID, a GOAWAY         *)
(*            identifier, or the identifiers and values of SETTINGS in turn*)
(*   data     the bytes after them: DATA, a field section, or the whole    *)
(*            payload given to Http3FrameBuilder                           *)
(*   widths   <<>>, or the lengths in which another implementation writes  *)
(*            the type and the payload length; this crate's are canonical  *)
(***************************************************************************)
EXTENDS QuicVarInt

DATA == 0
HEADERS == 1
CANCEL_PUSH == 3
SETTINGS == 4
PUSH_PROMISE == 5
GOAWAY == 7
MAX_PUSH_ID == 13
Http2ReservedTypes == {2, 6, 8, 9}

QPACK_MAX_TABLE_CAPACITY == 1
MAX_FIELD_SECTION_SIZE == 6
QPACK_BLOCKED_STREAMS == 7
ProhibitedSettings == {0, 2, 3, 4, 5}

----------------------------------------------------------------------------
(* Building *)

CanonicalAll(numbers) == Joined([k \in DOMAIN numbers |-> Canonical(numbers[k])])

Payload(given) == CanonicalAll(given.numbers) \o given.data

FrameBytes(given) ==
    LET payload == Payload(given)
    IN  Written(given.type, given.widths, 1)
            \o Written(Len(payload), given.widths, 2)
            \o payload

\* The settings of a list of identifiers and values in turn.
SettingIndices(numbers) == {k \in DOMAIN numbers : k % 2 = 1}

AreDistinctSettings(numbers) ==
    /\ \A k \in SettingIndices(numbers) : numbers[k] \notin ProhibitedSettings
    /\ \A j, k \in SettingIndices(numbers) : j # k => numbers[j] # numbers[k]

BuildAllowed(given, capacity) ==
    /\ Encodable(given.type)
    /\ \A k \in DOMAIN given.numbers : Encodable(given.numbers[k])
    /\ given.type = SETTINGS => AreDistinctSettings(given.numbers)
    /\ Encodable(Len(Payload(given)))
    /\ Len(FrameBytes(given)) <= capacity

----------------------------------------------------------------------------
(* Parsing *)

\* Http3Frame::parse on the bytes received so far.
Parse(bytes, maximum) ==
    LET afterType == AfterVarInt(bytes)
        length == VarIntIn(afterType)
        start == VarIntLength(bytes) + VarIntLength(afterType)
    IN  IF ~HasVarInt(bytes) \/ ~HasVarInt(afterType)
            THEN [result |-> "incomplete", length |-> 0]
        ELSE IF length > maximum
            THEN [result |-> "too large", length |-> 0]
        ELSE IF Len(bytes) < start + length
            THEN [result |-> "incomplete", length |-> 0]
        ELSE [result |-> "frame", length |-> start + length]

\* The frame that occupies these bytes.
FrameIn(bytes) ==
    [type |-> VarIntIn(bytes), payload |-> AfterVarInt(AfterVarInt(bytes))]

\* The integers that fill these bytes; Broken in place of one that is cut off.
Broken == -1

NumbersIn(bytes) ==
    LET from[i \in 1 .. (Len(bytes) + 1)] ==
            LET tail == From(bytes, i)
            IN  IF tail = <<>> THEN <<>>
                ELSE IF ~HasVarInt(tail) THEN <<Broken>>
                ELSE <<VarIntIn(tail)>> \o from[i + VarIntLength(tail)]
    IN  from[1]

\* from_frame of the typed views
IsWellFormed(frame) ==
    /\ frame.type \in {CANCEL_PUSH, GOAWAY, MAX_PUSH_ID} => IsOneVarInt(frame.payload)
    /\ frame.type = PUSH_PROMISE => HasVarInt(frame.payload)
    /\ frame.type = SETTINGS =>
          LET numbers == NumbersIn(frame.payload)
          IN  Len(numbers) % 2 = 0 /\ \A k \in DOMAIN numbers : numbers[k] # Broken

\* push_id() and identifier()
IdentifierOf(frame) == VarIntIn(frame.payload)

\* encoded_field_section() and data()
DataOf(frame) ==
    IF frame.type = PUSH_PROMISE THEN AfterVarInt(frame.payload) ELSE frame.payload

\* Http3Settings::validate_semantics
HasValidSemantics(frame) == AreDistinctSettings(NumbersIn(frame.payload))

SettingOr(numbers, id, default) ==
    IF \E k \in SettingIndices(numbers) : numbers[k] = id
        THEN numbers[1 + CHOOSE k \in SettingIndices(numbers) : numbers[k] = id]
    ELSE default

Unlimited == -1

EffectiveSettings(numbers) ==
    [capacity |-> SettingOr(numbers, QPACK_MAX_TABLE_CAPACITY, 0),
     section  |-> SettingOr(numbers, MAX_FIELD_SECTION_SIZE, Unlimited),
     blocked  |-> SettingOr(numbers, QPACK_BLOCKED_STREAMS, 0)]

----------------------------------------------------------------------------
(* Stream headers *)

CONTROL == 0
PUSH == 1
QPACK_ENCODER == 2
QPACK_DECODER == 3
CriticalTypes == {CONTROL, QPACK_ENCODER, QPACK_DECODER}

\* A header is [type, push, widths] with a Push ID, or 0, in push.
HeaderBytes(header) ==
    Written(header.type, header.widths, 1)
        \o (IF header.type = PUSH THEN Written(header.push, header.widths, 2) ELSE <<>>)

HasHeader(bytes) ==
    /\ HasVarInt(bytes)
    /\ VarIntIn(bytes) = PUSH => HasVarInt(AfterVarInt(bytes))

HeaderIn(bytes) ==
    [type |-> VarIntIn(bytes),
     push |-> IF VarIntIn(bytes) = PUSH THEN VarIntIn(AfterVarInt(bytes)) ELSE 0]

AfterHeader(bytes) ==
    IF VarIntIn(bytes) = PUSH THEN AfterVarInt(AfterVarInt(bytes)) ELSE AfterVarInt(bytes)

=============================================================================

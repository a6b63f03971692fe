------------------------------ MODULE QuicFrame ------------------------------
(***************************************************************************)
(* The frames in the payload of a QUIC packet (src/src/quic/frame.rs and   *)
(* frame/): their layouts, the rules on their values, and the walk over a  *)
(* payload.  A frame that was read is a record                             *)
(*   type       the frame type                                             *)
(*   integers   its integers in order, those of every range of an ACK too  *)
(*   data       its bytes that are not integers                            *)
(*   length     the bytes it takes                                         *)
(* ByteValues is a multiple of 16 here.                                    *)
(***************************************************************************)
EXTENDS QuicVarInt

ACKS == {2, 3}
RESET_STREAM == 4
STOP_SENDING == 5
CRYPTO == 6
NEW_TOKEN == 7
STREAMS == 8 .. 15
MAX_STREAM_DATA == 17
STREAM_COUNTS == {18, 19, 22, 23}
STREAM_DATA_BLOCKED == 21
NEW_CONNECTION_ID == 24
PATHS == {26, 27}
CLOSE_TRANSPORT == 28
CLOSE_APPLICATION == 29
BARE == {0, 1, 30}          \* PADDING, PING and HANDSHAKE_DONE

FrameTypes == 0 .. 30

HasOffset(type) == (type \div 4) % 2 = 1
HasLength(type) == (type \div 2) % 2 = 1

\* The integers in front of the data, or of the ranges of an ACK.
IntegerCount(type) ==
    IF type \in BARE \cup PATHS \cup {NEW_TOKEN} THEN 0
    ELSE IF type \in {STOP_SENDING, MAX_STREAM_DATA, STREAM_DATA_BLOCKED,
                      NEW_CONNECTION_ID, CLOSE_TRANSPORT} THEN 2
    ELSE IF type = RESET_STREAM THEN 3
    ELSE IF type \in ACKS THEN 4
    ELSE IF type \in STREAMS /\ HasOffset(type) THEN 2
    ELSE 1

HasSizedData(type) ==
    \/ type \in {CRYPTO, NEW_TOKEN, CLOSE_TRANSPORT, CLOSE_APPLICATION}
    \/ type \in STREAMS /\ HasLength(type)

HasRestAsData(type) == type \in STREAMS /\ ~HasLength(type)

----------------------------------------------------------------------------
(* Reading one frame *)

\* As many of n integers as the bytes hold whole, and the bytes behind them.
IntegersIn(bytes, n) ==
    LET upTo[k \in 0 .. n] ==
            IF k = 0 THEN [values |-> <<>>, rest |-> bytes]
            ELSE IF ~HasVarInt(upTo[k - 1].rest) THEN upTo[k - 1]
            ELSE [values |-> Append(upTo[k - 1].values, VarIntIn(upTo[k - 1].rest)),
                  rest |-> AfterVarInt(upTo[k - 1].rest)]
    IN  upTo[n]

\* The gap and length of each range, and the three counts of ECN.  A count of ranges
\* beyond the bytes that are left is cut to them, and fails all the same.
RangeIntegers(type, count, bytes) ==
    2 * (IF count > Len(bytes) THEN Len(bytes) ELSE count) + 3 * (type - 2)

MaximumIdLength == 20
ResetTokenLength == 16
PathDataLength == 8

\* The bytes that hold the length of the data, and that length.
HasDataLength(type, bytes) ==
    IF HasSizedData(type) THEN HasVarInt(bytes)
    ELSE type # NEW_CONNECTION_ID \/ (bytes # <<>> /\ bytes[1] \in 1 .. MaximumIdLength)

LengthWidth(type, bytes) ==
    IF HasSizedData(type) THEN VarIntLength(bytes)
    ELSE IF type = NEW_CONNECTION_ID THEN 1 ELSE 0

DataLength(type, bytes) ==
    IF HasSizedData(type) THEN VarIntIn(bytes)
    ELSE IF HasRestAsData(type) THEN Len(bytes)
    ELSE IF type = NEW_CONNECTION_ID THEN bytes[1] + ResetTokenLength
    ELSE IF type \in PATHS THEN PathDataLength
    ELSE 0

NoFrame == [type |-> -1]

\* The frame with these integers, and its data at the start of what is left.
WithData(bytes, type, integers, tail) ==
    LET end == LengthWidth(type, tail) + DataLength(type, tail)
    IN  IF ~HasDataLength(type, tail) THEN NoFrame
        ELSE IF Len(tail) < end THEN NoFrame
        ELSE [type |-> type, integers |-> integers,
              data |-> SubSeq(tail, LengthWidth(type, tail) + 1, end),
              length |-> Len(bytes) - Len(tail) + end]

\* The integers that an ACK has behind the first four.
WithRanges(bytes, type, integers, ranges, more) ==
    IF Len(more.values) < ranges THEN NoFrame
    ELSE WithData(bytes, type, integers \o more.values, more.rest)

WithIntegers(bytes, type, fixed) ==
    LET ranges == RangeIntegers(type, fixed.values[3], fixed.rest)
    IN  IF Len(fixed.values) < IntegerCount(type) THEN NoFrame
        ELSE IF type \notin ACKS THEN WithData(bytes, type, fixed.values, fixed.rest)
        ELSE WithRanges(bytes, type, fixed.values, ranges, IntegersIn(fixed.rest, ranges))

\* parse_at for the bytes of the payload from this frame on, without the rules below
RawFrameIn(bytes) ==
    LET type == VarIntIn(bytes)
    IN  IF ~HasVarInt(bytes) THEN NoFrame
        ELSE IF type \notin FrameTypes THEN NoFrame
        ELSE WithIntegers(bytes, type, IntegersIn(AfterVarInt(bytes), IntegerCount(type)))

----------------------------------------------------------------------------
(* The rules on the values of a frame *)

StreamOffset(frame) == IF HasOffset(frame.type) THEN frame.integers[2] ELSE 0

\* Mutant: the gap is taken for the number of packets missing between two ranges.
AckRangesGap(integers) ==
    LET upTo[k \in 0 .. integers[3]] ==
            IF k = 0 THEN <<[largest |-> integers[1],
                             smallest |-> integers[1] - integers[4]]>>
            ELSE LET largest == upTo[k - 1][k].smallest - integers[2 * k + 3] - 1
                 IN  Append(upTo[k - 1], [largest |-> largest,
                                          smallest |-> largest - integers[2 * k + 4]])
    IN  upTo[integers[3]]

\* The first range of an ACK and the QuicAckRanges behind it, downwards.
AckRanges(integers) ==
    LET upTo[k \in 0 .. integers[3]] ==
            IF k = 0 THEN <<[largest |-> integers[1],
                             smallest |-> integers[1] - integers[4]]>>
            ELSE LET largest == upTo[k - 1][k].smallest - integers[2 * k + 3] - 2
                 IN  Append(upTo[k - 1], [largest |-> largest,
                                          smallest |-> largest - integers[2 * k + 4]])
    IN  upTo[integers[3]]

\* No subtraction of parse_range goes below zero.
RangesAreNatural(ranges) == \A k \in DOMAIN ranges : ranges[k].smallest >= 0

StreamsLimit == (Unit \div 4) * ByteValues^7

\* Mutant: connection IDs may be retired that have not been issued.
FollowsRulesRetire(frame) ==
    /\ frame.type \in ACKS => RangesAreNatural(AckRanges(frame.integers))
    /\ frame.type = CRYPTO => Encodable(frame.integers[1] + Len(frame.data))
    /\ frame.type \in STREAMS => Encodable(StreamOffset(frame) + Len(frame.data))
    /\ frame.type = NEW_TOKEN => frame.data # <<>>
    /\ frame.type \in STREAM_COUNTS => frame.integers[1] <= StreamsLimit

FollowsRules(frame) ==
    /\ frame.type \in ACKS => RangesAreNatural(AckRanges(frame.integers))
    /\ frame.type = CRYPTO => Encodable(frame.integers[1] + Len(frame.data))
    /\ frame.type \in STREAMS => Encodable(StreamOffset(frame) + Len(frame.data))
    /\ frame.type = NEW_TOKEN => frame.data # <<>>
    /\ frame.type \in STREAM_COUNTS => frame.integers[1] <= StreamsLimit
    /\ frame.type = NEW_CONNECTION_ID => frame.integers[2] <= frame.integers[1]

Checked(frame) ==
    IF frame = NoFrame THEN NoFrame
    ELSE IF FollowsRules(frame) THEN frame ELSE NoFrame

FrameIn(bytes) == Checked(RawFrameIn(bytes))

----------------------------------------------------------------------------
(* QuicFrames: the frames of a payload, <<>> when it is refused.  One frame *)
(* that fails refuses them all, and so does a payload without any.          *)

AllOrNone(frames) ==
    IF NoFrame \in {frames[k] : k \in DOMAIN frames} THEN <<>> ELSE frames

FramesIn(bytes) ==
    LET from[i \in 1 .. (Len(bytes) + 1)] ==
            IF i > Len(bytes) THEN <<>>
            ELSE LET frame == FrameIn(From(bytes, i))
                 IN  IF frame = NoFrame THEN <<NoFrame>>
                     ELSE <<frame>> \o from[i + frame.length]
    IN  AllOrNone(from[1])

=============================================================================

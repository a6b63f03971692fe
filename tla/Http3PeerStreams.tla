--------------------------- MODULE Http3PeerStreams ---------------------------
(***************************************************************************)
(* The unidirectional streams that one endpoint of an HTTP/3 connection    *)
(* receives: Http3PeerUniStreamState keeps which stream is the peer's      *)
(* control, QPACK encoder and QPACK decoder stream (stream/peer.rs), and   *)
(* Http3ControlStreamState follows the frames of the control stream        *)
(* (stream/control.rs).                                                    *)
(*                                                                         *)
(* Nothing orders one stream against another, and a stream's bytes arrive  *)
(* in any pieces.  The peer may use the builders of this crate in any      *)
(* order, or be another implementation that writes integers in any width   *)
(* and any bytes.  On an error the code changes no state; the receiver     *)
(* goes on, as the tests of the code do, so that an error is also shown to *)
(* leave no trace.                                                         *)
(***************************************************************************)
EXTENDS Http3Frame, FiniteSets

CONSTANTS Streams,           \* stream identifiers the peer uses
          Headers,           \* stream headers it writes
          Frames,            \* frames it gives to a builder, or writes itself
          Capacity,          \* length of its buffer
          MaximumPayload,    \* maximum_payload of the receiver's parser
          MaxWrites,         \* bound: headers, frames and closes written
          MaxPending         \* bound: those written and not yet read

IsNumber(n) == n \in Nat /\ Encodable(n)
WidthChoices == {<<>>} \cup (Lengths \X Lengths)

\* The k-th of the chosen widths, if any is chosen, has room for the value.
FitsChosen(value, widths, k) == widths # <<>> => Fits(value, widths[k])

IsHeader(header) ==
    /\ IsNumber(header.type) /\ IsNumber(header.push)
    /\ header.widths \in WidthChoices
    /\ FitsChosen(header.type, header.widths, 1)
    /\ FitsChosen(header.push, header.widths, 2)

\* What the builder of the frame's type takes, or bytes for any type.
IsGivenFrame(given) ==
    /\ given.type \in Nat
    /\ given.numbers \in Seq(Nat)
    /\ given.data \in Seq(Byte)
    /\ given.widths \in WidthChoices
    /\ FitsChosen(given.type, given.widths, 1)
    /\ FitsChosen(Len(Payload(given)), given.widths, 2)
    /\ \/ given.numbers = <<>>
       \/ given.type = SETTINGS /\ Len(given.numbers) % 2 = 0 /\ given.data = <<>>
       \/ given.type = PUSH_PROMISE /\ Len(given.numbers) = 1
       \/ /\ given.type \in {CANCEL_PUSH, GOAWAY, MAX_PUSH_ID}
          /\ Len(given.numbers) = 1 /\ given.data = <<>>

ASSUME InputsAssumption ==
    /\ \A header \in Headers : IsHeader(header)
    /\ \A given \in Frames : IsGivenFrame(given)
    /\ Streams \subseteq Nat
    /\ {Capacity, MaximumPayload, MaxWrites, MaxPending} \subseteq Nat

VARIABLES role,        \* Http3PeerUniStreamState.local_role
          critical,    \* its control, qpack_encoder and qpack_decoder
          settings,    \* Http3ControlStreamState.settings,
          goaway,      \* last_goaway_identifier
          maximumPush, \* and maximum_push_id
          wire,        \* bytes written on each stream and not yet read
          sent,        \* history: what was written, and on which stream
          closed,      \* streams that the peer has closed or reset
          stopped,     \* streams on which a frame was too large to parse
          events       \* history: what was received, and how it was answered

receiver == <<critical, settings, goaway, maximumPush>>
vars == <<role, receiver, wire, sent, closed, stopped, events>>

\* An Option is empty or holds one value.
None == <<>>
Some(value) == <<value>>

Init ==
    /\ role \in {"Client", "Server"}
    /\ critical = [type \in CriticalTypes |-> None]
    /\ settings = None
    /\ goaway = None
    /\ maximumPush = None
    /\ wire = [s \in Streams |-> <<>>]
    /\ sent = <<>>
    /\ closed = {}
    /\ stopped = {}
    /\ events = <<>>

----------------------------------------------------------------------------
(* The peer *)

\* The elements at some of the indices, in their order.
Selected(q, indices) ==
    Joined([k \in DOMAIN q |-> IF k \in indices THEN <<q[k]>> ELSE <<>>])

SentOn(s) == Selected(sent, {k \in DOMAIN sent : sent[k].stream = s})
EventsOn(s, kinds) ==
    Selected(events, {k \in DOMAIN events : events[k].stream = s /\ events[k].kind \in kinds})
ReadOn(s) == EventsOn(s, {"header", "frame"})
Reads == Selected(events, {k \in DOMAIN events : events[k].kind # "closed"})

CanWrite(s) ==
    /\ s \notin closed
    /\ Len(sent) + Cardinality(closed) < MaxWrites
    /\ Len(sent) - Len(Reads) < MaxPending

Write(s, item, bytes) ==
    /\ sent' = Append(sent, [stream |-> s, item |-> item])
    /\ wire' = [wire EXCEPT ![s] = @ \o bytes]
    /\ UNCHANGED <<role, receiver, closed, stopped, events>>

OpenStream(s) ==
    /\ CanWrite(s)
    /\ SentOn(s) = <<>>
    /\ \E header \in Headers : Write(s, header, HeaderBytes(header))

\* What follows on streams of other types is not HTTP/3 frames.
WriteFrame(s) ==
    /\ CanWrite(s)
    /\ SentOn(s) # <<>>
    /\ SentOn(s)[1].item.type = CONTROL
    /\ \E given \in {g \in Frames : BuildAllowed(g, Capacity)} :
          Write(s, given, FrameBytes(given))

CloseStream(s) ==
    /\ CanWrite(s)
    /\ SentOn(s) # <<>>
    /\ closed' = closed \cup {s}
    /\ UNCHANGED <<role, receiver, wire, sent, stopped, events>>

----------------------------------------------------------------------------
(* Http3PeerUniStreamState *)

Ok == "ok"

IsPeerUnidirectional(s) ==
    Encodable(s) /\ s % 4 = (IF role = "Client" THEN 3 ELSE 2)

HeaderAnswer(s, header) ==
    IF ~IsPeerUnidirectional(s) THEN "InvalidPeerUnidirectionalStream"
    ELSE IF header.type \in CriticalTypes /\ critical[header.type] # None
        THEN "DuplicateCriticalStream"
    ELSE IF header.type = PUSH /\ role = "Server" THEN "ClientInitiatedPushStream"
    ELSE Ok

\* Mutant: only the control stream counts as critical when it closes.
ClosedAnswerControl(s) ==
    IF critical[CONTROL] = Some(s) THEN "ClosedCriticalStream" ELSE Ok

ClosedAnswer(s) ==
    IF \E type \in CriticalTypes : critical[type] = Some(s)
        THEN "ClosedCriticalStream"
    ELSE Ok

Logged(kind, s, item, answer) ==
    events' = Append(events, [kind |-> kind, stream |-> s, item |-> item, answer |-> answer])

ReceiveHeader(s) ==
    \E arrived \in {n \in 0 .. Len(wire[s]) : HasHeader(SubSeq(wire[s], 1, n))} :
        LET bytes == SubSeq(wire[s], 1, arrived)
            header == HeaderIn(bytes)
            answer == HeaderAnswer(s, header)
        IN  /\ ReadOn(s) = <<>>
            /\ wire' = [wire EXCEPT ![s] = AfterHeader(@)]
            /\ critical' = IF answer = Ok /\ header.type \in CriticalTypes
                           THEN [critical EXCEPT ![header.type] = Some(s)] ELSE critical
            /\ Logged("header", s, header, answer)
            /\ UNCHANGED <<role, settings, goaway, maximumPush, sent, closed, stopped>>

\* A close overtakes the bytes before it when it is a reset.
ReceiveClosed(s) ==
    /\ s \in closed
    /\ EventsOn(s, {"closed"}) = <<>>
    /\ Logged("closed", s, None, ClosedAnswer(s))
    /\ UNCHANGED <<role, receiver, wire, sent, closed, stopped>>

----------------------------------------------------------------------------
(* Http3ControlStreamState *)

\* The state after a frame, and the answer: Ok or the error, which changes nothing.
After(answer, newSettings, newGoaway, newMaximum) ==
    [answer |-> answer, settings |-> newSettings, goaway |-> newGoaway,
     maximumPush |-> newMaximum]

Refused(error) == After(error, settings, goaway, maximumPush)
Unchanged == Refused(Ok)

SettingsReceived(frame) ==
    IF ~IsWellFormed(frame) THEN Refused("FramePayload")
    ELSE IF ~HasValidSemantics(frame) THEN Refused("Settings")
    ELSE After(Ok, Some(EffectiveSettings(NumbersIn(frame.payload))), goaway, maximumPush)

CancelPushReceived(frame) ==
    IF role = "Client" THEN Refused("UnexpectedFrame")
    ELSE IF ~IsWellFormed(frame) THEN Refused("FramePayload")
    ELSE Unchanged

\* Mutant: forgets the check against the previous identifier when that is 0.
GoawayReceivedForgetful(frame) ==
    LET identifier == IdentifierOf(frame)
    IN  IF ~IsWellFormed(frame) THEN Refused("FramePayload")
        ELSE IF role = "Client" /\ identifier % 4 # 0 THEN Refused("InvalidGoawayStreamId")
        ELSE IF goaway \notin {None, Some(0)} /\ identifier > goaway[1]
            THEN Refused("IncreasedGoawayIdentifier")
        ELSE After(Ok, settings, Some(identifier), maximumPush)

GoawayReceived(frame) ==
    LET identifier == IdentifierOf(frame)
    IN  IF ~IsWellFormed(frame) THEN Refused("FramePayload")
        ELSE IF role = "Client" /\ identifier % 4 # 0 THEN Refused("InvalidGoawayStreamId")
        ELSE IF goaway # None /\ identifier > goaway[1]
            THEN Refused("IncreasedGoawayIdentifier")
        ELSE After(Ok, settings, Some(identifier), maximumPush)

MaxPushIdReceived(frame) ==
    LET identifier == IdentifierOf(frame)
    IN  IF role = "Client" THEN Refused("UnexpectedFrame")
        ELSE IF ~IsWellFormed(frame) THEN Refused("FramePayload")
        ELSE IF maximumPush # None /\ identifier < maximumPush[1]
            THEN Refused("ReducedMaximumPushId")
        ELSE After(Ok, settings, goaway, Some(identifier))

\* Mutant: SETTINGS is taken wherever it comes.
ReceivedAnySettings(frame) ==
    IF frame.type = SETTINGS THEN SettingsReceived(frame)
    ELSE IF settings = None THEN Refused("MissingSettings")
    ELSE IF frame.type \in {DATA, HEADERS, PUSH_PROMISE} \cup Http2ReservedTypes
        THEN Refused("UnexpectedFrame")
    ELSE IF frame.type = CANCEL_PUSH THEN CancelPushReceived(frame)
    ELSE IF frame.type = GOAWAY THEN GoawayReceived(frame)
    ELSE IF frame.type = MAX_PUSH_ID THEN MaxPushIdReceived(frame)
    ELSE Unchanged

Received(frame) ==
    IF settings = None
        THEN IF frame.type = SETTINGS THEN SettingsReceived(frame)
             ELSE Refused("MissingSettings")
    ELSE IF frame.type \in {SETTINGS, DATA, HEADERS, PUSH_PROMISE} \cup Http2ReservedTypes
        THEN Refused("UnexpectedFrame")
    ELSE IF frame.type = CANCEL_PUSH THEN CancelPushReceived(frame)
    ELSE IF frame.type = GOAWAY THEN GoawayReceived(frame)
    ELSE IF frame.type = MAX_PUSH_ID THEN MaxPushIdReceived(frame)
    ELSE Unchanged

Arrived(s, n) == Parse(SubSeq(wire[s], 1, n), MaximumPayload)

ReceiveFrame(s) ==
    \E n \in 0 .. Len(wire[s]) :
        LET parsed == Arrived(s, n)
            frame == FrameIn(SubSeq(wire[s], 1, parsed.length))
            after == Received(frame)
        IN  /\ critical[CONTROL] = Some(s)
            /\ s \notin stopped
            /\ parsed.result = "frame"
            /\ wire' = [wire EXCEPT ![s] = From(@, parsed.length + 1)]
            /\ settings' = after.settings
            /\ goaway' = after.goaway
            /\ maximumPush' = after.maximumPush
            /\ Logged("frame", s, frame, after.answer)
            /\ UNCHANGED <<role, critical, sent, closed, stopped>>

\* A frame above the maximum: the receiver cannot find the next one.
RefuseLength(s) ==
    \E n \in 0 .. Len(wire[s]) :
        /\ critical[CONTROL] = Some(s)
        /\ Arrived(s, n).result = "too large"
        /\ s \notin stopped
        /\ stopped' = stopped \cup {s}
        /\ UNCHANGED <<role, receiver, wire, sent, closed, events>>

Next ==
    \E s \in Streams :
        \/ OpenStream(s) \/ WriteFrame(s) \/ CloseStream(s)
        \/ ReceiveHeader(s) \/ ReceiveClosed(s)
        \/ ReceiveFrame(s) \/ RefuseLength(s)

Spec == Init /\ [][Next]_vars

----------------------------------------------------------------------------
(* Properties *)

TypeOK ==
    /\ role \in {"Client", "Server"}
    /\ critical \in [CriticalTypes -> {None} \cup {Some(s) : s \in Streams}]
    /\ goaway \in {None} \cup {Some(n) : n \in Nat}
    /\ maximumPush \in {None} \cup {Some(n) : n \in Nat}
    /\ closed \subseteq Streams
    /\ stopped \subseteq Streams

\* What a view returns of a frame is what its builder was given.
FrameComesBack(frame, given) ==
    /\ frame.type = given.type
    /\ given.numbers = <<>> => frame.payload = given.data
    /\ given.numbers # <<>> => IsWellFormed(frame)
    /\ given.type = SETTINGS /\ given.data = <<>> => NumbersIn(frame.payload) = given.numbers
    /\ Len(given.numbers) = 1 => IdentifierOf(frame) = given.numbers[1]
    /\ given.type \in {DATA, HEADERS} => DataOf(frame) = given.data
    /\ given.type = PUSH_PROMISE /\ given.numbers # <<>> => DataOf(frame) = given.data

HeaderComesBack(header, given) ==
    /\ header.type = given.type
    /\ given.type = PUSH => header.push = given.push

\* However a stream's bytes are cut on their way, and whatever widths its integers
\* have, its header and its frames are found one after the other and read as they were
\* written; parsing waits only for bytes that are still to be written, and gives up only
\* at a payload above the maximum (stream/uni.rs, frame/envelope.rs and the views).
StreamsComeBack ==
    \A s \in Streams :
        LET read == ReadOn(s)
            written == SentOn(s)
            next == Len(read) + 1
        IN  /\ \A k \in DOMAIN read :
                  IF k = 1 THEN HeaderComesBack(read[1].item, written[1].item)
                  ELSE FrameComesBack(read[k].item, written[k].item)
            /\ next = 1 /\ written # <<>> => HasHeader(wire[s])
            /\ next > 1 /\ next <= Len(written) =>
                  Parse(wire[s], MaximumPayload).result
                      = IF Len(Payload(written[next].item)) > MaximumPayload
                        THEN "too large" ELSE "frame"

Accepted(k) == {j \in 1 .. (k - 1) : events[j].answer = Ok}

\* The earlier accepted headers of critical streams.
Registered(k) == {j \in Accepted(k) : /\ events[j].kind = "header"
                                      /\ events[j].item.type \in CriticalTypes}

MayOpen(k) ==
    /\ Encodable(events[k].stream)
    /\ events[k].stream % 4 = (IF role = "Client" THEN 3 ELSE 2)
    /\ events[k].item.type = PUSH => role = "Client"
    /\ \A j \in Registered(k) : events[j].item.type # events[k].item.type

MayClose(k) == \A j \in Registered(k) : events[j].stream # events[k].stream

\* A header is accepted exactly if the earlier headers, of all streams and refused ones
\* included, leave room for it; a close is an error exactly if the stream was accepted as
\* a critical one (the three fields of Http3PeerUniStreamState stand for all of them).
StreamsExactlyLegal ==
    \A k \in DOMAIN events :
        /\ events[k].kind = "header" => (events[k].answer = Ok <=> MayOpen(k))
        /\ events[k].kind = "closed" => (events[k].answer = Ok <=> MayClose(k))

EarlierFrames(k) == {events[j].item : j \in {i \in Accepted(k) : events[i].kind = "frame"}}

\* What RFC 9114 asks of a frame, seen from all the frames before it.
IsLegalFrame(frame, earlier) ==
    LET before(type) == {e \in earlier : e.type = type}
    IN  /\ IsWellFormed(frame)
        /\ frame.type \notin {DATA, HEADERS, PUSH_PROMISE} \cup Http2ReservedTypes
        /\ frame.type = SETTINGS <=> earlier = {}
        /\ frame.type = SETTINGS => HasValidSemantics(frame)
        /\ frame.type \in {CANCEL_PUSH, MAX_PUSH_ID} => role = "Server"
        /\ frame.type = GOAWAY =>
              /\ role = "Client" => IdentifierOf(frame) % 4 = 0
              /\ \A e \in before(GOAWAY) : IdentifierOf(frame) <= IdentifierOf(e)
        /\ frame.type = MAX_PUSH_ID =>
              \A e \in before(MAX_PUSH_ID) : IdentifierOf(frame) >= IdentifierOf(e)

\* A frame of the control stream is accepted exactly if it is legal after all those
\* accepted before it, although the code remembers three values (stream/control.rs).
FramesExactlyLegal ==
    \A k \in DOMAIN events :
        events[k].kind = "frame" =>
            (events[k].answer = Ok <=> IsLegalFrame(events[k].item, EarlierFrames(k)))

Says(numbers, id, value, default) ==
    \/ \E k \in SettingIndices(numbers) : numbers[k] = id /\ numbers[k + 1] = value
    \/ value = default /\ \A k \in SettingIndices(numbers) : numbers[k] # id

\* The settings in force are those that the peer gave to its builder, defaults where it
\* gave none, and nothing received afterwards changes them (settings.rs).
SettingsAreAsSent ==
    \A s \in Streams : \A k \in DOMAIN ReadOn(s) :
        LET event == ReadOn(s)[k]
            given == SentOn(s)[k].item
        IN  k > 1 /\ event.answer = Ok /\ event.item.type = SETTINGS
              /\ given.data = <<>> =>
                /\ settings # None
                /\ Says(given.numbers, QPACK_MAX_TABLE_CAPACITY, settings[1].capacity, 0)
                /\ Says(given.numbers, MAX_FIELD_SECTION_SIZE, settings[1].section, Unlimited)
                /\ Says(given.numbers, QPACK_BLOCKED_STREAMS, settings[1].blocked, 0)
=============================================================================

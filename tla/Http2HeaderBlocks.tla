-------------------------- MODULE Http2HeaderBlocks --------------------------
(***************************************************************************)
(* One direction of an HTTP/2 connection: a sender that writes frames with *)
(* the builders of src/src/http2/builder, and a receiver that cuts them    *)
(* out of the bytes received so far with Http2Frame::parse and shows each  *)
(* to an Http2HeaderBlockSequence (src/src/http2/sequence.rs).             *)
(*                                                                         *)
(* The sender may use any builder at any time: the builders do not know    *)
(* the order of frames.  A peer that is not this library is present too,   *)
(* as the frames of ForeignFrame.  The receiver goes on after a refused    *)
(* frame, as the code allows and its tests do.                             *)
(***************************************************************************)
EXTENDS Http2Frame

CONSTANTS Streams,            \* raw stream identifiers handed to a builder
          ForeignStreams,     \* those with the reserved bit, of other peers
          FlagChoices,        \* flags bytes of header-block frames
          PlainFlags,         \* and of the other frames
          Fragments,          \* field-block fragments and other contents
          Pads,               \* <<>> and the paddings asked for
          PrioritySections,   \* priority sections, five bytes
          Quads,              \* contents of 32-bit fields, as four bytes
          SettingLists,       \* lists of settings
          RawTypes,           \* frame types written with the raw builder,
          RawStreams,         \* their streams,
          RawFlags,           \* flags
          RawPayloads,        \* and payloads
          SenderMaximum,      \* maximum_payload of the builders
          Capacity,           \* length of the caller's buffer
          ReceiverMaximum,    \* maximum_payload of the parser
          MaxFrames,          \* bound: frames written
          MaxPending          \* bound: frames written and not yet read

Contents == {payload \in Seq(Byte) : Len(payload) <= MaximumPayload}

ASSUME InputsAssumption ==
    /\ Streams \subseteq U32Value
    /\ ForeignStreams \subseteq U32Value
    /\ RawStreams \subseteq U32Value
    /\ FlagChoices \subseteq 0 .. 255
    /\ PlainFlags \subseteq 0 .. 255
    /\ RawFlags \subseteq 0 .. 255
    /\ RawTypes \subseteq 0 .. 255
    /\ Fragments \subseteq Contents
    /\ RawPayloads \subseteq Contents
    /\ Pads \subseteq {<<>>} \cup {<<n>> : n \in Byte}
    /\ PrioritySections \subseteq [1 .. 5 -> Byte]
    /\ Quads \subseteq [1 .. 4 -> Byte]
    /\ SettingLists \subseteq Seq([id : U16, value : U32Value])
    /\ {SenderMaximum, Capacity, ReceiverMaximum, MaxFrames, MaxPending} \subseteq Nat

VARIABLES wire,       \* bytes written and not yet parsed
          sent,       \* history: what each builder was given, in order
          taken,      \* history: each parsed frame and what observe said
          locked,     \* Http2HeaderBlockSequence.locked_stream_id
          stopped     \* parse refused the next frame for its length

vars == <<wire, sent, taken, locked, stopped>>

Idle == -1

Init ==
    /\ wire = <<>>
    /\ sent = <<>>
    /\ taken = <<>>
    /\ locked = Idle
    /\ stopped = FALSE

----------------------------------------------------------------------------
(* Sending *)

Given(typed, type, stream, flags, pad, section, data) ==
    [typed |-> typed, type |-> type, stream |-> stream, flags |-> flags,
     pad |-> pad, section |-> section, data |-> data]

Write(given) ==
    /\ Len(sent) < MaxFrames
    /\ Len(sent) - Len(taken) < MaxPending
    /\ sent' = Append(sent, given)
    /\ wire' = wire \o Bytes(Build(given))
    /\ UNCHANGED <<taken, locked, stopped>>

Send(given) ==
    /\ BuildAllowed(given, SenderMaximum, Capacity)
    /\ Write(given)

BuildData ==
    \E stream \in Streams, flags \in PlainFlags, pad \in Pads, data \in Fragments :
        Send(Given(TRUE, DATA, stream, flags, pad, <<>>, data))

BuildHeaders ==
    \E stream \in Streams, flags \in FlagChoices, pad \in Pads,
       section \in {<<>>} \cup PrioritySections, data \in Fragments :
        Send(Given(TRUE, HEADERS, stream, flags, pad, section, data))

BuildPushPromise ==
    \E stream \in Streams, flags \in FlagChoices, pad \in Pads,
       promised \in Quads, data \in Fragments :
        Send(Given(TRUE, PUSH_PROMISE, stream, flags, pad, promised, data))

BuildContinuation ==
    \E stream \in Streams, flags \in FlagChoices, data \in Fragments :
        Send(Given(TRUE, CONTINUATION, stream, flags, <<>>, <<>>, data))

BuildPriority ==
    \E stream \in Streams, flags \in PlainFlags, priority \in PrioritySections :
        Send(Given(TRUE, PRIORITY, stream, flags, <<>>, <<>>, priority))

BuildRstStream ==
    \E stream \in Streams, flags \in PlainFlags, code \in Quads :
        Send(Given(TRUE, RST_STREAM, stream, flags, <<>>, <<>>, code))

BuildWindowUpdate ==
    \E stream \in Streams, flags \in PlainFlags, increment \in Quads :
        Send(Given(TRUE, WINDOW_UPDATE, stream, flags, <<>>, <<>>, increment))

BuildSettings ==
    \E list \in SettingLists, flags \in PlainFlags :
        /\ \A k \in DOMAIN list : HasValidIntrinsicValue(list[k])
        /\ Send(Given(TRUE, SETTINGS, 0, flags, <<>>, <<>>, SettingsPayload(list)))

BuildPing ==
    \E flags \in PlainFlags, first \in Quads, last \in Quads :
        Send(Given(TRUE, PING, 0, flags, <<>>, <<>>, first \o last))

BuildGoaway ==
    \E flags \in PlainFlags, lastStream \in Quads, code \in Quads, debug \in Fragments :
        Send(Given(TRUE, GOAWAY, 0, flags, <<>>, <<>>, lastStream \o code \o debug))

\* Http2FrameBuilder: any type, flags and payload
BuildRaw ==
    \E type \in RawTypes, stream \in RawStreams, flags \in RawFlags,
       payload \in RawPayloads :
        Send(Given(FALSE, type, stream, flags, <<>>, <<>>, payload))

\* Another implementation may set the reserved bit, which no builder does.
ForeignFrame ==
    \E type \in RawTypes, stream \in ForeignStreams, flags \in RawFlags,
       payload \in RawPayloads :
        Write(Given(FALSE, type, stream, flags, <<>>, <<>>, payload))

----------------------------------------------------------------------------
(* Receiving *)

Seen(outcome, lock) == [outcome |-> outcome, locked |-> lock]

\* Mutant: the continuation's stream is compared with its reserved bit.
ObserveOpenRaw(frame, expected) ==
    IF frame.type # CONTINUATION THEN Seen("interleaved", expected)
    ELSE IF ~Accepts(frame) THEN Seen("malformed", expected)
    ELSE IF frame.stream # expected THEN Seen("wrong_stream", expected)
    ELSE Seen("fragment",
              IF HasFlag(frame.flags, END_HEADERS) THEN Idle ELSE expected)

\* Mutant: a continuation that ends the block leaves it locked.
ObserveOpenForever(frame, expected) ==
    IF frame.type # CONTINUATION THEN Seen("interleaved", expected)
    ELSE IF ~Accepts(frame) THEN Seen("malformed", expected)
    ELSE IF Value(frame.stream) # expected THEN Seen("wrong_stream", expected)
    ELSE Seen("fragment", expected)

ObserveOpen(frame, expected) ==
    IF frame.type # CONTINUATION THEN Seen("interleaved", expected)
    ELSE IF ~Accepts(frame) THEN Seen("malformed", expected)
    ELSE IF Value(frame.stream) # expected THEN Seen("wrong_stream", expected)
    ELSE Seen("fragment",
              IF HasFlag(frame.flags, END_HEADERS) THEN Idle ELSE expected)

ObserveIdle(frame) ==
    IF frame.type \notin {HEADERS, PUSH_PROMISE, CONTINUATION} THEN Seen("unrelated", Idle)
    ELSE IF ~Accepts(frame) THEN Seen("malformed", Idle)
    ELSE IF frame.type = CONTINUATION THEN Seen("unexpected", Idle)
    ELSE Seen("fragment",
              IF HasFlag(frame.flags, END_HEADERS) THEN Idle ELSE Value(frame.stream))

Observe(frame, lock) ==
    IF lock = Idle THEN ObserveIdle(frame) ELSE ObserveOpen(frame, lock)

\* What parsing gives on the bytes on the way, however many have arrived.
Parses == {Parse(SubSeq(wire, 1, arrived), ReceiverMaximum) :
                arrived \in 1 .. Len(wire)}

\* Until the bytes hold a whole frame nothing happens.
ReceiveFrame ==
    /\ ~stopped
    /\ \E found \in Parses :
          LET frame == FrameIn(found.bytes)
              seen  == Observe(frame, locked)
          IN  /\ found.result = "frame"
              /\ taken' = Append(taken, [frame |-> frame, outcome |-> seen.outcome])
              /\ locked' = seen.locked
              /\ wire' = SubSeq(wire, Len(found.bytes) + 1, Len(wire))
    /\ UNCHANGED <<sent, stopped>>

\* A frame above the maximum cannot be skipped: the caller gives up.
RefuseLength ==
    /\ ~stopped
    /\ \E found \in Parses : found.result = "too large"
    /\ stopped' = TRUE
    /\ UNCHANGED <<wire, sent, taken, locked>>

Next ==
    \/ BuildData
    \/ BuildHeaders
    \/ BuildPushPromise
    \/ BuildContinuation
    \/ BuildPriority
    \/ BuildRstStream
    \/ BuildWindowUpdate
    \/ BuildSettings
    \/ BuildPing
    \/ BuildGoaway
    \/ BuildRaw
    \/ ForeignFrame
    \/ ReceiveFrame
    \/ RefuseLength

Spec == Init /\ [][Next]_vars

----------------------------------------------------------------------------
(* Properties *)

\* The receiver cuts the bytes where the sender did, wherever they were split
\* on the way, and the view of a frame that a typed builder wrote is accepted
\* and returns the contents, section and padding the builder was given.
\* Parsing gives up only at a frame above the receiver's maximum.
FramesComeBack ==
    /\ Len(taken) <= Len(sent)
    /\ \A k \in DOMAIN taken :
          LET frame == taken[k].frame
              given == sent[k]
          IN  /\ frame = Build(given)
              /\ Len(frame.payload) <= ReceiverMaximum
              /\ given.typed => Accepts(frame) /\ Payload(frame) = given.data
              /\ given.typed /\ frame.type \in {DATA, HEADERS, PUSH_PROMISE} =>
                    /\ SectionOf(frame) = given.section
                    /\ PaddingLength(frame) = PadLength(given.pad)
    /\ stopped => /\ Len(taken) < Len(sent)
                  /\ Len(Build(sent[Len(taken) + 1]).payload) > ReceiverMaximum

\* The fragment a header block was last continued by before the k-th frame.
FragmentsBefore(k) == {j \in 1 .. (k - 1) : taken[j].outcome = "fragment"}

IsLastFragment(j, k) ==
    /\ j \in FragmentsBefore(k)
    /\ \A i \in FragmentsBefore(k) : i <= j

\* A block is open on a stream before the k-th frame: its last fragment does
\* not end it.
OpenOn(stream, k) ==
    \E j \in 1 .. (k - 1) :
        /\ IsLastFragment(j, k)
        /\ ~HasFlag(taken[j].frame.flags, END_HEADERS)
        /\ stream = Value(taken[j].frame.stream)

Open(k) ==
    \E j \in 1 .. (k - 1) :
        IsLastFragment(j, k) /\ ~HasFlag(taken[j].frame.flags, END_HEADERS)

\* A frame is taken as a fragment exactly when the frames before it make it
\* one: it is well formed and either starts a block while none is open or
\* continues the open block on its stream.  Frames of other types pass
\* exactly when no block is open.
FragmentsExactlyLegal ==
    \A k \in DOMAIN taken :
        LET frame == taken[k].frame
        IN  /\ taken[k].outcome = "fragment" <=>
                  /\ Accepts(frame)
                  /\ \/ frame.type \in {HEADERS, PUSH_PROMISE} /\ ~Open(k)
                     \/ frame.type = CONTINUATION /\ OpenOn(Value(frame.stream), k)
            /\ taken[k].outcome = "unrelated" <=>
                  /\ frame.type \notin {HEADERS, PUSH_PROMISE, CONTINUATION}
                  /\ ~Open(k)

\* Frames j to k, written by the typed builders, are one header block.
OneBlock(j, k) ==
    /\ j <= k
    /\ sent[j].type \in {HEADERS, PUSH_PROMISE}
    /\ \A i \in j .. k :
          /\ sent[i].typed
          /\ sent[i].stream = sent[j].stream
          /\ i > j => sent[i].type = CONTINUATION
          /\ HasFlag(sent[i].flags, END_HEADERS) <=> i = k

\* A header block that the builders wrote as consecutive frames after the
\* block before it had ended is taken whole, and leaves no block open.
WholeBlocksAreTaken ==
    \A j, k \in DOMAIN taken :
        OneBlock(j, k) /\ ~Open(j) =>
            /\ \A i \in j .. k : taken[i].outcome = "fragment"
            /\ ~Open(k + 1)
            /\ k = Len(taken) => locked = Idle
=============================================================================

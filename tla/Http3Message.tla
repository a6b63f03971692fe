----------------------------- MODULE Http3Message -----------------------------
(***************************************************************************)
(* One incoming HTTP/3 message: the frame sequencing of its stream         *)
(* (src/http3/stream/message.rs) and the accounting of its content         *)
(* (src/http3/content.rs).  The two keep separate state and advance in     *)
(* separate calls: a HEADERS frame is first received by the stream, which  *)
(* stays borrowed; its section is then analyzed in a context the caller    *)
(* chooses and given to the accounting; only then is it accepted by the    *)
(* stream (content.rs asks for this order).  A frame that is refused ends  *)
(* the message.                                                            *)
(***************************************************************************)
EXTENDS Http3HeaderSection, Sequences

CONSTANTS Sections,   \* the field sections the peer sends
          MaxData,    \* bound: the longest DATA payload
          MaxFrames   \* bound: frames received on the stream

ASSUME SectionsAssumption == Sections \subseteq Section
ASSUME MaxDataAssumption == MaxData \in Nat
ASSUME MaxFramesAssumption == MaxFrames \in Nat

\* What the message is: a request, a response to an ordinary, HEAD or CONNECT
\* request, or a pushed response.
Kinds == {"Request", "Ordinary", "Head", "Connect", "Push"}

Positions == {"BeforeHeaders", "BeforeFinalResponse", "Content", "Trailers"}

Phases == {"BeforeInitial", "BeforeFinal", "Content", "NoContent",
           "NoContentTrailers", "Tunnel", "Trailers"}

\* The roles of an analyzed section, and that of one not yet analyzed.
Roles == {"Request", "InformationalResponse", "FinalResponse", "Trailers", "unread"}

\* The frames of a message stream.  CANCEL_PUSH, SETTINGS, GOAWAY, MAX_PUSH_ID and
\* the types reserved by HTTP/2 are "FORBIDDEN".
Frames == [type : {"HEADERS"}, section : Sections]
            \cup [type : {"DATA"}, length : 0 .. MaxData]
            \cup [type : {"PUSH_PROMISE"}, wellFormed : BOOLEAN]
            \cup [type : {"FORBIDDEN", "UNKNOWN"}]

\* No section is being read; otherwise "pending" holds one.
Idle == <<>>

\* What became of the message, other than an error.
Open == "open"
Complete == "complete"

VARIABLES kind,       \* Http3MessageStreamState::kind, Http3MessageContentState::kind
          position,   \* Http3MessageStreamState::position
          phase,      \* Http3MessageContentState::phase
          declared,   \* Http3MessageContentState::declared_length: empty or one length
          length,     \* Http3MessageContentState::received_length
          pending,    \* the HEADERS whose borrow of the stream is alive, and its role
          outcome,    \* Open, Complete, or the error that ended the message
          frames,     \* history: the frames received
          misread,    \* history: a section was analyzed in a context it cannot have
          ended       \* history: the stream has ended

stream == <<kind, position>>
content == <<phase, declared, length>>
vars == <<kind, position, phase, declared, length, pending, outcome, frames, misread, ended>>

-----------------------------------------------------------------------------
\* Mutant: an informational response is taken for the final one.
TransitionsHasty ==
  {<<"BeforeHeaders", "Request", "Content">>,
   <<"BeforeFinalResponse", "InformationalResponse", "Content">>,
   <<"BeforeFinalResponse", "FinalResponse", "Content">>,
   <<"Content", "Trailers", "Trailers">>}

\* From which position a section of which role takes the stream to which.  Request
\* streams start before headers and the others before a final response, so that the
\* kind adds nothing.
Transitions ==
  {<<"BeforeHeaders", "Request", "Content">>,
   <<"BeforeFinalResponse", "InformationalResponse", "BeforeFinalResponse">>,
   <<"BeforeFinalResponse", "FinalResponse", "Content">>,
   <<"Content", "Trailers", "Trailers">>}

\* Where a section of this role takes the stream; nowhere if it is refused.
NextPositions(role) == {p \in Positions : <<position, role, p>> \in Transitions}

-----------------------------------------------------------------------------
\* A final response that may not bear a Content-Length.
ProhibitsLength(status) ==
  IF kind = "Connect" THEN status \in 200 .. 299 ELSE status = 204

\* The phase a final response opens.
FinalPhase(status) ==
  IF kind = "Connect" /\ status \in 200 .. 299 THEN "Tunnel"
  ELSE IF status = 204 THEN "NoContent"
  ELSE IF kind = "Head" THEN "NoContentTrailers"
  ELSE IF kind # "Connect" /\ status \in {205, 304} THEN "NoContentTrailers"
  ELSE "Content"

LengthMatches == \A n \in declared : n = length

\* accept_initial_headers: the error, if any, of giving it a section of this role.
InitialHeadersErrors(section, role) ==
  IF phase \notin {"BeforeInitial", "BeforeFinal"} THEN {"OperationNotReady"}
  ELSE IF phase = "BeforeInitial" /\ role # "Request" THEN {"UnexpectedHeaderSection"}
  ELSE IF phase = "BeforeFinal" /\ role \notin {"InformationalResponse", "FinalResponse"}
       THEN {"UnexpectedHeaderSection"}
  ELSE IF HasContentLength(section)
          /\ \/ role = "InformationalResponse"
             \/ role = "FinalResponse" /\ ProhibitsLength(section.status)
       THEN {"ProhibitedContentLength"}
  ELSE IF ~HasValidLengths(section) THEN {"InvalidContentLength"}
  ELSE {}

\* Mutant: trailers are taken before all content has come.
TrailersErrorsLenient(section, role) ==
  IF role # "Trailers" THEN {"UnexpectedHeaderSection"}
  ELSE IF phase = "Tunnel" THEN {"NotHttpMessageContent"}
  ELSE IF phase \notin {"Content", "NoContentTrailers", "Tunnel"}
       THEN {"OperationNotReady"}
  ELSE IF HasContentLength(section) THEN {"ContentLengthInTrailers"}
  ELSE {}

\* accept_trailers: the error, if any.
TrailersErrors(section, role) ==
  IF role # "Trailers" THEN {"UnexpectedHeaderSection"}
  ELSE IF phase = "Tunnel" THEN {"NotHttpMessageContent"}
  ELSE IF phase \notin {"Content", "NoContentTrailers", "Tunnel"}
       THEN {"OperationNotReady"}
  ELSE IF HasContentLength(section) THEN {"ContentLengthInTrailers"}
  ELSE IF phase = "Content" /\ ~LengthMatches THEN {"ContentLengthMismatch"}
  ELSE {}

\* Mutant: the running total may exceed its integer.
DataErrorsUnbounded(n) ==
  IF phase = "Tunnel" THEN {"NotHttpMessageContent"}
  ELSE IF phase \in {"NoContent", "NoContentTrailers"}
       THEN IF n = 0 THEN {} ELSE {"ContentNotAllowed"}
  ELSE IF phase \in {"BeforeInitial", "BeforeFinal", "Trailers"}
       THEN {"OperationNotReady"}
  ELSE IF \E d \in declared : length + n > d THEN {"ContentLengthMismatch"}
  ELSE {}

\* receive_data: the error, if any, of a payload of n bytes.
DataErrors(n) ==
  IF phase = "Tunnel" THEN {"NotHttpMessageContent"}
  ELSE IF phase \in {"NoContent", "NoContentTrailers"}
       THEN IF n = 0 THEN {} ELSE {"ContentNotAllowed"}
  ELSE IF phase \in {"BeforeInitial", "BeforeFinal", "Trailers"}
       THEN {"OperationNotReady"}
  ELSE IF length + n > LengthLimit THEN {"ReceivedLengthOverflow"}
  ELSE IF \E d \in declared : length + n > d THEN {"ContentLengthMismatch"}
  ELSE {}

\* Mutant: content may stay short of its declared length.
ContentFinishErrorsLenient ==
  IF phase \in {"BeforeInitial", "BeforeFinal"} THEN {"IncompleteMessage"}
  ELSE {}

\* finish: the error, if any, of ending the message now.
ContentFinishErrors ==
  IF phase \in {"BeforeInitial", "BeforeFinal"} THEN {"IncompleteMessage"}
  ELSE IF phase = "Content" /\ ~LengthMatches THEN {"ContentLengthMismatch"}
  ELSE {}

\* error_code: the failures the accounting does not attribute to the peer.
LocalErrors == {"UnexpectedHeaderSection", "OperationNotReady", "NotHttpMessageContent"}

-----------------------------------------------------------------------------
Init ==
  /\ kind \in Kinds
  /\ position = IF kind = "Request" THEN "BeforeHeaders" ELSE "BeforeFinalResponse"
  /\ phase = IF kind = "Request" THEN "BeforeInitial" ELSE "BeforeFinal"
  /\ declared = {}
  /\ length = 0
  /\ pending = Idle
  /\ outcome = Open
  /\ frames = <<>>
  /\ misread = FALSE
  /\ ended = FALSE

\* The peer's next frame reaches a stream that no section holds borrowed.
Receives(frame) ==
  /\ outcome = Open /\ pending = Idle
  /\ Len(frames) < MaxFrames
  /\ frames' = Append(frames, frame)

\* A call fails with one of "errors", or none of them and the message stays open.
Concludes(errors) ==
  IF errors = {} THEN UNCHANGED outcome ELSE outcome' \in errors

\* Http3MessageStreamState::receive of a HEADERS frame.
ReceiveHeaders ==
  \E section \in Sections :
    /\ Receives([type |-> "HEADERS", section |-> section])
    /\ IF position = "Trailers"
       THEN outcome' = "UnexpectedFrame" /\ UNCHANGED pending
       ELSE pending' = <<[section |-> section, role |-> "unread"]>> /\ UNCHANGED outcome
    /\ UNCHANGED <<stream, content, misread, ended>>

\* The context that the position calls for.
IntendedContext ==
  IF position = "BeforeHeaders" THEN "Request"
  ELSE IF position = "BeforeFinalResponse" THEN "Response"
  ELSE "Trailers"

\* The phase after a section that is accounted for.
PhaseAfter(section, role) ==
  IF role = "Trailers" THEN "Trailers"
  ELSE IF role = "FinalResponse" THEN FinalPhase(section.status)
  ELSE IF role = "InformationalResponse" THEN phase
  ELSE IF section.form = "connect" THEN "Tunnel" ELSE "Content"

\* The accounting of an analyzed section; what it changes is changed at once.
AccountSection(section, role, context) ==
  LET errors == IF context = "Trailers" THEN TrailersErrors(section, role)
                                        ELSE InitialHeadersErrors(section, role)
  IN  \/ /\ errors # {} /\ outcome' \in errors
         /\ pending' = Idle
         /\ UNCHANGED <<phase, declared>>
      \/ /\ errors = {} /\ UNCHANGED outcome
         /\ pending' = <<[section |-> section, role |-> role]>>
         /\ phase' = PhaseAfter(section, role)
         /\ declared' = IF role \in {"Request", "FinalResponse"}
                        THEN section.lengths ELSE declared

\* The caller analyzes the pending section in some context and accounts for it.
ReadSection ==
  /\ pending # Idle /\ pending[1].role = "unread"
  /\ \E context \in Contexts :
       LET section == pending[1].section
           role == Analyzed(section, context)
       IN  /\ misread' = (misread \/ context # IntendedContext)
           /\ \/ /\ role = "Invalid" /\ outcome' = "InvalidFieldSection"
                 /\ pending' = Idle
                 /\ UNCHANGED <<phase, declared>>
              \/ role # "Invalid" /\ AccountSection(section, role, context)
  /\ UNCHANGED <<stream, length, frames, ended>>

\* Http3PendingHeaders::accept.
AcceptHeaders ==
  /\ pending # Idle /\ pending[1].role # "unread"
  /\ \/ position' \in NextPositions(pending[1].role) /\ UNCHANGED outcome
     \/ /\ NextPositions(pending[1].role) = {}
        /\ outcome' = "InvalidHeaderSection" /\ UNCHANGED position
  /\ pending' = Idle
  /\ UNCHANGED <<kind, content, frames, misread, ended>>

\* receive of a DATA frame, and its accounting.  The bytes of a tunnel, announced to
\* the caller by the disposition of its headers, are not accounted for.
ReceiveData ==
  \E n \in 0 .. MaxData :
    /\ Receives([type |-> "DATA", length |-> n])
    /\ \/ /\ position # "Content" /\ outcome' = "UnexpectedFrame"
          /\ UNCHANGED length
       \/ /\ position = "Content" /\ phase = "Tunnel"
          /\ UNCHANGED <<outcome, length>>
       \/ /\ position = "Content" /\ phase # "Tunnel"
          /\ Concludes(DataErrors(n))
          /\ length' = IF DataErrors(n) = {} THEN length + n ELSE length
    /\ UNCHANGED <<stream, phase, declared, pending, misread, ended>>

\* receive: the error, if any, of a frame that bears neither headers nor data.
OtherErrors(frame) ==
  IF \/ frame.type = "FORBIDDEN"
     \/ frame.type = "PUSH_PROMISE" /\ kind \in {"Request", "Push"}
  THEN {"UnexpectedFrame"}
  ELSE IF frame.type = "PUSH_PROMISE" /\ ~frame.wellFormed THEN {"FramePayload"}
  ELSE {}

\* receive of the frames that leave the message where it is, or end it.
ReceiveOther ==
  \E frame \in Frames :
    /\ frame.type \notin {"HEADERS", "DATA"}
    /\ Receives(frame)
    /\ Concludes(OtherErrors(frame))
    /\ UNCHANGED <<stream, content, pending, misread, ended>>

\* The stream ends: finish of the stream, then of the accounting.
EndStream ==
  /\ outcome = Open /\ pending = Idle
  /\ ended' = TRUE
  /\ outcome' \in IF position \in {"BeforeHeaders", "BeforeFinalResponse"}
                  THEN {"IncompleteMessage"}
                  ELSE IF ContentFinishErrors = {} THEN {Complete} ELSE ContentFinishErrors
  /\ UNCHANGED <<stream, content, pending, frames, misread>>

Next == ReceiveHeaders \/ ReadSection \/ AcceptHeaders \/ ReceiveData \/ ReceiveOther
          \/ EndStream

Spec == Init /\ [][Next]_vars

-----------------------------------------------------------------------------
(***************************************************************************)
(* What a legal message is, said of the whole sequence of frames.          *)
(***************************************************************************)
Headers(m) == {i \in DOMAIN m : m[i].type = "HEADERS"}

\* The index of the request's headers or of the final response: the first HEADERS
\* that is not an informational response.
Heads(m) == {i \in Headers(m) :
               /\ ~IsInformational(m[i].section)
               /\ \A j \in Headers(m) : j < i => IsInformational(m[j].section)}

\* The number of DATA bytes before index i.
BytesBefore(m, i) ==
  LET sum[j \in 0 .. Len(m)] ==
        IF j = 0 THEN 0
        ELSE sum[j - 1] + (IF j < i /\ m[j].type = "DATA" THEN m[j].length ELSE 0)
  IN  sum[Len(m)]

IsTunnel(section) ==
  section.form = "connect" \/ (kind = "Connect" /\ section.status \in 200 .. 299)

\* RFC 9110: responses that have no content whatever their header fields say.
IsBodiless(section) ==
  /\ ~IsTunnel(section)
  /\ \/ section.status = 204
     \/ kind = "Head"
     \/ kind # "Connect" /\ section.status \in {205, 304}

\* May the header section at the head of the message be what it is?
LegalHead(section) ==
  /\ IF kind = "Request" THEN IsRequest(section) ELSE IsFinal(section)
  /\ HasValidLengths(section)
  /\ HasContentLength(section) =>
       /\ section.status # 204
       /\ kind = "Request" \/ ~IsTunnel(section)

\* May the section at index i, behind the head h, be the trailers?
LegalTrailers(m, h, i) ==
  LET head == m[h].section
  IN  /\ m[i].section.form = "regular" /\ ~HasContentLength(m[i].section)
      /\ ~IsTunnel(head) /\ head.status # 204
      /\ \A j \in Headers(m) : j <= h \/ j = i
      /\ ~IsBodiless(head) => \A d \in head.lengths : BytesBefore(m, i) = d

\* No more content than allowed has come with the head h.
LegalContent(m, h) ==
  LET head == m[h].section
      total == BytesBefore(m, Len(m) + 1)
  IN  \/ IsTunnel(head)
      \/ IsBodiless(head) /\ total = 0
      \/ /\ ~IsBodiless(head) /\ total <= LengthLimit
         /\ \A d \in head.lengths : total <= d

\* The frames so far can be the beginning of a message.
Legal(m) ==
  /\ \A i \in DOMAIN m :
       /\ m[i].type # "FORBIDDEN"
       /\ m[i].type = "PUSH_PROMISE" =>
            m[i].wellFormed /\ kind \in {"Ordinary", "Head", "Connect"}
       /\ m[i].type = "DATA" =>
            \E h \in Heads(m) : h < i /\ \A j \in Headers(m) : j < i => j <= h
  /\ \A i \in Headers(m) : (\A h \in Heads(m) : i < h) =>
       kind # "Request" /\ ~HasContentLength(m[i].section)
  /\ \A h \in Heads(m) :
       /\ LegalHead(m[h].section)
       /\ LegalContent(m, h)
       /\ \A i \in Headers(m) : i > h => LegalTrailers(m, h, i)

\* The frames are a whole message.
Whole(m) ==
  /\ Legal(m)
  /\ \E h \in Heads(m) :
       LET head == m[h].section
       IN  IsTunnel(head) \/ IsBodiless(head)
             \/ \A d \in head.lengths : BytesBefore(m, Len(m) + 1) = d

-----------------------------------------------------------------------------
\* Types; a declared length is one number that fits, and content never exceeds it.
TypeOK ==
  /\ kind \in Kinds /\ position \in Positions /\ phase \in Phases
  /\ declared \subseteq 0 .. LengthLimit /\ (\A m, n \in declared : m = n)
  /\ length \in 0 .. LengthLimit
  /\ phase = "Content" => \A d \in declared : length <= d
  /\ phase \in {"BeforeInitial", "BeforeFinal"} => declared = {} /\ length = 0
  /\ pending \in {Idle} \cup {<<p>> : p \in [section : Sections, role : Roles]}
  /\ frames \in Seq(Frames) /\ misread \in BOOLEAN /\ ended \in BOOLEAN

\* The frames received before the section being read.
Settled == IF pending = Idle THEN frames ELSE SubSeq(frames, 1, Len(frames) - 1)

\* receive, accept_initial_headers, accept_trailers and receive_data together admit
\* nothing that cannot begin a message, in whatever context a caller reads a section, and
\* refuse no message that is legal if the caller reads each section as what its position
\* says: the stream's rules are not stricter than the accounting's, nor the accounting's
\* than the message's.
AcceptedExactlyLegal ==
  /\ outcome \in {Open, Complete} => Legal(Settled)
  /\ (outcome # Open /\ ~ended /\ ~misread) => ~Legal(frames)

\* finish of the stream and of the accounting together accept the whole messages and
\* no other: a response whose length is declared and whose content is absent by its
\* status or method is whole, one cut short of its length is not.
WholeIsComplete == ended => (outcome = Complete <=> Whole(frames))

\* The position p of the stream and the phase of the accounting are those of one place
\* in the message.
Matches(p) ==
  \/ p = "BeforeHeaders" /\ phase = "BeforeInitial"
  \/ p = "BeforeFinalResponse" /\ phase = "BeforeFinal"
  \/ p = "Content" /\ phase \in {"Content", "NoContent", "NoContentTrailers", "Tunnel"}
  \/ p = "Trailers" /\ phase = "Trailers"

\* The stream and the accounting never part, although each is advanced by a call of
\* its own: they are at the same place, or the accounting is ahead by a section that
\* the stream will not refuse (accept is then certain to succeed).
InStep ==
  IF pending # Idle /\ pending[1].role # "unread"
  THEN \E p \in NextPositions(pending[1].role) : Matches(p)
  ELSE Matches(position)

\* src/http3/content.rs:140: error_code is a peer error code "when this failure is
\* peer-caused".  Outside a tunnel, a caller that makes the calls in the documented
\* order and reads each section as its position says causes no failure itself.
PeerFailuresHaveCodes ==
  outcome \in LocalErrors => misread \/ phase = "Tunnel"
=============================================================================

-------------------------- MODULE Http3Message_proofs --------------------------
(***************************************************************************)
(* What holds of Http3Message for every set of sections, every limit and   *)
(* every message length: its type invariant, that the message stream and   *)
(* the content accounting stay in step, and that together they accept      *)
(* exactly the legal messages and complete exactly the whole ones.         *)
(***************************************************************************)
EXTENDS Http3Message, TLAPS, WellFoundedInduction

\* Analyzing a section never yields a role outside the five.
LEMMA AnalyzedRole ==
  ASSUME NEW section, NEW context
  PROVE  Analyzed(section, context) \in (Roles \ {"unread"}) \cup {"Invalid"}
  BY DEF Analyzed, Roles

\* The phase a final response opens is one of those in which content may come.
LEMMA FinalPhaseOpens ==
  ASSUME NEW status
  PROVE  FinalPhase(status) \in {"Content", "NoContent", "NoContentTrailers", "Tunnel"}
  BY DEF FinalPhase

\* A payload that is accounted for leaves the total in range and within the length.
LEMMA DataAccounted ==
  ASSUME TypeOK, NEW n \in 0 .. MaxData, DataErrors(n) = {}
  PROVE  \/ n = 0
         \/ /\ length + n \in 0 .. LengthLimit
            /\ \A d \in declared : length + n <= d
  <1>1. length \in Nat /\ n \in Nat /\ declared \subseteq Nat /\ LengthLimit \in Nat
    BY LengthLimitAssumption, MaxDataAssumption DEF TypeOK
  <1>2. CASE phase = "Content"
    <2>1. ~ (length + n > LengthLimit) /\ ~ (\E d \in declared : length + n > d)
      BY <1>2 DEF DataErrors
    <2> QED BY <1>1, <2>1
  <1>3. CASE phase # "Content"
    BY <1>3 DEF DataErrors, TypeOK, Phases
  <1> QED BY <1>2, <1>3

-----------------------------------------------------------------------------
LEMMA InitType == Init => TypeOK
  <1> SUFFICES ASSUME Init PROVE TypeOK
    OBVIOUS
  <1>1. frames \in Seq(Frames)
    BY DEF Init
  <1>2. phase \in Phases /\ position \in Positions
    BY DEF Init, Phases, Positions
  <1>3. declared = {} /\ length = 0 /\ length \in 0 .. LengthLimit
    BY LengthLimitAssumption DEF Init
  <1>4. pending \in {Idle}
    BY DEF Init
  <1>5. kind \in Kinds /\ misread \in BOOLEAN /\ ended \in BOOLEAN
    BY DEF Init
  <1> QED BY <1>1, <1>2, <1>3, <1>4, <1>5 DEF TypeOK

\* Receiving appends one frame.
LEMMA ReceivesType ==
  ASSUME TypeOK, NEW frame \in Frames, Receives(frame)
  PROVE  frames' \in Seq(Frames)
  BY DEF TypeOK, Receives

LEMMA ReceiveHeadersType == TypeOK /\ ReceiveHeaders => TypeOK'
  <1> SUFFICES ASSUME TypeOK, NEW section \in Sections,
                      Receives([type |-> "HEADERS", section |-> section]),
                      IF position = "Trailers"
                      THEN outcome' = "UnexpectedFrame" /\ UNCHANGED pending
                      ELSE /\ pending' = <<[section |-> section, role |-> "unread"]>>
                           /\ UNCHANGED outcome,
                      UNCHANGED <<stream, content, misread, ended>>
               PROVE  TypeOK'
    BY DEF ReceiveHeaders
  <1>1. [type |-> "HEADERS", section |-> section] \in Frames
    BY DEF Frames
  <1>2. frames' \in Seq(Frames)
    BY <1>1, ReceivesType
  <1>3. pending' \in {Idle} \cup {<<p>> : p \in [section : Sections, role : Roles]}
    <2>1. [section |-> section, role |-> "unread"] \in [section : Sections, role : Roles]
      BY DEF Roles
    <2> QED BY <2>1 DEF TypeOK
  <1> QED BY <1>2, <1>3 DEF TypeOK, stream, content

LEMMA ReadSectionType == TypeOK /\ ReadSection => TypeOK'
  <1> SUFFICES ASSUME TypeOK, ReadSection PROVE TypeOK'
    OBVIOUS
  <1>1. PICK context \in Contexts :
          LET section == pending[1].section
              role == Analyzed(section, context)
          IN  /\ misread' = (misread \/ context # IntendedContext)
              /\ \/ /\ role = "Invalid" /\ outcome' = "InvalidFieldSection"
                    /\ pending' = Idle
                    /\ UNCHANGED <<phase, declared>>
                 \/ role # "Invalid" /\ AccountSection(section, role, context)
    BY DEF ReadSection
  <1>2. pending # Idle /\ pending[1].section \in Sections
    BY DEF ReadSection, TypeOK
  <1>3. UNCHANGED <<kind, position, length, frames, ended>> /\ misread' \in BOOLEAN
    BY <1>1 DEF ReadSection, stream, TypeOK
  <1>4. CASE Analyzed(pending[1].section, context) = "Invalid"
    BY <1>1, <1>3, <1>4 DEF TypeOK
  <1>5. CASE Analyzed(pending[1].section, context) # "Invalid"
    <2> DEFINE section == pending[1].section
               role == Analyzed(section, context)
               errors == IF context = "Trailers" THEN TrailersErrors(section, role)
                                                 ELSE InitialHeadersErrors(section, role)
    <2>1. AccountSection(section, role, context)
      BY <1>1, <1>5
    <2>2. role \in Roles \ {"unread"}
      BY <1>5, AnalyzedRole
    <2>3. pending' \in {Idle} \cup {<<p>> : p \in [section : Sections, role : Roles]}
      <3>1. [section |-> section, role |-> role] \in [section : Sections, role : Roles]
        BY <1>2, <2>2
      <3>2. pending' \in {Idle, <<[section |-> section, role |-> role]>>}
        BY <2>1 DEF AccountSection
      <3> QED BY <3>1, <3>2
    <2>4. CASE errors # {} \/ role = "InformationalResponse"
      <3>1. UNCHANGED <<phase, declared>>
        BY <2>1, <2>4 DEF AccountSection, PhaseAfter
      <3> QED BY <1>3, <2>3, <3>1 DEF TypeOK
    <2>5. CASE errors = {} /\ role = "Trailers"
      <3>1. phase' = "Trailers" /\ declared' = declared
        BY <2>1, <2>5 DEF AccountSection, PhaseAfter
      <3> QED BY <1>3, <2>3, <3>1 DEF TypeOK, Phases
    <2>6. CASE errors = {} /\ role \in {"Request", "FinalResponse"}
      <3>1. /\ phase' \in {"Content", "NoContent", "NoContentTrailers", "Tunnel"}
            /\ declared' = section.lengths
        BY <2>1, <2>6, FinalPhaseOpens DEF AccountSection, PhaseAfter
      <3>2. InitialHeadersErrors(section, role) = {}
        BY <2>6 DEF TrailersErrors
      <3>3. phase \in {"BeforeInitial", "BeforeFinal"}
        BY <3>2 DEF InitialHeadersErrors
      <3>4. HasValidLengths(section)
        BY <2>6, <3>2, <3>3 DEF InitialHeadersErrors
      <3>5. length = 0
        BY <3>3 DEF TypeOK
      <3>6. /\ declared' \subseteq 0 .. LengthLimit
            /\ \A m, n \in declared' : m = n
        BY <3>1, <3>4 DEF HasValidLengths
      <3>7. \A d \in declared' : length <= d
        BY <3>5, <3>6
      <3> QED BY <1>3, <2>3, <3>1, <3>6, <3>7 DEF TypeOK, Phases
    <2> QED BY <2>2, <2>4, <2>5, <2>6 DEF Roles
  <1> QED BY <1>4, <1>5

LEMMA AcceptHeadersType == TypeOK /\ AcceptHeaders => TypeOK'
  <1> SUFFICES ASSUME TypeOK, AcceptHeaders PROVE TypeOK'
    OBVIOUS
  <1>1. position' \in Positions
    BY DEF AcceptHeaders, NextPositions, TypeOK
  <1> QED BY <1>1 DEF AcceptHeaders, TypeOK, content

LEMMA ReceiveDataType == TypeOK /\ ReceiveData => TypeOK'
  <1> SUFFICES ASSUME TypeOK, ReceiveData PROVE TypeOK'
    OBVIOUS
  <1>1. PICK n \in 0 .. MaxData :
          /\ Receives([type |-> "DATA", length |-> n])
          /\ \/ length' = length
             \/ length' = length + n /\ DataErrors(n) = {}
    BY DEF ReceiveData
  <1>2. UNCHANGED <<kind, position, phase, declared, pending, misread, ended>>
    BY DEF ReceiveData, stream
  <1>3. [type |-> "DATA", length |-> n] \in Frames
    BY DEF Frames
  <1>4. frames' \in Seq(Frames)
    BY <1>1, <1>3, ReceivesType
  <1>5. CASE length' = length
    BY <1>2, <1>4, <1>5 DEF TypeOK
  <1>6. CASE length' = length + n /\ DataErrors(n) = {} /\ n # 0
    <2>1. /\ length' \in 0 .. LengthLimit
          /\ \A d \in declared : length' <= d
      BY <1>6, DataAccounted
    <2>2. phase \notin {"BeforeInitial", "BeforeFinal"}
      BY <1>6 DEF DataErrors
    <2> QED BY <1>2, <1>4, <2>1, <2>2 DEF TypeOK
  <1>7. length' = length + n /\ n = 0 => length' = length
    BY DEF TypeOK
  <1> QED BY <1>1, <1>5, <1>6, <1>7

LEMMA ReceiveOtherType == TypeOK /\ ReceiveOther => TypeOK'
  <1> SUFFICES ASSUME TypeOK, NEW frame \in Frames, Receives(frame),
                      UNCHANGED <<stream, content, pending, misread, ended>>
               PROVE  TypeOK'
    BY DEF ReceiveOther
  <1>1. frames' \in Seq(Frames)
    BY ReceivesType
  <1> QED BY <1>1 DEF TypeOK, stream, content

LEMMA EndStreamType == TypeOK /\ EndStream => TypeOK'
  BY DEF EndStream, TypeOK, stream, content

LEMMA NextType == TypeOK /\ [Next]_vars => TypeOK'
  <1> SUFFICES ASSUME TypeOK, [Next]_vars PROVE TypeOK'
    OBVIOUS
  <1>1. CASE UNCHANGED vars
    BY <1>1 DEF TypeOK, vars
  <1> QED
    BY <1>1, ReceiveHeadersType, ReadSectionType, AcceptHeadersType, ReceiveDataType,
       ReceiveOtherType, EndStreamType DEF Next

\* Every variable keeps its type: a declared length is one number in range, the
\* running total fits its integer and never exceeds the declared length while content
\* is accounted for.
THEOREM MessageTypeCorrect == Spec => []TypeOK
  BY InitType, NextType, PTL DEF Spec

-----------------------------------------------------------------------------
\* A section that the accounting takes leads the stream to where the accounting is.
LEMMA AccountingLeadsStream ==
  ASSUME Matches(position), NEW section, NEW context \in Contexts,
         NEW role \in Roles \ {"unread"},
         AccountSection(section, role, context), pending' # Idle
  PROVE  \E p \in NextPositions(role) : Matches(p)'
  <1> DEFINE errors == IF context = "Trailers" THEN TrailersErrors(section, role)
                                               ELSE InitialHeadersErrors(section, role)
  <1>1. errors = {} /\ phase' = PhaseAfter(section, role)
    BY DEF AccountSection
  <1> HIDE DEF errors
  <1>2. CASE errors = TrailersErrors(section, role)
    <2>1. role = "Trailers" /\ phase \in {"Content", "NoContentTrailers"}
      BY <1>1, <1>2 DEF TrailersErrors
    <2>2. phase' = "Trailers" /\ position = "Content"
      BY <1>1, <2>1 DEF PhaseAfter, Matches
    <2>3. "Trailers" \in NextPositions(role)
      BY <2>1, <2>2 DEF NextPositions, Positions, Transitions
    <2> QED BY <2>2, <2>3 DEF Matches
  <1>3. CASE errors = InitialHeadersErrors(section, role)
    <2>1. phase \in {"BeforeInitial", "BeforeFinal"}
      BY <1>1, <1>3 DEF InitialHeadersErrors
    <2>2. CASE phase = "BeforeInitial"
      <3>1. role = "Request"
        BY <1>1, <1>3, <2>2 DEF InitialHeadersErrors
      <3>2. phase' \in {"Content", "Tunnel"} /\ position = "BeforeHeaders"
        BY <1>1, <2>2, <3>1 DEF PhaseAfter, Matches
      <3>3. "Content" \in NextPositions(role)
        BY <3>1, <3>2 DEF NextPositions, Positions, Transitions
      <3> QED BY <3>2, <3>3 DEF Matches
    <2>3. CASE phase = "BeforeFinal" /\ role = "InformationalResponse"
      <3>1. phase' = "BeforeFinal" /\ position = "BeforeFinalResponse"
        BY <1>1, <2>3 DEF PhaseAfter, Matches
      <3>2. "BeforeFinalResponse" \in NextPositions(role)
        BY <2>3, <3>1 DEF NextPositions, Positions, Transitions
      <3> QED BY <3>1, <3>2 DEF Matches
    <2>4. CASE phase = "BeforeFinal" /\ role = "FinalResponse"
      <3>1. phase' \in {"Content", "NoContent", "NoContentTrailers", "Tunnel"}
        BY <1>1, <2>4, FinalPhaseOpens DEF PhaseAfter
      <3>2. position = "BeforeFinalResponse"
        BY <2>4 DEF Matches
      <3>3. "Content" \in NextPositions(role)
        BY <2>4, <3>2 DEF NextPositions, Positions, Transitions
      <3> QED BY <3>1, <3>3 DEF Matches
    <2>5. phase = "BeforeFinal" => role \in {"InformationalResponse", "FinalResponse"}
      BY <1>1, <1>3 DEF InitialHeadersErrors
    <2> QED BY <2>1, <2>2, <2>3, <2>4, <2>5
  <1> QED BY <1>2, <1>3 DEF errors

\* While no accounted section waits for the stream, InStep says that both are at one
\* place, and it is kept by a step that changes neither.
LEMMA UnmovedInStep ==
  ASSUME InStep, UNCHANGED <<position, phase>>,
         pending = Idle \/ pending[1].role = "unread",
         pending' = Idle \/ pending'[1].role = "unread"
  PROVE  InStep'
  BY DEF InStep, Matches

LEMMA InitInStep == Init => InStep
  BY DEF Init, InStep, Matches, Idle

LEMMA NextInStep == TypeOK /\ InStep /\ [Next]_vars => InStep'
  <1> SUFFICES ASSUME TypeOK, InStep, [Next]_vars PROVE InStep'
    OBVIOUS
  <1>1. CASE ReceiveHeaders
    <2>1. pending = Idle /\ UNCHANGED <<position, phase>>
      BY <1>1 DEF ReceiveHeaders, Receives, stream, content
    <2>2. pending' = Idle \/ pending'[1].role = "unread"
      BY <1>1, <2>1 DEF ReceiveHeaders
    <2> QED BY <2>1, <2>2, UnmovedInStep
  <1>2. CASE ReadSection
    <2>1. PICK context \in Contexts :
            LET section == pending[1].section
                role == Analyzed(section, context)
            IN  \/ role = "Invalid" /\ pending' = Idle /\ UNCHANGED <<phase, declared>>
                \/ role # "Invalid" /\ AccountSection(section, role, context)
      BY <1>2 DEF ReadSection
    <2>2. position' = position /\ pending[1].role = "unread" /\ Matches(position)
      BY <1>2 DEF ReadSection, stream, InStep
    <2>3. CASE pending' = Idle
      <3>1. phase' = phase
        BY <2>1, <2>3 DEF AccountSection, Idle
      <3> QED BY <2>2, <2>3, <3>1, UnmovedInStep
    <2>4. CASE pending' # Idle
      <3> DEFINE section == pending[1].section
                 role == Analyzed(section, context)
      <3>1. role # "Invalid" /\ AccountSection(section, role, context)
        BY <2>1, <2>4
      <3>2. role \in Roles \ {"unread"}
        BY <3>1, AnalyzedRole
      <3>3. pending'[1].role = role
        BY <2>4, <3>1 DEF AccountSection
      <3>4. \E p \in NextPositions(role) : Matches(p)'
        BY <2>2, <2>4, <3>1, <3>2, AccountingLeadsStream
      <3>5. PICK p \in NextPositions(role) : Matches(p)'
        BY <3>4
      <3>6. p \in NextPositions(pending[1].role)'
        BY <2>2, <3>3 DEF NextPositions
      <3>7. (pending[1].role)' # "unread"
        BY <3>2, <3>3
      <3>8. (\E q \in NextPositions(pending[1].role) : Matches(q))'
        BY <3>5, <3>6 DEF Matches
      <3> HIDE DEF role, section
      <3> QED BY <2>4, <3>7, <3>8 DEF InStep
    <2> QED BY <2>3, <2>4
  <1>3. CASE AcceptHeaders
    <2>1. PICK p \in NextPositions(pending[1].role) : Matches(p)
      BY <1>3 DEF AcceptHeaders, InStep
    <2>2. \A q \in NextPositions(pending[1].role) : q = p
      BY DEF NextPositions, Transitions
    <2>3. position' = p /\ pending' = Idle /\ phase' = phase
      BY <1>3, <2>1, <2>2 DEF AcceptHeaders, content
    <2> QED BY <2>1, <2>3 DEF InStep, Matches
  <1>4. CASE ReceiveData \/ ReceiveOther \/ EndStream
    <2>1. pending = Idle /\ UNCHANGED <<position, phase, pending>>
      BY <1>4 DEF ReceiveData, ReceiveOther, EndStream, Receives, stream, content
    <2> QED BY <2>1, UnmovedInStep
  <1>5. CASE UNCHANGED vars
    BY <1>5 DEF InStep, Matches, NextPositions, vars
  <1> QED BY <1>1, <1>2, <1>3, <1>4, <1>5 DEF Next

\* The message stream and the content accounting never part: whatever frames come, in
\* whatever context sections are read, a section the accounting took is accepted by the
\* stream, and both are then at the same place in the message.
THEOREM StreamAndContentInStep == Spec => []InStep
  BY InitInStep, NextInStep, MessageTypeCorrect, PTL DEF Spec

-----------------------------------------------------------------------------
(***************************************************************************)
(* Exactly the legal messages.  The stream and the accounting keep a       *)
(* position, a phase and two numbers of all the frames that have come;     *)
(* PlacedAt says what these are a summary of.                              *)
(***************************************************************************)

\* The bytes of content in all the frames.
Total(m) == BytesBefore(m, Len(m) + 1)

\* Before index h there are only informational responses without a length, and none of
\* them in a request, and no content.
ClearBefore(m, h) ==
  \A i \in DOMAIN m : i < h =>
    /\ m[i].type # "DATA"
    /\ m[i].type = "HEADERS" =>
         /\ kind # "Request"
         /\ IsInformational(m[i].section) /\ ~HasContentLength(m[i].section)

\* The head is at index h, and legal.
HeadAt(m, h) ==
  /\ h \in DOMAIN m /\ m[h].type = "HEADERS"
  /\ ~IsInformational(m[h].section) /\ LegalHead(m[h].section)
  /\ ClearBefore(m, h)

\* The phase that a head opens.
HeadPhase(head) ==
  IF kind # "Request" THEN FinalPhase(head.status)
  ELSE IF head.form = "connect" THEN "Tunnel" ELSE "Content"

\* The content that has come is allowed by the head, and is what has been counted.
Counted(m, head, received) ==
  \/ IsTunnel(head)
  \/ IsBodiless(head) /\ Total(m) = 0
  \/ /\ ~IsBodiless(head) /\ Total(m) = received /\ received <= LengthLimit
     /\ \A d \in head.lengths : received <= d

\* The frames m so far lead to this phase, declared and received length.
NoHeadYet(m, p) ==
  /\ p = IF kind = "Request" THEN "BeforeInitial" ELSE "BeforeFinal"
  /\ ClearBefore(m, Len(m) + 1) /\ Total(m) = 0

HeadedAt(m, h, p, lengths, received) ==
  /\ HeadAt(m, h) /\ p = HeadPhase(m[h].section) /\ lengths = m[h].section.lengths
  /\ \A i \in DOMAIN m : i > h => m[i].type # "HEADERS"
  /\ Counted(m, m[h].section, received)

TrailedAt(m, h, t, p) ==
  /\ p = "Trailers"
  /\ HeadAt(m, h) /\ t \in DOMAIN m /\ h < t /\ m[t].type = "HEADERS"
  /\ LegalTrailers(m, h, t)
  /\ \A i \in DOMAIN m : i > t => m[i].type # "DATA"
  /\ LegalContent(m, h) /\ BytesBefore(m, t) = Total(m)

PlacedAt(m, p, lengths, received) ==
  /\ \A i \in DOMAIN m : OtherErrors(m[i]) = {}
  /\ \/ NoHeadYet(m, p)
     \/ \E h \in DOMAIN m : HeadedAt(m, h, p, lengths, received)
     \/ \E h, t \in DOMAIN m : TrailedAt(m, h, t, p)

\* The frames accounted for.
Accounted ==
  IF pending # Idle /\ pending[1].role = "unread"
  THEN SubSeq(frames, 1, Len(frames) - 1) ELSE frames

\* What is kept is the place of the frames accounted for, until the message has ended.
Tracked ==
  /\ outcome = Open => PlacedAt(Accounted, phase, declared, length)
  /\ outcome # Open => pending = Idle
  /\ ended => outcome # Open
  /\ pending # Idle =>
       /\ frames # << >>
       /\ frames[Len(frames)] = [type |-> "HEADERS", section |-> pending[1].section]
  /\ AcceptedExactlyLegal
  /\ WholeIsComplete

\* The inductive invariant.
Inv == TypeOK /\ InStep /\ Tracked

\* Among numbers with a property there is a least.
LEMMA LeastNumber ==
  ASSUME NEW S \in SUBSET Nat, S # {}
  PROVE  \E n \in S : \A m \in S : ~ (m < n)
  <1>1. PICK n \in S : \A m \in S : ~ (<<m, n>> \in OpToRel(<, Nat))
    BY NatLessThanWellFounded, WFMin
  <1>2. ASSUME NEW m \in S PROVE ~ (m < n)
    <2>1. m \in Nat /\ n \in Nat
      OBVIOUS
    <2>2. <<m, n>> \in OpToRel(<, Nat) <=> m < n
      BY <2>1 DEF OpToRel
    <2> QED BY <1>1, <2>2
  <1> QED BY <1>2

\* What holds at 0 and is passed on holds at every number up to n.
LEMMA UpTo ==
  ASSUME NEW n \in Nat, NEW Bad, Bad \subseteq 0 .. n, 0 \notin Bad,
         \A i \in 1 .. n : i \in Bad => i - 1 \in Bad
  PROVE  Bad = {}
  <1>1. SUFFICES ASSUME Bad # {} PROVE FALSE
    OBVIOUS
  <1>2. Bad \in SUBSET Nat
    OBVIOUS
  <1>3. PICK i \in Bad : \A m \in Bad : ~ (m < i)
    BY <1>1, <1>2, LeastNumber
  <1>4. i \in 1 .. n /\ i - 1 < i
    BY <1>3
  <1> QED BY <1>3, <1>4

-----------------------------------------------------------------------------
(***************************************************************************)
(* BytesBefore is a sum.                                                   *)
(***************************************************************************)
\* What the j-th frame adds to the bytes before index i.
Weight(m, i, j) == IF j < i /\ m[j].type = "DATA" THEN m[j].length ELSE 0

Summed(f, m, i, j) == IF j = 0 THEN 0 ELSE f[j - 1] + Weight(m, i, j)

Sums(f, m, i, n) == f = [j \in 0 .. n |-> Summed(f, m, i, j)]

LEMMA SumExists ==
  ASSUME NEW m, NEW i, NEW n \in Nat
  PROVE  \E f : Sums(f, m, i, n)
  <1> DEFINE without == {k \in 0 .. n : ~ \E f : Sums(f, m, i, k)}
  <1>1. 0 \notin without
    <2>1. Sums([j \in 0 .. 0 |-> 0], m, i, 0)
      BY DEF Sums, Summed
    <2> QED BY <2>1
  <1>2. ASSUME NEW k \in 1 .. n, k \in without PROVE k - 1 \in without
    <2>1. SUFFICES ASSUME NEW g, Sums(g, m, i, k - 1) PROVE FALSE
      <3>1. k - 1 \in 0 .. n
        OBVIOUS
      <3> QED BY <2>1, <3>1, Zenon
    <2> DEFINE f == [j \in 0 .. k |-> IF j = k THEN Summed(g, m, i, k) ELSE g[j]]
    <2>2. ASSUME NEW j \in 0 .. k PROVE f[j] = Summed(f, m, i, j)
      <3>1. j # 0 => f[j - 1] = g[j - 1]
        OBVIOUS
      <3>2. Summed(f, m, i, j) = Summed(g, m, i, j)
        <4> HIDE DEF f
        <4> QED BY <3>1 DEF Summed
      <3>3. CASE j = k
        BY <3>2, <3>3
      <3>4. CASE j # k
        <4>1. j \in 0 .. (k - 1)
          BY <3>4
        <4>2. g[j] = Summed(g, m, i, j)
          BY <2>1, <4>1 DEF Sums
        <4> QED BY <3>2, <3>4, <4>2
      <3> QED BY <3>3, <3>4
    <2>3. Sums(f, m, i, k)
      BY <2>2 DEF Sums
    <2>4. ~ \E h : Sums(h, m, i, k)
      BY <1>2
    <2> HIDE DEF f
    <2> QED BY <2>3, <2>4
  <1>3. without = {}
    <2>1. without \subseteq 0 .. n
      OBVIOUS
    <2> HIDE DEF without
    <2> QED BY <1>1, <1>2, <2>1, UpTo
  <1>4. n \in 0 .. n /\ n \notin without
    <2> HIDE DEF without
    <2> QED BY <1>3
  <1> QED BY <1>4

LEMMA BytesAreSummed ==
  ASSUME NEW m \in Seq(Frames), NEW i
  PROVE  \E f : Sums(f, m, i, Len(m)) /\ BytesBefore(m, i) = f[Len(m)]
  <1> DEFINE sum == CHOOSE f : Sums(f, m, i, Len(m))
  <1>1. Sums(sum, m, i, Len(m))
    <2>1. Len(m) \in Nat
      OBVIOUS
    <2> QED BY <2>1, SumExists
  <1>2. BytesBefore(m, i) = sum[Len(m)]
    BY DEF BytesBefore, Sums, Summed, Weight
  <1> QED BY <1>1, <1>2

\* A frame adds a number.
LEMMA WeightTyped ==
  ASSUME NEW m \in Seq(Frames), NEW i, NEW j \in 1 .. Len(m)
  PROVE  Weight(m, i, j) \in Nat
  <1>1. m[j] \in Frames
    OBVIOUS
  <1>2. m[j].type = "DATA" => m[j].length \in 0 .. MaxData
    BY <1>1 DEF Frames
  <1> QED BY <1>2 DEF Weight

LEMMA BytesTyped ==
  ASSUME NEW m \in Seq(Frames), NEW i
  PROVE  BytesBefore(m, i) \in Nat
  <1> DEFINE n == Len(m)
  <1>1. PICK f : Sums(f, m, i, n) /\ BytesBefore(m, i) = f[n]
    BY BytesAreSummed
  <1>2. n \in Nat /\ n \in 0 .. n
    OBVIOUS
  <1>3. \A j \in 0 .. n : f[j] = Summed(f, m, i, j)
    BY <1>1 DEF Sums
  <1>4. \A j \in 1 .. n : Weight(m, i, j) \in Nat
    BY WeightTyped
  <1> HIDE DEF n
  <1> DEFINE bad == {j \in 0 .. n : f[j] \notin Nat}
  <1>5. 0 \notin bad
    BY <1>2, <1>3 DEF Summed
  <1>6. ASSUME NEW j \in 1 .. n, j - 1 \notin bad PROVE j \notin bad
    <2>1. j \in 0 .. n /\ j - 1 \in 0 .. n /\ j # 0
      BY <1>2
    <2>2. f[j - 1] \in Nat /\ f[j] = f[j - 1] + Weight(m, i, j)
      BY <1>3, <1>6, <2>1 DEF Summed
    <2> QED BY <1>4, <2>2
  <1>7. bad = {}
    <2>1. bad \subseteq 0 .. n
      OBVIOUS
    <2>2. \A j \in 1 .. n : j \in bad => j - 1 \in bad
      BY <1>6
    <2> HIDE DEF bad
    <2> QED BY <1>2, <1>5, <2>1, <2>2, UpTo
  <1> QED BY <1>1, <1>2, <1>7

\* Frames that add the same have the same sum.
SameWeights(p, i, q, k, n) == \A j \in 1 .. n : Weight(p, i, j) = Weight(q, k, j)

LEMMA SumsAgree ==
  ASSUME NEW p, NEW i, NEW q, NEW k, NEW n \in Nat, NEW l \in Nat, n <= l,
         SameWeights(p, i, q, k, n)
  PROVE  \A f, g : Sums(f, p, i, n) /\ Sums(g, q, k, l) => f[n] = g[n]
  <1> SUFFICES ASSUME NEW f, Sums(f, p, i, n), NEW g, Sums(g, q, k, l)
               PROVE  f[n] = g[n]
    OBVIOUS
  <1> DEFINE bad == {j \in 0 .. n : f[j] # g[j]}
  <1>1. ASSUME NEW j \in 0 .. n
        PROVE  f[j] = Summed(f, p, i, j) /\ g[j] = Summed(g, q, k, j)
    <2>1. j \in 0 .. l
      OBVIOUS
    <2> QED BY <2>1 DEF Sums
  <1>2. 0 \notin bad
    <2>1. f[0] = Summed(f, p, i, 0) /\ g[0] = Summed(g, q, k, 0)
      BY <1>1
    <2> QED BY <2>1 DEF Summed
  <1>3. ASSUME NEW j \in 1 .. n, j - 1 \notin bad PROVE j \notin bad
    <2>1. f[j - 1] = g[j - 1] /\ Weight(p, i, j) = Weight(q, k, j)
      BY <1>3 DEF SameWeights
    <2>2. f[j] = Summed(f, p, i, j) /\ g[j] = Summed(g, q, k, j)
      BY <1>1
    <2> QED BY <2>1, <2>2 DEF Summed
  <1>4. bad = {}
    <2>1. bad \subseteq 0 .. n
      OBVIOUS
    <2>2. \A j \in 1 .. n : j \in bad => j - 1 \in bad
      BY <1>3
    <2> HIDE DEF bad
    <2> QED BY <1>2, <2>1, <2>2, UpTo
  <1>5. n \in 0 .. n
    OBVIOUS
  <1> QED BY <1>4, <1>5

\* Indexes past the end are the same to it.
LEMMA BytesPastEnd ==
  ASSUME NEW m \in Seq(Frames), NEW i \in Nat, NEW k \in Nat, i > Len(m), k > Len(m)
  PROVE  BytesBefore(m, i) = BytesBefore(m, k)
  <1> DEFINE n == Len(m)
  <1>1. n \in Nat /\ n <= n /\ SameWeights(m, i, m, k, n)
    BY DEF SameWeights, Weight
  <1>2. PICK f : Sums(f, m, i, n) /\ BytesBefore(m, i) = f[n]
    BY BytesAreSummed
  <1>3. PICK g : Sums(g, m, k, n) /\ BytesBefore(m, k) = g[n]
    BY BytesAreSummed
  <1> HIDE DEF n
  <1>4. \A a, b : Sums(a, m, i, n) /\ Sums(b, m, k, n) => a[n] = b[n]
    BY <1>1, SumsAgree
  <1> QED BY <1>2, <1>3, <1>4

\* What a list with a further frame is.
LEMMA Appended ==
  ASSUME NEW m \in Seq(Frames), NEW x \in Frames
  PROVE  /\ Append(m, x) \in Seq(Frames)
         /\ Len(m) \in Nat /\ Len(Append(m, x)) = Len(m) + 1
         /\ DOMAIN m = 1 .. Len(m) /\ DOMAIN Append(m, x) = 1 .. (Len(m) + 1)
         /\ \A i \in 1 .. Len(m) : Append(m, x)[i] = m[i]
         /\ Append(m, x)[Len(m) + 1] = x
  OBVIOUS

\* A further frame adds its bytes to those before an index behind it.
LEMMA BytesAppended ==
  ASSUME NEW m \in Seq(Frames), NEW x \in Frames, NEW i \in Nat
  PROVE  BytesBefore(Append(m, x), i) =
           BytesBefore(m, i) + (IF Len(m) + 1 < i /\ x.type = "DATA" THEN x.length ELSE 0)
  <1> DEFINE n == Len(m)
             l == n + 1
             longer == Append(m, x)
  <1>1. /\ longer \in Seq(Frames) /\ Len(longer) = l /\ longer[l] = x
        /\ \A j \in 1 .. n : longer[j] = m[j]
        /\ n \in Nat /\ l \in Nat /\ n <= l /\ l # 0 /\ l - 1 = n /\ l \in 0 .. l
    BY Appended
  <1>2. PICK f : Sums(f, m, i, n) /\ BytesBefore(m, i) = f[n]
    BY BytesAreSummed
  <1> HIDE DEF n, l, longer
  <1>3. PICK g : Sums(g, longer, i, l) /\ BytesBefore(longer, i) = g[l]
    BY <1>1, BytesAreSummed
  <1>4. SameWeights(m, i, longer, i, n)
    BY <1>1 DEF SameWeights, Weight
  <1>5. \A a, b : Sums(a, m, i, n) /\ Sums(b, longer, i, l) => a[n] = b[n]
    BY <1>1, <1>4, SumsAgree
  <1>6. g[l] = g[n] + Weight(longer, i, l)
    BY <1>1, <1>3 DEF Sums, Summed
  <1>7. Weight(longer, i, l) = IF l < i /\ x.type = "DATA" THEN x.length ELSE 0
    BY <1>1 DEF Weight
  <1>8. BytesBefore(longer, i) =
          BytesBefore(m, i) + IF l < i /\ x.type = "DATA" THEN x.length ELSE 0
    BY <1>2, <1>3, <1>5, <1>6, <1>7
  <1> QED BY <1>8 DEF longer, l, n

\* So the total grows by the bytes of the frame, and nothing before it changes.
LEMMA TotalAppended ==
  ASSUME NEW m \in Seq(Frames), NEW x \in Frames
  PROVE  /\ Total(m) \in Nat
         /\ Total(Append(m, x)) = Total(m) + (IF x.type = "DATA" THEN x.length ELSE 0)
         /\ \A i \in Nat : i <= Len(m) + 1 =>
              BytesBefore(Append(m, x), i) = BytesBefore(m, i)
         /\ BytesBefore(Append(m, x), Len(m) + 1) = Total(m)
  <1> DEFINE n == Len(m)
             longer == Append(m, x)
  <1>1. n \in Nat /\ Len(longer) = n + 1 /\ longer \in Seq(Frames)
    BY Appended
  <1>2. \A i \in Nat : BytesBefore(m, i) \in Nat
    BY BytesTyped
  <1>3. BytesBefore(m, n + 2) = BytesBefore(m, n + 1)
    <2>1. n + 1 \in Nat /\ n + 2 \in Nat /\ n + 1 > n /\ n + 2 > n
      BY <1>1
    <2> QED BY <2>1, BytesPastEnd
  <1>4. ASSUME NEW i \in Nat
        PROVE  BytesBefore(longer, i) =
                 BytesBefore(m, i) + IF n + 1 < i /\ x.type = "DATA" THEN x.length ELSE 0
    BY BytesAppended
  <1> HIDE DEF n, longer
  <1>5. ASSUME NEW i \in Nat, i <= n + 1 PROVE BytesBefore(longer, i) = BytesBefore(m, i)
    <2>1. BytesBefore(longer, i) = BytesBefore(m, i) + 0
      BY <1>1, <1>4, <1>5
    <2> QED BY <1>2, <2>1
  <1>6. (n + 1) + 1 = n + 2 /\ n + 1 \in Nat /\ n + 2 \in Nat /\ n + 1 < n + 2 /\ n + 1 <= n + 1
    BY <1>1
  <1>7. BytesBefore(longer, n + 2) =
          BytesBefore(m, n + 1) + IF x.type = "DATA" THEN x.length ELSE 0
    BY <1>3, <1>4, <1>6
  <1> QED BY <1>1, <1>2, <1>5, <1>6, <1>7 DEF Total, n, longer

\* No frames, no bytes.
LEMMA TotalOfNone == Total(<< >>) = 0
  <1>1. << >> \in Seq(Frames) /\ Len(<< >>) = 0 /\ 0 \in 0 .. 0
    OBVIOUS
  <1>2. PICK f : Sums(f, << >>, 0 + 1, 0) /\ BytesBefore(<< >>, 0 + 1) = f[0]
    BY <1>1, BytesAreSummed
  <1>3. f[0] = 0
    BY <1>1, <1>2 DEF Sums, Summed
  <1> QED BY <1>1, <1>2, <1>3 DEF Total

-----------------------------------------------------------------------------
\* The parts of a section.
LEMMA SectionParts ==
  ASSUME NEW section \in Sections
  PROVE  /\ section.form \in Forms /\ section.status \in Nat
         /\ section.form # "response" => section.status = 0
         /\ IsInformational(section) => ~IsFinal(section) /\ ~IsRequest(section)
         /\ IsFinal(section) => ~IsInformational(section) /\ ~IsRequest(section)
  <1>1. section \in Section
    BY SectionsAssumption
  <1>2. /\ section.form \in Forms /\ section.status \in Nat
        /\ section.form # "response" => section.status = 0
    BY <1>1 DEF Section
  <1>3. /\ IsInformational(section) =>
             section.form = "response" /\ section.status \in 100 .. 199
        /\ IsFinal(section) => section.form = "response" /\ section.status \in 200 .. 599
        /\ IsRequest(section) => section.form # "response"
    BY DEF IsInformational, IsFinal, IsRequest
  <1> QED BY <1>2, <1>3

\* The phase that a legal head opens is the one for its kind of content.
LEMMA HeadPhases ==
  ASSUME kind \in Kinds, NEW head \in Sections, LegalHead(head)
  PROVE  /\ HeadPhase(head) \in {"Content", "NoContent", "NoContentTrailers", "Tunnel"}
         /\ HeadPhase(head) = "Tunnel" <=> IsTunnel(head)
         /\ HeadPhase(head) = "NoContent" <=> (~IsTunnel(head) /\ head.status = 204)
         /\ HeadPhase(head) \in {"NoContent", "NoContentTrailers"} <=> IsBodiless(head)
  <1>1. CASE kind = "Request"
    <2>1. IsRequest(head)
      BY <1>1 DEF LegalHead
    <2>2. head.form \in {"request", "connect"} /\ head.status = 0
      BY <2>1, SectionParts DEF IsRequest
    <2> QED BY <1>1, <2>2 DEF HeadPhase, IsTunnel, IsBodiless
  <1>2. CASE kind # "Request"
    <2>1. IsFinal(head)
      BY <1>2 DEF LegalHead
    <2>2. head.form = "response" /\ head.status \in 200 .. 599
      BY <2>1 DEF IsFinal
    <2>3. HeadPhase(head) = FinalPhase(head.status)
      BY <1>2 DEF HeadPhase
    <2>4. CASE kind = "Connect" /\ head.status \in 200 .. 299
      BY <2>2, <2>3, <2>4 DEF FinalPhase, IsTunnel, IsBodiless
    <2>5. CASE ~ (kind = "Connect" /\ head.status \in 200 .. 299) /\ head.status = 204
      BY <2>2, <2>3, <2>5 DEF FinalPhase, IsTunnel, IsBodiless
    <2>6. CASE ~ (kind = "Connect" /\ head.status \in 200 .. 299) /\ head.status # 204
      BY <2>2, <2>3, <2>6 DEF FinalPhase, IsTunnel, IsBodiless
    <2> QED BY <2>4, <2>5, <2>6
  <1> QED BY <1>1, <1>2

\* The sections in a list of frames.
LEMMA FrameSections ==
  ASSUME NEW m \in Seq(Frames), NEW i \in DOMAIN m
  PROVE  /\ m[i] \in Frames /\ DOMAIN m = 1 .. Len(m) /\ Len(m) \in Nat
         /\ m[i].type = "HEADERS" => m[i].section \in Sections
  <1>1. m[i] \in Frames
    OBVIOUS
  <1> QED BY <1>1 DEF Frames

\* There is one head.
LEMMA OneHead ==
  ASSUME NEW m \in Seq(Frames), NEW h, HeadAt(m, h)
  PROVE  Heads(m) = {h}
  <1>1. h \in Heads(m)
    BY DEF HeadAt, ClearBefore, Heads, Headers
  <1>2. ASSUME NEW g \in Heads(m) PROVE g = h
    <2>1. g \in 1 .. Len(m) /\ h \in 1 .. Len(m) /\ Len(m) \in Nat
      BY <1>1 DEF Heads, Headers
    <2>2. ~ (g < h)
      BY <1>2 DEF HeadAt, ClearBefore, Heads, Headers
    <2>3. ~ (h < g)
      BY <1>1, <1>2 DEF HeadAt, Heads, Headers
    <2> QED BY <2>1, <2>2, <2>3
  <1> QED BY <1>1, <1>2

LEMMA NoHead ==
  ASSUME NEW m \in Seq(Frames), ClearBefore(m, Len(m) + 1)
  PROVE  Heads(m) = {}
  BY DEF ClearBefore, Heads, Headers

\* What the frames that bear neither headers nor data must be.
Orderly(m) == \A i \in DOMAIN m : OtherErrors(m[i]) = {}

LEMMA OrderlyFrames ==
  ASSUME kind \in Kinds, NEW x \in Frames
  PROVE  OtherErrors(x) = {} <=>
           /\ x.type # "FORBIDDEN"
           /\ x.type = "PUSH_PROMISE" =>
                x.wellFormed /\ kind \in {"Ordinary", "Head", "Connect"}
  <1>1. x.type = "PUSH_PROMISE" => x.wellFormed \in BOOLEAN
    BY DEF Frames
  <1> QED BY <1>1 DEF OtherErrors, Kinds

\* A message without a head is legal as far as it goes,
LEMMA NoHeadIsLegal ==
  ASSUME kind \in Kinds, NEW m \in Seq(Frames), Orderly(m), NEW p, NoHeadYet(m, p)
  PROVE  Legal(m)
  <1>1. Heads(m) = {} /\ DOMAIN m = 1 .. Len(m) /\ Len(m) \in Nat
    BY NoHead DEF NoHeadYet
  <1>2. \A i \in DOMAIN m : m[i] \in Frames
    OBVIOUS
  <1>3. \A i \in DOMAIN m :
          /\ m[i].type # "FORBIDDEN"
          /\ m[i].type = "PUSH_PROMISE" =>
               m[i].wellFormed /\ kind \in {"Ordinary", "Head", "Connect"}
    BY <1>2, OrderlyFrames DEF Orderly
  <1>4. \A i \in DOMAIN m : i < Len(m) + 1
    BY <1>1
  <1>5. \A i \in DOMAIN m : m[i].type # "DATA"
    BY <1>4 DEF NoHeadYet, ClearBefore
  <1>6. \A i \in Headers(m) : kind # "Request" /\ ~HasContentLength(m[i].section)
    BY <1>4 DEF NoHeadYet, ClearBefore, Headers
  <1> QED BY <1>1, <1>3, <1>5, <1>6 DEF Legal

\* and so is one with a legal head and content that it allows, and with legal trailers.
LEMMA HeadIsLegal ==
  ASSUME kind \in Kinds, NEW m \in Seq(Frames), Orderly(m), NEW h, HeadAt(m, h),
         LegalContent(m, h),
         \A i \in Headers(m) : i > h => LegalTrailers(m, h, i),
         \A i \in DOMAIN m : m[i].type = "DATA" => \A j \in Headers(m) : j < i => j <= h
  PROVE  Legal(m)
  <1>1. Heads(m) = {h} /\ h \in 1 .. Len(m) /\ DOMAIN m = 1 .. Len(m) /\ Len(m) \in Nat
    BY OneHead DEF HeadAt
  <1>2. \A i \in DOMAIN m : m[i] \in Frames
    OBVIOUS
  <1>3. \A i \in DOMAIN m :
          /\ m[i].type # "FORBIDDEN"
          /\ m[i].type = "PUSH_PROMISE" =>
               m[i].wellFormed /\ kind \in {"Ordinary", "Head", "Connect"}
    BY <1>2, OrderlyFrames DEF Orderly
  <1>4. ASSUME NEW i \in DOMAIN m, m[i].type = "DATA"
        PROVE  h < i /\ \A j \in Headers(m) : j < i => j <= h
    <2>1. ~ (i < h) /\ i # h
      BY <1>4 DEF HeadAt, ClearBefore
    <2> QED BY <1>1, <1>4, <2>1
  <1>5. ASSUME NEW i \in Headers(m), i < h
        PROVE  kind # "Request" /\ ~HasContentLength(m[i].section)
    BY <1>5 DEF HeadAt, ClearBefore, Headers
  <1>6. LegalHead(m[h].section)
    BY DEF HeadAt
  <1> QED BY <1>1, <1>3, <1>4, <1>5, <1>6 DEF Legal

LEMMA CountedIsLegal ==
  ASSUME kind \in Kinds, NEW m, NEW h, NEW received, Counted(m, m[h].section, received)
  PROVE  LegalContent(m, h)
  BY DEF Counted, LegalContent, Total

LEMMA PlacedIsLegal ==
  ASSUME kind \in Kinds, NEW m \in Seq(Frames), NEW p, NEW lengths, NEW received,
         PlacedAt(m, p, lengths, received)
  PROVE  Legal(m)
  <1>1. Orderly(m)
    BY DEF PlacedAt, Orderly
  <1>2. CASE NoHeadYet(m, p)
    BY <1>1, <1>2, NoHeadIsLegal
  <1>3. ASSUME NEW h \in DOMAIN m, HeadedAt(m, h, p, lengths, received) PROVE Legal(m)
    <2>1. /\ HeadAt(m, h) /\ LegalContent(m, h)
          /\ \A i \in Headers(m) : ~ (i > h)
      BY <1>3, CountedIsLegal DEF HeadedAt, Headers
    <2>2. \A j \in Headers(m) : j <= h
      <3>1. DOMAIN m = 1 .. Len(m) /\ Len(m) \in Nat
        OBVIOUS
      <3> QED BY <2>1, <3>1 DEF Headers
    <2> QED BY <1>1, <2>1, <2>2, HeadIsLegal
  <1>4. ASSUME NEW h \in DOMAIN m, NEW t \in DOMAIN m, TrailedAt(m, h, t, p) PROVE Legal(m)
    <2>1. HeadAt(m, h) /\ LegalContent(m, h) /\ LegalTrailers(m, h, t)
      BY <1>4 DEF TrailedAt
    <2>2. \A j \in Headers(m) : j <= h \/ j = t
      BY <2>1 DEF LegalTrailers
    <2>3. DOMAIN m = 1 .. Len(m) /\ Len(m) \in Nat
      OBVIOUS
    <2>4. \A i \in Headers(m) : i > h => LegalTrailers(m, h, i)
      BY <2>1, <2>2, <2>3 DEF Headers
    <2>5. ASSUME NEW i \in DOMAIN m, m[i].type = "DATA", NEW j \in Headers(m), j < i
          PROVE  j <= h
      <3>1. ~ (i > t)
        BY <1>4, <2>5 DEF TrailedAt
      <3>2. j # t
        BY <2>3, <2>5, <3>1
      <3> QED BY <2>2, <3>2
    <2> QED BY <1>1, <2>1, <2>4, <2>5, HeadIsLegal
  <1> QED BY <1>2, <1>3, <1>4 DEF PlacedAt

-----------------------------------------------------------------------------
(***************************************************************************)
(* One more frame.  What was so of the frames before it stays so.          *)
(***************************************************************************)
LEMMA HeadAppended ==
  ASSUME NEW m \in Seq(Frames), NEW x \in Frames, NEW h, HeadAt(m, h)
  PROVE  /\ HeadAt(Append(m, x), h) /\ Append(m, x)[h] = m[h]
         /\ h \in 1 .. Len(m) /\ m[h].section \in Sections
  <1>1. h \in 1 .. Len(m) /\ h \in DOMAIN m
    BY DEF HeadAt
  <1>2. /\ DOMAIN Append(m, x) = 1 .. (Len(m) + 1) /\ Len(m) \in Nat /\ DOMAIN m = 1 .. Len(m)
        /\ \A i \in 1 .. Len(m) : Append(m, x)[i] = m[i]
    BY Appended
  <1>3. m[h].section \in Sections
    BY <1>1, FrameSections DEF HeadAt
  <1> DEFINE longer == Append(m, x)
  <1> HIDE DEF longer
  <1>4. ASSUME NEW i \in DOMAIN longer, i < h
        PROVE  /\ longer[i].type # "DATA"
               /\ longer[i].type = "HEADERS" =>
                    /\ kind # "Request"
                    /\ IsInformational(longer[i].section) /\ ~HasContentLength(longer[i].section)
    <2>1. i \in DOMAIN m /\ longer[i] = m[i]
      BY <1>1, <1>2, <1>4 DEF longer
    <2> QED BY <1>4, <2>1 DEF HeadAt, ClearBefore
  <1>5. ClearBefore(longer, h)
    BY <1>4 DEF ClearBefore
  <1>6. longer[h] = m[h] /\ h \in DOMAIN longer
    BY <1>1, <1>2 DEF longer
  <1> QED BY <1>1, <1>3, <1>5, <1>6 DEF HeadAt, longer

LEMMA ClearAppended ==
  ASSUME NEW m \in Seq(Frames), NEW x \in Frames, ClearBefore(m, Len(m) + 1)
  PROVE  /\ ClearBefore(Append(m, x), Len(m) + 1)
         /\ (x.type \notin {"HEADERS", "DATA"}
               \/ /\ x.type = "HEADERS" /\ kind # "Request"
                  /\ IsInformational(x.section) /\ ~HasContentLength(x.section))
              => ClearBefore(Append(m, x), Len(Append(m, x)) + 1)
  <1> DEFINE longer == Append(m, x)
             n == Len(m)
  <1>1. /\ DOMAIN longer = 1 .. (n + 1) /\ n \in Nat /\ DOMAIN m = 1 .. n
        /\ Len(longer) = n + 1 /\ longer[n + 1] = x
        /\ \A i \in 1 .. n : longer[i] = m[i]
    BY Appended
  <1> HIDE DEF longer
  <1>2. ASSUME NEW i \in DOMAIN longer, i < n + 1
        PROVE  /\ longer[i].type # "DATA"
               /\ longer[i].type = "HEADERS" =>
                    /\ kind # "Request"
                    /\ IsInformational(longer[i].section) /\ ~HasContentLength(longer[i].section)
    <2>1. i \in DOMAIN m /\ longer[i] = m[i] /\ i < n + 1
      BY <1>1, <1>2
    <2> QED BY <2>1 DEF ClearBefore
  <1>3. ClearBefore(longer, n + 1)
    BY <1>2 DEF ClearBefore
  <1>4. ASSUME \/ x.type \notin {"HEADERS", "DATA"}
               \/ /\ x.type = "HEADERS" /\ kind # "Request"
                  /\ IsInformational(x.section) /\ ~HasContentLength(x.section)
        PROVE  ClearBefore(longer, Len(longer) + 1)
    <2>1. ASSUME NEW i \in DOMAIN longer
          PROVE  i < n + 1 \/ i = n + 1
      BY <1>1
    <2> QED BY <1>1, <1>2, <1>4, <2>1 DEF ClearBefore
  <1> QED BY <1>3, <1>4 DEF longer

LEMMA OrderlyAppended ==
  ASSUME NEW m \in Seq(Frames), NEW x \in Frames, Orderly(m), OtherErrors(x) = {}
  PROVE  Orderly(Append(m, x))
  <1>1. /\ DOMAIN Append(m, x) = 1 .. (Len(m) + 1) /\ Len(m) \in Nat /\ DOMAIN m = 1 .. Len(m)
        /\ \A i \in 1 .. Len(m) : Append(m, x)[i] = m[i]
        /\ Append(m, x)[Len(m) + 1] = x
    BY Appended
  <1> DEFINE longer == Append(m, x)
  <1> HIDE DEF longer
  <1>2. \A i \in DOMAIN longer : (i \in DOMAIN m /\ longer[i] = m[i]) \/ longer[i] = x
    BY <1>1 DEF longer
  <1>3. Orderly(longer)
    BY <1>2 DEF Orderly
  <1> QED BY <1>3 DEF longer

\* The trailers stay legal behind which no further headers come.
LEMMA TrailersAppended ==
  ASSUME NEW m \in Seq(Frames), NEW x \in Frames, x.type # "HEADERS",
         NEW h \in DOMAIN m, NEW t \in DOMAIN m, LegalTrailers(m, h, t)
  PROVE  LegalTrailers(Append(m, x), h, t)
  <1> DEFINE longer == Append(m, x)
             n == Len(m)
  <1>1. /\ DOMAIN longer = 1 .. (n + 1) /\ n \in Nat /\ DOMAIN m = 1 .. n
        /\ longer[n + 1] = x /\ \A i \in 1 .. n : longer[i] = m[i]
    BY Appended
  <1>2. BytesBefore(longer, t) = BytesBefore(m, t)
    <2>1. t \in Nat /\ t <= Len(m) + 1
      BY <1>1
    <2> QED BY <2>1, TotalAppended
  <1> HIDE DEF longer
  <1>3. longer[h] = m[h] /\ longer[t] = m[t]
    BY <1>1
  <1>4. Headers(longer) \subseteq Headers(m)
    BY <1>1 DEF Headers
  <1>5. LegalTrailers(longer, h, t)
    BY <1>2, <1>3, <1>4 DEF LegalTrailers
  <1> QED BY <1>5 DEF longer

\* A frame without content leaves what has been counted.
LEMMA UncountedAppended ==
  ASSUME NEW m \in Seq(Frames), NEW x \in Frames, x.type # "DATA"
  PROVE  /\ Total(Append(m, x)) = Total(m)
         /\ \A head, received : Counted(m, head, received) =>
              Counted(Append(m, x), head, received)
         /\ \A h \in DOMAIN m : LegalContent(m, h) => LegalContent(Append(m, x), h)
  <1>1. Total(Append(m, x)) = Total(m)
    BY TotalAppended
  <1>2. \A h \in DOMAIN m : Append(m, x)[h] = m[h]
    BY Appended
  <1>3. \A h \in DOMAIN m : LegalContent(m, h) => LegalContent(Append(m, x), h)
    BY <1>1, <1>2 DEF LegalContent, Total
  <1> QED BY <1>1, <1>3 DEF Counted

\* A frame that is neither headers nor data changes nothing that is kept of the message.
LEMMA OtherAppended ==
  ASSUME NEW m \in Seq(Frames), NEW x \in Frames, x.type \notin {"HEADERS", "DATA"},
         OtherErrors(x) = {}, NEW p, NEW lengths, NEW received,
         PlacedAt(m, p, lengths, received)
  PROVE  PlacedAt(Append(m, x), p, lengths, received)
  <1> DEFINE longer == Append(m, x)
             n == Len(m)
  <1>1. /\ DOMAIN longer = 1 .. (n + 1) /\ n \in Nat /\ DOMAIN m = 1 .. n
        /\ longer[n + 1] = x /\ \A i \in 1 .. n : longer[i] = m[i]
    BY Appended
  <1>2. Orderly(longer)
    BY OrderlyAppended DEF PlacedAt, Orderly
  <1>3. /\ Total(longer) = Total(m)
        /\ \A head, r : Counted(m, head, r) => Counted(longer, head, r)
        /\ \A h \in DOMAIN m : LegalContent(m, h) => LegalContent(longer, h)
    BY UncountedAppended
  <1>4. CASE NoHeadYet(m, p)
    <2>1. NoHeadYet(longer, p)
      BY <1>3, <1>4, ClearAppended DEF NoHeadYet
    <2> QED BY <1>2, <2>1 DEF PlacedAt, Orderly
  <1>5. ASSUME NEW h \in DOMAIN m, HeadedAt(m, h, p, lengths, received)
        PROVE  PlacedAt(longer, p, lengths, received)
    <2>1. HeadAt(longer, h) /\ longer[h] = m[h] /\ h \in DOMAIN longer
      BY <1>1, <1>5, HeadAppended DEF HeadedAt
    <2> HIDE DEF longer
    <2>2. \A i \in DOMAIN longer : i > h => longer[i].type # "HEADERS"
      BY <1>1, <1>5 DEF HeadedAt
    <2>3. Counted(longer, longer[h].section, received)
      BY <1>3, <1>5, <2>1 DEF HeadedAt
    <2>4. HeadedAt(longer, h, p, lengths, received)
      BY <1>5, <2>1, <2>2, <2>3 DEF HeadedAt
    <2> QED BY <1>2, <2>1, <2>4 DEF PlacedAt, Orderly
  <1>6. ASSUME NEW h \in DOMAIN m, NEW t \in DOMAIN m, TrailedAt(m, h, t, p)
        PROVE  PlacedAt(longer, p, lengths, received)
    <2>1. HeadAt(longer, h) /\ longer[h] = m[h] /\ h \in DOMAIN longer
          /\ LegalTrailers(longer, h, t)
      BY <1>1, <1>6, HeadAppended, TrailersAppended DEF TrailedAt
    <2>2. BytesBefore(longer, t) = BytesBefore(m, t)
      <3>1. t \in Nat /\ t <= n + 1
        BY <1>1
      <3> QED BY <3>1, TotalAppended
    <2> HIDE DEF longer
    <2>3. t \in DOMAIN longer /\ longer[t] = m[t]
      BY <1>1
    <2>4. \A i \in DOMAIN longer : i > t => longer[i].type # "DATA"
      BY <1>1, <1>6 DEF TrailedAt
    <2>5. TrailedAt(longer, h, t, p)
      BY <1>3, <1>6, <2>1, <2>2, <2>3, <2>4 DEF TrailedAt
    <2> QED BY <1>2, <2>1, <2>3, <2>5 DEF PlacedAt, Orderly
  <1> QED BY <1>4, <1>5, <1>6 DEF PlacedAt

-----------------------------------------------------------------------------
(***************************************************************************)
(* What is accepted stays placed, and what is refused is not legal.        *)
(***************************************************************************)
\* The place of each phase.
LEMMA PlaceOfPhase ==
  ASSUME kind \in Kinds, NEW m \in Seq(Frames), NEW p, NEW lengths, NEW received,
         PlacedAt(m, p, lengths, received)
  PROVE  /\ p \in {"BeforeInitial", "BeforeFinal"} => NoHeadYet(m, p)
         /\ p \in {"Content", "NoContent", "NoContentTrailers", "Tunnel"} =>
              \E h \in DOMAIN m : HeadedAt(m, h, p, lengths, received)
         /\ p = "Trailers" => \E h, t \in DOMAIN m : TrailedAt(m, h, t, p)
  <1>1. NoHeadYet(m, p) => p \in {"BeforeInitial", "BeforeFinal"}
    BY DEF NoHeadYet
  <1>2. ASSUME NEW h \in DOMAIN m, HeadedAt(m, h, p, lengths, received)
        PROVE  p \in {"Content", "NoContent", "NoContentTrailers", "Tunnel"}
    <2>1. m[h].section \in Sections /\ LegalHead(m[h].section)
      BY <1>2, FrameSections DEF HeadedAt, HeadAt
    <2> QED BY <1>2, <2>1, HeadPhases DEF HeadedAt
  <1>3. ASSUME NEW h \in DOMAIN m, NEW t \in DOMAIN m, TrailedAt(m, h, t, p)
        PROVE  p = "Trailers"
    BY <1>3 DEF TrailedAt
  <1>4. \/ NoHeadYet(m, p)
        \/ \E h \in DOMAIN m : HeadedAt(m, h, p, lengths, received)
        \/ \E h, t \in DOMAIN m : TrailedAt(m, h, t, p)
    BY DEF PlacedAt
  <1>5. CASE NoHeadYet(m, p)
    BY <1>1, <1>5
  <1>6. CASE \E h \in DOMAIN m : HeadedAt(m, h, p, lengths, received)
    BY <1>2, <1>6
  <1>7. CASE \E h, t \in DOMAIN m : TrailedAt(m, h, t, p)
    BY <1>3, <1>7
  <1> QED BY <1>4, <1>5, <1>6, <1>7

LEMMA OtherRefused ==
  ASSUME kind \in Kinds, NEW m \in Seq(Frames), NEW x \in Frames, OtherErrors(x) # {}
  PROVE  ~Legal(Append(m, x))
  <1> DEFINE longer == Append(m, x)
             l == Len(m) + 1
  <1>1. l \in DOMAIN longer /\ longer[l] = x
    BY Appended
  <1> HIDE DEF longer, l
  <1>2. Legal(longer) => OtherErrors(x) = {}
    BY <1>1, OrderlyFrames DEF Legal
  <1> QED BY <1>2 DEF longer

\* Content before the head or behind trailers.
LEMMA MisplacedDataRefused ==
  ASSUME kind \in Kinds, NEW m \in Seq(Frames), NEW x \in Frames, x.type = "DATA",
         NEW p, NoHeadYet(m, p) \/ \E h, t \in DOMAIN m : TrailedAt(m, h, t, p)
  PROVE  ~Legal(Append(m, x))
  <1> DEFINE longer == Append(m, x)
             n == Len(m)
  <1>1. /\ longer \in Seq(Frames) /\ DOMAIN longer = 1 .. (n + 1) /\ n \in Nat
        /\ DOMAIN m = 1 .. n /\ longer[n + 1] = x /\ \A i \in 1 .. n : longer[i] = m[i]
    BY Appended
  <1>2. CASE NoHeadYet(m, p)
    <2>1. ClearBefore(longer, n + 1)
      BY <1>2, ClearAppended DEF NoHeadYet
    <2> HIDE DEF longer
    <2>2. ASSUME NEW h \in Heads(longer) PROVE FALSE
      <3>1. h \in DOMAIN longer /\ longer[h].type = "HEADERS"
            /\ ~IsInformational(longer[h].section)
        BY DEF Heads, Headers
      <3>2. h < n + 1
        BY <1>1, <3>1
      <3> QED BY <2>1, <3>1, <3>2 DEF ClearBefore
    <2>3. n + 1 \in DOMAIN longer /\ longer[n + 1].type = "DATA"
      BY <1>1
    <2> QED BY <2>2, <2>3 DEF Legal, longer
  <1>3. ASSUME NEW h \in DOMAIN m, NEW t \in DOMAIN m, TrailedAt(m, h, t, p)
        PROVE  ~Legal(longer)
    <2>1. HeadAt(longer, h)
      BY <1>1, <1>3, HeadAppended DEF TrailedAt
    <2> HIDE DEF longer
    <2>2. Heads(longer) = {h}
      BY <1>1, <2>1, OneHead
    <2>3. t \in Headers(longer) /\ h < t /\ t < n + 1 /\ ~ (t <= h)
      BY <1>1, <1>3 DEF TrailedAt, Headers
    <2>4. n + 1 \in DOMAIN longer /\ longer[n + 1].type = "DATA"
      BY <1>1
    <2> QED BY <2>2, <2>3, <2>4 DEF Legal
  <1> QED BY <1>2, <1>3

\* Content behind the head is accepted exactly if it is allowed.
LEMMA DataPlaced ==
  ASSUME TypeOK, NEW m \in Seq(Frames), NEW n \in 0 .. MaxData,
         PlacedAt(m, phase, declared, length),
         phase \in {"Content", "NoContent", "NoContentTrailers", "Tunnel"}
  PROVE  LET longer == Append(m, [type |-> "DATA", length |-> n])
         IN  /\ phase = "Tunnel" => PlacedAt(longer, phase, declared, length)
             /\ phase # "Tunnel" /\ DataErrors(n) = {} =>
                  PlacedAt(longer, phase, declared, length + n)
             /\ phase # "Tunnel" /\ DataErrors(n) # {} => ~Legal(longer)
  <1> DEFINE x == [type |-> "DATA", length |-> n]
             longer == Append(m, x)
             l == Len(m) + 1
  <1>1. /\ kind \in Kinds /\ length \in Nat /\ length \in 0 .. LengthLimit
        /\ declared \subseteq 0 .. LengthLimit
    BY DEF TypeOK
  <1>2. x \in Frames /\ x.type = "DATA" /\ x.length = n /\ n \in Nat /\ OtherErrors(x) = {}
    BY MaxDataAssumption DEF Frames, OtherErrors
  <1>3. PICK h \in DOMAIN m : HeadedAt(m, h, phase, declared, length)
    BY <1>1, PlaceOfPhase
  <1> DEFINE head == m[h].section
  <1> HIDE DEF x
  <1>4. /\ longer \in Seq(Frames) /\ DOMAIN longer = 1 .. l /\ Len(m) \in Nat
        /\ DOMAIN m = 1 .. Len(m) /\ longer[l] = x /\ \A i \in 1 .. Len(m) : longer[i] = m[i]
    BY <1>2, Appended
  <1>5. /\ HeadAt(longer, h) /\ longer[h] = m[h] /\ h \in DOMAIN longer
        /\ head \in Sections /\ LegalHead(head)
    BY <1>2, <1>3, <1>4, HeadAppended DEF HeadedAt, HeadAt
  <1>6. Total(m) \in Nat /\ Total(longer) = Total(m) + n
    BY <1>2, TotalAppended
  <1>7. Orderly(longer)
    BY <1>2, OrderlyAppended DEF PlacedAt, Orderly
  <1>8. /\ phase = HeadPhase(head) /\ declared = head.lengths
        /\ Counted(m, head, length)
    BY <1>3 DEF HeadedAt
  <1>9. /\ phase = "Tunnel" <=> IsTunnel(head)
        /\ phase \in {"NoContent", "NoContentTrailers"} <=> IsBodiless(head)
    BY <1>1, <1>5, <1>8, HeadPhases
  <1> HIDE DEF longer, head
  <1>10. \A i \in DOMAIN longer : i > h => longer[i].type # "HEADERS"
    BY <1>2, <1>3, <1>4 DEF HeadedAt
  <1>11. ASSUME NEW received, Counted(longer, head, received)
         PROVE  PlacedAt(longer, phase, declared, received)
    <2>1. HeadedAt(longer, h, phase, declared, received)
      BY <1>5, <1>8, <1>10, <1>11 DEF HeadedAt, head
    <2> QED BY <1>5, <1>7, <2>1 DEF PlacedAt, Orderly
  <1>12. Legal(longer) => LegalContent(longer, h)
    <2>1. Heads(longer) = {h}
      BY <1>4, <1>5, OneHead
    <2> QED BY <2>1 DEF Legal
  <1>13. LegalContent(longer, h) <=>
           \/ IsTunnel(head)
           \/ IsBodiless(head) /\ Total(longer) = 0
           \/ /\ ~IsBodiless(head) /\ Total(longer) <= LengthLimit
              /\ \A d \in head.lengths : Total(longer) <= d
    BY <1>5 DEF LegalContent, Total, head
  <1>14. CASE phase = "Tunnel"
    <2>1. Counted(longer, head, length)
      BY <1>9, <1>14 DEF Counted
    <2> QED BY <1>11, <1>14, <2>1 DEF longer, x
  <1>15. CASE phase \in {"NoContent", "NoContentTrailers"}
    <2>1. IsBodiless(head) /\ ~IsTunnel(head) /\ Total(m) = 0
      BY <1>8, <1>9, <1>15 DEF Counted
    <2>2. DataErrors(n) = {} <=> n = 0
      BY <1>15 DEF DataErrors
    <2>3. n = 0 => Counted(longer, head, length + n)
      BY <1>6, <2>1 DEF Counted
    <2>4. n # 0 => ~LegalContent(longer, h)
      BY <1>2, <1>6, <1>13, <2>1
    <2> QED BY <1>11, <1>12, <1>15, <2>2, <2>3, <2>4 DEF longer, x
  <1>16. CASE phase = "Content"
    <2>1. ~IsBodiless(head) /\ ~IsTunnel(head) /\ Total(m) = length
      BY <1>8, <1>9, <1>16 DEF Counted
    <2>2. DataErrors(n) = {} <=>
            length + n <= LengthLimit /\ \A d \in declared : length + n <= d
      <3>1. \A d \in declared : d \in Nat
        BY <1>1, LengthLimitAssumption
      <3>2. length + n > LengthLimit <=> ~ (length + n <= LengthLimit)
        BY <1>1, <1>2, LengthLimitAssumption
      <3>3. \A d \in declared : length + n > d <=> ~ (length + n <= d)
        BY <1>1, <1>2, <3>1
      <3> QED BY <1>16, <3>2, <3>3 DEF DataErrors
    <2>3. DataErrors(n) = {} => Counted(longer, head, length + n)
      BY <1>6, <1>8, <2>1, <2>2 DEF Counted
    <2>4. DataErrors(n) # {} => ~LegalContent(longer, h)
      BY <1>6, <1>8, <1>13, <2>1, <2>2
    <2> QED BY <1>11, <1>12, <1>16, <2>3, <2>4 DEF longer, x
  <1> QED BY <1>14, <1>15, <1>16

\* The errors of accounting for a section in a context.
SectionErrors(section, role, context) ==
  IF context = "Trailers" THEN TrailersErrors(section, role)
                          ELSE InitialHeadersErrors(section, role)

HeadersFrame(section) == [type |-> "HEADERS", section |-> section]

LEMMA HeadersFrameTyped ==
  ASSUME NEW section \in Sections
  PROVE  /\ HeadersFrame(section) \in Frames /\ HeadersFrame(section).type = "HEADERS"
         /\ HeadersFrame(section).section = section
         /\ OtherErrors(HeadersFrame(section)) = {}
  BY DEF HeadersFrame, Frames, OtherErrors

\* Trailers that are accepted are legal.
LEMMA TrailersPlaced ==
  ASSUME TypeOK, NEW m \in Seq(Frames), NEW section \in Sections,
         PlacedAt(m, phase, declared, length), section.form = "regular",
         TrailersErrors(section, "Trailers") = {}, NEW lengths, NEW received
  PROVE  PlacedAt(Append(m, HeadersFrame(section)), "Trailers", lengths, received)
  <1> DEFINE x == HeadersFrame(section)
             longer == Append(m, x)
             l == Len(m) + 1
  <1>1. /\ kind \in Kinds /\ phase \in {"Content", "NoContentTrailers"}
        /\ ~HasContentLength(section)
        /\ phase = "Content" => LengthMatches
    BY DEF TypeOK, TrailersErrors
  <1>2. PICK h \in DOMAIN m : HeadedAt(m, h, phase, declared, length)
    BY <1>1, PlaceOfPhase
  <1>3. x \in Frames /\ x.type = "HEADERS" /\ x.section = section /\ OtherErrors(x) = {}
    BY HeadersFrameTyped
  <1> DEFINE head == m[h].section
  <1> HIDE DEF x
  <1>4. /\ longer \in Seq(Frames) /\ DOMAIN longer = 1 .. l /\ Len(m) \in Nat
        /\ DOMAIN m = 1 .. Len(m) /\ longer[l] = x /\ \A i \in 1 .. Len(m) : longer[i] = m[i]
        /\ Len(longer) = l
    BY <1>3, Appended
  <1>5. /\ HeadAt(longer, h) /\ longer[h] = m[h] /\ h \in DOMAIN longer
        /\ head \in Sections /\ LegalHead(head)
    BY <1>2, <1>3, <1>4, HeadAppended DEF HeadedAt, HeadAt
  <1>6. /\ Total(longer) = Total(m) /\ BytesBefore(longer, l) = Total(m)
    BY <1>3, TotalAppended, UncountedAppended
  <1>7. LegalContent(longer, h)
    BY <1>1, <1>2, <1>3, CountedIsLegal, UncountedAppended DEF HeadedAt
  <1>8. Orderly(longer)
    BY <1>3, OrderlyAppended DEF PlacedAt, Orderly
  <1>9. /\ phase = HeadPhase(head) /\ declared = head.lengths /\ Counted(m, head, length)
    BY <1>2 DEF HeadedAt
  <1>10. /\ ~IsTunnel(head) /\ head.status # 204
         /\ ~IsBodiless(head) => phase = "Content" /\ Total(m) = length
    <2>1. phase \notin {"Tunnel", "NoContent"}
      BY <1>1
    <2>2. ~IsTunnel(head) /\ head.status # 204
      BY <1>1, <1>5, <1>9, <2>1, HeadPhases
    <2>3. ~IsBodiless(head) => phase \notin {"NoContent", "NoContentTrailers"}
      BY <1>1, <1>5, <1>9, HeadPhases
    <2> QED BY <1>1, <1>9, <2>2, <2>3 DEF Counted
  <1> HIDE DEF longer
  <1>11. \A j \in Headers(longer) : j <= h \/ j = l
    <2>1. ASSUME NEW j \in Headers(longer), ~ (j <= h), j # l PROVE FALSE
      <3>1. j \in DOMAIN m /\ j > h /\ m[j].type = "HEADERS"
        BY <1>4, <2>1 DEF Headers
      <3> QED BY <1>2, <3>1 DEF HeadedAt
    <2> QED BY <2>1
  <1>12. LegalTrailers(longer, h, l)
    <2>1. ~IsBodiless(head) => \A d \in head.lengths : BytesBefore(longer, l) = d
      BY <1>1, <1>6, <1>9, <1>10 DEF LengthMatches
    <2>2. longer[h].section = head /\ longer[l].section = section
      BY <1>3, <1>4, <1>5
    <2> HIDE DEF head
    <2> QED BY <1>1, <1>10, <1>11, <2>1, <2>2 DEF LegalTrailers
  <1>13. TrailedAt(longer, h, l, "Trailers")
    <2>1. h < l /\ l \in DOMAIN longer /\ longer[l].type = "HEADERS"
      BY <1>3, <1>4
    <2>2. \A i \in DOMAIN longer : ~ (i > l)
      BY <1>4
    <2> QED BY <1>5, <1>6, <1>7, <1>12, <2>1, <2>2 DEF TrailedAt
  <1>14. l \in DOMAIN longer
    BY <1>4
  <1> QED BY <1>5, <1>8, <1>13, <1>14 DEF PlacedAt, Orderly, longer, x

\* A head that is accepted is legal, and so is an informational response.
LEMMA HeadPlaced ==
  ASSUME TypeOK, NEW m \in Seq(Frames), NEW section \in Sections,
         PlacedAt(m, phase, declared, length), NEW context \in Contexts,
         NEW role, role = Analyzed(section, context), role \notin {"Invalid", "Trailers"},
         InitialHeadersErrors(section, role) = {}
  PROVE  PlacedAt(Append(m, HeadersFrame(section)), PhaseAfter(section, role),
                  IF role \in {"Request", "FinalResponse"} THEN section.lengths ELSE declared,
                  length)
  <1> DEFINE x == HeadersFrame(section)
             longer == Append(m, x)
             l == Len(m) + 1
  <1>1. kind \in Kinds /\ phase \in {"BeforeInitial", "BeforeFinal"}
    BY DEF TypeOK, InitialHeadersErrors
  <1>2. NoHeadYet(m, phase) /\ length = 0 /\ declared = {}
    BY <1>1, PlaceOfPhase DEF TypeOK
  <1>3. phase = IF kind = "Request" THEN "BeforeInitial" ELSE "BeforeFinal"
    BY <1>2 DEF NoHeadYet
  <1>4. x \in Frames /\ x.type = "HEADERS" /\ x.section = section /\ OtherErrors(x) = {}
    BY HeadersFrameTyped
  <1> HIDE DEF x
  <1>5. /\ longer \in Seq(Frames) /\ DOMAIN longer = 1 .. l /\ Len(m) \in Nat
        /\ longer[l] = x /\ Len(longer) = l /\ l \in DOMAIN longer
    BY <1>4, Appended
  <1>6. Orderly(longer) /\ Total(longer) = 0
    BY <1>2, <1>4, OrderlyAppended, UncountedAppended DEF PlacedAt, Orderly, NoHeadYet
  <1>7. CASE role = "InformationalResponse"
    <2>1. /\ kind # "Request" /\ IsInformational(section) /\ ~HasContentLength(section)
          /\ PhaseAfter(section, role) = phase
      BY <1>1, <1>3, <1>7 DEF InitialHeadersErrors, Analyzed, PhaseAfter
    <2>2. ClearBefore(longer, Len(longer) + 1)
      BY <1>2, <1>4, <2>1, ClearAppended DEF NoHeadYet
    <2>3. NoHeadYet(longer, phase)
      BY <1>3, <1>6, <2>2 DEF NoHeadYet
    <2> QED BY <1>6, <1>7, <2>1, <2>3 DEF PlacedAt, Orderly, longer, x
  <1>8. CASE role \in {"Request", "FinalResponse"}
    <2>1. HasValidLengths(section)
      BY <1>1, <1>8 DEF InitialHeadersErrors
    <2>2. /\ LegalHead(section) /\ ~IsInformational(section)
          /\ PhaseAfter(section, role) = HeadPhase(section)
      <3>1. CASE kind = "Request"
        <4>1. role = "Request"
          BY <1>3, <3>1 DEF InitialHeadersErrors
        <4>2. IsRequest(section)
          BY <4>1 DEF Analyzed
        <4>3. section.status = 0 /\ ~IsInformational(section)
          BY <4>2, SectionParts DEF IsRequest
        <4> QED BY <2>1, <3>1, <4>1, <4>2, <4>3 DEF LegalHead, PhaseAfter, HeadPhase
      <3>2. CASE kind # "Request"
        <4>1. role = "FinalResponse"
          BY <1>3, <1>8, <3>2 DEF InitialHeadersErrors
        <4>2. IsFinal(section)
          BY <4>1 DEF Analyzed
        <4>3. ~IsInformational(section)
          BY <4>2, SectionParts
        <4>4. HasContentLength(section) => ~ProhibitsLength(section.status)
          BY <1>3, <3>2, <4>1 DEF InitialHeadersErrors
        <4>5. HasContentLength(section) => section.status # 204 /\ ~IsTunnel(section)
          <5>1. section.form # "connect"
            BY <4>2 DEF IsFinal
          <5> QED BY <4>4, <5>1 DEF ProhibitsLength, IsTunnel
        <4> QED BY <2>1, <3>2, <4>1, <4>2, <4>3, <4>5 DEF LegalHead, PhaseAfter, HeadPhase
      <3> QED BY <3>1, <3>2
    <2>3. HeadAt(longer, l)
      <3>1. ClearBefore(longer, l)
        BY <1>2, <1>4, ClearAppended DEF NoHeadYet
      <3> QED BY <1>4, <1>5, <2>2, <3>1 DEF HeadAt
    <2>4. Counted(longer, section, length)
      <3>1. \A d \in section.lengths : 0 <= d
        BY <2>1 DEF HasValidLengths
      <3> QED BY <1>2, <1>6, <3>1, LengthLimitAssumption DEF Counted
    <2>5. HeadedAt(longer, l, HeadPhase(section), section.lengths, length)
      <3>1. \A i \in DOMAIN longer : ~ (i > l)
        BY <1>5
      <3> QED BY <1>4, <1>5, <2>3, <2>4, <3>1 DEF HeadedAt
    <2> QED BY <1>5, <1>6, <1>8, <2>2, <2>5 DEF PlacedAt, Orderly, longer, x
  <1> QED BY <1>7, <1>8 DEF Analyzed

\* What a legal message may have at its end, is accepted there.
LEMMA LegalHeadAccepted ==
  ASSUME TypeOK, NEW m \in Seq(Frames), NEW section \in Sections,
         PlacedAt(m, phase, declared, length), phase \in {"BeforeInitial", "BeforeFinal"},
         Legal(Append(m, HeadersFrame(section))),
         NEW context, context = IF kind = "Request" THEN "Request" ELSE "Response"
  PROVE  /\ Analyzed(section, context) # "Invalid"
         /\ InitialHeadersErrors(section, Analyzed(section, context)) = {}
  <1> DEFINE x == HeadersFrame(section)
             longer == Append(m, x)
             l == Len(m) + 1
             role == Analyzed(section, context)
  <1>1. kind \in Kinds
    BY DEF TypeOK
  <1>2. NoHeadYet(m, phase)
    BY <1>1, PlaceOfPhase
  <1>3. phase = IF kind = "Request" THEN "BeforeInitial" ELSE "BeforeFinal"
    BY <1>2 DEF NoHeadYet
  <1>4. x \in Frames /\ x.type = "HEADERS" /\ x.section = section
    BY HeadersFrameTyped
  <1> HIDE DEF x
  <1>5. /\ longer \in Seq(Frames) /\ DOMAIN longer = 1 .. l /\ Len(m) \in Nat
        /\ longer[l] = x /\ l \in DOMAIN longer
    BY <1>4, Appended
  <1>6. Legal(longer)
    BY DEF x
  <1>7. ClearBefore(longer, l)
    BY <1>2, <1>4, ClearAppended DEF NoHeadYet
  <1> HIDE DEF longer
  <1>8. CASE IsInformational(section)
    <2>1. ASSUME NEW h \in Heads(longer) PROVE l < h
      <3>1. h \in DOMAIN longer /\ longer[h].type = "HEADERS"
            /\ ~IsInformational(longer[h].section)
        BY DEF Heads, Headers
      <3>2. ~ (h < l)
        BY <1>7, <3>1 DEF ClearBefore
      <3>3. h # l
        BY <1>4, <1>5, <1>8, <3>1
      <3> QED BY <1>5, <3>1, <3>2, <3>3
    <2>2. l \in Headers(longer)
      BY <1>4, <1>5 DEF Headers
    <2>3. kind # "Request" /\ ~HasContentLength(section)
      BY <1>4, <1>5, <1>6, <2>1, <2>2 DEF Legal
    <2>4. role = "InformationalResponse"
      BY <1>8, <2>3, SectionParts DEF Analyzed
    <2>5. section.lengths = {}
      BY <2>3 DEF HasContentLength
    <2>6. HasValidLengths(section)
      BY <2>5 DEF HasValidLengths
    <2> QED BY <1>3, <2>3, <2>4, <2>6 DEF InitialHeadersErrors
  <1>9. CASE ~IsInformational(section)
    <2>1. l \in Heads(longer)
      BY <1>4, <1>5, <1>7, <1>9 DEF Heads, Headers, ClearBefore
    <2>2. LegalHead(section)
      BY <1>4, <1>5, <1>6, <2>1 DEF Legal
    <2>3. CASE kind = "Request"
      <3>1. role = "Request"
        BY <2>2, <2>3 DEF LegalHead, Analyzed
      <3> QED BY <1>3, <2>2, <2>3, <3>1 DEF LegalHead, InitialHeadersErrors
    <2>4. CASE kind # "Request"
      <3>1. IsFinal(section)
        BY <2>2, <2>4 DEF LegalHead
      <3>2. role = "FinalResponse"
        BY <1>9, <2>4, <3>1 DEF Analyzed
      <3>3. HasContentLength(section) => ~ProhibitsLength(section.status)
        BY <2>2, <2>4 DEF LegalHead, ProhibitsLength, IsTunnel
      <3> QED BY <1>3, <2>2, <2>4, <3>2, <3>3 DEF LegalHead, InitialHeadersErrors
    <2> QED BY <2>3, <2>4
  <1> QED BY <1>8, <1>9

LEMMA LegalTrailersAccepted ==
  ASSUME TypeOK, NEW m \in Seq(Frames), NEW section \in Sections,
         PlacedAt(m, phase, declared, length),
         phase \in {"Content", "NoContent", "NoContentTrailers", "Tunnel"},
         Legal(Append(m, HeadersFrame(section)))
  PROVE  /\ Analyzed(section, "Trailers") = "Trailers"
         /\ TrailersErrors(section, "Trailers") = {}
  <1> DEFINE x == HeadersFrame(section)
             longer == Append(m, x)
             l == Len(m) + 1
  <1>1. kind \in Kinds
    BY DEF TypeOK
  <1>2. PICK h \in DOMAIN m : HeadedAt(m, h, phase, declared, length)
    BY <1>1, PlaceOfPhase
  <1>3. x \in Frames /\ x.type = "HEADERS" /\ x.section = section
    BY HeadersFrameTyped
  <1> DEFINE head == m[h].section
  <1> HIDE DEF x
  <1>4. /\ longer \in Seq(Frames) /\ DOMAIN longer = 1 .. l /\ Len(m) \in Nat
        /\ DOMAIN m = 1 .. Len(m) /\ longer[l] = x /\ l \in DOMAIN longer
    BY <1>3, Appended
  <1>5. /\ HeadAt(longer, h) /\ longer[h] = m[h] /\ head \in Sections /\ LegalHead(head)
    BY <1>2, <1>3, HeadAppended DEF HeadedAt, HeadAt
  <1>6. BytesBefore(longer, l) = Total(m)
    BY <1>3, TotalAppended
  <1>7. phase = HeadPhase(head) /\ declared = head.lengths /\ Counted(m, head, length)
    BY <1>2 DEF HeadedAt
  <1>8. LegalTrailers(longer, h, l)
    <2>1. Heads(longer) = {h}
      BY <1>4, <1>5, OneHead
    <2>2. l \in Headers(longer) /\ l > h
      BY <1>3, <1>4 DEF Headers
    <2>3. Legal(longer)
      BY DEF x
    <2> HIDE DEF longer, l
    <2> QED BY <2>1, <2>2, <2>3 DEF Legal
  <1>9. longer[h].section = head /\ longer[l].section = section
    BY <1>3, <1>4, <1>5
  <1> HIDE DEF longer, l, head
  <1>10. /\ section.form = "regular" /\ ~HasContentLength(section)
         /\ ~IsTunnel(head) /\ head.status # 204
         /\ ~IsBodiless(head) => \A d \in head.lengths : Total(m) = d
    BY <1>6, <1>8, <1>9 DEF LegalTrailers
  <1>11. phase \in {"Content", "NoContentTrailers"}
    BY <1>1, <1>5, <1>7, <1>10, HeadPhases
  <1>12. phase = "Content" => LengthMatches
    <2>1. phase = "Content" => ~IsBodiless(head)
      BY <1>1, <1>5, <1>7, HeadPhases
    <2>2. phase = "Content" => Total(m) = length
      BY <1>7, <1>10, <2>1 DEF Counted
    <2> QED BY <1>7, <1>10, <2>1, <2>2 DEF LengthMatches
  <1> QED BY <1>10, <1>11, <1>12 DEF Analyzed, TrailersErrors

\* There is no second trailer section.
LEMMA SecondTrailersRefused ==
  ASSUME kind \in Kinds, NEW m \in Seq(Frames), NEW section \in Sections,
         NEW lengths, NEW received, PlacedAt(m, "Trailers", lengths, received)
  PROVE  ~Legal(Append(m, HeadersFrame(section)))
  <1> DEFINE x == HeadersFrame(section)
             longer == Append(m, x)
             l == Len(m) + 1
  <1>1. \E h, t \in DOMAIN m : TrailedAt(m, h, t, "Trailers")
    BY PlaceOfPhase
  <1>2. PICK h \in DOMAIN m, t \in DOMAIN m : TrailedAt(m, h, t, "Trailers")
    BY <1>1
  <1>3. x \in Frames /\ x.type = "HEADERS" /\ x.section = section
    BY HeadersFrameTyped
  <1> HIDE DEF x
  <1>4. /\ longer \in Seq(Frames) /\ DOMAIN longer = 1 .. l /\ Len(m) \in Nat
        /\ DOMAIN m = 1 .. Len(m) /\ longer[l] = x /\ \A i \in 1 .. Len(m) : longer[i] = m[i]
    BY <1>3, Appended
  <1>5. Heads(longer) = {h}
    BY <1>2, <1>3, <1>4, HeadAppended, OneHead DEF TrailedAt
  <1> HIDE DEF longer
  <1>6. /\ l \in Headers(longer) /\ l > h /\ t \in Headers(longer)
        /\ ~ (t <= h) /\ t # l
    BY <1>2, <1>3, <1>4 DEF Headers, TrailedAt
  <1>7. ~LegalTrailers(longer, h, l)
    BY <1>6 DEF LegalTrailers
  <1> QED BY <1>5, <1>6, <1>7 DEF Legal, longer, x

-----------------------------------------------------------------------------
(***************************************************************************)
(* The steps.                                                              *)
(***************************************************************************)
\* finish accepts the whole messages and no other.
LEMMA FinishedExactlyWhole ==
  ASSUME TypeOK, Matches(position), PlacedAt(frames, phase, declared, length)
  PROVE  Whole(frames) <=> /\ position \notin {"BeforeHeaders", "BeforeFinalResponse"}
                           /\ ContentFinishErrors = {}
  <1>1. kind \in Kinds /\ frames \in Seq(Frames)
    BY DEF TypeOK
  <1>2. Legal(frames)
    BY <1>1, PlacedIsLegal
  <1>3. CASE phase \in {"BeforeInitial", "BeforeFinal"}
    <2>1. Heads(frames) = {}
      BY <1>1, <1>3, PlaceOfPhase, NoHead DEF NoHeadYet
    <2> QED BY <1>3, <2>1 DEF Whole, Matches
  <1>4. CASE phase \in {"Content", "NoContent", "NoContentTrailers", "Tunnel"}
    <2>1. PICK h \in DOMAIN frames : HeadedAt(frames, h, phase, declared, length)
      BY <1>1, <1>4, PlaceOfPhase
    <2>2. Heads(frames) = {h} /\ position = "Content"
      BY <1>1, <1>4, <2>1, OneHead DEF HeadedAt, Matches
    <2> DEFINE head == frames[h].section
    <2>3. /\ head \in Sections /\ LegalHead(head) /\ phase = HeadPhase(head)
          /\ declared = head.lengths /\ Counted(frames, head, length)
      BY <1>1, <2>1, FrameSections DEF HeadedAt, HeadAt
    <2> HIDE DEF head
    <2>4. Whole(frames) <=> \/ IsTunnel(head) \/ IsBodiless(head)
                            \/ \A d \in head.lengths : Total(frames) = d
      BY <1>2, <2>2 DEF Whole, Total, head
    <2>5. CASE phase # "Content"
      <3>1. IsTunnel(head) \/ IsBodiless(head)
        BY <1>1, <1>4, <2>3, <2>5, HeadPhases
      <3>2. ContentFinishErrors = {}
        BY <1>4, <2>5 DEF ContentFinishErrors
      <3> QED BY <2>2, <2>4, <3>1, <3>2
    <2>6. CASE phase = "Content"
      <3>1. ~IsTunnel(head) /\ ~IsBodiless(head)
        BY <1>1, <2>3, <2>6, HeadPhases
      <3>2. Total(frames) = length
        BY <2>3, <3>1 DEF Counted
      <3>3. ContentFinishErrors = {} <=> \A d \in head.lengths : d = length
        BY <2>3, <2>6 DEF ContentFinishErrors, LengthMatches
      <3> QED BY <2>2, <2>4, <3>1, <3>2, <3>3
    <2> QED BY <2>5, <2>6
  <1>5. CASE phase = "Trailers"
    <2>1. \E h, t \in DOMAIN frames : TrailedAt(frames, h, t, phase)
      BY <1>1, <1>5, PlaceOfPhase
    <2>2. PICK h \in DOMAIN frames, t \in DOMAIN frames : TrailedAt(frames, h, t, phase)
      BY <2>1
    <2>3. Heads(frames) = {h} /\ position = "Trailers"
      BY <1>1, <1>5, <2>2, OneHead DEF TrailedAt, Matches
    <2>4. LegalTrailers(frames, h, t) /\ BytesBefore(frames, t) = Total(frames)
      BY <2>2 DEF TrailedAt
    <2>5. \/ IsBodiless(frames[h].section)
          \/ \A d \in frames[h].section.lengths : Total(frames) = d
      BY <2>4 DEF LegalTrailers
    <2>6. Whole(frames)
      BY <1>2, <2>3, <2>5 DEF Whole, Total
    <2>7. ContentFinishErrors = {}
      BY <1>5 DEF ContentFinishErrors
    <2> QED BY <2>3, <2>6, <2>7
  <1> QED BY <1>3, <1>4, <1>5 DEF TypeOK, Phases

\* What is said of a list of frames depends on the kind alone, which no step changes.
LEMMA SaidOfFrames ==
  ASSUME UNCHANGED kind, NEW m, NEW p, NEW lengths, NEW received
  PROVE  /\ PlacedAt(m, p, lengths, received)' <=> PlacedAt(m, p, lengths, received)
         /\ Legal(m)' <=> Legal(m)
         /\ Whole(m)' <=> Whole(m)
  <1>1. \A section : /\ IsTunnel(section)' <=> IsTunnel(section)
                     /\ IsBodiless(section)' <=> IsBodiless(section)
                     /\ LegalHead(section)' <=> LegalHead(section)
                     /\ HeadPhase(section)' = HeadPhase(section)
    BY DEF IsTunnel, IsBodiless, LegalHead, HeadPhase, FinalPhase
  <1>2. \A h, i : /\ LegalTrailers(m, h, i)' <=> LegalTrailers(m, h, i)
                  /\ LegalContent(m, h)' <=> LegalContent(m, h)
    BY <1>1 DEF LegalTrailers, LegalContent
  <1>3. Legal(m)' <=> Legal(m)
    BY <1>1, <1>2 DEF Legal
  <1>4. Whole(m)' <=> Whole(m)
    BY <1>1, <1>3 DEF Whole
  <1>5. \A h : HeadAt(m, h)' <=> HeadAt(m, h)
    BY <1>1 DEF HeadAt, ClearBefore
  <1>6. NoHeadYet(m, p)' <=> NoHeadYet(m, p)
    BY DEF NoHeadYet, ClearBefore
  <1>7. \A h : HeadedAt(m, h, p, lengths, received)' <=> HeadedAt(m, h, p, lengths, received)
    BY <1>1, <1>5 DEF HeadedAt, Counted
  <1>8. \A h, t : TrailedAt(m, h, t, p)' <=> TrailedAt(m, h, t, p)
    BY <1>2, <1>5 DEF TrailedAt
  <1>9. (\A i \in DOMAIN m : OtherErrors(m[i]) = {})' <=> \A i \in DOMAIN m : OtherErrors(m[i]) = {}
    BY DEF OtherErrors
  <1>10. PlacedAt(m, p, lengths, received)' <=> PlacedAt(m, p, lengths, received)
    BY <1>6, <1>7, <1>8, <1>9 DEF PlacedAt
  <1> QED BY <1>3, <1>4, <1>10

\* A step that refuses the last frame, or leaves a message that has been misread.
LEMMA RefusedTracks ==
  ASSUME UNCHANGED kind, outcome' \notin {Open, Complete}, pending' = Idle, ~ended',
         NEW m, m = frames', misread' \/ ~Legal(m)
  PROVE  Tracked'
  <1>1. Legal(frames)' <=> Legal(m)
    <2>1. Legal(frames)' <=> Legal(m)'
      OBVIOUS
    <2> QED BY <2>1, SaidOfFrames
  <1>2. AcceptedExactlyLegal'
    BY <1>1 DEF AcceptedExactlyLegal
  <1> QED BY <1>2 DEF Tracked, WholeIsComplete

\* A step that goes on.
LEMMA OpenTracks ==
  ASSUME UNCHANGED kind, outcome' = Open, ~ended',
         NEW m, m = Accounted', NEW p, p = phase', NEW lengths, lengths = declared',
         NEW received, received = length', PlacedAt(m, p, lengths, received),
         NEW s, s = Settled', Legal(s),
         pending' # Idle =>
           /\ frames' # << >>
           /\ frames'[Len(frames')] = [type |-> "HEADERS", section |-> pending'[1].section]
  PROVE  Tracked'
  <1>1. PlacedAt(Accounted, phase, declared, length)'
    <2>1. PlacedAt(Accounted, phase, declared, length)' <=> PlacedAt(m, p, lengths, received)'
      OBVIOUS
    <2> QED BY <2>1, SaidOfFrames
  <1>2. Legal(Settled)'
    <2>1. Legal(Settled)' <=> Legal(s)'
      OBVIOUS
    <2> QED BY <2>1, SaidOfFrames
  <1>3. AcceptedExactlyLegal'
    BY <1>2 DEF AcceptedExactlyLegal
  <1> QED BY <1>1, <1>3 DEF Tracked, WholeIsComplete

\* What the invariant says when no section is being read.
LEMMA IdleParts ==
  ASSUME Inv, outcome = Open, pending = Idle
  PROVE  /\ TypeOK /\ kind \in Kinds /\ frames \in Seq(Frames) /\ ~ended
         /\ Matches(position) /\ PlacedAt(frames, phase, declared, length) /\ Legal(frames)
         /\ Accounted = frames /\ Settled = frames
  <1>1. TypeOK /\ kind \in Kinds /\ frames \in Seq(Frames) /\ ~ended
    BY DEF Inv, Tracked, TypeOK
  <1>2. Matches(position)
    BY DEF Inv, InStep
  <1>3. Accounted = frames /\ Settled = frames
    BY DEF Accounted, Settled
  <1>4. PlacedAt(frames, phase, declared, length)
    BY <1>3 DEF Inv, Tracked
  <1> QED BY <1>1, <1>2, <1>3, <1>4, PlacedIsLegal

LEMMA EndStreamTracks ==
  ASSUME Inv, EndStream
  PROVE  Tracked'
  <1>1. /\ outcome = Open /\ pending = Idle /\ ended' = TRUE
        /\ UNCHANGED <<kind, frames, pending>>
        /\ outcome' \in IF position \in {"BeforeHeaders", "BeforeFinalResponse"}
                        THEN {"IncompleteMessage"}
                        ELSE IF ContentFinishErrors = {} THEN {Complete} ELSE ContentFinishErrors
    BY DEF EndStream, stream
  <1>2. Whole(frames) <=> /\ position \notin {"BeforeHeaders", "BeforeFinalResponse"}
                          /\ ContentFinishErrors = {}
    BY <1>1, IdleParts, FinishedExactlyWhole
  <1>3. outcome' # Open /\ (outcome' = Complete <=> Whole(frames))
    <2>1. ContentFinishErrors \subseteq {"IncompleteMessage", "ContentLengthMismatch"}
      BY DEF ContentFinishErrors
    <2> QED BY <1>1, <1>2, <2>1 DEF Open, Complete
  <1>4. (Whole(frames)' <=> Whole(frames)) /\ (Legal(frames)' <=> Legal(frames))
    <2>1. PICK m : m = frames
      OBVIOUS
    <2>2. (Whole(frames)' <=> Whole(m)') /\ (Legal(frames)' <=> Legal(m)')
      BY <1>1, <2>1
    <2>3. (Whole(m)' <=> Whole(m)) /\ (Legal(m)' <=> Legal(m))
      BY <1>1, SaidOfFrames
    <2> QED BY <2>1, <2>2, <2>3
  <1>5. Legal(frames) /\ Settled' = frames'
    BY <1>1, IdleParts DEF Settled
  <1>6. Legal(Settled)' <=> Legal(frames)'
    BY <1>5
  <1> QED BY <1>1, <1>3, <1>4, <1>5, <1>6 DEF Tracked, AcceptedExactlyLegal, WholeIsComplete

LEMMA ReceiveOtherTracks ==
  ASSUME Inv, ReceiveOther
  PROVE  Tracked'
  <1>1. PICK x \in Frames : /\ x.type \notin {"HEADERS", "DATA"} /\ Receives(x)
                            /\ Concludes(OtherErrors(x))
                            /\ UNCHANGED <<stream, content, pending, misread, ended>>
    BY DEF ReceiveOther
  <1>2. /\ outcome = Open /\ pending = Idle /\ pending' = Idle /\ frames' = Append(frames, x)
        /\ UNCHANGED <<kind, phase, declared, length, ended>>
    BY <1>1 DEF Receives, stream, content
  <1>3. /\ kind \in Kinds /\ frames \in Seq(Frames) /\ ~ended
        /\ PlacedAt(frames, phase, declared, length)
    BY <1>2, IdleParts
  <1>4. PICK m : m = frames'
    OBVIOUS
  <1>5. CASE OtherErrors(x) = {}
    <2>1. /\ outcome' = Open /\ Accounted' = frames' /\ Settled' = frames'
      BY <1>1, <1>2, <1>5 DEF Concludes, Accounted, Settled
    <2>2. PlacedAt(m, phase, declared, length)
      BY <1>1, <1>2, <1>3, <1>4, <1>5, OtherAppended
    <2>3. Legal(m)
      <3>1. m \in Seq(Frames)
        BY <1>1, <1>2, <1>3, <1>4, Appended
      <3> QED BY <1>3, <2>2, <3>1, PlacedIsLegal
    <2>4. PICK p, lengths, received : p = phase /\ lengths = declared /\ received = length
      OBVIOUS
    <2> QED BY <1>2, <1>3, <1>4, <2>1, <2>2, <2>3, <2>4, OpenTracks
  <1>6. CASE OtherErrors(x) # {}
    <2>1. ~Legal(m)
      BY <1>1, <1>2, <1>3, <1>4, <1>6, OtherRefused
    <2>2. outcome' \notin {Open, Complete}
      BY <1>1, <1>6 DEF Concludes, OtherErrors, Open, Complete
    <2> QED BY <1>2, <1>3, <1>4, <2>1, <2>2, RefusedTracks
  <1> QED BY <1>5, <1>6

\* What the invariant says of the section being read.
LEMMA PendingParts ==
  ASSUME Inv, pending # Idle
  PROVE  LET section == pending[1].section
             m == SubSeq(frames, 1, Len(frames) - 1)
         IN  /\ TypeOK /\ kind \in Kinds /\ frames \in Seq(Frames) /\ frames # << >>
             /\ outcome = Open /\ ~ended
             /\ section \in Sections /\ m \in Seq(Frames)
             /\ frames = Append(m, HeadersFrame(section)) /\ Settled = m
             /\ frames[Len(frames)] = HeadersFrame(section)
  <1>1. TypeOK /\ kind \in Kinds /\ frames \in Seq(Frames)
    BY DEF Inv, TypeOK
  <1>2. /\ outcome = Open /\ ~ended /\ frames # << >>
        /\ frames[Len(frames)] = HeadersFrame(pending[1].section)
    BY DEF Inv, Tracked, HeadersFrame
  <1>3. pending[1].section \in Sections
    BY <1>1 DEF TypeOK
  <1>4. ASSUME NEW f \in Seq(Frames), f # << >>
        PROVE  LET m == SubSeq(f, 1, Len(f) - 1)
               IN  m \in Seq(Frames) /\ f = Append(m, f[Len(f)])
    BY <1>4
  <1>5. LET m == SubSeq(frames, 1, Len(frames) - 1)
        IN  m \in Seq(Frames) /\ frames = Append(m, frames[Len(frames)])
    BY <1>1, <1>2, <1>4
  <1>6. Settled = SubSeq(frames, 1, Len(frames) - 1)
    BY DEF Settled
  <1> QED BY <1>1, <1>2, <1>3, <1>5, <1>6

LEMMA ReceiveDataTracks ==
  ASSUME Inv, ReceiveData
  PROVE  Tracked'
  <1>1. PICK n \in 0 .. MaxData :
          /\ Receives([type |-> "DATA", length |-> n])
          /\ \/ /\ position # "Content" /\ outcome' = "UnexpectedFrame"
                /\ UNCHANGED length
             \/ /\ position = "Content" /\ phase = "Tunnel"
                /\ UNCHANGED <<outcome, length>>
             \/ /\ position = "Content" /\ phase # "Tunnel"
                /\ Concludes(DataErrors(n))
                /\ length' = IF DataErrors(n) = {} THEN length + n ELSE length
          /\ UNCHANGED <<stream, phase, declared, pending, misread, ended>>
    BY DEF ReceiveData
  <1>2. PICK x : x = [type |-> "DATA", length |-> n]
    OBVIOUS
  <1>3. /\ outcome = Open /\ pending = Idle /\ pending' = Idle /\ frames' = Append(frames, x)
        /\ UNCHANGED <<kind, phase, declared, ended>>
    BY <1>1, <1>2 DEF Receives, stream
  <1>4. /\ TypeOK /\ kind \in Kinds /\ frames \in Seq(Frames) /\ ~ended /\ Matches(position)
        /\ PlacedAt(frames, phase, declared, length)
    BY <1>3, IdleParts
  <1>5. PICK m : m = frames'
    OBVIOUS
  <1>6. m = Append(frames, x) /\ x \in Frames /\ x.type = "DATA" /\ m \in Seq(Frames)
    BY <1>2, <1>3, <1>4, <1>5 DEF Frames
  <1>7. Accounted' = m /\ Settled' = m
    BY <1>3, <1>5 DEF Accounted, Settled
  <1>8. PICK p, lengths : p = phase /\ lengths = declared
    OBVIOUS
  <1>9. ASSUME outcome' = Open, NEW received, received = length', PlacedAt(m, p, lengths, received)
        PROVE  Tracked'
    <2>1. Legal(m)
      BY <1>4, <1>6, <1>9, PlacedIsLegal
    <2> QED BY <1>3, <1>4, <1>7, <1>8, <1>9, <2>1, OpenTracks
  <1>10. ASSUME outcome' \notin {Open, Complete}, ~Legal(m)
         PROVE  Tracked'
    BY <1>3, <1>4, <1>5, <1>10, RefusedTracks
  <1>11. CASE position # "Content"
    <2>1. outcome' \notin {Open, Complete}
      BY <1>1, <1>11 DEF Open, Complete
    <2>2. phase \in {"BeforeInitial", "BeforeFinal", "Trailers"}
      BY <1>4, <1>11 DEF Matches
    <2>3. NoHeadYet(frames, phase) \/ \E h, t \in DOMAIN frames : TrailedAt(frames, h, t, phase)
      BY <1>4, <2>2, PlaceOfPhase
    <2>4. ~Legal(m)
      BY <1>4, <1>6, <2>3, MisplacedDataRefused
    <2> QED BY <1>10, <2>1, <2>4
  <1>12. CASE position = "Content"
    <2>1. phase \in {"Content", "NoContent", "NoContentTrailers", "Tunnel"}
      BY <1>4, <1>12 DEF Matches
    <2>2. /\ phase = "Tunnel" => PlacedAt(m, phase, declared, length)
          /\ phase # "Tunnel" /\ DataErrors(n) = {} =>
               PlacedAt(m, phase, declared, length + n)
          /\ phase # "Tunnel" /\ DataErrors(n) # {} => ~Legal(m)
      BY <1>2, <1>4, <1>6, <2>1, DataPlaced
    <2>3. CASE phase = "Tunnel"
      <3>1. PICK received : received = length
        OBVIOUS
      <3>2. outcome' = Open /\ received = length'
        BY <1>1, <1>3, <1>12, <2>3, <3>1
      <3>3. PlacedAt(m, p, lengths, received)
        BY <1>8, <2>2, <2>3, <3>1
      <3> QED BY <1>9, <3>2, <3>3
    <2>4. CASE phase # "Tunnel" /\ DataErrors(n) = {}
      <3>1. PICK received : received = length + n
        OBVIOUS
      <3>2. outcome' = Open /\ received = length'
        BY <1>1, <1>3, <1>12, <2>4, <3>1 DEF Concludes
      <3>3. PlacedAt(m, p, lengths, received)
        BY <1>8, <2>2, <2>4, <3>1
      <3> QED BY <1>9, <3>2, <3>3
    <2>5. CASE phase # "Tunnel" /\ DataErrors(n) # {}
      <3>1. outcome' \in DataErrors(n)
        BY <1>1, <1>12, <2>5 DEF Concludes
      <3>2. outcome' \notin {Open, Complete}
        BY <3>1 DEF DataErrors, Open, Complete
      <3> QED BY <1>10, <2>2, <2>5, <3>2
    <2> QED BY <2>3, <2>4, <2>5
  <1> QED BY <1>11, <1>12

LEMMA ReceiveHeadersTracks ==
  ASSUME Inv, ReceiveHeaders
  PROVE  Tracked'
  <1>1. PICK section \in Sections :
          /\ Receives([type |-> "HEADERS", section |-> section])
          /\ IF position = "Trailers"
             THEN outcome' = "UnexpectedFrame" /\ UNCHANGED pending
             ELSE pending' = <<[section |-> section, role |-> "unread"]>> /\ UNCHANGED outcome
          /\ UNCHANGED <<stream, content, misread, ended>>
    BY DEF ReceiveHeaders
  <1>2. /\ outcome = Open /\ pending = Idle /\ frames' = Append(frames, HeadersFrame(section))
        /\ UNCHANGED <<kind, phase, declared, length, ended>>
    BY <1>1 DEF Receives, stream, content, HeadersFrame
  <1>3. /\ kind \in Kinds /\ frames \in Seq(Frames) /\ ~ended /\ Matches(position)
        /\ PlacedAt(frames, phase, declared, length) /\ Legal(frames)
    BY <1>2, IdleParts
  <1>4. CASE position = "Trailers"
    <2>1. phase = "Trailers"
      BY <1>3, <1>4 DEF Matches
    <2>2. PICK m : m = frames'
      OBVIOUS
    <2>3. ~Legal(m)
      BY <1>2, <1>3, <2>1, <2>2, SecondTrailersRefused
    <2>4. outcome' \notin {Open, Complete} /\ pending' = Idle
      BY <1>1, <1>2, <1>4 DEF Open, Complete
    <2> QED BY <1>2, <1>3, <2>2, <2>3, <2>4, RefusedTracks
  <1>5. CASE position # "Trailers"
    <2>1. PICK m, p, lengths, received :
            m = frames /\ p = phase /\ lengths = declared /\ received = length
      OBVIOUS
    <2>2. outcome' = Open /\ pending' = <<[section |-> section, role |-> "unread"]>>
      BY <1>1, <1>2, <1>5
    <2>3. /\ outcome' = Open /\ pending' # Idle
          /\ pending'[1].role = "unread" /\ pending'[1].section = section
      BY <2>2 DEF Idle
    <2>4. /\ frames' # << >> /\ frames'[Len(frames')] = HeadersFrame(section)
          /\ SubSeq(frames', 1, Len(frames') - 1) = m
      <3>1. ASSUME NEW f \in Seq(Frames), NEW x \in Frames
            PROVE  LET g == Append(f, x)
                   IN  g # << >> /\ g[Len(g)] = x /\ SubSeq(g, 1, Len(g) - 1) = f
        OBVIOUS
      <3> QED BY <1>2, <1>3, <2>1, <3>1, HeadersFrameTyped
    <2>5. Accounted' = m /\ Settled' = m
      BY <2>3, <2>4 DEF Accounted, Settled
    <2> QED BY <1>2, <1>3, <2>1, <2>3, <2>4, <2>5, OpenTracks DEF HeadersFrame
  <1> QED BY <1>4, <1>5

LEMMA AcceptHeadersTracks ==
  ASSUME Inv, AcceptHeaders
  PROVE  Tracked'
  <1>1. /\ pending # Idle /\ pending[1].role # "unread" /\ pending' = Idle
        /\ UNCHANGED <<kind, phase, declared, length, frames, ended>>
    BY DEF AcceptHeaders, content
  <1>2. /\ kind \in Kinds /\ frames \in Seq(Frames) /\ outcome = Open /\ ~ended
    BY <1>1, PendingParts
  <1>3. outcome' = Open
    <2>1. NextPositions(pending[1].role) # {}
      BY <1>1 DEF Inv, InStep
    <2> QED BY <1>2, <2>1 DEF AcceptHeaders
  <1>4. PICK m, p, lengths, received :
          m = frames /\ p = phase /\ lengths = declared /\ received = length
    OBVIOUS
  <1>5. PlacedAt(m, p, lengths, received) /\ Legal(m)
    <2>1. Accounted = frames
      BY <1>1 DEF Accounted
    <2>2. PlacedAt(frames, phase, declared, length)
      BY <1>2, <2>1 DEF Inv, Tracked
    <2> QED BY <1>2, <1>4, <2>2, PlacedIsLegal
  <1>6. Accounted' = m /\ Settled' = m
    BY <1>1, <1>4 DEF Accounted, Settled
  <1> QED BY <1>1, <1>2, <1>3, <1>4, <1>5, <1>6, OpenTracks

\* A section whose reading fails is not legal there, if it is read as its position says.
LEMMA FailedReading ==
  ASSUME Inv, pending # Idle, pending[1].role = "unread",
         NEW section, section = pending[1].section,
         NEW role, role = Analyzed(section, IntendedContext),
         role = "Invalid" \/ SectionErrors(section, role, IntendedContext) # {}
  PROVE  ~Legal(frames)
  <1>1. PICK m : m = SubSeq(frames, 1, Len(frames) - 1)
    OBVIOUS
  <1>2. /\ TypeOK /\ kind \in Kinds /\ section \in Sections /\ m \in Seq(Frames)
        /\ frames = Append(m, HeadersFrame(section)) /\ outcome = Open
    BY <1>1, PendingParts
  <1>3. PlacedAt(m, phase, declared, length) /\ Matches(position)
    BY <1>1, <1>2 DEF Inv, Tracked, InStep, Accounted
  <1>4. CASE phase \in {"BeforeInitial", "BeforeFinal"}
    <2>1. phase = IF kind = "Request" THEN "BeforeInitial" ELSE "BeforeFinal"
      BY <1>2, <1>3, <1>4, PlaceOfPhase DEF NoHeadYet
    <2>2. IntendedContext = IF kind = "Request" THEN "Request" ELSE "Response"
      BY <1>3, <2>1 DEF Matches, IntendedContext
    <2>3. Legal(frames) => role # "Invalid" /\ InitialHeadersErrors(section, role) = {}
      BY <1>2, <1>3, <1>4, <2>2, LegalHeadAccepted
    <2> QED BY <2>2, <2>3 DEF SectionErrors
  <1>5. CASE phase \in {"Content", "NoContent", "NoContentTrailers", "Tunnel"}
    <2>1. IntendedContext = "Trailers"
      BY <1>3, <1>5 DEF Matches, IntendedContext
    <2>2. Legal(frames) => role = "Trailers" /\ TrailersErrors(section, role) = {}
      BY <1>2, <1>3, <1>5, <2>1, LegalTrailersAccepted
    <2> QED BY <2>1, <2>2 DEF SectionErrors
  <1>6. CASE phase = "Trailers"
    BY <1>2, <1>3, <1>6, SecondTrailersRefused
  <1> QED BY <1>2, <1>4, <1>5, <1>6 DEF TypeOK, Phases

\* A section that is accounted for has its place, in whatever context it is read.
LEMMA ReadingPlaced ==
  ASSUME TypeOK, NEW m \in Seq(Frames), NEW section \in Sections,
         PlacedAt(m, phase, declared, length), NEW context \in Contexts,
         NEW role, role = Analyzed(section, context), role # "Invalid",
         SectionErrors(section, role, context) = {}
  PROVE  PlacedAt(Append(m, HeadersFrame(section)), PhaseAfter(section, role),
                  IF role \in {"Request", "FinalResponse"} THEN section.lengths ELSE declared,
                  length)
  <1>1. CASE context = "Trailers"
    <2>1. role = "Trailers" /\ section.form = "regular" /\ TrailersErrors(section, role) = {}
      BY <1>1 DEF Analyzed, SectionErrors
    <2>2. \A lengths, received :
            PlacedAt(Append(m, HeadersFrame(section)), "Trailers", lengths, received)
      BY <2>1, TrailersPlaced
    <2> QED BY <2>1, <2>2 DEF PhaseAfter
  <1>2. CASE context # "Trailers"
    <2>1. role # "Trailers" /\ InitialHeadersErrors(section, role) = {}
      BY <1>2 DEF Analyzed, SectionErrors
    <2> QED BY <2>1, HeadPlaced
  <1> QED BY <1>1, <1>2

LEMMA ReadSectionTracks ==
  ASSUME Inv, ReadSection
  PROVE  Tracked'
  <1>1. PICK section : section = pending[1].section
    OBVIOUS
  <1>2. PICK context \in Contexts :
          /\ misread' = (misread \/ context # IntendedContext)
          /\ \/ /\ Analyzed(section, context) = "Invalid" /\ outcome' = "InvalidFieldSection"
                /\ pending' = Idle
                /\ UNCHANGED <<phase, declared>>
             \/ /\ Analyzed(section, context) # "Invalid"
                /\ AccountSection(section, Analyzed(section, context), context)
    BY <1>1 DEF ReadSection
  <1>3. PICK role : role = Analyzed(section, context)
    OBVIOUS
  <1>4. PICK s : s = SubSeq(frames, 1, Len(frames) - 1)
    OBVIOUS
  <1>5. /\ pending # Idle /\ pending[1].role = "unread"
        /\ UNCHANGED <<kind, length, frames, ended>>
    BY DEF ReadSection, stream
  <1>6. /\ TypeOK /\ kind \in Kinds /\ frames \in Seq(Frames) /\ frames # << >>
        /\ outcome = Open /\ ~ended /\ section \in Sections /\ s \in Seq(Frames)
        /\ frames = Append(s, HeadersFrame(section))
        /\ frames[Len(frames)] = HeadersFrame(section)
    BY <1>1, <1>4, <1>5, PendingParts
  <1>7. PlacedAt(s, phase, declared, length)
    BY <1>4, <1>5, <1>6 DEF Inv, Tracked, Accounted
  <1>8. PICK m : m = frames
    OBVIOUS
  <1>9. role \in (Roles \ {"unread"}) \cup {"Invalid"}
    BY <1>3, AnalyzedRole
  <1>10. CASE role = "Invalid" \/ SectionErrors(section, role, context) # {}
    <2>1. outcome' \notin {Open, Complete} /\ pending' = Idle
      <3>1. CASE role = "Invalid"
        BY <1>2, <1>3, <3>1 DEF Open, Complete
      <3>2. CASE role # "Invalid"
        <4>1. /\ outcome' \in SectionErrors(section, role, context)
              /\ pending' = Idle
          BY <1>2, <1>3, <1>10, <3>2 DEF AccountSection, SectionErrors
        <4> QED BY <4>1 DEF SectionErrors, TrailersErrors, InitialHeadersErrors, Open, Complete
      <3> QED BY <3>1, <3>2
    <2>2. misread' \/ ~Legal(m)
      <3>1. CASE context = IntendedContext
        BY <1>1, <1>3, <1>5, <1>8, <1>10, <3>1, FailedReading
      <3> QED BY <1>2, <3>1
    <2> QED BY <1>5, <1>6, <1>8, <2>1, <2>2, RefusedTracks
  <1>11. CASE role # "Invalid" /\ SectionErrors(section, role, context) = {}
    <2>1. /\ outcome' = Open
          /\ pending' = <<[section |-> section, role |-> role]>>
          /\ phase' = PhaseAfter(section, role)
          /\ declared' = IF role \in {"Request", "FinalResponse"}
                         THEN section.lengths ELSE declared
      BY <1>2, <1>3, <1>6, <1>11 DEF AccountSection, SectionErrors
    <2>2. PICK p, lengths, received :
            /\ p = PhaseAfter(section, role) /\ received = length
            /\ lengths = IF role \in {"Request", "FinalResponse"}
                         THEN section.lengths ELSE declared
      OBVIOUS
    <2>3. PlacedAt(m, p, lengths, received)
      BY <1>3, <1>6, <1>7, <1>8, <1>11, <2>2, ReadingPlaced
    <2>4. /\ pending' # Idle /\ pending'[1].role # "unread" /\ pending'[1].section = section
      BY <1>9, <1>11, <2>1 DEF Idle
    <2>5. Accounted' = m /\ Settled' = s
      BY <1>4, <1>5, <1>8, <2>4 DEF Accounted, Settled
    <2>6. Legal(s)
      BY <1>6, <1>7, PlacedIsLegal
    <2> QED BY <1>5, <1>6, <2>1, <2>2, <2>3, <2>4, <2>5, <2>6, OpenTracks DEF HeadersFrame
  <1> QED BY <1>10, <1>11

LEMMA StutterTracks ==
  ASSUME Tracked, UNCHANGED vars
  PROVE  Tracked'
  <1>1. UNCHANGED <<kind, position, phase, declared, length, pending, outcome, frames, misread,
                    ended>>
    BY DEF vars
  <1>2. PICK a, p, lengths, received, f, s :
          /\ a = Accounted /\ p = phase /\ lengths = declared /\ received = length
          /\ f = frames /\ s = Settled
    OBVIOUS
  <1>3. a = Accounted' /\ s = Settled'
    BY <1>1, <1>2 DEF Accounted, Settled
  <1>4. PlacedAt(Accounted, phase, declared, length)' <=> PlacedAt(Accounted, phase, declared, length)
    <2>1. PlacedAt(Accounted, phase, declared, length)' <=> PlacedAt(a, p, lengths, received)'
      BY <1>1, <1>2, <1>3
    <2> QED BY <1>1, <1>2, <2>1, SaidOfFrames
  <1>5. (Legal(frames)' <=> Legal(frames)) /\ (Whole(frames)' <=> Whole(frames))
    <2>1. (Legal(frames)' <=> Legal(f)') /\ (Whole(frames)' <=> Whole(f)')
      BY <1>1, <1>2
    <2> QED BY <1>1, <1>2, <2>1, SaidOfFrames
  <1>6. Legal(Settled)' <=> Legal(Settled)
    <2>1. Legal(Settled)' <=> Legal(s)'
      BY <1>1, <1>2, <1>3
    <2> QED BY <1>1, <1>2, <2>1, SaidOfFrames
  <1> QED BY <1>1, <1>4, <1>5, <1>6 DEF Tracked, AcceptedExactlyLegal, WholeIsComplete

LEMMA InvInit == Init => Tracked
  <1> SUFFICES ASSUME Init PROVE Tracked
    OBVIOUS
  <1>1. /\ kind \in Kinds /\ pending = Idle /\ outcome = Open /\ frames = << >> /\ ~ended
        /\ phase = IF kind = "Request" THEN "BeforeInitial" ELSE "BeforeFinal"
    BY DEF Init
  <1>2. Accounted = << >> /\ Settled = << >> /\ << >> \in Seq(Frames) /\ DOMAIN << >> = {}
    BY <1>1 DEF Accounted, Settled
  <1>3. NoHeadYet(<< >>, phase)
    BY <1>1, <1>2, TotalOfNone DEF NoHeadYet, ClearBefore
  <1>4. PlacedAt(<< >>, phase, declared, length)
    BY <1>2, <1>3 DEF PlacedAt
  <1>5. Legal(<< >>)
    BY <1>1, <1>2, <1>4, PlacedIsLegal
  <1> QED BY <1>1, <1>2, <1>4, <1>5 DEF Tracked, AcceptedExactlyLegal, WholeIsComplete

\* What is kept summarizes the frames that have come, throughout.
THEOREM InvHolds == Spec => []Inv
  <1>1. Init => Inv
    BY InitType, InitInStep, InvInit DEF Inv
  <1>2. Inv /\ [Next]_vars => Inv'
    <2> SUFFICES ASSUME Inv, [Next]_vars PROVE Inv'
      OBVIOUS
    <2>1. TypeOK' /\ InStep'
      BY NextType, NextInStep DEF Inv
    <2>2. Tracked'
      BY ReceiveHeadersTracks, ReadSectionTracks, AcceptHeadersTracks, ReceiveDataTracks,
         ReceiveOtherTracks, EndStreamTracks, StutterTracks DEF Next, Inv
    <2> QED BY <2>1, <2>2 DEF Inv
  <1> QED BY <1>1, <1>2, PTL DEF Spec

\* receive, accept_initial_headers, accept_trailers and receive_data together admit nothing
\* that cannot begin a message, whatever context a section is read in, and refuse nothing
\* that can if each is read as its position says: for every set of sections, every length
\* of payload and every number of frames.
THEOREM ExactlyLegalAccepted == Spec => []AcceptedExactlyLegal
  <1>1. Inv => AcceptedExactlyLegal
    BY DEF Inv, Tracked
  <1> QED BY <1>1, InvHolds, PTL

\* finish of the stream and of the accounting accept the whole messages and no other.
THEOREM ExactlyWholeComplete == Spec => []WholeIsComplete
  <1>1. Inv => WholeIsComplete
    BY DEF Inv, Tracked
  <1> QED BY <1>1, InvHolds, PTL
=============================================================================

---------------------------- MODULE QpackConnection ----------------------------
(***************************************************************************)
(* One direction of a QPACK connection built from this crate's parts.      *)
(*                                                                         *)
(* The encoding side owns a dynamic table (encTable) and the accounting of *)
(* QpackEncoderState (outstanding, encKrc).  The decoding side owns its    *)
(* own table (decTable), a QpackDecoderState (decKrc) and a                *)
(* QpackBlockedStreams (blocked).  They are joined by three kinds of       *)
(* reliable, ordered streams that progress independently of each other:    *)
(* the encoder stream (instructions), the decoder stream (feedback) and    *)
(* one request stream per element of Streams (requests).  Every            *)
(* interleaving of the three is a behaviour.                               *)
(*                                                                         *)
(* The crate performs no I/O: an action is one call of its API by a caller *)
(* that follows its documentation, with the bytes the call produced put on *)
(* the stream they belong to, in the order of the calls.                   *)
(***************************************************************************)
EXTENDS Integers, Sequences, FiniteSets, QpackTable, QpackFieldSection, QpackLedger

CONSTANTS
  Capacities,      \* the table capacities the encoder chooses from
  ExplicitBases,   \* Bases the encoder may ask for instead of the default
  LineKinds,       \* which of the representations a section may use
  IntegerMax,      \* the largest QPACK integer (2^62 - 1 in the code)
  MaxInserts, MaxSections, MaxLines, MaxInFlight   \* bounds of the model

ASSUME ConnectionAssumption ==
  /\ Capacities \subseteq 0 .. MaxCapacity
  /\ ExplicitBases \subseteq Nat
  /\ LineKinds \subseteq {"indexed", "named", "literal"}
  /\ IntegerMax \in Nat \ {0}
  /\ {MaxInserts, MaxSections, MaxLines, MaxInFlight} \subseteq Nat

VARIABLES
  encTable, outstanding, encKrc, sectionCount,   \* the encoding side
  decTable, decKrc, blocked, unacknowledged,     \* the decoding side
  instructions, requests, feedback,              \* the streams between them
  cancelled,    \* the streams the decoding side has abandoned
  delivered,    \* the last field section handed to the application
  failed        \* the first error a call returned to either side

encoderVars == <<encTable, outstanding, encKrc, sectionCount>>
decoderVars == <<decTable, decKrc, blocked, unacknowledged>>
wireVars == <<instructions, requests, feedback>>
vars == <<encoderVars, decoderVars, wireVars, cancelled, delivered, failed>>

-----------------------------------------------------------------------------
(* Encoder-stream instructions and what they insert. *)

Instruction ==
  [type : {"capacity"}, capacity : Nat]
    \union [type : {"literal"}, field : Field]
    \union [type : {"name"}, index : Nat, value : Values]
    \union [type : {"duplicate"}, index : Nat]

\* An encoder-relative index names the entry that many insertions back.
RelativeEntry(t, index) == EntryAt(t, t.insertCount - index - 1)

RelativeIndexOk(t, index) == t.insertCount - index - 1 \in Active(t)

\* Whether an instruction's table reference resolves; the field it inserts.
SourceOk(t, i) ==
  i.type \in {"name", "duplicate"} => RelativeIndexOk(t, i.index)

InsertedField(t, i) ==
  CASE i.type = "literal"   -> i.field
    [] i.type = "name"      -> [name |-> RelativeEntry(t, i.index).name, value |-> i.value]
    [] i.type = "duplicate" -> RelativeEntry(t, i.index)

-----------------------------------------------------------------------------
(* Field sections: what is meant, what is sent, what is read back. *)

\* A line of a field plan refers to an entry by its absolute index.
PlanLines(t) ==
  LET lines == [kind : {"indexed"}, absolute : Active(t)]
                 \union [kind : {"named"}, absolute : Active(t), value : Values]
                 \union [kind : {"literal"}, field : Field]
  IN  {line \in lines : line.kind \in LineKinds}

Plans(t) == UNION {[1 .. n -> PlanLines(t)] : n \in 1 .. MaxLines}

IsDynamic(line) == line.kind \in {"indexed", "named"}

References(plan) ==
  {plan[i].absolute : i \in {j \in DOMAIN plan : IsDynamic(plan[j])}}

\* The Required Insert Count of a set of references.
IsRequired(ric, refs) ==
  IF refs = {} THEN ric = 0 ELSE ric - 1 \in refs /\ \A r \in refs : r < ric

\* The field a line stands for, given the absolute index it refers to.
Meaning(t, line, absolute) ==
  CASE line.kind = "indexed" -> EntryAt(t, absolute)
    [] line.kind = "named"   -> [name |-> EntryAt(t, absolute).name, value |-> line.value]
    [] line.kind = "literal" -> line.field

Meant(t, plan) ==
  [i \in DOMAIN plan |->
     Meaning(t, plan[i], IF IsDynamic(plan[i]) THEN plan[i].absolute ELSE 0)]

WireLine(line, base) ==
  CASE line.kind = "indexed" -> [kind |-> "indexed", at |-> LineIndex(line.absolute, base)]
    [] line.kind = "named"   -> [kind |-> "named", at |-> LineIndex(line.absolute, base),
                                 value |-> line.value]
    [] line.kind = "literal" -> line

\* "id" and "fields" are not on the wire: they say which section this is and
\* what its sender meant, for the properties.
WireSection(id, plan, ric, base) ==
  [id     |-> id,
   fields |-> Meant(encTable, plan),
   ric    |-> EncodedRic(ric),
   prefix |-> PrefixDelta(ric, base),
   lines  |-> [i \in DOMAIN plan |-> WireLine(plan[i], base)]]

\* What the decoder makes of a section's prefix, given its insert count.
ReadRic(section, total) == ReconstructedRic(section.ric, total)

ReadBase(section, total) == ResolvedBase(ReadRic(section, total), section.prefix)

IsBlocked(section, t) ==
  /\ ReadRic(section, t.insertCount) > t.insertCount
  /\ ReadBase(section, t.insertCount) # Invalid

\* A dynamic reference must lie below the RIC and still be in the table.
ReferenceOk(line, section, t) ==
  LET absolute == ResolvedIndex(line.at, ReadBase(section, t.insertCount))
  IN  /\ absolute >= 0
      /\ absolute < ReadRic(section, t.insertCount)
      /\ absolute \in Active(t)

IsDecodable(section, t) ==
  /\ ReadRic(section, t.insertCount) \in 0 .. t.insertCount
  /\ ReadBase(section, t.insertCount) # Invalid
  /\ \A i \in DOMAIN section.lines :
       IsDynamic(section.lines[i]) => ReferenceOk(section.lines[i], section, t)

ReadFields(section, t) ==
  [i \in DOMAIN section.lines |->
     LET line == section.lines[i]
     IN  Meaning(t, line, IF IsDynamic(line)
                          THEN ResolvedIndex(line.at, ReadBase(section, t.insertCount))
                          ELSE 0)]

HasReferences(section) == \E i \in DOMAIN section.lines : IsDynamic(section.lines[i])

-----------------------------------------------------------------------------
Init ==
  /\ encTable = EmptyTable
  /\ outstanding = << >>
  /\ encKrc = 0
  /\ sectionCount = 0
  /\ decTable = EmptyTable
  /\ decKrc = 0
  /\ blocked = << >>
  /\ unacknowledged = [s \in Streams |-> << >>]
  /\ instructions = << >>
  /\ requests = [s \in Streams |-> << >>]
  /\ feedback = << >>
  /\ cancelled = {}
  /\ delivered = << >>
  /\ failed = "none"

Running == failed = "none"

-----------------------------------------------------------------------------
(* The encoding side. *)

EvictionAllowed(keep) ==
  \A absolute \in Evicted(encTable, keep) : IsEvictable(outstanding, encKrc, absolute)

\* Setting the capacity a table already has changes nothing on either side and
\* is left out.
SetCapacity(c) ==
  /\ Running /\ Len(instructions) < MaxInFlight
  /\ c # encTable.capacity
  /\ \E keep \in 0 .. Len(encTable.entries) :
       /\ CanSetCapacity(encTable, c, keep)
       /\ EvictionAllowed(keep)
       /\ encTable' = WithCapacity(encTable, c, keep)
  /\ instructions' = Append(instructions, [type |-> "capacity", capacity |-> c])
  /\ UNCHANGED <<outstanding, encKrc, sectionCount, decoderVars, requests, feedback,
                 cancelled, delivered, failed>>

\* The instruction's index counts back from the table as it was before.
Insert(i) ==
  /\ Running /\ Len(instructions) < MaxInFlight
  /\ encTable.insertCount < MaxInserts
  /\ SourceOk(encTable, i)
  /\ \E keep \in 0 .. Len(encTable.entries) :
       /\ CanInsert(encTable, InsertedField(encTable, i), keep)
       /\ EvictionAllowed(keep)
       /\ encTable' = WithInserted(encTable, InsertedField(encTable, i), keep)
  /\ instructions' = Append(instructions, i)
  /\ UNCHANGED <<outstanding, encKrc, sectionCount, decoderVars, requests, feedback,
                 cancelled, delivered, failed>>

InsertLiteral == \E f \in Field : Insert([type |-> "literal", field |-> f])

InsertNameReference ==
  \E index \in 0 .. (Len(encTable.entries) - 1), v \in Values :
    Insert([type |-> "name", index |-> index, value |-> v])

Duplicate ==
  \E index \in 0 .. (Len(encTable.entries) - 1) :
    Insert([type |-> "duplicate", index |-> index])

\* The sender stops using a stream once it has seen it cancelled.
StreamUsable(s) ==
  s \in cancelled => \E i \in DOMAIN feedback :
                       feedback[i].type = "cancel" /\ feedback[i].stream = s

\* QpackFieldSectionEncoder::encode.  Nothing is written or registered unless
\* everything succeeds; a section without references is not registered.  The
\* receiver of an abandoned stream discards what still arrives on it.
EncodeSection(s) ==
  /\ Running /\ sectionCount < MaxSections /\ StreamUsable(s)
  /\ \E plan \in Plans(encTable), ric \in 0 .. encTable.insertCount :
     \E base \in {ric} \union {b \in ExplicitBases : b <= encTable.insertCount} :
       /\ IsRequired(ric, References(plan))
       /\ ric > 0 => MaxEntries > 0 /\ MayBlock(outstanding, encKrc, s, ric)
       /\ outstanding' =
            IF References(plan) = {} THEN outstanding
            ELSE Registered(outstanding, sectionCount,
                   [stream |-> s, ric |-> ric, refs |-> References(plan)])
       /\ requests' =
            IF s \in cancelled THEN requests
            ELSE [requests EXCEPT ![s] =
                    Append(@, WireSection(sectionCount, plan, ric, base))]
  /\ sectionCount' = sectionCount + 1
  /\ UNCHANGED <<encTable, encKrc, decoderVars, instructions, feedback,
                 cancelled, delivered, failed>>

\* QpackEncoderState::apply, one arm per instruction; errors change nothing
\* but end the connection.
ApplyAcknowledgment(s) ==
  IF OfStream(outstanding, s) = {}
  THEN /\ failed' = "decoder stream"
       /\ UNCHANGED <<outstanding, encKrc>>
  ELSE \E n \in DOMAIN outstanding :
         /\ IsFirstOf(outstanding, s, n)
         /\ encKrc' = Larger(encKrc, outstanding[n].ric)
         /\ outstanding' = Without(outstanding, {n})
         /\ UNCHANGED failed

\* Mutant: stops at the first section of the stream.
ApplyCancellationOfFirst(s) ==
  /\ \/ \E n \in DOMAIN outstanding :
          IsFirstOf(outstanding, s, n) /\ outstanding' = Without(outstanding, {n})
     \/ OfStream(outstanding, s) = {} /\ UNCHANGED outstanding
  /\ UNCHANGED <<encKrc, failed>>

ApplyCancellation(s) ==
  /\ outstanding' = Without(outstanding, OfStream(outstanding, s))
  /\ UNCHANGED <<encKrc, failed>>

ApplyIncrement(increment) ==
  /\ IF increment = 0 \/ encKrc + increment > encTable.insertCount
     THEN failed' = "decoder stream" /\ UNCHANGED encKrc
     ELSE encKrc' = encKrc + increment /\ UNCHANGED failed
  /\ UNCHANGED outstanding

ReceiveFeedback ==
  /\ Running /\ feedback # << >>
  /\ \/ Head(feedback).type = "ack" /\ ApplyAcknowledgment(Head(feedback).stream)
     \/ Head(feedback).type = "cancel" /\ ApplyCancellation(Head(feedback).stream)
     \/ Head(feedback).type = "increment" /\ ApplyIncrement(Head(feedback).increment)
  /\ feedback' = Tail(feedback)
  /\ UNCHANGED <<encTable, sectionCount, decoderVars, instructions, requests,
                 cancelled, delivered>>

-----------------------------------------------------------------------------
(* The decoding side. *)

\* QpackEncoderInstructionApplier::apply.  The decoder lets every entry go.
ApplyCapacity(c) ==
  IF c > MaxCapacity
  THEN failed' = "encoder stream" /\ UNCHANGED decTable
  ELSE /\ \E keep \in 0 .. Len(decTable.entries) :
            CanSetCapacity(decTable, c, keep) /\ decTable' = WithCapacity(decTable, c, keep)
       /\ UNCHANGED failed

\* Mutant: counts an index from the oldest entry.
ApplyInsertFromOldest(i) ==
  LET turned == IF i.type = "literal" THEN i
                ELSE [i EXCEPT !.index = Len(decTable.entries) - 1 - @]
  IN  /\ \E keep \in 0 .. Len(decTable.entries) :
            /\ SourceOk(decTable, turned)
            /\ CanInsert(decTable, InsertedField(decTable, turned), keep)
            /\ decTable' = WithInserted(decTable, InsertedField(decTable, turned), keep)
      /\ UNCHANGED failed

ApplyInsert(i) ==
  IF ~SourceOk(decTable, i) \/ EntrySize(InsertedField(decTable, i)) > decTable.capacity
  THEN failed' = "encoder stream" /\ UNCHANGED decTable
  ELSE /\ \E keep \in 0 .. Len(decTable.entries) :
            /\ CanInsert(decTable, InsertedField(decTable, i), keep)
            /\ decTable' = WithInserted(decTable, InsertedField(decTable, i), keep)
       /\ UNCHANGED failed

\* Mutant: waits for blocked streams before it reads instructions.
ReceiveInstructionUnblocked ==
  /\ Running /\ instructions # << >> /\ blocked = << >>
  /\ IF Head(instructions).type = "capacity"
     THEN ApplyCapacity(Head(instructions).capacity)
     ELSE ApplyInsert(Head(instructions))
  /\ instructions' = Tail(instructions)
  /\ UNCHANGED <<encoderVars, decKrc, blocked, unacknowledged, requests, feedback,
                 cancelled, delivered>>

ReceiveInstruction ==
  /\ Running /\ instructions # << >>
  /\ IF Head(instructions).type = "capacity"
     THEN ApplyCapacity(Head(instructions).capacity)
     ELSE ApplyInsert(Head(instructions))
  /\ instructions' = Tail(instructions)
  /\ UNCHANGED <<encoderVars, decKrc, blocked, unacknowledged, requests, feedback,
                 cancelled, delivered>>

\* A first or repeated decode of the oldest section of a stream, once its
\* insertions are there.  Success ends the stream's blocked record and leaves
\* an acknowledgment to be built if the section had references.
DecodeSection(s) ==
  /\ Running /\ requests[s] # << >>
  /\ LET section == Head(requests[s])
     IN  /\ ~IsBlocked(section, decTable)
         /\ IF IsDecodable(section, decTable)
            THEN /\ delivered' = <<s, ReadFields(section, decTable)>>
                 /\ requests' = [requests EXCEPT ![s] = Tail(@)]
                 /\ blocked' = Without(blocked, {s})
                 /\ unacknowledged' =
                      IF ~HasReferences(section) THEN unacknowledged
                      ELSE [unacknowledged EXCEPT ![s] =
                              Append(@, [id  |-> section.id,
                                         ric |-> ReadRic(section, decTable.insertCount)])]
                 /\ UNCHANGED failed
            ELSE /\ failed' = "decompression"
                 /\ UNCHANGED <<delivered, requests, blocked, unacknowledged>>
  /\ UNCHANGED <<encoderVars, decTable, decKrc, instructions, feedback, cancelled>>

ReadyStreams == {t \in DOMAIN blocked : blocked[t] <= decTable.insertCount}

\* A decode that reports Blocked, followed by QpackBlockedStreams::register.
\* The first i sections of the stream have started and none can be decoded.
\* The caller retries the streams that are ready before it admits another:
\* their records count against the limit until they are removed.
BlockSection(s) ==
  /\ Running /\ ReadyStreams = {}
  /\ \E i \in 1 .. Len(requests[s]) :
       /\ \A j \in 1 .. i : IsBlocked(requests[s][j], decTable)
       /\ LET ric == ReadRic(requests[s][i], decTable.insertCount)
          IN  IF s \in DOMAIN blocked
              THEN /\ blocked' = [blocked EXCEPT ![s] = Larger(@, ric)]
                   /\ UNCHANGED failed
              ELSE IF Cardinality(DOMAIN blocked) >= MaxBlockedStreams
              THEN failed' = "blocked streams" /\ UNCHANGED blocked
              ELSE blocked' = Registered(blocked, s, ric) /\ UNCHANGED failed
  /\ UNCHANGED <<encoderVars, decTable, decKrc, unacknowledged, wireVars,
                 cancelled, delivered>>

\* Mutant: acknowledges the last section decoded first.
AcknowledgeNewest(s) ==
  /\ Running /\ unacknowledged[s] # << >>
  /\ LET newest == unacknowledged[s][Len(unacknowledged[s])]
     IN  /\ feedback' = Append(feedback, [type |-> "ack", stream |-> s, id |-> newest.id])
         /\ decKrc' = Larger(decKrc, newest.ric)
  /\ unacknowledged' =
       [unacknowledged EXCEPT ![s] = SubSeq(@, 1, Len(@) - 1)]
  /\ UNCHANGED <<encoderVars, decTable, blocked, instructions, requests,
                 cancelled, delivered, failed>>

\* Mutant: takes an acknowledgment as a report of every insertion.
AcknowledgeEverything(s) ==
  /\ Running /\ unacknowledged[s] # << >>
  /\ feedback' = Append(feedback,
                   [type |-> "ack", stream |-> s, id |-> Head(unacknowledged[s]).id])
  /\ decKrc' = decTable.insertCount
  /\ unacknowledged' = [unacknowledged EXCEPT ![s] = Tail(@)]
  /\ UNCHANGED <<encoderVars, decTable, blocked, instructions, requests,
                 cancelled, delivered, failed>>

\* QpackDecoderState::acknowledge_field_section, in the order of decoding on
\* each stream; other calls may come between the decode and this one.
AcknowledgeSection(s) ==
  /\ Running /\ unacknowledged[s] # << >>
  /\ feedback' = Append(feedback,
                   [type |-> "ack", stream |-> s, id |-> Head(unacknowledged[s]).id])
  /\ decKrc' = Larger(decKrc, Head(unacknowledged[s]).ric)
  /\ unacknowledged' = [unacknowledged EXCEPT ![s] = Tail(@)]
  /\ UNCHANGED <<encoderVars, decTable, blocked, instructions, requests,
                 cancelled, delivered, failed>>

\* QpackDecoderState::cancel_stream and the end of the stream's records.
CancelStream(s) ==
  /\ Running /\ s \notin cancelled
  /\ feedback' = Append(feedback, [type |-> "cancel", stream |-> s])
  /\ cancelled' = cancelled \union {s}
  /\ requests' = [requests EXCEPT ![s] = << >>]
  /\ unacknowledged' = [unacknowledged EXCEPT ![s] = << >>]
  /\ blocked' = Without(blocked, {s})
  /\ UNCHANGED <<encoderVars, decTable, decKrc, instructions, delivered, failed>>

\* QpackDecoderState::emit_insert_count_increment.
Increment ==
  IF decTable.insertCount - decKrc <= IntegerMax
  THEN decTable.insertCount - decKrc ELSE IntegerMax

\* Mutant: an increment cut to the integer limit counts as the whole.
EmitIncrementForAll ==
  /\ Running /\ decTable.insertCount > decKrc
  /\ feedback' = Append(feedback, [type |-> "increment", increment |-> Increment])
  /\ decKrc' = decTable.insertCount
  /\ UNCHANGED <<encoderVars, decTable, blocked, unacknowledged, instructions, requests,
                 cancelled, delivered, failed>>

EmitIncrement ==
  /\ Running /\ decTable.insertCount > decKrc
  /\ feedback' = Append(feedback, [type |-> "increment", increment |-> Increment])
  /\ decKrc' = decKrc + Increment
  /\ UNCHANGED <<encoderVars, decTable, blocked, unacknowledged, instructions, requests,
                 cancelled, delivered, failed>>

-----------------------------------------------------------------------------
Next ==
  \/ \E c \in Capacities : SetCapacity(c)
  \/ InsertLiteral
  \/ InsertNameReference
  \/ Duplicate
  \/ ReceiveFeedback
  \/ ReceiveInstruction
  \/ EmitIncrement
  \/ \E s \in Streams :
       \/ EncodeSection(s)
       \/ DecodeSection(s)
       \/ BlockSection(s)
       \/ AcknowledgeSection(s)
       \/ CancelStream(s)

Spec == Init /\ [][Next]_vars

-----------------------------------------------------------------------------
(* Type correctness. *)

SectionId == 0 .. (sectionCount - 1)

LineAt == [post : BOOLEAN, index : Nat]

WireLines ==
  [kind : {"indexed"}, at : LineAt]
    \union [kind : {"named"}, at : LineAt, value : Values]
    \union [kind : {"literal"}, field : Field]

WirePrefix == [negative : BOOLEAN, delta : Nat]

WireSections ==
  [id : Nat, fields : Seq(Field), ric : Nat, prefix : WirePrefix, lines : Seq(WireLines)]

Decoded == [id : Nat, ric : Nat]

FeedbackMessage ==
  [type : {"ack"}, stream : Streams, id : Nat]
    \union [type : {"cancel"}, stream : Streams]
    \union [type : {"increment"}, increment : Nat \ {0}]

Errors == {"decoder stream", "encoder stream", "decompression", "blocked streams"}

\* Every variable has its type; the tables are well formed; registration
\* numbers are those handed out.
TypeOK ==
  /\ IsWellFormed(encTable)
  /\ IsWellFormed(decTable)
  /\ sectionCount \in Nat
  /\ DOMAIN outstanding \subseteq SectionId
  /\ \A n \in DOMAIN outstanding : outstanding[n] \in Section
  /\ encKrc \in Nat
  /\ decKrc \in Nat
  /\ DOMAIN blocked \subseteq Streams
  /\ \A s \in DOMAIN blocked : blocked[s] \in Nat
  /\ unacknowledged \in [Streams -> Seq(Decoded)]
  /\ instructions \in Seq(Instruction)
  /\ requests \in [Streams -> Seq(WireSections)]
  /\ feedback \in Seq(FeedbackMessage)
  /\ cancelled \subseteq Streams
  /\ delivered \in {<< >>} \union (Streams \X Seq(Field))
  /\ failed \in {"none"} \union Errors

-----------------------------------------------------------------------------
(* Safety. *)

\* Two endpoints that follow the API never see an error from it: no section
\* refers to an entry that is gone or yet to come (decode.rs), no instruction
\* fails to apply (apply.rs), no feedback is refused (state/encoder.rs) and no
\* stream is refused for blocking (state/blocked.rs).
NeverFails == failed = "none"

\* Every entry an unacknowledged section references is still in the encoder's
\* table (is_evictable as the eviction policy of insert and set_capacity).
ReferencesStayActive ==
  \A n \in DOMAIN outstanding :
    /\ outstanding[n].refs \subseteq Active(encTable)
    /\ IsRequired(outstanding[n].ric, outstanding[n].refs)

\* The Known Received Count after the first k messages on the decoder stream.
KrcAfter(k) ==
  LET krc[i \in 0 .. k] ==
        IF i = 0 THEN encKrc
        ELSE CASE feedback[i].type = "ack" ->
                    Larger(krc[i - 1], outstanding[feedback[i].id].ric)
               [] feedback[i].type = "increment" -> krc[i - 1] + feedback[i].increment
               [] feedback[i].type = "cancel" -> krc[i - 1]
  IN  krc[k]

\* What the encoder knows to be received never exceeds what the decoder has reported,
\* that never exceeds what the decoder has inserted, and that never exceeds what the
\* encoder has inserted; and once the encoder has read all that is on the decoder stream,
\* both sides agree on the Known Received Count, although neither ever sends it.
FeedbackBringsAgreement ==
  /\ encKrc <= decKrc
  /\ decKrc <= decTable.insertCount
  /\ decTable.insertCount <= encTable.insertCount
  /\ KrcAfter(Len(feedback)) = decKrc

\* An acknowledgment names only a stream; when the encoder reads it, it
\* releases the very section the decoder decoded.
AcknowledgmentsMatch ==
  \A k \in DOMAIN feedback : feedback[k].type = "ack" =>
    LET s == feedback[k].stream
        earlier == {feedback[j].id : j \in {i \in 1 .. (k - 1) :
                      feedback[i].type = "ack" /\ feedback[i].stream = s}}
    IN  IsFirstOf(Without(outstanding, earlier), s, feedback[k].id)

\* However late a section is read, the decoder recovers from the wrapped count
\* on the wire the Required Insert Count the encoder registered.
WrappedCountsRecovered ==
  \A s \in Streams : \A i \in DOMAIN requests[s] :
    HasReferences(requests[s][i]) =>
      /\ requests[s][i].id \in DOMAIN outstanding
      /\ ReadRic(requests[s][i], decTable.insertCount)
           = outstanding[requests[s][i].id].ric

\* The two tables never disagree about an entry both hold, and the decoder
\* never drops an entry before the encoder did.
TablesAgree ==
  /\ Oldest(decTable) <= Oldest(encTable)
  /\ \A a \in Active(encTable) \intersect Active(decTable) :
       EntryAt(encTable, a) = EntryAt(decTable, a)

\* A stream the decoder is really blocked on is one the encoder counts as at
\* risk, and of those there are never more than the decoder allows.
BlockingIsForeseen ==
  /\ \A s \in DOMAIN blocked \ ReadyStreams : s \in AtRisk(outstanding, encKrc)
  /\ Cardinality(AtRisk(outstanding, encKrc)) <= MaxBlockedStreams

\* The references of a section, as the decoder will read them.
ReferencesRead(section) ==
  {ResolvedIndex(section.lines[i].at, ReadBase(section, decTable.insertCount)) :
     i \in {j \in DOMAIN section.lines : IsDynamic(section.lines[j])}}

\* An entry leaves the encoder's table only when the decoder has it and no
\* section still to be decoded refers to it.
EvictionsAreSafe ==
  [][\A a \in Active(encTable) \ Active(encTable)' :
       /\ a < decTable.insertCount
       /\ \A s \in Streams : \A i \in DOMAIN requests[s] :
            a \notin ReferencesRead(requests[s][i])]_vars

\* The connection delivers sections as the abstract channel does.
Channel ==
  INSTANCE HeaderChannel WITH
    pending    <- [s \in Streams |->
                     [i \in DOMAIN requests[s] |-> requests[s][i].fields]],
    abandoned  <- cancelled,
    FieldLists <- UNION {[1 .. n -> Field] : n \in 1 .. MaxLines}

DeliversHeaders == Channel!Spec

-----------------------------------------------------------------------------
(* Liveness, for callers that keep reading their streams, answer what they   *)
(* decode and report what they insert; sending, cancelling and evicting stay *)
(* optional.                                                                 *)

Fairness ==
  /\ WF_vars(ReceiveInstruction)
  /\ WF_vars(ReceiveFeedback)
  /\ WF_vars(EmitIncrement)
  /\ \A s \in Streams : WF_vars(DecodeSection(s)) /\ WF_vars(AcknowledgeSection(s))

FairSpec == Spec /\ Fairness

\* A section that is sent is decoded, or its stream abandoned: a blocked
\* stream is always released by insertions already on their way.
SectionsAreDecoded ==
  \A s \in Streams : requests[s] # << >> ~> requests[s] = << >>

\* The encoder gets every reference back, so that no entry is pinned forever.
ReferencesAreReleased ==
  \A n \in 0 .. (MaxSections - 1) :
    n \in DOMAIN outstanding ~> n \notin DOMAIN outstanding

\* The encoder learns of every insertion, so that an entry no section uses
\* becomes evictable.
InsertionsBecomeKnown ==
  \A n \in 1 .. MaxInserts : encTable.insertCount >= n ~> encKrc >= n
=============================================================================

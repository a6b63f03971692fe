---------------------------- MODULE HpackConnection ----------------------------
(***************************************************************************)
(* One direction of an HTTP/2 connection: an encoder context and a decoder *)
(* context (src/http2/hpack/), the header blocks from one to the other,    *)
(* and the changes of SETTINGS_HEADER_TABLE_SIZE that the decoding end     *)
(* makes and the encoding end acknowledges.                                *)
(*                                                                         *)
(* A change becomes effective at the encoding end when the SETTINGS frame  *)
(* arrives, and at the decoding end when its acknowledgment does           *)
(* (context.rs leaves this policy to the connection's owner).  The         *)
(* acknowledgment travels with the header blocks in one ordered channel.   *)
(***************************************************************************)
EXTENDS HpackContext

CONSTANTS
  InitialMaximum,    \* of the table of either end when its context is made
  Maxima,            \* the allowed maxima that occur, the first one included
  Updates,           \* maxima the encoder's caller may choose of its own accord
  Representations,   \* those that an encoder's caller tries
  MaxSettings,       \* bound: changes the decoding end makes
  MaxInFlight        \* bound: events on their way to the decoder

ASSUME ConnectionAssumption ==
  /\ InitialMaximum \in 0 .. Capacity
  /\ Maxima \subseteq 0 .. Capacity
  /\ Updates \subseteq Nat
  /\ Representations \subseteq Representation
  /\ MaxSettings \in Nat /\ MaxInFlight \in Nat

VARIABLES
  encoder, decoder,  \* the contexts, HpackEncoderContext and HpackDecoderContext
  wire,              \* what the encoding end has sent and the decoder has not read
  offered,           \* the values of all SETTINGS the decoding end has sent
  read,              \* the field that decode_next returned last
  failed,            \* the first error that the decoder reported
  eager              \* history: the decoder's table if it shrank as soon as it must

vars == <<encoder, decoder, wire, offered, read, failed, eager>>

\* An event carries the context that the encoder had when it had produced it, and a
\* field the one that was meant: history, which no action of the decoder reads.
Event == [kind : {"ack", "begin", "end"}, after : Context]
           \cup [kind : {"update"}, size : 0 .. Capacity, after : Context]
           \cup [kind : {"field"}, representation : Representation, meant : Field,
                 after : Context]

NoField == << >>
NoError == "none"

-----------------------------------------------------------------------------
Init ==
  /\ encoder \in {NewContext(InitialMaximum, n) : n \in Maxima}
  /\ decoder = encoder
  /\ wire = << >>
  /\ offered = << >>
  /\ read = NoField
  /\ failed = NoError
  /\ eager = EmptyTable(IF InitialMaximum > encoder.allowed
                        THEN encoder.allowed ELSE InitialMaximum)

\* The encoding end produces an event, and has this context then.
Produces(event, context) ==
  /\ failed = NoError
  /\ Len(wire) < MaxInFlight
  /\ encoder' = context
  /\ wire' = Append(wire, event)
  /\ UNCHANGED <<decoder, offered, read, failed, eager>>

\* The decoding end sends SETTINGS.
SendSettings ==
  /\ failed = NoError
  /\ Len(offered) < MaxSettings
  /\ \E n \in Maxima : offered' = Append(offered, n)
  /\ UNCHANGED <<encoder, decoder, wire, read, failed, eager>>

\* The encoding end receives the next SETTINGS, applies it and acknowledges it.
ReceiveSettings ==
  /\ encoder.block = "closed"
  /\ encoder.applied < Len(offered)
  /\ LET after == WithAllowed(encoder, offered[encoder.applied + 1])
     IN  Produces([kind |-> "ack", after |-> after], after)

BeginBlock ==
  /\ encoder.block = "closed"
  /\ Produces([kind |-> "begin", after |-> WithBlock(encoder)], WithBlock(encoder))

\* A required update, or one that the caller chooses.
EncodeUpdate ==
  \E m \in Updates \cup NextRequired(encoder.pending) :
    /\ CanEncodeUpdate(encoder, m)
    /\ LET after == EncodedUpdate(encoder, m)
       IN  Produces([kind |-> "update", size |-> m, after |-> after], after)

EncodeField ==
  \E r \in Representations :
    /\ CanEncodeField(encoder, r)
    /\ LET after == EncodedField(encoder, r)
       IN  Produces([kind |-> "field", representation |-> r, meant |-> Meant(encoder, r),
                     after |-> after], after)

FinishBlock ==
  /\ CanFinish(encoder)
  /\ Produces([kind |-> "end", after |-> WithoutBlock(encoder)], WithoutBlock(encoder))

-----------------------------------------------------------------------------
\* The decoding end takes the next event, of this kind.
Takes(kind) ==
  /\ failed = NoError
  /\ wire # << >> /\ Head(wire).kind = kind
  /\ wire' = Tail(wire)
  /\ UNCHANGED <<encoder, offered>>

\* A call of the decoder reports one of "errors", or leaves this context.
Leaves(errors, context) ==
  IF errors = {} THEN decoder' = context /\ UNCHANGED failed
  ELSE failed' \in errors /\ UNCHANGED decoder

\* The acknowledgment of the oldest change not yet acknowledged arrives.
ReceiveAck ==
  /\ Takes("ack")
  /\ LET n == offered[decoder.applied + 1]
     IN  /\ decoder' = WithAllowed(decoder, n)
         /\ eager' = WithMaximum(eager, IF n < eager.maximum THEN n ELSE eager.maximum)
  /\ UNCHANGED <<read, failed>>

\* decode_block takes a whole block: the bytes of an unfinished one are not there yet.
DecodeBlock ==
  /\ \E i \in DOMAIN wire : wire[i].kind = "end"
  /\ Takes("begin")
  /\ decoder' = WithBlock(decoder)
  /\ UNCHANGED <<read, failed, eager>>

DecodeUpdate ==
  /\ Takes("update")
  /\ LET m == Head(wire).size
     IN  /\ Leaves(UpdateErrors(decoder, m), DecodedUpdate(decoder, m))
         /\ eager' = WithMaximum(eager, m)
  /\ UNCHANGED read

DecodeField ==
  /\ Takes("field")
  /\ LET r == Head(wire).representation
     IN  /\ Leaves(FieldErrors(decoder, r), DecodedField(decoder, r))
         /\ IF FieldErrors(decoder, r) = {}
            THEN /\ read' = <<FieldRead(decoder, r)>>
                 /\ eager' = IF r.kind = "literal" /\ r.indexing
                             THEN WithInserted(eager, FieldRead(decoder, r)) ELSE eager
            ELSE UNCHANGED <<read, eager>>

CompleteBlock ==
  /\ Takes("end")
  /\ Leaves(CompleteErrors(decoder), WithoutBlock(decoder))
  /\ UNCHANGED <<read, eager>>

Next ==
  \/ SendSettings \/ ReceiveSettings \/ BeginBlock \/ EncodeUpdate \/ EncodeField
  \/ FinishBlock \/ ReceiveAck \/ DecodeBlock \/ DecodeUpdate \/ DecodeField
  \/ CompleteBlock

Spec == Init /\ [][Next]_vars

-----------------------------------------------------------------------------
\* Types; the tables are well formed.
TypeOK ==
  /\ encoder \in Context /\ decoder \in Context
  /\ wire \in Seq(Event)
  /\ offered \in Seq(Maxima)
  /\ encoder.applied <= Len(offered)
  /\ read \in {NoField} \cup {<<f>> : f \in Field}
  /\ IsWellFormed(encoder.table) /\ IsWellFormed(decoder.table) /\ IsWellFormed(eager)

\* No call on what the other end sent ever fails: every update the decoder requires
\* comes, is the one it requires, and every index means an entry there.
NeverFails == failed = NoError

\* What the decoder makes of an event when it is in this context.
Understood(c, event) ==
  IF event.kind = "ack" THEN WithAllowed(c, offered[c.applied + 1])
  ELSE IF event.kind = "begin" THEN WithBlock(c)
  ELSE IF event.kind = "update" THEN DecodedUpdate(c, event.size)
  ELSE IF event.kind = "field" THEN DecodedField(c, event.representation)
  ELSE WithoutBlock(c)

\* The decoder will have no objection to it, and read what was meant.
IsAccepted(c, event) ==
  /\ event.kind \in {"ack", "begin"} => c.block = "closed"
  /\ event.kind = "update" => UpdateErrors(c, event.size) = {}
  /\ event.kind = "field" => /\ FieldErrors(c, event.representation) = {}
                             /\ FieldRead(c, event.representation) = event.meant
  /\ event.kind = "end" => CompleteErrors(c) = {}

\* The context from which the i-th event on the wire was produced.
Before(i) == IF i = 1 THEN decoder ELSE wire[i - 1].after

\* The decoder only lags behind: reading one event after the other, it will accept each
\* and go through the very contexts the encoder went through (table, allowed maximum and
\* pending updates alike), up to the one the encoder has now.
DecoderFollows ==
  failed = NoError =>
    /\ \A i \in DOMAIN wire : /\ IsAccepted(Before(i), wire[i])
                              /\ Understood(Before(i), wire[i]) = wire[i].after
    /\ encoder = Before(Len(wire) + 1)

\* An update is required only as long as it matters, and never refused: once the first
\* one is made the table is within the allowed maximum, and the last one required is that
\* maximum, also after several changes between two blocks.
IsWithinBounds(c) ==
  /\ c.pending.minimum = {} => c.table.maximum <= c.allowed
  /\ \A m \in c.pending.minimum : \A n \in c.pending.final : m < n
  /\ NextRequired(c.pending) # {} =>
       c.allowed \in IF c.pending.final = {} THEN c.pending.minimum ELSE c.pending.final

MaximaStayAllowed == IsWithinBounds(encoder) /\ IsWithinBounds(decoder)

\* Waiting for the next block's updates to shrink the table loses nothing: when fields
\* are read, the table is what it would be had it shrunk with each acknowledged change.
\* An entry too large for the smallest maximum in between is gone (RFC 7541, 4.2), and
\* no other.
ReductionsAreNotLost == decoder.block = "fields" => decoder.table = eager

\* Fields come out as they went in, in order: HeaderChannel with one stream, where the
\* fields meant by the events on the wire are still to be delivered.
MeaningsOf(events) ==
  LET upTo[i \in 0 .. Len(events)] ==
        IF i = 0 THEN << >>
        ELSE IF events[i].kind = "field" THEN Append(upTo[i - 1], events[i].meant)
        ELSE upTo[i - 1]
  IN  upTo[Len(events)]

Channel ==
  INSTANCE HeaderChannel WITH
    Streams    <- {"connection"},
    FieldLists <- Field,
    pending    <- [s \in {"connection"} |-> MeaningsOf(wire)],
    delivered  <- IF read = NoField THEN << >> ELSE <<"connection", read[1]>>,
    abandoned  <- {}

DeliversHeaders == Channel!Spec
=============================================================================

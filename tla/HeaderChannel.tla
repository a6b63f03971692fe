----------------------------- MODULE HeaderChannel -----------------------------
(***************************************************************************)
(* What QPACK and HPACK promise their users: on each stream, what is sent  *)
(* comes out exactly as it went in, in order and at most once, until the   *)
(* receiver abandons the stream.  No table, no index and no blocking is    *)
(* visible here.  QpackConnection implements this for field sections on    *)
(* request streams, HpackConnection for fields on one ordered connection.  *)
(***************************************************************************)
EXTENDS Sequences

CONSTANTS
  Streams,
  FieldLists   \* what may be sent: field sections, or single fields

VARIABLES
  pending,     \* what each stream still has to deliver, in order
  delivered,   \* the last delivery: a stream and its fields
  abandoned    \* the streams the receiver has given up

vars == <<pending, delivered, abandoned>>

Nothing == << >>

Init ==
  /\ pending = [s \in Streams |-> << >>]
  /\ delivered = Nothing
  /\ abandoned = {}

Send(s) ==
  /\ s \notin abandoned
  /\ \E fields \in FieldLists : pending' = [pending EXCEPT ![s] = Append(@, fields)]
  /\ UNCHANGED <<delivered, abandoned>>

Deliver(s) ==
  /\ pending[s] # << >>
  /\ delivered' = <<s, Head(pending[s])>>
  /\ pending' = [pending EXCEPT ![s] = Tail(@)]
  /\ UNCHANGED abandoned

Abandon(s) ==
  /\ pending' = [pending EXCEPT ![s] = << >>]
  /\ abandoned' = abandoned \union {s}
  /\ UNCHANGED delivered

Next == \E s \in Streams : Send(s) \/ Deliver(s) \/ Abandon(s)

Spec == Init /\ [][Next]_vars
=============================================================================

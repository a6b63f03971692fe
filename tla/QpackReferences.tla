---------------------------- MODULE QpackReferences ----------------------------
(***************************************************************************)
(* The promise of QpackEncoderState as a state machine over the ledger:    *)
(* which sections are outstanding, what the decoder is known to have       *)
(* received, and how registrations and feedback change them.  There are no *)
(* slots and no arrays here.                                               *)
(***************************************************************************)
EXTENDS QpackLedger, Naturals

VARIABLES
  outstanding,   \* registration number -> section
  krc,           \* the Known Received Count
  count,         \* registrations so far
  insertCount    \* the encoder table's insert count, which callers pass in

vars == <<outstanding, krc, count, insertCount>>

Init ==
  /\ outstanding = << >>
  /\ krc = 0
  /\ count = 0
  /\ insertCount = 0

Inserted ==
  /\ insertCount' = insertCount + 1
  /\ UNCHANGED <<outstanding, krc, count>>

Register(s) ==
  /\ \E ric \in 1 .. insertCount : \E others \in SUBSET (0 .. (ric - 1)) :
       /\ MayBlock(outstanding, krc, s, ric)
       /\ outstanding' =
            Registered(outstanding, count,
                       [stream |-> s, ric |-> ric, refs |-> others \union {ric - 1}])
  /\ count' = count + 1
  /\ UNCHANGED <<krc, insertCount>>

Acknowledge(s) ==
  /\ \E n \in DOMAIN outstanding :
       /\ IsFirstOf(outstanding, s, n)
       /\ krc' = Larger(krc, outstanding[n].ric)
       /\ outstanding' = Without(outstanding, {n})
  /\ UNCHANGED <<count, insertCount>>

Cancel(s) ==
  /\ outstanding' = Without(outstanding, OfStream(outstanding, s))
  /\ UNCHANGED <<krc, count, insertCount>>

Increment ==
  /\ krc' \in (krc + 1) .. insertCount
  /\ UNCHANGED <<outstanding, count, insertCount>>

Next ==
  \/ Inserted
  \/ Increment
  \/ \E s \in Streams : Register(s) \/ Acknowledge(s) \/ Cancel(s)

Spec == Init /\ [][Next]_vars
=============================================================================

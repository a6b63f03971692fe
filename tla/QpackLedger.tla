------------------------------ MODULE QpackLedger ------------------------------
(***************************************************************************)
(* What the QPACK encoder remembers of the field sections it has sent and  *)
(* the decoder has not yet acknowledged (src/qpack/state/encoder.rs), with *)
(* the packed arrays abstracted to a function: "outstanding" maps the      *)
(* registration number of each unacknowledged section to its stream, its   *)
(* Required Insert Count and the absolute indexes it references.  A lower  *)
(* number was registered earlier.  Module QpackEncoderState has the packed *)
(* arrays, with their slot limits, and implements this one.                *)
(***************************************************************************)
EXTENDS Integers, FiniteSets

CONSTANTS
  Streams,
  MaxBlockedStreams   \* the peer's SETTINGS_QPACK_BLOCKED_STREAMS

ASSUME MaxBlockedStreamsAssumption == MaxBlockedStreams \in Nat

Section == [stream : Streams, ric : Nat \ {0}, refs : SUBSET Nat]

-----------------------------------------------------------------------------
OfStream(outstanding, stream) ==
  {n \in DOMAIN outstanding : outstanding[n].stream = stream}

\* The absolute indexes some unacknowledged section references.
Referenced(outstanding) ==
  UNION {outstanding[n].refs : n \in DOMAIN outstanding}

\* Mutant: forgets the references of unacknowledged sections.
EvictableOnceReceived(outstanding, krc, absolute) == krc > absolute

\* Mutant: forgets that the decoder may not have the entry yet.
EvictableOnceUnreferenced(outstanding, krc, absolute) ==
  absolute \notin Referenced(outstanding)

\* is_evictable
IsEvictable(outstanding, krc, absolute) ==
  krc > absolute /\ absolute \notin Referenced(outstanding)

\* The streams the decoder may have had to block on, as far as we know.
AtRisk(outstanding, krc) ==
  {outstanding[n].stream : n \in {m \in DOMAIN outstanding : outstanding[m].ric > krc}}

\* Mutant: takes a stream with any unacknowledged section as one already at risk.
MayBlockUsedStream(outstanding, krc, stream, ric) ==
  \/ ric <= krc
  \/ OfStream(outstanding, stream) # {}
  \/ Cardinality(AtRisk(outstanding, krc)) < MaxBlockedStreams

\* reserve_registration's check of the blocked-streams limit.
MayBlock(outstanding, krc, stream, ric) ==
  \/ ric <= krc
  \/ stream \in AtRisk(outstanding, krc)
  \/ Cardinality(AtRisk(outstanding, krc)) < MaxBlockedStreams

\* The section a Section Acknowledgment for "stream" is about.
IsFirstOf(outstanding, stream, n) ==
  /\ n \in DOMAIN outstanding
  /\ outstanding[n].stream = stream
  /\ \A m \in DOMAIN outstanding : outstanding[m].stream = stream => n <= m

Without(outstanding, gone) ==
  [n \in DOMAIN outstanding \ gone |-> outstanding[n]]

Registered(outstanding, n, section) ==
  [m \in DOMAIN outstanding \union {n} |->
     IF m = n THEN section ELSE outstanding[m]]

Larger(a, b) == IF a >= b THEN a ELSE b
=============================================================================

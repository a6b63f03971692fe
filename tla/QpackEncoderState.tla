--------------------------- MODULE QpackEncoderState ---------------------------
(***************************************************************************)
(* QpackEncoderState (src/qpack/state/encoder.rs): the sections a decoder  *)
(* has not yet acknowledged, in a caller's array of section slots, and the *)
(* references of all of them, packed one after the other into a caller's   *)
(* array of reference slots.  Removing a section closes both gaps.         *)
(*                                                                         *)
(* The decoder's feedback is any sequence of instructions: a call that     *)
(* returns an error changes nothing, and is not an action.                 *)
(***************************************************************************)
EXTENDS Integers, Sequences, FiniteSets

CONSTANTS
  Streams,             \* stream identifiers; 0 is one like any other
  MaxBlockedStreams,
  SectionSlots, ReferenceSlots,
  MaxInserts, MaxRegistrations, MaxReferences   \* bounds of the model

ASSUME EncoderStateAssumption ==
  /\ Streams \subseteq Nat
  /\ {SectionSlots, ReferenceSlots} \subseteq Nat
  /\ {MaxInserts, MaxReferences} \subseteq Nat
  /\ MaxBlockedStreams \in Nat

VARIABLES
  store,         \* the arrays and their lengths in use, as one record
  krc,           \* known_received_count
  insertCount    \* the encoder table's insert count, which callers pass in

vars == <<store, krc, insertCount>>

\* Slots count from 0, as in the code.
Slots(n) == 0 .. (n - 1)

\* QpackEncoderOutstandingSection::EMPTY.
EmptySection == [stream |-> 0, ric |-> 0, start |-> 0, len |-> 0]

\* "ids" and "count" number the registrations, for the refinement mapping:
\* the code has no such numbers.
Init ==
  /\ store = [sections      |-> [i \in Slots(SectionSlots) |-> EmptySection],
              references    |-> [i \in Slots(ReferenceSlots) |-> 0],
              sectionLen    |-> 0,
              referenceLen  |-> 0,
              ids           |-> << >>,
              count         |-> 0]
  /\ krc = 0
  /\ insertCount = 0

InUse == Slots(store.sectionLen)

Risky(i) == store.sections[i].ric > krc

\* One for each stream, at its first section that may block.
BlockedStreamCount ==
  Cardinality({i \in InUse :
    /\ Risky(i)
    /\ \A j \in Slots(i) :
         ~(Risky(j) /\ store.sections[j].stream = store.sections[i].stream)})

\* Mutant: scans the cleared slots too.
IsEvictableScanningAll(absolute) ==
  /\ krc > absolute
  /\ \A i \in DOMAIN store.references : store.references[i] # absolute

IsEvictable(absolute) ==
  /\ krc > absolute
  /\ \A i \in Slots(store.referenceLen) : store.references[i] # absolute

-----------------------------------------------------------------------------
\* reserve_registration's checks: "refs" is a nonempty sequence.
MayRegister(s, ric, refs) ==
  /\ \E i \in DOMAIN refs : refs[i] = ric - 1
  /\ \A i \in DOMAIN refs : refs[i] <= ric - 1
  /\ ric <= insertCount
  /\ store.sectionLen < SectionSlots
  /\ Len(refs) <= ReferenceSlots - store.referenceLen
  /\ \/ ric <= krc
     \/ \E i \in InUse : store.sections[i].stream = s /\ Risky(i)
     \/ BlockedStreamCount < MaxBlockedStreams

Filled(array, first, values) ==
  [i \in DOMAIN array |->
     IF i \in first .. (first + Len(values) - 1) THEN values[i - first + 1] ELSE array[i]]

\* The registration's commit: both arrays grow at their ends.
Committed(s, ric, refs) ==
  LET start == store.referenceLen
  IN  [sections     |->
         [store.sections EXCEPT ![store.sectionLen] =
            [stream |-> s, ric |-> ric, start |-> start, len |-> Len(refs)]],
       references   |-> Filled(store.references, start, refs),
       sectionLen   |-> store.sectionLen + 1,
       referenceLen |-> start + Len(refs),
       ids          |-> Append(store.ids, store.count),
       count        |-> store.count + 1]

Register(s) ==
  /\ store.count < MaxRegistrations
  /\ \E n \in 1 .. MaxReferences :
     \E refs \in [1 .. n -> Slots(insertCount)], ric \in 1 .. insertCount :
       /\ MayRegister(s, ric, refs)
       /\ store' = Committed(s, ric, refs)
  /\ UNCHANGED <<krc, insertCount>>

-----------------------------------------------------------------------------
(* remove_section closes the gap in the references, moves the later        *)
(* sections' ranges down with them, closes the gap in the sections, and    *)
(* clears what is no longer in use.                                        *)

GapClosed(array, first, width, last) ==
  [i \in DOMAIN array |->
     IF i \in first .. (last - width - 1) THEN array[i + width] ELSE array[i]]

Cleared(array, first, last, empty) ==
  [i \in DOMAIN array |-> IF i \in first .. (last - 1) THEN empty ELSE array[i]]

Shifted(sections, i, width, last) ==
  [j \in DOMAIN sections |->
     IF j \in (i + 1) .. (last - 1) THEN [sections[j] EXCEPT !.start = @ - width]
                                    ELSE sections[j]]

\* Mutant: leaves the later sections' ranges where they were.
RemovedUnshifted(st, i) ==
  LET gone  == st.sections[i]
      inUse == st.sectionLen - 1
      left  == st.referenceLen - gone.len
  IN  [sections     |->
         Cleared(GapClosed(st.sections, i, 1, st.sectionLen),
                 inUse, st.sectionLen, EmptySection),
       references   |->
         Cleared(GapClosed(st.references, gone.start, gone.len, st.referenceLen),
                 left, st.referenceLen, 0),
       sectionLen   |-> inUse,
       referenceLen |-> left,
       ids          |-> SubSeq(st.ids, 1, i) \o SubSeq(st.ids, i + 2, Len(st.ids)),
       count        |-> st.count]

Removed(st, i) ==
  LET gone  == st.sections[i]
      inUse == st.sectionLen - 1
      left  == st.referenceLen - gone.len
  IN  [sections     |->
         Cleared(GapClosed(Shifted(st.sections, i, gone.len, st.sectionLen),
                           i, 1, st.sectionLen),
                 inUse, st.sectionLen, EmptySection),
       references   |->
         Cleared(GapClosed(st.references, gone.start, gone.len, st.referenceLen),
                 left, st.referenceLen, 0),
       sectionLen   |-> inUse,
       referenceLen |-> left,
       ids          |-> SubSeq(st.ids, 1, i) \o SubSeq(st.ids, i + 2, Len(st.ids)),
       count        |-> st.count]

\* Section Acknowledgment: the oldest section of the stream.
Acknowledge(s) ==
  \E i \in InUse :
    /\ store.sections[i].stream = s
    /\ \A j \in Slots(i) : store.sections[j].stream # s
    /\ krc' = IF krc >= store.sections[i].ric THEN krc ELSE store.sections[i].ric
    /\ store' = Removed(store, i)
    /\ UNCHANGED insertCount

\* Mutant: moves on although the next section has moved here.
CancelStepOver(s, at) ==
  IF /\ at.i < at.st.sectionLen
     /\ at.st.sections[at.i].stream = s
  THEN [st |-> Removed(at.st, at.i), i |-> at.i + 1]
  ELSE [st |-> at.st, i |-> at.i + 1]

\* Stream Cancellation: one pass over the array that stays where it is when it
\* has just removed a section.
CancelStep(s, at) ==
  IF at.st.sections[at.i].stream = s
  THEN [st |-> Removed(at.st, at.i), i |-> at.i]
  ELSE [st |-> at.st, i |-> at.i + 1]

Cancel(s) ==
  LET pass[k \in 0 .. store.sectionLen] ==
        IF k = 0 THEN [st |-> store, i |-> 0] ELSE CancelStep(s, pass[k - 1])
  IN  /\ store' = pass[store.sectionLen].st
      /\ UNCHANGED <<krc, insertCount>>

\* Insert Count Increment.
Increment(n) ==
  /\ n > 0 /\ krc + n <= insertCount
  /\ krc' = krc + n
  /\ UNCHANGED <<store, insertCount>>

\* The caller's table has taken another entry.
Inserted ==
  /\ insertCount < MaxInserts
  /\ insertCount' = insertCount + 1
  /\ UNCHANGED <<store, krc>>

Next ==
  \/ Inserted
  \/ \E n \in 1 .. MaxInserts : Increment(n)
  \/ \E s \in Streams : Register(s) \/ Acknowledge(s) \/ Cancel(s)

Spec == Init /\ [][Next]_vars

-----------------------------------------------------------------------------
\* Whatever was removed in between, the sections' ranges tile the references
\* in use, in registration order, and every slot beyond is cleared.
RangesTile ==
  /\ \A i \in InUse :
       /\ store.sections[i].start =
            IF i = 0 THEN 0 ELSE store.sections[i - 1].start + store.sections[i - 1].len
       /\ store.sections[i].len > 0
  /\ store.referenceLen =
       IF store.sectionLen = 0 THEN 0
       ELSE LET last == store.sections[store.sectionLen - 1] IN last.start + last.len
  /\ \A i \in DOMAIN store.sections \ InUse : store.sections[i] = EmptySection
  /\ \A i \in DOMAIN store.references :
       i >= store.referenceLen => store.references[i] = 0

\* The references of slot i, read through its range.
RefsOf(i) ==
  {store.references[k] :
     k \in store.sections[i].start .. (store.sections[i].start + store.sections[i].len - 1)}

\* The ledger that the arrays hold.
Outstanding ==
  [n \in {store.ids[k] : k \in DOMAIN store.ids} |->
     LET i == (CHOOSE k \in DOMAIN store.ids : store.ids[k] = n) - 1
     IN  [stream |-> store.sections[i].stream, ric |-> store.sections[i].ric,
          refs |-> RefsOf(i)]]

Ledger ==
  INSTANCE QpackReferences WITH outstanding <- Outstanding, count <- store.count

\* The arrays implement the ledger: every call changes exactly the sections
\* and references it is about.
ImplementsLedger == Ledger!Spec

\* What the arrays answer is what the ledger answers: which entries may go,
\* and how many streams may be blocking, never more than allowed.
AnswersAgree ==
  /\ \A absolute \in 0 .. insertCount :
       IsEvictable(absolute) = Ledger!IsEvictable(Outstanding, krc, absolute)
  /\ BlockedStreamCount = Cardinality(Ledger!AtRisk(Outstanding, krc))
  /\ BlockedStreamCount <= MaxBlockedStreams
=============================================================================

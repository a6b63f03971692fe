-------------------------- MODULE CallerArrays_proofs --------------------------
(***************************************************************************)
(* What QPACK and HPACK keep in the arrays of their callers is what it     *)
(* stands for.  The sections and references of QpackEncoderState hold the  *)
(* ledger, for any number of streams and slots and any sequence of         *)
(* registrations and feedback.  The bytes and slots of both dynamic tables *)
(* hold the tables: whatever is inserted and evicted, insertions find      *)
(* room, and every active entry reads back as it was inserted.             *)
(***************************************************************************)
EXTENDS QpackEncoderState, QpackDynamicTable, FiniteSetTheorems, SequenceTheorems, TLAPS,
        WellFoundedInduction

\* The least element of a set of numbers.
LEMMA LeastNumber ==
  ASSUME NEW S \in SUBSET Nat, S # {}
  PROVE  \E n \in S : \A m \in S : ~ (m < n)
  <1>1. PICK n \in S : \A m \in S : ~ (<<m, n>> \in OpToRel(<, Nat))
    BY NatLessThanWellFounded, WFMin
  <1>2. ASSUME NEW m \in S PROVE ~ (m < n)
    <2>1. m \in Nat /\ n \in Nat
      OBVIOUS
    <2>2. <<m, n>> \in OpToRel(<, Nat) <=> m < n
      BY <2>1 DEF OpToRel
    <2> QED BY <1>1, <2>2
  <1> QED BY <1>2

-----------------------------------------------------------------------------
(* The encoder's sections and references *)

\* The slots that the references of section i fill.
RangeOf(st, i) ==
  st.sections[i].start .. (st.sections[i].start + st.sections[i].len - 1)

\* The section that slot i holds.
HeldAt(st, i) ==
  [stream |-> st.sections[i].stream, ric |-> st.sections[i].ric,
   refs |-> {st.references[k] : k \in RangeOf(st, i)}]

\* The ledger that a store holds.
LedgerOf(st) ==
  [n \in {st.ids[k] : k \in DOMAIN st.ids} |->
     HeldAt(st, (CHOOSE k \in DOMAIN st.ids : st.ids[k] = n) - 1)]

SectionRecord == [stream : Streams \cup {0}, ric : Nat, start : Nat, len : Nat]

Store ==
  [sections : [Slots(SectionSlots) -> SectionRecord],
   references : [Slots(ReferenceSlots) -> Nat],
   sectionLen : Slots(SectionSlots + 1), referenceLen : Slots(ReferenceSlots + 1),
   ids : Seq(Nat), count : Nat]

\* The sections in use lie one behind the other, none is empty, they fill the references in
\* use, and everything else is cleared.
Packed(st) ==
  /\ \A i \in Slots(st.sectionLen) :
       /\ st.sections[i].stream \in Streams /\ st.sections[i].ric > 0
       /\ st.sections[i].len > 0
       /\ st.sections[i].start + st.sections[i].len <= st.referenceLen
       /\ \A j \in Slots(i) :
            st.sections[j].start + st.sections[j].len <= st.sections[i].start
  /\ \A k \in Slots(st.referenceLen) :
       \E i \in Slots(st.sectionLen) : k \in RangeOf(st, i)
  /\ \A i \in Slots(SectionSlots) : i >= st.sectionLen => st.sections[i] = EmptySection
  /\ \A k \in Slots(ReferenceSlots) : k >= st.referenceLen => st.references[k] = 0

\* Sections are numbered in the order of their registration.
Numbered(st) ==
  /\ Len(st.ids) = st.sectionLen
  /\ \A k \in 1 .. Len(st.ids) :
       st.ids[k] < st.count /\ \A j \in 1 .. Len(st.ids) : j < k => st.ids[j] < st.ids[k]

Sound(st) == st \in Store /\ Packed(st) /\ Numbered(st)

-----------------------------------------------------------------------------
LEMMA InSlots ==
  ASSUME NEW n \in Int, NEW k
  PROVE  k \in Slots(n) <=> k \in Nat /\ k < n
  BY DEF Slots

\* The parts of a store.
LEMMA StoreParts ==
  ASSUME NEW st \in Store
  PROVE  /\ SectionSlots \in Nat /\ ReferenceSlots \in Nat
         /\ st.sections \in [Slots(SectionSlots) -> SectionRecord]
         /\ st.references \in [Slots(ReferenceSlots) -> Nat]
         /\ DOMAIN st.sections = Slots(SectionSlots)
         /\ DOMAIN st.references = Slots(ReferenceSlots)
         /\ st.sectionLen \in Nat /\ st.sectionLen <= SectionSlots
         /\ st.referenceLen \in Nat /\ st.referenceLen <= ReferenceSlots
         /\ st.ids \in Seq(Nat) /\ Len(st.ids) \in Nat /\ DOMAIN st.ids = 1 .. Len(st.ids)
         /\ st.count \in Nat
         /\ \A i \in Slots(SectionSlots) :
              /\ st.sections[i] \in SectionRecord
              /\ st.sections[i].ric \in Nat
              /\ st.sections[i].start \in Nat /\ st.sections[i].len \in Nat
  <1>1. SectionSlots \in Nat /\ ReferenceSlots \in Nat
    BY EncoderStateAssumption
  <1>2. /\ st.sections \in [Slots(SectionSlots) -> SectionRecord]
        /\ st.references \in [Slots(ReferenceSlots) -> Nat]
        /\ st.sectionLen \in Slots(SectionSlots + 1)
        /\ st.referenceLen \in Slots(ReferenceSlots + 1)
        /\ st.ids \in Seq(Nat) /\ st.count \in Nat
    BY DEF Store
  <1>3. /\ st.sectionLen \in Nat /\ st.sectionLen <= SectionSlots
        /\ st.referenceLen \in Nat /\ st.referenceLen <= ReferenceSlots
    BY <1>1, <1>2 DEF Slots
  <1>4. \A i \in Slots(SectionSlots) : st.sections[i] \in SectionRecord
    BY <1>2
  <1>5. \A x \in SectionRecord : x.ric \in Nat /\ x.start \in Nat /\ x.len \in Nat
    BY DEF SectionRecord
  <1> QED BY <1>1, <1>2, <1>3, <1>4, <1>5

\* What the ledger says of the section in a slot.
LEMMA LedgerAt ==
  ASSUME NEW st, Sound(st)
  PROVE  /\ DOMAIN LedgerOf(st) = {st.ids[i + 1] : i \in Slots(st.sectionLen)}
         /\ \A i \in Slots(st.sectionLen) :
              /\ st.ids[i + 1] \in DOMAIN LedgerOf(st)
              /\ LedgerOf(st)[st.ids[i + 1]] = HeldAt(st, i)
         /\ \A n \in DOMAIN LedgerOf(st) :
              \E i \in Slots(st.sectionLen) :
                n = st.ids[i + 1] /\ LedgerOf(st)[n] = HeldAt(st, i)
  <1>1. /\ st.ids \in Seq(Nat) /\ DOMAIN st.ids = 1 .. st.sectionLen /\ st.sectionLen \in Nat
        /\ \A k \in 1 .. st.sectionLen : st.ids[k] \in Nat
    BY StoreParts DEF Sound, Numbered
  <1>2. \A j, k \in 1 .. st.sectionLen : st.ids[j] = st.ids[k] => j = k
    <2>1. \A j, k \in 1 .. st.sectionLen : j < k => st.ids[j] < st.ids[k]
      BY <1>1 DEF Sound, Numbered
    <2> QED BY <1>1, <2>1
  <1>3. {st.ids[k] : k \in DOMAIN st.ids} = {st.ids[i + 1] : i \in Slots(st.sectionLen)}
    <2>1. \A k \in 1 .. st.sectionLen : k - 1 \in Slots(st.sectionLen) /\ (k - 1) + 1 = k
      BY <1>1 DEF Slots
    <2>2. \A i \in Slots(st.sectionLen) : i + 1 \in 1 .. st.sectionLen
      BY <1>1 DEF Slots
    <2> QED BY <1>1, <2>1, <2>2
  <1>4. ASSUME NEW i \in Slots(st.sectionLen)
        PROVE  /\ st.ids[i + 1] \in DOMAIN LedgerOf(st)
               /\ LedgerOf(st)[st.ids[i + 1]] = HeldAt(st, i)
    <2>1. i + 1 \in 1 .. st.sectionLen /\ (i + 1) - 1 = i
      BY <1>1 DEF Slots
    <2>2. (CHOOSE k \in DOMAIN st.ids : st.ids[k] = st.ids[i + 1]) = i + 1
      BY <1>1, <1>2, <2>1
    <2>3. st.ids[i + 1] \in {st.ids[k] : k \in DOMAIN st.ids}
      BY <1>1, <2>1
    <2> QED BY <2>1, <2>2, <2>3 DEF LedgerOf
  <1>5. DOMAIN LedgerOf(st) = {st.ids[i + 1] : i \in Slots(st.sectionLen)}
    BY <1>3 DEF LedgerOf
  <1> QED BY <1>4, <1>5

-----------------------------------------------------------------------------
(***************************************************************************)
(* remove_section.                                                         *)
(***************************************************************************)
\* What each slot holds afterwards.
LEMMA RemovedParts ==
  ASSUME NEW st, Sound(st), NEW i \in Slots(st.sectionLen)
  PROVE  LET r == Removed(st, i)
             gone == st.sections[i]
             left == st.referenceLen - gone.len
             n == st.sectionLen - 1
         IN  /\ r.sectionLen = n /\ r.referenceLen = left /\ r.count = st.count
             /\ DOMAIN r.sections = Slots(SectionSlots)
             /\ DOMAIN r.references = Slots(ReferenceSlots)
             /\ \A j \in Slots(SectionSlots) :
                  r.sections[j] =
                    IF j < i THEN st.sections[j]
                    ELSE IF j < n
                         THEN [st.sections[j + 1] EXCEPT !.start = @ - gone.len]
                    ELSE IF j = n THEN EmptySection ELSE st.sections[j]
             /\ \A k \in Slots(ReferenceSlots) :
                  r.references[k] =
                    IF k < gone.start THEN st.references[k]
                    ELSE IF k < left THEN st.references[k + gone.len]
                    ELSE IF k < st.referenceLen THEN 0 ELSE st.references[k]
             /\ r.ids = SubSeq(st.ids, 1, i) \o SubSeq(st.ids, i + 2, Len(st.ids))
             /\ r.sections = [j \in Slots(SectionSlots) |-> r.sections[j]]
             /\ r.references = [k \in Slots(ReferenceSlots) |-> r.references[k]]
             /\ r = [sections |-> r.sections, references |-> r.references,
                     sectionLen |-> r.sectionLen, referenceLen |-> r.referenceLen,
                     ids |-> r.ids, count |-> r.count]
  <1> DEFINE r == Removed(st, i)
             gone == st.sections[i]
             left == st.referenceLen - gone.len
             n == st.sectionLen - 1
             shifted == Shifted(st.sections, i, gone.len, st.sectionLen)
             closed == GapClosed(shifted, i, 1, st.sectionLen)
             moved == GapClosed(st.references, gone.start, gone.len, st.referenceLen)
  <1>1. /\ r.sectionLen = n /\ r.referenceLen = left /\ r.count = st.count
        /\ r.ids = SubSeq(st.ids, 1, i) \o SubSeq(st.ids, i + 2, Len(st.ids))
        /\ r.sections = Cleared(closed, n, st.sectionLen, EmptySection)
        /\ r.references = Cleared(moved, left, st.referenceLen, 0)
    BY DEF Removed, Sound, Store
  <1>2. /\ DOMAIN st.sections = Slots(SectionSlots)
        /\ DOMAIN st.references = Slots(ReferenceSlots)
        /\ SectionSlots \in Nat /\ ReferenceSlots \in Nat
        /\ st.sectionLen \in Nat /\ st.sectionLen <= SectionSlots
        /\ st.referenceLen \in Nat /\ st.referenceLen <= ReferenceSlots
        /\ i \in Nat /\ i < st.sectionLen
        /\ gone.start \in Nat /\ gone.len \in Nat /\ gone.len > 0
        /\ gone.start + gone.len <= st.referenceLen
    <2>1. i \in Slots(SectionSlots) /\ i \in Nat /\ i < st.sectionLen
      BY StoreParts DEF Sound, Slots
    <2> QED BY <2>1, StoreParts DEF Sound, Packed
  <1>3. ASSUME NEW j \in Slots(SectionSlots)
        PROVE  r.sections[j] =
                 IF j < i THEN st.sections[j]
                 ELSE IF j < n
                      THEN [st.sections[j + 1] EXCEPT !.start = @ - gone.len]
                 ELSE IF j = n THEN EmptySection ELSE st.sections[j]
    <2>1. /\ DOMAIN shifted = Slots(SectionSlots)
          /\ \A m \in Slots(SectionSlots) :
               shifted[m] = IF m \in (i + 1) .. (st.sectionLen - 1)
                            THEN [st.sections[m] EXCEPT !.start = @ - gone.len]
                            ELSE st.sections[m]
      BY <1>2 DEF Shifted
    <2> HIDE DEF shifted
    <2>2. /\ DOMAIN closed = Slots(SectionSlots)
          /\ \A m \in Slots(SectionSlots) :
               closed[m] = IF m \in i .. (n - 1) THEN shifted[m + 1] ELSE shifted[m]
      BY <2>1 DEF GapClosed
    <2> HIDE DEF closed, gone, r
    <2>3. r.sections[j] = IF j \in n .. n THEN EmptySection ELSE closed[j]
      BY <1>1, <1>2, <2>2 DEF Cleared
    <2>4. j \in Nat /\ n \in Nat
      BY <1>2 DEF Slots
    <2>5. CASE j < i
      BY <1>2, <2>1, <2>2, <2>3, <2>4, <2>5
    <2>6. CASE j >= i /\ j < n
      <3>1. j + 1 \in Slots(SectionSlots) /\ j + 1 \in (i + 1) .. (st.sectionLen - 1)
        BY <1>2, <2>4, <2>6 DEF Slots
      <3>2. closed[j] = shifted[j + 1] /\ r.sections[j] = closed[j]
        BY <1>2, <2>2, <2>3, <2>4, <2>6
      <3>3. shifted[j + 1] = [st.sections[j + 1] EXCEPT !.start = @ - gone.len]
        BY <2>1, <3>1
      <3> QED BY <1>2, <2>4, <2>6, <3>2, <3>3
    <2>7. CASE j = n
      BY <1>2, <2>3, <2>4, <2>7
    <2>8. CASE j > n
      <3>1. r.sections[j] = closed[j] /\ closed[j] = shifted[j] /\ shifted[j] = st.sections[j]
        BY <1>2, <2>1, <2>2, <2>3, <2>4, <2>8
      <3> QED BY <1>2, <2>4, <2>8, <3>1
    <2> QED BY <1>2, <2>4, <2>5, <2>6, <2>7, <2>8
  <1>4. ASSUME NEW k \in Slots(ReferenceSlots)
        PROVE  r.references[k] =
                 IF k < gone.start THEN st.references[k]
                 ELSE IF k < left THEN st.references[k + gone.len]
                 ELSE IF k < st.referenceLen THEN 0 ELSE st.references[k]
    <2>1. /\ DOMAIN moved = Slots(ReferenceSlots)
          /\ \A m \in Slots(ReferenceSlots) :
               moved[m] = IF m \in gone.start .. (st.referenceLen - gone.len - 1)
                          THEN st.references[m + gone.len] ELSE st.references[m]
      BY <1>2 DEF GapClosed
    <2> HIDE DEF moved, gone, r
    <2>2. r.references[k] = IF k \in left .. (st.referenceLen - 1) THEN 0 ELSE moved[k]
      BY <1>1, <2>1 DEF Cleared
    <2>3. k \in Nat
      BY <1>2 DEF Slots
    <2> QED BY <1>2, <2>1, <2>2, <2>3
  <1>5. DOMAIN r.sections = Slots(SectionSlots) /\ DOMAIN r.references = Slots(ReferenceSlots)
    BY <1>1, <1>2 DEF Cleared, GapClosed, Shifted
  <1>6. /\ r.sections = [j \in Slots(SectionSlots) |-> r.sections[j]]
        /\ r.references = [k \in Slots(ReferenceSlots) |-> r.references[k]]
    <2> DEFINE a == r.sections
               b == r.references
    <2>1. a = [j \in DOMAIN a |-> a[j]] /\ b = [k \in DOMAIN b |-> b[k]]
      <3>1. \A array, first, last, empty :
              LET x == Cleared(array, first, last, empty)
              IN  x = [j \in DOMAIN x |-> x[j]]
        BY DEF Cleared
      <3> HIDE DEF r, closed, moved, left, n
      <3> QED BY <1>1, <3>1
    <2> QED BY <1>5, <2>1
  <1>7. r = [sections |-> r.sections, references |-> r.references, sectionLen |-> r.sectionLen,
             referenceLen |-> r.referenceLen, ids |-> r.ids, count |-> r.count]
    BY DEF Removed
  <1> QED BY <1>1, <1>3, <1>4, <1>5, <1>6, <1>7

LEMMA RemovedCounts ==
  ASSUME NEW st, NEW i
  PROVE  /\ Removed(st, i).sectionLen = st.sectionLen - 1
         /\ Removed(st, i).referenceLen = st.referenceLen - st.sections[i].len
         /\ Removed(st, i).count = st.count
         /\ Removed(st, i).ids = SubSeq(st.ids, 1, i) \o SubSeq(st.ids, i + 2, Len(st.ids))
  BY DEF Removed

LEMMA RemovedShape ==
  ASSUME NEW st, Sound(st), NEW i \in Slots(st.sectionLen)
  PROVE  LET r == Removed(st, i)
         IN  /\ r.sections = [j \in Slots(SectionSlots) |-> r.sections[j]]
             /\ r.references = [k \in Slots(ReferenceSlots) |-> r.references[k]]
             /\ r = [sections |-> r.sections, references |-> r.references,
                     sectionLen |-> r.sectionLen, referenceLen |-> r.referenceLen,
                     ids |-> r.ids, count |-> r.count]
  <1> DEFINE r == Removed(st, i)
  <1>1. r = [sections |-> r.sections, references |-> r.references,
             sectionLen |-> r.sectionLen, referenceLen |-> r.referenceLen,
             ids |-> r.ids, count |-> r.count]
    BY DEF Removed
  <1>2. r.sections = [j \in Slots(SectionSlots) |-> r.sections[j]]
    BY RemovedParts
  <1>3. r.references = [k \in Slots(ReferenceSlots) |-> r.references[k]]
    BY RemovedParts
  <1> HIDE DEF r
  <1> QED BY <1>1, <1>2, <1>3 DEF r

LEMMA RemovedReferences ==
  ASSUME NEW st, Sound(st), NEW i \in Slots(st.sectionLen), NEW k \in Slots(ReferenceSlots)
  PROVE  Removed(st, i).references[k] =
           IF k < st.sections[i].start THEN st.references[k]
           ELSE IF k < st.referenceLen - st.sections[i].len
                THEN st.references[k + st.sections[i].len]
           ELSE IF k < st.referenceLen THEN 0 ELSE st.references[k]
  BY RemovedParts

\* Which of the former slots a slot's section was in.
Former(i, j) == IF j < i THEN j ELSE j + 1

LEMMA FormerSlots ==
  ASSUME NEW n \in Nat, NEW i \in Slots(n), NEW j \in Slots(n - 1)
  PROVE  /\ i \in Nat /\ i < n /\ j \in Nat /\ j < n - 1
         /\ Former(i, j) \in Slots(n) /\ Former(i, j) # i
         /\ j < i => Former(i, j) < i
         /\ j >= i => i < Former(i, j)
         /\ \A g \in Slots(n - 1) : g < j => Former(i, g) < Former(i, j)
  BY DEF Former, Slots

LEMMA RangeMoved ==
  ASSUME NEW a \in Nat, NEW b \in Nat, NEW d \in Nat, d <= a
  PROVE  /\ \A k \in a .. (a + b - 1) : k - d \in (a - d) .. (a - d + b - 1)
         /\ \A k \in (a - d) .. (a - d + b - 1) : k + d \in a .. (a + b - 1) /\ (k + d) - d = k
  OBVIOUS

\* A section keeps what it says when another is removed.
LEMMA RemovedHolds ==
  ASSUME NEW st, Sound(st), NEW i \in Slots(st.sectionLen),
         NEW j \in Slots(st.sectionLen - 1)
  PROVE  LET r == Removed(st, i)
             f == Former(i, j)
             shift == IF j < i THEN 0 ELSE st.sections[i].len
         IN  /\ r.sections[j].stream = st.sections[f].stream
             /\ r.sections[j].ric = st.sections[f].ric
             /\ r.sections[j].len = st.sections[f].len
             /\ r.sections[j].start = st.sections[f].start - shift
             /\ shift <= st.sections[f].start /\ shift \in Nat
             /\ r.sections[j].start \in Nat
             /\ r.sections[j].start + r.sections[j].len <= r.referenceLen
             /\ HeldAt(r, j) = HeldAt(st, f)
  <1> DEFINE r == Removed(st, i)
             f == Former(i, j)
             gone == st.sections[i]
             shift == IF j < i THEN 0 ELSE gone.len
             kept == st.sections[f]
  <1>1. /\ i \in Nat /\ i < st.sectionLen /\ j \in Nat /\ j < st.sectionLen - 1
        /\ f \in Slots(st.sectionLen) /\ f \in Nat
        /\ j < i => f < i
        /\ j >= i => i < f
        /\ st.sectionLen <= SectionSlots /\ st.referenceLen <= ReferenceSlots
        /\ SectionSlots \in Nat /\ ReferenceSlots \in Nat
        /\ st.sectionLen \in Nat /\ st.referenceLen \in Nat
    BY FormerSlots, StoreParts DEF Sound, Slots
  <1>2. /\ i \in Slots(SectionSlots) /\ j \in Slots(SectionSlots) /\ f \in Slots(SectionSlots)
        /\ i \in Slots(f) \/ f \in Slots(i)
    BY <1>1 DEF Slots
  <1>3. /\ kept.start \in Nat /\ kept.len \in Nat /\ kept.len > 0 /\ kept \in SectionRecord
        /\ gone.start \in Nat /\ gone.len \in Nat /\ gone.len > 0
        /\ kept.start + kept.len <= st.referenceLen
        /\ gone.start + gone.len <= st.referenceLen
        /\ j < i => kept.start + kept.len <= gone.start
        /\ j >= i => gone.start + gone.len <= kept.start
    <2>1. /\ kept \in SectionRecord
          /\ kept.start \in Nat /\ kept.len \in Nat /\ gone.start \in Nat /\ gone.len \in Nat
      BY <1>2, StoreParts DEF Sound
    <2>2. /\ kept.len > 0 /\ gone.len > 0
          /\ kept.start + kept.len <= st.referenceLen
          /\ gone.start + gone.len <= st.referenceLen
          /\ f \in Slots(i) => kept.start + kept.len <= gone.start
          /\ i \in Slots(f) => gone.start + gone.len <= kept.start
      BY <1>1 DEF Sound, Packed
    <2>3. (j < i => f \in Slots(i)) /\ (j >= i => i \in Slots(f))
      BY <1>1 DEF Slots
    <2> QED BY <2>1, <2>2, <2>3
  <1>4. r.sections[j] = IF j < i THEN kept ELSE [kept EXCEPT !.start = @ - gone.len]
    <2>1. r.sections[j] =
            IF j < i THEN st.sections[j]
            ELSE IF j < st.sectionLen - 1
                 THEN [st.sections[j + 1] EXCEPT !.start = @ - gone.len]
            ELSE IF j = st.sectionLen - 1 THEN EmptySection ELSE st.sections[j]
      BY <1>2, RemovedParts
    <2> HIDE DEF r, gone
    <2> QED BY <1>1, <2>1 DEF Former
  <1> HIDE DEF r, f, gone, kept
  <1>5. /\ r.sections[j].stream = kept.stream /\ r.sections[j].ric = kept.ric
        /\ r.sections[j].len = kept.len /\ r.sections[j].start = kept.start - shift
        /\ shift <= kept.start /\ shift \in Nat /\ r.sections[j].start \in Nat
    BY <1>1, <1>3, <1>4 DEF SectionRecord
  <1>6. /\ r.referenceLen = st.referenceLen - gone.len
        /\ \A k \in Slots(ReferenceSlots) :
             r.references[k] =
               IF k < gone.start THEN st.references[k]
               ELSE IF k < st.referenceLen - gone.len THEN st.references[k + gone.len]
               ELSE IF k < st.referenceLen THEN 0 ELSE st.references[k]
    BY RemovedCounts, RemovedReferences DEF r, gone
  <1>7. r.sections[j].start + r.sections[j].len <= r.referenceLen
    BY <1>1, <1>3, <1>5, <1>6
  <1>8. ASSUME NEW k \in kept.start .. (kept.start + kept.len - 1)
        PROVE  r.references[k - shift] = st.references[k]
    <2>1. k - shift \in Slots(ReferenceSlots)
      BY <1>1, <1>3, <1>5, <1>8 DEF Slots
    <2>2. CASE j < i
      <3>1. k - shift = k /\ k < gone.start
        BY <1>3, <2>2
      <3> QED BY <1>6, <2>1, <3>1
    <2>3. CASE j >= i
      <3>1. /\ shift = gone.len /\ ~ (k - shift < gone.start) /\ (k - shift) + gone.len = k
            /\ k - shift < st.referenceLen - gone.len
        BY <1>1, <1>3, <2>3
      <3> QED BY <1>6, <2>1, <3>1
    <2> QED BY <1>1, <2>2, <2>3
  <1>9. {r.references[k] : k \in RangeOf(r, j)} = {st.references[k] : k \in RangeOf(st, f)}
    <2>1. RangeOf(r, j) = (kept.start - shift) .. (kept.start - shift + kept.len - 1)
      BY <1>5 DEF RangeOf
    <2>2. RangeOf(st, f) = kept.start .. (kept.start + kept.len - 1)
      BY DEF RangeOf, kept
    <2> HIDE DEF shift
    <2>3. \A k \in RangeOf(st, f) :
            k - shift \in RangeOf(r, j) /\ r.references[k - shift] = st.references[k]
      BY <1>3, <1>5, <1>8, <2>1, <2>2, RangeMoved
    <2>4. \A k \in RangeOf(r, j) : k + shift \in RangeOf(st, f) /\ (k + shift) - shift = k
      <3>1. \A k \in (kept.start - shift) .. (kept.start - shift + kept.len - 1) :
              /\ k + shift \in kept.start .. (kept.start + kept.len - 1)
              /\ (k + shift) - shift = k
        BY <1>3, <1>5, RangeMoved
      <3> QED BY <2>1, <2>2, <3>1, Zenon
    <2> QED BY <2>3, <2>4
  <1>10. HeldAt(r, j) = HeldAt(st, f)
    BY <1>5, <1>9 DEF HeldAt, kept
  <1> QED BY <1>5, <1>7, <1>10 DEF r, f, gone, kept

LEMMA RemovedTyped ==
  ASSUME NEW st, Sound(st), NEW i \in Slots(st.sectionLen)
  PROVE  /\ Removed(st, i) \in Store
         /\ \A j \in Slots(st.sectionLen - 1) :
              Removed(st, i).ids[j + 1] = st.ids[Former(i, j) + 1]
         /\ Len(Removed(st, i).ids) = st.sectionLen - 1
  <1> DEFINE r == Removed(st, i)
             gone == st.sections[i]
             ids == st.ids
             n == st.sectionLen
  <1>1. /\ i \in Nat /\ i < n /\ n \in Nat /\ n <= SectionSlots
        /\ st.referenceLen \in Nat /\ st.referenceLen <= ReferenceSlots
        /\ SectionSlots \in Nat /\ ReferenceSlots \in Nat
        /\ ids \in Seq(Nat) /\ Len(ids) = n /\ st.count \in Nat
    BY StoreParts DEF Sound, Slots, Numbered
  <1>2. /\ gone.len \in Nat /\ gone.start \in Nat /\ gone.start + gone.len <= st.referenceLen
    <2>1. i \in Slots(SectionSlots)
      BY <1>1 DEF Slots
    <2> QED BY <2>1, StoreParts DEF Sound, Packed
  <1>3. /\ r.ids = SubSeq(ids, 1, i) \o SubSeq(ids, i + 2, Len(ids))
        /\ r.sectionLen = n - 1 /\ r.referenceLen = st.referenceLen - gone.len
        /\ r.count = st.count
        /\ r.sections = [j \in Slots(SectionSlots) |-> r.sections[j]]
        /\ r.references = [k \in Slots(ReferenceSlots) |-> r.references[k]]
        /\ r = [sections |-> r.sections, references |-> r.references,
                sectionLen |-> r.sectionLen, referenceLen |-> r.referenceLen,
                ids |-> r.ids, count |-> r.count]
    BY RemovedCounts, RemovedShape
  <1>4. /\ r.ids \in Seq(Nat) /\ Len(r.ids) = n - 1
        /\ \A j \in Slots(n - 1) : r.ids[j + 1] = ids[Former(i, j) + 1]
    <2> HIDE DEF r, ids, n
    <2>1. SubSeq(ids, 1, i) \in Seq(Nat) /\ Len(SubSeq(ids, 1, i)) = i
          /\ \A k \in 1 .. i : SubSeq(ids, 1, i)[k] = ids[k]
      BY <1>1
    <2>2. SubSeq(ids, i + 2, n) \in Seq(Nat) /\ Len(SubSeq(ids, i + 2, n)) = n - i - 1
          /\ \A k \in 1 .. (n - i - 1) : SubSeq(ids, i + 2, n)[k] = ids[k + i + 1]
      BY <1>1
    <2> DEFINE p == SubSeq(ids, 1, i)
               q == SubSeq(ids, i + 2, n)
    <2>5. r.ids = p \o q
      BY <1>1, <1>3
    <2> HIDE DEF p, q
    <2>6. /\ p \o q \in Seq(Nat) /\ Len(p \o q) = n - 1
          /\ \A k \in 1 .. i : (p \o q)[k] = p[k]
          /\ \A k \in (i + 1) .. (n - 1) : (p \o q)[k] = q[k - i]
      <3>1. p \in Seq(Nat) /\ q \in Seq(Nat) /\ Len(p) = i /\ Len(q) = n - i - 1
        BY <2>1, <2>2 DEF p, q
      <3>2. /\ p \o q \in Seq(Nat) /\ Len(p \o q) = Len(p) + Len(q)
            /\ \A k \in 1 .. Len(p) + Len(q) :
                 (p \o q)[k] = IF k <= Len(p) THEN p[k] ELSE q[k - Len(p)]
        BY <3>1, ConcatProperties
      <3>3. i + (n - i - 1) = n - 1 /\ i < n
        BY <1>1
      <3>4. \A k \in 1 .. (n - 1) : (p \o q)[k] = IF k <= i THEN p[k] ELSE q[k - i]
        BY <3>1, <3>2, <3>3
      <3>5. /\ \A k \in 1 .. i : k \in 1 .. (n - 1) /\ k <= i
            /\ \A k \in (i + 1) .. (n - 1) : k \in 1 .. (n - 1) /\ ~ (k <= i)
        BY <1>1
      <3> QED BY <3>1, <3>2, <3>3, <3>4, <3>5
    <2>3. r.ids \in Seq(Nat) /\ Len(r.ids) = n - 1
      BY <2>5, <2>6
    <2>4. ASSUME NEW j \in Slots(n - 1) PROVE r.ids[j + 1] = ids[Former(i, j) + 1]
      <3>1. j \in Nat /\ j < n - 1
        BY <1>1 DEF Slots
      <3>2. CASE j < i
        <4>1. j + 1 \in 1 .. i /\ Former(i, j) = j
          BY <1>1, <3>1, <3>2 DEF Former
        <4>2. r.ids[j + 1] = SubSeq(ids, 1, i)[j + 1]
          BY <2>5, <2>6, <4>1 DEF p, q
        <4> QED BY <2>1, <4>1, <4>2
      <3>3. CASE j >= i
        <4>1. /\ j + 1 - i \in 1 .. (n - i - 1) /\ Former(i, j) + 1 = (j + 1 - i) + i + 1
              /\ j + 1 \in (i + 1) .. (n - 1)
          BY <1>1, <3>1, <3>3 DEF Former
        <4>2. r.ids[j + 1] = q[j + 1 - i]
          <5>1. PICK m \in (i + 1) .. (n - 1) : m = j + 1
            BY <4>1
          <5>2. r.ids[m] = q[m - i]
            BY <2>5, <2>6
          <5> QED BY <1>1, <3>1, <5>1, <5>2
        <4> QED BY <2>2, <4>1, <4>2 DEF q
      <3> QED BY <1>1, <3>1, <3>2, <3>3
    <2> QED BY <2>3, <2>4 DEF r, ids, n
  <1>5. r.sections \in [Slots(SectionSlots) -> SectionRecord]
    <2>1. ASSUME NEW j \in Slots(SectionSlots) PROVE r.sections[j] \in SectionRecord
      <3>1. j \in Nat /\ j < SectionSlots
        BY <1>1 DEF Slots
      <3>2. r.sections[j] = IF j < i THEN st.sections[j]
                            ELSE IF j < n - 1
                                 THEN [st.sections[j + 1] EXCEPT !.start = @ - gone.len]
                            ELSE IF j = n - 1 THEN EmptySection ELSE st.sections[j]
        BY RemovedParts
      <3>3. st.sections[j] \in SectionRecord
        BY StoreParts DEF Sound
      <3>4. EmptySection \in SectionRecord
        BY DEF EmptySection, SectionRecord
      <3>5. CASE j >= i /\ j < n - 1
        <4>1. j \in Slots(n - 1) /\ Former(i, j) = j + 1 /\ j + 1 \in Slots(SectionSlots)
          BY <1>1, <3>1, <3>5 DEF Former, Slots
        <4>2. st.sections[j + 1] \in SectionRecord
          BY <4>1, StoreParts DEF Sound
        <4>3. r.sections[j].start \in Nat
          BY <4>1, RemovedHolds
        <4>4. r.sections[j] = [st.sections[j + 1] EXCEPT !.start = @ - gone.len]
          BY <1>1, <3>1, <3>2, <3>5
        <4> HIDE DEF r, gone
        <4>5. r.sections[j].start = st.sections[j + 1].start - gone.len
          BY <4>2, <4>4 DEF SectionRecord
        <4> QED BY <4>2, <4>3, <4>4, <4>5 DEF SectionRecord
      <3>6. CASE ~ (j >= i /\ j < n - 1)
        <4>1. r.sections[j] \in {st.sections[j], EmptySection}
          BY <1>1, <3>1, <3>2, <3>6
        <4> QED BY <3>3, <3>4, <4>1
      <3> QED BY <3>5, <3>6
    <2> HIDE DEF r
    <2> QED BY <1>3, <2>1
  <1>6. r.references \in [Slots(ReferenceSlots) -> Nat]
    <2>1. ASSUME NEW k \in Slots(ReferenceSlots) PROVE r.references[k] \in Nat
      <3>1. r.references[k] = IF k < gone.start THEN st.references[k]
                              ELSE IF k < st.referenceLen - gone.len
                                   THEN st.references[k + gone.len]
                              ELSE IF k < st.referenceLen THEN 0 ELSE st.references[k]
        BY RemovedParts
      <3> HIDE DEF gone, r
      <3>2. k < st.referenceLen - gone.len => k + gone.len \in Slots(ReferenceSlots)
        <4>1. k \in Nat
          BY <1>1 DEF Slots
        <4>2. k < st.referenceLen - gone.len => k + gone.len < ReferenceSlots
          BY <1>1, <1>2, <4>1
        <4>3. k + gone.len \in Nat
          BY <1>2, <4>1
        <4> QED BY <1>1, <4>2, <4>3, InSlots
      <3>3. \A m \in Slots(ReferenceSlots) : st.references[m] \in Nat
        BY StoreParts DEF Sound
      <3> QED BY <3>1, <3>2, <3>3
    <2> HIDE DEF r
    <2> QED BY <1>3, <2>1
  <1> HIDE DEF r, n, gone
  <1>7. r.sectionLen \in Slots(SectionSlots + 1) /\ r.referenceLen \in Slots(ReferenceSlots + 1)
    <2>1. /\ n - 1 \in Nat /\ n - 1 < SectionSlots + 1
          /\ st.referenceLen - gone.len \in Nat
          /\ st.referenceLen - gone.len < ReferenceSlots + 1
      BY <1>1, <1>2
    <2>2. r.sectionLen = n - 1 /\ r.referenceLen = st.referenceLen - gone.len
      BY <1>3
    <2>3. n - 1 \in 0 .. ((SectionSlots + 1) - 1)
          /\ st.referenceLen - gone.len \in 0 .. ((ReferenceSlots + 1) - 1)
      BY <1>1, <2>1
    <2> QED BY <2>2, <2>3 DEF Slots
  <1>8. r \in Store
    <2> QED BY <1>1, <1>3, <1>4, <1>5, <1>6, <1>7 DEF Store
  <1> QED BY <1>4, <1>8 DEF r, n


LEMMA RemovedSound ==
  ASSUME NEW st, Sound(st), NEW i \in Slots(st.sectionLen)
  PROVE  Sound(Removed(st, i))
  <1> DEFINE r == Removed(st, i)
             gone == st.sections[i]
             n == st.sectionLen
             left == st.referenceLen - gone.len
  <1>1. /\ i \in Nat /\ i < n /\ n \in Nat /\ n <= SectionSlots
        /\ st.referenceLen \in Nat /\ st.referenceLen <= ReferenceSlots
        /\ SectionSlots \in Nat /\ ReferenceSlots \in Nat
        /\ Len(st.ids) = n
    BY StoreParts DEF Sound, Slots, Numbered
  <1>2. /\ gone.len \in Nat /\ gone.start \in Nat /\ gone.start + gone.len <= st.referenceLen
    <2>1. i \in Slots(SectionSlots)
      BY <1>1 DEF Slots
    <2> QED BY <2>1, StoreParts DEF Sound, Packed
  <1>3. r.sectionLen = n - 1 /\ r.referenceLen = left /\ r.count = st.count
    BY RemovedCounts
  <1>4. r \in Store /\ Len(r.ids) = n - 1
        /\ \A j \in Slots(n - 1) : r.ids[j + 1] = st.ids[Former(i, j) + 1]
    BY RemovedTyped
  <1>5. \A j \in Slots(n - 1) :
          /\ Former(i, j) \in Slots(n) /\ Former(i, j) # i
          /\ \A g \in Slots(n - 1) : g < j => Former(i, g) < Former(i, j)
    BY <1>1, FormerSlots
  <1>6. Numbered(r)
    <2>1. ASSUME NEW k \in 1 .. Len(r.ids)
          PROVE  /\ k - 1 \in Slots(n - 1) /\ (k - 1) + 1 = k
                 /\ Former(i, k - 1) + 1 \in 1 .. Len(st.ids)
                 /\ r.ids[k] = st.ids[Former(i, k - 1) + 1]
      <3>1. k - 1 \in Slots(n - 1) /\ (k - 1) + 1 = k
        BY <1>1, <1>4 DEF Slots
      <3>2. Former(i, k - 1) + 1 \in 1 .. Len(st.ids)
        <4>1. Former(i, k - 1) \in Nat /\ Former(i, k - 1) < n
          BY <1>1, <1>5, <3>1, InSlots
        <4> HIDE DEF n
        <4> QED BY <1>1, <4>1
      <3> QED BY <1>4, <3>1, <3>2
    <2>2. \A k \in 1 .. Len(r.ids) : r.ids[k] < r.count
      BY <1>3, <2>1 DEF Sound, Numbered
    <2>3. ASSUME NEW k \in 1 .. Len(r.ids), NEW j \in 1 .. Len(r.ids), j < k
          PROVE  r.ids[j] < r.ids[k]
      <3>1. j - 1 < k - 1
        BY <1>1, <1>4, <2>3
      <3>2. Former(i, j - 1) < Former(i, k - 1)
        BY <1>5, <2>1, <3>1
      <3>3. Former(i, j - 1) + 1 < Former(i, k - 1) + 1
        <4>1. Former(i, j - 1) \in Nat /\ Former(i, k - 1) \in Nat
          BY <1>1, <1>5, <2>1, InSlots
        <4> QED BY <3>2, <4>1
      <3> QED BY <2>1, <3>3 DEF Sound, Numbered
    <2> QED BY <1>3, <1>4, <2>2, <2>3 DEF Numbered
  <1>7. \A x \in Slots(n - 1) :
           /\ r.sections[x].len = st.sections[Former(i, x)].len
           /\ r.sections[x].start =
                st.sections[Former(i, x)].start - (IF x < i THEN 0 ELSE gone.len)
    <2>1. ASSUME NEW x \in Slots(n - 1)
          PROVE  /\ r.sections[x].len = st.sections[Former(i, x)].len
                 /\ r.sections[x].start =
                      st.sections[Former(i, x)].start - (IF x < i THEN 0 ELSE gone.len)
      BY RemovedHolds
    <2> QED BY <2>1
  <1>8. ASSUME NEW j \in Slots(n - 1)
        PROVE  /\ r.sections[j].stream \in Streams /\ r.sections[j].ric > 0
               /\ r.sections[j].len > 0
               /\ r.sections[j].start + r.sections[j].len <= r.referenceLen
               /\ \A g \in Slots(j) :
                    r.sections[g].start + r.sections[g].len <= r.sections[j].start
    <2>1. /\ r.sections[j].stream \in Streams /\ r.sections[j].ric > 0
          /\ r.sections[j].len > 0
          /\ r.sections[j].start + r.sections[j].len <= r.referenceLen
      BY <1>5, RemovedHolds DEF Sound, Packed
    <2>2. ASSUME NEW g \in Slots(j)
          PROVE  r.sections[g].start + r.sections[g].len <= r.sections[j].start
      <3> DEFINE a == st.sections[Former(i, g)]
                 b == st.sections[Former(i, j)]
      <3>1. g \in Slots(n - 1) /\ g < j /\ g \in Nat /\ j \in Nat
        BY <1>1 DEF Slots
      <3>2. Former(i, g) < Former(i, j) /\ Former(i, g) \in Slots(n) /\ Former(i, j) \in Slots(n)
        BY <1>5, <3>1
      <3>3. Former(i, g) \in Slots(Former(i, j))
        BY <1>1, <3>2 DEF Slots
      <3>4. a.start + a.len <= b.start
        BY <3>2, <3>3 DEF Sound, Packed
      <3>5. a.start \in Nat /\ a.len \in Nat /\ b.start \in Nat
        <4>1. Former(i, g) \in Slots(SectionSlots) /\ Former(i, j) \in Slots(SectionSlots)
          BY <1>1, <3>2 DEF Slots
        <4> QED BY <4>1, StoreParts DEF Sound
      <3>6. /\ r.sections[g].len = a.len
            /\ r.sections[g].start = a.start - (IF g < i THEN 0 ELSE gone.len)
            /\ r.sections[j].start = b.start - (IF j < i THEN 0 ELSE gone.len)
        BY <1>7, <3>1
      <3> HIDE DEF r, gone, a, b
      <3>7. CASE j < i
        BY <1>1, <3>1, <3>4, <3>5, <3>6, <3>7
      <3>8. CASE j >= i /\ g >= i
        <4>1. /\ r.sections[j].start = b.start - gone.len
              /\ r.sections[g].start = a.start - gone.len
          BY <1>1, <3>1, <3>6, <3>8
        <4> QED BY <1>2, <3>4, <3>5, <3>6, <4>1
      <3>9. CASE j >= i /\ g < i
        <4>1. /\ Former(i, g) < i /\ i < Former(i, j)
          BY <1>1, <3>1, <3>9, FormerSlots
        <4>2. Former(i, g) \in Slots(i) /\ i \in Slots(Former(i, j))
          BY <1>1, <3>2, <4>1 DEF Slots
        <4>3. a.start + a.len <= gone.start /\ gone.start + gone.len <= b.start
          BY <3>2, <4>2 DEF Sound, Packed, a, b, gone
        <4>4. r.sections[j].start = b.start - gone.len /\ r.sections[g].start = a.start - 0
          BY <1>1, <3>1, <3>6, <3>9
        <4> QED BY <1>2, <3>5, <3>6, <4>3, <4>4
      <3> QED BY <1>1, <3>1, <3>7, <3>8, <3>9
    <2> QED BY <2>1, <2>2
  <1>9. ASSUME NEW k \in Slots(left)
        PROVE  \E j \in Slots(n - 1) : k \in RangeOf(r, j)
    <2> DEFINE at == IF k < gone.start THEN k ELSE k + gone.len
    <2>1. k \in Nat /\ k < left /\ at \in Slots(st.referenceLen)
      <3>1. left \in Int
        BY <1>1, <1>2
      <3>2. k \in Nat /\ k < left
        BY <3>1, InSlots
      <3> HIDE DEF gone
      <3>3. at \in Nat /\ at < st.referenceLen
        BY <1>1, <1>2, <3>2
      <3> QED BY <1>1, <3>2, <3>3, InSlots
    <2>2. PICK f \in Slots(n) : at \in RangeOf(st, f)
      BY <2>1 DEF Sound, Packed
    <2> DEFINE a == st.sections[f]
    <2>3. /\ f \in Nat /\ f < n /\ a.start \in Nat /\ a.len \in Nat
          /\ a.start <= at /\ at < a.start + a.len
      <3>1. f \in Nat /\ f < n /\ f \in Slots(SectionSlots)
        BY <1>1 DEF Slots
      <3>2. a.start \in Nat /\ a.len \in Nat
        BY <3>1, StoreParts DEF Sound
      <3>3. at \in a.start .. (a.start + a.len - 1)
        BY <2>2 DEF RangeOf
      <3> QED BY <3>1, <3>2, <3>3
    <2>4. /\ f \in Slots(i) => a.start + a.len <= gone.start
          /\ i \in Slots(f) => gone.start + gone.len <= a.start
      BY <1>1 DEF Sound, Packed
    <2>5. f # i
      BY <1>1, <1>2, <2>1, <2>3
    <2> DEFINE j == IF f < i THEN f ELSE f - 1
    <2>6. j \in Slots(n - 1) /\ Former(i, j) = f /\ (j < i <=> f < i)
      BY <1>1, <2>3, <2>5 DEF Slots, Former
    <2>7. /\ r.sections[j].len = a.len
          /\ r.sections[j].start = a.start - (IF j < i THEN 0 ELSE gone.len)
      BY <1>7, <2>6
    <2> HIDE DEF j, a, gone
    <2>8. CASE f < i
      <3>1. f \in Slots(i)
        BY <1>1, <2>3, <2>8 DEF Slots
      <3>2. at = k
        <4>1. at < gone.start /\ gone.len \in Nat /\ k \in Nat
          BY <1>2, <2>1, <2>3, <2>4, <3>1
        <4> QED BY <1>2, <4>1
      <3>3. k \in RangeOf(r, j)
        BY <2>1, <2>3, <2>6, <2>7, <2>8, <3>2 DEF RangeOf
      <3> QED BY <2>6, <3>3
    <2>9. CASE f > i
      <3>1. i \in Slots(f) /\ ~ (f < i)
        BY <1>1, <2>3, <2>9 DEF Slots
      <3>2. at = k + gone.len
        BY <1>1, <1>2, <2>1, <2>3, <2>4, <3>1
      <3>3. k \in RangeOf(r, j)
        BY <1>2, <2>1, <2>3, <2>6, <2>7, <3>1, <3>2 DEF RangeOf
      <3> QED BY <2>6, <3>3
    <2> QED BY <1>1, <2>3, <2>5, <2>8, <2>9
  <1>10. \A j \in Slots(SectionSlots) : j >= n - 1 => r.sections[j] = EmptySection
    <2>1. ASSUME NEW j \in Slots(SectionSlots), j >= n - 1 PROVE r.sections[j] = EmptySection
      <3>1. j \in Nat /\ ~ (j < i) /\ ~ (j < n - 1) /\ (j = n - 1 \/ j >= n)
        BY <1>1, <2>1 DEF Slots
      <3>2. r.sections[j] = IF j = n - 1 THEN EmptySection ELSE st.sections[j]
        BY <3>1, RemovedParts
      <3> QED BY <3>1, <3>2 DEF Sound, Packed
    <2> QED BY <2>1
  <1>11. \A k \in Slots(ReferenceSlots) : k >= left => r.references[k] = 0
    <2>1. ASSUME NEW k \in Slots(ReferenceSlots), k >= left PROVE r.references[k] = 0
      <3>1. k \in Nat /\ ~ (k < gone.start) /\ ~ (k < left)
        <4>1. k \in Nat
          BY <1>1, InSlots
        <4> HIDE DEF gone
        <4> QED BY <1>1, <1>2, <2>1, <4>1
      <3>2. r.references[k] = IF k < st.referenceLen THEN 0 ELSE st.references[k]
        BY <3>1, RemovedReferences
      <3> QED BY <1>1, <3>1, <3>2 DEF Sound, Packed
    <2> QED BY <2>1
  <1>12. Packed(r)
    <2> HIDE DEF r, n, left
    <2> QED BY <1>3, <1>8, <1>9, <1>10, <1>11 DEF Packed
  <1> QED BY <1>4, <1>6, <1>12 DEF Sound

\* The ledger loses that section and no other.
LEMMA LedgerRemoved ==
  ASSUME NEW st, Sound(st), NEW i \in Slots(st.sectionLen)
  PROVE  LedgerOf(Removed(st, i)) = Ledger!Without(LedgerOf(st), {st.ids[i + 1]})
  <1> DEFINE r == Removed(st, i)
             n == st.sectionLen
             without == Ledger!Without(LedgerOf(st), {st.ids[i + 1]})
  <1>1. i \in Nat /\ i < n /\ n \in Nat
    BY StoreParts DEF Sound, Slots
  <1>2. Sound(r) /\ r.sectionLen = n - 1
    BY RemovedSound, RemovedCounts
  <1>3. \A j \in Slots(n - 1) :
          /\ Former(i, j) \in Slots(n) /\ Former(i, j) # i
          /\ r.ids[j + 1] = st.ids[Former(i, j) + 1]
          /\ HeldAt(r, j) = HeldAt(st, Former(i, j))
    BY <1>1, FormerSlots, RemovedTyped, RemovedHolds
  <1>4. \A f \in Slots(n) : f # i => \E j \in Slots(n - 1) : Former(i, j) = f
    <2>1. ASSUME NEW f \in Slots(n), f # i
          PROVE  \E j \in Slots(n - 1) : Former(i, j) = f
      <3>1. f \in Nat /\ f < n
        BY <1>1, InSlots
      <3>2. CASE f < i
        <4>1. f \in Slots(n - 1) /\ Former(i, f) = f
          BY <1>1, <3>1, <3>2, InSlots DEF Former
        <4> QED BY <4>1
      <3>3. CASE f > i
        <4>1. f - 1 \in Nat /\ f - 1 < n - 1 /\ ~ (f - 1 < i) /\ (f - 1) + 1 = f
          BY <1>1, <3>1, <3>3
        <4>2. f - 1 \in Slots(n - 1) /\ Former(i, f - 1) = f
          BY <1>1, <4>1, InSlots DEF Former
        <4> QED BY <4>2
      <3> QED BY <1>1, <2>1, <3>1, <3>2, <3>3
    <2> QED BY <2>1
  <1>5. \A f \in Slots(n) : st.ids[f + 1] = st.ids[i + 1] => f = i
    <2>1. \A j, k \in 1 .. n : j < k => st.ids[j] < st.ids[k]
      BY <1>1 DEF Sound, Numbered
    <2>2. \A k \in 1 .. n : st.ids[k] \in Nat
      BY StoreParts DEF Sound, Numbered
    <2>3. \A f \in Slots(n) : f \in Nat /\ f < n
      BY <1>1, InSlots
    <2>4. \A f \in Slots(n) : f + 1 \in 1 .. n
      BY <1>1, <2>3
    <2>5. ASSUME NEW f \in Slots(n), st.ids[f + 1] = st.ids[i + 1], f # i PROVE FALSE
      <3>0. i + 1 \in 1 .. n /\ f + 1 \in 1 .. n
        BY <2>4
      <3> HIDE DEF n
      <3>1. f + 1 < i + 1 \/ i + 1 < f + 1
        <4>1. f \in Nat
          BY <2>3
        <4> QED BY <1>1, <2>5, <4>1
      <3>2. st.ids[f + 1] < st.ids[i + 1] \/ st.ids[i + 1] < st.ids[f + 1]
        BY <2>1, <3>0, <3>1
      <3> QED BY <2>2, <2>5, <3>0, <3>2
    <2> QED BY <2>5
  <1>6. /\ DOMAIN without = DOMAIN LedgerOf(st) \ {st.ids[i + 1]}
        /\ \A m \in DOMAIN without : without[m] = LedgerOf(st)[m]
    BY DEF Ledger!Without
  <1> HIDE DEF r, without, n
  <1>7. /\ DOMAIN LedgerOf(st) = {st.ids[f + 1] : f \in Slots(n)}
        /\ \A f \in Slots(n) : LedgerOf(st)[st.ids[f + 1]] = HeldAt(st, f)
    BY LedgerAt DEF n
  <1>8. /\ DOMAIN LedgerOf(r) = {r.ids[j + 1] : j \in Slots(n - 1)}
        /\ \A j \in Slots(n - 1) : LedgerOf(r)[r.ids[j + 1]] = HeldAt(r, j)
    BY <1>2, LedgerAt
  <1>9. DOMAIN LedgerOf(r) = DOMAIN without
    <2>1. ASSUME NEW m \in DOMAIN LedgerOf(r) PROVE m \in DOMAIN without
      <3>1. PICK j \in Slots(n - 1) : m = r.ids[j + 1]
        BY <1>8
      <3> QED BY <1>3, <1>5, <1>6, <1>7, <3>1
    <2>2. ASSUME NEW m \in DOMAIN without PROVE m \in DOMAIN LedgerOf(r)
      <3>1. PICK f \in Slots(n) : m = st.ids[f + 1] /\ f # i
        BY <1>6, <1>7
      <3>2. PICK j \in Slots(n - 1) : Former(i, j) = f
        BY <1>4, <3>1
      <3> QED BY <1>3, <1>8, <3>1, <3>2
    <2> QED BY <2>1, <2>2
  <1>10. ASSUME NEW m \in DOMAIN LedgerOf(r) PROVE LedgerOf(r)[m] = without[m]
    <2>1. PICK j \in Slots(n - 1) : m = r.ids[j + 1]
      BY <1>8
    <2>2. LedgerOf(r)[m] = HeldAt(r, j)
      BY <1>8, <2>1
    <2>3. /\ Former(i, j) \in Slots(n) /\ m = st.ids[Former(i, j) + 1]
          /\ HeldAt(r, j) = HeldAt(st, Former(i, j))
      BY <1>3, <2>1
    <2>4. LedgerOf(st)[m] = HeldAt(st, Former(i, j))
      BY <1>7, <2>3
    <2>5. without[m] = LedgerOf(st)[m]
      BY <1>6, <1>9
    <2> QED BY <2>2, <2>3, <2>4, <2>5
  <1>11. LedgerOf(r) = [m \in DOMAIN LedgerOf(r) |-> LedgerOf(r)[m]]
    BY DEF LedgerOf
  <1>12. without = [m \in DOMAIN without |-> without[m]]
    BY DEF without, Ledger!Without
  <1>13. LedgerOf(r) = without
    BY <1>9, <1>10, <1>11, <1>12
  <1> QED BY <1>13 DEF r, without

-----------------------------------------------------------------------------
(***************************************************************************)
(* register.                                                               *)
(***************************************************************************)
LEMMA AppendedNumber ==
  ASSUME NEW ids \in Seq(Nat), NEW m \in Nat
  PROVE  /\ Append(ids, m) \in Seq(Nat) /\ Len(Append(ids, m)) = Len(ids) + 1
         /\ \A k \in 1 .. Len(ids) : Append(ids, m)[k] = ids[k]
         /\ Append(ids, m)[Len(ids) + 1] = m
  BY AppendProperties

\* A registration keeps the arrays sound, and every section before it as it was.
LEMMA CommittedParts ==
  ASSUME Sound(store), NEW s \in Streams, NEW ric \in Nat \ {0}, NEW refs \in Seq(Nat),
         Len(refs) > 0, store.sectionLen < SectionSlots,
         Len(refs) <= ReferenceSlots - store.referenceLen
  PROVE  LET c == Committed(s, ric, refs)
         IN  /\ Sound(c) /\ c.sectionLen = store.sectionLen + 1
             /\ c.ids = Append(store.ids, store.count)
             /\ \A i \in Slots(store.sectionLen) : HeldAt(c, i) = HeldAt(store, i)
             /\ HeldAt(c, store.sectionLen) =
                  [stream |-> s, ric |-> ric, refs |-> {refs[k] : k \in DOMAIN refs}]
  <1> DEFINE c == Committed(s, ric, refs)
             n == store.sectionLen
             start == store.referenceLen
             l == Len(refs)
             new == [stream |-> s, ric |-> ric, start |-> start, len |-> l]
  <1>1. /\ n \in Nat /\ n < SectionSlots /\ SectionSlots \in Nat /\ ReferenceSlots \in Nat
        /\ start \in Nat /\ l \in Nat /\ l > 0 /\ start + l <= ReferenceSlots
        /\ DOMAIN refs = 1 .. l /\ Len(store.ids) = n /\ store.ids \in Seq(Nat)
        /\ store.count \in Nat
    BY StoreParts DEF Sound, Numbered
  <1>2. n \in Slots(SectionSlots)
    BY <1>1, InSlots
  <1>3. /\ DOMAIN store.sections = Slots(SectionSlots)
        /\ DOMAIN store.references = Slots(ReferenceSlots)
        /\ store.sections \in [Slots(SectionSlots) -> SectionRecord]
        /\ store.references \in [Slots(ReferenceSlots) -> Nat]
    BY StoreParts DEF Sound
  <1>4. /\ c = [sections |-> c.sections, references |-> c.references,
                sectionLen |-> c.sectionLen, referenceLen |-> c.referenceLen,
                ids |-> c.ids, count |-> c.count]
        /\ c.sectionLen = n + 1 /\ c.referenceLen = start + l /\ c.count = store.count + 1
        /\ c.ids = Append(store.ids, store.count)
        /\ c.sections = [store.sections EXCEPT ![n] = new]
        /\ c.references =
             [k \in DOMAIN store.references |->
                IF k \in start .. (start + l - 1) THEN refs[k - start + 1]
                ELSE store.references[k]]
    <2>1. c = [sections |-> c.sections, references |-> c.references,
               sectionLen |-> c.sectionLen, referenceLen |-> c.referenceLen,
               ids |-> c.ids, count |-> c.count]
      BY DEF Committed
    <2>2. /\ c.sectionLen = n + 1 /\ c.referenceLen = start + l
          /\ c.count = store.count + 1 /\ c.ids = Append(store.ids, store.count)
      BY DEF Committed
    <2>3. c.sections = [store.sections EXCEPT ![n] = new]
      BY DEF Committed
    <2>4. c.references =
            [k \in DOMAIN store.references |->
               IF k \in start .. (start + l - 1) THEN refs[k - start + 1]
               ELSE store.references[k]]
      BY DEF Committed, Filled
    <2> QED BY <2>1, <2>2, <2>3, <2>4
  <1> HIDE DEF c
  <1> DEFINE ids == Append(store.ids, store.count)
  <1>5. /\ ids \in Seq(Nat) /\ Len(ids) = Len(store.ids) + 1
         /\ (\A k \in 1 .. Len(store.ids) : ids[k] = store.ids[k])
         /\ ids[Len(store.ids) + 1] = store.count
    <2>1. store.ids \in Seq(Nat) /\ store.count \in Nat
      BY <1>1
    <2> QED BY <2>1, AppendedNumber
  <1> HIDE DEF ids
  <1>6. c.ids = ids /\ c.count = store.count + 1
    BY <1>4 DEF ids
  <1>7. /\ \A i \in Slots(SectionSlots) :
             c.sections[i] = IF i = n THEN new ELSE store.sections[i]
        /\ \A k \in Slots(ReferenceSlots) :
             c.references[k] = IF k \in start .. (start + l - 1) THEN refs[k - start + 1]
                               ELSE store.references[k]
    BY <1>2, <1>3, <1>4
  <1>8. \A k \in start .. (start + l - 1) :
          /\ k \in Slots(ReferenceSlots) /\ k - start + 1 \in 1 .. l
          /\ c.references[k] = refs[k - start + 1]
    <2>1. \A k \in start .. (start + l - 1) :
            k \in Slots(ReferenceSlots) /\ k - start + 1 \in 1 .. l
      <3> HIDE DEF start, l
      <3> QED BY <1>1 DEF Slots
    <2> QED BY <1>7, <2>1
  <1>9. c \in Store
    <2>1. new \in SectionRecord
      BY <1>1 DEF SectionRecord
    <2>2. c.sections \in [Slots(SectionSlots) -> SectionRecord]
      BY <1>2, <1>3, <1>4, <2>1
    <2>3. c.references \in [Slots(ReferenceSlots) -> Nat]
      <3>1. \A k \in 1 .. l : refs[k] \in Nat
        BY <1>1
      <3>2. \A k \in Slots(ReferenceSlots) : c.references[k] \in Nat
        BY <1>3, <1>7, <1>8, <3>1
      <3>3. c.references = [k \in Slots(ReferenceSlots) |-> c.references[k]]
        BY <1>3, <1>4
      <3> QED BY <3>2, <3>3
    <2>4. n + 1 \in Slots(SectionSlots + 1) /\ start + l \in Slots(ReferenceSlots + 1)
      <3> HIDE DEF n, start, l
      <3> QED BY <1>1 DEF Slots
    <2>5. c.ids \in Seq(Nat) /\ c.count \in Nat
      <3>1. c.ids \in Seq(Nat)
        BY <1>5, <1>6
      <3>2. c.count \in Nat
        BY <1>1, <1>6
      <3> QED BY <3>1, <3>2
    <2> QED BY <1>4, <2>2, <2>3, <2>4, <2>5 DEF Store
  <1>10. Numbered(c)
    <2>1. Len(c.ids) = n + 1 /\ (\A k \in 1 .. n : c.ids[k] = store.ids[k])
          /\ c.ids[n + 1] = store.count
      BY <1>1, <1>5, <1>6
    <2>2. /\ \A k \in 1 .. n : store.ids[k] \in Nat /\ store.ids[k] < store.count
          /\ \A j, k \in 1 .. n : j < k => store.ids[j] < store.ids[k]
      <3>1. \A k \in 1 .. Len(store.ids) : store.ids[k] \in Nat
        BY <1>1, ElementOfSeq
      <3>2. /\ \A k \in 1 .. Len(store.ids) : store.ids[k] < store.count
            /\ \A j, k \in 1 .. Len(store.ids) : j < k => store.ids[j] < store.ids[k]
        BY DEF Sound, Numbered
      <3> QED BY <1>1, <3>1, <3>2
    <2>3. ASSUME NEW k \in 1 .. (n + 1)
          PROVE  /\ c.ids[k] < c.count
                 /\ \A j \in 1 .. (n + 1) : j < k => c.ids[j] < c.ids[k]
      <3> HIDE DEF n
      <3>1. c.count = store.count + 1 /\ store.count \in Nat /\ k \in Nat
        BY <1>1, <1>4
      <3>2. \A j \in 1 .. (n + 1) : j < k => j \in 1 .. n
        BY <1>1
      <3>3. CASE k \in 1 .. n
        <4>1. c.ids[k] = store.ids[k] /\ store.ids[k] \in Nat /\ store.ids[k] < store.count
          BY <2>1, <2>2, <3>3
        <4>2. ASSUME NEW j \in 1 .. (n + 1), j < k PROVE c.ids[j] < c.ids[k]
          BY <2>1, <2>2, <3>2, <3>3, <4>2
        <4> QED BY <3>1, <4>1, <4>2
      <3>4. CASE k = n + 1
        BY <2>1, <2>2, <3>1, <3>2, <3>4
      <3> QED BY <1>1, <3>3, <3>4
    <2> QED BY <1>4, <2>1, <2>3 DEF Numbered
  <1>11. \A i \in Slots(n) :
          /\ i \in Nat /\ i < n /\ i \in Slots(SectionSlots) /\ c.sections[i] = store.sections[i]
          /\ store.sections[i].start \in Nat /\ store.sections[i].len \in Nat
          /\ store.sections[i].start + store.sections[i].len <= start
    <2>1. \A i \in Slots(n) : i \in Nat /\ i < n /\ i \in Slots(SectionSlots)
      BY <1>1, InSlots
    <2>2. \A i \in Slots(n) :
            /\ store.sections[i].start \in Nat /\ store.sections[i].len \in Nat
            /\ store.sections[i].start + store.sections[i].len <= start
      <3>1. \A i \in Slots(n) : store.sections[i].start \in Nat /\ store.sections[i].len \in Nat
        BY <2>1, StoreParts DEF Sound
      <3>2. \A i \in Slots(n) : store.sections[i].start + store.sections[i].len <= start
        BY DEF Sound, Packed
      <3> QED BY <3>1, <3>2
    <2>3. \A i \in Slots(n) : c.sections[i] = store.sections[i]
      <3> HIDE DEF n, new
      <3>1. \A i \in Slots(n) : i # n
        BY <1>1, <2>1
      <3> QED BY <1>7, <2>1, <3>1
    <2> QED BY <2>1, <2>2, <2>3
  <1>12. c.sections[n] = new
    BY <1>2, <1>7
  <1>13. ASSUME NEW i \in Slots(n)
         PROVE  RangeOf(c, i) = RangeOf(store, i) /\ HeldAt(c, i) = HeldAt(store, i)
    <2>1. RangeOf(c, i) = RangeOf(store, i)
      BY <1>11 DEF RangeOf
    <2>2. ASSUME NEW k \in RangeOf(store, i) PROVE c.references[k] = store.references[k]
      <3>1. k \in Nat /\ k < start
        <4> DEFINE a == store.sections[i].start
                   b == store.sections[i].len
        <4>1. k \in a .. (a + b - 1)
          BY <2>2 DEF RangeOf
        <4>2. a \in Nat /\ b \in Nat /\ a + b <= start /\ start \in Nat
          BY <1>1, <1>11
        <4> HIDE DEF a, b, start
        <4> QED BY <4>1, <4>2
      <3>2. k \in Slots(ReferenceSlots) /\ k \notin start .. (start + l - 1)
        <4> HIDE DEF start, l
        <4> QED BY <1>1, <3>1 DEF Slots
      <3> QED BY <1>7, <3>2
    <2> QED BY <1>11, <2>1, <2>2 DEF HeldAt
  <1>14. /\ RangeOf(c, n) = start .. (start + l - 1)
         /\ HeldAt(c, n) =
              [stream |-> s, ric |-> ric, refs |-> {refs[k] : k \in DOMAIN refs}]
    <2>1. RangeOf(c, n) = start .. (start + l - 1)
      BY <1>12 DEF RangeOf
    <2>2. \A k \in 1 .. l :
            start + k - 1 \in start .. (start + l - 1) /\ (start + k - 1) - start + 1 = k
      <3> HIDE DEF start, l
      <3> QED BY <1>1
    <2>3. {c.references[k] : k \in RangeOf(c, n)} = {refs[k] : k \in DOMAIN refs}
      <3> HIDE DEF start, l
      <3>1. \A k \in 1 .. l : c.references[start + k - 1] = refs[k]
        BY <1>8, <2>2
      <3>2. \A k \in RangeOf(c, n) :
              k - start + 1 \in 1 .. l /\ c.references[k] = refs[k - start + 1]
        BY <1>8, <2>1
      <3>3. \A k \in 1 .. l : start + k - 1 \in RangeOf(c, n)
        BY <2>1, <2>2
      <3>4. DOMAIN refs = 1 .. l
        BY <1>1
      <3> HIDE DEF n
      <3>5. ASSUME NEW v \in {c.references[k] : k \in RangeOf(c, n)}
            PROVE  v \in {refs[k] : k \in DOMAIN refs}
        <4>1. PICK k \in RangeOf(c, n) : v = c.references[k]
          OBVIOUS
        <4>2. v = refs[k - start + 1] /\ k - start + 1 \in DOMAIN refs
          BY <3>2, <3>4, <4>1
        <4> QED BY <4>2
      <3>6. ASSUME NEW v \in {refs[k] : k \in DOMAIN refs}
            PROVE  v \in {c.references[k] : k \in RangeOf(c, n)}
        <4>1. PICK k \in 1 .. l : v = refs[k]
          BY <3>4
        <4>2. v = c.references[start + k - 1] /\ start + k - 1 \in RangeOf(c, n)
          BY <3>1, <3>3, <4>1
        <4> QED BY <4>2
      <3> QED BY <3>5, <3>6
    <2>4. c.sections[n].stream = s /\ c.sections[n].ric = ric
      BY <1>12
    <2> QED BY <2>1, <2>3, <2>4 DEF HeldAt
  <1>15. Packed(c)
    <2>1. ASSUME NEW i \in Slots(n + 1)
          PROVE  /\ c.sections[i].stream \in Streams /\ c.sections[i].ric > 0
                 /\ c.sections[i].len > 0
                 /\ c.sections[i].start + c.sections[i].len <= c.referenceLen
                 /\ \A j \in Slots(i) :
                      c.sections[j].start + c.sections[j].len <= c.sections[i].start
      <3>1. i \in Slots(n) \/ i = n
        <4> HIDE DEF n
        <4> QED BY <1>1 DEF Slots
      <3>2. CASE i \in Slots(n)
        <4>1. \A j \in Slots(i) : j \in Slots(n)
          BY <1>1, <1>11, <3>2, InSlots
        <4>2. /\ store.sections[i].stream \in Streams /\ store.sections[i].ric > 0
              /\ store.sections[i].len > 0
              /\ \A j \in Slots(i) :
                   store.sections[j].start + store.sections[j].len <= store.sections[i].start
          BY <3>2 DEF Sound, Packed
        <4>3. store.sections[i].start + store.sections[i].len <= start + l
          <5> DEFINE a == store.sections[i].start
                     b == store.sections[i].len
          <5>1. a \in Nat /\ b \in Nat /\ a + b <= start /\ start \in Nat /\ l \in Nat
            BY <1>1, <1>11, <3>2
          <5>2. a + b <= start + l
            <6> HIDE DEF a, b, start, l
            <6> QED BY <5>1
          <5> QED BY <5>2
        <4> QED BY <1>4, <1>11, <3>2, <4>1, <4>2, <4>3
      <3>3. CASE i = n
        <4>1. new.stream \in Streams /\ new.ric > 0 /\ new.len > 0
              /\ new.start + new.len <= start + l /\ new.start = start
          BY <1>1
        <4> QED BY <1>4, <1>11, <1>12, <3>3, <4>1
      <3> QED BY <3>1, <3>2, <3>3
    <2>2. ASSUME NEW k \in Slots(start + l)
          PROVE  \E i \in Slots(n + 1) : k \in RangeOf(c, i)
      <3>1. k \in Nat /\ k < start + l
        BY <1>1, InSlots
      <3>2. CASE k < start
        <4>1. k \in Slots(start)
          BY <1>1, <3>1, <3>2, InSlots
        <4>2. PICK i \in Slots(n) : k \in RangeOf(store, i)
          BY <4>1 DEF Sound, Packed
        <4>3. i \in Slots(n + 1)
          BY <1>1, <1>11, InSlots
        <4> QED BY <1>13, <4>2, <4>3
      <3>3. CASE k >= start
        <4>1. k \in start .. (start + l - 1) /\ n \in Slots(n + 1)
          <5> HIDE DEF n, start, l
          <5> QED BY <1>1, <3>1, <3>3 DEF Slots
        <4> QED BY <1>14, <4>1
      <3> QED BY <1>1, <3>1, <3>2, <3>3
    <2>3. \A i \in Slots(SectionSlots) : i >= n + 1 => c.sections[i] = EmptySection
      <3>1. \A i \in Slots(SectionSlots) : i \in Nat
        BY <1>1, InSlots
      <3>2. \A i \in Slots(SectionSlots) : i >= n + 1 => i >= n /\ i # n
        BY <1>1, <3>1
      <3> QED BY <1>7, <3>2 DEF Sound, Packed
    <2>4. \A k \in Slots(ReferenceSlots) : k >= start + l => c.references[k] = 0
      <3>1. \A k \in Slots(ReferenceSlots) : k \in Nat
        BY <1>1, InSlots
      <3>2. \A k \in Slots(ReferenceSlots) :
              k >= start + l => k >= start /\ k \notin start .. (start + l - 1)
        BY <1>1, <3>1
      <3> QED BY <1>7, <3>2 DEF Sound, Packed
    <2> QED BY <1>4, <2>1, <2>2, <2>3, <2>4 DEF Packed
  <1>16. Sound(c)
    BY <1>9, <1>10, <1>15 DEF Sound
  <1> QED BY <1>4, <1>13, <1>14, <1>16 DEF c

\* The ledger gains that section.
LEMMA LedgerCommitted ==
  ASSUME Sound(store), NEW s \in Streams, NEW ric \in Nat \ {0}, NEW refs \in Seq(Nat),
         Len(refs) > 0, store.sectionLen < SectionSlots,
         Len(refs) <= ReferenceSlots - store.referenceLen
  PROVE  /\ LedgerOf(Committed(s, ric, refs)) =
              Ledger!Registered(LedgerOf(store), store.count,
                [stream |-> s, ric |-> ric, refs |-> {refs[k] : k \in DOMAIN refs}])
         /\ store.count \notin DOMAIN LedgerOf(store)
  <1> DEFINE c == Committed(s, ric, refs)
             n == store.sectionLen
             section == [stream |-> s, ric |-> ric, refs |-> {refs[k] : k \in DOMAIN refs}]
             with == Ledger!Registered(LedgerOf(store), store.count, section)
  <1>1. /\ n \in Nat /\ Len(store.ids) = n /\ store.ids \in Seq(Nat) /\ store.count \in Nat
    BY StoreParts DEF Sound, Numbered
  <1>2. /\ Sound(c) /\ c.sectionLen = n + 1 /\ c.ids = Append(store.ids, store.count)
        /\ \A i \in Slots(n) : HeldAt(c, i) = HeldAt(store, i)
        /\ HeldAt(c, n) = section
    BY CommittedParts
  <1>3. /\ DOMAIN with = DOMAIN LedgerOf(store) \cup {store.count}
        /\ \A m \in DOMAIN with :
             with[m] = IF m = store.count THEN section ELSE LedgerOf(store)[m]
        /\ with = [m \in DOMAIN with |-> with[m]]
    BY DEF Ledger!Registered
  <1> HIDE DEF c, with, section
  <1>4. /\ DOMAIN LedgerOf(store) = {store.ids[i + 1] : i \in Slots(n)}
        /\ \A i \in Slots(n) : LedgerOf(store)[store.ids[i + 1]] = HeldAt(store, i)
    BY LedgerAt
  <1>5. /\ DOMAIN LedgerOf(c) = {c.ids[i + 1] : i \in Slots(n + 1)}
        /\ \A i \in Slots(n + 1) : LedgerOf(c)[c.ids[i + 1]] = HeldAt(c, i)
        /\ LedgerOf(c) = [m \in DOMAIN LedgerOf(c) |-> LedgerOf(c)[m]]
    <2>1. LedgerOf(c) = [m \in DOMAIN LedgerOf(c) |-> LedgerOf(c)[m]]
      BY DEF LedgerOf
    <2> QED BY <1>2, <2>1, LedgerAt
  <1>6. /\ \A i \in Slots(n) : i \in Slots(n + 1) /\ c.ids[i + 1] = store.ids[i + 1]
                               /\ store.ids[i + 1] # store.count
        /\ n \in Slots(n + 1) /\ c.ids[n + 1] = store.count
        /\ \A i \in Slots(n + 1) : i \in Slots(n) \/ i = n
    <2>1. /\ \A i \in Slots(n) : i \in Slots(n + 1) /\ i + 1 \in 1 .. n
          /\ n \in Slots(n + 1) /\ \A i \in Slots(n + 1) : i \in Slots(n) \/ i = n
      BY <1>1, InSlots
    <2>2. (\A k \in 1 .. n : c.ids[k] = store.ids[k]) /\ c.ids[n + 1] = store.count
      BY <1>1, <1>2
    <2>3. \A k \in 1 .. n : store.ids[k] # store.count
      BY <1>1 DEF Sound, Numbered
    <2> QED BY <2>1, <2>2, <2>3
  <1>7. DOMAIN LedgerOf(c) = DOMAIN with
    <2>1. ASSUME NEW m \in DOMAIN LedgerOf(c) PROVE m \in DOMAIN with
      <3>1. PICK i \in Slots(n + 1) : m = c.ids[i + 1]
        BY <1>5
      <3> QED BY <1>3, <1>4, <1>6, <3>1
    <2>2. ASSUME NEW m \in DOMAIN with PROVE m \in DOMAIN LedgerOf(c)
      <3>1. CASE m = store.count
        BY <1>5, <1>6, <3>1
      <3>2. CASE m \in DOMAIN LedgerOf(store)
        <4>1. PICK i \in Slots(n) : m = store.ids[i + 1]
          BY <1>4, <3>2
        <4> QED BY <1>5, <1>6, <4>1
      <3> QED BY <1>3, <2>2, <3>1, <3>2
    <2> QED BY <2>1, <2>2
  <1>8. \A m \in DOMAIN LedgerOf(c) : LedgerOf(c)[m] = with[m]
    <2>1. ASSUME NEW m \in DOMAIN LedgerOf(c) PROVE LedgerOf(c)[m] = with[m]
      <3>1. PICK i \in Slots(n + 1) : m = c.ids[i + 1]
        BY <1>5
      <3>2. CASE i \in Slots(n)
        <4>1. m = store.ids[i + 1] /\ m # store.count /\ i \in Slots(n + 1)
          BY <1>6, <3>1, <3>2
        <4>2. LedgerOf(c)[m] = HeldAt(c, i) /\ HeldAt(c, i) = HeldAt(store, i)
          BY <1>2, <1>5, <3>1, <3>2
        <4>3. with[m] = LedgerOf(store)[m]
          BY <1>3, <1>7, <4>1
        <4>4. LedgerOf(store)[m] = HeldAt(store, i)
          BY <1>4, <3>2, <4>1
        <4> QED BY <4>2, <4>3, <4>4
      <3>3. CASE i = n
        <4>1. m = store.count
          BY <1>6, <3>1, <3>3
        <4>2. LedgerOf(c)[m] = section
          BY <1>2, <1>5, <3>1, <3>3
        <4> QED BY <1>3, <1>7, <4>1, <4>2
      <3> QED BY <1>6, <3>2, <3>3
    <2> QED BY <2>1
  <1>9. LedgerOf(c) = with
    BY <1>3, <1>5, <1>7, <1>8
  <1>10. store.count \notin DOMAIN LedgerOf(store)
    BY <1>4, <1>6
  <1> QED BY <1>9, <1>10 DEF c, with, section

-----------------------------------------------------------------------------

\* What holds at 0 and is passed on holds at every number up to n.
LEMMA UpTo ==
  ASSUME NEW n \in Nat, NEW Bad, Bad \subseteq 0 .. n, 0 \notin Bad,
         \A i \in 1 .. n : i \in Bad => i - 1 \in Bad
  PROVE  Bad = {}
  <1>1. SUFFICES ASSUME Bad # {} PROVE FALSE
    OBVIOUS
  <1>2. Bad \in SUBSET Nat
    OBVIOUS
  <1>3. PICK i \in Bad : \A m \in Bad : ~ (m < i)
    BY <1>1, <1>2, LeastNumber
  <1>4. i \in 1 .. n /\ i - 1 < i
    BY <1>3
  <1> QED BY <1>3, <1>4

-----------------------------------------------------------------------------
(***************************************************************************)
(* cancel_stream.                                                          *)
(***************************************************************************)
\* What the pass over the array has reached after k steps, and that f is the pass.
Passed(f, s, k) == IF k = 0 THEN [st |-> store, i |-> 0] ELSE CancelStep(s, f[k - 1])

Passes(f, s, n) == f = [k \in 0 .. n |-> Passed(f, s, k)]

LEMMA PassExists ==
  ASSUME NEW s, NEW n \in Nat
  PROVE  \E f : Passes(f, s, n)
  <1> DEFINE without == {k \in 0 .. n : ~ \E f : Passes(f, s, k)}
  <1>1. 0 \notin without
    <2>1. Passes([j \in 0 .. 0 |-> [st |-> store, i |-> 0]], s, 0)
      BY DEF Passes, Passed
    <2> QED BY <2>1
  <1>2. ASSUME NEW k \in 1 .. n, k \in without PROVE k - 1 \in without
    <2>1. SUFFICES ASSUME NEW g, Passes(g, s, k - 1) PROVE FALSE
      <3>1. k - 1 \in 0 .. n
        OBVIOUS
      <3> QED BY <2>1, <3>1, Zenon
    <2> DEFINE f == [j \in 0 .. k |-> IF j = k THEN Passed(g, s, k) ELSE g[j]]
    <2>2. ASSUME NEW j \in 0 .. k PROVE f[j] = Passed(f, s, j)
      <3>1. j # 0 => f[j - 1] = g[j - 1]
        OBVIOUS
      <3>2. Passed(f, s, j) = Passed(g, s, j)
        <4> HIDE DEF f
        <4> QED BY <3>1 DEF Passed
      <3>3. CASE j = k
        BY <3>2, <3>3
      <3>4. CASE j # k
        <4>1. j \in 0 .. (k - 1)
          BY <3>4
        <4>2. g[j] = Passed(g, s, j)
          BY <2>1, <4>1 DEF Passes
        <4> QED BY <3>2, <3>4, <4>2
      <3> QED BY <3>3, <3>4
    <2>3. Passes(f, s, k)
      BY <2>2 DEF Passes
    <2>4. ~ \E h : Passes(h, s, k)
      BY <1>2
    <2> HIDE DEF f
    <2> QED BY <2>3, <2>4
  <1>3. without = {}
    <2>1. without \subseteq 0 .. n
      OBVIOUS
    <2> HIDE DEF without
    <2> QED BY <1>1, <1>2, <2>1, UpTo
  <1>4. n \in 0 .. n /\ n \notin without
    <2> HIDE DEF without
    <2> QED BY <1>3
  <1> QED BY <1>4

\* Where the pass stands after k of its steps: what is behind it is not of the stream, and
\* what is gone was.
Stands(at, s, k) ==
  /\ Sound(at.st) /\ at.st.count = store.count
  /\ at.i \in Nat /\ at.i + (store.sectionLen - at.st.sectionLen) = k
  /\ at.i <= at.st.sectionLen
  /\ \A j \in Slots(at.i) : at.st.sections[j].stream # s
  /\ \E gone \in SUBSET Ledger!OfStream(LedgerOf(store), s) :
       LedgerOf(at.st) = Ledger!Without(LedgerOf(store), gone)

LEMMA StandsAtStart ==
  ASSUME Sound(store), NEW s
  PROVE  Stands([st |-> store, i |-> 0], s, 0)
  <1>1. store.sectionLen \in Nat
    BY StoreParts DEF Sound
  <1>2. LedgerOf(store) = Ledger!Without(LedgerOf(store), {})
    <2>1. LedgerOf(store) = [m \in DOMAIN LedgerOf(store) |-> LedgerOf(store)[m]]
      BY DEF LedgerOf
    <2>2. \A f : Ledger!Without(f, {}) = [m \in DOMAIN f |-> f[m]]
      BY DEF Ledger!Without
    <2> QED BY <2>1, <2>2
  <1>3. Slots(0) = {}
    BY DEF Slots
  <1> QED BY <1>1, <1>2, <1>3 DEF Stands

LEMMA WithoutTwice ==
  ASSUME NEW f, NEW a, NEW b
  PROVE  Ledger!Without(Ledger!Without(f, a), b) = Ledger!Without(f, a \cup b)
  BY DEF Ledger!Without

LEMMA StandsAfterStep ==
  ASSUME Sound(store), NEW s, NEW k \in Nat, k < store.sectionLen, NEW at, Stands(at, s, k)
  PROVE  Stands(CancelStep(s, at), s, k + 1)
  <1> DEFINE i == at.i
             st == at.st
             n == st.sectionLen
             ledger == LedgerOf(store)
  <1>1. /\ Sound(st) /\ st.count = store.count /\ i \in Nat
        /\ i + (store.sectionLen - n) = k
        /\ \A j \in Slots(i) : st.sections[j].stream # s
    BY DEF Stands
  <1>2. n \in Nat /\ store.sectionLen \in Nat
    BY <1>1, StoreParts DEF Sound
  <1>3. i < n
    <2> HIDE DEF i, n
    <2> QED BY <1>1, <1>2
  <1>4. PICK gone \in SUBSET Ledger!OfStream(ledger, s) :
          LedgerOf(st) = Ledger!Without(ledger, gone)
    BY DEF Stands
  <1>5. i \in Slots(n)
    BY <1>1, <1>2, <1>3, InSlots
  <1> HIDE DEF i, st, n, ledger
  <1>6. CASE st.sections[i].stream = s
    <2> DEFINE r == Removed(st, i)
               id == st.ids[i + 1]
    <2>1. CancelStep(s, at) = [st |-> r, i |-> i]
      BY <1>6 DEF CancelStep, st, i
    <2>2. Sound(r) /\ r.count = st.count /\ r.sectionLen = n - 1
      BY <1>1, <1>5, RemovedSound, RemovedCounts DEF n
    <2>3. ASSUME NEW j \in Slots(i) PROVE r.sections[j].stream # s
      <3>1. j \in Slots(n - 1) /\ j \in Nat /\ j < i
        BY <1>1, <1>2, <1>3, InSlots
      <3>2. r.sections[j].stream = st.sections[Former(i, j)].stream
        BY <1>1, <1>5, <3>1, RemovedHolds DEF n
      <3> QED BY <1>1, <3>1, <3>2 DEF Former
    <2>4. LedgerOf(r) = Ledger!Without(ledger, gone \cup {id})
      <3>1. LedgerOf(r) = Ledger!Without(LedgerOf(st), {id})
        BY <1>1, <1>5, LedgerRemoved DEF n
      <3> HIDE DEF r, id
      <3> QED BY <1>4, <3>1, WithoutTwice
    <2>5. id \in Ledger!OfStream(ledger, s)
      <3>1. id \in DOMAIN LedgerOf(st) /\ LedgerOf(st)[id] = HeldAt(st, i)
        BY <1>1, <1>5, LedgerAt DEF n
      <3>2. HeldAt(st, i).stream = s
        BY <1>6 DEF HeldAt
      <3>3. \A f, g, m : m \in DOMAIN Ledger!Without(f, g) =>
                           m \in DOMAIN f /\ Ledger!Without(f, g)[m] = f[m]
        BY DEF Ledger!Without
      <3> HIDE DEF id
      <3>4. id \in DOMAIN ledger /\ ledger[id].stream = s
        BY <1>4, <3>1, <3>2, <3>3
      <3> QED BY <3>4 DEF Ledger!OfStream
    <2> HIDE DEF r, id
    <2>6. i + (store.sectionLen - r.sectionLen) = k + 1 /\ i <= r.sectionLen
      BY <1>1, <1>2, <1>3, <2>2 DEF n
    <2>7. gone \cup {id} \in SUBSET Ledger!OfStream(ledger, s)
      BY <2>5
    <2> QED BY <1>1, <2>1, <2>2, <2>3, <2>4, <2>6, <2>7 DEF Stands, ledger
  <1>7. CASE st.sections[i].stream # s
    <2>1. CancelStep(s, at) = [st |-> st, i |-> i + 1]
      BY <1>7 DEF CancelStep, st, i
    <2>2. ASSUME NEW j \in Slots(i + 1) PROVE st.sections[j].stream # s
      <3>1. j \in Slots(i) \/ j = i
        BY <1>1 DEF Slots
      <3> QED BY <1>1, <1>7, <3>1
    <2>3. (i + 1) + (store.sectionLen - n) = k + 1 /\ i + 1 <= n /\ i + 1 \in Nat
      BY <1>1, <1>2, <1>3
    <2> QED BY <1>1, <1>4, <2>1, <2>2, <2>3 DEF Stands, ledger, n
  <1> QED BY <1>6, <1>7

\* A cancellation leaves the arrays sound, and takes from the ledger exactly the sections of
\* the stream.
LEMMA CancelParts ==
  ASSUME Sound(store), NEW s, Cancel(s)
  PROVE  /\ Sound(store') /\ store'.count = store.count
         /\ LedgerOf(store') =
              Ledger!Without(LedgerOf(store), Ledger!OfStream(LedgerOf(store), s))
         /\ krc' = krc /\ insertCount' = insertCount
  <1> DEFINE n == store.sectionLen
             pass == CHOOSE f : Passes(f, s, n)
             ledger == LedgerOf(store)
  <1>1. n \in Nat
    BY StoreParts DEF Sound
  <1>2. Passes(pass, s, n)
    BY <1>1, PassExists
  <1>3. store' = pass[n].st /\ krc' = krc /\ insertCount' = insertCount
    BY DEF Cancel, Passes, Passed
  <1> HIDE DEF pass, n
  <1>4. \A k \in 0 .. n : pass[k] = Passed(pass, s, k)
    BY <1>2 DEF Passes
  <1> DEFINE bad == {k \in 0 .. n : ~ Stands(pass[k], s, k)}
  <1>5. 0 \notin bad
    BY <1>1, <1>4, StandsAtStart DEF Passed
  <1>6. ASSUME NEW k \in 1 .. n, k - 1 \notin bad PROVE k \notin bad
    <2>1. k \in 0 .. n /\ k - 1 \in 0 .. n /\ k # 0 /\ k - 1 \in Nat /\ k - 1 < n
          /\ (k - 1) + 1 = k
      BY <1>1
    <2>2. Stands(pass[k - 1], s, k - 1)
      BY <1>6, <2>1
    <2>3. pass[k] = CancelStep(s, pass[k - 1])
      BY <1>4, <2>1 DEF Passed
    <2>4. Stands(CancelStep(s, pass[k - 1]), s, (k - 1) + 1)
      BY <2>1, <2>2, StandsAfterStep DEF n
    <2> QED BY <2>1, <2>3, <2>4
  <1>7. bad = {}
    <2>1. bad \subseteq 0 .. n
      OBVIOUS
    <2>2. \A k \in 1 .. n : k \in bad => k - 1 \in bad
      BY <1>6
    <2> HIDE DEF bad
    <2> QED BY <1>1, <1>5, <2>1, <2>2, UpTo
  <1> DEFINE st == pass[n].st
             i == pass[n].i
  <1>8. Stands(pass[n], s, n)
    BY <1>1, <1>7
  <1> HIDE DEF bad
  <1>9. /\ Sound(st) /\ st.count = store.count /\ i \in Nat
        /\ i + (store.sectionLen - st.sectionLen) = n
        /\ \A j \in Slots(i) : st.sections[j].stream # s
    BY <1>8 DEF Stands
  <1>10. PICK gone \in SUBSET Ledger!OfStream(ledger, s) :
           LedgerOf(st) = Ledger!Without(ledger, gone)
    BY <1>8 DEF Stands
  <1> HIDE DEF st, i, ledger
  <1>11. i = st.sectionLen
    <2>1. st.sectionLen \in Nat
      BY <1>9, StoreParts DEF Sound
    <2> QED BY <1>1, <1>9, <2>1 DEF n
  <1>12. ASSUME NEW m \in Ledger!OfStream(ledger, s), m \notin gone PROVE FALSE
    <2>1. m \in DOMAIN ledger /\ ledger[m].stream = s
      BY <1>12 DEF Ledger!OfStream
    <2>2. m \in DOMAIN LedgerOf(st) /\ LedgerOf(st)[m] = ledger[m]
      <3>1. \A f, g : m \in DOMAIN f \ g =>
                        m \in DOMAIN Ledger!Without(f, g) /\ Ledger!Without(f, g)[m] = f[m]
        BY DEF Ledger!Without
      <3> QED BY <1>10, <1>12, <2>1, <3>1
    <2>3. PICK j \in Slots(st.sectionLen) : LedgerOf(st)[m] = HeldAt(st, j)
      BY <1>9, <2>2, LedgerAt
    <2>4. HeldAt(st, j).stream = st.sections[j].stream
      BY DEF HeldAt
    <2> QED BY <1>9, <1>11, <2>1, <2>2, <2>3, <2>4
  <1>13. gone = Ledger!OfStream(ledger, s)
    BY <1>10, <1>12
  <1> QED BY <1>3, <1>9, <1>10, <1>13 DEF st, ledger

-----------------------------------------------------------------------------
(***************************************************************************)
(* What the arrays answer.                                                 *)
(***************************************************************************)
\* A packed store has no gaps: where a section would leave one, the section that covers the
\* first slot of it would have to start after the gap, or reach across a section before it.
LEMMA SoundTiles == Sound(store) => RangesTile
  <1> SUFFICES ASSUME Sound(store) PROVE RangesTile
    OBVIOUS
  <1> DEFINE n == store.sectionLen
             used == store.referenceLen
             Start(i) == store.sections[i].start
             End(i) == store.sections[i].start + store.sections[i].len
  <1>1. /\ n \in Nat /\ used \in Nat /\ n <= SectionSlots /\ SectionSlots \in Nat
        /\ ReferenceSlots \in Nat
        /\ DOMAIN store.sections = Slots(SectionSlots)
        /\ DOMAIN store.references = Slots(ReferenceSlots)
    BY StoreParts DEF Sound
  <1>2. ASSUME NEW i \in Slots(n)
        PROVE  /\ i \in Nat /\ i < n /\ Start(i) \in Nat /\ End(i) \in Nat
               /\ Start(i) < End(i) /\ End(i) <= used
               /\ store.sections[i].len \in Nat /\ store.sections[i].len > 0
               /\ \A j \in Slots(n) : j < i => End(j) <= Start(i)
    <2>1. i \in Nat /\ i < n /\ i \in Slots(SectionSlots)
      BY <1>1 DEF Slots
    <2>2. Start(i) \in Nat /\ store.sections[i].len \in Nat
      BY <2>1, StoreParts DEF Sound
    <2>3. /\ store.sections[i].len > 0 /\ End(i) <= used
          /\ \A j \in Slots(i) : End(j) <= Start(i)
      BY DEF Sound, Packed
    <2>4. \A j \in Slots(n) : j < i => j \in Slots(i)
      BY <1>1, <2>1 DEF Slots
    <2> QED BY <2>1, <2>2, <2>3, <2>4
  <1>3. ASSUME NEW k \in Nat, k < used
        PROVE  \E i \in Slots(n) : Start(i) <= k /\ k < End(i)
    <2>1. k \in Slots(used)
      BY <1>1, <1>3, InSlots
    <2>2. PICK i \in Slots(n) : k \in RangeOf(store, i)
      BY <2>1 DEF Sound, Packed
    <2>3. RangeOf(store, i) = Start(i) .. (End(i) - 1)
      <3> DEFINE a == store.sections[i].start
                 b == store.sections[i].len
      <3>1. a \in Nat /\ b \in Nat
        BY <1>2
      <3>2. a + b - 1 = (a + b) - 1
        <4> HIDE DEF a, b
        <4> QED BY <3>1
      <3> QED BY <3>2 DEF RangeOf
    <2>4. Start(i) \in Nat /\ End(i) \in Nat
      BY <1>2
    <2> HIDE DEF Start, End
    <2> QED BY <2>2, <2>3, <2>4
  <1> HIDE DEF Start, End, used, n
  <1>4. ASSUME NEW i \in Slots(n) PROVE Start(i) = IF i = 0 THEN 0 ELSE End(i - 1)
    <2>1. CASE i = 0
      <3>1. SUFFICES ASSUME Start(i) > 0 PROVE FALSE
        BY <1>2, <2>1
      <3>2. PICK j \in Slots(n) : Start(j) <= 0 /\ 0 < End(j)
        <4>1. 0 < used
          BY <1>1, <1>2, <3>1
        <4> QED BY <1>3, <4>1
      <3>3. CASE j = i
        BY <1>2, <3>1, <3>2, <3>3
      <3>4. CASE i < j
        <4>1. End(i) <= Start(j) /\ End(i) \in Nat /\ Start(i) < End(i) /\ Start(i) \in Nat
              /\ Start(j) \in Nat
          BY <1>2, <3>4
        <4> QED BY <3>1, <3>2, <4>1
      <3>5. j \in Nat
        BY <1>2
      <3> QED BY <2>1, <3>3, <3>4, <3>5
    <2>2. CASE i # 0
      <3>1. i \in Nat /\ i < n /\ i - 1 \in Slots(n) /\ i - 1 < i
        BY <1>1, <1>2, <2>2 DEF Slots
      <3>2. End(i - 1) <= Start(i) /\ End(i - 1) \in Nat /\ Start(i) \in Nat
            /\ Start(i) < End(i) /\ End(i) \in Nat /\ End(i) <= used
        BY <1>2, <3>1
      <3>3. ASSUME End(i - 1) < Start(i) PROVE FALSE
        <4>1. PICK j \in Slots(n) : Start(j) <= End(i - 1) /\ End(i - 1) < End(j)
          <5>1. End(i - 1) < used
            BY <1>1, <3>2, <3>3
          <5> QED BY <1>3, <3>2, <5>1
        <4>2. j \in Nat /\ Start(j) \in Nat /\ End(j) \in Nat
          BY <1>2
        <4>3. CASE j < i - 1
          <5>1. End(j) <= Start(i - 1) /\ Start(i - 1) < End(i - 1) /\ Start(i - 1) \in Nat
            BY <1>2, <3>1, <4>3
          <5> QED BY <3>2, <4>1, <4>2, <5>1
        <4>4. CASE j = i - 1
          BY <3>2, <4>1, <4>4
        <4>5. CASE j = i
          BY <3>2, <3>3, <4>1, <4>5
        <4>6. CASE i < j
          <5>1. End(i) <= Start(j)
            BY <1>2, <4>6
          <5> QED BY <3>2, <3>3, <4>1, <4>2, <5>1
        <4> QED BY <3>1, <4>2, <4>3, <4>4, <4>5, <4>6
      <3> QED BY <2>2, <3>2, <3>3
    <2> QED BY <2>1, <2>2
  <1>5. used = IF n = 0 THEN 0 ELSE End(n - 1)
    <2>1. CASE n = 0
      <3>1. Slots(n) = {}
        BY <2>1 DEF Slots
      <3>2. ~ (0 < used)
        BY <1>3, <3>1
      <3> QED BY <1>1, <2>1, <3>2
    <2>2. CASE n # 0
      <3>1. n - 1 \in Slots(n)
        BY <1>1, <2>2 DEF Slots
      <3>2. End(n - 1) \in Nat /\ End(n - 1) <= used
        BY <1>2, <3>1
      <3>3. ASSUME End(n - 1) < used PROVE FALSE
        <4>1. PICK j \in Slots(n) : Start(j) <= End(n - 1) /\ End(n - 1) < End(j)
          BY <1>3, <3>2, <3>3
        <4>2. j \in Nat /\ j < n /\ End(j) \in Nat
          BY <1>2
        <4>3. CASE j < n - 1
          <5>1. End(j) <= Start(n - 1) /\ Start(n - 1) < End(n - 1) /\ Start(n - 1) \in Nat
            BY <1>2, <3>1, <4>3
          <5> QED BY <3>2, <4>1, <4>2, <5>1
        <4>4. CASE j = n - 1
          BY <3>2, <4>1, <4>4
        <4> QED BY <1>1, <4>2, <4>3, <4>4
      <3> QED BY <1>1, <2>2, <3>2, <3>3
    <2> QED BY <2>1, <2>2
  <1>6. \A i \in DOMAIN store.sections \ InUse : store.sections[i] = EmptySection
    <2>1. ASSUME NEW i \in Slots(SectionSlots), i \notin Slots(n)
          PROVE  store.sections[i] = EmptySection
      <3>1. i >= n
        BY <1>1, <2>1 DEF Slots
      <3> QED BY <3>1 DEF Sound, Packed, n
    <2> QED BY <1>1, <2>1 DEF InUse, n
  <1>7. \A k \in DOMAIN store.references : k >= used => store.references[k] = 0
    BY <1>1 DEF Sound, Packed, used
  <1>8. \A i \in InUse :
          /\ store.sections[i].start =
               IF i = 0 THEN 0 ELSE store.sections[i - 1].start + store.sections[i - 1].len
          /\ store.sections[i].len > 0
    BY <1>2, <1>4 DEF InUse, n, Start, End
  <1>9. store.referenceLen =
          IF store.sectionLen = 0 THEN 0
          ELSE LET last == store.sections[store.sectionLen - 1] IN last.start + last.len
    BY <1>5 DEF n, used, End
  <1> QED BY <1>6, <1>7, <1>8, <1>9 DEF RangesTile, used

LEMMA OutstandingIsLedger == Outstanding = LedgerOf(store)
  BY DEF Outstanding, LedgerOf, HeldAt, RefsOf, RangeOf

\* The references in use are those of the ledger's sections.
LEMMA ReferencedInUse ==
  ASSUME Sound(store)
  PROVE  Ledger!Referenced(LedgerOf(store)) =
           {store.references[k] : k \in Slots(store.referenceLen)}
  <1> DEFINE ledger == LedgerOf(store)
             n == store.sectionLen
  <1>1. \A i \in Slots(n) : HeldAt(store, i).refs = {store.references[k] : k \in RangeOf(store, i)}
    BY DEF HeldAt
  <1>2. \A i \in Slots(n) : RangeOf(store, i) \subseteq Slots(store.referenceLen)
    <2>1. ASSUME NEW i \in Slots(n), NEW k \in RangeOf(store, i)
          PROVE  k \in Slots(store.referenceLen)
      <3> DEFINE a == store.sections[i].start
                 b == store.sections[i].len
      <3>1. i \in Slots(SectionSlots) /\ store.referenceLen \in Nat
        BY StoreParts DEF Sound, Slots
      <3>2. a \in Nat /\ b \in Nat
        BY <3>1, StoreParts DEF Sound
      <3>3. a + b <= store.referenceLen
        BY DEF Sound, Packed
      <3>4. k \in a .. (a + b - 1)
        BY DEF RangeOf
      <3> HIDE DEF a, b
      <3> QED BY <3>1, <3>2, <3>3, <3>4 DEF Slots
    <2> QED BY <2>1
  <1>3. \A k \in Slots(store.referenceLen) : \E i \in Slots(n) : k \in RangeOf(store, i)
    BY DEF Sound, Packed
  <1>4. /\ \A i \in Slots(n) : \E m \in DOMAIN ledger : ledger[m] = HeldAt(store, i)
        /\ \A m \in DOMAIN ledger : \E i \in Slots(n) : ledger[m] = HeldAt(store, i)
    BY LedgerAt
  <1> HIDE DEF ledger, n
  <1>5. ASSUME NEW x \in Ledger!Referenced(ledger)
        PROVE  x \in {store.references[k] : k \in Slots(store.referenceLen)}
    <2>1. PICK m \in DOMAIN ledger : x \in ledger[m].refs
      BY DEF Ledger!Referenced
    <2>2. PICK i \in Slots(n) : ledger[m] = HeldAt(store, i)
      BY <1>4
    <2>3. PICK k \in RangeOf(store, i) : x = store.references[k]
      BY <1>1, <2>1, <2>2
    <2> QED BY <1>2, <2>3
  <1>6. ASSUME NEW k \in Slots(store.referenceLen)
        PROVE  store.references[k] \in Ledger!Referenced(ledger)
    <2>1. PICK i \in Slots(n) : k \in RangeOf(store, i)
      BY <1>3
    <2>2. PICK m \in DOMAIN ledger : ledger[m] = HeldAt(store, i)
      BY <1>4
    <2>3. store.references[k] \in ledger[m].refs
      BY <1>1, <2>1, <2>2
    <2> QED BY <2>3 DEF Ledger!Referenced
  <1> QED BY <1>5, <1>6 DEF ledger

\* The streams at risk are those of the sections that may block, and there are finitely many.
LEMMA AtRiskInUse ==
  ASSUME Sound(store)
  PROVE  /\ Ledger!AtRisk(LedgerOf(store), krc) =
              {store.sections[i].stream : i \in {j \in InUse : Risky(j)}}
         /\ IsFiniteSet(Ledger!AtRisk(LedgerOf(store), krc))
  <1> DEFINE ledger == LedgerOf(store)
             risky == {j \in InUse : Risky(j)}
             streams == {store.sections[i].stream : i \in risky}
  <1>1. /\ \A i \in InUse : \E m \in DOMAIN ledger : ledger[m] = HeldAt(store, i)
        /\ \A m \in DOMAIN ledger : \E i \in InUse : ledger[m] = HeldAt(store, i)
    BY LedgerAt DEF InUse
  <1>2. \A i \in InUse : /\ HeldAt(store, i).stream = store.sections[i].stream
                         /\ HeldAt(store, i).ric > krc <=> Risky(i)
    BY DEF HeldAt, Risky
  <1>3. IsFiniteSet(streams)
    <2>1. IsFiniteSet(InUse)
      <3>1. store.sectionLen \in Nat
        BY StoreParts DEF Sound
      <3>2. 0 \in Int /\ store.sectionLen - 1 \in Int
        BY <3>1
      <3> QED BY <3>2, FS_Interval DEF InUse, Slots
    <2>2. IsFiniteSet(risky)
      BY <2>1, FS_Subset
    <2> DEFINE f == [i \in risky |-> store.sections[i].stream]
    <2>3. f \in Surjection(risky, streams)
      <3> HIDE DEF risky
      <3> QED BY DEF Surjection
    <2> HIDE DEF f, risky, streams
    <2> QED BY <2>2, <2>3, FS_Surjection
  <1> HIDE DEF ledger, risky
  <1>4. Ledger!AtRisk(ledger, krc) = streams
    <2>1. ASSUME NEW x \in Ledger!AtRisk(ledger, krc) PROVE x \in streams
      <3>1. PICK m \in DOMAIN ledger : ledger[m].ric > krc /\ x = ledger[m].stream
        BY DEF Ledger!AtRisk
      <3>2. PICK i \in InUse : ledger[m] = HeldAt(store, i)
        BY <1>1
      <3> QED BY <1>2, <3>1, <3>2 DEF risky
    <2>2. ASSUME NEW i \in risky PROVE store.sections[i].stream \in Ledger!AtRisk(ledger, krc)
      <3>1. i \in InUse /\ Risky(i)
        BY DEF risky
      <3>2. PICK m \in DOMAIN ledger : ledger[m] = HeldAt(store, i)
        BY <1>1, <3>1
      <3>3. ledger[m].ric > krc /\ ledger[m].stream = store.sections[i].stream
        BY <1>2, <3>1, <3>2
      <3> QED BY <3>3 DEF Ledger!AtRisk
    <2> QED BY <2>1, <2>2
  <1> QED BY <1>3, <1>4 DEF ledger, risky

\* The count of first sections that may block is the number of streams at risk.
LEMMA CountIsOfStreams ==
  ASSUME Sound(store)
  PROVE  BlockedStreamCount = Cardinality(Ledger!AtRisk(LedgerOf(store), krc))
  <1> DEFINE Stream(i) == store.sections[i].stream
             risky == {j \in InUse : Risky(j)}
             first == {i \in InUse : /\ Risky(i)
                                     /\ \A j \in Slots(i) : ~ (Risky(j) /\ Stream(j) = Stream(i))}
             streams == Ledger!AtRisk(LedgerOf(store), krc)
             f == [i \in first |-> Stream(i)]
  <1>1. streams = {Stream(i) : i \in risky}
    BY AtRiskInUse
  <1>2. store.sectionLen \in Nat
    BY StoreParts DEF Sound
  <1>3. IsFiniteSet(first)
    <2>1. IsFiniteSet(InUse)
      <3>1. 0 \in Int /\ store.sectionLen - 1 \in Int
        BY <1>2
      <3> QED BY <3>1, FS_Interval DEF InUse, Slots
    <2> QED BY <2>1, FS_Subset
  <1>4. \A i \in InUse : i \in Nat
    BY DEF InUse, Slots
  <1>5. \A i \in InUse : \A j \in InUse : j < i => j \in Slots(i)
    BY <1>4 DEF InUse, Slots
  <1>6. ASSUME NEW x \in streams PROVE \E i \in first : Stream(i) = x
    <2> DEFINE same == {i \in InUse : Risky(i) /\ Stream(i) = x}
    <2>1. same # {} /\ same \in SUBSET Nat
      BY <1>1, <1>4
    <2> HIDE DEF same
    <2>2. PICK i \in same : \A j \in same : ~ (j < i)
      BY <2>1, LeastNumber
    <2>3. i \in InUse /\ Risky(i) /\ Stream(i) = x
      BY DEF same
    <2>4. ASSUME NEW j \in Slots(i), Risky(j), Stream(j) = Stream(i) PROVE FALSE
      <3>1. j \in InUse /\ j < i
        BY <1>2, <2>3 DEF InUse, Slots
      <3> QED BY <2>2, <2>3, <2>4, <3>1 DEF same
    <2> QED BY <2>3, <2>4
  <1>7. f \in [first -> streams]
    BY <1>1
  <1>8. ASSUME NEW i \in first, NEW j \in first, f[i] = f[j] PROVE i = j
    <2>1. Stream(i) = Stream(j) /\ Risky(i) /\ Risky(j) /\ i \in InUse /\ j \in InUse
      BY <1>8
    <2>2. ~ (i < j)
      BY <1>5, <2>1
    <2>3. ~ (j < i)
      BY <1>5, <2>1
    <2> QED BY <1>4, <2>1, <2>2, <2>3
  <1>9. f \in Surjection(first, streams)
    BY <1>6, <1>7 DEF Surjection
  <1>10. f \in Injection(first, streams)
    BY <1>7, <1>8 DEF Injection, IsInjective
  <1>11. BlockedStreamCount = Cardinality(first)
    BY DEF BlockedStreamCount
  <1> HIDE DEF f, first, streams
  <1>12. Cardinality(streams) = Cardinality(first)
    BY <1>3, <1>9, <1>10, FS_Surjection
  <1> QED BY <1>11, <1>12 DEF streams

LEMMA AnswersOfSound ==
  ASSUME Sound(store), Cardinality(Ledger!AtRisk(LedgerOf(store), krc)) <= MaxBlockedStreams
  PROVE  AnswersAgree
  <1>1. ASSUME NEW absolute \in 0 .. insertCount
        PROVE  IsEvictable(absolute) = Ledger!IsEvictable(LedgerOf(store), krc, absolute)
    <2>1. absolute \notin Ledger!Referenced(LedgerOf(store)) <=>
            \A i \in Slots(store.referenceLen) : store.references[i] # absolute
      BY ReferencedInUse
    <2> QED BY <2>1 DEF IsEvictable, Ledger!IsEvictable
  <1>2. BlockedStreamCount = Cardinality(Ledger!AtRisk(LedgerOf(store), krc))
    BY CountIsOfStreams
  <1> QED BY <1>1, <1>2, OutstandingIsLedger DEF AnswersAgree

-----------------------------------------------------------------------------
(***************************************************************************)
(* The inductive invariant, and the step of the ledger that each call is.  *)
(***************************************************************************)
\* The ledger counts its streams as this module does.
LEMMA SameCardinality ==
  ASSUME NEW S
  PROVE  Ledger!Cardinality(S) = Cardinality(S)
  BY DEF Cardinality, Ledger!Cardinality

Blocking(st, received) == Cardinality(Ledger!AtRisk(LedgerOf(st), received))

Inv ==
  /\ Sound(store)
  /\ krc \in Nat /\ insertCount \in Nat
  /\ Blocking(store, krc) <= MaxBlockedStreams

\* Fewer sections and a higher count put no further stream at risk.
LEMMA RiskShrinks ==
  ASSUME Sound(store), krc \in Nat, NEW received \in Nat, krc <= received, NEW st, NEW gone,
         LedgerOf(st) = Ledger!Without(LedgerOf(store), gone),
         Blocking(store, krc) <= MaxBlockedStreams
  PROVE  Blocking(st, received) <= MaxBlockedStreams
  <1> DEFINE before == Ledger!AtRisk(LedgerOf(store), krc)
             after == Ledger!AtRisk(LedgerOf(st), received)
             ledger == LedgerOf(store)
  <1>1. IsFiniteSet(before)
    BY AtRiskInUse
  <1>2. \A m \in DOMAIN ledger : ledger[m].ric \in Nat
    <2>1. \A i \in Slots(store.sectionLen) : HeldAt(store, i).ric \in Nat
      <3>1. \A i \in Slots(store.sectionLen) : i \in Slots(SectionSlots)
        BY StoreParts DEF Sound, Slots
      <3> QED BY <3>1, StoreParts DEF Sound, HeldAt
    <2> QED BY <2>1, LedgerAt
  <1>3. after \in SUBSET before
    <2>1. ASSUME NEW x \in after PROVE x \in before
      <3>1. PICK m \in DOMAIN LedgerOf(st) :
              LedgerOf(st)[m].ric > received /\ x = LedgerOf(st)[m].stream
        BY DEF Ledger!AtRisk
      <3>2. m \in DOMAIN ledger /\ LedgerOf(st)[m] = ledger[m]
        <4>1. m \in DOMAIN Ledger!Without(ledger, gone) =>
                m \in DOMAIN ledger /\ Ledger!Without(ledger, gone)[m] = ledger[m]
          BY DEF Ledger!Without
        <4> QED BY <3>1, <4>1
      <3> HIDE DEF ledger
      <3>3. ledger[m].ric > krc
        BY <1>2, <3>1, <3>2
      <3> QED BY <3>1, <3>2, <3>3 DEF Ledger!AtRisk, ledger
    <2> QED BY <2>1
  <1> HIDE DEF before, after
  <1>4. /\ Cardinality(after) <= Cardinality(before) /\ IsFiniteSet(after)
        /\ Cardinality(before) \in Nat /\ Cardinality(after) \in Nat
    BY <1>1, <1>3, FS_Subset, FS_CardinalityType
  <1> QED BY <1>4, EncoderStateAssumption DEF Blocking, before, after

\* A registration that the limit admits keeps it.
LEMMA RiskAdmitted ==
  ASSUME Sound(store), krc \in Nat, NEW s, NEW ric \in Nat, NEW refs, NEW st,
         LedgerOf(st) = Ledger!Registered(LedgerOf(store), store.count,
                                          [stream |-> s, ric |-> ric, refs |-> refs]),
         store.count \notin DOMAIN LedgerOf(store),
         Ledger!MayBlock(LedgerOf(store), krc, s, ric),
         Blocking(store, krc) <= MaxBlockedStreams
  PROVE  Blocking(st, krc) <= MaxBlockedStreams
  <1> DEFINE before == Ledger!AtRisk(LedgerOf(store), krc)
             after == Ledger!AtRisk(LedgerOf(st), krc)
             ledger == LedgerOf(store)
             with == LedgerOf(st)
  <1>1. IsFiniteSet(before)
    BY AtRiskInUse
  <1>2. /\ \A m \in DOMAIN with : m = store.count \/ (m \in DOMAIN ledger /\ with[m] = ledger[m])
        /\ store.count \in DOMAIN with => with[store.count].stream = s
                                          /\ with[store.count].ric = ric
    BY DEF Ledger!Registered
  <1> HIDE DEF with, ledger
  <1>3. ASSUME NEW x \in after PROVE x \in before \/ (x = s /\ ric > krc)
    <2>1. PICK m \in DOMAIN with : with[m].ric > krc /\ x = with[m].stream
      BY DEF Ledger!AtRisk, with
    <2>2. CASE m = store.count
      BY <1>2, <2>1, <2>2
    <2>3. CASE m \in DOMAIN ledger /\ with[m] = ledger[m]
      BY <2>1, <2>3 DEF Ledger!AtRisk, ledger
    <2> QED BY <1>2, <2>2, <2>3
  <1>4. \/ ric <= krc \/ s \in before \/ Cardinality(before) < MaxBlockedStreams
    BY SameCardinality DEF Ledger!MayBlock
  <1> HIDE DEF before, after
  <1>5. Cardinality(before) \in Nat /\ Cardinality(before) <= MaxBlockedStreams
    BY <1>1, FS_CardinalityType DEF Blocking, before
  <1>6. CASE ric <= krc \/ s \in before
    <2>1. after \in SUBSET before
      BY <1>3, <1>6
    <2>2. Cardinality(after) <= Cardinality(before) /\ Cardinality(after) \in Nat
      BY <1>1, <2>1, FS_Subset, FS_CardinalityType
    <2> QED BY <1>5, <2>2, EncoderStateAssumption DEF Blocking, after
  <1>7. CASE Cardinality(before) < MaxBlockedStreams
    <2>1. IsFiniteSet(before \cup {s}) /\ Cardinality(before \cup {s}) <= Cardinality(before) + 1
          /\ Cardinality(before \cup {s}) \in Nat
      <3>1. IsFiniteSet(before \cup {s}) /\
            Cardinality(before \cup {s}) =
              IF s \in before THEN Cardinality(before) ELSE Cardinality(before) + 1
        BY <1>1, FS_AddElement
      <3> QED BY <1>5, <3>1
    <2>2. after \in SUBSET (before \cup {s})
      BY <1>3
    <2>3. Cardinality(after) <= Cardinality(before \cup {s}) /\ Cardinality(after) \in Nat
      BY <2>1, <2>2, FS_Subset, FS_CardinalityType
    <2> QED BY <1>5, <1>7, <2>1, <2>3, EncoderStateAssumption DEF Blocking, after
  <1> QED BY <1>4, <1>6, <1>7

LEMMA OutstandingNext == Outstanding' = LedgerOf(store')
  BY DEF Outstanding, LedgerOf, HeldAt, RefsOf, RangeOf

LEMMA InitSteps == Init => Inv /\ Ledger!Init
  <1> SUFFICES ASSUME Init PROVE Inv /\ Ledger!Init
    OBVIOUS
  <1>1. SectionSlots \in Nat /\ ReferenceSlots \in Nat /\ MaxBlockedStreams \in Nat
    BY EncoderStateAssumption
  <1>2. /\ store.sections = [i \in Slots(SectionSlots) |-> EmptySection]
        /\ store.references = [i \in Slots(ReferenceSlots) |-> 0]
        /\ store.sectionLen = 0 /\ store.referenceLen = 0 /\ store.ids = << >>
        /\ store.count = 0 /\ krc = 0 /\ insertCount = 0
        /\ store = [sections |-> store.sections, references |-> store.references,
                    sectionLen |-> store.sectionLen, referenceLen |-> store.referenceLen,
                    ids |-> store.ids, count |-> store.count]
    BY DEF Init
  <1>3. Slots(0) = {} /\ 0 \in Slots(SectionSlots + 1) /\ 0 \in Slots(ReferenceSlots + 1)
    BY <1>1 DEF Slots
  <1>4. store \in Store
    <2>1. EmptySection \in SectionRecord
      BY DEF EmptySection, SectionRecord
    <2>2. store.sections \in [Slots(SectionSlots) -> SectionRecord]
      BY <1>2, <2>1
    <2>3. store.references \in [Slots(ReferenceSlots) -> Nat]
      BY <1>2
    <2>4. store.ids \in Seq(Nat) /\ store.count \in Nat
      BY <1>2
    <2>5. /\ store.sectionLen \in Slots(SectionSlots + 1)
          /\ store.referenceLen \in Slots(ReferenceSlots + 1)
      BY <1>2, <1>3
    <2> QED BY <1>2, <2>2, <2>3, <2>4, <2>5 DEF Store
  <1>5. Sound(store)
    <2>1. Packed(store)
      BY <1>2, <1>3 DEF Packed
    <2>2. Len(store.ids) = 0 /\ 1 .. 0 = {}
      BY <1>2
    <2>3. Numbered(store)
      BY <1>2, <2>2 DEF Numbered
    <2> QED BY <1>4, <2>1, <2>3 DEF Sound
  <1>6. LedgerOf(store) = << >>
    <2>1. DOMAIN store.ids = {}
      BY <1>2
    <2> QED BY <2>1 DEF LedgerOf
  <1>7. Blocking(store, krc) = 0
    <2>1. Ledger!AtRisk(LedgerOf(store), krc) = {}
      BY <1>6 DEF Ledger!AtRisk
    <2> QED BY <2>1, FS_EmptySet DEF Blocking
  <1> QED BY <1>1, <1>2, <1>5, <1>6, <1>7, OutstandingIsLedger DEF Inv, Ledger!Init

LEMMA RegisterSteps ==
  ASSUME Inv, NEW s \in Streams, Register(s)
  PROVE  Inv' /\ Ledger!Register(s)
  <1>1. Sound(store) /\ krc \in Nat /\ insertCount \in Nat /\ MaxReferences \in Nat
        /\ store.count \in Nat
    BY StoreParts, EncoderStateAssumption DEF Inv, Sound
  <1>2. PICK n \in 1 .. MaxReferences :
          \E refs \in [1 .. n -> Slots(insertCount)], ric \in 1 .. insertCount :
            MayRegister(s, ric, refs) /\ store' = Committed(s, ric, refs)
    BY DEF Register
  <1>3. PICK refs \in [1 .. n -> Slots(insertCount)], ric \in 1 .. insertCount :
          MayRegister(s, ric, refs) /\ store' = Committed(s, ric, refs)
    BY <1>2
  <1>4. krc' = krc /\ insertCount' = insertCount
    BY DEF Register
  <1>5. /\ refs \in Seq(Nat) /\ Len(refs) = n /\ DOMAIN refs = 1 .. n /\ n > 0
        /\ ric \in Nat \ {0} /\ ric \in Nat
        /\ \A k \in 1 .. n : refs[k] \in Nat /\ refs[k] < insertCount
    <2>1. n \in Nat /\ n > 0 /\ ric \in Nat \ {0}
      BY <1>1
    <2>2. \A k \in 1 .. n : refs[k] \in Nat /\ refs[k] < insertCount
      BY <1>1 DEF Slots
    <2>3. refs \in [1 .. n -> Nat]
      BY <2>2
    <2> QED BY <2>1, <2>2, <2>3
  <1> DEFINE held == {refs[k] : k \in DOMAIN refs}
             section == [stream |-> s, ric |-> ric, refs |-> held]
  <1>6. /\ store.sectionLen < SectionSlots /\ Len(refs) <= ReferenceSlots - store.referenceLen
        /\ \E k \in DOMAIN refs : refs[k] = ric - 1
        /\ \A k \in DOMAIN refs : refs[k] <= ric - 1
        /\ \/ ric <= krc
           \/ \E i \in InUse : store.sections[i].stream = s /\ Risky(i)
           \/ BlockedStreamCount < MaxBlockedStreams
    BY <1>3 DEF MayRegister
  <1>7. /\ LedgerOf(store') = Ledger!Registered(LedgerOf(store), store.count, section)
        /\ store.count \notin DOMAIN LedgerOf(store) /\ Sound(store')
        /\ store'.count = store.count + 1
    <2>1. Len(refs) > 0
      BY <1>5
    <2>2. /\ LedgerOf(Committed(s, ric, refs)) =
               Ledger!Registered(LedgerOf(store), store.count, section)
          /\ store.count \notin DOMAIN LedgerOf(store) /\ Sound(Committed(s, ric, refs))
      BY <1>1, <1>5, <1>6, <2>1, CommittedParts, LedgerCommitted
    <2>3. Committed(s, ric, refs).count = store.count + 1
      BY DEF Committed
    <2> QED BY <1>3, <2>2, <2>3
  <1>8. Ledger!MayBlock(LedgerOf(store), krc, s, ric)
    <2>1. CASE \E i \in InUse : store.sections[i].stream = s /\ Risky(i)
      <3>1. s \in Ledger!AtRisk(LedgerOf(store), krc)
        BY <1>1, <2>1, AtRiskInUse
      <3> QED BY <3>1 DEF Ledger!MayBlock
    <2>2. CASE BlockedStreamCount < MaxBlockedStreams
      <3>1. BlockedStreamCount = Cardinality(Ledger!AtRisk(LedgerOf(store), krc))
        BY <1>1, CountIsOfStreams
      <3> QED BY <2>2, <3>1, SameCardinality DEF Ledger!MayBlock
    <2> QED BY <1>6, <2>1, <2>2 DEF Ledger!MayBlock
  <1>9. Blocking(store', krc) <= MaxBlockedStreams
    <2> HIDE DEF held
    <2> QED BY <1>1, <1>5, <1>7, <1>8, RiskAdmitted DEF Inv
  <1>10. Inv'
    <2>1. Sound(store)' /\ Blocking(store, krc)' = Blocking(store', krc)
      BY <1>4, <1>7 DEF Sound, Store, Packed, Numbered, RangeOf, Blocking, LedgerOf, HeldAt
    <2> QED BY <1>1, <1>4, <1>9, <2>1 DEF Inv
  <1>11. held \in SUBSET (0 .. (ric - 1)) /\ held = held \cup {ric - 1}
    BY <1>5, <1>6
  <1> HIDE DEF held
  <1>12. Ledger!Register(s)
    <2>1. ric \in 1 .. insertCount
      BY <1>3
    <2>2. Outstanding' = Ledger!Registered(Outstanding, store.count,
                           [stream |-> s, ric |-> ric, refs |-> held \cup {ric - 1}])
      BY <1>7, <1>11, OutstandingIsLedger, OutstandingNext
    <2>3. Ledger!MayBlock(Outstanding, krc, s, ric)
      BY <1>8, OutstandingIsLedger
    <2> QED BY <1>4, <1>7, <1>11, <2>1, <2>2, <2>3 DEF Ledger!Register
  <1> QED BY <1>10, <1>12

LEMMA AcknowledgeSteps ==
  ASSUME Inv, NEW s \in Streams, Acknowledge(s)
  PROVE  Inv' /\ Ledger!Acknowledge(s)
  <1>1. PICK i \in InUse :
          /\ store.sections[i].stream = s
          /\ \A j \in Slots(i) : store.sections[j].stream # s
          /\ krc' = IF krc >= store.sections[i].ric THEN krc ELSE store.sections[i].ric
          /\ store' = Removed(store, i) /\ insertCount' = insertCount
    BY DEF Acknowledge
  <1> DEFINE n == store.sectionLen
             id == store.ids[i + 1]
             ledger == LedgerOf(store)
             ric == store.sections[i].ric
  <1>2. Sound(store) /\ krc \in Nat /\ insertCount \in Nat /\ i \in Slots(n) /\ n \in Nat
        /\ i \in Nat /\ i < n
    <2>1. i \in Slots(n) /\ n \in Nat
      BY StoreParts DEF Inv, Sound, InUse
    <2> QED BY <2>1, InSlots DEF Inv
  <1>3. ric \in Nat
    <2>1. i \in Slots(SectionSlots)
      BY <1>2, StoreParts DEF Sound, Slots
    <2> QED BY <1>2, <2>1, StoreParts DEF Sound
  <1>4. krc' \in Nat /\ krc <= krc' /\ krc' = Ledger!Larger(krc, ric)
    BY <1>1, <1>2, <1>3 DEF Ledger!Larger
  <1>5. /\ Sound(store') /\ store'.count = store.count
        /\ LedgerOf(store') = Ledger!Without(ledger, {id})
    BY <1>1, <1>2, RemovedSound, RemovedCounts, LedgerRemoved
  <1>6. Inv'
    <2>1. Blocking(store', krc') <= MaxBlockedStreams
      <3> HIDE DEF id
      <3> QED BY <1>2, <1>4, <1>5, RiskShrinks DEF Inv
    <2>2. Sound(store)' /\ Blocking(store, krc)' = Blocking(store', krc')
      BY <1>5 DEF Sound, Store, Packed, Numbered, RangeOf, Blocking, LedgerOf, HeldAt
    <2> QED BY <1>1, <1>2, <1>4, <2>1, <2>2 DEF Inv
  <1>7. id \in DOMAIN ledger /\ ledger[id] = HeldAt(store, i)
    BY <1>2, LedgerAt
  <1>8. ASSUME NEW m \in DOMAIN ledger, ledger[m].stream = s PROVE id <= m
    <2>1. PICK j \in Slots(n) : m = store.ids[j + 1] /\ ledger[m] = HeldAt(store, j)
      BY <1>2, LedgerAt
    <2>2. j \in Nat /\ j < n /\ store.sections[j].stream = s
      BY <1>2, <1>8, <2>1, InSlots DEF HeldAt
    <2>3. ~ (j < i)
      BY <1>1, <1>2, <2>2 DEF Slots
    <2>4. /\ Len(store.ids) = n
          /\ \A k \in 1 .. Len(store.ids) :
               \A l \in 1 .. Len(store.ids) : l < k => store.ids[l] < store.ids[k]
          /\ \A k \in 1 .. Len(store.ids) : store.ids[k] \in Nat
      <3>1. store.ids \in Seq(Nat)
        BY <1>2, StoreParts DEF Sound
      <3> QED BY <1>2, <3>1, ElementOfSeq DEF Sound, Numbered
    <2> HIDE DEF n
    <2>5. i + 1 \in 1 .. n /\ j + 1 \in 1 .. n /\ (i = j \/ i + 1 < j + 1)
      BY <1>2, <2>2, <2>3
    <2>6. CASE i = j
      BY <2>1, <2>4, <2>5, <2>6
    <2>7. CASE i + 1 < j + 1
      BY <2>1, <2>4, <2>5, <2>7
    <2> QED BY <2>5, <2>6, <2>7
  <1> HIDE DEF id, ledger
  <1>9. ledger[id].stream = s /\ ledger[id].ric = ric
    BY <1>1, <1>7 DEF HeldAt
  <1>10. Ledger!IsFirstOf(ledger, s, id)
    BY <1>7, <1>8, <1>9 DEF Ledger!IsFirstOf
  <1>11. Ledger!Acknowledge(s)
    <2>1. Outstanding = ledger /\ Outstanding' = Ledger!Without(ledger, {id})
      BY <1>5, OutstandingIsLedger, OutstandingNext DEF ledger
    <2> QED BY <1>1, <1>4, <1>5, <1>7, <1>9, <1>10, <2>1 DEF Ledger!Acknowledge
  <1> QED BY <1>6, <1>11

LEMMA CancelSteps ==
  ASSUME Inv, NEW s \in Streams, Cancel(s)
  PROVE  Inv' /\ Ledger!Cancel(s)
  <1>1. Sound(store) /\ krc \in Nat /\ insertCount \in Nat
    BY DEF Inv
  <1>2. /\ Sound(store') /\ store'.count = store.count
        /\ LedgerOf(store') =
             Ledger!Without(LedgerOf(store), Ledger!OfStream(LedgerOf(store), s))
        /\ krc' = krc /\ insertCount' = insertCount
    BY <1>1, CancelParts
  <1>3. Blocking(store', krc) <= MaxBlockedStreams
    BY <1>1, <1>2, RiskShrinks DEF Inv
  <1>4. Sound(store)' /\ Blocking(store, krc)' = Blocking(store', krc)
    BY <1>2 DEF Sound, Store, Packed, Numbered, RangeOf, Blocking, LedgerOf, HeldAt
  <1>5. Inv'
    BY <1>1, <1>2, <1>3, <1>4 DEF Inv
  <1>6. Ledger!Cancel(s)
    BY <1>2, OutstandingIsLedger, OutstandingNext DEF Ledger!Cancel
  <1> QED BY <1>5, <1>6

LEMMA CountSteps ==
  ASSUME Inv, UNCHANGED store, krc' \in Nat, krc <= krc', insertCount' \in Nat
  PROVE  Inv' /\ Outstanding' = Outstanding /\ store'.count = store.count
  <1>1. Sound(store) /\ krc \in Nat
    BY DEF Inv
  <1>2. LedgerOf(store) = Ledger!Without(LedgerOf(store), {})
    <2>1. LedgerOf(store) = [m \in DOMAIN LedgerOf(store) |-> LedgerOf(store)[m]]
      BY DEF LedgerOf
    <2>2. \A f : Ledger!Without(f, {}) = [m \in DOMAIN f |-> f[m]]
      BY DEF Ledger!Without
    <2> QED BY <2>1, <2>2
  <1>3. Blocking(store, krc') <= MaxBlockedStreams
    BY <1>1, <1>2, RiskShrinks DEF Inv
  <1>4. Sound(store)' /\ Blocking(store, krc)' = Blocking(store, krc')
    BY <1>1 DEF Sound, Store, Packed, Numbered, RangeOf, Blocking, LedgerOf, HeldAt
  <1>5. Inv'
    BY <1>3, <1>4 DEF Inv
  <1> QED BY <1>5, OutstandingIsLedger, OutstandingNext

LEMMA NextSteps ==
  ASSUME Inv, [Next]_vars
  PROVE  Inv' /\ [Ledger!Next]_(Ledger!vars)
  <1>1. krc \in Nat /\ insertCount \in Nat
    BY DEF Inv
  <1>2. CASE Inserted
    <2>1. UNCHANGED store /\ krc' = krc /\ insertCount' = insertCount + 1
      BY <1>2 DEF Inserted
    <2>2. Inv' /\ Outstanding' = Outstanding /\ store'.count = store.count
      BY <1>1, <2>1, CountSteps
    <2> QED BY <2>1, <2>2 DEF Ledger!Next, Ledger!Inserted
  <1>3. ASSUME NEW n \in 1 .. MaxInserts, Increment(n) PROVE Inv' /\ Ledger!Next
    <2>1. /\ UNCHANGED store /\ krc' = krc + n /\ insertCount' = insertCount
          /\ n > 0 /\ krc + n <= insertCount /\ n \in Int
      BY <1>3, EncoderStateAssumption DEF Increment
    <2>2. krc' \in Nat /\ krc <= krc' /\ krc' \in (krc + 1) .. insertCount
      BY <1>1, <2>1
    <2>3. Inv' /\ Outstanding' = Outstanding /\ store'.count = store.count
      BY <1>1, <2>1, <2>2, CountSteps
    <2> QED BY <2>1, <2>2, <2>3 DEF Ledger!Next, Ledger!Increment
  <1>4. ASSUME NEW s \in Streams, Register(s) PROVE Inv' /\ Ledger!Next
    BY <1>4, RegisterSteps DEF Ledger!Next
  <1>5. ASSUME NEW s \in Streams, Acknowledge(s) PROVE Inv' /\ Ledger!Next
    BY <1>5, AcknowledgeSteps DEF Ledger!Next
  <1>6. ASSUME NEW s \in Streams, Cancel(s) PROVE Inv' /\ Ledger!Next
    BY <1>6, CancelSteps DEF Ledger!Next
  <1>7. CASE UNCHANGED vars
    <2>1. UNCHANGED store /\ krc' = krc /\ insertCount' = insertCount
      BY <1>7 DEF vars
    <2>2. Inv' /\ Outstanding' = Outstanding /\ store'.count = store.count
      BY <1>1, <2>1, CountSteps
    <2> QED BY <2>1, <2>2 DEF Ledger!vars
  <1> QED BY <1>2, <1>3, <1>4, <1>5, <1>6, <1>7 DEF Next

\* The arrays stay sound, and the blocked-streams limit is kept.
THEOREM InvHolds == Spec => []Inv
  BY InitSteps, NextSteps, PTL DEF Spec

\* Whatever was removed in between, the ranges of the sections tile the references in use.
THEOREM RangesAlwaysTile == Spec => []RangesTile
  <1>1. Inv => RangesTile
    BY SoundTiles DEF Inv
  <1> QED BY <1>1, InvHolds, PTL

\* The arrays answer what the ledger answers.
THEOREM AnswersAlwaysAgree == Spec => []AnswersAgree
  <1>1. Inv => AnswersAgree
    BY AnswersOfSound DEF Inv, Blocking
  <1> QED BY <1>1, InvHolds, PTL

\* Every call on the arrays changes the ledger as the ledger's specification says.
THEOREM ArraysImplementLedger == Spec => ImplementsLedger
  <1>1. Spec => Ledger!Init /\ [][Ledger!Next]_(Ledger!vars)
    BY InitSteps, NextSteps, InvHolds, PTL DEF Spec
  <1> QED BY <1>1, PTL DEF ImplementsLedger, Ledger!Spec

-----------------------------------------------------------------------------
(* The tables' bytes and slots *)

Slot == [offset : Nat, nameLen : Nat, valueLen : Nat]
SlotArrays == [0 .. (SlotCount - 1) -> Slot]

\* What is in the arrays between two calls, if the table may take up to "limit".
Stored(bytes, slots, n, total, limit) ==
  /\ DOMAIN bytes = 0 .. (StorageLen - 1)
  /\ slots \in SlotArrays
  /\ n \in 0 .. SlotCount
  /\ limit \in 0 .. StorageCapacity
  /\ ArePacked(slots, n, total) /\ total <= limit
  /\ \A i \in 0 .. (n - 1) : \E f \in Fields : Holds(bytes, slots[i], f)

-----------------------------------------------------------------------------
\* The constants are numbers.
LEMMA Sizes ==
  /\ StorageLen \in Nat /\ SlotCount \in Nat
  /\ StorageCapacity \in Nat
  /\ StorageCapacity <= StorageLen + 32
  /\ StorageCapacity <= SlotCount * 32 + 31
  <1>1. StorageLen \in Nat /\ SlotCount \in Nat
    BY ArraysAssumption
  <1> QED BY <1>1 DEF StorageCapacity

\* What lies behind a sequence is found behind it.
LEMMA Concatenated ==
  ASSUME NEW S, NEW p \in Seq(S), NEW q \in Seq(S)
  PROVE  /\ Len(p \o q) = Len(p) + Len(q)
         /\ \A k \in 1 .. Len(p) : (p \o q)[k] = p[k]
         /\ \A k \in 1 .. Len(q) : (p \o q)[Len(p) + k] = q[k]
  <1>1. Len(p) \in Nat /\ Len(q) \in Nat
    OBVIOUS
  <1>2. /\ Len(p \o q) = Len(p) + Len(q)
        /\ \A k \in 1 .. (Len(p) + Len(q)) :
              (p \o q)[k] = IF k <= Len(p) THEN p[k] ELSE q[k - Len(p)]
    BY ConcatProperties
  <1>3. ASSUME NEW k \in 1 .. Len(q) PROVE (p \o q)[Len(p) + k] = q[k]
    <2>1. Len(p) + k \in 1 .. (Len(p) + Len(q)) /\ ~ (Len(p) + k <= Len(p))
          /\ (Len(p) + k) - Len(p) = k
      BY <1>1
    <2> QED BY <1>2, <2>1
  <1> QED BY <1>1, <1>2, <1>3

\* The bytes of a string are as many as its length.
LEMMA BytesTyped ==
  ASSUME NEW string \in Names \union Values
  PROVE  /\ ByteLen[string] \in Nat
         /\ BytesOf(string) \in Seq((Names \union Values) \X Nat)
         /\ Len(BytesOf(string)) = ByteLen[string]
         /\ \A k \in 1 .. ByteLen[string] : BytesOf(string)[k] = <<string, k>>
  <1>1. ByteLen[string] \in Nat
    BY StringsAssumption
  <1> QED BY <1>1 DEF BytesOf

\* Fields have lengths.
LEMMA FieldSizes ==
  ASSUME NEW f \in Fields
  PROVE  /\ f.name \in Names /\ f.value \in Values
         /\ ByteLen[f.name] \in Nat /\ ByteLen[f.value] \in Nat
         /\ EntrySize(f) \in Nat
         /\ EntrySize(f) = ByteLen[f.name] + ByteLen[f.value] + 32
  <1>1. f.name \in Names /\ f.value \in Values
    BY DEF Fields
  <1>2. ByteLen[f.name] \in Nat /\ ByteLen[f.value] \in Nat
    BY <1>1, StringsAssumption
  <1> QED BY <1>1, <1>2 DEF EntrySize

\* The bytes of a field are those of its name and, behind them, those of its value.
LEMMA FieldBytesAre ==
  ASSUME NEW f \in Fields
  PROVE  /\ Len(FieldBytes(f)) = ByteLen[f.name] + ByteLen[f.value]
         /\ \A k \in 1 .. ByteLen[f.name] : FieldBytes(f)[k] = BytesOf(f.name)[k]
         /\ \A k \in 1 .. ByteLen[f.value] :
               FieldBytes(f)[ByteLen[f.name] + k] = BytesOf(f.value)[k]
  <1> DEFINE S == (Names \union Values) \X Nat
             m == BytesOf(f.name)
             v == BytesOf(f.value)
  <1>1. /\ m \in Seq(S) /\ Len(m) = ByteLen[f.name]
        /\ v \in Seq(S) /\ Len(v) = ByteLen[f.value]
    BY FieldSizes, BytesTyped
  <1>2. FieldBytes(f) = m \o v
    BY DEF FieldBytes
  <1> HIDE DEF S, m, v
  <1>3. /\ Len(m \o v) = Len(m) + Len(v)
        /\ \A k \in 1 .. Len(m) : (m \o v)[k] = m[k]
        /\ \A k \in 1 .. Len(v) : (m \o v)[Len(m) + k] = v[k]
    <2>1. m \in Seq(S)
      BY <1>1
    <2>2. v \in Seq(S)
      BY <1>1
    <2> QED BY ONLY <2>1, <2>2, Concatenated
  <1>4. /\ Len(FieldBytes(f)) = ByteLen[f.name] + ByteLen[f.value]
        /\ \A k \in 1 .. ByteLen[f.name] : FieldBytes(f)[k] = m[k]
        /\ \A k \in 1 .. ByteLen[f.value] : FieldBytes(f)[ByteLen[f.name] + k] = v[k]
    BY <1>1, <1>2, <1>3
  <1> QED BY <1>4 DEF m, v

\* The parts of a slot, and the bytes in front of one, are numbers.
LEMMA SlotTyped ==
  ASSUME NEW slots \in SlotArrays, NEW i \in 0 .. (SlotCount - 1)
  PROVE  /\ slots[i] \in Slot
         /\ slots[i].offset \in Nat /\ slots[i].nameLen \in Nat /\ slots[i].valueLen \in Nat
  BY DEF SlotArrays, Slot

LEMMA PackedTyped ==
  ASSUME NEW slots \in SlotArrays, NEW k \in 0 .. SlotCount
  PROVE  PackedBytes(slots, k) \in Nat
  <1>1. CASE k = 0
    BY <1>1 DEF PackedBytes
  <1>2. CASE k # 0
    <2>1. k - 1 \in 0 .. (SlotCount - 1)
      BY <1>2, Sizes
    <2>2. /\ slots[k - 1].offset \in Nat
          /\ slots[k - 1].nameLen \in Nat /\ slots[k - 1].valueLen \in Nat
      BY <2>1, SlotTyped
    <2> QED BY <1>2, <2>2 DEF PackedBytes
  <1> QED BY <1>1, <1>2

\* One entry more is its bytes more.
LEMMA PackedStep ==
  ASSUME NEW slots \in SlotArrays, NEW n \in 0 .. SlotCount, NEW total,
         ArePacked(slots, n, total), NEW k \in 0 .. (n - 1)
  PROVE  /\ PackedBytes(slots, k) \in Nat
         /\ slots[k].offset = PackedBytes(slots, k)
         /\ slots[k].nameLen \in Nat /\ slots[k].valueLen \in Nat
         /\ PackedBytes(slots, k + 1)
              = PackedBytes(slots, k) + slots[k].nameLen + slots[k].valueLen
         /\ EntrySizeFromSlot(slots[k]) = slots[k].nameLen + slots[k].valueLen + 32
  <1>1. k \in 0 .. (SlotCount - 1) /\ k \in 0 .. SlotCount
    BY Sizes
  <1>2. slots[k].offset = PackedBytes(slots, k)
    BY DEF ArePacked
  <1>3. k + 1 # 0 /\ (k + 1) - 1 = k
    BY <1>1, Sizes
  <1>4. PackedBytes(slots, k + 1) = slots[k].offset + slots[k].nameLen + slots[k].valueLen
    BY <1>3 DEF PackedBytes
  <1> QED BY <1>1, <1>2, <1>4, SlotTyped, PackedTyped DEF EntrySizeFromSlot

\* More entries are no fewer bytes.
LEMMA PackedGrows ==
  ASSUME NEW slots \in SlotArrays, NEW n \in 0 .. SlotCount, NEW total,
         ArePacked(slots, n, total), NEW i \in 0 .. n, NEW j \in i .. n
  PROVE  PackedBytes(slots, i) <= PackedBytes(slots, j)
  <1> DEFINE less == {m \in i .. n : ~ (PackedBytes(slots, i) <= PackedBytes(slots, m))}
  <1>1. n \in Nat /\ i \in Nat /\ i \in 0 .. SlotCount
    BY Sizes
  <1>2. PackedBytes(slots, i) \in Nat
    BY <1>1, PackedTyped
  <1>3. less = {}
    <2>1. SUFFICES ASSUME less # {} PROVE FALSE
      OBVIOUS
    <2>2. less \in SUBSET Nat
      BY <1>1
    <2>3. PICK m \in less : \A k \in less : ~ (k < m)
      <3> HIDE DEF less
      <3> QED BY <2>1, <2>2, LeastNumber
    <2>4. m \in Nat /\ m # i /\ m \in i .. n
      BY <1>1, <1>2, <2>3
    <2>5. m - 1 \in i .. n /\ m - 1 < m /\ m - 1 \in 0 .. (n - 1) /\ (m - 1) + 1 = m
      BY <1>1, <2>4
    <2>6. PackedBytes(slots, i) <= PackedBytes(slots, m - 1)
      BY <2>3, <2>5
    <2>7. /\ PackedBytes(slots, m - 1) \in Nat
          /\ slots[m - 1].nameLen \in Nat /\ slots[m - 1].valueLen \in Nat
          /\ PackedBytes(slots, m)
               = PackedBytes(slots, m - 1) + slots[m - 1].nameLen + slots[m - 1].valueLen
      BY <2>5, PackedStep
    <2>8. PackedBytes(slots, i) <= PackedBytes(slots, m)
      BY <1>2, <2>6, <2>7
    <2> QED BY <2>3, <2>8
  <1> QED BY <1>3

-----------------------------------------------------------------------------
\* The sizes that the eviction loop goes through: the recursion runs from the oldest entry
\* to the newest, and each step takes away what the entry is counted for.
LEMMA SizeWithIs ==
  ASSUME NEW slots \in SlotArrays, NEW n \in 0 .. SlotCount, NEW total,
         ArePacked(slots, n, total), NEW m \in 0 .. n
  PROVE  SizeWith(slots, n, total, m) = PackedBytes(slots, m) + 32 * m
  <1> DEFINE Body(left, k) == IF k = n THEN total ELSE left[k + 1] - EntrySizeFromSlot(slots[k])
             Solves(left) == left = [k \in m .. n |-> Body(left, k)]
             chosen == CHOOSE left : Solves(left)
             sizes == [k \in m .. n |-> PackedBytes(slots, k) + 32 * k]
             wrong == {d \in 0 .. (n - m) :
                          chosen[n - d] # PackedBytes(slots, n - d) + 32 * (n - d)}
  <1>1. n \in Nat /\ m \in Nat /\ m <= n
    BY Sizes
  <1>2. total = PackedBytes(slots, n) + 32 * n
    BY DEF ArePacked
  <1>3. ASSUME NEW k \in m .. n, k # n
        PROVE  PackedBytes(slots, k) + 32 * k
                 = (PackedBytes(slots, k + 1) + 32 * (k + 1)) - EntrySizeFromSlot(slots[k])
    <2>1. k \in 0 .. (n - 1) /\ k \in Nat
      BY <1>1, <1>3
    <2>2. /\ PackedBytes(slots, k) \in Nat
          /\ slots[k].nameLen \in Nat /\ slots[k].valueLen \in Nat
          /\ PackedBytes(slots, k + 1)
               = PackedBytes(slots, k) + slots[k].nameLen + slots[k].valueLen
          /\ EntrySizeFromSlot(slots[k]) = slots[k].nameLen + slots[k].valueLen + 32
      BY <2>1, PackedStep
    <2> QED BY <2>1, <2>2
  <1>4. Solves(sizes)
    <2>1. ASSUME NEW k \in m .. n PROVE sizes[k] = Body(sizes, k)
      <3>1. CASE k = n
        BY <1>1, <1>2, <3>1
      <3>2. CASE k # n
        <4>1. k + 1 \in m .. n
          BY <1>1, <3>2
        <4>2. sizes[k + 1] = PackedBytes(slots, k + 1) + 32 * (k + 1)
          BY <4>1
        <4>3. sizes[k] = PackedBytes(slots, k) + 32 * k
          OBVIOUS
        <4>4. PackedBytes(slots, k) + 32 * k
                = (PackedBytes(slots, k + 1) + 32 * (k + 1)) - EntrySizeFromSlot(slots[k])
          BY <1>3, <3>2
        <4>5. Body(sizes, k) = sizes[k + 1] - EntrySizeFromSlot(slots[k])
          BY <3>2
        <4> HIDE DEF Body, sizes
        <4> QED BY <4>2, <4>3, <4>4, <4>5
      <3> QED BY <3>1, <3>2
    <2> HIDE DEF Body
    <2> QED BY <2>1
  <1>5. Solves(chosen)
    <2> HIDE DEF sizes, Solves
    <2> QED BY <1>4
  <1>6. \A k \in m .. n : chosen[k] = Body(chosen, k)
    <2> HIDE DEF chosen, Body
    <2> QED BY <1>5
  <1> HIDE DEF chosen
  <1>7. wrong = {}
    <2>1. SUFFICES ASSUME wrong # {} PROVE FALSE
      OBVIOUS
    <2>2. wrong \in SUBSET Nat
      BY <1>1
    <2>3. PICK d \in wrong : \A e \in wrong : ~ (e < d)
      <3> HIDE DEF wrong
      <3> QED BY <2>1, <2>2, LeastNumber
    <2>4. d \in Nat /\ d \in 0 .. (n - m)
      BY <1>1, <2>3
    <2> DEFINE k == n - d
    <2>5. k \in m .. n /\ k \in Nat
      BY <1>1, <2>4
    <2>6. chosen[k] = Body(chosen, k)
      BY <1>6, <2>5
    <2>7. chosen[k] # PackedBytes(slots, k) + 32 * k
      BY <2>3
    <2>8. CASE k = n
      BY <1>2, <2>6, <2>7, <2>8
    <2>9. CASE k # n
      <3>1. d - 1 \in 0 .. (n - m) /\ d - 1 < d /\ n - (d - 1) = k + 1
        BY <1>1, <2>4, <2>9
      <3>2. chosen[k + 1] = PackedBytes(slots, k + 1) + 32 * (k + 1)
        BY <2>3, <3>1
      <3>3. chosen[k] = chosen[k + 1] - EntrySizeFromSlot(slots[k])
        BY <2>6, <2>9
      <3> HIDE DEF k
      <3> QED BY <1>3, <2>5, <2>7, <2>9, <3>2, <3>3
    <2> QED BY <2>8, <2>9
  <1>8. chosen[m] = PackedBytes(slots, m) + 32 * m
    <2>1. n - m \in 0 .. (n - m) /\ n - (n - m) = m
      BY <1>1
    <2> QED BY <1>7, <2>1
  <1>9. SizeWith(slots, n, total, m) = chosen[m]
    BY DEF SizeWith, chosen
  <1> QED BY <1>8, <1>9

\* The loop stops somewhere, whatever the room.
LEMMA RetainedExists ==
  ASSUME NEW slots \in SlotArrays, NEW n \in 0 .. SlotCount, NEW total,
         ArePacked(slots, n, total), NEW room \in Nat
  PROVE  \E m \in 0 .. n : IsRetained(slots, n, total, m, room)
  <1> DEFINE Sized(m) == PackedBytes(slots, m) + 32 * m
             dropped == {d \in 0 .. n : Sized(n - d) <= room}
  <1>1. n \in Nat
    BY Sizes
  <1>2. n \in dropped
    <2>1. Sized(n - n) = 0
      BY <1>1 DEF PackedBytes
    <2> HIDE DEF Sized
    <2> QED BY <1>1, <2>1
  <1>3. dropped \in SUBSET Nat
    BY <1>1
  <1>4. PICK d \in dropped : \A e \in dropped : ~ (e < d)
    <2> HIDE DEF dropped
    <2> QED BY <1>2, <1>3, LeastNumber
  <1> DEFINE m == n - d
  <1>5. m \in 0 .. n /\ m \in Nat
    BY <1>1, <1>4
  <1>6. SizeWith(slots, n, total, m) <= room
    BY <1>4, <1>5, SizeWithIs
  <1>7. ASSUME NEW k \in (m + 1) .. n
        PROVE  SizeWith(slots, n, total, k) > room
    <2>1. k \in 0 .. n /\ n - k \in 0 .. n /\ n - k < d /\ n - (n - k) = k /\ k \in 0 .. SlotCount
      BY <1>1, <1>4, <1>5, Sizes
    <2>2. ~ (Sized(k) <= room)
      BY <1>4, <2>1
    <2>3. Sized(k) \in Nat
      BY <1>1, <2>1, PackedTyped
    <2>4. SizeWith(slots, n, total, k) = Sized(k)
      BY <2>1, SizeWithIs
    <2> HIDE DEF Sized, m
    <2> QED BY <2>2, <2>3, <2>4
  <1> HIDE DEF m
  <1>8. IsRetained(slots, n, total, m, room)
    BY <1>5, <1>6, <1>7 DEF IsRetained
  <1> QED BY <1>5, <1>8

\* Where it stops: the entries that stay are as large as the loop computed, and fit.
LEMMA RetainedIs ==
  ASSUME NEW slots \in SlotArrays, NEW n \in 0 .. SlotCount, NEW total,
         ArePacked(slots, n, total), NEW room \in Nat, NEW m,
         IsRetained(slots, n, total, m, room)
  PROVE  /\ m \in 0 .. n /\ m \in Nat /\ m \in 0 .. SlotCount
         /\ SizeWith(slots, n, total, m) = PackedBytes(slots, m) + 32 * m
         /\ PackedBytes(slots, m) \in Nat
         /\ PackedBytes(slots, m) + 32 * m <= room
         /\ \A k \in (m + 1) .. n : PackedBytes(slots, k) + 32 * k > room
  <1>1. m \in 0 .. n /\ n \in Nat
    BY Sizes DEF IsRetained
  <1>2. m \in Nat /\ m \in 0 .. SlotCount
    BY <1>1, Sizes
  <1>3. SizeWith(slots, n, total, m) = PackedBytes(slots, m) + 32 * m
    BY <1>1, SizeWithIs
  <1>4. PackedBytes(slots, m) \in Nat
    BY <1>2, PackedTyped
  <1>5. PackedBytes(slots, m) + 32 * m <= room
    <2>1. CASE m = 0
      BY <2>1 DEF PackedBytes
    <2>2. CASE m # 0
      BY <1>3, <2>2 DEF IsRetained
    <2> QED BY <2>1, <2>2
  <1>6. ASSUME NEW k \in (m + 1) .. n PROVE PackedBytes(slots, k) + 32 * k > room
    <2>1. k \in 0 .. n
      BY <1>1, <1>2
    <2>2. SizeWith(slots, n, total, k) = PackedBytes(slots, k) + 32 * k
      BY <2>1, SizeWithIs
    <2>3. SizeWith(slots, n, total, k) > room
      BY DEF IsRetained
    <2> QED BY <2>2, <2>3
  <1> QED BY <1>1, <1>2, <1>3, <1>4, <1>5, <1>6

\* What storage_capacity is computed for: an entry that the limit admits finds
\* room in both arrays.
LEMMA EntryFits ==
  ASSUME NEW bytes, NEW slots, NEW n, NEW total, NEW limit,
         Stored(bytes, slots, n, total, limit),
         NEW f \in Fields, EntrySize(f) <= limit, NEW m,
         IsRetained(slots, n, total, m, limit - EntrySize(f))
  PROVE  /\ limit - EntrySize(f) \in Nat
         /\ PackedBytes(slots, m) + EntrySize(f) - 32 <= StorageLen
         /\ m + 1 <= SlotCount
  <1>1. limit \in Nat /\ limit <= StorageCapacity /\ EntrySize(f) \in Nat /\ EntrySize(f) >= 32
    BY FieldSizes, Sizes DEF Stored
  <1>2. limit - EntrySize(f) \in Nat
    BY <1>1
  <1>3. /\ m \in Nat /\ PackedBytes(slots, m) \in Nat
        /\ PackedBytes(slots, m) + 32 * m <= limit - EntrySize(f)
    BY <1>2, RetainedIs DEF Stored
  <1> QED BY <1>1, <1>2, <1>3, Sizes

-----------------------------------------------------------------------------
\* An eviction leaves what it leaves in place.
LEMMA CutStored ==
  ASSUME NEW bytes, NEW slots, NEW n, NEW total, NEW limit,
         Stored(bytes, slots, n, total, limit),
         NEW room \in 0 .. StorageCapacity, NEW m, IsRetained(slots, n, total, m, room)
  PROVE  Stored(bytes, slots, m, SizeWith(slots, n, total, m), room)
  <1>1. /\ slots \in SlotArrays /\ n \in 0 .. SlotCount /\ ArePacked(slots, n, total)
        /\ room \in Nat
    BY Sizes DEF Stored
  <1>2. /\ m \in 0 .. n /\ m \in Nat /\ m \in 0 .. SlotCount
        /\ SizeWith(slots, n, total, m) = PackedBytes(slots, m) + 32 * m
        /\ PackedBytes(slots, m) + 32 * m <= room
    BY <1>1, RetainedIs
  <1>3. \A i \in 0 .. (m - 1) : i \in 0 .. (n - 1)
    BY <1>1, <1>2, Sizes
  <1>4. ArePacked(slots, m, SizeWith(slots, n, total, m))
    BY <1>1, <1>2, <1>3 DEF ArePacked
  <1> QED BY <1>1, <1>2, <1>3, <1>4 DEF Stored

\* After an insertion, in the bytes: the new field's are in front, and those of the
\* surviving entries behind it.
LEMMA BytesMoved ==
  ASSUME NEW bytes, NEW slots, NEW n, NEW total, NEW limit,
         Stored(bytes, slots, n, total, limit),
         NEW f \in Fields, EntrySize(f) <= limit, NEW m,
         IsRetained(slots, n, total, m, limit - EntrySize(f))
  PROVE  /\ DOMAIN StorageWith(bytes, slots, m, f) = 0 .. (StorageLen - 1)
         /\ \A k \in 1 .. (EntrySize(f) - 32) :
               StorageWith(bytes, slots, m, f)[k - 1] = FieldBytes(f)[k]
         /\ \A k \in 0 .. (PackedBytes(slots, m) - 1) :
               StorageWith(bytes, slots, m, f)[k + (EntrySize(f) - 32)] = bytes[k]
  <1> DEFINE width == EntrySize(f) - 32
             count == PackedBytes(slots, m)
             moved == StorageWith(bytes, slots, m, f)
  <1>1. width \in Nat /\ Len(FieldBytes(f)) = width
    BY FieldSizes, FieldBytesAre
  <1>2. limit - EntrySize(f) \in Nat /\ count + width <= StorageLen
    <2>1. /\ limit - EntrySize(f) \in Nat
          /\ PackedBytes(slots, m) + EntrySize(f) - 32 <= StorageLen
      BY EntryFits
    <2>2. PackedBytes(slots, m) \in Nat
      BY <2>1, RetainedIs DEF Stored
    <2> QED BY <2>1, <2>2, FieldSizes
  <1>3. count \in Nat
    BY <1>2, RetainedIs DEF Stored
  <1>4. DOMAIN bytes = 0 .. (StorageLen - 1)
    BY DEF Stored
  <1>5. moved = [i \in 0 .. (StorageLen - 1) |->
                   IF i < width THEN FieldBytes(f)[i + 1]
                   ELSE IF i < width + count THEN bytes[i - width] ELSE bytes[i]]
    BY <1>1, <1>4 DEF StorageWith, MovedUp
  <1> HIDE DEF moved, width, count
  <1>6. ASSUME NEW k \in 1 .. width PROVE moved[k - 1] = FieldBytes(f)[k]
    <2>1. k - 1 \in 0 .. (StorageLen - 1) /\ k - 1 < width /\ (k - 1) + 1 = k
      BY <1>1, <1>2, <1>3, Sizes
    <2> QED BY <1>5, <2>1
  <1>7. ASSUME NEW k \in 0 .. (count - 1) PROVE moved[k + width] = bytes[k]
    <2>1. /\ k + width \in 0 .. (StorageLen - 1) /\ ~ (k + width < width)
          /\ k + width < width + count /\ (k + width) - width = k
      BY <1>1, <1>2, <1>3, Sizes
    <2> QED BY <1>5, <2>1
  <1> QED BY <1>5, <1>6, <1>7 DEF moved, width, count

\* A slot whose bytes have moved up.
ShiftedSlot(slot, width) == [slot EXCEPT !.offset = slot.offset + width]

\* And in the slots: the new entry's is the first, the others say how far their bytes moved.
LEMMA SlotsMoved ==
  ASSUME NEW slots \in SlotArrays, NEW f \in Fields, NEW m \in Nat, m + 1 <= SlotCount
  PROVE  /\ SlotsWith(slots, m, f) \in SlotArrays
         /\ SlotsWith(slots, m, f)[0]
              = [offset |-> 0, nameLen |-> ByteLen[f.name], valueLen |-> ByteLen[f.value]]
         /\ \A i \in 1 .. m :
               SlotsWith(slots, m, f)[i] = ShiftedSlot(slots[i - 1], EntrySize(f) - 32)
  <1> DEFINE width == EntrySize(f) - 32
             new == [offset |-> 0, nameLen |-> ByteLen[f.name], valueLen |-> ByteLen[f.value]]
             shifted == [i \in DOMAIN slots |->
                           IF i < m THEN [slots[i] EXCEPT !.offset = @ + Len(FieldBytes(f))]
                                    ELSE slots[i]]
             moved == SlotsWith(slots, m, f)
  <1>1. width \in Nat /\ Len(FieldBytes(f)) = width /\ new \in Slot /\ SlotCount \in Nat
    BY FieldSizes, FieldBytesAre, Sizes DEF Slot
  <1>2. DOMAIN slots = 0 .. (SlotCount - 1)
    BY DEF SlotArrays
  <1>3. ASSUME NEW i \in 0 .. (SlotCount - 1)
        PROVE  shifted[i] = IF i < m THEN [slots[i] EXCEPT !.offset = slots[i].offset + width]
                            ELSE slots[i]
    BY <1>1, <1>2
  <1>4. ASSUME NEW i \in 0 .. (SlotCount - 1) PROVE shifted[i] \in Slot
    <2>1. slots[i] \in Slot /\ slots[i].offset + width \in Nat
      BY <1>1, SlotTyped
    <2>2. [slots[i] EXCEPT !.offset = slots[i].offset + width] \in Slot
      BY <2>1 DEF Slot
    <2> HIDE DEF shifted
    <2> QED BY <1>3, <2>1, <2>2
  <1>5. DOMAIN shifted = 0 .. (SlotCount - 1)
    BY <1>2
  <1>6. moved = MovedUp(shifted, m, 1, <<new>>)
    BY DEF SlotsWith
  <1>7. MovedUp(shifted, m, 1, <<new>>)
          = [i \in 0 .. (SlotCount - 1) |->
               IF i < 1 THEN <<new>>[i + 1] ELSE IF i < 1 + m THEN shifted[i - 1] ELSE shifted[i]]
    <2> HIDE DEF shifted, new
    <2> QED BY <1>5 DEF MovedUp
  <1> HIDE DEF moved, shifted, new, width
  <1>8. moved[0] = new
    <2>1. 0 \in 0 .. (SlotCount - 1) /\ 0 < 1
      BY <1>1
    <2>2. <<new>>[0 + 1] = new
      OBVIOUS
    <2> QED BY <1>6, <1>7, <2>1, <2>2
  <1>9. ASSUME NEW i \in 1 .. m
        PROVE  moved[i] = [slots[i - 1] EXCEPT !.offset = slots[i - 1].offset + width]
    <2>1. /\ i \in 0 .. (SlotCount - 1) /\ ~ (i < 1) /\ i < 1 + m
          /\ i - 1 \in 0 .. (SlotCount - 1) /\ i - 1 < m
      BY <1>1
    <2>2. moved[i] = shifted[i - 1]
      BY <1>6, <1>7, <2>1
    <2> QED BY <1>3, <2>1, <2>2
  <1>10. moved \in SlotArrays
    <2>1. ASSUME NEW i \in 0 .. (SlotCount - 1) PROVE moved[i] \in Slot
      <3>1. CASE i = 0
        BY <1>1, <1>8, <3>1
      <3>2. CASE i # 0
        <4>1. ~ (i < 1) /\ (i < 1 + m => i - 1 \in 0 .. (SlotCount - 1))
          BY <1>1, <3>2
        <4> QED BY <1>4, <1>6, <1>7, <4>1
      <3> QED BY <3>1, <3>2
    <2>2. moved = [i \in 0 .. (SlotCount - 1) |-> moved[i]]
      BY <1>6, <1>7
    <2> QED BY <2>1, <2>2 DEF SlotArrays
  <1>11. ASSUME NEW i \in 1 .. m PROVE moved[i] = ShiftedSlot(slots[i - 1], width)
    BY <1>9 DEF ShiftedSlot
  <1> QED BY <1>8, <1>10, <1>11 DEF moved, new, width

\* The new entry reads as the field that was inserted.
LEMMA NewIsHeld ==
  ASSUME NEW bytes, NEW slots, NEW n, NEW total, NEW limit,
         Stored(bytes, slots, n, total, limit),
         NEW f \in Fields, EntrySize(f) <= limit, NEW m,
         IsRetained(slots, n, total, m, limit - EntrySize(f))
  PROVE  Holds(StorageWith(bytes, slots, m, f), SlotsWith(slots, m, f)[0], f)
  <1> DEFINE moved == StorageWith(bytes, slots, m, f)
             slot == SlotsWith(slots, m, f)[0]
  <1>1. /\ ByteLen[f.name] \in Nat /\ ByteLen[f.value] \in Nat
        /\ EntrySize(f) - 32 = ByteLen[f.name] + ByteLen[f.value]
    BY FieldSizes
  <1>2. \A k \in 1 .. (EntrySize(f) - 32) : moved[k - 1] = FieldBytes(f)[k]
    BY BytesMoved
  <1>3. slot = [offset |-> 0, nameLen |-> ByteLen[f.name], valueLen |-> ByteLen[f.value]]
    <2>1. limit - EntrySize(f) \in Nat /\ m + 1 <= SlotCount
      BY EntryFits
    <2>2. m \in Nat /\ slots \in SlotArrays
      BY <2>1, RetainedIs DEF Stored
    <2> QED BY <2>1, <2>2, SlotsMoved
  <1> HIDE DEF moved, slot
  <1>4. ASSUME NEW k \in 1 .. ByteLen[f.name]
        PROVE  moved[slot.offset + k - 1] = BytesOf(f.name)[k]
    <2>1. k \in 1 .. (EntrySize(f) - 32) /\ slot.offset + k - 1 = k - 1
      BY <1>1, <1>3
    <2> QED BY <1>2, <2>1, FieldBytesAre
  <1>5. ASSUME NEW k \in 1 .. ByteLen[f.value]
        PROVE  moved[slot.offset + slot.nameLen + k - 1] = BytesOf(f.value)[k]
    <2>1. /\ ByteLen[f.name] + k \in 1 .. (EntrySize(f) - 32)
          /\ slot.offset + slot.nameLen + k - 1 = (ByteLen[f.name] + k) - 1
      BY <1>1, <1>3
    <2>2. moved[(ByteLen[f.name] + k) - 1] = FieldBytes(f)[ByteLen[f.name] + k]
      BY <1>2, <2>1
    <2> QED BY <2>1, <2>2, FieldBytesAre
  <1>6. slot.nameLen = ByteLen[f.name] /\ slot.valueLen = ByteLen[f.value]
    BY <1>3
  <1>7. Holds(moved, slot, f)
    BY <1>4, <1>5, <1>6 DEF Holds
  <1> QED BY <1>7 DEF moved, slot

\* A surviving entry reads as before, from its new place.
LEMMA OldIsHeld ==
  ASSUME NEW bytes, NEW slots, NEW n, NEW total, NEW limit,
         Stored(bytes, slots, n, total, limit),
         NEW f \in Fields, EntrySize(f) <= limit, NEW m,
         IsRetained(slots, n, total, m, limit - EntrySize(f)),
         NEW i \in 1 .. m, NEW g \in Fields, Holds(bytes, slots[i - 1], g)
  PROVE  /\ Holds(StorageWith(bytes, slots, m, f), SlotsWith(slots, m, f)[i], g)
         /\ SlotsWith(slots, m, f)[i].offset = slots[i - 1].offset + (EntrySize(f) - 32)
         /\ SlotsWith(slots, m, f)[i].nameLen = slots[i - 1].nameLen
         /\ SlotsWith(slots, m, f)[i].valueLen = slots[i - 1].valueLen
  <1> DEFINE moved == StorageWith(bytes, slots, m, f)
             slot == SlotsWith(slots, m, f)[i]
             old == slots[i - 1]
             width == EntrySize(f) - 32
             count == PackedBytes(slots, m)
  <1>1. /\ slots \in SlotArrays /\ n \in 0 .. SlotCount /\ ArePacked(slots, n, total)
        /\ limit - EntrySize(f) \in Nat /\ m + 1 <= SlotCount /\ width \in Nat
    <2>1. limit - EntrySize(f) \in Nat /\ m + 1 <= SlotCount
      BY EntryFits
    <2>2. width \in Nat
      BY FieldSizes
    <2>3. slots \in SlotArrays /\ n \in 0 .. SlotCount /\ ArePacked(slots, n, total)
      BY DEF Stored
    <2> QED BY <2>1, <2>2, <2>3
  <1>2. m \in 0 .. n /\ m \in Nat /\ n \in Nat
    BY <1>1, RetainedIs, Sizes
  <1>3. /\ i - 1 \in 0 .. (n - 1) /\ (i - 1) + 1 = i /\ i \in 0 .. n /\ m \in i .. n
        /\ i - 1 \in 0 .. (SlotCount - 1)
    <2>1. m <= n /\ n <= SlotCount /\ SlotCount \in Nat /\ i \in Nat /\ 1 <= i /\ i <= m
      BY <1>1, <1>2, Sizes
    <2> QED BY ONLY <1>2, <2>1
  <1>4. \A k \in 0 .. (count - 1) : moved[k + width] = bytes[k]
    BY BytesMoved
  <1>5. old \in Slot /\ old.offset \in Nat /\ old.nameLen \in Nat /\ old.valueLen \in Nat
    BY <1>1, <1>3, SlotTyped
  <1>6. old.offset + old.nameLen + old.valueLen <= count /\ count \in Nat
    <2>1. PackedBytes(slots, (i - 1) + 1) = old.offset + old.nameLen + old.valueLen
      BY <1>1, <1>3, PackedStep
    <2>2. PackedBytes(slots, i) <= count
      BY <1>1, <1>3, PackedGrows
    <2>3. count \in Nat
      BY <1>1, RetainedIs
    <2> QED BY <1>3, <2>1, <2>2, <2>3
  <1>7. slot = ShiftedSlot(old, width)
    <2>1. slots \in SlotArrays /\ m \in Nat /\ m + 1 <= SlotCount
      BY <1>1, <1>2
    <2> QED BY <2>1, SlotsMoved
  <1>8. Holds(bytes, old, g)
    OBVIOUS
  <1> HIDE DEF moved, slot, old, width, count
  <1>9. /\ slot.offset = old.offset + width
        /\ slot.nameLen = old.nameLen /\ slot.valueLen = old.valueLen
    BY <1>5, <1>7 DEF Slot, ShiftedSlot
  <1>10. ASSUME NEW k \in 1 .. slot.nameLen
         PROVE  moved[slot.offset + k - 1] = BytesOf(g.name)[k]
    <2>1. /\ old.offset + k - 1 \in 0 .. (count - 1)
          /\ slot.offset + k - 1 = (old.offset + k - 1) + width
      BY <1>1, <1>5, <1>6, <1>9
    <2>2. bytes[old.offset + k - 1] = BytesOf(g.name)[k]
      BY <1>8, <1>9 DEF Holds
    <2>3. moved[(old.offset + k - 1) + width] = bytes[old.offset + k - 1]
      BY <1>4, <2>1
    <2> QED BY <2>1, <2>2, <2>3
  <1>11. ASSUME NEW k \in 1 .. slot.valueLen
         PROVE  moved[slot.offset + slot.nameLen + k - 1] = BytesOf(g.value)[k]
    <2>1. /\ old.offset + old.nameLen + k - 1 \in 0 .. (count - 1)
          /\ slot.offset + slot.nameLen + k - 1 = (old.offset + old.nameLen + k - 1) + width
      BY <1>1, <1>5, <1>6, <1>9
    <2>2. bytes[old.offset + old.nameLen + k - 1] = BytesOf(g.value)[k]
      BY <1>8, <1>9 DEF Holds
    <2>3. moved[(old.offset + old.nameLen + k - 1) + width]
            = bytes[old.offset + old.nameLen + k - 1]
      BY <1>4, <2>1
    <2> QED BY <2>1, <2>2, <2>3
  <1>12. slot.nameLen = ByteLen[g.name] /\ slot.valueLen = ByteLen[g.value]
    BY <1>8, <1>9 DEF Holds
  <1>13. Holds(moved, slot, g)
    BY <1>10, <1>11, <1>12 DEF Holds
  <1> QED BY <1>9, <1>13 DEF moved, slot, old, width

\* The bytes between a slot's bounds are those of one field.
LEMMA HoldsOne ==
  ASSUME NEW bytes, NEW slot, NEW f \in Fields, NEW g \in Fields,
         Holds(bytes, slot, f), Holds(bytes, slot, g)
  PROVE  f = g
  <1>1. /\ f.name \in Names /\ f.value \in Values /\ g.name \in Names /\ g.value \in Values
        /\ ByteLen[f.name] \in Nat /\ ByteLen[f.value] \in Nat
        /\ ByteLen[f.name] = ByteLen[g.name] /\ ByteLen[f.value] = ByteLen[g.value]
        /\ slot.nameLen = ByteLen[f.name] /\ slot.valueLen = ByteLen[f.value]
    BY FieldSizes DEF Holds
  <1>2. f.name = g.name
    <2>1. CASE ByteLen[f.name] = 0
      BY <1>1, <2>1, StringsAssumption
    <2>2. CASE ByteLen[f.name] # 0
      <3>1. 1 \in 1 .. slot.nameLen /\ 1 \in 1 .. ByteLen[g.name]
        BY <1>1, <2>2
      <3>2. BytesOf(f.name)[1] = BytesOf(g.name)[1]
        BY <3>1 DEF Holds
      <3>3. f.name \in Names \union Values /\ g.name \in Names \union Values
            /\ 1 \in 1 .. ByteLen[f.name]
        BY <1>1, <3>1
      <3>4. BytesOf(f.name)[1] = <<f.name, 1>> /\ BytesOf(g.name)[1] = <<g.name, 1>>
        BY <3>1, <3>3, BytesTyped
      <3>5. <<f.name, 1>>[1] = f.name /\ <<g.name, 1>>[1] = g.name
        OBVIOUS
      <3>6. <<f.name, 1>> = <<g.name, 1>>
        BY <3>2, <3>4, Zenon
      <3> QED BY <3>5, <3>6, Zenon
    <2> QED BY <2>1, <2>2
  <1>3. f.value = g.value
    <2>1. CASE ByteLen[f.value] = 0
      BY <1>1, <2>1, StringsAssumption
    <2>2. CASE ByteLen[f.value] # 0
      <3>1. 1 \in 1 .. slot.valueLen /\ 1 \in 1 .. ByteLen[g.value]
        BY <1>1, <2>2
      <3>2. BytesOf(f.value)[1] = BytesOf(g.value)[1]
        BY <3>1 DEF Holds
      <3>3. f.value \in Names \union Values /\ g.value \in Names \union Values
            /\ 1 \in 1 .. ByteLen[f.value]
        BY <1>1, <3>1
      <3>4. BytesOf(f.value)[1] = <<f.value, 1>> /\ BytesOf(g.value)[1] = <<g.value, 1>>
        BY <3>1, <3>3, BytesTyped
      <3>5. <<f.value, 1>>[1] = f.value /\ <<g.value, 1>>[1] = g.value
        OBVIOUS
      <3>6. <<f.value, 1>> = <<g.value, 1>>
        BY <3>2, <3>4, Zenon
      <3> QED BY <3>5, <3>6, Zenon
    <2> QED BY <2>1, <2>2
  <1> QED BY <1>2, <1>3 DEF Fields

\* After an insertion the arrays hold the surviving entries and the new one.
LEMMA InsertedStored ==
  ASSUME NEW bytes, NEW slots, NEW n, NEW total, NEW limit,
         Stored(bytes, slots, n, total, limit),
         NEW f \in Fields, EntrySize(f) <= limit, NEW m,
         IsRetained(slots, n, total, m, limit - EntrySize(f))
  PROVE  Stored(StorageWith(bytes, slots, m, f), SlotsWith(slots, m, f), m + 1,
                SizeWith(slots, n, total, m) + EntrySize(f), limit)
  <1> DEFINE moved == StorageWith(bytes, slots, m, f)
             after == SlotsWith(slots, m, f)
             width == EntrySize(f) - 32
             left == SizeWith(slots, n, total, m)
  <1>1. /\ slots \in SlotArrays /\ n \in 0 .. SlotCount /\ ArePacked(slots, n, total)
        /\ limit - EntrySize(f) \in Nat /\ m + 1 <= SlotCount
        /\ EntrySize(f) \in Nat /\ width \in Nat /\ limit \in Nat
        /\ limit \in 0 .. StorageCapacity
        /\ \A i \in 0 .. (n - 1) : \E g \in Fields : Holds(bytes, slots[i], g)
    <2>1. limit - EntrySize(f) \in Nat /\ m + 1 <= SlotCount
      BY EntryFits
    <2>2. EntrySize(f) \in Nat /\ width \in Nat
      BY FieldSizes
    <2>3. /\ slots \in SlotArrays /\ n \in 0 .. SlotCount /\ ArePacked(slots, n, total)
          /\ limit \in 0 .. StorageCapacity
          /\ \A i \in 0 .. (n - 1) : \E g \in Fields : Holds(bytes, slots[i], g)
      BY DEF Stored
    <2>4. limit \in Nat
      BY <2>3, Sizes
    <2> QED BY <2>1, <2>2, <2>3, <2>4
  <1>2. /\ m \in 0 .. n /\ m \in Nat /\ n \in Nat /\ m \in 0 .. SlotCount
        /\ left = PackedBytes(slots, m) + 32 * m /\ PackedBytes(slots, m) \in Nat
        /\ left <= limit - EntrySize(f)
    BY <1>1, RetainedIs, Sizes
  <1>3. DOMAIN moved = 0 .. (StorageLen - 1)
    BY BytesMoved
  <1>4. after \in SlotArrays
    BY <1>1, <1>2, SlotsMoved
  <1>5. \A i \in 1 .. m : \E g \in Fields :
           /\ Holds(bytes, slots[i - 1], g)
           /\ Holds(moved, after[i], g)
           /\ after[i].offset = slots[i - 1].offset + width
           /\ after[i].nameLen = slots[i - 1].nameLen
           /\ after[i].valueLen = slots[i - 1].valueLen
    <2> TAKE i \in 1 .. m
    <2>1. i - 1 \in 0 .. (n - 1)
      BY <1>2
    <2>2. PICK g \in Fields : Holds(bytes, slots[i - 1], g)
      BY <1>1, <2>1
    <2>3. /\ Holds(moved, after[i], g)
          /\ after[i].offset = slots[i - 1].offset + width
          /\ after[i].nameLen = slots[i - 1].nameLen
          /\ after[i].valueLen = slots[i - 1].valueLen
      BY <2>2, OldIsHeld
    <2> QED BY <2>2, <2>3
  <1>6. Holds(moved, after[0], f)
    BY NewIsHeld
  <1>7. /\ after[0].offset = 0
        /\ after[0].nameLen + after[0].valueLen = width
    <2>1. after[0] = [offset |-> 0, nameLen |-> ByteLen[f.name], valueLen |-> ByteLen[f.value]]
      BY <1>1, <1>2, SlotsMoved
    <2>2. width = ByteLen[f.name] + ByteLen[f.value]
      BY FieldSizes
    <2> QED BY <2>1, <2>2
  <1> HIDE DEF moved, after, width, left
  <1>8. \A k \in 0 .. m : PackedBytes(after, k + 1) = PackedBytes(slots, k) + width
    <2> TAKE k \in 0 .. m
    <2>1. k \in Nat /\ k + 1 # 0 /\ (k + 1) - 1 = k
      BY <1>2
    <2>2. PackedBytes(after, k + 1) = after[k].offset + after[k].nameLen + after[k].valueLen
      BY <2>1 DEF PackedBytes
    <2>3. CASE k = 0
      <3>1. PackedBytes(slots, 0) = 0
        BY DEF PackedBytes
      <3>2. after[0] \in Slot /\ after[0].nameLen \in Nat /\ after[0].valueLen \in Nat
        <4>1. 0 \in 0 .. (SlotCount - 1)
          BY <1>1, <1>2, Sizes
        <4> QED BY <1>4, <4>1, SlotTyped
      <3> QED BY <1>1, <1>7, <2>2, <2>3, <3>1, <3>2
    <2>4. CASE k # 0
      <3>1. k \in 1 .. m /\ k - 1 \in 0 .. (SlotCount - 1)
        BY <1>1, <1>2, <2>1, <2>4, Sizes
      <3>2. PackedBytes(slots, k)
              = slots[k - 1].offset + slots[k - 1].nameLen + slots[k - 1].valueLen
        BY <2>4 DEF PackedBytes
      <3>3. slots[k - 1].offset \in Nat /\ slots[k - 1].nameLen \in Nat
            /\ slots[k - 1].valueLen \in Nat
        BY <1>1, <3>1, SlotTyped
      <3>4. /\ after[k].offset = slots[k - 1].offset + width
            /\ after[k].nameLen = slots[k - 1].nameLen
            /\ after[k].valueLen = slots[k - 1].valueLen
        BY <1>5, <3>1
      <3> QED BY <1>1, <2>2, <3>2, <3>3, <3>4
    <2> QED BY <2>3, <2>4
  <1>9. ASSUME NEW i \in 0 .. ((m + 1) - 1)
        PROVE  after[i].offset = PackedBytes(after, i)
    <2>1. CASE i = 0
      BY <1>7, <2>1 DEF PackedBytes
    <2>2. CASE i # 0
      <3>1. i \in 1 .. m /\ i - 1 \in 0 .. m /\ (i - 1) + 1 = i /\ i - 1 \in 0 .. (n - 1)
        BY <1>2, <2>2
      <3>2. after[i].offset = slots[i - 1].offset + width
        BY <1>5, <3>1
      <3>3. slots[i - 1].offset = PackedBytes(slots, i - 1)
        BY <1>1, <3>1 DEF ArePacked
      <3>4. PackedBytes(after, (i - 1) + 1) = PackedBytes(slots, i - 1) + width
        BY <1>8, <3>1
      <3> QED BY <3>1, <3>2, <3>3, <3>4
    <2> QED BY <2>1, <2>2
  <1>10. /\ left + EntrySize(f) = PackedBytes(after, m + 1) + 32 * (m + 1)
         /\ left + EntrySize(f) <= limit
    <2>1. PackedBytes(after, m + 1) = PackedBytes(slots, m) + width
      BY <1>2, <1>8
    <2> QED BY <1>1, <1>2, <2>1 DEF width
  <1>11. ArePacked(after, m + 1, left + EntrySize(f))
    BY <1>9, <1>10 DEF ArePacked
  <1>12. ASSUME NEW i \in 0 .. ((m + 1) - 1)
         PROVE  \E g \in Fields : Holds(moved, after[i], g)
    <2>1. CASE i = 0
      BY <1>6, <2>1
    <2>2. CASE i # 0
      <3>1. i \in 1 .. m
        BY <1>2, <2>2
      <3> QED BY <1>5, <3>1
    <2> QED BY <2>1, <2>2
  <1>13. m + 1 \in 0 .. SlotCount
    BY <1>1, <1>2, Sizes
  <1>14. Stored(moved, after, m + 1, left + EntrySize(f), limit)
    BY <1>1, <1>3, <1>4, <1>10, <1>11, <1>12, <1>13 DEF Stored
  <1> QED BY <1>14 DEF moved, after, left

-----------------------------------------------------------------------------
\* The tables that the arrays hold, as lists of entries.
List == INSTANCE PackedEntries

\* An entry that the i-th active slot reads as.
ReadsAs(bytes, slots, i, entry) ==
  /\ entry.field \in Fields /\ Holds(bytes, slots[i - 1], entry.field)
  /\ entry.offset = slots[i - 1].offset
  /\ entry = [field |-> entry.field, offset |-> slots[i - 1].offset]

\* What the active slots say, read back.
LEMMA ActiveAre ==
  ASSUME NEW bytes, NEW slots, NEW n, NEW total, NEW limit,
         Stored(bytes, slots, n, total, limit)
  PROVE  /\ ActiveEntries(bytes, slots, n) \in Seq(List!Entry)
         /\ Len(ActiveEntries(bytes, slots, n)) = n
         /\ \A i \in 1 .. n : ReadsAs(bytes, slots, i, ActiveEntries(bytes, slots, n)[i])
  <1> DEFINE Read(i) == CHOOSE f \in Fields : Holds(bytes, slots[i - 1], f)
             active == ActiveEntries(bytes, slots, n)
  <1>1. /\ n \in Nat /\ n <= SlotCount /\ SlotCount \in Nat /\ slots \in SlotArrays
        /\ \A i \in 0 .. (n - 1) : \E f \in Fields : Holds(bytes, slots[i], f)
    BY Sizes DEF Stored
  <1>2. active = [i \in 1 .. n |-> [field |-> Read(i), offset |-> slots[i - 1].offset]]
    BY <1>1 DEF ActiveEntries
  <1>3. ASSUME NEW i \in 1 .. n
        PROVE  /\ Read(i) \in Fields /\ Holds(bytes, slots[i - 1], Read(i))
               /\ slots[i - 1].offset \in Nat
    <2>1. i - 1 \in 0 .. (n - 1) /\ i - 1 \in 0 .. (SlotCount - 1)
      BY <1>1
    <2>2. \E f \in Fields : Holds(bytes, slots[i - 1], f)
      BY <1>1, <2>1
    <2>3. Read(i) \in Fields /\ Holds(bytes, slots[i - 1], Read(i))
      BY <2>2
    <2> QED BY <1>1, <2>1, <2>3, SlotTyped
  <1> HIDE DEF Read, active
  <1>4. ASSUME NEW i \in 1 .. n
        PROVE  /\ active[i] = [field |-> Read(i), offset |-> slots[i - 1].offset]
               /\ active[i].field = Read(i) /\ active[i].offset = slots[i - 1].offset
               /\ active[i] \in List!Entry
    <2>1. active[i] = [field |-> Read(i), offset |-> slots[i - 1].offset]
      BY <1>2
    <2> QED BY <1>3, <2>1 DEF List!Entry, List!Field, Fields
  <1>5. active \in Seq(List!Entry) /\ Len(active) = n
    <2>1. active \in [1 .. n -> List!Entry]
      BY <1>2, <1>4
    <2> QED BY <1>1, <2>1
  <1>6. \A i \in 1 .. n : ReadsAs(bytes, slots, i, active[i])
    BY <1>3, <1>4 DEF ReadsAs
  <1> QED BY <1>5, <1>6 DEF active

\* Of one slot.
LEMMA EntryRead ==
  ASSUME NEW bytes, NEW slots, NEW n, NEW total, NEW limit,
         Stored(bytes, slots, n, total, limit), NEW i \in 1 .. n
  PROVE  /\ ActiveEntries(bytes, slots, n)[i].field \in Fields
         /\ Holds(bytes, slots[i - 1], ActiveEntries(bytes, slots, n)[i].field)
         /\ ActiveEntries(bytes, slots, n)[i].offset = slots[i - 1].offset
  <1>1. ReadsAs(bytes, slots, i, ActiveEntries(bytes, slots, n)[i])
    BY ActiveAre
  <1> QED BY <1>1 DEF ReadsAs

\* The size of the list is what the arrays count.
LEMMA SizesAgree ==
  ASSUME NEW bytes, NEW slots, NEW n, NEW total, NEW limit,
         Stored(bytes, slots, n, total, limit), NEW k \in 0 .. n
  PROVE  /\ List!SizeOf(ActiveEntries(bytes, slots, n), k) = PackedBytes(slots, k) + 32 * k
         /\ PackedBytes(slots, k) + 32 * k \in Nat
  <1> DEFINE active == ActiveEntries(bytes, slots, n)
  <1>1. n \in 0 .. SlotCount /\ SlotCount \in Nat /\ slots \in SlotArrays
    BY Sizes DEF Stored
  <1>2. k \in 0 .. SlotCount /\ k \in Nat
    BY <1>1
  <1>3. PackedBytes(slots, k) \in Nat
    BY <1>1, <1>2, PackedTyped
  <1>4. List!PackedBytes(active, k) = PackedBytes(slots, k)
    <2>1. CASE k = 0
      BY <2>1 DEF List!PackedBytes, PackedBytes
    <2>2. CASE k # 0
      <3>1. k \in 1 .. n /\ k - 1 \in 0 .. (SlotCount - 1)
        BY <1>1, <1>2, <2>2
      <3>2. /\ active[k].field \in Fields
            /\ Holds(bytes, slots[k - 1], active[k].field)
            /\ active[k].offset = slots[k - 1].offset
        BY <3>1, EntryRead
      <3>3. /\ slots[k - 1].nameLen = ByteLen[active[k].field.name]
            /\ slots[k - 1].valueLen = ByteLen[active[k].field.value]
        BY <3>2 DEF Holds
      <3>4. /\ slots[k - 1].offset \in Nat
            /\ slots[k - 1].nameLen \in Nat /\ slots[k - 1].valueLen \in Nat
        BY <1>1, <3>1, SlotTyped
      <3> HIDE DEF active
      <3>5. List!PackedBytes(active, k)
              = active[k].offset
                + (ByteLen[active[k].field.name] + ByteLen[active[k].field.value])
        BY <2>2 DEF List!PackedBytes, List!FieldLen
      <3> QED BY <2>2, <3>2, <3>3, <3>4, <3>5 DEF PackedBytes
    <2> QED BY <2>1, <2>2
  <1> QED BY <1>2, <1>3, <1>4 DEF List!SizeOf, List!EntryOverhead

\* The loop stops where the list's eviction does.
LEMMA RetainsSame ==
  ASSUME NEW bytes, NEW slots, NEW n, NEW total, NEW limit,
         Stored(bytes, slots, n, total, limit), NEW room \in Nat,
         NEW t, t.entries = ActiveEntries(bytes, slots, n),
         NEW m, IsRetained(slots, n, total, m, room)
  PROVE  /\ Len(t.entries) = n
         /\ m \in 0 .. Len(t.entries) /\ List!Retains(t, room, m)
         /\ \A k : List!Retains(t, room, k) => k = m
  <1>1. n \in 0 .. SlotCount /\ slots \in SlotArrays /\ ArePacked(slots, n, total) /\ n \in Nat
    BY Sizes DEF Stored
  <1>2. /\ m \in 0 .. n /\ m \in Nat
        /\ PackedBytes(slots, m) + 32 * m <= room
        /\ \A k \in (m + 1) .. n : PackedBytes(slots, k) + 32 * k > room
    BY <1>1, RetainedIs
  <1>3. Len(t.entries) = n
    BY ActiveAre
  <1>4. \A k \in 0 .. n : /\ List!SizeOf(t.entries, k) = PackedBytes(slots, k) + 32 * k
                          /\ List!SizeOf(t.entries, k) \in Nat
    BY SizesAgree
  <1>5. \A k \in (m + 1) .. n : k \in 0 .. n
    BY <1>2
  <1>6. List!Retains(t, room, m)
    BY <1>2, <1>3, <1>4, <1>5 DEF List!Retains
  <1>7. ASSUME NEW k, List!Retains(t, room, k) PROVE k = m
    <2>1. /\ k \in 0 .. n /\ List!SizeOf(t.entries, k) <= room
          /\ \A j \in (k + 1) .. n : List!SizeOf(t.entries, j) > room
      BY <1>3, <1>7 DEF List!Retains
    <2>2. ~ (m < k)
      <3>1. SUFFICES ASSUME m < k PROVE FALSE
        OBVIOUS
      <3>2. k \in (m + 1) .. n
        BY <1>1, <1>2, <2>1, <3>1
      <3> QED BY <1>2, <1>4, <2>1, <3>2
    <2>3. ~ (k < m)
      <3>1. SUFFICES ASSUME k < m PROVE FALSE
        OBVIOUS
      <3>2. m \in (k + 1) .. n
        BY <1>1, <1>2, <2>1, <3>1
      <3> QED BY <1>2, <1>4, <2>1, <3>2
    <2> QED BY <1>1, <1>2, <2>1, <2>2, <2>3
  <1> QED BY <1>2, <1>3, <1>6, <1>7

\* After an eviction the list is cut.
LEMMA CutActive ==
  ASSUME NEW bytes, NEW slots, NEW n, NEW total, NEW limit,
         Stored(bytes, slots, n, total, limit), NEW m \in 0 .. n
  PROVE  ActiveEntries(bytes, slots, m) = SubSeq(ActiveEntries(bytes, slots, n), 1, m)
  <1> DEFINE Read(i) == CHOOSE f \in Fields : Holds(bytes, slots[i - 1], f)
             active == ActiveEntries(bytes, slots, n)
             cut == ActiveEntries(bytes, slots, m)
             Item(i) == [field |-> Read(i), offset |-> slots[i - 1].offset]
  <1>1. /\ n \in Nat /\ m \in Nat /\ m <= n
        /\ \A i \in 0 .. (n - 1) : \E f \in Fields : Holds(bytes, slots[i], f)
    BY Sizes DEF Stored
  <1>2. \A i \in 0 .. (m - 1) : i \in 0 .. (n - 1)
    BY <1>1
  <1>3. active = [i \in 1 .. n |-> Item(i)] /\ cut = [i \in 1 .. m |-> Item(i)]
    BY <1>1, <1>2 DEF ActiveEntries
  <1>4. active \in Seq(List!Entry) /\ Len(active) = n
    BY ActiveAre
  <1> HIDE DEF active, cut, Item
  <1>5. SubSeq(active, 1, m) = [i \in 1 .. m |-> active[i]]
    BY <1>1, <1>4
  <1>6. \A i \in 1 .. m : active[i] = Item(i)
    BY <1>1, <1>3
  <1>7. cut = SubSeq(active, 1, m)
    BY <1>3, <1>5, <1>6
  <1> QED BY <1>7 DEF active, cut

\* After an insertion it has the new field in front.
LEMMA PushedActive ==
  ASSUME NEW bytes, NEW slots, NEW n, NEW total, NEW limit,
         Stored(bytes, slots, n, total, limit),
         NEW f \in Fields, EntrySize(f) <= limit, NEW m,
         IsRetained(slots, n, total, m, limit - EntrySize(f))
  PROVE  ActiveEntries(StorageWith(bytes, slots, m, f), SlotsWith(slots, m, f), m + 1)
           = List!Pushed(ActiveEntries(bytes, slots, n), f, m)
  <1> DEFINE active == ActiveEntries(bytes, slots, n)
             moved == StorageWith(bytes, slots, m, f)
             after == SlotsWith(slots, m, f)
             result == ActiveEntries(moved, after, m + 1)
             width == EntrySize(f) - 32
  <1>1. /\ slots \in SlotArrays /\ n \in 0 .. SlotCount /\ ArePacked(slots, n, total)
        /\ limit - EntrySize(f) \in Nat /\ m + 1 <= SlotCount
    <2>1. limit - EntrySize(f) \in Nat /\ m + 1 <= SlotCount
      BY EntryFits
    <2> QED BY <2>1 DEF Stored
  <1>2. m \in 0 .. n /\ m \in Nat /\ n \in Nat
    BY <1>1, RetainedIs, Sizes
  <1>3. Stored(moved, after, m + 1, SizeWith(slots, n, total, m) + EntrySize(f), limit)
    BY InsertedStored
  <1>4. width = List!FieldLen(f)
    BY FieldSizes DEF List!FieldLen
  <1>5. after[0].offset = 0
    <2>1. after[0] = [offset |-> 0, nameLen |-> ByteLen[f.name], valueLen |-> ByteLen[f.value]]
      BY <1>1, <1>2, SlotsMoved
    <2> QED BY <2>1
  <1>6. Holds(moved, after[0], f)
    BY NewIsHeld
  <1>7. ASSUME NEW i \in 1 .. m
        PROVE  /\ Holds(moved, after[i], active[i].field)
               /\ after[i].offset = active[i].offset + width
    <2>1. i \in 1 .. n
      BY <1>2
    <2>2. /\ active[i].field \in Fields
          /\ Holds(bytes, slots[i - 1], active[i].field)
          /\ active[i].offset = slots[i - 1].offset
      BY <2>1, EntryRead
    <2> DEFINE g == active[i].field
    <2>3. g \in Fields /\ Holds(bytes, slots[i - 1], g)
      BY <2>2
    <2> HIDE DEF g
    <2>4. /\ Holds(moved, after[i], g)
          /\ after[i].offset = slots[i - 1].offset + width
      BY <2>3, OldIsHeld
    <2> QED BY <2>2, <2>4 DEF g
  <1>8. /\ result \in Seq(List!Entry) /\ Len(result) = m + 1
        /\ \A i \in 1 .. (m + 1) :
             /\ result[i].field \in Fields
             /\ Holds(moved, after[i - 1], result[i].field)
             /\ result[i] = [field |-> result[i].field, offset |-> after[i - 1].offset]
    <2>1. /\ result \in Seq(List!Entry) /\ Len(result) = m + 1
          /\ \A i \in 1 .. (m + 1) : ReadsAs(moved, after, i, result[i])
      BY <1>3, ActiveAre
    <2> HIDE DEF result
    <2> QED BY <2>1 DEF ReadsAs
  <1>9. \A i \in 1 .. n : active[i].field \in Fields
    BY EntryRead
  <1> HIDE DEF active, moved, after, result, width
  <1>10. ASSUME NEW i \in 1 .. (m + 1)
         PROVE  result[i] = List!Pushed(active, f, m)[i]
    <2>1. CASE i = 1
      <3>1. i - 1 = 0
        BY <2>1
      <3>2. result[i].field = f
        BY <1>6, <1>8, <3>1, HoldsOne
      <3>3. List!Pushed(active, f, m)[i] = [field |-> f, offset |-> 0]
        BY <2>1 DEF List!Pushed
      <3> QED BY <1>5, <1>8, <3>1, <3>2, <3>3
    <2>2. CASE i # 1
      <3>1. i - 1 \in 1 .. m /\ i - 1 \in 1 .. n
        BY <1>2, <2>2
      <3>2. result[i].field = active[i - 1].field
        BY <1>7, <1>8, <1>9, <3>1, HoldsOne
      <3>3. List!Pushed(active, f, m)[i]
              = [field  |-> active[i - 1].field,
                 offset |-> active[i - 1].offset + List!FieldLen(f)]
        BY <2>2 DEF List!Pushed
      <3>4. after[i - 1].offset = active[i - 1].offset + width
        BY <1>7, <3>1
      <3> QED BY <1>4, <1>8, <3>2, <3>3, <3>4
    <2> QED BY <2>1, <2>2
  <1>11. result = [i \in 1 .. (m + 1) |-> result[i]]
    BY <1>2, <1>8
  <1>12. List!Pushed(active, f, m) = [i \in 1 .. (m + 1) |-> List!Pushed(active, f, m)[i]]
    BY DEF List!Pushed
  <1>13. result = List!Pushed(active, f, m)
    BY <1>10, <1>11, <1>12
  <1> QED BY <1>13 DEF active, moved, after, result

-----------------------------------------------------------------------------
\* QPACK's table.
TableInv == Stored(storage, entries, len, size, capacity)

LEMMA TableInitially == TableInit => TableInv
  <1> SUFFICES ASSUME TableInit PROVE TableInv
    OBVIOUS
  <1>1. StorageLen \in Nat /\ SlotCount \in Nat /\ StorageCapacity \in Nat
    BY Sizes
  <1>2. EmptySlots \in SlotArrays
    BY DEF EmptySlots, SlotArrays, EmptySlot, Slot
  <1>3. DOMAIN EmptyStorage = 0 .. (StorageLen - 1)
    BY DEF EmptyStorage
  <1>4. ArePacked(EmptySlots, 0, 0)
    BY DEF ArePacked, PackedBytes
  <1>5. 0 .. (0 - 1) = {}
    OBVIOUS
  <1> QED BY <1>1, <1>2, <1>3, <1>4, <1>5 DEF TableInit, TableInv, Stored

LEMMA TableStep == TableInv /\ [TableNext]_tableVars => TableInv'
  <1> SUFFICES ASSUME TableInv, [TableNext]_tableVars PROVE TableInv'
    OBVIOUS
  <1>1. ASSUME NEW c \in Capacities, SetCapacity(c) PROVE TableInv'
    <2>1. c \in 0 .. StorageCapacity
      BY <1>1, DynamicTableAssumption, Sizes DEF SetCapacity
    <2>2. PICK n \in 0 .. len : /\ IsRetained(entries, len, size, n, c)
                                /\ len' = n /\ size' = SizeWith(entries, len, size, n)
      BY <1>1 DEF SetCapacity
    <2>3. Stored(storage, entries, n, SizeWith(entries, len, size, n), c)
      BY <2>1, <2>2, CutStored DEF TableInv
    <2>4. storage' = storage /\ entries' = entries /\ capacity' = c
      BY <1>1 DEF SetCapacity
    <2> QED BY <2>2, <2>3, <2>4 DEF TableInv
  <1>2. ASSUME NEW f \in Fields, Insert(f) PROVE TableInv'
    <2>1. EntrySize(f) <= capacity /\ capacity' = capacity
      BY <1>2 DEF Insert
    <2>2. PICK n \in 0 .. len :
             /\ IsRetained(entries, len, size, n, capacity - EntrySize(f))
             /\ storage' = StorageWith(storage, entries, n, f)
             /\ entries' = SlotsWith(entries, n, f)
             /\ len' = n + 1
             /\ size' = SizeWith(entries, len, size, n) + EntrySize(f)
      BY <1>2 DEF Insert
    <2>3. Stored(StorageWith(storage, entries, n, f), SlotsWith(entries, n, f), n + 1,
                 SizeWith(entries, len, size, n) + EntrySize(f), capacity)
      BY <2>1, <2>2, InsertedStored DEF TableInv
    <2> QED BY <2>1, <2>2, <2>3 DEF TableInv
  <1>3. CASE UNCHANGED tableVars
    BY <1>3 DEF tableVars, TableInv, Stored
  <1> QED BY <1>1, <1>2, <1>3 DEF TableNext

\* The table may always be read, and takes any entry that its capacity admits.
LEMMA TableMeans == TableInv => InsertionsFit
  <1> SUFFICES ASSUME TableInv PROVE InsertionsFit
    OBVIOUS
  <1>1. /\ entries \in SlotArrays /\ len \in 0 .. SlotCount /\ ArePacked(entries, len, size)
        /\ size <= capacity /\ Stored(storage, entries, len, size, capacity)
        /\ capacity \in Nat
    BY Sizes DEF TableInv, Stored
  <1>2. ASSUME NEW f \in Fields, EntrySize(f) <= capacity
        PROVE  \E n \in 0 .. len :
                  /\ IsRetained(entries, len, size, n, capacity - EntrySize(f))
                  /\ PackedBytes(entries, n) + EntrySize(f) - 32 <= StorageLen
                  /\ n + 1 <= SlotCount
    <2>1. capacity - EntrySize(f) \in Nat
      BY <1>1, <1>2, FieldSizes
    <2>2. PICK n \in 0 .. len : IsRetained(entries, len, size, n, capacity - EntrySize(f))
      BY <1>1, <2>1, RetainedExists
    <2>3. PackedBytes(entries, n) + EntrySize(f) - 32 <= StorageLen /\ n + 1 <= SlotCount
      BY <1>1, <1>2, <2>2, EntryFits
    <2> QED BY <2>2, <2>3
  <1> QED BY <1>1, <1>2 DEF InsertionsFit, HasRoom

\* However often entries are inserted and evicted, in arrays of any lengths, the active ones
\* lie one behind the other within the capacity, and an entry that it admits finds
\* room for its bytes and its slot.
THEOREM InsertionsAlwaysFit == TableSpec => []InsertionsFit
  <1> QED BY TableInitially, TableStep, TableMeans, PTL DEF TableSpec

\* A step of the arrays is a step of the table.
LEMMA TableStepMaps ==
  ASSUME TableInv, TableNext
  PROVE  History!Next
  <1> DEFINE active == ActiveEntries(storage, entries, len)
             table == [entries |-> active, capacity |-> capacity, insertCount |-> tableInserts]
  <1>1. /\ Stored(storage, entries, len, size, capacity)
        /\ capacity \in Nat
    BY Sizes DEF TableInv, Stored
  <1>2. ASSUME NEW c \in Capacities, SetCapacity(c) PROVE History!SetCapacity
    <2>1. c \in Nat /\ capacity' = c /\ tableInserts' = tableInserts
          /\ storage' = storage /\ entries' = entries
      BY <1>2, DynamicTableAssumption DEF SetCapacity
    <2>2. PICK n \in 0 .. len : IsRetained(entries, len, size, n, c) /\ len' = n
      BY <1>2 DEF SetCapacity
    <2>3. /\ n \in 0 .. Len(table.entries) /\ List!Retains(table, c, n)
      BY <1>1, <2>1, <2>2, RetainsSame
    <2>4. active' = SubSeq(active, 1, n)
      BY <1>1, <2>1, <2>2, CutActive
    <2>5. History!CanSetCapacity(table, c, n)
      BY <2>3 DEF History!CanSetCapacity, History!Retains, List!Retains, History!SizeOf,
                  List!SizeOf, History!PackedBytes, List!PackedBytes, History!FieldLen,
                  List!FieldLen, History!EntryOverhead, List!EntryOverhead
    <2>6. table' = History!WithCapacity(table, c, n)
      BY <2>1, <2>4 DEF History!WithCapacity
    <2>7. table'.capacity = c
      BY <2>1
    <2> QED BY <2>1, <2>3, <2>5, <2>6, <2>7 DEF History!SetCapacity
  <1>3. ASSUME NEW f \in Fields, Insert(f) PROVE History!Insert(f)
    <2>1. EntrySize(f) <= capacity /\ capacity' = capacity /\ tableInserts' = tableInserts + 1
      BY <1>3 DEF Insert
    <2>2. PICK n \in 0 .. len :
             /\ IsRetained(entries, len, size, n, capacity - EntrySize(f))
             /\ storage' = StorageWith(storage, entries, n, f)
             /\ entries' = SlotsWith(entries, n, f)
             /\ len' = n + 1
      BY <1>3 DEF Insert
    <2>3. capacity - EntrySize(f) \in Nat
      BY <1>1, <2>1, FieldSizes
    <2>4. /\ n \in 0 .. Len(table.entries)
          /\ List!Retains(table, capacity - EntrySize(f), n)
      BY <1>1, <2>2, <2>3, RetainsSame
    <2>5. active' = List!Pushed(active, f, n)
      BY <1>1, <2>1, <2>2, PushedActive
    <2>6. History!EntrySize(f) = EntrySize(f)
      BY FieldSizes DEF History!EntrySize, History!FieldLen, History!EntryOverhead
    <2>7. History!Retains(table, capacity - EntrySize(f), n)
      BY <2>4 DEF History!Retains, List!Retains, History!SizeOf,
                  List!SizeOf, History!PackedBytes, List!PackedBytes, History!FieldLen,
                  List!FieldLen, History!EntryOverhead, List!EntryOverhead
    <2>8. History!CanInsert(table, f, n)
      BY <2>1, <2>6, <2>7 DEF History!CanInsert
    <2>9. History!Pushed(active, f, n) = List!Pushed(active, f, n)
      BY DEF History!Pushed, List!Pushed, History!FieldLen, List!FieldLen
    <2>10. table' = History!WithInserted(table, f, n)
      BY <2>1, <2>5, <2>9 DEF History!WithInserted
    <2> QED BY <2>4, <2>8, <2>10 DEF History!Insert
  <1>4. Fields = History!Field
    BY DEF Fields, History!Field
  <1> QED BY <1>2, <1>3, <1>4 DEF TableNext, History!Next

\* The arrays implement the table (`ImplementsTable`): what a lookup finds between the bounds
\* of an active slot is the field that was inserted, whatever moved in between.
THEOREM QpackArraysImplementTable == TableSpec => ImplementsTable
  <1>1. TableInit => History!Init
    <2> SUFFICES ASSUME TableInit PROVE History!Init
      OBVIOUS
    <2>1. ActiveEntries(storage, entries, 0) \in Seq(List!Entry)
          /\ Len(ActiveEntries(storage, entries, 0)) = 0
      BY TableInitially, ActiveAre DEF TableInit, TableInv
    <2>2. ActiveEntries(storage, entries, 0) = << >>
      BY <2>1
    <2> QED BY <2>2 DEF TableInit, History!Init, History!EmptyTable
  <1>2. TableInv /\ [TableNext]_tableVars =>
          [History!Next]_[entries |-> ActiveEntries(storage, entries, len),
                          capacity |-> capacity, insertCount |-> tableInserts]
    <2>1. ASSUME UNCHANGED tableVars
          PROVE  UNCHANGED [entries |-> ActiveEntries(storage, entries, len),
                            capacity |-> capacity, insertCount |-> tableInserts]
      BY <2>1 DEF tableVars, ActiveEntries, Holds
    <2> QED BY <2>1, TableStepMaps
  <1> QED BY <1>1, <1>2, TableInitially, TableStep, PTL DEF TableSpec, ImplementsTable, History!Spec

-----------------------------------------------------------------------------
\* HPACK's table is stored in the same way, but a field that is larger than the table clears it.
Hpack ==
  INSTANCE HpackDynamicTable WITH
    count <- len, maximum <- capacity, Maxima <- Capacities

\* It is made of the same operators.
LEMMA SameArrays ==
  ASSUME NEW bytes, NEW slots, NEW n, NEW total, NEW m, NEW f, NEW room
  PROVE  /\ Hpack!EntrySize(f) = EntrySize(f)
         /\ Hpack!SizeWith(slots, n, total, m) = SizeWith(slots, n, total, m)
         /\ Hpack!StorageWith(bytes, slots, m, f) = StorageWith(bytes, slots, m, f)
         /\ Hpack!SlotsWith(slots, m, f) = SlotsWith(slots, m, f)
         /\ Hpack!ActiveEntries(bytes, slots, n) = ActiveEntries(bytes, slots, n)
         /\ Hpack!StorageCapacity = StorageCapacity
         /\ Hpack!Fields = Fields
         /\ Hpack!IsRetained(slots, n, total, m, room) = IsRetained(slots, n, total, m, room)
  BY DEF Hpack!EntrySize, EntrySize, Hpack!SizeWith, SizeWith, Hpack!StorageWith, StorageWith,
         Hpack!SlotsWith, SlotsWith, Hpack!ActiveEntries, ActiveEntries, Hpack!StorageCapacity,
         StorageCapacity, Hpack!Fields, Fields, Hpack!IsRetained, IsRetained, Hpack!MovedUp,
         MovedUp, Hpack!PackedBytes, PackedBytes, Hpack!FieldBytes, FieldBytes, Hpack!BytesOf,
         BytesOf, Hpack!Holds, Holds, Hpack!EntrySizeFromSlot, EntrySizeFromSlot

\* And it promises to evict in the same way.
LEMMA SameEvictions ==
  ASSUME NEW t, NEW room, NEW f, NEW n
  PROVE  /\ Hpack!History!Retains(t, room, n) <=> List!Retains(t, room, n)
         /\ Hpack!History!Pushed(t.entries, f, n) = List!Pushed(t.entries, f, n)
  BY DEF Hpack!History!Retains, List!Retains, Hpack!History!SizeOf, List!SizeOf,
         Hpack!History!PackedBytes, List!PackedBytes, Hpack!History!FieldLen, List!FieldLen,
         Hpack!History!EntryOverhead, List!EntryOverhead, Hpack!History!Pushed, List!Pushed

LEMMA HpackInit == Hpack!Init => TableInv
  <1> SUFFICES ASSUME Hpack!Init PROVE TableInv
    OBVIOUS
  <1>1. /\ storage = EmptyStorage /\ entries = EmptySlots /\ len = 0 /\ size = 0
        /\ capacity \in 0 .. StorageCapacity
    BY DynamicTableAssumption, Sizes, SameArrays
       DEF Hpack!Init, Hpack!EmptyStorage, EmptyStorage, Hpack!EmptySlots, EmptySlots,
           Hpack!EmptySlot, EmptySlot, Hpack!NoByte, NoByte
  <1>2. StorageLen \in Nat /\ SlotCount \in Nat
    BY Sizes
  <1>3. EmptySlots \in SlotArrays
    BY DEF EmptySlots, SlotArrays, EmptySlot, Slot
  <1>4. DOMAIN EmptyStorage = 0 .. (StorageLen - 1)
    BY DEF EmptyStorage
  <1>5. ArePacked(EmptySlots, 0, 0)
    BY DEF ArePacked, PackedBytes
  <1>6. 0 .. (0 - 1) = {} /\ 0 <= capacity
    BY <1>1, Sizes
  <1> QED BY <1>1, <1>2, <1>3, <1>4, <1>5, <1>6 DEF TableInv, Stored

\* Clearing leaves nothing, and everything in its place.
LEMMA ClearedStored ==
  ASSUME NEW bytes, NEW slots, NEW n, NEW total, NEW limit,
         Stored(bytes, slots, n, total, limit)
  PROVE  Stored(bytes, slots, 0, 0, limit)
  <1>1. ArePacked(slots, 0, 0)
    BY DEF ArePacked, PackedBytes
  <1>2. 0 \in 0 .. SlotCount /\ 0 .. (0 - 1) = {} /\ 0 <= limit
    BY Sizes DEF Stored
  <1> QED BY <1>1, <1>2 DEF Stored

LEMMA NoneActive ==
  ASSUME NEW bytes, NEW slots, NEW n, NEW total, NEW limit,
         Stored(bytes, slots, n, total, limit)
  PROVE  ActiveEntries(bytes, slots, 0) = << >>
  <1>1. Stored(bytes, slots, 0, 0, limit)
    BY ClearedStored
  <1>2. /\ ActiveEntries(bytes, slots, 0) \in Seq(List!Entry)
        /\ Len(ActiveEntries(bytes, slots, 0)) = 0
    BY <1>1, ActiveAre
  <1> QED BY <1>2

\* What the actions do, in the operators that the lemmas above are about.
LEMMA HpackSteps ==
  /\ Hpack!Clear => /\ len' = 0 /\ size' = 0
                    /\ UNCHANGED <<storage, entries, capacity>>
  /\ \A c : Hpack!SetMaximum(c) =>
        /\ c <= StorageCapacity /\ capacity' = c /\ UNCHANGED <<storage, entries>>
        /\ \E n \in 0 .. len : /\ IsRetained(entries, len, size, n, c)
                               /\ len' = n /\ size' = SizeWith(entries, len, size, n)
  /\ \A f : Hpack!Insert(f) =>
        \/ EntrySize(f) > capacity /\ Hpack!Clear
        \/ /\ EntrySize(f) <= capacity /\ capacity' = capacity
           /\ \E n \in 0 .. len :
                /\ IsRetained(entries, len, size, n, capacity - EntrySize(f))
                /\ storage' = StorageWith(storage, entries, n, f)
                /\ entries' = SlotsWith(entries, n, f)
                /\ len' = n + 1
                /\ size' = SizeWith(entries, len, size, n) + EntrySize(f)
  <1>1. Hpack!Clear => /\ len' = 0 /\ size' = 0
                       /\ UNCHANGED <<storage, entries, capacity>>
    BY DEF Hpack!Clear
  <1>2. ASSUME NEW c, Hpack!SetMaximum(c)
        PROVE  /\ c <= StorageCapacity /\ capacity' = c /\ UNCHANGED <<storage, entries>>
               /\ \E n \in 0 .. len : /\ IsRetained(entries, len, size, n, c)
                                      /\ len' = n /\ size' = SizeWith(entries, len, size, n)
    BY <1>2, SameArrays DEF Hpack!SetMaximum
  <1>3. ASSUME NEW f, Hpack!Insert(f), ~ (EntrySize(f) > capacity /\ Hpack!Clear)
        PROVE  /\ EntrySize(f) <= capacity /\ capacity' = capacity
               /\ \E n \in 0 .. len :
                    /\ IsRetained(entries, len, size, n, capacity - EntrySize(f))
                    /\ storage' = StorageWith(storage, entries, n, f)
                    /\ entries' = SlotsWith(entries, n, f)
                    /\ len' = n + 1
                    /\ size' = SizeWith(entries, len, size, n) + EntrySize(f)
    BY <1>3, SameArrays DEF Hpack!Insert
  <1> QED BY <1>1, <1>2, <1>3

LEMMA HpackStep == TableInv /\ [Hpack!Next]_(Hpack!vars) => TableInv'
  <1> SUFFICES ASSUME TableInv, [Hpack!Next]_(Hpack!vars) PROVE TableInv'
    OBVIOUS
  <1>1. ASSUME Hpack!Clear PROVE TableInv'
    <2>1. Stored(storage, entries, 0, 0, capacity)
      BY ClearedStored DEF TableInv
    <2> QED BY <1>1, <2>1, HpackSteps DEF TableInv
  <1>2. ASSUME NEW c \in Capacities, Hpack!SetMaximum(c) PROVE TableInv'
    <2>1. c <= StorageCapacity /\ capacity' = c /\ storage' = storage /\ entries' = entries
      BY <1>2, HpackSteps
    <2>2. PICK n \in 0 .. len : /\ IsRetained(entries, len, size, n, c)
                                /\ len' = n /\ size' = SizeWith(entries, len, size, n)
      BY <1>2, HpackSteps
    <2>3. c \in 0 .. StorageCapacity
      BY <2>1, DynamicTableAssumption, Sizes
    <2>4. Stored(storage, entries, n, SizeWith(entries, len, size, n), c)
      BY <2>2, <2>3, CutStored DEF TableInv
    <2> QED BY <2>1, <2>2, <2>4 DEF TableInv
  <1>3. ASSUME NEW f \in Fields, Hpack!Insert(f) PROVE TableInv'
    <2>1. CASE Hpack!Clear
      BY <1>1, <2>1
    <2>2. CASE ~ Hpack!Clear
      <3>1. EntrySize(f) <= capacity /\ capacity' = capacity
        BY <1>3, <2>2, HpackSteps
      <3>2. PICK n \in 0 .. len :
               /\ IsRetained(entries, len, size, n, capacity - EntrySize(f))
               /\ storage' = StorageWith(storage, entries, n, f)
               /\ entries' = SlotsWith(entries, n, f)
               /\ len' = n + 1
               /\ size' = SizeWith(entries, len, size, n) + EntrySize(f)
        BY <1>3, <2>2, HpackSteps
      <3>3. Stored(StorageWith(storage, entries, n, f), SlotsWith(entries, n, f), n + 1,
                   SizeWith(entries, len, size, n) + EntrySize(f), capacity)
        BY <3>1, <3>2, InsertedStored DEF TableInv
      <3> QED BY <3>1, <3>2, <3>3 DEF TableInv
    <2> QED BY <2>1, <2>2
  <1>4. CASE UNCHANGED Hpack!vars
    BY <1>4 DEF Hpack!vars, TableInv, Stored
  <1> QED BY <1>1, <1>2, <1>3, <1>4, SameArrays DEF Hpack!Next

\* What Hpack!History calls its table.
HpackTable == [entries |-> ActiveEntries(storage, entries, len), maximum |-> capacity]

LEMMA HpackStepMaps ==
  ASSUME TableInv, Hpack!Next
  PROVE  Hpack!History!Next
  <1> DEFINE active == ActiveEntries(storage, entries, len)
  <1>1. /\ Stored(storage, entries, len, size, capacity)
        /\ capacity \in Nat
    BY Sizes DEF TableInv, Stored
  <1>2. /\ Hpack!ActiveEntries(storage, entries, len) = active
        /\ Hpack!ActiveEntries(storage, entries, len)' = active'
    BY SameArrays
  <1>3. HpackTable.entries = active /\ HpackTable.maximum = capacity
        /\ HpackTable' = [entries |-> active', maximum |-> capacity']
    BY DEF HpackTable
  <1>4. ASSUME Hpack!Clear
        PROVE  active' = << >> /\ capacity' = capacity
    <2>1. ActiveEntries(storage, entries, 0) = << >>
      BY <1>1, NoneActive
    <2> QED BY <1>4, <2>1, HpackSteps
  <1>5. ASSUME Hpack!Clear PROVE Hpack!History!Clear
    BY <1>2, <1>4, <1>5 DEF Hpack!History!Clear, Hpack!History!EmptyTable
  <1>6. ASSUME NEW c \in Capacities, Hpack!SetMaximum(c) PROVE Hpack!History!SetMaximum
    <2>1. c \in Nat /\ capacity' = c /\ storage' = storage /\ entries' = entries
      BY <1>6, HpackSteps, DynamicTableAssumption
    <2>2. PICK n \in 0 .. len : IsRetained(entries, len, size, n, c) /\ len' = n
      BY <1>6, HpackSteps
    <2>3. /\ n \in 0 .. Len(HpackTable.entries)
          /\ List!Retains(HpackTable, c, n)
          /\ \A k : List!Retains(HpackTable, c, k) => k = n
      BY <1>1, <1>3, <2>1, <2>2, RetainsSame
    <2>4. Hpack!History!Kept(HpackTable, c) = n
      BY <2>3, SameEvictions DEF Hpack!History!Kept
    <2>5. active' = SubSeq(active, 1, n)
      BY <1>1, <2>1, <2>2, CutActive
    <2>6. HpackTable' = Hpack!History!WithMaximum(HpackTable, c)
      BY <1>3, <2>1, <2>4, <2>5 DEF Hpack!History!WithMaximum
    <2>7. /\ [entries |-> Hpack!ActiveEntries(storage, entries, len), maximum |-> capacity]
               = HpackTable
          /\ [entries |-> Hpack!ActiveEntries(storage, entries, len), maximum |-> capacity]'
               = HpackTable'
      BY <1>2 DEF HpackTable
    <2>8. HpackTable'.maximum = c
      BY <1>3, <2>1
    <2> HIDE DEF active
    <2> QED BY <2>1, <2>6, <2>7, <2>8 DEF Hpack!History!SetMaximum
  <1>7. ASSUME NEW f \in Fields, Hpack!Insert(f), EntrySize(f) <= capacity
        PROVE  Hpack!History!Insert(f)
    <2>1. ~ (EntrySize(f) > capacity)
      BY <1>1, <1>7, FieldSizes
    <2>2. capacity' = capacity
      BY <1>7, <2>1, HpackSteps
    <2>3. PICK n \in 0 .. len :
             /\ IsRetained(entries, len, size, n, capacity - EntrySize(f))
             /\ storage' = StorageWith(storage, entries, n, f)
             /\ entries' = SlotsWith(entries, n, f)
             /\ len' = n + 1
      BY <1>7, <2>1, HpackSteps
    <2>4. capacity - EntrySize(f) \in Nat
      BY <1>1, <1>7, FieldSizes
    <2>5. /\ n \in 0 .. Len(HpackTable.entries)
          /\ List!Retains(HpackTable, capacity - EntrySize(f), n)
          /\ \A k : List!Retains(HpackTable, capacity - EntrySize(f), k) => k = n
      BY <1>1, <1>3, <2>3, <2>4, RetainsSame
    <2>6. Hpack!History!Kept(HpackTable, capacity - EntrySize(f)) = n
      BY <2>5, SameEvictions DEF Hpack!History!Kept
    <2>7. active' = List!Pushed(active, f, n)
      BY <1>1, <1>7, <2>3, PushedActive
    <2>8. Hpack!History!EntrySize(f) = EntrySize(f)
      BY FieldSizes DEF Hpack!History!EntrySize, Hpack!History!FieldLen,
                        Hpack!History!EntryOverhead
    <2>9. Hpack!History!Pushed(active, f, n) = active'
      BY <1>3, <2>7, SameEvictions
    <2>10. HpackTable' = Hpack!History!WithInserted(HpackTable, f)
      <3> HIDE DEF active
      <3> QED BY <1>3, <2>1, <2>2, <2>6, <2>8, <2>9 DEF Hpack!History!WithInserted
    <2> QED BY <1>2, <2>10 DEF Hpack!History!Insert, HpackTable
  <1>8. ASSUME NEW f \in Fields, Hpack!Insert(f), ~ (EntrySize(f) <= capacity)
        PROVE  Hpack!History!Insert(f)
    <2>1. EntrySize(f) > capacity /\ Hpack!Clear
      BY <1>1, <1>8, HpackSteps, FieldSizes
    <2>2. Hpack!History!EntrySize(f) = EntrySize(f)
      BY FieldSizes DEF Hpack!History!EntrySize, Hpack!History!FieldLen,
                        Hpack!History!EntryOverhead
    <2>3. HpackTable' = Hpack!History!WithInserted(HpackTable, f)
      BY <1>3, <1>4, <2>1, <2>2 DEF Hpack!History!WithInserted
    <2> QED BY <1>2, <2>3 DEF Hpack!History!Insert, HpackTable
  <1>9. Hpack!History!Field = Fields /\ Hpack!Fields = Fields
    BY SameArrays DEF Fields, Hpack!History!Field
  <1> QED BY <1>5, <1>6, <1>7, <1>8, <1>9 DEF Hpack!Next, Hpack!History!Next

\* HPACK's arrays implement its table (`ImplementsTable` of HpackDynamicTable) with whatever
\* maxima, and fields that clear it, in between.
THEOREM HpackArraysImplementTable == Hpack!Spec => Hpack!ImplementsTable
  <1>1. Hpack!Init => Hpack!History!Init
    <2> SUFFICES ASSUME Hpack!Init PROVE Hpack!History!Init
      OBVIOUS
    <2>1. Stored(storage, entries, len, size, capacity) /\ capacity \in Nat
      BY HpackInit, Sizes DEF TableInv, Stored
    <2>2. ActiveEntries(storage, entries, 0) = << >>
      BY <2>1, NoneActive
    <2>3. Hpack!ActiveEntries(storage, entries, len) = << >>
      BY <2>2, SameArrays DEF Hpack!Init
    <2> QED BY <2>1, <2>3 DEF Hpack!History!Init, Hpack!History!EmptyTable
  <1>2. TableInv /\ [Hpack!Next]_(Hpack!vars) =>
          [Hpack!History!Next]_[entries |-> Hpack!ActiveEntries(storage, entries, len),
                                maximum |-> capacity]
    <2>1. ASSUME UNCHANGED Hpack!vars
          PROVE  UNCHANGED [entries |-> Hpack!ActiveEntries(storage, entries, len),
                            maximum |-> capacity]
      BY <2>1 DEF Hpack!vars, Hpack!ActiveEntries, Hpack!Holds
    <2> QED BY <2>1, HpackStepMaps
  <1> QED
    BY <1>1, <1>2, HpackInit, HpackStep, PTL
       DEF Hpack!Spec, Hpack!ImplementsTable, Hpack!History!Spec

=============================================================================

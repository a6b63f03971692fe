------------------------ MODULE HpackConnection_proofs ------------------------
(***************************************************************************)
(* Two HPACK contexts of one direction stay together: the decoder never    *)
(* fails, goes through the contexts that the encoder went through and      *)
(* reads the fields that were meant, in order.                             *)
(***************************************************************************)
EXTENDS HpackConnection, SequenceTheorems, WellFoundedInduction, TLAPS

-----------------------------------------------------------------------------
(* Packed lists of entries: evicting the oldest entries always succeeds, in *)
(* one way, and both an eviction and an insertion leave a packed list.      *)

\* Lengths and sizes of fields are counts.
LEMMA FieldLenType ==
  ASSUME NEW f \in Field
  PROVE  /\ FieldLen(f) \in Nat
         /\ EntrySize(f) \in Nat
         /\ EntrySize(f) = FieldLen(f) + 32
  <1>1. f.name \in Names \union Values /\ f.value \in Names \union Values
    BY DEF Field
  <1>2. ByteLen[f.name] \in Nat /\ ByteLen[f.value] \in Nat
    BY <1>1, ByteLenAssumption
  <1> QED
    BY <1>2 DEF FieldLen, EntrySize, EntryOverhead

\* What the parts of a list are.
LEMMA EntryParts ==
  ASSUME NEW entries \in Seq(Entry)
  PROVE  /\ Len(entries) \in Nat
         /\ \A i \in 1 .. Len(entries) :
              /\ entries[i] \in Entry
              /\ entries[i].field \in Field
              /\ entries[i].offset \in Nat
  <1>1. ASSUME NEW i \in 1 .. Len(entries)
        PROVE  /\ entries[i] \in Entry
               /\ entries[i].field \in Field
               /\ entries[i].offset \in Nat
    <2>1. entries[i] \in Entry
      BY ElementOfSeq
    <2> QED
      BY <2>1 DEF Entry
  <1> QED
    BY <1>1

\* The bytes and the size of the newest entries are counts.
LEMMA ListSizeType ==
  ASSUME NEW entries \in Seq(Entry), NEW k \in 0 .. Len(entries)
  PROVE  /\ PackedBytes(entries, k) \in Nat
         /\ SizeOf(entries, k) \in Nat
         /\ SizeOf(entries, k) = PackedBytes(entries, k) + 32 * k
  <1>1. Len(entries) \in Nat
    BY EntryParts
  <1>2. CASE k = 0
    BY <1>1, <1>2 DEF PackedBytes, SizeOf, EntryOverhead
  <1>3. CASE k # 0
    <2>1. k \in 1 .. Len(entries)
      BY <1>1, <1>3
    <2>2. entries[k].offset \in Nat /\ entries[k].field \in Field
      BY <2>1, EntryParts
    <2>3. FieldLen(entries[k].field) \in Nat
      BY <2>2, FieldLenType
    <2> QED
      BY <1>1, <1>3, <2>2, <2>3 DEF PackedBytes, SizeOf, EntryOverhead
  <1> QED
    BY <1>2, <1>3

\* The newest entries are a list of their own.
LEMMA NewestOf ==
  ASSUME NEW entries \in Seq(Entry), NEW keep \in 0 .. Len(entries)
  PROVE  /\ SubSeq(entries, 1, keep) \in Seq(Entry)
         /\ Len(SubSeq(entries, 1, keep)) = keep
         /\ \A i \in 1 .. keep : SubSeq(entries, 1, keep)[i] = entries[i]
  <1> DEFINE kept == SubSeq(entries, 1, keep)
  <1>1. Len(entries) \in Nat
    BY EntryParts
  <1>2. keep \in Nat
    BY <1>1
  <1>3. \A i \in 1 .. keep : entries[i] \in Entry
    BY <1>1, EntryParts
  <1>4. /\ kept \in Seq(Entry)
        /\ Len(kept) = IF 1 <= keep THEN keep - 1 + 1 ELSE 0
        /\ \A i \in 1 .. keep - 1 + 1 : kept[i] = entries[1 + i - 1]
    BY <1>2, <1>3, SubSeqProperties
  <1> HIDE DEF kept
  <1>5. Len(kept) = keep
    BY <1>2, <1>4
  <1>6. \A i \in 1 .. keep : i \in 1 .. keep - 1 + 1 /\ 1 + i - 1 = i
    BY <1>2
  <1>7. \A i \in 1 .. keep : kept[i] = entries[i]
    BY <1>4, <1>6
  <1> QED
    BY <1>4, <1>5, <1>7 DEF kept

-----------------------------------------------------------------------------
\* An eviction leaves a packed list, of the size that the loop computed.
THEOREM NewestArePacked ==
  ASSUME NEW entries, IsPacked(entries), NEW keep \in 0 .. Len(entries)
  PROVE  /\ IsPacked(SubSeq(entries, 1, keep))
         /\ \A k \in 0 .. keep : SizeOf(SubSeq(entries, 1, keep), k) = SizeOf(entries, k)
  <1> DEFINE kept == SubSeq(entries, 1, keep)
  <1>1. entries \in Seq(Entry)
    BY DEF IsPacked
  <1>2. Len(entries) \in Nat /\ keep \in Nat
    BY <1>1, EntryParts
  <1>3. /\ kept \in Seq(Entry)
        /\ Len(kept) = keep
        /\ \A i \in 1 .. keep : kept[i] = entries[i]
    BY <1>1, NewestOf
  <1> HIDE DEF kept
  <1>4. \A k \in 0 .. keep : PackedBytes(kept, k) = PackedBytes(entries, k)
    BY <1>2, <1>3 DEF PackedBytes
  <1>5. ASSUME NEW i \in 1 .. keep
        PROVE  kept[i].offset = PackedBytes(kept, i - 1)
    <2>1. i \in 1 .. Len(entries) /\ i - 1 \in 0 .. keep
      BY <1>2
    <2>2. entries[i].offset = PackedBytes(entries, i - 1)
      BY <2>1 DEF IsPacked
    <2> QED
      BY <1>3, <1>4, <2>1, <2>2
  <1>6. IsPacked(kept)
    BY <1>3, <1>5 DEF IsPacked
  <1>7. \A k \in 0 .. keep : SizeOf(kept, k) = SizeOf(entries, k)
    BY <1>4 DEF SizeOf
  <1> QED
    BY <1>6, <1>7 DEF kept

\* An insertion leaves a packed list: the shifted offsets still pack, and the size
\* grows by the new entry's.
THEOREM PushedIsPacked ==
  ASSUME NEW entries, IsPacked(entries), NEW f \in Field, NEW keep \in 0 .. Len(entries)
  PROVE  /\ IsPacked(Pushed(entries, f, keep))
         /\ Len(Pushed(entries, f, keep)) = keep + 1
         /\ SizeOf(Pushed(entries, f, keep), keep + 1) = SizeOf(entries, keep) + EntrySize(f)
  <1> DEFINE pushed == Pushed(entries, f, keep)
  <1>1. entries \in Seq(Entry)
    BY DEF IsPacked
  <1>2. Len(entries) \in Nat /\ keep \in Nat
    BY <1>1, EntryParts
  <1>3. \A i \in 1 .. keep : /\ entries[i] \in Entry
                             /\ entries[i].field \in Field
                             /\ entries[i].offset \in Nat
    BY <1>1, <1>2, EntryParts
  <1>4. FieldLen(f) \in Nat /\ EntrySize(f) = FieldLen(f) + 32
    BY FieldLenType
  <1>5. \A i \in 1 .. (keep + 1) :
          /\ i = 1 => pushed[i] = [field |-> f, offset |-> 0]
          /\ i > 1 => /\ pushed[i].field = entries[i - 1].field
                      /\ pushed[i].offset = entries[i - 1].offset + FieldLen(f)
          /\ pushed[i] \in Entry
    <2> TAKE i \in 1 .. (keep + 1)
    <2>1. CASE i = 1
      BY <2>1 DEF Pushed, Entry
    <2>2. CASE i > 1
      <3>1. i - 1 \in 1 .. keep
        BY <1>2, <2>2
      <3>2. entries[i - 1] \in Entry
        BY <1>3, <3>1
      <3>3. pushed[i] = [field  |-> entries[i - 1].field,
                         offset |-> entries[i - 1].offset + FieldLen(f)]
        BY <2>2 DEF Pushed
      <3> QED
        BY <1>4, <2>2, <3>2, <3>3 DEF Entry
    <2> QED
      BY <2>1, <2>2
  <1>6. pushed \in Seq(Entry) /\ Len(pushed) = keep + 1
    <2>1. pushed \in [1 .. (keep + 1) -> Entry]
      BY <1>5 DEF Pushed
    <2>2. keep + 1 \in Nat
      BY <1>2
    <2> HIDE DEF pushed
    <2> QED
      BY <2>1, <2>2
  <1> HIDE DEF pushed
  <1>7. \A k \in 0 .. keep :
          PackedBytes(pushed, k + 1) = PackedBytes(entries, k) + FieldLen(f)
    <2> TAKE k \in 0 .. keep
    <2>1. PackedBytes(pushed, k + 1)
            = pushed[k + 1].offset + FieldLen(pushed[k + 1].field)
      BY <1>2 DEF PackedBytes
    <2>2. CASE k = 0
      BY <1>4, <1>5, <2>1, <2>2 DEF PackedBytes
    <2>3. CASE k # 0
      <3>1. k \in 1 .. keep /\ k + 1 \in 1 .. (keep + 1) /\ k + 1 > 1
        BY <1>2, <2>3
      <3>2. FieldLen(entries[k].field) \in Nat
        BY <1>3, <3>1, FieldLenType
      <3> QED
        BY <1>3, <1>4, <1>5, <2>1, <2>3, <3>1, <3>2 DEF PackedBytes
    <2> QED
      BY <2>2, <2>3
  <1>8. ASSUME NEW i \in 1 .. (keep + 1)
        PROVE  pushed[i].offset = PackedBytes(pushed, i - 1)
    <2>1. CASE i = 1
      BY <1>5, <2>1 DEF PackedBytes
    <2>2. CASE i > 1
      <3>1. i - 1 \in 1 .. keep /\ i - 2 \in 0 .. keep /\ i - 1 = (i - 2) + 1
        BY <1>2, <2>2
      <3>2. entries[i - 1].offset = PackedBytes(entries, i - 2)
        <4>1. i - 1 \in 1 .. Len(entries) /\ (i - 1) - 1 = i - 2
          BY <1>2, <3>1
        <4>2. entries[i - 1].offset = PackedBytes(entries, (i - 1) - 1)
          BY <4>1 DEF IsPacked
        <4> QED
          BY <4>1, <4>2
      <3>3. PackedBytes(pushed, i - 1) = PackedBytes(entries, i - 2) + FieldLen(f)
        BY <1>7, <3>1
      <3> QED
        BY <1>5, <2>2, <3>2, <3>3
    <2> QED
      BY <1>2, <2>1, <2>2
  <1>9. SizeOf(pushed, keep + 1) = SizeOf(entries, keep) + EntrySize(f)
    <2>1. /\ SizeOf(entries, keep) = PackedBytes(entries, keep) + 32 * keep
          /\ PackedBytes(entries, keep) \in Nat
      BY <1>1, ListSizeType
    <2>2. PackedBytes(pushed, keep + 1) = PackedBytes(entries, keep) + FieldLen(f)
      BY <1>2, <1>7
    <2> QED
      BY <1>2, <1>4, <2>1, <2>2 DEF SizeOf, EntryOverhead
  <1> QED
    BY <1>6, <1>8, <1>9 DEF IsPacked, pushed

-----------------------------------------------------------------------------
\* The eviction loop always ends with entries that fit, however little room is
\* asked for: a table never refuses for a reason of its own.
THEOREM EvictionSucceeds ==
  ASSUME NEW t, t.entries \in Seq(Entry), NEW room \in Nat
  PROVE  \E keep \in 0 .. Len(t.entries) : Retains(t, room, keep)
  <1> DEFINE fits == {k \in 0 .. Len(t.entries) : SizeOf(t.entries, k) <= room}
             dropped == {n \in Nat : \E k \in fits : n = Len(t.entries) - k}
  <1>1. Len(t.entries) \in Nat
    BY EntryParts
  <1>2. 0 \in fits
    BY <1>1 DEF SizeOf, PackedBytes, EntryOverhead
  <1>3. Len(t.entries) \in dropped
    BY <1>1, <1>2
  <1>4. PICK n \in dropped : \A m \in dropped : ~ (m < n)
    <2>1. dropped \subseteq Nat /\ dropped # {}
      BY <1>3
    <2>2. PICK n \in dropped : \A m \in dropped : ~ (<<m, n>> \in OpToRel(<, Nat))
      BY <2>1, NatLessThanWellFounded, WFMin
    <2>3. ASSUME NEW m \in dropped PROVE ~ (m < n)
      <3>1. m \in Nat /\ n \in Nat
        OBVIOUS
      <3>2. <<m, n>> \in OpToRel(<, Nat) <=> m < n
        BY <3>1 DEF OpToRel
      <3> QED
        BY <2>2, <3>2
    <2> QED
      BY <2>3
  <1>5. PICK keep \in fits : n = Len(t.entries) - keep
    BY <1>4
  <1>6. ASSUME NEW k \in (keep + 1) .. Len(t.entries)
        PROVE  SizeOf(t.entries, k) > room
    <2>1. k \in 0 .. Len(t.entries) /\ keep \in Nat
      BY <1>1, <1>5
    <2>2. SizeOf(t.entries, k) \in Nat
      BY <2>1, ListSizeType
    <2>3. k \notin fits
      <3>1. SUFFICES ASSUME k \in fits PROVE FALSE
        OBVIOUS
      <3>2. Len(t.entries) - k \in dropped /\ Len(t.entries) - k < n
        BY <1>1, <1>5, <2>1, <3>1
      <3> QED
        BY <1>4, <3>2
    <2> QED
      BY <2>1, <2>2, <2>3
  <1>7. keep \in 0 .. Len(t.entries) /\ SizeOf(t.entries, keep) <= room
    BY <1>5
  <1> QED
    BY <1>6, <1>7 DEF Retains

\* The loop has one result: the model's choice of "keep" is no choice.
THEOREM EvictionIsDeterministic ==
  ASSUME NEW t, t.entries \in Seq(Entry), NEW room \in Nat, NEW j, NEW k,
         Retains(t, room, j), Retains(t, room, k)
  PROVE  j = k
  <1>1. Len(t.entries) \in Nat
    BY EntryParts
  <1>2. j \in 0 .. Len(t.entries) /\ k \in 0 .. Len(t.entries)
    BY DEF Retains
  <1>3. SizeOf(t.entries, j) \in Nat /\ SizeOf(t.entries, k) \in Nat
    BY <1>2, ListSizeType
  <1>4. ~ (j < k)
    BY <1>1, <1>2, <1>3 DEF Retains
  <1>5. ~ (k < j)
    BY <1>1, <1>2, <1>3 DEF Retains
  <1> QED
    BY <1>1, <1>2, <1>4, <1>5

-----------------------------------------------------------------------------
(* The table *)

\* What the parts of a table are.
LEMMA HpackTableParts ==
  ASSUME NEW t, IsWellFormed(t)
  PROVE  /\ t \in Table
         /\ t.maximum \in Nat
         /\ IsPacked(t.entries)
         /\ t.entries \in Seq(Entry)
         /\ Len(t.entries) \in Nat
         /\ t = [entries |-> t.entries, maximum |-> t.maximum]
  <1>1. t \in Table /\ IsPacked(t.entries)
    BY DEF IsWellFormed
  <1>2. /\ t.maximum \in Nat /\ t.entries \in Seq(Entry)
        /\ t = [entries |-> t.entries, maximum |-> t.maximum]
    BY <1>1 DEF Table
  <1> QED
    BY <1>1, <1>2, EntryParts

\* What an eviction loop leaves.
LEMMA KeptRetains ==
  ASSUME NEW t, IsWellFormed(t), NEW room \in Nat
  PROVE  Kept(t, room) \in 0 .. Len(t.entries) /\ Retains(t, room, Kept(t, room))
  <1>1. \E keep \in 0 .. Len(t.entries) : Retains(t, room, keep)
    BY HpackTableParts, EvictionSucceeds
  <1> QED
    BY <1>1 DEF Kept

\* What the loop leaves is the only thing it can leave.
LEMMA KeptIsUnique ==
  ASSUME NEW t, IsWellFormed(t), NEW room \in Nat, NEW keep, Retains(t, room, keep)
  PROVE  keep = Kept(t, room)
  BY HpackTableParts, KeptRetains, EvictionIsDeterministic

\* set_maximum_size leaves a well-formed table.
THEOREM WithMaximumWellFormed ==
  ASSUME NEW t, IsWellFormed(t), NEW m \in Nat
  PROVE  /\ IsWellFormed(WithMaximum(t, m))
         /\ WithMaximum(t, m).maximum = m
  <1> DEFINE u == WithMaximum(t, m)
             keep == Kept(t, m)
  <1>1. keep \in 0 .. Len(t.entries) /\ SizeOf(t.entries, keep) <= m
    BY KeptRetains DEF Retains
  <1>2. u.entries = SubSeq(t.entries, 1, keep) /\ u.maximum = m
    BY DEF WithMaximum
  <1>3. /\ IsPacked(u.entries) /\ Len(u.entries) = keep
        /\ SizeOf(u.entries, keep) = SizeOf(t.entries, keep)
    <2> HIDE DEF u, keep
    <2> QED
      BY <1>1, <1>2, HpackTableParts, NewestArePacked, NewestOf
  <1>4. u \in Table
    <2>1. u.entries \in Seq(Entry)
      BY <1>3 DEF IsPacked
    <2> QED
      BY <2>1 DEF WithMaximum, Table
  <1>5. SizeOf(u.entries, Len(u.entries)) <= u.maximum
    <2> HIDE DEF u, keep
    <2> QED
      BY <1>1, <1>2, <1>3
  <1> QED
    BY <1>2, <1>3, <1>4, <1>5 DEF IsWellFormed

\* insert leaves a well-formed table.
THEOREM WithInsertedWellFormed ==
  ASSUME NEW t, IsWellFormed(t), NEW f \in Field
  PROVE  /\ IsWellFormed(WithInserted(t, f))
         /\ WithInserted(t, f).maximum = t.maximum
  <1> DEFINE u == WithInserted(t, f)
             room == t.maximum - EntrySize(f)
             keep == Kept(t, room)
  <1>1. u.maximum = t.maximum /\ t.maximum \in Nat /\ EntrySize(f) \in Nat
    BY HpackTableParts, FieldLenType DEF WithInserted
  <1>2. CASE EntrySize(f) > t.maximum
    <2>1. u = [entries |-> << >>, maximum |-> t.maximum]
      BY <1>2 DEF WithInserted
    <2>2. u \in Table /\ Len(u.entries) = 0 /\ u.entries = << >>
      BY <1>1, <2>1 DEF Table
    <2>3. IsPacked(u.entries)
      BY <2>2 DEF IsPacked
    <2>4. SizeOf(u.entries, Len(u.entries)) = 0
      BY <2>2 DEF SizeOf, PackedBytes, EntryOverhead
    <2> QED
      BY <1>1, <2>2, <2>3, <2>4 DEF IsWellFormed
  <1>3. CASE ~(EntrySize(f) > t.maximum)
    <2>1. room \in Nat
      BY <1>1, <1>3
    <2>2. keep \in 0 .. Len(t.entries) /\ SizeOf(t.entries, keep) <= room
      BY <2>1, KeptRetains DEF Retains
    <2>3. u = [entries |-> Pushed(t.entries, f, keep), maximum |-> t.maximum]
      BY <1>3 DEF WithInserted
    <2>4. u.entries = Pushed(t.entries, f, keep)
      BY <2>3
    <2> HIDE DEF u, keep
    <2>5. /\ IsPacked(u.entries) /\ Len(u.entries) = keep + 1
          /\ SizeOf(u.entries, keep + 1) = SizeOf(t.entries, keep) + EntrySize(f)
      BY <2>2, <2>4, HpackTableParts, PushedIsPacked
    <2>6. u \in Table
      BY <1>1, <2>3, <2>4, <2>5 DEF Table, IsPacked
    <2>7. SizeOf(t.entries, keep) \in Nat
      BY <2>2, HpackTableParts, ListSizeType
    <2>8. IsWellFormed(u) /\ u.maximum = t.maximum
      BY <1>1, <2>2, <2>5, <2>6, <2>7 DEF IsWellFormed
    <2> QED
      BY <2>8 DEF u
  <1> QED
    BY <1>1, <1>2, <1>3

\* A table that fits is left alone.
LEMMA NothingToEvict ==
  ASSUME NEW t, IsWellFormed(t), NEW m \in Nat, t.maximum <= m
  PROVE  WithMaximum(t, m) = [entries |-> t.entries, maximum |-> m]
  <1> DEFINE n == Len(t.entries)
  <1>1. /\ n \in Nat /\ t.maximum \in Nat /\ t.entries \in Seq(Entry)
        /\ SizeOf(t.entries, n) <= t.maximum
        /\ SizeOf(t.entries, n) \in Nat
    <2>1. n \in 0 .. Len(t.entries)
      BY HpackTableParts
    <2> QED
      BY <2>1, HpackTableParts, ListSizeType DEF IsWellFormed
  <1>2. Retains(t, m, n)
    BY <1>1 DEF Retains
  <1>3. Kept(t, m) = n
    BY <1>2, KeptIsUnique
  <1>4. SubSeq(t.entries, 1, n) = t.entries
    BY <1>1
  <1> QED
    BY <1>3, <1>4 DEF WithMaximum

\* Shrinking a table in two steps is shrinking it at once.
LEMMA ShrinkingComposes ==
  ASSUME NEW t, IsWellFormed(t), NEW m \in Nat, NEW n \in Nat, n <= m
  PROVE  WithMaximum(WithMaximum(t, m), n) = WithMaximum(t, n)
  <1> DEFINE u == WithMaximum(t, m)
             j == Kept(t, m)
             k == Kept(u, n)
  <1>1. IsWellFormed(u)
    BY WithMaximumWellFormed
  <1>2. u.entries = SubSeq(t.entries, 1, j)
    BY DEF WithMaximum
  <1>3. j \in 0 .. Len(t.entries) /\ Retains(t, m, j)
    BY KeptRetains
  <1>4. k \in 0 .. Len(u.entries) /\ Retains(u, n, k)
    BY <1>1, KeptRetains
  <1>5. t.entries \in Seq(Entry) /\ Len(t.entries) \in Nat /\ IsPacked(t.entries)
    BY HpackTableParts
  <1> HIDE DEF u, j, k
  <1>6. /\ Len(u.entries) = j
        /\ \A i \in 0 .. j : SizeOf(u.entries, i) = SizeOf(t.entries, i)
    BY <1>2, <1>3, <1>5, NewestArePacked, NewestOf
  <1>7. Retains(t, n, k)
    <2>1. k \in 0 .. j /\ k \in 0 .. Len(t.entries) /\ SizeOf(t.entries, k) <= n
      BY <1>3, <1>4, <1>5, <1>6 DEF Retains
    <2>2. ASSUME NEW i \in (k + 1) .. Len(t.entries)
          PROVE  SizeOf(t.entries, i) > n
      <3>1. CASE i <= j
        BY <1>3, <1>4, <1>5, <1>6, <2>1, <3>1 DEF Retains
      <3>2. CASE ~(i <= j)
        <4>1. i \in (j + 1) .. Len(t.entries) /\ i \in 0 .. Len(t.entries)
          BY <1>3, <1>5, <2>1, <3>2
        <4>2. SizeOf(t.entries, i) > m /\ SizeOf(t.entries, i) \in Nat
          BY <1>3, <1>5, <4>1, ListSizeType DEF Retains
        <4> QED
          BY <4>2
      <3> QED
        BY <3>1, <3>2
    <2> QED
      BY <2>1, <2>2 DEF Retains
  <1>8. Kept(t, n) = k
    BY <1>7, KeptIsUnique
  <1>9. SubSeq(u.entries, 1, k) = SubSeq(t.entries, 1, k)
    <2>1. k \in 0 .. j /\ k \in 0 .. Len(t.entries) /\ u.entries \in Seq(Entry)
      BY <1>1, <1>3, <1>4, <1>5, <1>6, HpackTableParts
    <2>2. /\ SubSeq(u.entries, 1, k) \in Seq(Entry) /\ Len(SubSeq(u.entries, 1, k)) = k
          /\ \A i \in 1 .. k : SubSeq(u.entries, 1, k)[i] = u.entries[i]
      BY <1>4, <2>1, NewestOf
    <2>3. /\ SubSeq(t.entries, 1, k) \in Seq(Entry) /\ Len(SubSeq(t.entries, 1, k)) = k
          /\ \A i \in 1 .. k : SubSeq(t.entries, 1, k)[i] = t.entries[i]
      BY <1>5, <2>1, NewestOf
    <2>4. \A i \in 1 .. k : u.entries[i] = t.entries[i]
      <3>1. \A i \in 1 .. j : u.entries[i] = t.entries[i]
        BY <1>2, <1>3, <1>5, NewestOf
      <3> QED
        BY <1>3, <1>5, <2>1, <3>1
    <2> QED
      BY <2>2, <2>3, <2>4, SeqEqual
  <1> QED
    BY <1>8, <1>9 DEF WithMaximum, u, k

-----------------------------------------------------------------------------
\* The parts of a context.
LEMMA ContextParts ==
  ASSUME NEW c \in Context
  PROVE  /\ c.table \in Table /\ c.allowed \in 0 .. Capacity /\ c.allowed \in Nat
         /\ c.pending.minimum \in Options /\ c.pending.final \in Options
         /\ c.pending \in Pending
         /\ c.block \in Blocks /\ c.applied \in Nat
  BY CapacityAssumption DEF Context, Pending

\* set_allowed_maximum_size changes the maximum and what is pending.
LEMMA WithAllowedParts ==
  ASSUME NEW c \in Context, NEW n \in 0 .. Capacity
  PROVE  /\ WithAllowed(c, n) \in Context
         /\ WithAllowed(c, n).table = c.table
         /\ WithAllowed(c, n).allowed = n
         /\ WithAllowed(c, n).pending =
              IF n = c.allowed THEN c.pending ELSE WithChange(c.pending, n)
         /\ WithAllowed(c, n).block = c.block
         /\ WithAllowed(c, n).applied = c.applied + 1
  <1>1. WithChange(c.pending, n) \in Pending
    <2>1. {n} \in Options /\ {} \in Options
      BY DEF Options
    <2> QED
      BY <2>1, ContextParts DEF WithChange, Pending
  <1> DEFINE u == WithAllowed(c, n)
  <1>2. /\ u.table = c.table
        /\ u.allowed = n
        /\ u.pending = IF n = c.allowed THEN c.pending ELSE WithChange(c.pending, n)
        /\ u.block = c.block
        /\ u.applied = c.applied + 1
    BY DEF WithAllowed, Context
  <1>3. u \in Context
    <2> DEFINE p == IF n = c.allowed THEN c.pending ELSE WithChange(c.pending, n)
               k == c.applied + 1
    <2>1. p \in Pending /\ k \in Nat
      BY <1>1, ContextParts
    <2>2. u = [c EXCEPT !.allowed = n, !.pending = p, !.applied = k]
      BY DEF WithAllowed
    <2> HIDE DEF p, k, u
    <2> QED
      BY <2>1, <2>2 DEF Context
  <1> QED
    BY <1>2, <1>3

\* begin_block, decode_block and the end of a block touch nothing else.
LEMMA BlockParts ==
  ASSUME NEW c \in Context, NEW u \in {WithBlock(c), WithoutBlock(c)}
  PROVE  /\ u \in Context
         /\ u.table = c.table /\ u.allowed = c.allowed /\ u.pending = c.pending
         /\ u.applied = c.applied
         /\ u = WithBlock(c) => u.block = "leading"
         /\ u = WithoutBlock(c) => u.block = "closed"
  <1>1. CASE u = WithBlock(c)
    BY <1>1 DEF WithBlock, WithoutBlock, Context, Blocks
  <1>2. CASE u = WithoutBlock(c)
    BY <1>2 DEF WithBlock, WithoutBlock, Context, Blocks
  <1> QED
    BY <1>1, <1>2

\* Both ends make the same of a size update.
LEMMA UpdateParts ==
  ASSUME NEW c \in Context, IsWellFormed(c.table), NEW m \in Nat
  PROVE  /\ EncodedUpdate(c, m) = DecodedUpdate(c, m)
         /\ EncodedUpdate(c, m) \in Context
         /\ EncodedUpdate(c, m).table = WithMaximum(c.table, m)
         /\ EncodedUpdate(c, m).allowed = c.allowed
         /\ EncodedUpdate(c, m).pending = Advanced(c.pending)
         /\ EncodedUpdate(c, m).block = c.block
         /\ EncodedUpdate(c, m).applied = c.applied
  <1> DEFINE u == EncodedUpdate(c, m)
  <1>1. u = DecodedUpdate(c, m)
    BY DEF EncodedUpdate, DecodedUpdate
  <1>2. Advanced(c.pending) \in Pending
    <2>1. {} \in Options
      BY DEF Options
    <2> QED
      BY <2>1, ContextParts DEF Advanced, Pending
  <1>3. WithMaximum(c.table, m) \in Table
    BY WithMaximumWellFormed, HpackTableParts
  <1>4. /\ u.table = WithMaximum(c.table, m)
        /\ u.allowed = c.allowed
        /\ u.pending = Advanced(c.pending)
        /\ u.block = c.block
        /\ u.applied = c.applied
    BY DEF EncodedUpdate, Context
  <1>5. u \in Context
    <2> DEFINE t == WithMaximum(c.table, m)
               p == Advanced(c.pending)
    <2>1. u = [c EXCEPT !.table = t, !.pending = p]
      BY DEF EncodedUpdate
    <2>2. t \in Table /\ p \in Pending
      BY <1>2, <1>3
    <2> HIDE DEF t, p, u
    <2> QED
      BY <2>1, <2>2 DEF Context
  <1> QED
    BY <1>1, <1>4, <1>5

\* A field behind an index that is there is a field.
LEMMA FieldAtType ==
  ASSUME NEW t, IsWellFormed(t), NEW index \in Indexes(t)
  PROVE  FieldAt(t, index) \in Field
  <1>1. Len(StaticTable) \in Nat /\ index \in 1 .. (Len(StaticTable) + Len(t.entries))
    BY StaticTableAssumption DEF Indexes
  <1>2. CASE index <= Len(StaticTable)
    <2>1. index \in 1 .. Len(StaticTable)
      BY <1>1, <1>2, HpackTableParts
    <2>2. StaticTable[index] \in Field
      BY <2>1, StaticTableAssumption, ElementOfSeq
    <2> QED
      BY <1>2, <2>2 DEF FieldAt
  <1>3. CASE ~(index <= Len(StaticTable))
    <2>1. index - Len(StaticTable) \in 1 .. Len(t.entries)
      BY <1>1, <1>3, HpackTableParts
    <2>2. t.entries[index - Len(StaticTable)].field \in Field
      BY <2>1, HpackTableParts, EntryParts
    <2> QED
      BY <1>3, <2>2 DEF FieldAt
  <1> QED
    BY <1>2, <1>3

\* Both ends make the same of a field that the encoder could encode: the decoder has no
\* objection to it, reads what was meant and does the same to its table.
LEMMA FieldParts ==
  ASSUME NEW c \in Context, IsWellFormed(c.table), NEW r \in Representation,
         CanEncodeField(c, r)
  PROVE  /\ FieldErrors(c, r) = {}
         /\ Meant(c, r) \in Field
         /\ FieldRead(c, r) = Meant(c, r)
         /\ EncodedField(c, r) = DecodedField(c, r)
         /\ EncodedField(c, r) \in Context
         /\ IsWellFormed(EncodedField(c, r).table)
         /\ EncodedField(c, r).table = IF r.kind = "literal" /\ r.indexing
                                       THEN WithInserted(c.table, Meant(c, r)) ELSE c.table
         /\ EncodedField(c, r).table.maximum = c.table.maximum
         /\ EncodedField(c, r).allowed = c.allowed
         /\ EncodedField(c, r).pending = c.pending
         /\ EncodedField(c, r).block = "fields"
         /\ EncodedField(c, r).applied = c.applied
  <1>1. /\ NextRequired(c.pending) = {}
        /\ \/ r.kind = "literal" /\ r.index = 0
           \/ r.index \in Indexes(c.table)
        /\ r.kind = "literal" /\ r.index # 0 => r.name = FieldAt(c.table, r.index).name
    BY DEF CanEncodeField
  <1>2. \/ r.kind = "indexed" /\ r.index \in Nat
        \/ /\ r.kind = "literal" /\ r.indexing \in BOOLEAN /\ r.index \in Nat
           /\ r.name \in Names /\ r.value \in Values
    BY DEF Representation
  <1>3. FieldErrors(c, r) = {}
    BY <1>1 DEF FieldErrors
  <1>4. Meant(c, r) \in Field
    <2>1. CASE r.kind = "indexed"
      BY <1>1, <2>1, FieldAtType DEF Meant
    <2>2. CASE r.kind = "literal"
      BY <1>2, <2>2 DEF Meant, Field
    <2> QED
      BY <1>2, <2>1, <2>2
  <1>5. FieldRead(c, r) = Meant(c, r)
    BY <1>1, <1>2 DEF FieldRead, Meant
  <1>6. EncodedField(c, r) = DecodedField(c, r)
    BY <1>5 DEF EncodedField, DecodedField
  <1> DEFINE u == EncodedField(c, r)
             t == IF r.kind = "literal" /\ r.indexing
                  THEN WithInserted(c.table, Meant(c, r)) ELSE c.table
  <1>7. /\ u.table = t
        /\ u.allowed = c.allowed
        /\ u.pending = c.pending
        /\ u.block = "fields"
        /\ u.applied = c.applied
    BY DEF EncodedField, Context
  <1>8. IsWellFormed(t) /\ t.maximum = c.table.maximum
    BY <1>4, WithInsertedWellFormed
  <1>9. u \in Context
    <2>1. u = [c EXCEPT !.block = "fields", !.table = t]
      BY DEF EncodedField
    <2>2. t \in Table /\ "fields" \in Blocks
      BY <1>8, HpackTableParts DEF Blocks
    <2> HIDE DEF t, u
    <2> QED
      BY <2>1, <2>2 DEF Context
  <1> QED
    BY <1>3, <1>4, <1>5, <1>6, <1>7, <1>8, <1>9

-----------------------------------------------------------------------------
(***************************************************************************)
(* The decoder follows.  The invariant says of every event on the wire     *)
(* that the decoder, once it has got that far, will accept it and be where *)
(* the encoder was; so an event is safe to send when the encoder's own     *)
(* conditions imply the decoder's, whatever is still in between.           *)
(***************************************************************************)
Following ==
  /\ TypeOK
  /\ failed = NoError
  /\ \A i \in DOMAIN wire : /\ IsAccepted(Before(i), wire[i])
                            /\ Understood(Before(i), wire[i]) = wire[i].after
                            /\ wire[i].after.applied <= Len(offered)
  /\ encoder = Before(Len(wire) + 1)

\* A new context is a context.
LEMMA NewContextType ==
  ASSUME NEW n \in Maxima
  PROVE  /\ NewContext(InitialMaximum, n) \in Context
         /\ IsWellFormed(EmptyTable(InitialMaximum))
         /\ NewContext(InitialMaximum, n).table = EmptyTable(InitialMaximum)
         /\ NewContext(InitialMaximum, n).applied = 0
         /\ NewContext(InitialMaximum, n).allowed = n
  <1>1. InitialMaximum \in 0 .. Capacity /\ n \in 0 .. Capacity
    BY ConnectionAssumption
  <1>2. InitialMaximum \in Nat
    BY <1>1, CapacityAssumption
  <1>3. \A m \in Nat : IsWellFormed(EmptyTable(m)) /\ EmptyTable(m) \in Table
    BY DEF EmptyTable, Table, IsWellFormed, IsPacked, SizeOf, PackedBytes, EntryOverhead
  <1>4. {} \in Options /\ {n} \in Options
    BY <1>1 DEF Options
  <1>5. NewContext(InitialMaximum, n) \in Context
    <2>1. EmptyTable(InitialMaximum) \in Table
      BY <1>2, <1>3
    <2>2. [minimum |-> IF InitialMaximum > n THEN {n} ELSE {}, final |-> {}] \in Pending
      BY <1>4 DEF Pending
    <2> QED
      BY <1>1, <2>1, <2>2 DEF NewContext, Context, Blocks
  <1> QED
    BY <1>2, <1>3, <1>5 DEF NewContext

\* The initial states.
LEMMA InitFollows == Init => Following
  <1> SUFFICES ASSUME Init PROVE Following
    OBVIOUS
  <1>1. PICK n \in Maxima : encoder = NewContext(InitialMaximum, n)
    BY DEF Init
  <1>2. encoder \in Context /\ IsWellFormed(encoder.table) /\ encoder.applied = 0
        /\ encoder.allowed = n
    BY <1>1, NewContextType
  <1>3. IsWellFormed(eager)
    <2>1. n \in Nat /\ InitialMaximum \in Nat
      BY ConnectionAssumption, CapacityAssumption
    <2>2. \A m \in Nat : IsWellFormed(EmptyTable(m))
      BY DEF EmptyTable, Table, IsWellFormed, IsPacked, SizeOf, PackedBytes, EntryOverhead
    <2> QED
      BY <1>2, <2>1, <2>2 DEF Init
  <1>4. wire = << >> /\ offered = << >> /\ read = NoField /\ failed = NoError
        /\ decoder = encoder
    BY DEF Init
  <1>5. TypeOK
    BY <1>2, <1>3, <1>4 DEF TypeOK
  <1>6. encoder = Before(Len(wire) + 1)
    BY <1>4 DEF Before
  <1> QED
    BY <1>4, <1>5, <1>6 DEF Following

\* The encoder's side: an event that the decoder will accept from the encoder's context.
IsProduced(event) ==
  /\ event \in Event
  /\ Produces(event, event.after)
  /\ IsAccepted(encoder, event)
  /\ Understood(encoder, event) = event.after
  /\ event.after \in Context
  /\ IsWellFormed(event.after.table)
  /\ event.after.applied <= Len(offered)

LEMMA ProducesFollows ==
  ASSUME Following, NEW event, IsProduced(event)
  PROVE  Following'
  <1> USE DEF IsProduced
  <1>1. /\ encoder' = event.after /\ wire' = Append(wire, event)
        /\ UNCHANGED <<decoder, offered, read, failed, eager>>
    BY DEF Produces
  <1>2. wire \in Seq(Event) /\ Len(wire) \in Nat
    BY DEF Following, TypeOK
  <1>3. /\ wire' \in Seq(Event) /\ Len(wire') = Len(wire) + 1
        /\ DOMAIN wire' = 1 .. (Len(wire) + 1) /\ DOMAIN wire = 1 .. Len(wire)
        /\ \A i \in 1 .. Len(wire) : wire'[i] = wire[i]
        /\ wire'[Len(wire) + 1] = event
    BY <1>1, <1>2
  <1>4. TypeOK'
    BY <1>1, <1>3 DEF Following, TypeOK
  <1>5. \A i \in 1 .. (Len(wire) + 1) : Before(i)' = Before(i)
    BY <1>1, <1>2, <1>3 DEF Before
  <1>6. ASSUME NEW i \in DOMAIN wire'
        PROVE  /\ IsAccepted(Before(i)', wire'[i])
               /\ Understood(Before(i), wire[i])' = wire'[i].after
               /\ wire'[i].after.applied <= Len(offered')
    <2>1. Understood(Before(i), wire[i])' = Understood(Before(i)', wire'[i])
      BY <1>1 DEF Understood
    <2>2. CASE i \in DOMAIN wire
      <3>1. Before(i)' = Before(i) /\ wire'[i] = wire[i]
        BY <1>2, <1>3, <1>5, <2>2
      <3> QED
        BY <1>1, <2>1, <2>2, <3>1 DEF Following
    <2>3. CASE i = Len(wire) + 1
      <3>1. Before(i)' = encoder /\ wire'[i] = event
        BY <1>2, <1>3, <1>5, <2>3 DEF Following
      <3> QED
        BY <1>1, <2>1, <3>1
    <2> QED
      BY <1>2, <1>3, <2>2, <2>3
  <1>7. encoder' = Before(Len(wire) + 1)'
    BY <1>1, <1>2, <1>3 DEF Before
  <1>8. failed' = NoError
    BY <1>1 DEF Following
  <1> QED
    BY <1>3, <1>4, <1>6, <1>7, <1>8 DEF Following, Before

\* What the invariant says of the encoder.
LEMMA EncoderParts ==
  ASSUME Following
  PROVE  /\ encoder \in Context /\ IsWellFormed(encoder.table)
         /\ encoder.applied \in Nat /\ encoder.applied <= Len(offered)
         /\ offered \in Seq(Maxima) /\ Len(offered) \in Nat
  BY ContextParts DEF Following, TypeOK

LEMMA ReceiveSettingsProduces ==
  ASSUME Following, ReceiveSettings
  PROVE  \E event : IsProduced(event)
  <1> DEFINE n == offered[encoder.applied + 1]
             after == WithAllowed(encoder, n)
             event == [kind |-> "ack", after |-> after]
  <1>1. n \in 0 .. Capacity
    <2>1. encoder.applied + 1 \in 1 .. Len(offered)
      BY EncoderParts DEF ReceiveSettings
    <2>2. n \in Maxima
      BY <2>1, EncoderParts, ElementOfSeq
    <2> QED
      BY <2>2, ConnectionAssumption
  <1>2. /\ after \in Context /\ IsWellFormed(after.table)
        /\ after.applied <= Len(offered)
    BY <1>1, EncoderParts, WithAllowedParts DEF ReceiveSettings
  <1>3. Produces(event, after) /\ encoder.block = "closed"
    BY DEF ReceiveSettings
  <1>4. Understood(encoder, event) = after
    BY DEF Understood
  <1> HIDE DEF after
  <1>5. event \in Event /\ event.after = after /\ event.kind = "ack"
    BY <1>2 DEF Event
  <1>6. IsAccepted(encoder, event)
    BY <1>3, <1>5 DEF IsAccepted
  <1> HIDE DEF event
  <1> QED
    BY <1>2, <1>3, <1>4, <1>5, <1>6 DEF IsProduced

LEMMA BeginBlockProduces ==
  ASSUME Following, BeginBlock
  PROVE  \E event : IsProduced(event)
  <1> DEFINE after == WithBlock(encoder)
             event == [kind |-> "begin", after |-> after]
  <1>1. after \in Context /\ IsWellFormed(after.table) /\ after.applied <= Len(offered)
    BY EncoderParts, BlockParts
  <1>2. Produces(event, after) /\ encoder.block = "closed"
    BY DEF BeginBlock
  <1>3. Understood(encoder, event) = after
    BY DEF Understood
  <1> HIDE DEF after
  <1>4. event \in Event /\ event.after = after /\ event.kind = "begin"
    BY <1>1 DEF Event
  <1>5. IsAccepted(encoder, event)
    BY <1>2, <1>4 DEF IsAccepted
  <1> HIDE DEF event
  <1> QED
    BY <1>1, <1>2, <1>3, <1>4, <1>5 DEF IsProduced

LEMMA EncodeUpdateProduces ==
  ASSUME Following, EncodeUpdate
  PROVE  \E event : IsProduced(event)
  <1>1. PICK m \in Updates \cup NextRequired(encoder.pending) :
          /\ CanEncodeUpdate(encoder, m)
          /\ Produces([kind |-> "update", size |-> m, after |-> EncodedUpdate(encoder, m)],
                      EncodedUpdate(encoder, m))
    BY DEF EncodeUpdate
  <1> DEFINE after == EncodedUpdate(encoder, m)
             event == [kind |-> "update", size |-> m, after |-> after]
  <1>2. m \in Nat
    <2>1. NextRequired(encoder.pending) \in Options
      BY EncoderParts, ContextParts DEF NextRequired
    <2> QED
      BY <2>1, CapacityAssumption, ConnectionAssumption DEF Options
  <1>3. m \in 0 .. Capacity /\ UpdateErrors(encoder, m) = {}
    <2>1. encoder.allowed \in Nat
      BY EncoderParts, ContextParts
    <2>2. /\ encoder.block = "leading" /\ m <= encoder.allowed /\ m <= Capacity
          /\ \A required \in NextRequired(encoder.pending) : m = required
      BY <1>1 DEF CanEncodeUpdate
    <2> QED
      BY <1>2, <2>1, <2>2, CapacityAssumption DEF UpdateErrors
  <1>4. after \in Context /\ IsWellFormed(after.table) /\ after.applied <= Len(offered)
    <2>1. /\ after \in Context /\ after.table = WithMaximum(encoder.table, m)
          /\ after.applied = encoder.applied
      BY <1>2, EncoderParts, UpdateParts
    <2>2. IsWellFormed(WithMaximum(encoder.table, m))
      BY <1>2, EncoderParts, WithMaximumWellFormed
    <2> HIDE DEF after
    <2> QED
      BY <2>1, <2>2, EncoderParts
  <1>5. Understood(encoder, event) = after
    BY <1>2, EncoderParts, UpdateParts DEF Understood
  <1> HIDE DEF after
  <1>6. event \in Event /\ event.after = after /\ event.kind = "update" /\ event.size = m
    BY <1>3, <1>4 DEF Event
  <1>7. IsAccepted(encoder, event)
    BY <1>3, <1>6 DEF IsAccepted
  <1>8. Produces(event, after)
    BY <1>1 DEF after
  <1> HIDE DEF event
  <1> QED
    BY <1>4, <1>5, <1>6, <1>7, <1>8 DEF IsProduced

LEMMA EncodeFieldProduces ==
  ASSUME Following, EncodeField
  PROVE  \E event : IsProduced(event)
  <1>1. PICK r \in Representations :
          /\ CanEncodeField(encoder, r)
          /\ Produces([kind |-> "field", representation |-> r, meant |-> Meant(encoder, r),
                       after |-> EncodedField(encoder, r)], EncodedField(encoder, r))
    BY DEF EncodeField
  <1> DEFINE after == EncodedField(encoder, r)
             meant == Meant(encoder, r)
             event == [kind |-> "field", representation |-> r, meant |-> meant,
                       after |-> after]
  <1>2. r \in Representation
    BY ConnectionAssumption
  <1>3. /\ after \in Context /\ IsWellFormed(after.table) /\ after.applied <= Len(offered)
        /\ meant \in Field
        /\ FieldErrors(encoder, r) = {} /\ FieldRead(encoder, r) = meant
        /\ DecodedField(encoder, r) = after
    BY <1>1, <1>2, EncoderParts, FieldParts
  <1>4. Produces(event, after)
    BY <1>1
  <1> HIDE DEF after, meant
  <1>5. /\ event \in Event /\ event.after = after /\ event.kind = "field"
        /\ event.representation = r /\ event.meant = meant
    BY <1>2, <1>3 DEF Event
  <1>6. IsAccepted(encoder, event) /\ Understood(encoder, event) = after
    <2> HIDE DEF event
    <2> QED
      BY <1>3, <1>5 DEF IsAccepted, Understood
  <1> HIDE DEF event
  <1> QED
    BY <1>3, <1>4, <1>5, <1>6 DEF IsProduced

LEMMA FinishBlockProduces ==
  ASSUME Following, FinishBlock
  PROVE  \E event : IsProduced(event)
  <1> DEFINE after == WithoutBlock(encoder)
             event == [kind |-> "end", after |-> after]
  <1>1. after \in Context /\ IsWellFormed(after.table) /\ after.applied <= Len(offered)
    BY EncoderParts, BlockParts
  <1>2. Produces(event, after) /\ CanFinish(encoder)
    BY DEF FinishBlock
  <1>3. Understood(encoder, event) = after /\ CompleteErrors(encoder) = {}
    BY <1>2 DEF Understood, CompleteErrors, CanFinish
  <1> HIDE DEF after
  <1>4. event \in Event /\ event.after = after /\ event.kind = "end"
    BY <1>1 DEF Event
  <1>5. IsAccepted(encoder, event)
    BY <1>3, <1>4 DEF IsAccepted
  <1> HIDE DEF event
  <1> QED
    BY <1>1, <1>2, <1>3, <1>4, <1>5 DEF IsProduced

-----------------------------------------------------------------------------
\* What the decoder makes of an event it accepts is a context with a good table.
LEMMA UnderstoodIsWellFormed ==
  ASSUME NEW c \in Context, IsWellFormed(c.table), NEW event \in Event,
         IsAccepted(c, event), Understood(c, event) \in Context,
         event.kind = "ack" => offered[c.applied + 1] \in 0 .. Capacity
  PROVE  IsWellFormed(Understood(c, event).table)
  <1> DEFINE u == Understood(c, event)
  <1>1. CASE event.kind = "ack"
    BY <1>1, WithAllowedParts DEF Understood
  <1>2. CASE event.kind = "begin"
    BY <1>2, BlockParts DEF Understood
  <1>3. CASE event.kind = "update"
    <2>1. event.size \in Nat
      BY <1>3, CapacityAssumption DEF Event
    <2>2. u.table = WithMaximum(c.table, event.size)
      BY <1>3, <2>1, UpdateParts DEF Understood
    <2> HIDE DEF u
    <2>3. IsWellFormed(u.table)
      BY <2>1, <2>2, WithMaximumWellFormed
    <2> QED
      BY <2>3 DEF u
  <1>4. CASE event.kind = "field"
    <2> DEFINE r == event.representation
               f == FieldRead(c, r)
    <2>1. f \in Field
      BY <1>4 DEF IsAccepted, Event
    <2>2. u = DecodedField(c, r)
      BY <1>4 DEF Understood
    <2>3. u.table = IF r.kind = "literal" /\ r.indexing
                    THEN WithInserted(c.table, f) ELSE c.table
      BY <2>2 DEF DecodedField, Context
    <2> HIDE DEF u, f, r
    <2>4. IsWellFormed(u.table)
      BY <2>1, <2>3, WithInsertedWellFormed
    <2> QED
      BY <2>4 DEF u
  <1>5. CASE event.kind = "end"
    BY <1>5, BlockParts DEF Understood
  <1> QED
    BY <1>1, <1>2, <1>3, <1>4, <1>5 DEF Event

\* What the invariant says of the first event on the wire.
LEMMA HeadParts ==
  ASSUME Following, NEW kind, Takes(kind)
  PROVE  /\ decoder \in Context /\ IsWellFormed(decoder.table) /\ IsWellFormed(eager)
         /\ wire \in Seq(Event) /\ Len(wire) \in Nat \ {0}
         /\ Head(wire) = wire[1] /\ Head(wire) \in Event /\ Head(wire).kind = kind
         /\ IsAccepted(decoder, Head(wire))
         /\ Understood(decoder, Head(wire)) = Head(wire).after
         /\ Head(wire).after \in Context
         /\ Head(wire).after.applied <= Len(offered)
  <1>1. /\ wire \in Seq(Event) /\ wire # << >> /\ Head(wire).kind = kind
        /\ decoder \in Context /\ IsWellFormed(decoder.table) /\ IsWellFormed(eager)
    BY DEF Following, TypeOK, Takes
  <1>2. Len(wire) \in Nat \ {0} /\ Head(wire) = wire[1] /\ wire[1] \in Event
        /\ 1 \in DOMAIN wire
    BY <1>1
  <1>3. wire[1].after \in Context
    BY <1>2 DEF Event
  <1>4. Before(1) = decoder
    BY DEF Before
  <1> QED
    BY <1>1, <1>2, <1>3, <1>4 DEF Following

\* The setting that the next acknowledgment is for is one that was offered.
LEMMA AckParts ==
  ASSUME Following, Takes("ack")
  PROVE  offered[decoder.applied + 1] \in 0 .. Capacity
  <1> DEFINE n == offered[decoder.applied + 1]
  <1>1. Head(wire).after = WithAllowed(decoder, n) /\ Head(wire).after.applied <= Len(offered)
    BY HeadParts DEF Understood
  <1>2. WithAllowed(decoder, n).applied = decoder.applied + 1
    BY HeadParts DEF WithAllowed, Context
  <1>3. decoder.applied \in Nat /\ Len(offered) \in Nat /\ offered \in Seq(Maxima)
    BY HeadParts, ContextParts DEF Following, TypeOK
  <1>4. decoder.applied + 1 \in 1 .. Len(offered)
    BY <1>1, <1>2, <1>3
  <1>5. n \in Maxima
    BY <1>3, <1>4, ElementOfSeq
  <1> QED
    BY <1>5, ConnectionAssumption

\* The decoder's side: it goes where the encoder was after the event that it takes.
LEMMA TakesFollows ==
  ASSUME Following, NEW kind, Takes(kind), decoder' = Head(wire).after,
         UNCHANGED failed, IsWellFormed(eager'),
         read' \in {NoField} \cup {<<f>> : f \in Field}
  PROVE  Following'
  <1>1. wire' = Tail(wire) /\ UNCHANGED <<encoder, offered, failed>>
    BY DEF Takes
  <1>2. /\ wire' \in Seq(Event) /\ Len(wire') = Len(wire) - 1
        /\ Len(wire) \in Nat \ {0} /\ Len(wire') \in Nat
        /\ DOMAIN wire' = 1 .. (Len(wire) - 1) /\ DOMAIN wire = 1 .. Len(wire)
        /\ \A i \in 1 .. (Len(wire) - 1) : wire'[i] = wire[i + 1]
    BY <1>1, HeadParts
  <1>3. decoder' \in Context /\ IsWellFormed(decoder'.table)
    <2>1. Head(wire).kind = "ack" => offered[decoder.applied + 1] \in 0 .. Capacity
      BY HeadParts, AckParts
    <2> QED
      BY <2>1, HeadParts, UnderstoodIsWellFormed
  <1>4. TypeOK'
    BY <1>1, <1>2, <1>3 DEF Following, TypeOK
  <1>5. ASSUME NEW i \in 1 .. Len(wire)
        PROVE  Before(i)' = Before(i + 1)
    <2>1. CASE i = 1
      BY <2>1, HeadParts DEF Before
    <2>2. CASE i # 1
      <3>1. i - 1 \in 1 .. (Len(wire) - 1) /\ (i - 1) + 1 = i /\ (i + 1) - 1 = i
            /\ i + 1 # 1
        BY <1>2, <2>2
      <3>2. wire'[i - 1] = wire[i]
        BY <1>2, <3>1
      <3> QED
        BY <2>2, <3>1, <3>2 DEF Before
    <2> QED
      BY <2>1, <2>2
  <1>6. ASSUME NEW i \in DOMAIN wire'
        PROVE  /\ IsAccepted(Before(i)', wire'[i])
               /\ Understood(Before(i), wire[i])' = wire'[i].after
               /\ wire'[i].after.applied <= Len(offered')
    <2>1. Understood(Before(i), wire[i])' = Understood(Before(i)', wire'[i])
      BY <1>1 DEF Understood
    <2>2. i \in 1 .. Len(wire) /\ i + 1 \in DOMAIN wire /\ wire'[i] = wire[i + 1]
      BY <1>2
    <2>3. Before(i)' = Before(i + 1)
      BY <1>5, <2>2
    <2> QED
      BY <1>1, <2>1, <2>2, <2>3 DEF Following
  <1>7. encoder' = Before(Len(wire) + 1)'
    <2>1. /\ Len(wire)' + 1 = Len(wire) /\ Len(wire) \in 1 .. Len(wire)
      BY <1>1, <1>2
    <2>2. encoder = Before(Len(wire) + 1)
      BY DEF Following
    <2>3. CASE Len(wire) = 1
      BY <1>1, <2>1, <2>2, <2>3, HeadParts DEF Before
    <2>4. CASE Len(wire) # 1
      <3>1. Len(wire) - 1 \in 1 .. (Len(wire) - 1) /\ (Len(wire) + 1) - 1 = Len(wire)
            /\ (Len(wire) - 1) + 1 = Len(wire) /\ Len(wire) + 1 # 1
        BY <1>2, <2>4
      <3>2. wire'[Len(wire) - 1] = wire[Len(wire)]
        BY <1>2, <3>1
      <3> QED
        BY <1>1, <2>1, <2>2, <2>4, <3>1, <3>2 DEF Before
    <2> QED
      BY <2>3, <2>4
  <1>8. failed' = NoError
    BY <1>1 DEF Following
  <1> QED
    BY <1>4, <1>6, <1>7, <1>8 DEF Following

LEMMA ReceiveAckFollows ==
  ASSUME Following, ReceiveAck
  PROVE  Following'
  <1> DEFINE n == offered[decoder.applied + 1]
             m == IF n < eager.maximum THEN n ELSE eager.maximum
  <1>1. /\ Takes("ack") /\ decoder' = WithAllowed(decoder, n)
        /\ eager' = WithMaximum(eager, m) /\ UNCHANGED <<read, failed>>
    BY DEF ReceiveAck
  <1>2. decoder' = Head(wire).after
    BY <1>1, HeadParts DEF Understood
  <1>3. m \in Nat
    BY <1>1, AckParts, HeadParts, HpackTableParts, CapacityAssumption
  <1> HIDE DEF m
  <1>4. IsWellFormed(eager')
    BY <1>1, <1>3, HeadParts, WithMaximumWellFormed
  <1> QED
    BY <1>1, <1>2, <1>4, TakesFollows DEF Following, TypeOK

LEMMA DecodeBlockFollows ==
  ASSUME Following, DecodeBlock
  PROVE  Following'
  <1>1. /\ Takes("begin") /\ decoder' = WithBlock(decoder)
        /\ UNCHANGED <<read, failed, eager>>
    BY DEF DecodeBlock
  <1>2. decoder' = Head(wire).after
    BY <1>1, HeadParts DEF Understood
  <1> QED
    BY <1>1, <1>2, TakesFollows DEF Following, TypeOK

LEMMA DecodeUpdateFollows ==
  ASSUME Following, DecodeUpdate
  PROVE  Following'
  <1> DEFINE m == Head(wire).size
  <1>1. /\ Takes("update") /\ eager' = WithMaximum(eager, m) /\ UNCHANGED read
        /\ Leaves(UpdateErrors(decoder, m), DecodedUpdate(decoder, m))
    BY DEF DecodeUpdate
  <1>2. UpdateErrors(decoder, m) = {} /\ m \in Nat
    BY <1>1, HeadParts, CapacityAssumption DEF IsAccepted, Event
  <1>3. decoder' = Head(wire).after /\ UNCHANGED failed
    BY <1>1, <1>2, HeadParts DEF Understood, Leaves
  <1>4. IsWellFormed(eager')
    BY <1>1, <1>2, HeadParts, WithMaximumWellFormed
  <1> QED
    BY <1>1, <1>3, <1>4, TakesFollows DEF Following, TypeOK

LEMMA DecodeFieldFollows ==
  ASSUME Following, DecodeField
  PROVE  Following'
  <1> DEFINE r == Head(wire).representation
             f == FieldRead(decoder, r)
  <1>1. Takes("field")
    BY DEF DecodeField
  <1>2. FieldErrors(decoder, r) = {} /\ f \in Field
    BY <1>1, HeadParts DEF IsAccepted, Event
  <1>3. /\ Leaves(FieldErrors(decoder, r), DecodedField(decoder, r))
        /\ read' = <<f>>
        /\ eager' = IF r.kind = "literal" /\ r.indexing
                    THEN WithInserted(eager, f) ELSE eager
    BY <1>2 DEF DecodeField
  <1>4. decoder' = Head(wire).after /\ UNCHANGED failed
    BY <1>1, <1>2, <1>3, HeadParts DEF Understood, Leaves
  <1>5. IsWellFormed(eager')
    BY <1>1, <1>2, <1>3, HeadParts, WithInsertedWellFormed
  <1>6. read' \in {NoField} \cup {<<g>> : g \in Field}
    BY <1>2, <1>3
  <1> QED
    BY <1>1, <1>4, <1>5, <1>6, TakesFollows

LEMMA CompleteBlockFollows ==
  ASSUME Following, CompleteBlock
  PROVE  Following'
  <1>1. /\ Takes("end") /\ UNCHANGED <<read, eager>>
        /\ Leaves(CompleteErrors(decoder), WithoutBlock(decoder))
    BY DEF CompleteBlock
  <1>2. CompleteErrors(decoder) = {}
    BY <1>1, HeadParts DEF IsAccepted
  <1>3. decoder' = Head(wire).after /\ UNCHANGED failed
    BY <1>1, <1>2, HeadParts DEF Understood, Leaves
  <1> QED
    BY <1>1, <1>3, TakesFollows DEF Following, TypeOK

\* A new offer leaves what was said of the earlier ones true: an acknowledgment on the
\* wire stands for one of those.
LEMMA SendSettingsFollows ==
  ASSUME Following, SendSettings
  PROVE  Following'
  <1>1. PICK n \in Maxima : offered' = Append(offered, n)
    BY DEF SendSettings
  <1>2. UNCHANGED <<encoder, decoder, wire, read, failed, eager>>
    BY DEF SendSettings
  <1>3. offered \in Seq(Maxima) /\ Len(offered) \in Nat /\ wire \in Seq(Event)
    BY DEF Following, TypeOK
  <1>4. /\ offered' \in Seq(Maxima) /\ Len(offered') = Len(offered) + 1
        /\ \A i \in 1 .. Len(offered) : offered'[i] = offered[i]
    BY <1>1, <1>3
  <1>5. TypeOK'
    BY <1>2, <1>3, <1>4, EncoderParts DEF Following, TypeOK
  <1>6. \A i \in Nat : Before(i)' = Before(i)
    BY <1>2 DEF Before
  <1>7. ASSUME NEW i \in DOMAIN wire
        PROVE  /\ IsAccepted(Before(i)', wire'[i])
               /\ Understood(Before(i), wire[i])' = wire'[i].after
               /\ wire'[i].after.applied <= Len(offered')
    <2>1. i \in Nat /\ Before(i)' = Before(i) /\ wire'[i] = wire[i]
      BY <1>2, <1>3, <1>6
    <2>2. /\ IsAccepted(Before(i), wire[i])
          /\ Understood(Before(i), wire[i]) = wire[i].after
          /\ wire[i].after.applied <= Len(offered)
      BY DEF Following
    <2>3. Before(i) \in Context /\ wire[i].after \in Context
      <3>1. \A j \in DOMAIN wire : wire[j].after \in Context
        <4>1. \A j \in DOMAIN wire : wire[j] \in Event
          BY <1>3
        <4> QED
          BY <4>1 DEF Event
      <3>2. i # 1 => i - 1 \in DOMAIN wire
        BY <1>3, <2>1
      <3> QED
        BY <3>1, <3>2 DEF Before, Following, TypeOK
    <2>4. Before(i).applied \in Nat /\ wire[i].after.applied \in Nat
      BY <2>3, ContextParts
    <2>5. Understood(Before(i), wire[i])' = wire[i].after
      <3>1. CASE wire[i].kind = "ack"
        <4> DEFINE k == Before(i).applied + 1
        <4>1. WithAllowed(Before(i), offered[k]).applied = k
          BY <2>3 DEF WithAllowed, Context
        <4>2. k \in 1 .. Len(offered)
          BY <1>3, <2>2, <2>4, <3>1, <4>1 DEF Understood
        <4>3. offered'[k] = offered[k]
          BY <1>4, <4>2
        <4>4. Understood(Before(i), wire[i])' = WithAllowed(Before(i)', offered'[Before(i)'.applied + 1])
          BY <1>2, <3>1 DEF Understood
        <4> QED
          BY <2>1, <2>2, <3>1, <4>3, <4>4 DEF Understood
      <3>2. CASE wire[i].kind # "ack"
        <4>1. Understood(Before(i), wire[i])' = Understood(Before(i), wire[i])
          BY <1>2, <2>1, <3>2 DEF Understood
        <4> QED
          BY <2>2, <4>1
      <3> QED
        BY <3>1, <3>2
    <2> QED
      BY <1>3, <1>4, <2>1, <2>2, <2>4, <2>5
  <1>8. encoder' = Before(Len(wire) + 1)' /\ failed' = NoError
    BY <1>2 DEF Following, Before
  <1> QED
    BY <1>2, <1>5, <1>7, <1>8 DEF Following

LEMMA StutterFollows ==
  ASSUME Following, UNCHANGED vars
  PROVE  Following'
  <1>1. /\ UNCHANGED <<encoder, decoder, wire, offered, read, failed, eager>>
    BY DEF vars
  <1>2. TypeOK'
    BY <1>1 DEF Following, TypeOK
  <1>3. ASSUME NEW i
        PROVE  /\ Before(i)' = Before(i)
               /\ IsAccepted(Before(i), wire[i])' = IsAccepted(Before(i), wire[i])
               /\ Understood(Before(i), wire[i])' = Understood(Before(i), wire[i])
    <2>1. Before(i)' = Before(i)
      BY <1>1 DEF Before
    <2>2. /\ IsAccepted(Before(i), wire[i])' = IsAccepted(Before(i)', wire'[i])
          /\ Understood(Before(i), wire[i])' = Understood(Before(i)', wire'[i])
      BY <1>1 DEF IsAccepted, Understood
    <2> QED
      BY <1>1, <2>1, <2>2
  <1>4. encoder' = Before(Len(wire) + 1)'
    BY <1>1, <1>3 DEF Following
  <1> QED
    BY <1>1, <1>2, <1>3, <1>4 DEF Following

\* Every step.
LEMMA FollowingStep ==
  ASSUME Following, [Next]_vars
  PROVE  Following'
  <1>1. ASSUME \E event : IsProduced(event) PROVE Following'
    BY <1>1, ProducesFollows
  <1>2. CASE ReceiveSettings \/ BeginBlock \/ EncodeUpdate \/ EncodeField \/ FinishBlock
    BY <1>1, <1>2, ReceiveSettingsProduces, BeginBlockProduces, EncodeUpdateProduces,
       EncodeFieldProduces, FinishBlockProduces
  <1> QED
    BY <1>2, ReceiveAckFollows, DecodeBlockFollows, DecodeUpdateFollows, DecodeFieldFollows,
       CompleteBlockFollows, SendSettingsFollows, StutterFollows DEF Next

\* The invariant holds of every behaviour.
THEOREM FollowingInvariant == Spec => []Following
  <1>1. Following /\ [Next]_vars => Following'
    BY FollowingStep
  <1> QED
    BY <1>1, InitFollows, PTL DEF Spec

\* Both tables stay well formed, packed from offset 0 and within their maxima.
THEOREM TypesStay == Spec => []TypeOK
  <1>1. Following => TypeOK
    BY DEF Following
  <1> QED
    BY <1>1, FollowingInvariant, PTL

\* The decoder never reports an error on what the encoder sent.
THEOREM DecoderNeverFails == Spec => []NeverFails
  <1>1. Following => NeverFails
    BY DEF Following, NeverFails
  <1> QED
    BY <1>1, FollowingInvariant, PTL

\* The decoder goes through the contexts that the encoder went through, reads every
\* field as it was meant, and has the encoder's context when nothing is on its way.
THEOREM DecoderFollowsEncoder == Spec => []DecoderFollows
  <1>1. Following => DecoderFollows
    BY DEF Following, DecoderFollows
  <1> QED
    BY <1>1, FollowingInvariant, PTL

-----------------------------------------------------------------------------
(***************************************************************************)
(* The maxima.  Whatever an end makes of an event that it accepts stays    *)
(* within bounds; both ends only ever do that.                             *)
(***************************************************************************)
\* An option is nothing or one value.
LEMMA OptionCases ==
  ASSUME NEW o \in Options
  PROVE  o = {} \/ \E m \in 0 .. Capacity : o = {m} /\ m \in Nat
  BY CapacityAssumption DEF Options

LEMMA ChangeStaysWithinBounds ==
  ASSUME NEW c \in Context, IsWithinBounds(c), NEW n \in 0 .. Capacity
  PROVE  IsWithinBounds(WithAllowed(c, n))
  <1> DEFINE u == WithAllowed(c, n)
  <1>1. /\ u.table = c.table /\ u.allowed = n
        /\ u.pending = IF n = c.allowed THEN c.pending ELSE WithChange(c.pending, n)
    BY WithAllowedParts
  <1> SUFFICES IsWithinBounds(u)
    OBVIOUS
  <1> HIDE DEF u
  <1>2. CASE n = c.allowed
    <2>1. u.pending = c.pending /\ u.allowed = c.allowed
      BY <1>1, <1>2
    <2> QED
      BY <1>1, <2>1 DEF IsWithinBounds
  <1>3. CASE n # c.allowed
    <2>1. u.pending = WithChange(c.pending, n)
      BY <1>1, <1>3
    <2>2. CASE \A m \in c.pending.minimum : n <= m
      <3>1. u.pending.minimum = {n} /\ u.pending.final = {}
        BY <2>1, <2>2 DEF WithChange
      <3>2. NextRequired(u.pending) = {n}
        BY <3>1 DEF NextRequired
      <3> QED
        BY <1>1, <3>1, <3>2 DEF IsWithinBounds
    <2>3. CASE ~ \A m \in c.pending.minimum : n <= m
      <3>1. u.pending.minimum = c.pending.minimum /\ u.pending.final = {n}
        BY <2>1, <2>3 DEF WithChange
      <3>2. PICK m \in Nat : c.pending.minimum = {m}
        BY <2>3, ContextParts, OptionCases
      <3>3. m < n
        BY <2>3, <3>2, CapacityAssumption
      <3>4. NextRequired(u.pending) = {m}
        BY <3>1, <3>2 DEF NextRequired
      <3> QED
        BY <1>1, <3>1, <3>2, <3>3, <3>4 DEF IsWithinBounds
    <2> QED
      BY <2>2, <2>3
  <1> QED
    BY <1>2, <1>3

LEMMA UpdateStaysWithinBounds ==
  ASSUME NEW c \in Context, IsWellFormed(c.table), IsWithinBounds(c), NEW m \in Nat,
         UpdateErrors(c, m) = {}
  PROVE  IsWithinBounds(DecodedUpdate(c, m))
  <1> DEFINE u == DecodedUpdate(c, m)
  <1>1. /\ u.table.maximum = m /\ u.allowed = c.allowed /\ u.pending = Advanced(c.pending)
    BY UpdateParts, WithMaximumWellFormed
  <1>2. m <= c.allowed /\ \A required \in NextRequired(c.pending) : m = required
    BY ContextParts DEF UpdateErrors
  <1> HIDE DEF u
  <1>3. u.pending.minimum = {}
    BY <1>1 DEF Advanced
  <1>4. NextRequired(u.pending) # {} => c.pending.minimum # {} /\ u.pending.final = c.pending.final
    BY <1>1 DEF Advanced, NextRequired
  <1>5. NextRequired(u.pending) # {} => u.allowed \in u.pending.final /\ u.pending.final # {}
    BY <1>1, <1>3, <1>4 DEF IsWithinBounds, NextRequired
  <1>6. IsWithinBounds(u)
    BY <1>1, <1>2, <1>3, <1>5 DEF IsWithinBounds
  <1> QED
    BY <1>6 DEF u

LEMMA UnderstoodStaysWithinBounds ==
  ASSUME NEW c \in Context, IsWellFormed(c.table), IsWithinBounds(c), NEW event \in Event,
         IsAccepted(c, event),
         event.kind = "ack" => offered[c.applied + 1] \in 0 .. Capacity
  PROVE  IsWithinBounds(Understood(c, event))
  <1> DEFINE u == Understood(c, event)
  <1>1. CASE event.kind = "ack"
    BY <1>1, ChangeStaysWithinBounds DEF Understood
  <1>2. CASE event.kind = "begin"
    BY <1>2, BlockParts DEF Understood, IsWithinBounds
  <1>3. CASE event.kind = "update"
    <2>1. event.size \in Nat /\ UpdateErrors(c, event.size) = {}
      BY <1>3, CapacityAssumption DEF Event, IsAccepted
    <2> QED
      BY <1>3, <2>1, UpdateStaysWithinBounds DEF Understood
  <1>4. CASE event.kind = "field"
    <2> DEFINE r == event.representation
               f == FieldRead(c, r)
    <2>1. f \in Field
      BY <1>4 DEF IsAccepted, Event
    <2>2. /\ u.table = IF r.kind = "literal" /\ r.indexing
                       THEN WithInserted(c.table, f) ELSE c.table
          /\ u.pending = c.pending /\ u.allowed = c.allowed
      BY <1>4 DEF Understood, DecodedField, Context
    <2> HIDE DEF u, f, r
    <2>3. u.table.maximum = c.table.maximum
      BY <2>1, <2>2, WithInsertedWellFormed
    <2>4. IsWithinBounds(u)
      BY <2>2, <2>3 DEF IsWithinBounds
    <2> QED
      BY <2>4 DEF u
  <1>5. CASE event.kind = "end"
    BY <1>5, BlockParts DEF Understood, IsWithinBounds
  <1> QED
    BY <1>1, <1>2, <1>3, <1>4, <1>5 DEF Event

\* What the decoder takes leaves it within bounds.
LEMMA DecoderStaysWithinBounds ==
  ASSUME Following, IsWithinBounds(decoder), NEW kind, Takes(kind)
  PROVE  IsWithinBounds(Head(wire).after)
  <1>1. Head(wire).kind = "ack" => offered[decoder.applied + 1] \in 0 .. Capacity
    BY HeadParts, AckParts
  <1> QED
    BY <1>1, HeadParts, UnderstoodStaysWithinBounds

\* The event that the encoder adds was made from the context that it had.
LEMMA EncoderStaysWithinBounds ==
  ASSUME Following, Following', IsWithinBounds(encoder), NEW event,
         Produces(event, event.after)
  PROVE  IsWithinBounds(encoder')
  <1>0. PICK n \in Nat : n = Len(wire) + 1
    BY DEF Following, TypeOK
  <1>1. /\ wire \in Seq(Event) /\ wire' \in Seq(Event) /\ wire' = Append(wire, event)
        /\ encoder' = event.after /\ UNCHANGED <<decoder, offered>>
    BY DEF Following, TypeOK, Produces
  <1>2. /\ Len(wire) \in Nat /\ Len(wire') = n /\ n \in DOMAIN wire'
        /\ wire'[n] = event /\ event \in Event
        /\ \A i \in 1 .. Len(wire) : wire'[i] = wire[i]
    <2>1. Len(wire) \in Nat /\ Len(wire') = n /\ n \in DOMAIN wire' /\ wire'[n] = event
          /\ \A i \in 1 .. Len(wire) : wire'[i] = wire[i]
      BY <1>0, <1>1
    <2>2. wire'[n] \in Event
      BY <1>1, <2>1, ElementOfSeq
    <2> QED
      BY <2>1, <2>2
  <1>3. Before(n)' = encoder
    BY <1>0, <1>1, <1>2 DEF Following, Before
  <1>4. /\ IsAccepted(encoder, event) /\ Understood(encoder, event) = event.after
        /\ event.after.applied <= Len(offered)
    <2>1. /\ IsAccepted(Before(n)', wire'[n]) /\ Understood(Before(n), wire[n])' = wire'[n].after
          /\ wire'[n].after.applied <= Len(offered')
      BY <1>1, <1>2 DEF Following
    <2>2. Understood(Before(n), wire[n])' = Understood(Before(n)', wire'[n])
      BY <1>1 DEF Understood
    <2> QED
      BY <1>1, <1>2, <1>3, <2>1, <2>2
  <1>5. event.kind = "ack" => offered[encoder.applied + 1] \in 0 .. Capacity
    <2> DEFINE k == encoder.applied + 1
    <2>1. SUFFICES ASSUME event.kind = "ack" PROVE offered[k] \in 0 .. Capacity
      OBVIOUS
    <2>2. WithAllowed(encoder, offered[k]) = event.after
      BY <1>4, <2>1 DEF Understood
    <2>3. event.after.applied = k
      BY <2>2, EncoderParts DEF WithAllowed, Context
    <2>4. offered[k] \in Maxima
      BY <1>4, <2>3, EncoderParts, ElementOfSeq
    <2> QED
      BY <2>4, ConnectionAssumption
  <1> QED
    BY <1>1, <1>2, <1>4, <1>5, EncoderParts, UnderstoodStaysWithinBounds

\* The initial contexts.
LEMMA InitIsWithinBounds == Init => IsWithinBounds(encoder) /\ IsWithinBounds(decoder)
  <1> SUFFICES ASSUME Init PROVE IsWithinBounds(encoder)
    BY DEF Init
  <1>1. PICK n \in Maxima : encoder = NewContext(InitialMaximum, n)
    BY DEF Init
  <1>2. n \in Nat /\ InitialMaximum \in Nat
    BY ConnectionAssumption, CapacityAssumption
  <1>3. /\ encoder.table.maximum = InitialMaximum /\ encoder.allowed = n
        /\ encoder.pending.minimum = (IF InitialMaximum > n THEN {n} ELSE {})
        /\ encoder.pending.final = {}
    BY <1>1 DEF NewContext, EmptyTable
  <1> QED
    BY <1>2, <1>3 DEF IsWithinBounds, NextRequired

Bounded ==
  /\ Following
  /\ MaximaStayAllowed

LEMMA BoundedStep ==
  ASSUME Bounded, [Next]_vars
  PROVE  MaximaStayAllowed'
  <1> USE DEF Bounded
  <1>1. Following'
    BY FollowingStep
  <1>2. IsWithinBounds(encoder) /\ IsWithinBounds(decoder)
    BY DEF MaximaStayAllowed
  <1>3. ASSUME NEW event, NEW after, Produces(event, after), event.after = after
        PROVE  MaximaStayAllowed'
    <2>1. IsWithinBounds(encoder') /\ UNCHANGED decoder
      BY <1>1, <1>2, <1>3, EncoderStaysWithinBounds DEF Produces
    <2> QED
      BY <1>2, <2>1 DEF MaximaStayAllowed
  <1>4. ASSUME NEW kind, Takes(kind), decoder' = Head(wire).after \/ UNCHANGED decoder
        PROVE  MaximaStayAllowed'
    <2>1. IsWithinBounds(decoder') /\ UNCHANGED encoder
      BY <1>2, <1>4, DecoderStaysWithinBounds DEF Takes
    <2> QED
      BY <1>2, <2>1 DEF MaximaStayAllowed
  <1>5. CASE SendSettings \/ UNCHANGED vars
    BY <1>2, <1>5 DEF SendSettings, vars, MaximaStayAllowed
  <1>6. CASE ReceiveSettings
    BY <1>3, <1>6 DEF ReceiveSettings
  <1>7. CASE BeginBlock
    BY <1>3, <1>7 DEF BeginBlock
  <1>8. CASE EncodeUpdate
    <2>1. PICK m : Produces([kind |-> "update", size |-> m, after |-> EncodedUpdate(encoder, m)],
                            EncodedUpdate(encoder, m))
      BY <1>8 DEF EncodeUpdate
    <2> QED
      BY <1>3, <2>1
  <1>9. CASE EncodeField
    <2>1. PICK r : Produces([kind |-> "field", representation |-> r,
                             meant |-> Meant(encoder, r), after |-> EncodedField(encoder, r)],
                            EncodedField(encoder, r))
      BY <1>9 DEF EncodeField
    <2> QED
      BY <1>3, <2>1
  <1>10. CASE FinishBlock
    BY <1>3, <1>10 DEF FinishBlock
  <1>11. CASE ReceiveAck
    BY <1>4, <1>11, HeadParts DEF ReceiveAck, Understood
  <1>12. CASE DecodeBlock
    BY <1>4, <1>12, HeadParts DEF DecodeBlock, Understood
  <1>13. CASE DecodeUpdate
    BY <1>4, <1>13, HeadParts DEF DecodeUpdate, Understood, Leaves
  <1>14. CASE DecodeField
    BY <1>4, <1>14, HeadParts DEF DecodeField, Understood, Leaves
  <1>15. CASE CompleteBlock
    BY <1>4, <1>15, HeadParts DEF CompleteBlock, Understood, Leaves
  <1> QED
    BY <1>5, <1>6, <1>7, <1>8, <1>9, <1>10, <1>11, <1>12, <1>13, <1>14, <1>15 DEF Next

\* Every required update is one the encoder may make, and once the first is made the
\* table is within the allowed maximum, at both ends.
THEOREM MaximaAreAllowed == Spec => []MaximaStayAllowed
  <1>1. Init => MaximaStayAllowed
    BY InitIsWithinBounds DEF MaximaStayAllowed
  <1>2. Following /\ MaximaStayAllowed /\ [Next]_vars => MaximaStayAllowed'
    BY BoundedStep DEF Bounded
  <1> QED
    BY <1>1, <1>2, FollowingInvariant, PTL DEF Spec

-----------------------------------------------------------------------------
(***************************************************************************)
(* Waiting for the next block loses nothing.  Until the first required     *)
(* update arrives, the table that shrinks at once is what that update will *)
(* make of the decoder's; later changes only replace the update by a       *)
(* smaller one, or follow it.                                              *)
(***************************************************************************)
Lesser(m, n) == IF m < n THEN m ELSE n

Deferred(c) ==
  /\ c.pending.minimum = {} => eager = c.table
  /\ \A m \in c.pending.minimum : eager = WithMaximum(c.table, Lesser(m, c.table.maximum))

FieldsCome(c) == c.block = "fields" => NextRequired(c.pending) = {}

Deferring == Deferred(decoder) /\ FieldsCome(decoder)

\* A table given the maximum that it has is unchanged.
LEMMA SameMaximum ==
  ASSUME NEW t, IsWellFormed(t)
  PROVE  WithMaximum(t, t.maximum) = t
  BY HpackTableParts, NothingToEvict

LEMMA InitDefers == Init => Deferring
  <1> SUFFICES ASSUME Init PROVE Deferring
    OBVIOUS
  <1>1. PICK n \in Maxima : decoder = NewContext(InitialMaximum, n)
    BY DEF Init
  <1> DEFINE t == EmptyTable(InitialMaximum)
  <1>2. n \in Nat /\ InitialMaximum \in Nat
    BY ConnectionAssumption, CapacityAssumption
  <1>3. /\ decoder.table = t /\ decoder.allowed = n /\ decoder.block = "closed"
        /\ decoder.pending.minimum = (IF InitialMaximum > n THEN {n} ELSE {})
    BY <1>1 DEF NewContext
  <1>4. eager = EmptyTable(IF InitialMaximum > n THEN n ELSE InitialMaximum)
    BY <1>3 DEF Init
  <1>5. IsWellFormed(t) /\ t.maximum = InitialMaximum /\ t.entries = << >>
    BY <1>1, NewContextType DEF EmptyTable
  <1>6. WithMaximum(t, n) = EmptyTable(n)
    <2>1. Kept(t, n) \in 0 .. Len(t.entries) /\ Len(t.entries) = 0
      BY <1>2, <1>5, KeptRetains
    <2>2. Kept(t, n) = 0
      BY <2>1
    <2>3. SubSeq(t.entries, 1, 0) = << >>
      BY <1>5
    <2> QED
      BY <2>2, <2>3 DEF WithMaximum, EmptyTable
  <1>7. Deferred(decoder)
    <2>1. CASE InitialMaximum > n
      <3>1. Lesser(n, InitialMaximum) = n
        BY <1>2, <2>1 DEF Lesser
      <3> QED
        BY <1>3, <1>4, <1>5, <1>6, <2>1, <3>1 DEF Deferred
    <2>2. CASE ~(InitialMaximum > n)
      BY <1>3, <1>4, <2>2 DEF Deferred
    <2> QED
      BY <2>1, <2>2
  <1> QED
    BY <1>3, <1>7 DEF Deferring, FieldsCome

LEMMA ReceiveAckDefers ==
  ASSUME Following, IsWithinBounds(decoder), Deferring, ReceiveAck
  PROVE  Deferring'
  <1> DEFINE n == offered[decoder.applied + 1]
             t == decoder.table
             k == Lesser(n, eager.maximum)
  <1>1. /\ Takes("ack") /\ decoder' = WithAllowed(decoder, n) /\ eager' = WithMaximum(eager, k)
    BY DEF ReceiveAck, Lesser
  <1>2. n \in 0 .. Capacity /\ n \in Nat
    BY <1>1, AckParts, CapacityAssumption
  <1>3. /\ decoder \in Context /\ IsWellFormed(t) /\ IsWellFormed(eager)
        /\ t.maximum \in Nat /\ eager.maximum \in Nat
        /\ decoder.block = "closed" /\ decoder.allowed \in Nat
    BY <1>1, HeadParts, HpackTableParts, ContextParts DEF IsAccepted
  <1> HIDE DEF n
  <1>4. /\ decoder'.table = t /\ decoder'.block = "closed"
        /\ decoder'.pending =
             IF n = decoder.allowed THEN decoder.pending ELSE WithChange(decoder.pending, n)
    BY <1>1, <1>2, <1>3, WithAllowedParts
  <1>5. n >= eager.maximum => eager' = eager
    <2>1. n >= eager.maximum => k = eager.maximum
      BY <1>2, <1>3 DEF Lesser
    <2> QED
      BY <1>1, <1>3, <2>1, SameMaximum
  <1>6. CASE decoder.pending.minimum = {}
    <2>1. eager = t /\ t.maximum <= decoder.allowed
      BY <1>6 DEF Deferring, Deferred, IsWithinBounds
    <2>2. CASE n = decoder.allowed
      BY <1>4, <1>5, <1>6, <2>1, <2>2 DEF Deferring, Deferred, FieldsCome
    <2>3. CASE n # decoder.allowed
      <3>1. decoder'.pending.minimum = {n}
        BY <1>4, <1>6, <2>3 DEF WithChange
      <3>2. eager' = WithMaximum(t, Lesser(n, t.maximum))
        BY <1>1, <2>1
      <3> QED
        BY <1>4, <3>1, <3>2 DEF Deferring, Deferred, FieldsCome
    <2> QED
      BY <2>2, <2>3
  <1>7. CASE decoder.pending.minimum # {}
    <2>1. PICK m \in Nat : decoder.pending.minimum = {m}
      BY <1>3, <1>7, ContextParts, OptionCases
    <2> DEFINE j == Lesser(m, t.maximum)
    <2>2. j \in Nat /\ j <= m /\ j <= t.maximum
      BY <1>3 DEF Lesser
    <2>3. eager = WithMaximum(t, j)
      BY <2>1 DEF Deferring, Deferred
    <2>4. eager.maximum = j
      <3> HIDE DEF j
      <3> QED
        BY <1>3, <2>2, <2>3, WithMaximumWellFormed
    <2>5. m <= decoder.allowed
      <3>1. NextRequired(decoder.pending) # {}
        BY <2>1 DEF NextRequired
      <3>2. decoder.pending.final \in Options
        BY <1>3, ContextParts
      <3>3. CASE decoder.pending.final = {}
        BY <1>3, <2>1, <3>1, <3>3 DEF IsWithinBounds
      <3>4. CASE decoder.pending.final # {}
        BY <1>3, <2>1, <3>1, <3>4 DEF IsWithinBounds
      <3> QED
        BY <3>3, <3>4
    <2>6. CASE n = decoder.allowed
      <3>1. eager' = eager
        BY <1>2, <1>3, <1>5, <2>2, <2>4, <2>5, <2>6
      <3> QED
        BY <1>4, <2>1, <2>3, <2>6, <3>1 DEF Deferring, Deferred, FieldsCome
    <2>7. CASE n # decoder.allowed /\ n <= m
      <3>1. decoder'.pending.minimum = {n}
        BY <1>4, <2>1, <2>7 DEF WithChange
      <3>2. k = Lesser(n, t.maximum) /\ k \in Nat /\ k <= j
        BY <1>2, <1>3, <2>2, <2>4, <2>7 DEF Lesser
      <3>3. eager' = WithMaximum(t, k)
        <4> HIDE DEF j, k
        <4> QED
          BY <1>1, <1>3, <2>2, <2>3, <3>2, ShrinkingComposes
      <3> QED
        BY <1>4, <3>1, <3>2, <3>3 DEF Deferring, Deferred, FieldsCome
    <2>8. CASE n # decoder.allowed /\ ~(n <= m)
      <3>1. decoder'.pending.minimum = {m}
        BY <1>4, <2>1, <2>8 DEF WithChange
      <3>2. eager' = eager
        BY <1>2, <1>3, <1>5, <2>2, <2>4, <2>8
      <3> QED
        BY <1>4, <2>3, <3>1, <3>2 DEF Deferring, Deferred, FieldsCome
    <2> QED
      BY <2>6, <2>7, <2>8
  <1> QED
    BY <1>6, <1>7

LEMMA DecodeUpdateDefers ==
  ASSUME Following, Deferring, DecodeUpdate
  PROVE  Deferring'
  <1> DEFINE m == Head(wire).size
             t == decoder.table
  <1>1. /\ Takes("update") /\ eager' = WithMaximum(eager, m)
        /\ Leaves(UpdateErrors(decoder, m), DecodedUpdate(decoder, m))
    BY DEF DecodeUpdate
  <1>2. UpdateErrors(decoder, m) = {} /\ m \in Nat
    BY <1>1, HeadParts, CapacityAssumption DEF IsAccepted, Event
  <1>3. decoder' = DecodedUpdate(decoder, m)
    BY <1>1, <1>2 DEF Leaves
  <1>4. /\ decoder \in Context /\ IsWellFormed(t) /\ t.maximum \in Nat
    BY <1>1, HeadParts, HpackTableParts
  <1> HIDE DEF m
  <1>5. /\ decoder'.table = WithMaximum(t, m) /\ decoder'.block = decoder.block
        /\ decoder'.pending = Advanced(decoder.pending)
    BY <1>2, <1>3, <1>4, UpdateParts
  <1>6. decoder'.pending.minimum = {}
    BY <1>5 DEF Advanced
  <1>7. eager' = WithMaximum(t, m)
    <2>1. CASE decoder.pending.minimum = {}
      BY <1>1, <2>1 DEF Deferring, Deferred
    <2>2. CASE decoder.pending.minimum # {}
      <3>1. PICK required \in Nat : decoder.pending.minimum = {required}
        BY <1>4, <2>2, ContextParts, OptionCases
      <3>2. m = required
        BY <1>2, <3>1 DEF UpdateErrors, NextRequired
      <3>3. eager = WithMaximum(t, Lesser(m, t.maximum))
        BY <3>1, <3>2 DEF Deferring, Deferred
      <3>4. CASE m < t.maximum
        <4>1. eager = WithMaximum(t, m)
          BY <3>3, <3>4 DEF Lesser
        <4> QED
          BY <1>1, <1>2, <1>4, <4>1, ShrinkingComposes
      <3>5. CASE ~(m < t.maximum)
        <4>1. eager = t
          BY <1>4, <3>3, <3>5, SameMaximum DEF Lesser
        <4> QED
          BY <1>1, <4>1
      <3> QED
        BY <3>4, <3>5
    <2> QED
      BY <2>1, <2>2
  <1>8. decoder.block # "fields"
    BY <1>2 DEF UpdateErrors
  <1> QED
    BY <1>5, <1>6, <1>7, <1>8 DEF Deferring, Deferred, FieldsCome

LEMMA DecodeFieldDefers ==
  ASSUME Following, Deferring, DecodeField
  PROVE  Deferring'
  <1> DEFINE r == Head(wire).representation
             f == FieldRead(decoder, r)
  <1>1. Takes("field")
    BY DEF DecodeField
  <1>2. FieldErrors(decoder, r) = {} /\ decoder \in Context
    BY <1>1, HeadParts DEF IsAccepted
  <1>3. /\ decoder' = DecodedField(decoder, r)
        /\ eager' = IF r.kind = "literal" /\ r.indexing
                    THEN WithInserted(eager, f) ELSE eager
    BY <1>2 DEF DecodeField, Leaves
  <1>4. NextRequired(decoder.pending) = {}
    BY <1>2 DEF FieldErrors
  <1>5. decoder.pending.minimum = {} /\ eager = decoder.table
    BY <1>4 DEF NextRequired, Deferring, Deferred
  <1>6. /\ decoder'.pending = decoder.pending
        /\ decoder'.table = IF r.kind = "literal" /\ r.indexing
                            THEN WithInserted(decoder.table, f) ELSE decoder.table
    BY <1>2, <1>3 DEF DecodedField, Context
  <1> HIDE DEF r, f
  <1>7. decoder'.table = eager'
    BY <1>3, <1>5, <1>6
  <1> QED
    BY <1>4, <1>5, <1>6, <1>7 DEF Deferring, Deferred, FieldsCome

\* The other steps leave the decoder's table and what is pending alone.
LEMMA OthersDefer ==
  ASSUME Following, Deferring, [Next]_vars,
         ~ReceiveAck, ~DecodeUpdate, ~DecodeField
  PROVE  Deferring'
  <1>1. ASSUME UNCHANGED <<decoder, eager>> PROVE Deferring'
    BY <1>1 DEF Deferring, Deferred, FieldsCome
  <1>2. ASSUME NEW kind, Takes(kind), NEW u \in {WithBlock(decoder), WithoutBlock(decoder)},
               decoder' = u, UNCHANGED eager
        PROVE  Deferring'
    <2>1. /\ u.table = decoder.table /\ u.pending = decoder.pending /\ u.block # "fields"
      BY <1>2, HeadParts, BlockParts
    <2> QED
      BY <1>2, <2>1 DEF Deferring, Deferred, FieldsCome
  <1>3. CASE DecodeBlock
    BY <1>2, <1>3 DEF DecodeBlock
  <1>4. CASE CompleteBlock
    <2>1. CompleteErrors(decoder) = {}
      BY <1>4, HeadParts DEF CompleteBlock, IsAccepted
    <2> QED
      BY <1>2, <1>4, <2>1 DEF CompleteBlock, Leaves
  <1>5. CASE SendSettings \/ UNCHANGED vars
    BY <1>1, <1>5 DEF SendSettings, vars
  <1>6. CASE ReceiveSettings \/ BeginBlock \/ EncodeUpdate \/ EncodeField \/ FinishBlock
    BY <1>1, <1>6
       DEF ReceiveSettings, BeginBlock, EncodeUpdate, EncodeField, FinishBlock, Produces
  <1> QED
    BY <1>3, <1>4, <1>5, <1>6 DEF Next

\* When fields are read the decoder's table is what it would be had it shrunk with each
\* acknowledged change: the required updates leave no entry that a maximum in between
\* had to evict, and evict no other.
THEOREM ReductionsAreKept == Spec => []ReductionsAreNotLost
  <1>1. Following /\ MaximaStayAllowed /\ Deferring /\ [Next]_vars => Deferring'
    BY ReceiveAckDefers, DecodeUpdateDefers, DecodeFieldDefers, OthersDefer
       DEF MaximaStayAllowed
  <1>2. Spec => []Deferring
    BY <1>1, InitDefers, FollowingInvariant, MaximaAreAllowed, PTL DEF Spec
  <1>3. Deferring => ReductionsAreNotLost
    <2> SUFFICES ASSUME Deferring, decoder.block = "fields"
                 PROVE  decoder.table = eager
      BY DEF ReductionsAreNotLost
    <2>1. decoder.pending.minimum = {}
      BY DEF Deferring, FieldsCome, NextRequired
    <2> QED
      BY <2>1 DEF Deferring, Deferred
  <1> QED
    BY <1>2, <1>3, PTL

-----------------------------------------------------------------------------
(***************************************************************************)
(* The connection implements HeaderChannel.  What is still to be delivered *)
(* are the fields meant by the events on the wire: producing an event adds *)
(* its field at the end, reading one takes its field from the front.       *)
(***************************************************************************)

\* f gathers the fields that the first events mean.
Gathered(f, events, i) ==
  IF i = 0 THEN << >>
  ELSE IF events[i].kind = "field" THEN Append(f[i - 1], events[i].meant)
  ELSE f[i - 1]

Gathers(f, events, n) == f = [i \in 0 .. n |-> Gathered(f, events, i)]

\* Among numbers with a property there is a least.
LEMMA LeastNumber ==
  ASSUME NEW S \in SUBSET Nat, S # {}
  PROVE  \E n \in S : \A m \in S : ~ (m < n)
  <1>1. PICK n \in S : \A m \in S : ~ (<<m, n>> \in OpToRel(<, Nat))
    BY NatLessThanWellFounded, WFMin
  <1>2. ASSUME NEW m \in S PROVE ~ (m < n)
    <2>1. m \in Nat /\ n \in Nat
      OBVIOUS
    <2>2. <<m, n>> \in OpToRel(<, Nat) <=> m < n
      BY <2>1 DEF OpToRel
    <2> QED
      BY <1>1, <2>2
  <1> QED
    BY <1>2

\* What holds at 0 and is passed on holds at every number up to n.
LEMMA UpTo ==
  ASSUME NEW n \in Nat, NEW Bad, Bad \subseteq 0 .. n, 0 \notin Bad,
         \A i \in 1 .. n : i \in Bad => i - 1 \in Bad
  PROVE  Bad = {}
  <1>1. SUFFICES ASSUME Bad # {} PROVE FALSE
    OBVIOUS
  <1>2. Bad \in SUBSET Nat
    OBVIOUS
  <1>3. PICK i \in Bad : \A m \in Bad : ~ (m < i)
    BY <1>1, <1>2, LeastNumber
  <1>4. i \in 1 .. n /\ i - 1 < i
    BY <1>3
  <1> QED
    BY <1>3, <1>4

\* There is such a function for every list of events,
LEMMA GatheringExists ==
  ASSUME NEW events, NEW n \in Nat
  PROVE  \E f : Gathers(f, events, n)
  <1> DEFINE without == {i \in 0 .. n : ~ \E f : Gathers(f, events, i)}
  <1>1. 0 \notin without
    <2>1. Gathers([i \in 0 .. 0 |-> << >>], events, 0)
      BY DEF Gathers, Gathered
    <2> QED
      BY <2>1
  <1>2. ASSUME NEW k \in 1 .. n, k \in without PROVE k - 1 \in without
    <2>1. SUFFICES ASSUME NEW g, Gathers(g, events, k - 1) PROVE FALSE
      <3>1. k - 1 \in 0 .. n
        OBVIOUS
      <3> QED
        BY <2>1, <3>1, Zenon
    <2> DEFINE f == [i \in 0 .. k |-> IF i = k THEN Gathered(g, events, k) ELSE g[i]]
    <2>2. ASSUME NEW i \in 0 .. k PROVE f[i] = Gathered(f, events, i)
      <3>1. i # 0 => f[i - 1] = g[i - 1]
        OBVIOUS
      <3>2. Gathered(f, events, i) = Gathered(g, events, i)
        <4> HIDE DEF f
        <4> QED
          BY <3>1 DEF Gathered
      <3>3. CASE i = k
        BY <3>2, <3>3
      <3>4. CASE i # k
        <4>1. i \in 0 .. (k - 1)
          BY <3>4
        <4>2. g[i] = Gathered(g, events, i)
          BY <2>1, <4>1 DEF Gathers
        <4> QED
          BY <3>2, <3>4, <4>2
      <3> QED
        BY <3>3, <3>4
    <2>3. Gathers(f, events, k)
      BY <2>2 DEF Gathers
    <2>4. ~ \E h : Gathers(h, events, k)
      BY <1>2
    <2> HIDE DEF f
    <2> QED
      BY <2>3, <2>4
  <1>3. without = {}
    <2>1. without \subseteq 0 .. n
      OBVIOUS
    <2> HIDE DEF without
    <2> QED
      BY <1>1, <1>2, <2>1, UpTo
  <1>4. n \in 0 .. n /\ n \notin without
    <2> HIDE DEF without
    <2> QED
      BY <1>3
  <1> QED
    BY <1>4

\* and it is what the state function evaluates.
LEMMA MeaningsAreGathered ==
  ASSUME NEW events \in Seq(Event)
  PROVE  \E f : Gathers(f, events, Len(events)) /\ MeaningsOf(events) = f[Len(events)]
  <1> DEFINE upTo == CHOOSE f : Gathers(f, events, Len(events))
  <1>1. Gathers(upTo, events, Len(events))
    <2>1. Len(events) \in Nat
      OBVIOUS
    <2> QED
      BY <2>1, GatheringExists
  <1>2. MeaningsOf(events) = upTo[Len(events)]
    BY DEF MeaningsOf, Gathers, Gathered
  <1> QED
    BY <1>1, <1>2

\* It gathers fields.
LEMMA GatheredTyped ==
  ASSUME NEW events \in Seq(Event), NEW n \in 0 .. Len(events), NEW f,
         Gathers(f, events, n)
  PROVE  \A i \in 0 .. n : f[i] \in Seq(Field)
  <1> DEFINE bad == {i \in 0 .. n : f[i] \notin Seq(Field)}
  <1>1. \A i \in 0 .. n : f[i] = Gathered(f, events, i)
    BY DEF Gathers
  <1>2. n \in Nat /\ Len(events) \in Nat
    OBVIOUS
  <1>3. 0 \notin bad
    <2>1. 0 \in 0 .. n
      BY <1>2
    <2>2. f[0] = << >>
      BY <1>1, <2>1 DEF Gathered
    <2>3. << >> \in Seq(Field)
      OBVIOUS
    <2> QED
      BY <2>2, <2>3
  <1>4. ASSUME NEW i \in 1 .. n, i - 1 \notin bad PROVE i \notin bad
    <2>1. i \in 0 .. n /\ i - 1 \in 0 .. n /\ i # 0 /\ i \in 1 .. Len(events)
      BY <1>2
    <2>2. f[i - 1] \in Seq(Field)
      BY <1>4, <2>1
    <2>3. events[i] \in Event
      BY <2>1, ElementOfSeq
    <2>4. events[i].kind = "field" => events[i].meant \in Field
      BY <2>3 DEF Event
    <2>5. f[i] = Gathered(f, events, i)
      BY <1>1, <2>1
    <2>6. Gathered(f, events, i) \in Seq(Field)
      <3>1. CASE events[i].kind = "field"
        <4>1. Append(f[i - 1], events[i].meant) \in Seq(Field)
          BY <2>2, <2>4, <3>1
        <4> QED
          BY <2>1, <3>1, <4>1 DEF Gathered
      <3>2. CASE events[i].kind # "field"
        BY <2>1, <2>2, <3>2 DEF Gathered
      <3> QED
        BY <3>1, <3>2
    <2> QED
      BY <2>5, <2>6
  <1>5. bad = {}
    <2>1. bad \subseteq 0 .. n
      OBVIOUS
    <2>2. \A i \in 1 .. n : i \in bad => i - 1 \in bad
      BY <1>4
    <2> HIDE DEF bad
    <2> QED
      BY <1>2, <1>3, <2>1, <2>2, UpTo
  <1> QED
    BY <1>5

\* Lists that begin alike gather alike.
BeginAlike(p, q, n) == \A i \in 1 .. n : p[i] = q[i]

LEMMA GatheringsAgree ==
  ASSUME NEW p, NEW q, NEW n \in Nat, NEW m \in Nat, n <= m, BeginAlike(p, q, n)
  PROVE  \A f, g : Gathers(f, p, n) /\ Gathers(g, q, m) => f[n] = g[n]
  <1> SUFFICES ASSUME NEW f, Gathers(f, p, n), NEW g, Gathers(g, q, m)
               PROVE  f[n] = g[n]
    OBVIOUS
  <1> DEFINE bad == {i \in 0 .. n : f[i] # g[i]}
  <1>1. ASSUME NEW i \in 0 .. n
        PROVE  f[i] = Gathered(f, p, i) /\ g[i] = Gathered(g, q, i)
    <2>1. i \in 0 .. m
      OBVIOUS
    <2> QED
      BY <2>1 DEF Gathers
  <1>2. 0 \notin bad
    <2>1. f[0] = Gathered(f, p, 0) /\ g[0] = Gathered(g, q, 0)
      BY <1>1
    <2> QED
      BY <2>1 DEF Gathered
  <1>3. ASSUME NEW i \in 1 .. n, i - 1 \notin bad PROVE i \notin bad
    <2>1. f[i - 1] = g[i - 1] /\ p[i] = q[i]
      BY <1>3 DEF BeginAlike
    <2>2. f[i] = Gathered(f, p, i) /\ g[i] = Gathered(g, q, i)
      BY <1>1
    <2> QED
      BY <2>1, <2>2 DEF Gathered
  <1>4. bad = {}
    <2>1. bad \subseteq 0 .. n
      OBVIOUS
    <2>2. \A i \in 1 .. n : i \in bad => i - 1 \in bad
      BY <1>3
    <2> HIDE DEF bad
    <2> QED
      BY <1>2, <2>1, <2>2, UpTo
  <1>5. n \in 0 .. n
    OBVIOUS
  <1> QED
    BY <1>4, <1>5

\* The field of one event.
FieldOf(event) == IF event.kind = "field" THEN <<event.meant>> ELSE << >>

LEMMA FieldOfTyped ==
  ASSUME NEW event \in Event
  PROVE  FieldOf(event) \in Seq(Field)
  BY DEF FieldOf, Event

LEMMA MeaningsTyped ==
  ASSUME NEW events \in Seq(Event)
  PROVE  MeaningsOf(events) \in Seq(Field)
  <1>1. PICK f : Gathers(f, events, Len(events)) /\ MeaningsOf(events) = f[Len(events)]
    BY MeaningsAreGathered
  <1>2. Len(events) \in 0 .. Len(events)
    OBVIOUS
  <1> QED
    BY <1>1, <1>2, GatheredTyped

\* Nothing on the wire, nothing to deliver.
LEMMA MeaningsOfNone == MeaningsOf(<< >>) = << >>
  <1>1. << >> \in Seq(Event) /\ Len(<< >>) = 0
    OBVIOUS
  <1>2. PICK f : Gathers(f, << >>, 0) /\ MeaningsOf(<< >>) = f[0]
    BY <1>1, MeaningsAreGathered
  <1>3. f[0] = Gathered(f, << >>, 0)
    BY <1>2 DEF Gathers
  <1> QED
    BY <1>2, <1>3 DEF Gathered

\* A further event adds its field at the end.
LEMMA MeaningsAppended ==
  ASSUME NEW events \in Seq(Event), NEW event \in Event
  PROVE  MeaningsOf(Append(events, event)) =
           IF event.kind = "field" THEN Append(MeaningsOf(events), event.meant)
           ELSE MeaningsOf(events)
  <1> DEFINE n == Len(events)
             longer == Append(events, event)
  <1>1. /\ longer \in Seq(Event) /\ Len(longer) = n + 1 /\ n \in Nat /\ n + 1 \in Nat
        /\ \A i \in 1 .. n : events[i] = longer[i]
        /\ longer[n + 1] = event
    OBVIOUS
  <1>2. PICK f : Gathers(f, events, n) /\ MeaningsOf(events) = f[n]
    BY MeaningsAreGathered
  <1> HIDE DEF longer
  <1>3. PICK g : Gathers(g, longer, n + 1) /\ MeaningsOf(longer) = g[n + 1]
    BY <1>1, MeaningsAreGathered
  <1>4. f[n] = g[n]
    <2> DEFINE m == n + 1
    <2>1. /\ n \in Nat /\ m \in Nat /\ n <= m
          /\ BeginAlike(events, longer, n)
      BY <1>1 DEF BeginAlike
    <2>2. Gathers(f, events, n) /\ Gathers(g, longer, m)
      BY <1>2, <1>3
    <2> HIDE DEF n, m
    <2>3. \A h, k : Gathers(h, events, n) /\ Gathers(k, longer, m) => h[n] = k[n]
      BY <2>1, GatheringsAgree
    <2> QED
      BY <2>2, <2>3
  <1>5. g[n + 1] = Gathered(g, longer, n + 1)
    BY <1>1, <1>3 DEF Gathers
  <1>6. Gathered(g, longer, n + 1) =
          IF event.kind = "field" THEN Append(g[n], event.meant) ELSE g[n]
    BY <1>1 DEF Gathered
  <1> QED
    BY <1>2, <1>3, <1>4, <1>5, <1>6 DEF longer

\* The field of the first event is at the front.
LEMMA MeaningsInFront ==
  ASSUME NEW events \in Seq(Event), events # << >>
  PROVE  MeaningsOf(events) = FieldOf(Head(events)) \o MeaningsOf(Tail(events))
  <1> DEFINE rest == Tail(events)
             n == Len(rest)
             front == FieldOf(events[1])
  <1>1. /\ rest \in Seq(Event) /\ n \in Nat /\ Len(events) = n + 1
        /\ \A i \in 1 .. n : rest[i] = events[i + 1]
        /\ Head(events) = events[1] /\ events[1] \in Event
    OBVIOUS
  <1> HIDE DEF rest
  <1>2. PICK f : Gathers(f, events, n + 1) /\ MeaningsOf(events) = f[n + 1]
    BY <1>1, MeaningsAreGathered
  <1>3. PICK g : Gathers(g, rest, n) /\ MeaningsOf(rest) = g[n]
    BY <1>1, MeaningsAreGathered
  <1>4. \A i \in 0 .. n : g[i] \in Seq(Field)
    <2>1. n \in 0 .. Len(rest)
      BY <1>1
    <2> QED
      BY <1>1, <1>3, <2>1, GatheredTyped
  <1>5. front \in Seq(Field)
    BY <1>1, FieldOfTyped
  <1> HIDE DEF front
  <1> DEFINE bad == {i \in 0 .. n : f[i + 1] # front \o g[i]}
  <1>6. \A i \in 0 .. (n + 1) : f[i] = Gathered(f, events, i)
    BY <1>2 DEF Gathers
  <1>7. \A i \in 0 .. n : g[i] = Gathered(g, rest, i)
    BY <1>3 DEF Gathers
  <1>8. 0 \notin bad
    <2>1. 0 \in 0 .. (n + 1) /\ 1 \in 0 .. (n + 1) /\ 0 \in 0 .. n
      BY <1>1
    <2>2. f[0] = << >>
      BY <1>6, <2>1 DEF Gathered
    <2>3. f[1] = Gathered(f, events, 1)
      BY <1>6, <2>1
    <2>4. Gathered(f, events, 1) =
            IF events[1].kind = "field" THEN Append(f[0], events[1].meant) ELSE f[0]
      BY DEF Gathered
    <2>5. f[1] = front
      BY <2>2, <2>3, <2>4 DEF front, FieldOf
    <2>6. g[0] = << >>
      BY <1>7, <2>1 DEF Gathered
    <2>7. front \o << >> = front
      BY <1>5
    <2>8. f[0 + 1] = front \o g[0]
      BY <2>5, <2>6, <2>7
    <2> QED
      BY <2>8
  <1>9. ASSUME NEW i \in 1 .. n, i - 1 \notin bad PROVE i \notin bad
    <2>1. i \in 0 .. n /\ i - 1 \in 0 .. n /\ i + 1 \in 0 .. (n + 1) /\ i # 0 /\ i + 1 # 0
          /\ (i - 1) + 1 = i /\ (i + 1) - 1 = i
      BY <1>1
    <2>2. f[i] = front \o g[i - 1] /\ g[i - 1] \in Seq(Field)
      BY <1>4, <1>9, <2>1
    <2>3. rest[i] = events[i + 1]
      BY <1>1
    <2>4. g[i] = IF rest[i].kind = "field" THEN Append(g[i - 1], rest[i].meant) ELSE g[i - 1]
      BY <1>7, <2>1 DEF Gathered
    <2>5. f[i + 1] = IF events[i + 1].kind = "field"
                     THEN Append(f[i], events[i + 1].meant) ELSE f[i]
      BY <1>6, <2>1 DEF Gathered
    <2>6. rest[i].kind = "field" => rest[i].meant \in Field
      <3>1. rest[i] \in Event
        BY <1>1, ElementOfSeq
      <3> QED
        BY <3>1 DEF Event
    <2>7. ASSUME NEW meant \in Field
          PROVE  Append(front \o g[i - 1], meant) = front \o Append(g[i - 1], meant)
      <3>1. front \o g[i - 1] \in Seq(Field) /\ <<meant>> \in Seq(Field)
        BY <1>5, <2>2, ConcatProperties
      <3>2. Append(front \o g[i - 1], meant) = (front \o g[i - 1]) \o <<meant>>
        BY <3>1, AppendIsConcat
      <3>3. Append(g[i - 1], meant) = g[i - 1] \o <<meant>>
        BY <2>2, AppendIsConcat
      <3>4. (front \o g[i - 1]) \o <<meant>> = front \o (g[i - 1] \o <<meant>>)
        <4>1. \A p, q, r \in Seq(Field) : (p \o q) \o r = p \o (q \o r)
          BY ConcatAssociative
        <4> QED
          BY <1>5, <2>2, <3>1, <4>1, Zenon
      <3> QED
        BY <3>2, <3>3, <3>4
    <2>8. f[i + 1] = front \o g[i]
      BY <2>2, <2>3, <2>4, <2>5, <2>6, <2>7
    <2> QED
      BY <2>8
  <1>10. bad = {}
    <2>1. bad \subseteq 0 .. n
      OBVIOUS
    <2>2. \A i \in 1 .. n : i \in bad => i - 1 \in bad
      BY <1>9
    <2> HIDE DEF bad
    <2> QED
      BY <1>1, <1>8, <2>1, <2>2, UpTo
  <1>11. n \in 0 .. n
    BY <1>1
  <1>12. f[n + 1] = front \o g[n]
    BY <1>10, <1>11
  <1> QED
    BY <1>1, <1>2, <1>3, <1>12 DEF front, rest

\* What the channel's variables are.
Delivered == IF read = NoField THEN << >> ELSE <<"connection", read[1]>>

Outstanding == [s \in {"connection"} |-> MeaningsOf(wire)]

LEMMA InitChannel == Init => Channel!Init
  <1> SUFFICES ASSUME Init PROVE Channel!Init
    OBVIOUS
  <1>1. wire = << >> /\ read = NoField
    BY DEF Init
  <1>2. MeaningsOf(wire) = << >>
    BY <1>1, MeaningsOfNone
  <1> QED
    BY <1>1, <1>2 DEF Channel!Init, Channel!Nothing

\* Producing an event sends its field, when it has one.
LEMMA ProducingSends ==
  ASSUME Following, NEW event \in Event, Produces(event, event.after)
  PROVE  IF event.kind = "field" THEN Channel!Send("connection")
         ELSE UNCHANGED Channel!vars
  <1>1. wire \in Seq(Event) /\ wire' = Append(wire, event) /\ UNCHANGED read
    BY DEF Following, TypeOK, Produces
  <1>2. MeaningsOf(wire') = IF event.kind = "field"
                            THEN Append(MeaningsOf(wire), event.meant) ELSE MeaningsOf(wire)
    BY <1>1, MeaningsAppended
  <1>3. MeaningsOf(wire)' = MeaningsOf(wire')
    BY DEF MeaningsOf
  <1>4. CASE event.kind = "field"
    <2>1. event.meant \in Field
      BY <1>4 DEF Event
    <2>2. Outstanding' = [Outstanding EXCEPT !["connection"] = Append(@, event.meant)]
      BY <1>2, <1>3, <1>4 DEF Outstanding
    <2>3. UNCHANGED Delivered
      BY <1>1 DEF Delivered
    <2> QED
      BY <1>4, <2>1, <2>2, <2>3 DEF Channel!Send, Outstanding, Delivered
  <1>5. CASE event.kind # "field"
    <2>1. UNCHANGED Outstanding
      BY <1>2, <1>3, <1>5 DEF Outstanding
    <2> QED
      BY <1>1, <1>5, <2>1 DEF Channel!vars, Outstanding
  <1> QED
    BY <1>4, <1>5

\* Taking an event that has no field is not visible.
LEMMA TakingStutters ==
  ASSUME Following, NEW kind, kind # "field", Takes(kind), UNCHANGED read
  PROVE  UNCHANGED Channel!vars
  <1>1. wire \in Seq(Event) /\ wire # << >> /\ Head(wire).kind = kind /\ wire' = Tail(wire)
    BY DEF Following, TypeOK, Takes
  <1>2. /\ MeaningsOf(wire) = FieldOf(Head(wire)) \o MeaningsOf(Tail(wire))
        /\ MeaningsOf(Tail(wire)) \in Seq(Field)
    <2>1. Tail(wire) \in Seq(Event)
      BY <1>1
    <2> QED
      BY <1>1, <2>1, MeaningsInFront, MeaningsTyped
  <1>3. FieldOf(Head(wire)) = << >>
    BY <1>1 DEF FieldOf
  <1>4. MeaningsOf(wire) = MeaningsOf(wire')
    <2> HIDE DEF MeaningsOf
    <2> QED
      BY <1>1, <1>2, <1>3
  <1>5. MeaningsOf(wire)' = MeaningsOf(wire')
    BY DEF MeaningsOf
  <1> QED
    BY <1>4, <1>5 DEF Channel!vars

\* Reading a field delivers the one that was meant.
LEMMA ReadingDelivers ==
  ASSUME Following, DecodeField
  PROVE  Channel!Deliver("connection")
  <1> DEFINE event == Head(wire)
             rest == MeaningsOf(Tail(wire))
  <1>1. /\ Takes("field") /\ wire \in Seq(Event) /\ wire # << >> /\ event.kind = "field"
        /\ wire' = Tail(wire)
    BY DEF DecodeField, Takes, Following, TypeOK
  <1>2. /\ FieldErrors(decoder, event.representation) = {}
        /\ FieldRead(decoder, event.representation) = event.meant
    BY <1>1, HeadParts DEF IsAccepted
  <1>3. read' = <<event.meant>>
    BY <1>2 DEF DecodeField
  <1>4. MeaningsOf(wire) = <<event.meant>> \o rest /\ rest \in Seq(Field)
    <2>1. FieldOf(event) = <<event.meant>>
      BY <1>1 DEF FieldOf
    <2>2. Tail(wire) \in Seq(Event)
      BY <1>1
    <2> QED
      BY <1>1, <2>1, <2>2, MeaningsInFront, MeaningsTyped
  <1>5. event.meant \in Field
    <2>1. event \in Event
      BY <1>1
    <2> HIDE DEF event
    <2> QED
      BY <1>1, <2>1 DEF Event
  <1>6. MeaningsOf(wire)' = rest
    BY <1>1 DEF MeaningsOf
  <1> DEFINE all == MeaningsOf(wire)
  <1>7. all # << >> /\ Head(all) = event.meant /\ Tail(all) = rest
    <2> HIDE DEF all, rest, event
    <2> QED
      BY <1>4, <1>5 DEF all
  <1>8. Outstanding["connection"] = all
    BY DEF Outstanding
  <1>9. Outstanding' = [Outstanding EXCEPT !["connection"] = rest]
    BY <1>6 DEF Outstanding
  <1>10. Delivered' = <<"connection", event.meant>>
    <2>1. <<event.meant>> # NoField /\ <<event.meant>>[1] = event.meant
      BY DEF NoField
    <2> QED
      BY <1>3, <2>1 DEF Delivered
  <1>11. /\ Outstanding["connection"] # << >>
         /\ Delivered' = <<"connection", Head(Outstanding["connection"])>>
         /\ Outstanding' =
              [Outstanding EXCEPT !["connection"] = Tail(Outstanding["connection"])]
    BY <1>7, <1>8, <1>9, <1>10
  <1> QED
    BY <1>11 DEF Channel!Deliver, Outstanding, Delivered

LEMMA NextChannel ==
  ASSUME Following, [Next]_vars
  PROVE  [Channel!Next]_(Channel!vars)
  <1>1. ASSUME \E event : IsProduced(event) PROVE [Channel!Next]_(Channel!vars)
    BY <1>1, ProducingSends DEF IsProduced, Channel!Next
  <1>2. ASSUME NEW kind, kind # "field", Takes(kind), UNCHANGED read
        PROVE  [Channel!Next]_(Channel!vars)
    BY <1>2, TakingStutters
  <1>3. CASE SendSettings \/ UNCHANGED vars
    <2>1. UNCHANGED <<wire, read>>
      BY <1>3 DEF SendSettings, vars
    <2>2. MeaningsOf(wire)' = MeaningsOf(wire)
      BY <2>1 DEF MeaningsOf
    <2> QED
      BY <2>1, <2>2 DEF Channel!vars
  <1>4. CASE DecodeField
    BY <1>4, ReadingDelivers DEF Channel!Next
  <1>5. CASE ReceiveAck
    BY <1>2, <1>5 DEF ReceiveAck
  <1>6. CASE DecodeBlock
    BY <1>2, <1>6 DEF DecodeBlock
  <1>7. CASE DecodeUpdate
    BY <1>2, <1>7 DEF DecodeUpdate
  <1>8. CASE CompleteBlock
    BY <1>2, <1>8 DEF CompleteBlock
  <1>9. CASE ReceiveSettings
    BY <1>1, <1>9, ReceiveSettingsProduces
  <1>10. CASE BeginBlock
    BY <1>1, <1>10, BeginBlockProduces
  <1>11. CASE EncodeUpdate
    BY <1>1, <1>11, EncodeUpdateProduces
  <1>12. CASE EncodeField
    BY <1>1, <1>12, EncodeFieldProduces
  <1>13. CASE FinishBlock
    BY <1>1, <1>13, FinishBlockProduces
  <1> QED
    BY <1>3, <1>4, <1>5, <1>6, <1>7, <1>8, <1>9, <1>10, <1>11, <1>12, <1>13 DEF Next

\* What is read are the fields that were meant, each once and in the order they were
\* encoded in: the connection implements HeaderChannel with a single stream.
THEOREM ConnectionDeliversFields == Spec => DeliversHeaders
  BY InitChannel, NextChannel, InitFollows, FollowingInvariant, PTL
     DEF Spec, DeliversHeaders, Channel!Spec
=============================================================================

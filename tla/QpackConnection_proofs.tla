------------------------ MODULE QpackConnection_proofs ------------------------
(***************************************************************************)
(* Theorems about QpackConnection: the arithmetic of a field section is    *)
(* inverted by its reader, the connection is type correct, no entry that   *)
(* an unacknowledged section references ever leaves the encoder's table,   *)
(* two sides that follow the API of src/qpack never fail, and the          *)
(* connection delivers field sections as the abstract channel does.        *)
(*                                                                         *)
(* One inductive invariant carries the last two.  Its parts say what is    *)
(* true of everything that is on its way: of the instructions on the       *)
(* encoder stream, of the feedback on the decoder stream and of the        *)
(* sections on the request streams.                                        *)
(***************************************************************************)
EXTENDS QpackConnection, FiniteSetTheorems, SequenceTheorems, WellFoundedInduction, TLAPS

-----------------------------------------------------------------------------
(* Packed lists of entries: evicting the oldest entries is possible in one *)
(* way only, and both an eviction and an insertion leave a packed list.    *)

\* Lengths and sizes of fields are counts.
LEMMA FieldLenType ==
  ASSUME NEW f \in Field
  PROVE  /\ FieldLen(f) \in Nat
         /\ EntrySize(f) \in Nat
         /\ EntrySize(f) = FieldLen(f) + 32
  <1>1. f.name \in Names \union Values /\ f.value \in Names \union Values
    BY DEF Field
  <1>2. ByteLen[f.name] \in Nat /\ ByteLen[f.value] \in Nat
    BY <1>1, ByteLenAssumption
  <1> QED
    BY <1>2 DEF FieldLen, EntrySize, EntryOverhead

\* What the parts of a list are.
LEMMA EntryParts ==
  ASSUME NEW entries \in Seq(Entry)
  PROVE  /\ Len(entries) \in Nat
         /\ \A i \in 1 .. Len(entries) :
              /\ entries[i] \in Entry
              /\ entries[i].field \in Field
              /\ entries[i].offset \in Nat
  <1>1. ASSUME NEW i \in 1 .. Len(entries)
        PROVE  /\ entries[i] \in Entry
               /\ entries[i].field \in Field
               /\ entries[i].offset \in Nat
    <2>1. entries[i] \in Entry
      BY ElementOfSeq
    <2> QED
      BY <2>1 DEF Entry
  <1> QED
    BY <1>1

\* The bytes and the size of the newest entries are counts.
LEMMA ListSizeType ==
  ASSUME NEW entries \in Seq(Entry), NEW k \in 0 .. Len(entries)
  PROVE  /\ PackedBytes(entries, k) \in Nat
         /\ SizeOf(entries, k) \in Nat
         /\ SizeOf(entries, k) = PackedBytes(entries, k) + 32 * k
  <1>1. Len(entries) \in Nat
    BY EntryParts
  <1>2. CASE k = 0
    BY <1>1, <1>2 DEF PackedBytes, SizeOf, EntryOverhead
  <1>3. CASE k # 0
    <2>1. k \in 1 .. Len(entries)
      BY <1>1, <1>3
    <2>2. entries[k].offset \in Nat /\ entries[k].field \in Field
      BY <2>1, EntryParts
    <2>3. FieldLen(entries[k].field) \in Nat
      BY <2>2, FieldLenType
    <2> QED
      BY <1>1, <1>3, <2>2, <2>3 DEF PackedBytes, SizeOf, EntryOverhead
  <1> QED
    BY <1>2, <1>3

\* The newest entries are a list of their own.
LEMMA NewestOf ==
  ASSUME NEW entries \in Seq(Entry), NEW keep \in 0 .. Len(entries)
  PROVE  /\ SubSeq(entries, 1, keep) \in Seq(Entry)
         /\ Len(SubSeq(entries, 1, keep)) = keep
         /\ \A i \in 1 .. keep : SubSeq(entries, 1, keep)[i] = entries[i]
  <1> DEFINE kept == SubSeq(entries, 1, keep)
  <1>1. Len(entries) \in Nat
    BY EntryParts
  <1>2. keep \in Nat
    BY <1>1
  <1>3. \A i \in 1 .. keep : entries[i] \in Entry
    BY <1>1, EntryParts
  <1>4. /\ kept \in Seq(Entry)
        /\ Len(kept) = IF 1 <= keep THEN keep - 1 + 1 ELSE 0
        /\ \A i \in 1 .. keep - 1 + 1 : kept[i] = entries[1 + i - 1]
    BY <1>2, <1>3, SubSeqProperties
  <1> HIDE DEF kept
  <1>5. Len(kept) = keep
    BY <1>2, <1>4
  <1>6. \A i \in 1 .. keep : i \in 1 .. keep - 1 + 1 /\ 1 + i - 1 = i
    BY <1>2
  <1>7. \A i \in 1 .. keep : kept[i] = entries[i]
    BY <1>4, <1>6
  <1> QED
    BY <1>4, <1>5, <1>7 DEF kept

-----------------------------------------------------------------------------
\* An eviction leaves a packed list, of the size that the loop computed.
THEOREM NewestArePacked ==
  ASSUME NEW entries, IsPacked(entries), NEW keep \in 0 .. Len(entries)
  PROVE  /\ IsPacked(SubSeq(entries, 1, keep))
         /\ \A k \in 0 .. keep : SizeOf(SubSeq(entries, 1, keep), k) = SizeOf(entries, k)
  <1> DEFINE kept == SubSeq(entries, 1, keep)
  <1>1. entries \in Seq(Entry)
    BY DEF IsPacked
  <1>2. Len(entries) \in Nat /\ keep \in Nat
    BY <1>1, EntryParts
  <1>3. /\ kept \in Seq(Entry)
        /\ Len(kept) = keep
        /\ \A i \in 1 .. keep : kept[i] = entries[i]
    BY <1>1, NewestOf
  <1> HIDE DEF kept
  <1>4. \A k \in 0 .. keep : PackedBytes(kept, k) = PackedBytes(entries, k)
    BY <1>2, <1>3 DEF PackedBytes
  <1>5. ASSUME NEW i \in 1 .. keep
        PROVE  kept[i].offset = PackedBytes(kept, i - 1)
    <2>1. i \in 1 .. Len(entries) /\ i - 1 \in 0 .. keep
      BY <1>2
    <2>2. entries[i].offset = PackedBytes(entries, i - 1)
      BY <2>1 DEF IsPacked
    <2> QED
      BY <1>3, <1>4, <2>1, <2>2
  <1>6. IsPacked(kept)
    BY <1>3, <1>5 DEF IsPacked
  <1>7. \A k \in 0 .. keep : SizeOf(kept, k) = SizeOf(entries, k)
    BY <1>4 DEF SizeOf
  <1> QED
    BY <1>6, <1>7 DEF kept

\* An insertion leaves a packed list: the shifted offsets still pack, and the size
\* grows by the new entry's.
THEOREM PushedIsPacked ==
  ASSUME NEW entries, IsPacked(entries), NEW f \in Field, NEW keep \in 0 .. Len(entries)
  PROVE  /\ IsPacked(Pushed(entries, f, keep))
         /\ Len(Pushed(entries, f, keep)) = keep + 1
         /\ SizeOf(Pushed(entries, f, keep), keep + 1) = SizeOf(entries, keep) + EntrySize(f)
  <1> DEFINE pushed == Pushed(entries, f, keep)
  <1>1. entries \in Seq(Entry)
    BY DEF IsPacked
  <1>2. Len(entries) \in Nat /\ keep \in Nat
    BY <1>1, EntryParts
  <1>3. \A i \in 1 .. keep : /\ entries[i] \in Entry
                             /\ entries[i].field \in Field
                             /\ entries[i].offset \in Nat
    BY <1>1, <1>2, EntryParts
  <1>4. FieldLen(f) \in Nat /\ EntrySize(f) = FieldLen(f) + 32
    BY FieldLenType
  <1>5. \A i \in 1 .. (keep + 1) :
          /\ i = 1 => pushed[i] = [field |-> f, offset |-> 0]
          /\ i > 1 => /\ pushed[i].field = entries[i - 1].field
                      /\ pushed[i].offset = entries[i - 1].offset + FieldLen(f)
          /\ pushed[i] \in Entry
    <2> TAKE i \in 1 .. (keep + 1)
    <2>1. CASE i = 1
      BY <2>1 DEF Pushed, Entry
    <2>2. CASE i > 1
      <3>1. i - 1 \in 1 .. keep
        BY <1>2, <2>2
      <3>2. entries[i - 1] \in Entry
        BY <1>3, <3>1
      <3>3. pushed[i] = [field  |-> entries[i - 1].field,
                         offset |-> entries[i - 1].offset + FieldLen(f)]
        BY <2>2 DEF Pushed
      <3> QED
        BY <1>4, <2>2, <3>2, <3>3 DEF Entry
    <2> QED
      BY <2>1, <2>2
  <1>6. pushed \in Seq(Entry) /\ Len(pushed) = keep + 1
    <2>1. pushed \in [1 .. (keep + 1) -> Entry]
      BY <1>5 DEF Pushed
    <2>2. keep + 1 \in Nat
      BY <1>2
    <2> HIDE DEF pushed
    <2> QED
      BY <2>1, <2>2
  <1> HIDE DEF pushed
  <1>7. \A k \in 0 .. keep :
          PackedBytes(pushed, k + 1) = PackedBytes(entries, k) + FieldLen(f)
    <2> TAKE k \in 0 .. keep
    <2>1. PackedBytes(pushed, k + 1)
            = pushed[k + 1].offset + FieldLen(pushed[k + 1].field)
      BY <1>2 DEF PackedBytes
    <2>2. CASE k = 0
      BY <1>4, <1>5, <2>1, <2>2 DEF PackedBytes
    <2>3. CASE k # 0
      <3>1. k \in 1 .. keep /\ k + 1 \in 1 .. (keep + 1) /\ k + 1 > 1
        BY <1>2, <2>3
      <3>2. FieldLen(entries[k].field) \in Nat
        BY <1>3, <3>1, FieldLenType
      <3> QED
        BY <1>3, <1>4, <1>5, <2>1, <2>3, <3>1, <3>2 DEF PackedBytes
    <2> QED
      BY <2>2, <2>3
  <1>8. ASSUME NEW i \in 1 .. (keep + 1)
        PROVE  pushed[i].offset = PackedBytes(pushed, i - 1)
    <2>1. CASE i = 1
      BY <1>5, <2>1 DEF PackedBytes
    <2>2. CASE i > 1
      <3>1. i - 1 \in 1 .. keep /\ i - 2 \in 0 .. keep /\ i - 1 = (i - 2) + 1
        BY <1>2, <2>2
      <3>2. entries[i - 1].offset = PackedBytes(entries, i - 2)
        <4>1. i - 1 \in 1 .. Len(entries) /\ (i - 1) - 1 = i - 2
          BY <1>2, <3>1
        <4>2. entries[i - 1].offset = PackedBytes(entries, (i - 1) - 1)
          BY <4>1 DEF IsPacked
        <4> QED
          BY <4>1, <4>2
      <3>3. PackedBytes(pushed, i - 1) = PackedBytes(entries, i - 2) + FieldLen(f)
        BY <1>7, <3>1
      <3> QED
        BY <1>5, <2>2, <3>2, <3>3
    <2> QED
      BY <1>2, <2>1, <2>2
  <1>9. SizeOf(pushed, keep + 1) = SizeOf(entries, keep) + EntrySize(f)
    <2>1. /\ SizeOf(entries, keep) = PackedBytes(entries, keep) + 32 * keep
          /\ PackedBytes(entries, keep) \in Nat
      BY <1>1, ListSizeType
    <2>2. PackedBytes(pushed, keep + 1) = PackedBytes(entries, keep) + FieldLen(f)
      BY <1>2, <1>7
    <2> QED
      BY <1>2, <1>4, <2>1, <2>2 DEF SizeOf, EntryOverhead
  <1> QED
    BY <1>6, <1>8, <1>9 DEF IsPacked, pushed

\* The loop has one result: the model's choice of "keep" is no choice.
THEOREM EvictionIsDeterministic ==
  ASSUME NEW t, t.entries \in Seq(Entry), NEW room \in Nat, NEW j, NEW k,
         Retains(t, room, j), Retains(t, room, k)
  PROVE  j = k
  <1>1. Len(t.entries) \in Nat
    BY EntryParts
  <1>2. j \in 0 .. Len(t.entries) /\ k \in 0 .. Len(t.entries)
    BY DEF Retains
  <1>3. SizeOf(t.entries, j) \in Nat /\ SizeOf(t.entries, k) \in Nat
    BY <1>2, ListSizeType
  <1>4. ~ (j < k)
    BY <1>1, <1>2, <1>3 DEF Retains
  <1>5. ~ (k < j)
    BY <1>1, <1>2, <1>3 DEF Retains
  <1> QED
    BY <1>1, <1>2, <1>4, <1>5

-----------------------------------------------------------------------------
(* The operations of the dynamic table keep it well formed, evict no more  *)
(* than they must and never touch an entry that stays.                     *)

\* What the parts of a table are.
LEMMA TableParts ==
  ASSUME NEW t \in Table
  PROVE  /\ t.capacity \in Nat
         /\ t.insertCount \in Nat
         /\ t.entries \in Seq(Entry)
         /\ Len(t.entries) \in Nat
         /\ \A i \in 1 .. Len(t.entries) :
              /\ t.entries[i] \in Entry
              /\ t.entries[i].field \in Field
              /\ t.entries[i].offset \in Nat
  <1>1. /\ t.capacity \in Nat
        /\ t.insertCount \in Nat
        /\ t.entries \in Seq(Entry)
    BY DEF Table
  <1>2. Len(t.entries) \in Nat
    BY <1>1
  <1>3. ASSUME NEW i \in 1 .. Len(t.entries)
        PROVE  /\ t.entries[i] \in Entry
               /\ t.entries[i].field \in Field
               /\ t.entries[i].offset \in Nat
    <2>1. t.entries[i] \in Entry
      BY <1>1, ElementOfSeq
    <2> QED
      BY <2>1 DEF Entry
  <1> QED
    BY <1>1, <1>2, <1>3

\* The table QpackDynamicTable::new returns is well formed.
THEOREM EmptyTableWellFormed == IsWellFormed(EmptyTable)
  <1>1. EmptyTable \in Table
    BY DEF EmptyTable, Table
  <1>2. Len(EmptyTable.entries) = 0 /\ EmptyTable.insertCount = 0 /\ EmptyTable.capacity = 0
    BY DEF EmptyTable
  <1>3. Size(EmptyTable) = 0
    BY <1>2 DEF Size, SizeOf, PackedBytes, EntryOverhead
  <1>4. IsPacked(EmptyTable.entries)
    BY <1>1, <1>2, TableParts DEF IsPacked
  <1> QED
    BY <1>1, <1>2, <1>3, <1>4 DEF IsWellFormed

\* set_capacity leaves a well-formed table.
THEOREM WithCapacityWellFormed ==
  ASSUME NEW t, IsWellFormed(t), NEW c \in Nat, NEW keep \in Nat,
         CanSetCapacity(t, c, keep)
  PROVE  IsWellFormed(WithCapacity(t, c, keep))
  <1> DEFINE u == WithCapacity(t, c, keep)
  <1>1. t \in Table /\ Len(t.entries) <= t.insertCount /\ IsPacked(t.entries)
    BY DEF IsWellFormed
  <1>2. keep \in 0 .. Len(t.entries) /\ SizeOf(t.entries, keep) <= c
    BY DEF CanSetCapacity, Retains
  <1>3. Len(t.entries) \in Nat /\ t.insertCount \in Nat /\ t.entries \in Seq(Entry)
    BY <1>1, TableParts
  <1>4. u = [entries |-> SubSeq(t.entries, 1, keep), capacity |-> c,
             insertCount |-> t.insertCount]
    BY DEF WithCapacity
  <1>5. /\ u.entries \in Seq(Entry)
        /\ Len(u.entries) = keep
        /\ u.capacity = c
        /\ u.insertCount = t.insertCount
    BY <1>2, <1>3, <1>4, NewestOf
  <1>6. IsPacked(u.entries) /\ SizeOf(u.entries, keep) = SizeOf(t.entries, keep)
    BY <1>1, <1>2, <1>4, NewestArePacked
  <1> HIDE DEF u
  <1>7. u \in Table
    BY <1>3, <1>4, <1>5 DEF Table
  <1>8. Size(u) <= u.capacity
    BY <1>2, <1>5, <1>6 DEF Size
  <1> QED
    BY <1>1, <1>2, <1>3, <1>5, <1>6, <1>7, <1>8 DEF IsWellFormed, u

\* insert leaves a well-formed table.
THEOREM WithInsertedWellFormed ==
  ASSUME NEW t, IsWellFormed(t), NEW f \in Field, NEW keep \in Nat,
         CanInsert(t, f, keep)
  PROVE  IsWellFormed(WithInserted(t, f, keep))
  <1> DEFINE u == WithInserted(t, f, keep)
  <1>1. t \in Table /\ Len(t.entries) <= t.insertCount /\ IsPacked(t.entries)
    BY DEF IsWellFormed
  <1>2. /\ keep \in 0 .. Len(t.entries)
        /\ SizeOf(t.entries, keep) <= t.capacity - EntrySize(f)
    BY DEF CanInsert, Retains
  <1>3. /\ Len(t.entries) \in Nat /\ t.insertCount \in Nat /\ t.capacity \in Nat
        /\ t.entries \in Seq(Entry)
    BY <1>1, TableParts
  <1>4. EntrySize(f) \in Nat /\ SizeOf(t.entries, keep) \in Nat
    BY <1>2, <1>3, FieldLenType, ListSizeType
  <1>5. /\ u.entries = Pushed(t.entries, f, keep)
        /\ u.capacity = t.capacity
        /\ u.insertCount = t.insertCount + 1
        /\ u = [entries |-> u.entries, capacity |-> u.capacity,
                insertCount |-> u.insertCount]
    BY DEF WithInserted
  <1>6. /\ IsPacked(u.entries)
        /\ Len(u.entries) = keep + 1
        /\ SizeOf(u.entries, keep + 1) = SizeOf(t.entries, keep) + EntrySize(f)
    BY <1>1, <1>2, <1>5, PushedIsPacked
  <1> HIDE DEF u
  <1>7. u \in Table
    BY <1>3, <1>5, <1>6 DEF Table, IsPacked
  <1>8. Size(u) <= u.capacity
    BY <1>2, <1>3, <1>4, <1>5, <1>6 DEF Size
  <1> QED
    BY <1>1, <1>2, <1>3, <1>5, <1>6, <1>7, <1>8 DEF IsWellFormed, u

-----------------------------------------------------------------------------
\* An entry that is not evicted keeps its absolute index and its contents, and
\* the new entry takes the next index (insert, get_absolute).
THEOREM EntriesSurvive ==
  ASSUME NEW t, IsWellFormed(t), NEW f \in Field, NEW keep \in Nat,
         CanInsert(t, f, keep)
  PROVE  /\ Active(WithInserted(t, f, keep))
              = (Active(t) \ Evicted(t, keep)) \union {t.insertCount}
         /\ EntryAt(WithInserted(t, f, keep), t.insertCount) = f
         /\ \A a \in Active(t) \ Evicted(t, keep) :
              EntryAt(WithInserted(t, f, keep), a) = EntryAt(t, a)
  <1> DEFINE u == WithInserted(t, f, keep)
  <1>1. t \in Table /\ Len(t.entries) <= t.insertCount
    BY DEF IsWellFormed
  <1>2. keep \in 0 .. Len(t.entries)
    BY DEF CanInsert, Retains
  <1>3. Len(t.entries) \in Nat /\ t.insertCount \in Nat
    BY <1>1, TableParts
  <1>4. /\ u.entries = Pushed(t.entries, f, keep)
        /\ u.insertCount = t.insertCount + 1
    BY DEF WithInserted
  <1>5. IsWellFormed(u)
    BY WithInsertedWellFormed
  <1> HIDE DEF u
  <1>6. DOMAIN u.entries = 1 .. (keep + 1) /\ DOMAIN u.entries = 1 .. Len(u.entries)
    <2>1. u \in Table
      BY <1>5 DEF IsWellFormed
    <2>2. u.entries \in Seq(Entry)
      BY <2>1, TableParts
    <2> QED
      BY <1>4, <2>2, LenProperties DEF Pushed
  <1>7. Len(u.entries) = keep + 1
    <2>1. Len(u.entries) \in Nat
      BY <1>5, TableParts DEF IsWellFormed
    <2>2. keep + 1 \in 1 .. Len(u.entries)
      BY <1>2, <1>6
    <2>3. \A i \in 1 .. Len(u.entries) : i <= keep + 1
      BY <1>2, <1>6
    <2> QED
      BY <1>2, <2>1, <2>2, <2>3
  <1>8. Active(u) = (Active(t) \ Evicted(t, keep)) \union {t.insertCount}
    <2>1. u.insertCount = t.insertCount + 1
      BY <1>4
    <2>2. Active(u) = (t.insertCount - keep) .. t.insertCount
      BY <1>2, <1>3, <1>7, <2>1 DEF Active, Oldest
    <2>3. \A a : a \in Active(u) <=> /\ a \in Int
                                     /\ t.insertCount - keep <= a
                                     /\ a <= t.insertCount
      BY <1>2, <1>3, <2>2
    <2>4. \A a : a \in Active(t) \ Evicted(t, keep)
                    <=> /\ a \in Int
                        /\ t.insertCount - keep <= a
                        /\ a <= t.insertCount - 1
      BY <1>2, <1>3 DEF Active, Oldest, Evicted
    <2> QED
      BY <1>2, <1>3, <2>3, <2>4
  <1>9. EntryAt(u, t.insertCount) = f
    <2>1. u.insertCount - t.insertCount = 1
      BY <1>3, <1>4
    <2>2. 1 \in 1 .. (keep + 1)
      BY <1>2
    <2> QED
      BY <1>4, <2>1, <2>2 DEF EntryAt, Pushed
  <1>10. ASSUME NEW a \in Active(t) \ Evicted(t, keep)
         PROVE  EntryAt(u, a) = EntryAt(t, a)
    <2>1. /\ a \in Int
          /\ t.insertCount - keep <= a
          /\ a < t.insertCount
      BY <1>2, <1>3 DEF Active, Oldest, Evicted
    <2>2. /\ u.insertCount - a \in 1 .. (keep + 1)
          /\ u.insertCount - a # 1
          /\ (u.insertCount - a) - 1 = t.insertCount - a
      BY <1>2, <1>3, <1>4, <2>1
    <2> QED
      BY <1>4, <2>2 DEF EntryAt, Pushed
  <1> QED
    BY <1>8, <1>9, <1>10 DEF u
\* An active absolute index is a count below the insert count and names a field.
LEMMA ActiveParts ==
  ASSUME NEW t, IsWellFormed(t), NEW a \in Active(t)
  PROVE  /\ a \in Nat
         /\ a < t.insertCount
         /\ EntryAt(t, a) \in Field
  <1>1. t \in Table /\ Len(t.entries) <= t.insertCount
    BY DEF IsWellFormed
  <1>2. /\ Len(t.entries) \in Nat /\ t.insertCount \in Nat
        /\ \A i \in 1 .. Len(t.entries) : t.entries[i].field \in Field
    BY <1>1, TableParts
  <1>3. a \in Nat /\ a < t.insertCount /\ t.insertCount - a \in 1 .. Len(t.entries)
    BY <1>1, <1>2 DEF Active, Oldest
  <1> QED
    BY <1>2, <1>3 DEF EntryAt

\* set_capacity evicts what it must and leaves the rest as it was.
THEOREM CapacityEvicts ==
  ASSUME NEW t, IsWellFormed(t), NEW c \in Nat, NEW keep \in Nat,
         CanSetCapacity(t, c, keep)
  PROVE  /\ Active(WithCapacity(t, c, keep)) = Active(t) \ Evicted(t, keep)
         /\ \A a \in Active(t) \ Evicted(t, keep) :
              EntryAt(WithCapacity(t, c, keep), a) = EntryAt(t, a)
  <1> DEFINE u == WithCapacity(t, c, keep)
  <1>1. t \in Table /\ Len(t.entries) <= t.insertCount
    BY DEF IsWellFormed
  <1>2. keep \in 0 .. Len(t.entries)
    BY DEF CanSetCapacity, Retains
  <1>3. /\ Len(t.entries) \in Nat /\ t.insertCount \in Nat
        /\ \A i \in 1 .. Len(t.entries) : t.entries[i] \in Entry
    BY <1>1, TableParts
  <1>4. u.entries = SubSeq(t.entries, 1, keep) /\ u.insertCount = t.insertCount
    BY DEF WithCapacity
  <1>5. /\ Len(u.entries) = keep
        /\ \A i \in 1 .. keep : u.entries[i] = t.entries[i]
    BY <1>1, <1>2, <1>4, TableParts, NewestOf
  <1> HIDE DEF u
  <1>6. \A a : a \in Active(u) <=> /\ a \in Int
                                   /\ t.insertCount - keep <= a
                                   /\ a <= t.insertCount - 1
    BY <1>2, <1>3, <1>4, <1>5 DEF Active, Oldest
  <1>7. \A a : a \in Active(t) \ Evicted(t, keep)
                  <=> /\ a \in Int
                      /\ t.insertCount - keep <= a
                      /\ a <= t.insertCount - 1
    BY <1>2, <1>3 DEF Active, Oldest, Evicted
  <1>8. Active(u) = Active(t) \ Evicted(t, keep)
    BY <1>6, <1>7
  <1>9. ASSUME NEW a \in Active(t) \ Evicted(t, keep)
        PROVE  EntryAt(u, a) = EntryAt(t, a)
    <2>1. t.insertCount - a \in 1 .. keep
      BY <1>2, <1>3, <1>7
    <2> QED
      BY <1>4, <1>5, <2>1 DEF EntryAt
  <1> QED
    BY <1>8, <1>9 DEF u

-----------------------------------------------------------------------------
(* The field section arithmetic: what the encoder writes about references is *)
(* what the decoder reads, for every capacity, count, Base and index.        *)

\* The maximum number of entries and the range of the encoded count are counts.
LEMMA RangeType ==
  /\ MaxEntries \in Nat
  /\ FullRange \in Nat
  /\ FullRange = 2 * MaxEntries
  BY MaxCapacityAssumption DEF MaxEntries, FullRange

\* The Base survives its encoding as a sign and a distance: prefix_delta and
\* resolve_base are inverse to each other.
THEOREM BaseRoundTrip ==
  ASSUME NEW ric \in Nat, NEW base \in Nat
  PROVE  ResolvedBase(ric, PrefixDelta(ric, base)) = base
  <1>1. CASE base >= ric
    BY <1>1 DEF ResolvedBase, PrefixDelta
  <1>2. CASE base < ric
    <2>1. PrefixDelta(ric, base) = [negative |-> TRUE, delta |-> ric - base - 1]
      BY <1>2 DEF PrefixDelta
    <2>2. ~(ric - base - 1 >= ric)
      OBVIOUS
    <2> QED
      BY <2>1, <2>2 DEF ResolvedBase
  <1> QED
    BY <1>1, <1>2

\* An absolute index survives its encoding relative to the Base, on either side
\* of it: dynamic_indexed_input, get_field_relative and get_post_base.
THEOREM IndexRoundTrip ==
  ASSUME NEW absolute \in Nat, NEW base \in Nat
  PROVE  ResolvedIndex(LineIndex(absolute, base), base) = absolute
  BY DEF ResolvedIndex, LineIndex

\* A count is some multiple of the modulus and a rest.
LEMMA DivisionExists ==
  ASSUME NEW d \in Nat \ {0}, NEW n \in Nat
  PROVE  /\ n \div d \in Nat
         /\ n % d \in 0 .. (d - 1)
         /\ n = d * (n \div d) + (n % d)
  OBVIOUS

\* Two counts with the same rest that are less than the modulus apart are equal.
LEMMA SameRest ==
  ASSUME NEW d \in Nat \ {0}, NEW r \in Nat, NEW low \in Int,
         NEW p \in Int, NEW q \in Int,
         d * p + r \in (low + 1) .. (low + d),
         d * q + r \in (low + 1) .. (low + d)
  PROVE  p = q
  <1>1. ASSUME NEW i \in Int, NEW j \in Int, i < j
        PROVE  d * i + d <= d * j
    <2>1. d * (i + 1) = d * i + d
      OBVIOUS
    <2>2. d * (i + 1) <= d * j
      BY <1>1
    <2> QED
      BY <2>1, <2>2
  <1>2. d * p \in Int /\ d * q \in Int
    OBVIOUS
  <1>3. ~(p < q)
    BY <1>1, <1>2
  <1>4. ~(q < p)
    BY <1>1, <1>2
  <1> QED
    BY <1>3, <1>4

\* The Required Insert Count survives being sent modulo the full range: the
\* decoder recovers it whenever it is no more than MaxEntries insertions ahead
\* of the decoder and less than MaxEntries behind it, the window that
\* reconstruct_required_insert_count is designed for.
THEOREM RicRoundTrip ==
  ASSUME NEW ric \in Nat \ {0}, NEW total \in Nat, MaxEntries > 0,
         total - MaxEntries < ric, ric <= total + MaxEntries
  PROVE  ReconstructedRic(EncodedRic(ric), total) = ric
  <1> DEFINE F == FullRange
             q == ric \div F
             r == ric % F
             p == (total + MaxEntries) \div F
             s == (total + MaxEntries) % F
             low == total - MaxEntries
             candidate == F * p + r
  <1>1. F \in Nat \ {0} /\ F = 2 * MaxEntries /\ MaxEntries \in Nat
    BY RangeType
  <1>2. q \in Nat /\ r \in 0 .. (F - 1) /\ ric = F * q + r
    BY <1>1, DivisionExists
  <1>3. p \in Nat /\ s \in 0 .. (F - 1) /\ total + MaxEntries = F * p + s
    <2>1. total + MaxEntries \in Nat
      BY <1>1
    <2> QED
      BY <1>1, <2>1, DivisionExists
  <1>4. F * p \in Int /\ F * q \in Int /\ low \in Int
    BY <1>1, <1>2, <1>3
  <1>5. EncodedRic(ric) = r + 1
    BY DEF EncodedRic
  <1>6. MaxWrapped(total) + EncodedRic(ric) - 1 = candidate
    BY <1>2, <1>4, <1>5 DEF MaxWrapped
  <1>7. ric \in (low + 1) .. (low + F)
    BY <1>1
  <1> HIDE DEF q, r, p, s
  <1>8. CASE candidate <= total + MaxEntries
    <2>1. candidate \in (low + 1) .. (low + F)
      BY <1>1, <1>2, <1>3, <1>4, <1>8
    <2>2. p = q
      BY <1>1, <1>2, <1>3, <1>4, <1>7, <2>1, SameRest
    <2>3. candidate = ric
      BY <1>2, <2>2
    <2>4. Unwrapped(EncodedRic(ric), total) = ric
      BY <1>6, <1>8, <2>3 DEF Unwrapped
    <2> QED
      BY <1>1, <1>2, <1>5, <2>4 DEF ReconstructedRic
  <1>9. CASE candidate > total + MaxEntries
    <2>1. candidate - F = F * (p - 1) + r
      BY <1>1, <1>2, <1>3, <1>4
    <2>2. F * (p - 1) + r \in (low + 1) .. (low + F)
      BY <1>1, <1>2, <1>3, <1>4, <1>9, <2>1
    <2>3. p - 1 = q
      BY <1>1, <1>2, <1>3, <1>4, <1>7, <2>2, SameRest
    <2>4. candidate - F = ric
      BY <1>2, <2>1, <2>3
    <2>5. candidate > F
      BY <1>1, <1>2, <1>4, <2>4
    <2>6. Unwrapped(EncodedRic(ric), total) = ric
      BY <1>1, <1>2, <1>3, <1>4, <1>6, <1>9, <2>4, <2>5 DEF Unwrapped
    <2> QED
      BY <1>1, <1>2, <1>5, <2>6 DEF ReconstructedRic
  <1> QED
    BY <1>1, <1>2, <1>3, <1>4, <1>8, <1>9

LEMMA EncodedRicType ==
  ASSUME NEW ric \in Nat, ric > 0 => MaxEntries > 0
  PROVE  EncodedRic(ric) \in Nat
  <1>1. CASE ric = 0
    BY <1>1 DEF EncodedRic
  <1>2. CASE ric # 0
    <2>1. FullRange \in Nat \ {0}
      BY <1>2, RangeType
    <2>2. ric % FullRange \in Nat
      BY <2>1
    <2> QED
      BY <1>2, <2>2 DEF EncodedRic
  <1> QED
    BY <1>1, <1>2

LEMMA PrefixType ==
  ASSUME NEW ric \in Nat, NEW base \in Nat
  PROVE  PrefixDelta(ric, base) \in WirePrefix
  BY DEF PrefixDelta, WirePrefix

LEMMA LineIndexType ==
  ASSUME NEW absolute \in Nat, NEW base \in Nat
  PROVE  LineIndex(absolute, base) \in LineAt
  BY DEF LineIndex, LineAt

-----------------------------------------------------------------------------
(* Field lines, as planned and as sent. *)

LEMMA PlanLineParts ==
  ASSUME NEW t, NEW line \in PlanLines(t)
  PROVE  /\ line.kind \in {"indexed", "named", "literal"}
         /\ IsDynamic(line) => line.absolute \in Active(t)
         /\ line.kind = "named" => line.value \in Values
         /\ line.kind = "literal" => line.field \in Field
  BY DEF PlanLines, IsDynamic

LEMMA WireLineParts ==
  ASSUME NEW line \in WireLines
  PROVE  /\ line.kind \in {"indexed", "named", "literal"}
         /\ IsDynamic(line) => line.at \in LineAt
         /\ line.kind = "named" => line.value \in Values
         /\ line.kind = "literal" => line.field \in Field
  BY DEF WireLines, IsDynamic

\* A line stands for a field if its reference is active.
LEMMA MeaningType ==
  ASSUME NEW t, IsWellFormed(t), NEW line, NEW a,
         line.kind \in {"indexed", "named", "literal"},
         IsDynamic(line) => a \in Active(t),
         line.kind = "named" => line.value \in Values,
         line.kind = "literal" => line.field \in Field
  PROVE  Meaning(t, line, a) \in Field
  <1>1. CASE line.kind = "indexed"
    BY <1>1, ActiveParts DEF Meaning, IsDynamic
  <1>2. CASE line.kind = "named"
    <2>1. EntryAt(t, a) \in Field
      BY <1>2, ActiveParts DEF IsDynamic
    <2> QED
      BY <1>2, <2>1 DEF Meaning, Field
  <1>3. CASE line.kind = "literal"
    BY <1>3 DEF Meaning
  <1> QED
    BY <1>1, <1>2, <1>3

LEMMA WireLineType ==
  ASSUME NEW t, IsWellFormed(t), NEW line \in PlanLines(t), NEW base \in Nat
  PROVE  WireLine(line, base) \in WireLines
  <1>1. CASE line.kind = "literal"
    <2>1. line \in [kind : {"literal"}, field : Field]
      BY <1>1 DEF PlanLines
    <2> QED
      BY <1>1, <2>1 DEF WireLine, WireLines
  <1>2. CASE IsDynamic(line)
    <2>1. line.absolute \in Nat
      BY <1>2, PlanLineParts, ActiveParts
    <2>2. LineIndex(line.absolute, base) \in LineAt
      BY <2>1, LineIndexType
    <2> QED
      BY <1>2, <2>2, PlanLineParts DEF WireLine, WireLines, IsDynamic
  <1> QED
    BY <1>1, <1>2, PlanLineParts DEF IsDynamic

\* A plan is a sequence of lines, and its references are active.
LEMMA PlanParts ==
  ASSUME NEW t, NEW plan \in Plans(t)
  PROVE  /\ \E n \in Nat : plan \in [1 .. n -> PlanLines(t)]
         /\ References(plan) \subseteq Active(t)
  <1>1. PICK n \in 1 .. MaxLines : plan \in [1 .. n -> PlanLines(t)]
    BY DEF Plans
  <1>2. n \in Nat
    BY ConnectionAssumption
  <1>3. \A i \in DOMAIN plan : IsDynamic(plan[i]) => plan[i].absolute \in Active(t)
    BY <1>1, PlanLineParts
  <1> QED
    BY <1>1, <1>2, <1>3 DEF References

\* What encode writes is a section.
LEMMA WireSectionType ==
  ASSUME TypeOK, NEW id \in Nat, NEW plan \in Plans(encTable),
         NEW ric \in Nat, NEW base \in Nat, ric > 0 => MaxEntries > 0
  PROVE  WireSection(id, plan, ric, base) \in WireSections
  <1>1. IsWellFormed(encTable)
    BY DEF TypeOK
  <1>2. PICK n \in Nat : plan \in [1 .. n -> PlanLines(encTable)]
    BY PlanParts
  <1>3. Meant(encTable, plan) \in Seq(Field)
    <2>1. \A i \in 1 .. n :
            Meaning(encTable, plan[i], IF IsDynamic(plan[i]) THEN plan[i].absolute ELSE 0)
              \in Field
      BY <1>1, <1>2, PlanLineParts, MeaningType
    <2>2. Meant(encTable, plan) \in [1 .. n -> Field]
      BY <1>2, <2>1 DEF Meant
    <2> QED
      BY <2>2
  <1>4. [i \in DOMAIN plan |-> WireLine(plan[i], base)] \in Seq(WireLines)
    <2>1. \A i \in 1 .. n : WireLine(plan[i], base) \in WireLines
      BY <1>1, <1>2, WireLineType
    <2>2. [i \in DOMAIN plan |-> WireLine(plan[i], base)] \in [1 .. n -> WireLines]
      BY <1>2, <2>1
    <2> QED
      BY <2>2
  <1>5. EncodedRic(ric) \in Nat /\ PrefixDelta(ric, base) \in WirePrefix
    BY EncodedRicType, PrefixType
  <1> QED
    BY <1>3, <1>4, <1>5 DEF WireSection, WireSections

-----------------------------------------------------------------------------
(* What the decoder reads. *)

LEMMA ReadRicType ==
  ASSUME NEW section \in WireSections, NEW total \in Nat
  PROVE  ReadRic(section, total) \in Int
  <1>1. section.ric \in Nat
    BY DEF WireSections
  <1>2. CASE section.ric = 0 \/ MaxEntries = 0
    BY <1>2 DEF ReadRic, ReconstructedRic, Invalid
  <1>3. CASE section.ric # 0 /\ MaxEntries # 0
    <2>1. FullRange \in Nat \ {0} /\ MaxEntries \in Nat
      BY <1>3, RangeType
    <2>2. (total + MaxEntries) \div FullRange \in Nat
      BY <2>1
    <2>3. MaxWrapped(total) \in Nat
      BY <2>1, <2>2 DEF MaxWrapped
    <2>4. Unwrapped(section.ric, total) \in Int
      BY <1>1, <2>1, <2>3 DEF Unwrapped, Invalid
    <2> QED
      BY <1>3, <2>4 DEF ReadRic, ReconstructedRic, Invalid
  <1> QED
    BY <1>2, <1>3

\* A decoded section is a list of fields.
LEMMA ReadFieldsType ==
  ASSUME NEW t, IsWellFormed(t), NEW section \in WireSections, IsDecodable(section, t)
  PROVE  ReadFields(section, t) \in Seq(Field)
  <1> DEFINE at(i) == IF IsDynamic(section.lines[i])
                      THEN ResolvedIndex(section.lines[i].at, ReadBase(section, t.insertCount))
                      ELSE 0
             n == Len(section.lines)
  <1>1. section.lines \in Seq(WireLines)
    BY DEF WireSections
  <1>2. n \in Nat /\ DOMAIN section.lines = 1 .. n
    BY <1>1, LenProperties
  <1>3. ASSUME NEW i \in 1 .. n
        PROVE  Meaning(t, section.lines[i], at(i)) \in Field
    <2>1. section.lines[i] \in WireLines
      BY <1>1, ElementOfSeq
    <2>2. IsDynamic(section.lines[i]) => at(i) \in Active(t)
      BY <1>2, <1>3 DEF IsDecodable, ReferenceOk
    <2> QED
      BY <2>1, <2>2, WireLineParts, MeaningType
  <1>4. ReadFields(section, t) = [i \in 1 .. n |-> Meaning(t, section.lines[i], at(i))]
    BY <1>2 DEF ReadFields
  <1> HIDE DEF at, n
  <1>5. ReadFields(section, t) \in [1 .. n -> Field]
    BY <1>3, <1>4
  <1> QED
    BY <1>2, <1>5

-----------------------------------------------------------------------------
(* Instructions, and the records of both sides. *)

LEMMA InsertedFieldType ==
  ASSUME NEW t, IsWellFormed(t), NEW i \in Instruction, i.type # "capacity", SourceOk(t, i)
  PROVE  InsertedField(t, i) \in Field
  <1>1. CASE i.type = "literal"
    BY <1>1 DEF InsertedField, Instruction
  <1>2. CASE i.type \in {"name", "duplicate"}
    <2>1. RelativeEntry(t, i.index) \in Field
      BY <1>2, ActiveParts DEF SourceOk, RelativeIndexOk, RelativeEntry
    <2>2. i.type = "name" => i.value \in Values
      BY DEF Instruction
    <2> QED
      BY <1>2, <2>1, <2>2 DEF InsertedField, Field
  <1> QED
    BY <1>1, <1>2 DEF Instruction

\* Removing and adding records keeps them of their type.
LEMMA WithoutType ==
  ASSUME NEW records, NEW gone, NEW D, NEW R,
         DOMAIN records \subseteq D, \A n \in DOMAIN records : records[n] \in R
  PROVE  /\ DOMAIN Without(records, gone) \subseteq D
         /\ \A n \in DOMAIN Without(records, gone) : Without(records, gone)[n] \in R
  BY DEF Without

LEMMA RegisteredKeepsType ==
  ASSUME NEW D, NEW R, NEW records, NEW n \in D, NEW record \in R,
         DOMAIN records \subseteq D, \A m \in DOMAIN records : records[m] \in R
  PROVE  /\ DOMAIN Registered(records, n, record) \subseteq D
         /\ \A m \in DOMAIN Registered(records, n, record) :
              Registered(records, n, record)[m] \in R
  BY DEF Registered

LEMMA LargerType ==
  ASSUME NEW i \in Nat, NEW j \in Nat
  PROVE  Larger(i, j) \in Nat
  BY DEF Larger
-----------------------------------------------------------------------------
(* Type correctness: the initial state, then one lemma per action. *)

LEMMA InitType == Init => TypeOK
  <1> SUFFICES ASSUME Init PROVE TypeOK
    OBVIOUS
  <1>1. IsWellFormed(encTable) /\ IsWellFormed(decTable)
    BY EmptyTableWellFormed DEF Init
  <1>2. DOMAIN outstanding = {} /\ DOMAIN blocked = {}
    BY DEF Init
  <1>3. /\ unacknowledged \in [Streams -> Seq(Decoded)]
        /\ requests \in [Streams -> Seq(WireSections)]
        /\ instructions \in Seq(Instruction)
        /\ feedback \in Seq(FeedbackMessage)
    BY DEF Init
  <1> QED
    BY <1>1, <1>2, <1>3 DEF Init, TypeOK

LEMMA SetCapacityType ==
  ASSUME TypeOK, NEW c \in Capacities, SetCapacity(c)
  PROVE  TypeOK'
  <1>1. c \in Nat
    BY ConnectionAssumption, MaxCapacityAssumption
  <1>2. PICK keep \in 0 .. Len(encTable.entries) :
          /\ CanSetCapacity(encTable, c, keep)
          /\ encTable' = WithCapacity(encTable, c, keep)
    BY DEF SetCapacity
  <1>3. keep \in Nat
    BY <1>2, TableParts DEF TypeOK, IsWellFormed
  <1>4. IsWellFormed(encTable')
    BY <1>1, <1>2, <1>3, WithCapacityWellFormed DEF TypeOK
  <1>5. [type |-> "capacity", capacity |-> c] \in Instruction
    BY <1>1 DEF Instruction
  <1>6. instructions' \in Seq(Instruction)
    BY <1>5 DEF SetCapacity, TypeOK
  <1> QED
    BY <1>4, <1>6 DEF SetCapacity, TypeOK, SectionId, decoderVars

LEMMA InsertType ==
  ASSUME TypeOK, NEW i \in Instruction, i.type # "capacity", Insert(i)
  PROVE  TypeOK'
  <1>1. InsertedField(encTable, i) \in Field
    BY InsertedFieldType DEF Insert, TypeOK
  <1>2. PICK keep \in 0 .. Len(encTable.entries) :
          /\ CanInsert(encTable, InsertedField(encTable, i), keep)
          /\ encTable' = WithInserted(encTable, InsertedField(encTable, i), keep)
    BY DEF Insert
  <1>3. keep \in Nat
    BY <1>2, TableParts DEF TypeOK, IsWellFormed
  <1>4. IsWellFormed(encTable')
    BY <1>1, <1>2, <1>3, WithInsertedWellFormed DEF TypeOK
  <1>5. instructions' \in Seq(Instruction)
    BY DEF Insert, TypeOK
  <1> QED
    BY <1>4, <1>5 DEF Insert, TypeOK, SectionId, decoderVars

\* The instructions the encoder sends are instructions that insert.
LEMMA InsertCases ==
  ASSUME TypeOK, InsertLiteral \/ InsertNameReference \/ Duplicate
  PROVE  \E i \in Instruction : i.type # "capacity" /\ Insert(i)
  <1>1. Len(encTable.entries) \in Nat
    BY TableParts DEF TypeOK, IsWellFormed
  <1>2. CASE InsertLiteral
    <2>1. PICK f \in Field : Insert([type |-> "literal", field |-> f])
      BY <1>2 DEF InsertLiteral
    <2>2. [type |-> "literal", field |-> f] \in Instruction
      BY DEF Instruction
    <2> QED
      BY <2>1, <2>2
  <1>3. CASE InsertNameReference
    <2>1. PICK index \in 0 .. (Len(encTable.entries) - 1), v \in Values :
            Insert([type |-> "name", index |-> index, value |-> v])
      BY <1>3 DEF InsertNameReference
    <2>2. index \in Nat
      BY <1>1
    <2>3. [type |-> "name", index |-> index, value |-> v] \in Instruction
      BY <2>2 DEF Instruction
    <2> QED
      BY <2>1, <2>3
  <1>4. CASE Duplicate
    <2>1. PICK index \in 0 .. (Len(encTable.entries) - 1) :
            Insert([type |-> "duplicate", index |-> index])
      BY <1>4 DEF Duplicate
    <2>2. index \in Nat
      BY <1>1
    <2>3. [type |-> "duplicate", index |-> index] \in Instruction
      BY <2>2 DEF Instruction
    <2> QED
      BY <2>1, <2>3
  <1> QED
    BY <1>2, <1>3, <1>4

\* A section with references has a Required Insert Count above zero.
LEMMA RegisteredType ==
  ASSUME TypeOK, NEW s \in Streams, NEW plan \in Plans(encTable), NEW ric \in Nat,
         IsRequired(ric, References(plan)), References(plan) # {}
  PROVE  /\ [stream |-> s, ric |-> ric, refs |-> References(plan)] \in Section
         /\ ric > 0
  <1>1. References(plan) \subseteq Nat
    BY PlanParts, ActiveParts DEF TypeOK
  <1>2. ric - 1 \in Nat
    BY <1>1 DEF IsRequired
  <1> QED
    BY <1>1, <1>2 DEF Section

LEMMA EncodeSectionType ==
  ASSUME TypeOK, NEW s \in Streams, EncodeSection(s)
  PROVE  TypeOK'
  <1> DEFINE new(plan, ric) == [stream |-> s, ric |-> ric, refs |-> References(plan)]
  <1>1. encTable.insertCount \in Nat /\ sectionCount \in Nat
    BY TableParts DEF TypeOK, IsWellFormed
  <1>2. PICK plan \in Plans(encTable), ric \in 0 .. encTable.insertCount :
        \E base \in {ric} \union {b \in ExplicitBases : b <= encTable.insertCount} :
          /\ IsRequired(ric, References(plan))
          /\ ric > 0 => MaxEntries > 0
          /\ outstanding' = IF References(plan) = {} THEN outstanding
                            ELSE Registered(outstanding, sectionCount, new(plan, ric))
          /\ requests' = IF s \in cancelled THEN requests
                         ELSE [requests EXCEPT ![s] =
                                 Append(@, WireSection(sectionCount, plan, ric, base))]
    BY DEF EncodeSection
  <1>3. PICK base \in {ric} \union {b \in ExplicitBases : b <= encTable.insertCount} :
          requests' = IF s \in cancelled THEN requests
                      ELSE [requests EXCEPT ![s] =
                              Append(@, WireSection(sectionCount, plan, ric, base))]
    BY <1>2
  <1>4. ric \in Nat /\ base \in Nat
    <2>1. ric \in Nat
      BY <1>1
    <2>2. ExplicitBases \subseteq Nat
      BY ConnectionAssumption
    <2> QED
      BY <2>1, <2>2
  <1>5. sectionCount' = sectionCount + 1
    BY DEF EncodeSection
  <1>6. /\ DOMAIN outstanding' \subseteq SectionId'
        /\ \A n \in DOMAIN outstanding' : outstanding'[n] \in Section
    <2>1. CASE References(plan) = {}
      BY <1>1, <1>2, <1>5, <2>1 DEF TypeOK, SectionId
    <2>2. CASE References(plan) # {}
      <3>1. new(plan, ric) \in Section
        BY <1>2, <1>4, <2>2, RegisteredType
      <3>2. outstanding' = Registered(outstanding, sectionCount, new(plan, ric))
        BY <1>2, <2>2
      <3> HIDE DEF new
      <3>3. /\ DOMAIN outstanding' = DOMAIN outstanding \union {sectionCount}
            /\ outstanding'[sectionCount] = new(plan, ric)
            /\ \A n \in DOMAIN outstanding \ {sectionCount} : outstanding'[n] = outstanding[n]
        BY <3>2 DEF Registered
      <3>4. \A n \in DOMAIN outstanding : outstanding[n] \in Section
        BY DEF TypeOK
      <3>5. \A n \in DOMAIN outstanding' : outstanding'[n] \in Section
        BY <3>1, <3>3, <3>4
      <3> QED
        BY <1>1, <1>5, <3>3, <3>5 DEF TypeOK, SectionId
    <2> QED
      BY <2>1, <2>2
  <1>7. requests' \in [Streams -> Seq(WireSections)]
    <2>1. WireSection(sectionCount, plan, ric, base) \in WireSections
      BY <1>1, <1>2, <1>4, WireSectionType
    <2>2. requests[s] \in Seq(WireSections)
      BY DEF TypeOK
    <2>3. Append(requests[s], WireSection(sectionCount, plan, ric, base)) \in Seq(WireSections)
      BY <2>1, <2>2
    <2> QED
      BY <1>3, <2>3 DEF TypeOK
  <1>8. UNCHANGED <<encTable, encKrc, decTable, decKrc, blocked, unacknowledged, instructions,
                    feedback, cancelled, delivered, failed>>
    BY DEF EncodeSection, decoderVars
  <1>9. sectionCount' \in Nat
    BY <1>1, <1>5
  <1> QED
    BY <1>6, <1>7, <1>8, <1>9 DEF TypeOK

LEMMA ReceiveFeedbackType ==
  ASSUME TypeOK, ReceiveFeedback
  PROVE  TypeOK'
  <1>1. feedback \in Seq(FeedbackMessage) /\ feedback # << >>
    BY DEF ReceiveFeedback, TypeOK
  <1>2. Head(feedback) \in FeedbackMessage /\ feedback' \in Seq(FeedbackMessage)
    <2>1. feedback' = Tail(feedback)
      BY DEF ReceiveFeedback
    <2> QED
      BY <1>1, <2>1, HeadTailProperties
  <1>3. encTable.insertCount \in Nat
    BY TableParts DEF TypeOK, IsWellFormed
  <1>4. /\ DOMAIN outstanding' \subseteq DOMAIN outstanding
        /\ \A n \in DOMAIN outstanding' : outstanding'[n] = outstanding[n]
        /\ encKrc' \in Nat
        /\ failed' \in {"none"} \union Errors
    <2>1. CASE ApplyAcknowledgment(Head(feedback).stream)
      <3> DEFINE s == Head(feedback).stream
      <3>1. CASE OfStream(outstanding, s) = {}
        BY <2>1, <3>1 DEF ApplyAcknowledgment, TypeOK, Errors
      <3>2. CASE OfStream(outstanding, s) # {}
        <4>1. PICK n \in DOMAIN outstanding :
                /\ encKrc' = Larger(encKrc, outstanding[n].ric)
                /\ outstanding' = Without(outstanding, {n})
                /\ UNCHANGED failed
          BY <2>1, <3>2 DEF ApplyAcknowledgment
        <4>2. outstanding[n].ric \in Nat /\ encKrc \in Nat
          BY DEF TypeOK, Section
        <4>3. encKrc' \in Nat
          BY <4>1, <4>2, LargerType
        <4> QED
          BY <4>1, <4>3 DEF Without, TypeOK
      <3> QED
        BY <3>1, <3>2
    <2>2. CASE ApplyCancellation(Head(feedback).stream)
      BY <2>2 DEF ApplyCancellation, Without, TypeOK
    <2>3. CASE Head(feedback).type = "increment" /\ ApplyIncrement(Head(feedback).increment)
      <3>1. Head(feedback).increment \in Nat
        BY <1>2, <2>3 DEF FeedbackMessage
      <3> QED
        <4>1. encKrc \in Nat /\ encKrc + Head(feedback).increment \in Nat
          BY <3>1 DEF TypeOK
        <4>2. /\ outstanding' = outstanding
              /\ \/ failed' = "decoder stream" /\ encKrc' = encKrc
                 \/ failed' = failed /\ encKrc' = encKrc + Head(feedback).increment
          BY <2>3 DEF ApplyIncrement
        <4> QED
          BY <4>1, <4>2 DEF TypeOK, Errors
    <2> QED
      BY <2>1, <2>2, <2>3 DEF ReceiveFeedback
  <1>5. /\ DOMAIN outstanding' \subseteq SectionId'
        /\ \A n \in DOMAIN outstanding' : outstanding'[n] \in Section
    BY <1>4 DEF TypeOK, SectionId, ReceiveFeedback
  <1> QED
    BY <1>2, <1>4, <1>5 DEF ReceiveFeedback, TypeOK, decoderVars

LEMMA ReceiveInstructionType ==
  ASSUME TypeOK, ReceiveInstruction
  PROVE  TypeOK'
  <1> DEFINE i == Head(instructions)
  <1>1. i \in Instruction /\ instructions' \in Seq(Instruction)
    <2>1. /\ instructions \in Seq(Instruction)
          /\ instructions # << >>
          /\ instructions' = Tail(instructions)
      BY DEF ReceiveInstruction, TypeOK
    <2> QED
      BY <2>1, HeadTailProperties
  <1>2. IsWellFormed(decTable) /\ Len(decTable.entries) \in Nat
    BY TableParts DEF TypeOK, IsWellFormed
  <1> HIDE DEF i
  <1>3. IsWellFormed(decTable') /\ failed' \in {"none"} \union Errors
    <2>1. CASE i.type = "capacity" /\ ApplyCapacity(i.capacity)
      <3>1. i.capacity \in Nat
        BY <1>1, <2>1 DEF Instruction
      <3>2. CASE i.capacity > MaxCapacity
        BY <1>2, <2>1, <3>2 DEF ApplyCapacity, Errors
      <3>3. CASE ~ (i.capacity > MaxCapacity)
        <4>1. PICK keep \in 0 .. Len(decTable.entries) :
                /\ CanSetCapacity(decTable, i.capacity, keep)
                /\ decTable' = WithCapacity(decTable, i.capacity, keep)
          BY <2>1, <3>3 DEF ApplyCapacity
        <4>2. keep \in Nat
          BY <1>2
        <4>3. IsWellFormed(decTable')
          BY <1>2, <3>1, <4>1, <4>2, WithCapacityWellFormed
        <4> QED
          BY <2>1, <3>3, <4>3 DEF ApplyCapacity, TypeOK
      <3> QED
        BY <3>2, <3>3
    <2>2. CASE i.type # "capacity" /\ ApplyInsert(i)
      <3>1. CASE ~SourceOk(decTable, i) \/ EntrySize(InsertedField(decTable, i)) > decTable.capacity
        BY <1>2, <2>2, <3>1 DEF ApplyInsert, Errors
      <3>2. CASE ~ (~SourceOk(decTable, i)
                      \/ EntrySize(InsertedField(decTable, i)) > decTable.capacity)
        <4>1. InsertedField(decTable, i) \in Field
          BY <1>1, <1>2, <2>2, <3>2, InsertedFieldType
        <4>2. PICK keep \in 0 .. Len(decTable.entries) :
                /\ CanInsert(decTable, InsertedField(decTable, i), keep)
                /\ decTable' = WithInserted(decTable, InsertedField(decTable, i), keep)
          BY <2>2, <3>2 DEF ApplyInsert
        <4>3. keep \in Nat
          BY <1>2
        <4>4. IsWellFormed(decTable')
          BY <1>2, <4>1, <4>2, <4>3, WithInsertedWellFormed
        <4> QED
          BY <2>2, <3>2, <4>4 DEF ApplyInsert, TypeOK
      <3> QED
        BY <3>1, <3>2
    <2> QED
      BY <2>1, <2>2 DEF ReceiveInstruction, i
  <1> QED
    BY <1>1, <1>3 DEF ReceiveInstruction, TypeOK, SectionId, encoderVars

LEMMA DecodeSectionType ==
  ASSUME TypeOK, NEW s \in Streams, DecodeSection(s)
  PROVE  TypeOK'
  <1> DEFINE section == Head(requests[s])
  <1>1. /\ section \in WireSections
        /\ Tail(requests[s]) \in Seq(WireSections)
    <2>1. requests[s] \in Seq(WireSections) /\ requests[s] # << >>
      BY DEF DecodeSection, TypeOK
    <2> QED
      BY <2>1, HeadTailProperties
  <1>2. IsWellFormed(decTable) /\ decTable.insertCount \in Nat
    BY TableParts DEF TypeOK, IsWellFormed
  <1> HIDE DEF section
  <1>3. CASE IsDecodable(section, decTable)
    <2>1. /\ delivered' = <<s, ReadFields(section, decTable)>>
          /\ requests' = [requests EXCEPT ![s] = Tail(requests[s])]
          /\ blocked' = Without(blocked, {s})
          /\ \/ unacknowledged' = unacknowledged
             \/ unacknowledged' =
                  [unacknowledged EXCEPT ![s] =
                     Append(@, [id  |-> section.id,
                                ric |-> ReadRic(section, decTable.insertCount)])]
          /\ failed' = failed
      BY <1>3 DEF DecodeSection, section
    <2>2. delivered' \in Streams \X Seq(Field)
      BY <1>1, <1>2, <1>3, <2>1, ReadFieldsType
    <2>3. requests' \in [Streams -> Seq(WireSections)]
      BY <1>1, <2>1 DEF TypeOK
    <2>4. ReadRic(section, decTable.insertCount) \in Nat
      BY <1>2, <1>3 DEF IsDecodable
    <2>5. [id |-> section.id, ric |-> ReadRic(section, decTable.insertCount)] \in Decoded
      BY <1>1, <2>4 DEF Decoded, WireSections
    <2>6. unacknowledged' \in [Streams -> Seq(Decoded)]
      <3>1. unacknowledged[s] \in Seq(Decoded)
        BY DEF TypeOK
      <3>2. Append(unacknowledged[s],
                   [id |-> section.id, ric |-> ReadRic(section, decTable.insertCount)])
              \in Seq(Decoded)
        BY <2>5, <3>1
      <3> QED
        BY <2>1, <3>2 DEF TypeOK
    <2>7. /\ DOMAIN blocked' \subseteq Streams
          /\ \A r \in DOMAIN blocked' : blocked'[r] \in Nat
      BY <2>1, WithoutType DEF TypeOK
    <2> QED
      BY <2>1, <2>2, <2>3, <2>6, <2>7 DEF DecodeSection, TypeOK, SectionId, encoderVars
  <1>4. CASE ~IsDecodable(section, decTable)
    <2>1. failed' = "decompression" /\ UNCHANGED <<delivered, requests, blocked, unacknowledged>>
      BY <1>4 DEF DecodeSection, section
    <2> QED
      BY <2>1 DEF DecodeSection, TypeOK, SectionId, encoderVars, Errors
  <1> QED
    BY <1>3, <1>4

LEMMA BlockSectionType ==
  ASSUME TypeOK, NEW s \in Streams, BlockSection(s)
  PROVE  TypeOK'
  <1>1. PICK i \in 1 .. Len(requests[s]) :
          /\ \A j \in 1 .. i : IsBlocked(requests[s][j], decTable)
          /\ LET ric == ReadRic(requests[s][i], decTable.insertCount)
             IN  IF s \in DOMAIN blocked
                 THEN /\ blocked' = [blocked EXCEPT ![s] = Larger(@, ric)]
                      /\ UNCHANGED failed
                 ELSE IF Cardinality(DOMAIN blocked) >= MaxBlockedStreams
                 THEN failed' = "blocked streams" /\ UNCHANGED blocked
                 ELSE blocked' = Registered(blocked, s, ric) /\ UNCHANGED failed
    BY DEF BlockSection
  <1> DEFINE ric == ReadRic(requests[s][i], decTable.insertCount)
  <1>2. decTable.insertCount \in Nat
    BY TableParts DEF TypeOK, IsWellFormed
  <1>3. ric \in Nat
    <2>1. requests[s] \in Seq(WireSections)
      BY DEF TypeOK
    <2>2. requests[s][i] \in WireSections /\ Len(requests[s]) \in Nat
      BY <2>1, ElementOfSeq, LenProperties
    <2>3. i \in 1 .. i
      BY <2>2
    <2>4. ric \in Int /\ ric > decTable.insertCount
      BY <1>1, <1>2, <2>2, <2>3, ReadRicType DEF IsBlocked
    <2> QED
      BY <1>2, <2>4
  <1> HIDE DEF ric
  <1>4. /\ DOMAIN blocked' \subseteq Streams
        /\ \A r \in DOMAIN blocked' : blocked'[r] \in Nat
        /\ failed' \in {"none"} \union Errors
    <2>1. CASE s \in DOMAIN blocked
      <3>1. blocked' = [blocked EXCEPT ![s] = Larger(blocked[s], ric)] /\ failed' = failed
        BY <1>1, <2>1 DEF ric
      <3>2. Larger(blocked[s], ric) \in Nat
        BY <1>3, <2>1, LargerType DEF TypeOK
      <3> QED
        BY <2>1, <3>1, <3>2 DEF TypeOK
    <2>2. CASE s \notin DOMAIN blocked /\ blocked' = blocked /\ failed' = "blocked streams"
      BY <2>2 DEF TypeOK, Errors
    <2>3. CASE blocked' = Registered(blocked, s, ric) /\ failed' = failed
      <3>1. /\ DOMAIN Registered(blocked, s, ric) \subseteq Streams
            /\ \A r \in DOMAIN Registered(blocked, s, ric) :
                 Registered(blocked, s, ric)[r] \in Nat
        BY <1>3, RegisteredKeepsType DEF TypeOK
      <3> QED
        BY <2>3, <3>1 DEF TypeOK
    <2> QED
      BY <1>1, <2>1, <2>2, <2>3 DEF ric
  <1> QED
    BY <1>4 DEF BlockSection, TypeOK, SectionId, encoderVars, wireVars

LEMMA AcknowledgeSectionType ==
  ASSUME TypeOK, NEW s \in Streams, AcknowledgeSection(s)
  PROVE  TypeOK'
  <1>1. /\ Head(unacknowledged[s]) \in Decoded
        /\ Tail(unacknowledged[s]) \in Seq(Decoded)
    <2>1. unacknowledged[s] \in Seq(Decoded) /\ unacknowledged[s] # << >>
      BY DEF AcknowledgeSection, TypeOK
    <2> QED
      BY <2>1, HeadTailProperties
  <1>2. feedback' \in Seq(FeedbackMessage)
    <2>1. [type |-> "ack", stream |-> s, id |-> Head(unacknowledged[s]).id] \in FeedbackMessage
      BY <1>1 DEF Decoded, FeedbackMessage
    <2> QED
      BY <2>1 DEF AcknowledgeSection, TypeOK
  <1>3. decKrc' \in Nat
    BY <1>1, LargerType DEF AcknowledgeSection, TypeOK, Decoded
  <1>4. unacknowledged' \in [Streams -> Seq(Decoded)]
    BY <1>1 DEF AcknowledgeSection, TypeOK
  <1> QED
    BY <1>2, <1>3, <1>4 DEF AcknowledgeSection, TypeOK, SectionId, encoderVars

LEMMA CancelStreamType ==
  ASSUME TypeOK, NEW s \in Streams, CancelStream(s)
  PROVE  TypeOK'
  <1>1. feedback' \in Seq(FeedbackMessage)
    <2>1. [type |-> "cancel", stream |-> s] \in FeedbackMessage
      BY DEF FeedbackMessage
    <2> QED
      BY <2>1 DEF CancelStream, TypeOK
  <1>2. /\ DOMAIN blocked' \subseteq Streams
        /\ \A r \in DOMAIN blocked' : blocked'[r] \in Nat
    <2>1. blocked' = Without(blocked, {s})
      BY DEF CancelStream
    <2> QED
      BY <2>1, WithoutType DEF TypeOK
  <1>3. /\ requests' \in [Streams -> Seq(WireSections)]
        /\ unacknowledged' \in [Streams -> Seq(Decoded)]
    BY DEF CancelStream, TypeOK
  <1> QED
    BY <1>1, <1>2, <1>3 DEF CancelStream, TypeOK, SectionId, encoderVars

LEMMA EmitIncrementType ==
  ASSUME TypeOK, EmitIncrement
  PROVE  TypeOK'
  <1>1. decTable.insertCount \in Nat /\ decKrc \in Nat /\ decTable.insertCount > decKrc
    BY TableParts DEF EmitIncrement, TypeOK, IsWellFormed
  <1>2. Increment \in Nat \ {0}
    BY <1>1, ConnectionAssumption DEF Increment
  <1>3. feedback' \in Seq(FeedbackMessage)
    <2>1. [type |-> "increment", increment |-> Increment] \in FeedbackMessage
      BY <1>2 DEF FeedbackMessage
    <2> QED
      BY <2>1 DEF EmitIncrement, TypeOK
  <1>4. decKrc' \in Nat
    BY <1>1, <1>2 DEF EmitIncrement
  <1> QED
    BY <1>3, <1>4 DEF EmitIncrement, TypeOK, SectionId, encoderVars

LEMMA NextType == TypeOK /\ [Next]_vars => TypeOK'
  <1> SUFFICES ASSUME TypeOK, [Next]_vars PROVE TypeOK'
    OBVIOUS
  <1>1. CASE \E c \in Capacities : SetCapacity(c)
    BY <1>1, SetCapacityType
  <1>2. CASE InsertLiteral \/ InsertNameReference \/ Duplicate
    BY <1>2, InsertCases, InsertType
  <1>3. CASE ReceiveFeedback
    BY <1>3, ReceiveFeedbackType
  <1>4. CASE ReceiveInstruction
    BY <1>4, ReceiveInstructionType
  <1>5. CASE EmitIncrement
    BY <1>5, EmitIncrementType
  <1>6. CASE \E s \in Streams : \/ EncodeSection(s)
                                \/ DecodeSection(s)
                                \/ BlockSection(s)
                                \/ AcknowledgeSection(s)
                                \/ CancelStream(s)
    BY <1>6, EncodeSectionType, DecodeSectionType, BlockSectionType,
       AcknowledgeSectionType, CancelStreamType
  <1>7. CASE UNCHANGED vars
    BY <1>7 DEF vars, encoderVars, decoderVars, wireVars, TypeOK, SectionId
  <1> QED
    BY <1>1, <1>2, <1>3, <1>4, <1>5, <1>6, <1>7 DEF Next

\* Every variable keeps its type and both tables stay well formed, whatever
\* the order in which the two sides call the API (all of src/qpack).
THEOREM TypeCorrect == Spec => []TypeOK
  BY InitType, NextType, PTL DEF Spec

-----------------------------------------------------------------------------
(* No referenced entry leaves the encoder's table. *)

\* An operation that evicts only what the policy allows keeps the references.
LEMMA EvictionKeepsReferences ==
  ASSUME TypeOK, ReferencesStayActive, NEW keep, EvictionAllowed(keep),
         Active(encTable) \ Evicted(encTable, keep) \subseteq Active(encTable)',
         UNCHANGED outstanding
  PROVE  ReferencesStayActive'
  <1>1. ASSUME NEW n \in DOMAIN outstanding
        PROVE  outstanding[n].refs \subseteq Active(encTable)'
    <2>1. ASSUME NEW r \in outstanding[n].refs
          PROVE  r \notin Evicted(encTable, keep)
      <3>1. r \in Referenced(outstanding)
        BY DEF Referenced
      <3> QED
        BY <3>1 DEF EvictionAllowed, IsEvictable
    <2>2. outstanding[n].refs \subseteq Active(encTable)
      BY DEF ReferencesStayActive
    <2> QED
      BY <2>1, <2>2
  <1> QED
    BY <1>1 DEF ReferencesStayActive

\* An action that only drops records, or none, and leaves the table, too.
LEMMA FewerRecordsKeepReferences ==
  ASSUME ReferencesStayActive, UNCHANGED encTable,
         DOMAIN outstanding' \subseteq DOMAIN outstanding,
         \A n \in DOMAIN outstanding' : outstanding'[n] = outstanding[n]
  PROVE  ReferencesStayActive'
  BY DEF ReferencesStayActive

LEMMA EncodeSectionReferences ==
  ASSUME TypeOK, ReferencesStayActive, NEW s \in Streams, EncodeSection(s)
  PROVE  ReferencesStayActive'
  <1>1. PICK plan \in Plans(encTable), ric \in 0 .. encTable.insertCount :
          /\ IsRequired(ric, References(plan))
          /\ outstanding' =
               IF References(plan) = {} THEN outstanding
               ELSE Registered(outstanding, sectionCount,
                      [stream |-> s, ric |-> ric, refs |-> References(plan)])
    BY DEF EncodeSection
  <1>2. encTable' = encTable
    BY DEF EncodeSection
  <1>3. References(plan) \subseteq Active(encTable)
    BY PlanParts
  <1>4. CASE References(plan) = {}
    BY <1>1, <1>2, <1>4, FewerRecordsKeepReferences
  <1>5. CASE References(plan) # {}
    <2>1. ASSUME NEW n \in DOMAIN outstanding'
          PROVE  /\ outstanding'[n].refs \subseteq Active(encTable)
                 /\ IsRequired(outstanding'[n].ric, outstanding'[n].refs)
      BY <1>1, <1>3, <1>5 DEF Registered, ReferencesStayActive
    <2> QED
      BY <1>2, <2>1 DEF ReferencesStayActive
  <1> QED
    BY <1>4, <1>5

LEMMA NextReferences ==
  TypeOK /\ ReferencesStayActive /\ [Next]_vars => ReferencesStayActive'
  <1> SUFFICES ASSUME TypeOK, ReferencesStayActive, [Next]_vars
               PROVE  ReferencesStayActive'
    OBVIOUS
  <1>1. ASSUME NEW c \in Capacities, SetCapacity(c)
        PROVE  ReferencesStayActive'
    <2>1. PICK keep \in 0 .. Len(encTable.entries) :
            /\ CanSetCapacity(encTable, c, keep)
            /\ EvictionAllowed(keep)
            /\ encTable' = WithCapacity(encTable, c, keep)
      BY <1>1 DEF SetCapacity
    <2>2. keep \in Nat /\ c \in Nat /\ IsWellFormed(encTable)
      BY TableParts, ConnectionAssumption, MaxCapacityAssumption DEF TypeOK, IsWellFormed
    <2>3. Active(encTable') = Active(encTable) \ Evicted(encTable, keep)
      BY <2>1, <2>2, CapacityEvicts
    <2> QED
      BY <1>1, <2>1, <2>3, EvictionKeepsReferences DEF SetCapacity
  <1>2. ASSUME NEW i \in Instruction, i.type # "capacity", Insert(i)
        PROVE  ReferencesStayActive'
    <2>1. PICK keep \in 0 .. Len(encTable.entries) :
            /\ CanInsert(encTable, InsertedField(encTable, i), keep)
            /\ EvictionAllowed(keep)
            /\ encTable' = WithInserted(encTable, InsertedField(encTable, i), keep)
      BY <1>2 DEF Insert
    <2>2. /\ keep \in Nat
          /\ InsertedField(encTable, i) \in Field
          /\ IsWellFormed(encTable)
      <3>1. IsWellFormed(encTable) /\ SourceOk(encTable, i)
        BY <1>2 DEF TypeOK, Insert
      <3>2. keep \in Nat
        BY <3>1, TableParts DEF IsWellFormed
      <3> QED
        BY <1>2, <3>1, <3>2, InsertedFieldType
    <2>3. Active(encTable')
            = (Active(encTable) \ Evicted(encTable, keep)) \union {encTable.insertCount}
      BY <2>1, <2>2, EntriesSurvive
    <2> QED
      BY <1>2, <2>1, <2>3, EvictionKeepsReferences DEF Insert
  <1>3. CASE ReceiveFeedback
    <2>1. /\ DOMAIN outstanding' \subseteq DOMAIN outstanding
          /\ \A n \in DOMAIN outstanding' : outstanding'[n] = outstanding[n]
      BY <1>3 DEF ReceiveFeedback, ApplyAcknowledgment, ApplyCancellation,
                  ApplyIncrement, Without
    <2> QED
      BY <1>3, <2>1, FewerRecordsKeepReferences DEF ReceiveFeedback
  <1>4. ASSUME NEW s \in Streams, EncodeSection(s)
        PROVE  ReferencesStayActive'
    BY <1>4, EncodeSectionReferences
  <1>5. CASE UNCHANGED <<encTable, outstanding>>
    BY <1>5, FewerRecordsKeepReferences
  <1>6. CASE ReceiveInstruction \/ EmitIncrement \/ UNCHANGED vars
    BY <1>5, <1>6 DEF ReceiveInstruction, EmitIncrement, vars, encoderVars
  <1>7. CASE \E s \in Streams : \/ DecodeSection(s)
                                \/ BlockSection(s)
                                \/ AcknowledgeSection(s)
                                \/ CancelStream(s)
    BY <1>5, <1>7 DEF DecodeSection, BlockSection, AcknowledgeSection, CancelStream,
                      encoderVars
  <1> QED
    BY <1>1, <1>2, <1>3, <1>4, <1>6, <1>7, InsertCases DEF Next

\* Whatever is evicted, no unacknowledged section refers to it: the policy of
\* is_evictable (state/encoder.rs) protects every reference, on every stream.
THEOREM ReferencesProtected == Spec => []ReferencesStayActive
  <1>1. Init => ReferencesStayActive
    BY DEF Init, ReferencesStayActive
  <1> QED
    BY <1>1, NextReferences, TypeCorrect, PTL DEF Spec

-----------------------------------------------------------------------------
(* The inductive invariant, part by part. *)

\* What reading one instruction makes of a table.
Applied(i, t, u) ==
  IF i.type = "capacity"
  THEN /\ i.capacity \in Nat /\ i.capacity <= MaxCapacity
       /\ \E keep \in 0 .. Len(t.entries) :
            CanSetCapacity(t, i.capacity, keep) /\ u = WithCapacity(t, i.capacity, keep)
  ELSE /\ i \in Instruction /\ SourceOk(t, i)
       /\ \E keep \in 0 .. Len(t.entries) :
            /\ CanInsert(t, InsertedField(t, i), keep)
            /\ u = WithInserted(t, InsertedField(t, i), keep)

\* The table t may be a past state of the table u.
Precedes(t, u) ==
  /\ t.insertCount <= u.insertCount
  /\ Oldest(t) <= Oldest(u)
  /\ \A a \in Active(t) \intersect Active(u) : EntryAt(t, a) = EntryAt(u, a)

\* The tables the decoder passes through while it reads what is on the
\* encoder stream, from its own table to the encoder's.
IsReplay(tables, stream, from, to) ==
  /\ tables[0] = from /\ tables[Len(stream)] = to
  /\ \A k \in 1 .. Len(stream) : Applied(stream[k], tables[k - 1], tables[k])
  /\ \A k \in 0 .. Len(stream) : IsWellFormed(tables[k]) /\ Precedes(tables[k], to)

\* The instructions on the encoder stream lead from the decoder's table to the
\* encoder's.
DecoderFollows == \E tables : IsReplay(tables, instructions, decTable, encTable)

\* The encoder's table is no larger than the decoder allows, and what has left
\* it is known to be received.
EvictedIsReceived ==
  /\ encTable.capacity <= MaxCapacity
  /\ Oldest(encTable) <= encKrc

\* The Known Received Counts the encoder passes through while it reads what is
\* on the decoder stream, from its own to the decoder's.
Counted(m, from, to, sections) ==
  CASE m.type = "ack"       -> to = Larger(from, sections[m.id].ric)
    [] m.type = "increment" -> to = from + m.increment
    [] m.type = "cancel"    -> to = from

IsCount(counts, stream, from, to, sections) ==
  /\ counts[0] = from /\ counts[Len(stream)] = to
  /\ \A k \in 1 .. Len(stream) : Counted(stream[k], counts[k - 1], counts[k], sections)
  /\ \A k \in 0 .. Len(stream) : counts[k] \in Nat /\ counts[k] <= to

\* The feedback on the decoder stream leads from the encoder's count to the
\* decoder's, which counts no insertion the decoder does not have.
CountsMeet ==
  /\ \E counts : IsCount(counts, feedback, encKrc, decKrc, outstanding)
  /\ decKrc <= decTable.insertCount

-----------------------------------------------------------------------------
(* The sections of one stream "s", which are acknowledged on the decoder     *)
(* stream F, or decoded (U), or still to be decoded (R).  "sections" is the  *)
(* encoder's record and "gone" says that the stream is cancelled.            *)

\* A message about the stream s.
AckOf(m, s) == m.type = "ack" /\ m.stream = s

CancelOf(m, s) == m.type = "cancel" /\ m.stream = s

\* They pass in the order of their numbers.
InOrder(s, F, U, R) ==
  /\ \A i, j \in 1 .. Len(F) :
       i < j /\ AckOf(F[i], s) /\ AckOf(F[j], s) => F[i].id < F[j].id
  /\ \A i \in 1 .. Len(F), j \in 1 .. Len(U) : AckOf(F[i], s) => F[i].id < U[j].id
  /\ \A i \in 1 .. Len(F), j \in 1 .. Len(R) : AckOf(F[i], s) => F[i].id < R[j].id
  /\ \A i, j \in 1 .. Len(U) : i < j => U[i].id < U[j].id
  /\ \A i \in 1 .. Len(U), j \in 1 .. Len(R) : U[i].id < R[j].id
  /\ \A i, j \in 1 .. Len(R) : i < j => R[i].id < R[j].id

\* The encoder has a record of each that has references.
Recorded(s, F, U, R, sections) ==
  /\ \A i \in 1 .. Len(F) : AckOf(F[i], s) => F[i].id \in OfStream(sections, s)
  /\ \A i \in 1 .. Len(U) :
       U[i].id \in OfStream(sections, s) /\ sections[U[i].id].ric = U[i].ric
  /\ \A i \in 1 .. Len(R) : HasReferences(R[i]) => R[i].id \in OfStream(sections, s)

\* It has no other records of the stream, unless the stream is cancelled; then
\* the others are younger than those acknowledged.
Accounted(s, F, U, R, sections, gone) ==
  \A n \in OfStream(sections, s) :
    \/ \E i \in 1 .. Len(F) : AckOf(F[i], s) /\ F[i].id = n
    \/ \E i \in 1 .. Len(U) : U[i].id = n
    \/ \E i \in 1 .. Len(R) : HasReferences(R[i]) /\ R[i].id = n
    \/ gone /\ \A i \in 1 .. Len(F) : AckOf(F[i], s) => F[i].id < n

\* Nothing of the stream follows its cancellation.
Ended(s, F, U, R, gone) ==
  /\ gone => U = << >> /\ R = << >>
  /\ \A i \in 1 .. Len(F) : CancelOf(F[i], s) =>
       gone /\ \A j \in 1 .. Len(F) : AckOf(F[j], s) => j < i

\* All of it, for one stream.
Passing(s, F, U, R, sections, gone) ==
  /\ InOrder(s, F, U, R)
  /\ Recorded(s, F, U, R, sections)
  /\ Accounted(s, F, U, R, sections, gone)
  /\ Ended(s, F, U, R, gone)

\* All of it, for every stream.  Numbers not yet given out are larger, and what
\* has been decoded could be.
SectionsPass ==
  \A s \in Streams :
    /\ Passing(s, feedback, unacknowledged[s], requests[s], outstanding, s \in cancelled)
    /\ \A i \in 1 .. Len(requests[s]) : requests[s][i].id < sectionCount
    /\ \A i \in 1 .. Len(unacknowledged[s]) :
         unacknowledged[s][i].ric <= decTable.insertCount

-----------------------------------------------------------------------------
(* A section on its way says what its sender meant. *)

\* The Required Insert Count, the Base and the indexes that were meant.
SentRic(w, sections) == IF HasReferences(w) THEN sections[w.id].ric ELSE 0

SentBase(w, sections) == ResolvedBase(SentRic(w, sections), w.prefix)

SentIndex(line, base) == IF IsDynamic(line) THEN ResolvedIndex(line.at, base) ELSE 0

\* The section w has the prefix and the lines of what its sender meant, with its
\* indexes into the table t and its references on record.
Says(w, sections, t) ==
  /\ w.ric = EncodedRic(SentRic(w, sections))
  /\ SentBase(w, sections) \in Nat
  /\ Len(w.fields) = Len(w.lines)
  /\ \A k \in 1 .. Len(w.lines) :
       LET a == SentIndex(w.lines[k], SentBase(w, sections))
       IN  /\ IsDynamic(w.lines[k]) => a \in sections[w.id].refs
           /\ w.fields[k] = Meaning(t, w.lines[k], a)

\* It is so for every section on its way, with the encoder's table as it is now.
SectionsSay ==
  \A s \in Streams : \A i \in 1 .. Len(requests[s]) :
    Says(requests[s][i], outstanding, encTable)

\* A section of the stream needs as many insertions as "count".
Awaited(R, sections, count) ==
  \E i \in 1 .. Len(R) : HasReferences(R[i]) /\ count <= sections[R[i].id].ric

\* A blocked stream has its insertions or a section that needs them.
BlockedIsAwaited ==
  \A s \in DOMAIN blocked :
    blocked[s] <= decTable.insertCount \/ Awaited(requests[s], outstanding, blocked[s])

\* The encoder counts no more streams at risk than the decoder allows.
RiskIsLimited ==
  /\ IsFiniteSet(AtRisk(outstanding, encKrc))
  /\ Cardinality(AtRisk(outstanding, encKrc)) <= MaxBlockedStreams

\* The inductive invariant.
Inv ==
  /\ TypeOK /\ ReferencesStayActive
  /\ DecoderFollows /\ EvictedIsReceived /\ CountsMeet
  /\ SectionsPass /\ SectionsSay
  /\ BlockedIsAwaited /\ RiskIsLimited
  /\ NeverFails

-----------------------------------------------------------------------------
(* Queues: what Append, Head and Tail do to each message. *)

\* A message goes to the end of a stream.
LEMMA Appended ==
  ASSUME NEW S, NEW q \in Seq(S), NEW m \in S
  PROVE  /\ Append(q, m) \in Seq(S)
         /\ Len(q) \in Nat
         /\ Len(Append(q, m)) = Len(q) + 1
         /\ Append(q, m)[Len(q) + 1] = m
         /\ \A i \in 1 .. Len(q) : Append(q, m)[i] = q[i]
  OBVIOUS

\* It leaves from its head.
LEMMA Popped ==
  ASSUME NEW S, NEW q \in Seq(S), q # << >>
  PROVE  /\ Tail(q) \in Seq(S)
         /\ Len(q) \in Nat /\ Len(q) >= 1
         /\ Len(Tail(q)) = Len(q) - 1
         /\ Head(q) = q[1] /\ q[1] \in S
         /\ \A i \in 1 .. (Len(q) - 1) : Tail(q)[i] = q[i + 1]
  <1>1. Len(q) \in Nat /\ Len(q) >= 1
    BY EmptySeq
  <1> QED
    BY <1>1, HeadTailProperties

-----------------------------------------------------------------------------
(* One instruction, and the tables before and after it. *)

\* set_capacity leaves the "keep" newest entries.
LEMMA AfterCapacity ==
  ASSUME NEW t, IsWellFormed(t), NEW c \in Nat, NEW keep,
         CanSetCapacity(t, c, keep)
  PROVE  LET u == WithCapacity(t, c, keep)
         IN  /\ IsWellFormed(u) /\ u.capacity = c
             /\ u.insertCount = t.insertCount
             /\ Oldest(u) = t.insertCount - keep
             /\ Precedes(t, u)
  <1> DEFINE u == WithCapacity(t, c, keep)
  <1>1. t \in Table /\ t.entries \in Seq(Entry) /\ Len(t.entries) \in Nat /\ t.insertCount \in Nat
    BY TableParts DEF IsWellFormed
  <1>2. keep \in 0 .. Len(t.entries) /\ keep \in Nat
    BY <1>1 DEF CanSetCapacity, Retains
  <1>3. IsWellFormed(u)
    BY <1>2, WithCapacityWellFormed
  <1>4. u.capacity = c /\ u.insertCount = t.insertCount /\ Len(u.entries) = keep
    BY <1>1, <1>2, NewestOf DEF WithCapacity
  <1>5. /\ Active(u) = Active(t) \ Evicted(t, keep)
        /\ \A a \in Active(t) \ Evicted(t, keep) : EntryAt(u, a) = EntryAt(t, a)
    BY <1>2, CapacityEvicts
  <1> HIDE DEF u
  <1>6. Oldest(u) = t.insertCount - keep /\ Oldest(t) = t.insertCount - Len(t.entries)
    BY <1>4 DEF Oldest
  <1>7. Oldest(t) <= Oldest(u)
    BY <1>1, <1>2, <1>6
  <1>8. Precedes(t, u)
    BY <1>1, <1>4, <1>5, <1>7 DEF Precedes
  <1> QED
    BY <1>3, <1>4, <1>6, <1>8 DEF u

\* insert leaves the "keep" newest entries and the new one.
LEMMA AfterInsertion ==
  ASSUME NEW t, IsWellFormed(t), NEW f \in Field, NEW keep,
         CanInsert(t, f, keep)
  PROVE  LET u == WithInserted(t, f, keep)
         IN  /\ IsWellFormed(u) /\ u.capacity = t.capacity
             /\ u.insertCount = t.insertCount + 1
             /\ Oldest(u) = t.insertCount - keep
             /\ Precedes(t, u)
  <1> DEFINE u == WithInserted(t, f, keep)
  <1>1. /\ t \in Table /\ t.entries \in Seq(Entry) /\ Len(t.entries) \in Nat
        /\ t.insertCount \in Nat /\ IsPacked(t.entries)
    BY TableParts DEF IsWellFormed
  <1>2. keep \in 0 .. Len(t.entries) /\ keep \in Nat
    BY <1>1 DEF CanInsert, Retains
  <1>3. IsWellFormed(u)
    BY <1>2, WithInsertedWellFormed
  <1>4. /\ u.capacity = t.capacity /\ u.insertCount = t.insertCount + 1
        /\ Len(u.entries) = keep + 1
    BY <1>1, <1>2, PushedIsPacked DEF WithInserted
  <1>5. /\ Active(u) = (Active(t) \ Evicted(t, keep)) \union {t.insertCount}
        /\ \A a \in Active(t) \ Evicted(t, keep) : EntryAt(u, a) = EntryAt(t, a)
    BY <1>2, EntriesSurvive
  <1> HIDE DEF u
  <1>6. Oldest(u) = t.insertCount - keep /\ Oldest(t) = t.insertCount - Len(t.entries)
    BY <1>1, <1>2, <1>4 DEF Oldest
  <1>7. Oldest(t) <= Oldest(u)
    BY <1>1, <1>2, <1>6
  <1>8. t.insertCount \notin Active(t)
    BY <1>1 DEF Active
  <1>9. Precedes(t, u)
    BY <1>1, <1>4, <1>5, <1>7, <1>8 DEF Precedes
  <1> QED
    BY <1>3, <1>4, <1>6, <1>9 DEF u

\* Reading an instruction keeps a table well formed and takes it forward.
LEMMA AppliedGoesForward ==
  ASSUME NEW i, NEW t, IsWellFormed(t), NEW u, Applied(i, t, u)
  PROVE  IsWellFormed(u) /\ Precedes(t, u)
  <1>1. CASE i.type = "capacity"
    BY <1>1, AfterCapacity DEF Applied
  <1>2. CASE i.type # "capacity"
    <2>1. InsertedField(t, i) \in Field
      BY <1>2, InsertedFieldType DEF Applied
    <2> QED
      BY <1>2, <2>1, AfterInsertion DEF Applied
  <1> QED
    BY <1>1, <1>2

\* What an instruction makes of a table is determined: eviction is.
LEMMA AppliedIsDeterministic ==
  ASSUME NEW i, NEW t, IsWellFormed(t), NEW u, Applied(i, t, u), NEW v, Applied(i, t, v)
  PROVE  u = v
  <1>1. t.entries \in Seq(Entry) /\ t.capacity \in Nat
    BY TableParts DEF IsWellFormed
  <1>2. CASE i.type = "capacity"
    <2>1. i.capacity \in Nat
      BY <1>2 DEF Applied
    <2>2. PICK j \in 0 .. Len(t.entries) :
            CanSetCapacity(t, i.capacity, j) /\ u = WithCapacity(t, i.capacity, j)
      BY <1>2 DEF Applied
    <2>3. PICK k \in 0 .. Len(t.entries) :
            CanSetCapacity(t, i.capacity, k) /\ v = WithCapacity(t, i.capacity, k)
      BY <1>2 DEF Applied
    <2>4. j = k
      BY <1>1, <2>1, <2>2, <2>3, EvictionIsDeterministic DEF CanSetCapacity
    <2> QED
      BY <2>2, <2>3, <2>4
  <1>3. CASE i.type # "capacity"
    <2> DEFINE f == InsertedField(t, i)
    <2>1. f \in Field
      BY <1>3, InsertedFieldType DEF Applied
    <2>2. PICK j \in 0 .. Len(t.entries) : CanInsert(t, f, j) /\ u = WithInserted(t, f, j)
      BY <1>3 DEF Applied
    <2>3. PICK k \in 0 .. Len(t.entries) : CanInsert(t, f, k) /\ v = WithInserted(t, f, k)
      BY <1>3 DEF Applied
    <2> HIDE DEF f
    <2>4. t.capacity - EntrySize(f) \in Nat
      BY <1>1, <2>1, <2>2, FieldLenType DEF CanInsert
    <2>5. j = k
      BY <1>1, <2>2, <2>3, <2>4, EvictionIsDeterministic DEF CanInsert
    <2> QED
      BY <2>2, <2>3, <2>5
  <1> QED
    BY <1>2, <1>3

\* The bounds of a well-formed table are numbers.
LEMMA BoundsType ==
  ASSUME NEW t, IsWellFormed(t)
  PROVE  /\ t.insertCount \in Nat /\ t.capacity \in Nat
         /\ Oldest(t) \in Nat /\ Oldest(t) <= t.insertCount
         /\ \A a : a \in Active(t) <=> a \in Int /\ Oldest(t) <= a /\ a < t.insertCount
  <1>1. /\ t.insertCount \in Nat /\ t.capacity \in Nat /\ Len(t.entries) \in Nat
        /\ Len(t.entries) <= t.insertCount
    BY TableParts DEF IsWellFormed
  <1> QED
    BY <1>1 DEF Oldest, Active

\* To be a past state of a table is transitive.
LEMMA PrecedesTransitive ==
  ASSUME NEW t, IsWellFormed(t), NEW u, IsWellFormed(u), NEW v, IsWellFormed(v),
         Precedes(t, u), Precedes(u, v)
  PROVE  Precedes(t, v)
  <1>1. t.insertCount <= v.insertCount /\ Oldest(t) <= Oldest(v)
    BY BoundsType DEF Precedes
  <1>2. ASSUME NEW a \in Active(t) \intersect Active(v)
        PROVE  EntryAt(t, a) = EntryAt(v, a)
    <2>1. a \in Active(u)
      BY BoundsType DEF Precedes
    <2> QED
      BY <2>1 DEF Precedes
  <1> QED
    BY <1>1, <1>2 DEF Precedes

\* A table may be a past state of itself.
LEMMA PrecedesReflexive ==
  ASSUME NEW t, IsWellFormed(t)
  PROVE  Precedes(t, t)
  BY BoundsType DEF Precedes

\* What the encoder does to its table, the receiver of the instruction can do.
LEMMA ReplayGrows ==
  ASSUME NEW stream \in Seq(Instruction), NEW from, NEW to, IsWellFormed(to),
         \E tables : IsReplay(tables, stream, from, to),
         NEW i \in Instruction, NEW next, Applied(i, to, next)
  PROVE  \E tables : IsReplay(tables, Append(stream, i), from, next)
  <1> DEFINE n == Len(stream)
             longer == Append(stream, i)
  <1>1. PICK tables : IsReplay(tables, stream, from, to)
    OBVIOUS
  <1> DEFINE more == [k \in Nat |-> IF k <= n THEN tables[k] ELSE next]
  <1>2. /\ n \in Nat /\ Len(longer) = n + 1 /\ longer[n + 1] = i
        /\ \A k \in 1 .. n : longer[k] = stream[k]
    BY Appended
  <1>3. IsWellFormed(next) /\ Precedes(to, next)
    BY AppliedGoesForward
  <1>4. /\ \A k \in 0 .. n : more[k] = tables[k]
        /\ more[n + 1] = next
    BY <1>2
  <1> HIDE DEF more, longer, n
  <1>5. ASSUME NEW k \in 1 .. (n + 1)
        PROVE  Applied(longer[k], more[k - 1], more[k])
    <2>1. CASE k <= n
      <3>1. k \in 1 .. n /\ k \in 0 .. n /\ k - 1 \in 0 .. n
        BY <1>2, <2>1
      <3> QED
        BY <1>1, <1>2, <1>4, <3>1 DEF IsReplay, n
    <2>2. CASE k = n + 1
      <3>1. k - 1 = n /\ n \in 0 .. n
        BY <1>2, <2>2
      <3> QED
        BY <1>1, <1>2, <1>4, <2>2, <3>1 DEF IsReplay, n
    <2> QED
      BY <1>2, <2>1, <2>2
  <1>6. ASSUME NEW k \in 0 .. (n + 1)
        PROVE  IsWellFormed(more[k]) /\ Precedes(more[k], next)
    <2>1. CASE k <= n
      <3>1. k \in 0 .. n
        BY <1>2, <2>1
      <3>2. IsWellFormed(tables[k]) /\ Precedes(tables[k], to)
        BY <1>1, <3>1 DEF IsReplay, n
      <3> QED
        BY <1>3, <1>4, <3>1, <3>2, PrecedesTransitive
    <2>2. CASE k = n + 1
      BY <1>3, <1>4, <2>2, PrecedesReflexive
    <2> QED
      BY <1>2, <2>1, <2>2
  <1>7. more[0] = from
    <2>1. 0 \in 0 .. n
      BY <1>2
    <2> QED
      BY <1>1, <1>4, <2>1 DEF IsReplay
  <1>8. IsReplay(more, longer, from, next)
    BY <1>2, <1>4, <1>5, <1>6, <1>7 DEF IsReplay
  <1> QED
    BY <1>8 DEF longer

\* The receiver can read the next instruction; the rest is still a replay.
LEMMA ReplayAdvances ==
  ASSUME NEW stream \in Seq(Instruction), stream # << >>,
         NEW from, NEW to, \E tables : IsReplay(tables, stream, from, to)
  PROVE  \E next : /\ Applied(Head(stream), from, next)
                   /\ IsWellFormed(from) /\ IsWellFormed(next)
                   /\ \E tables : IsReplay(tables, Tail(stream), next, to)
  <1> DEFINE n == Len(stream)
             rest == Tail(stream)
  <1>1. PICK tables : IsReplay(tables, stream, from, to)
    OBVIOUS
  <1> DEFINE fewer == [k \in Nat |-> tables[k + 1]]
  <1>2. /\ n \in Nat /\ n >= 1 /\ Len(rest) = n - 1 /\ Head(stream) = stream[1]
        /\ \A k \in 1 .. (n - 1) : rest[k] = stream[k + 1]
    BY Popped
  <1>3. \A k \in Nat : fewer[k] = tables[k + 1]
    OBVIOUS
  <1> HIDE DEF fewer, rest, n
  <1>4. ASSUME NEW k \in 1 .. (n - 1)
        PROVE  Applied(rest[k], fewer[k - 1], fewer[k])
    <2>1. k + 1 \in 1 .. n /\ k - 1 \in Nat /\ k \in Nat /\ (k - 1) + 1 = (k + 1) - 1
      BY <1>2
    <2>2. Applied(stream[k + 1], tables[(k + 1) - 1], tables[k + 1])
      BY <1>1, <2>1 DEF IsReplay, n
    <2> QED
      BY <1>2, <1>3, <2>1, <2>2
  <1>5. ASSUME NEW k \in 0 .. (n - 1)
        PROVE  IsWellFormed(fewer[k]) /\ Precedes(fewer[k], to)
    <2>1. k + 1 \in 0 .. n /\ k \in Nat
      BY <1>2
    <2> QED
      BY <1>1, <1>3, <2>1 DEF IsReplay, n
  <1>6. fewer[0] = tables[1] /\ fewer[n - 1] = to
    <2>1. 0 + 1 = 1 /\ n - 1 \in Nat /\ (n - 1) + 1 = n
      BY <1>2
    <2> QED
      BY <1>1, <1>3, <2>1 DEF IsReplay, n
  <1>7. IsReplay(fewer, rest, tables[1], to)
    BY <1>2, <1>4, <1>5, <1>6 DEF IsReplay
  <1>8. /\ Applied(Head(stream), from, tables[1])
        /\ IsWellFormed(from) /\ IsWellFormed(tables[1])
    <2>1. 1 \in 1 .. n /\ 1 - 1 = 0 /\ 0 \in 0 .. n /\ 1 \in 0 .. n
      BY <1>2
    <2> QED
      BY <1>1, <1>2, <2>1 DEF IsReplay, n
  <1> QED
    BY <1>7, <1>8 DEF rest

-----------------------------------------------------------------------------
(* The Known Received Counts the encoder is going to pass through. *)

\* A message that takes the decoder's count forward takes the encoder's there.
LEMMA CountGrows ==
  ASSUME NEW stream \in Seq(FeedbackMessage), NEW from, NEW to \in Nat, NEW sections,
         \E counts : IsCount(counts, stream, from, to, sections),
         NEW m \in FeedbackMessage, NEW next \in Nat, to <= next,
         Counted(m, to, next, sections)
  PROVE  \E counts : IsCount(counts, Append(stream, m), from, next, sections)
  <1> DEFINE n == Len(stream)
             longer == Append(stream, m)
  <1>1. PICK counts : IsCount(counts, stream, from, to, sections)
    OBVIOUS
  <1> DEFINE more == [k \in Nat |-> IF k <= n THEN counts[k] ELSE next]
  <1>2. /\ n \in Nat /\ Len(longer) = n + 1 /\ longer[n + 1] = m
        /\ \A k \in 1 .. n : longer[k] = stream[k]
    BY Appended
  <1>3. /\ \A k \in 0 .. n : more[k] = counts[k]
        /\ more[n + 1] = next
    BY <1>2
  <1> HIDE DEF more, longer, n
  <1>4. ASSUME NEW k \in 1 .. (n + 1)
        PROVE  Counted(longer[k], more[k - 1], more[k], sections)
    <2>1. CASE k <= n
      <3>1. k \in 1 .. n /\ k \in 0 .. n /\ k - 1 \in 0 .. n
        BY <1>2, <2>1
      <3> QED
        BY <1>1, <1>2, <1>3, <3>1 DEF IsCount, n
    <2>2. CASE k = n + 1
      <3>1. k - 1 = n /\ n \in 0 .. n
        BY <1>2, <2>2
      <3> QED
        BY <1>1, <1>2, <1>3, <2>2, <3>1 DEF IsCount, n
    <2> QED
      BY <1>2, <2>1, <2>2
  <1>5. ASSUME NEW k \in 0 .. (n + 1)
        PROVE  more[k] \in Nat /\ more[k] <= next
    <2>1. CASE k <= n
      <3>1. k \in 0 .. n
        BY <1>2, <2>1
      <3>2. counts[k] \in Nat /\ counts[k] <= to
        BY <1>1, <3>1 DEF IsCount, n
      <3> QED
        BY <1>3, <3>1, <3>2
    <2>2. CASE k = n + 1
      BY <1>3, <2>2
    <2> QED
      BY <1>2, <2>1, <2>2
  <1>6. more[0] = from
    <2>1. 0 \in 0 .. n
      BY <1>2
    <2> QED
      BY <1>1, <1>3, <2>1 DEF IsCount
  <1>7. IsCount(more, longer, from, next, sections)
    BY <1>2, <1>3, <1>4, <1>5, <1>6 DEF IsCount
  <1> QED
    BY <1>7 DEF longer

\* The next message takes the encoder to a count no higher than the decoder's.
LEMMA CountAdvances ==
  ASSUME NEW stream \in Seq(FeedbackMessage), stream # << >>,
         NEW from, NEW to, NEW sections,
         \E counts : IsCount(counts, stream, from, to, sections)
  PROVE  \E next \in Nat :
           /\ Counted(Head(stream), from, next, sections)
           /\ next <= to
           /\ \E counts : IsCount(counts, Tail(stream), next, to, sections)
  <1> DEFINE n == Len(stream)
             rest == Tail(stream)
  <1>1. PICK counts : IsCount(counts, stream, from, to, sections)
    OBVIOUS
  <1> DEFINE fewer == [k \in Nat |-> counts[k + 1]]
  <1>2. /\ n \in Nat /\ n >= 1 /\ Len(rest) = n - 1 /\ Head(stream) = stream[1]
        /\ \A k \in 1 .. (n - 1) : rest[k] = stream[k + 1]
    BY Popped
  <1>3. \A k \in Nat : fewer[k] = counts[k + 1]
    OBVIOUS
  <1> HIDE DEF fewer, rest, n
  <1>4. ASSUME NEW k \in 1 .. (n - 1)
        PROVE  Counted(rest[k], fewer[k - 1], fewer[k], sections)
    <2>1. k + 1 \in 1 .. n /\ k - 1 \in Nat /\ k \in Nat /\ (k - 1) + 1 = (k + 1) - 1
      BY <1>2
    <2>2. Counted(stream[k + 1], counts[(k + 1) - 1], counts[k + 1], sections)
      BY <1>1, <2>1 DEF IsCount, n
    <2> QED
      BY <1>2, <1>3, <2>1, <2>2
  <1>5. ASSUME NEW k \in 0 .. (n - 1)
        PROVE  fewer[k] \in Nat /\ fewer[k] <= to
    <2>1. k + 1 \in 0 .. n /\ k \in Nat
      BY <1>2
    <2> QED
      BY <1>1, <1>3, <2>1 DEF IsCount, n
  <1>6. fewer[0] = counts[1] /\ fewer[n - 1] = to
    <2>1. 0 + 1 = 1 /\ n - 1 \in Nat /\ (n - 1) + 1 = n
      BY <1>2
    <2> QED
      BY <1>1, <1>3, <2>1 DEF IsCount, n
  <1>7. IsCount(fewer, rest, counts[1], to, sections)
    BY <1>2, <1>4, <1>5, <1>6 DEF IsCount
  <1>8. /\ Counted(Head(stream), from, counts[1], sections)
        /\ counts[1] \in Nat /\ counts[1] <= to
    <2>1. 1 \in 1 .. n /\ 1 - 1 = 0 /\ 1 \in 0 .. n
      BY <1>2
    <2> QED
      BY <1>1, <1>2, <2>1 DEF IsCount, n
  <1> QED
    BY <1>7, <1>8 DEF rest

\* Only the records of acknowledged sections count.
LEMMA CountKeepsSections ==
  ASSUME NEW stream \in Seq(FeedbackMessage), NEW from, NEW to, NEW sections, NEW others,
         \E counts : IsCount(counts, stream, from, to, sections),
         \A k \in 1 .. Len(stream) :
           stream[k].type = "ack" => others[stream[k].id] = sections[stream[k].id]
  PROVE  \E counts : IsCount(counts, stream, from, to, others)
  <1>1. PICK counts : IsCount(counts, stream, from, to, sections)
    OBVIOUS
  <1>2. ASSUME NEW k \in 1 .. Len(stream)
        PROVE  Counted(stream[k], counts[k - 1], counts[k], others)
    <2>1. Counted(stream[k], counts[k - 1], counts[k], sections)
      BY <1>1 DEF IsCount
    <2>2. stream[k].type \in {"ack", "increment", "cancel"}
      BY ElementOfSeq DEF FeedbackMessage
    <2>3. stream[k].type = "ack" => others[stream[k].id] = sections[stream[k].id]
      OBVIOUS
    <2> QED
      BY <2>1, <2>2, <2>3 DEF Counted
  <1>3. IsCount(counts, stream, from, to, others)
    BY <1>1, <1>2 DEF IsCount
  <1> QED
    BY <1>3

\* Among numbers with a property there is a least.
LEMMA LeastNumber ==
  ASSUME NEW S \in SUBSET Nat, S # {}
  PROVE  \E n \in S : \A m \in S : ~ (m < n)
  <1>1. PICK n \in S : \A m \in S : ~ (<<m, n>> \in OpToRel(<, Nat))
    BY NatLessThanWellFounded, WFMin
  <1>2. ASSUME NEW m \in S PROVE ~ (m < n)
    <2>1. m \in Nat /\ n \in Nat
      OBVIOUS
    <2>2. <<m, n>> \in OpToRel(<, Nat) <=> m < n
      BY <2>1 DEF OpToRel
    <2> QED
      BY <1>1, <2>2
  <1> QED
    BY <1>2

\* The count the encoder arrives at is the one the recursive definition names.
LEMMA CountIsKrcAfter ==
  ASSUME feedback \in Seq(FeedbackMessage),
         \E counts : IsCount(counts, feedback, encKrc, decKrc, outstanding)
  PROVE  KrcAfter(Len(feedback)) = decKrc
  <1> DEFINE n == Len(feedback)
             Body(f, i) ==
               IF i = 0 THEN encKrc
               ELSE CASE feedback[i].type = "ack" ->
                           Larger(f[i - 1], outstanding[feedback[i].id].ric)
                      [] feedback[i].type = "increment" -> f[i - 1] + feedback[i].increment
                      [] feedback[i].type = "cancel" -> f[i - 1]
             Solves(f) == f = [i \in 0 .. n |-> Body(f, i)]
             krc == CHOOSE f : Solves(f)
  <1>1. PICK counts : IsCount(counts, feedback, encKrc, decKrc, outstanding)
    OBVIOUS
  <1>2. n \in Nat /\ \A i \in 1 .. n : feedback[i] \in FeedbackMessage
    BY ElementOfSeq
  <1>3. KrcAfter(n) = krc[n]
    BY DEF KrcAfter
  <1> HIDE DEF n
  <1>4. ASSUME NEW i \in 1 .. n
        PROVE  counts[i] = CASE feedback[i].type = "ack" ->
                                  Larger(counts[i - 1], outstanding[feedback[i].id].ric)
                             [] feedback[i].type = "increment" ->
                                  counts[i - 1] + feedback[i].increment
                             [] feedback[i].type = "cancel" -> counts[i - 1]
    <2>1. Counted(feedback[i], counts[i - 1], counts[i], outstanding)
      BY <1>1 DEF IsCount, n
    <2>2. feedback[i].type \in {"ack", "increment", "cancel"}
      BY <1>2 DEF FeedbackMessage
    <2> QED
      BY <2>1, <2>2 DEF Counted
  <1> DEFINE g == [i \in 0 .. n |-> counts[i]]
  <1>5. ASSUME NEW i \in 0 .. n
        PROVE  g[i] = Body(g, i)
    <2>1. CASE i = 0
      BY <1>1, <2>1 DEF IsCount
    <2>2. CASE i # 0
      <3>1. i \in 1 .. n /\ i - 1 \in 0 .. n
        BY <1>2, <2>2
      <3>2. g[i] = counts[i] /\ g[i - 1] = counts[i - 1]
        BY <3>1
      <3> QED
        BY <1>4, <2>2, <3>1, <3>2
    <2> QED
      BY <2>1, <2>2
  <1>6. Solves(g)
    BY <1>5
  <1>7. Solves(krc)
    <2> HIDE DEF Solves, g
    <2> QED
      BY <1>6
  <1> HIDE DEF g, krc
  <1>8. \A i \in 0 .. n : krc[i] = Body(krc, i)
    <2>1. krc = [i \in 0 .. n |-> Body(krc, i)]
      BY <1>7
    <2> HIDE DEF Body
    <2> QED
      BY <2>1
  <1> DEFINE wrong == {i \in 0 .. n : krc[i] # counts[i]}
  <1>9. wrong = {}
    <2> SUFFICES ASSUME wrong # {} PROVE FALSE
      OBVIOUS
    <2>1. PICK i \in wrong : \A j \in wrong : ~ (j < i)
      <3>1. wrong \in SUBSET Nat
        BY <1>2
      <3> HIDE DEF wrong
      <3> QED
        BY <3>1, LeastNumber
    <2>2. i \in 0 .. n /\ krc[i] # counts[i]
      OBVIOUS
    <2>3. i # 0
      <3>1. counts[0] = encKrc
        BY <1>1 DEF IsCount
      <3>2. 0 \in 0 .. n => krc[0] = encKrc
        BY <1>8
      <3> QED
        BY <2>2, <3>1, <3>2
    <2>4. i \in 1 .. n /\ i - 1 \in 0 .. n /\ i - 1 < i
      BY <1>2, <2>2, <2>3
    <2>5. krc[i - 1] = counts[i - 1]
      <3>1. i - 1 \notin wrong
        BY <2>1, <2>4
      <3> QED
        BY <2>4, <3>1
    <2>6. krc[i] = counts[i]
      BY <1>4, <1>8, <2>2, <2>3, <2>4, <2>5
    <2> QED
      BY <2>2, <2>6
  <1>10. n \in 0 .. n
    BY <1>2
  <1>11. krc[n] = counts[n]
    BY <1>9, <1>10
  <1> QED
    BY <1>1, <1>3, <1>11 DEF IsCount, n

-----------------------------------------------------------------------------
(* The sections of one stream on their way, and what each operation does to  *)
(* them.                                                                     *)

\* The numbers of sections are numbers.
LEMMA NumbersType ==
  ASSUME NEW s \in Streams, NEW F \in Seq(FeedbackMessage), NEW U \in Seq(Decoded),
         NEW R \in Seq(WireSections)
  PROVE  /\ Len(F) \in Nat /\ Len(U) \in Nat /\ Len(R) \in Nat
         /\ \A i \in 1 .. Len(F) : AckOf(F[i], s) => F[i].id \in Nat
         /\ \A i \in 1 .. Len(U) : U[i].id \in Nat /\ U[i].ric \in Nat
         /\ \A i \in 1 .. Len(R) : R[i].id \in Nat
  <1>1. Len(F) \in Nat /\ Len(U) \in Nat /\ Len(R) \in Nat
    OBVIOUS
  <1>2. ASSUME NEW i \in 1 .. Len(F), AckOf(F[i], s) PROVE F[i].id \in Nat
    <2>1. F[i] \in FeedbackMessage
      BY ElementOfSeq
    <2> QED
      BY <1>2, <2>1 DEF AckOf, FeedbackMessage
  <1>3. ASSUME NEW i \in 1 .. Len(U) PROVE U[i].id \in Nat /\ U[i].ric \in Nat
    <2>1. U[i] \in Decoded
      BY ElementOfSeq
    <2> QED
      BY <2>1 DEF Decoded
  <1>4. ASSUME NEW i \in 1 .. Len(R) PROVE R[i].id \in Nat
    <2>1. R[i] \in WireSections
      BY ElementOfSeq
    <2> QED
      BY <2>1 DEF WireSections
  <1> QED
    BY <1>1, <1>2, <1>3, <1>4

\* Records of other streams do not matter.
LEMMA OtherRecords ==
  ASSUME NEW s, NEW F, NEW U, NEW R, NEW sections, NEW gone,
         Passing(s, F, U, R, sections, gone),
         NEW others, OfStream(others, s) = OfStream(sections, s),
         \A n \in OfStream(sections, s) : others[n] = sections[n]
  PROVE  Passing(s, F, U, R, others, gone)
  BY DEF Passing, Recorded, Accounted

\* Feedback about something else does not matter.
LEMMA OtherFeedbackSent ==
  ASSUME NEW s, NEW F \in Seq(FeedbackMessage), NEW U, NEW R, NEW sections, NEW gone,
         Passing(s, F, U, R, sections, gone),
         NEW m \in FeedbackMessage, ~ AckOf(m, s), ~ CancelOf(m, s)
  PROVE  Passing(s, Append(F, m), U, R, sections, gone)
  <1> DEFINE G == Append(F, m)
             n == Len(F)
  <1>1. /\ n \in Nat /\ Len(G) = n + 1
        /\ \A i \in 1 .. n : G[i] = F[i]
        /\ G[n + 1] = m
    BY Appended
  <1>2. \A i \in 1 .. Len(G) : AckOf(G[i], s) \/ CancelOf(G[i], s) =>
          i \in 1 .. n /\ G[i] = F[i]
    BY <1>1
  <1>3. \A i \in 1 .. n : i \in 1 .. Len(G) /\ G[i] = F[i]
    BY <1>1
  <1> HIDE DEF G, n
  <1>4. InOrder(s, G, U, R)
    BY <1>2 DEF Passing, InOrder, n
  <1>5. Recorded(s, G, U, R, sections)
    BY <1>2 DEF Passing, Recorded, n
  <1>6. Accounted(s, G, U, R, sections, gone)
    <2> SUFFICES ASSUME NEW k \in OfStream(sections, s)
                 PROVE  \/ \E i \in 1 .. Len(G) : AckOf(G[i], s) /\ G[i].id = k
                        \/ \E i \in 1 .. Len(U) : U[i].id = k
                        \/ \E i \in 1 .. Len(R) : HasReferences(R[i]) /\ R[i].id = k
                        \/ gone /\ \A i \in 1 .. Len(G) : AckOf(G[i], s) => G[i].id < k
      BY DEF Accounted
    <2>1. \/ \E i \in 1 .. n : AckOf(F[i], s) /\ F[i].id = k
          \/ \E i \in 1 .. Len(U) : U[i].id = k
          \/ \E i \in 1 .. Len(R) : HasReferences(R[i]) /\ R[i].id = k
          \/ gone /\ \A i \in 1 .. n : AckOf(F[i], s) => F[i].id < k
      BY DEF Passing, Accounted, n
    <2> QED
      BY <1>2, <1>3, <2>1
  <1>7. Ended(s, G, U, R, gone)
    BY <1>2 DEF Passing, Ended, n
  <1> QED
    BY <1>4, <1>5, <1>6, <1>7 DEF Passing, G

\* Nor does the encoder's reading it.
LEMMA OtherFeedbackRead ==
  ASSUME NEW s, NEW F \in Seq(FeedbackMessage), F # << >>,
         NEW U, NEW R, NEW sections, NEW gone,
         Passing(s, F, U, R, sections, gone), ~ AckOf(Head(F), s)
  PROVE  Passing(s, Tail(F), U, R, sections, gone)
  <1> DEFINE G == Tail(F)
             n == Len(F)
  <1>1. /\ n \in Nat /\ n >= 1 /\ Len(G) = n - 1
        /\ \A i \in 1 .. (n - 1) : G[i] = F[i + 1]
        /\ Head(F) = F[1]
    BY Popped
  <1> HIDE DEF G, n
  <1>2. \A i \in 1 .. Len(G) : i + 1 \in 1 .. n /\ G[i] = F[i + 1]
    BY <1>1
  <1>3. \A i \in 1 .. n : AckOf(F[i], s) => i - 1 \in 1 .. Len(G) /\ G[i - 1] = F[i]
    <2> SUFFICES ASSUME NEW i \in 1 .. n, AckOf(F[i], s)
                 PROVE  i - 1 \in 1 .. Len(G) /\ G[i - 1] = F[i]
      OBVIOUS
    <2>1. i # 1
      BY <1>1
    <2>2. i - 1 \in 1 .. (n - 1) /\ (i - 1) + 1 = i
      BY <1>1, <2>1
    <2> QED
      BY <1>1, <2>2
  <1>4. InOrder(s, G, U, R)
    <2>1. \A i, j \in 1 .. Len(G) :
            i < j /\ AckOf(G[i], s) /\ AckOf(G[j], s) => G[i].id < G[j].id
      <3> SUFFICES ASSUME NEW i \in 1 .. Len(G), NEW j \in 1 .. Len(G),
                          i < j, AckOf(G[i], s), AckOf(G[j], s)
                   PROVE  G[i].id < G[j].id
        OBVIOUS
      <3>1. i + 1 \in 1 .. n /\ j + 1 \in 1 .. n /\ i + 1 < j + 1
        BY <1>1, <1>2
      <3> QED
        BY <1>2, <3>1 DEF Passing, InOrder, n
    <2>2. /\ \A i \in 1 .. Len(G), j \in 1 .. Len(U) : AckOf(G[i], s) => G[i].id < U[j].id
          /\ \A i \in 1 .. Len(G), j \in 1 .. Len(R) : AckOf(G[i], s) => G[i].id < R[j].id
      BY <1>2 DEF Passing, InOrder, n
    <2> QED
      BY <2>1, <2>2 DEF Passing, InOrder
  <1>5. Recorded(s, G, U, R, sections)
    BY <1>2 DEF Passing, Recorded, n
  <1>6. Accounted(s, G, U, R, sections, gone)
    <2> SUFFICES ASSUME NEW k \in OfStream(sections, s)
                 PROVE  \/ \E i \in 1 .. Len(G) : AckOf(G[i], s) /\ G[i].id = k
                        \/ \E i \in 1 .. Len(U) : U[i].id = k
                        \/ \E i \in 1 .. Len(R) : HasReferences(R[i]) /\ R[i].id = k
                        \/ gone /\ \A i \in 1 .. Len(G) : AckOf(G[i], s) => G[i].id < k
      BY DEF Accounted
    <2>1. \/ \E i \in 1 .. n : AckOf(F[i], s) /\ F[i].id = k
          \/ \E i \in 1 .. Len(U) : U[i].id = k
          \/ \E i \in 1 .. Len(R) : HasReferences(R[i]) /\ R[i].id = k
          \/ gone /\ \A i \in 1 .. n : AckOf(F[i], s) => F[i].id < k
      BY DEF Passing, Accounted, n
    <2>2. CASE \E i \in 1 .. n : AckOf(F[i], s) /\ F[i].id = k
      <3>1. PICK i \in 1 .. n : AckOf(F[i], s) /\ F[i].id = k
        BY <2>2
      <3>2. i - 1 \in 1 .. Len(G) /\ G[i - 1] = F[i]
        BY <1>3, <3>1
      <3> QED
        BY <3>1, <3>2
    <2>3. CASE gone /\ \A i \in 1 .. n : AckOf(F[i], s) => F[i].id < k
      <3>1. \A i \in 1 .. Len(G) : AckOf(G[i], s) => G[i].id < k
        BY <1>2, <2>3
      <3> QED
        BY <2>3, <3>1
    <2> QED
      BY <2>1, <2>2, <2>3
  <1>7. Ended(s, G, U, R, gone)
    <2> SUFFICES ASSUME NEW i \in 1 .. Len(G), CancelOf(G[i], s)
                 PROVE  gone /\ \A j \in 1 .. Len(G) : AckOf(G[j], s) => j < i
      BY DEF Passing, Ended
    <2>1. i + 1 \in 1 .. n /\ CancelOf(F[i + 1], s)
      BY <1>2
    <2>2. gone /\ \A j \in 1 .. n : AckOf(F[j], s) => j < i + 1
      BY <2>1 DEF Passing, Ended, n
    <2>3. ASSUME NEW j \in 1 .. Len(G), AckOf(G[j], s) PROVE j < i
      <3>1. j + 1 \in 1 .. n /\ AckOf(F[j + 1], s)
        BY <1>2, <2>3
      <3>2. j + 1 < i + 1
        BY <2>2, <3>1
      <3> QED
        BY <1>1, <3>2
    <2> QED
      BY <2>2, <2>3
  <1> QED
    BY <1>4, <1>5, <1>6, <1>7 DEF Passing, G

\* A section that goes out on the stream is the youngest.
LEMMA SectionSent ==
  ASSUME NEW s \in Streams, NEW F \in Seq(FeedbackMessage), NEW U \in Seq(Decoded),
         NEW R \in Seq(WireSections), NEW sections, NEW count \in Nat,
         Passing(s, F, U, R, sections, FALSE),
         DOMAIN sections \subseteq 0 .. (count - 1),
         \A i \in 1 .. Len(R) : R[i].id < count,
         NEW w \in WireSections, w.id = count, NEW record, record.stream = s
  PROVE  Passing(s, F, U, Append(R, w),
                 IF HasReferences(w) THEN Registered(sections, count, record) ELSE sections,
                 FALSE)
  <1> DEFINE Q == Append(R, w)
             n == Len(R)
             after == IF HasReferences(w) THEN Registered(sections, count, record)
                      ELSE sections
  <1>1. /\ n \in Nat /\ Len(Q) = n + 1
        /\ \A i \in 1 .. n : Q[i] = R[i]
        /\ Q[n + 1] = w
    BY Appended
  <1>2. /\ \A k \in OfStream(sections, s) : k \in OfStream(after, s) /\ after[k] = sections[k]
        /\ \A k \in OfStream(after, s) :
             k \in OfStream(sections, s) \/ (HasReferences(w) /\ k = count)
        /\ HasReferences(w) => count \in OfStream(after, s)
        /\ \A k \in OfStream(sections, s) : k < count /\ k \in Nat
    BY DEF OfStream, Registered
  <1>3. /\ \A i \in 1 .. Len(F) : AckOf(F[i], s) => F[i].id < count
        /\ \A i \in 1 .. Len(U) : U[i].id < count
    BY <1>2 DEF Passing, Recorded
  <1>4. \A i \in 1 .. Len(Q) : (i \in 1 .. n /\ Q[i] = R[i]) \/ (i = n + 1 /\ Q[i] = w)
    BY <1>1
  <1>5. \A i \in 1 .. n : i \in 1 .. Len(Q) /\ Q[i] = R[i]
    BY <1>1
  <1>6. n + 1 \in 1 .. Len(Q)
    BY <1>1
  <1> HIDE DEF Q, n, after
  <1>7. InOrder(s, F, U, Q)
    <2>1. \A i, j \in 1 .. Len(Q) : i < j => Q[i].id < Q[j].id
      <3> SUFFICES ASSUME NEW i \in 1 .. Len(Q), NEW j \in 1 .. Len(Q), i < j
                   PROVE  Q[i].id < Q[j].id
        OBVIOUS
      <3>1. i \in 1 .. n /\ Q[i] = R[i]
        BY <1>1, <1>4
      <3>2. CASE j \in 1 .. n /\ Q[j] = R[j]
        BY <3>1, <3>2 DEF Passing, InOrder, n
      <3>3. CASE j = n + 1 /\ Q[j] = w
        BY <3>1, <3>3 DEF n
      <3> QED
        BY <1>4, <3>2, <3>3
    <2>2. \A i \in 1 .. Len(F), j \in 1 .. Len(Q) : AckOf(F[i], s) => F[i].id < Q[j].id
      BY <1>3, <1>4 DEF Passing, InOrder, n
    <2>3. \A i \in 1 .. Len(U), j \in 1 .. Len(Q) : U[i].id < Q[j].id
      BY <1>3, <1>4 DEF Passing, InOrder, n
    <2> QED
      BY <2>1, <2>2, <2>3 DEF Passing, InOrder
  <1>8. Recorded(s, F, U, Q, after)
    BY <1>2, <1>4 DEF Passing, Recorded, n
  <1>9. Accounted(s, F, U, Q, after, FALSE)
    <2> SUFFICES ASSUME NEW k \in OfStream(after, s)
                 PROVE  \/ \E i \in 1 .. Len(F) : AckOf(F[i], s) /\ F[i].id = k
                        \/ \E i \in 1 .. Len(U) : U[i].id = k
                        \/ \E i \in 1 .. Len(Q) : HasReferences(Q[i]) /\ Q[i].id = k
      BY DEF Accounted
    <2>1. CASE k \in OfStream(sections, s)
      <3>1. \/ \E i \in 1 .. Len(F) : AckOf(F[i], s) /\ F[i].id = k
            \/ \E i \in 1 .. Len(U) : U[i].id = k
            \/ \E i \in 1 .. n : HasReferences(R[i]) /\ R[i].id = k
        BY <2>1 DEF Passing, Accounted, n
      <3> QED
        BY <1>5, <3>1
    <2>2. CASE HasReferences(w) /\ k = count
      BY <1>1, <1>6, <2>2
    <2> QED
      BY <1>2, <2>1, <2>2
  <1>10. Ended(s, F, U, Q, FALSE)
    BY DEF Passing, Ended
  <1> QED
    BY <1>7, <1>8, <1>9, <1>10 DEF Passing, Q, after

\* A section sent on a stream the other side has cancelled is recorded, too.
LEMMA SectionSentInVain ==
  ASSUME NEW s \in Streams, NEW F \in Seq(FeedbackMessage), NEW U \in Seq(Decoded),
         NEW R \in Seq(WireSections), NEW sections, NEW count \in Nat,
         Passing(s, F, U, R, sections, TRUE),
         DOMAIN sections \subseteq 0 .. (count - 1),
         NEW record, record.stream = s
  PROVE  Passing(s, F, U, R, Registered(sections, count, record), TRUE)
  <1> DEFINE after == Registered(sections, count, record)
  <1>1. /\ \A k \in OfStream(sections, s) : k \in OfStream(after, s) /\ after[k] = sections[k]
        /\ \A k \in OfStream(after, s) : k \in OfStream(sections, s) \/ k = count
        /\ \A k \in OfStream(sections, s) : k < count /\ k \in Nat
    BY DEF OfStream, Registered
  <1> HIDE DEF after
  <1>2. \A i \in 1 .. Len(F) : AckOf(F[i], s) => F[i].id < count
    BY <1>1 DEF Passing, Recorded
  <1>3. Recorded(s, F, U, R, after)
    BY <1>1 DEF Passing, Recorded
  <1>4. Accounted(s, F, U, R, after, TRUE)
    BY <1>1, <1>2 DEF Passing, Accounted
  <1> QED
    BY <1>3, <1>4 DEF Passing, after

\* The oldest section of the stream is decoded.
LEMMA SectionTaken ==
  ASSUME NEW s \in Streams, NEW F \in Seq(FeedbackMessage), NEW U \in Seq(Decoded),
         NEW R \in Seq(WireSections), R # << >>, NEW sections, NEW gone,
         Passing(s, F, U, R, sections, gone), NEW ric \in Nat,
         HasReferences(Head(R)) => sections[Head(R).id].ric = ric
  PROVE  Passing(s, F,
                 IF HasReferences(Head(R)) THEN Append(U, [id |-> Head(R).id, ric |-> ric])
                 ELSE U,
                 Tail(R), sections, gone)
  <1> DEFINE w == Head(R)
             Q == Tail(R)
             n == Len(R)
             u == [id |-> w.id, ric |-> ric]
             V == IF HasReferences(w) THEN Append(U, u) ELSE U
             m == Len(U)
  <1>1. /\ n \in Nat /\ n >= 1 /\ Len(Q) = n - 1 /\ w = R[1]
        /\ \A i \in 1 .. (n - 1) : Q[i] = R[i + 1]
        /\ w \in WireSections
    BY Popped
  <1>2. u \in Decoded /\ u.id = w.id /\ u.ric = ric /\ w.id \in Nat
    BY <1>1 DEF Decoded, WireSections
  <1>3. /\ m \in Nat
        /\ HasReferences(w) =>
             /\ Len(V) = m + 1 /\ V[m + 1] = u
             /\ \A i \in 1 .. m : V[i] = U[i]
        /\ ~ HasReferences(w) => V = U
    BY <1>2, Appended
  <1> HIDE DEF w, Q, n, u, V, m
  <1>4. \A i \in 1 .. Len(Q) : i + 1 \in 1 .. n /\ Q[i] = R[i + 1] /\ 1 < i + 1
    BY <1>1
  <1>5. \A i \in 2 .. n : i - 1 \in 1 .. Len(Q) /\ Q[i - 1] = R[i]
    <2> SUFFICES ASSUME NEW i \in 2 .. n
                 PROVE  i - 1 \in 1 .. Len(Q) /\ Q[i - 1] = R[i]
      OBVIOUS
    <2>1. i - 1 \in 1 .. (n - 1) /\ (i - 1) + 1 = i
      BY <1>1
    <2> QED
      BY <1>1, <2>1
  <1>6. \A i \in 1 .. Len(V) :
          \/ i \in 1 .. m /\ V[i] = U[i]
          \/ HasReferences(w) /\ i = m + 1 /\ V[i] = u
    BY <1>3 DEF m
  <1>7. \A i \in 1 .. m : i \in 1 .. Len(V) /\ V[i] = U[i]
    BY <1>3 DEF m
  <1>8. HasReferences(w) => m + 1 \in 1 .. Len(V) /\ V[m + 1] = u
    BY <1>3
  <1>9. 1 \in 1 .. n
    BY <1>1
  <1>10. InOrder(s, F, V, Q)
    <2>1. \A i, j \in 1 .. Len(Q) : i < j => Q[i].id < Q[j].id
      <3> SUFFICES ASSUME NEW i \in 1 .. Len(Q), NEW j \in 1 .. Len(Q), i < j
                   PROVE  Q[i].id < Q[j].id
        OBVIOUS
      <3>1. i + 1 \in 1 .. n /\ j + 1 \in 1 .. n /\ i + 1 < j + 1
        BY <1>4
      <3> QED
        BY <1>4, <3>1 DEF Passing, InOrder, n
    <2>2. \A i \in 1 .. Len(F), j \in 1 .. Len(Q) : AckOf(F[i], s) => F[i].id < Q[j].id
      BY <1>4 DEF Passing, InOrder, n
    <2>3. \A i \in 1 .. Len(F), j \in 1 .. Len(V) : AckOf(F[i], s) => F[i].id < V[j].id
      <3> SUFFICES ASSUME NEW i \in 1 .. Len(F), NEW j \in 1 .. Len(V), AckOf(F[i], s)
                   PROVE  F[i].id < V[j].id
        OBVIOUS
      <3>1. CASE j \in 1 .. m /\ V[j] = U[j]
        BY <3>1 DEF Passing, InOrder, m
      <3>2. CASE V[j] = u
        BY <1>1, <1>2, <1>9, <3>2 DEF Passing, InOrder, n
      <3> QED
        BY <1>6, <3>1, <3>2
    <2>4. \A i, j \in 1 .. Len(V) : i < j => V[i].id < V[j].id
      <3> SUFFICES ASSUME NEW i \in 1 .. Len(V), NEW j \in 1 .. Len(V), i < j
                   PROVE  V[i].id < V[j].id
        OBVIOUS
      <3>1. i \in 1 .. m /\ V[i] = U[i]
        BY <1>3, <1>6
      <3>2. CASE j \in 1 .. m /\ V[j] = U[j]
        BY <3>1, <3>2 DEF Passing, InOrder, m
      <3>3. CASE V[j] = u
        BY <1>1, <1>2, <1>9, <3>1, <3>3 DEF Passing, InOrder, n, m
      <3> QED
        BY <1>6, <3>2, <3>3
    <2>5. \A i \in 1 .. Len(V), j \in 1 .. Len(Q) : V[i].id < Q[j].id
      <3> SUFFICES ASSUME NEW i \in 1 .. Len(V), NEW j \in 1 .. Len(Q)
                   PROVE  V[i].id < Q[j].id
        OBVIOUS
      <3>1. j + 1 \in 1 .. n /\ Q[j] = R[j + 1] /\ 1 < j + 1
        BY <1>4
      <3>2. CASE i \in 1 .. m /\ V[i] = U[i]
        BY <3>1, <3>2 DEF Passing, InOrder, m, n
      <3>3. CASE V[i] = u
        BY <1>1, <1>2, <1>9, <3>1, <3>3 DEF Passing, InOrder, n
      <3> QED
        BY <1>6, <3>2, <3>3
    <2> QED
      BY <2>1, <2>2, <2>3, <2>4, <2>5 DEF Passing, InOrder
  <1>11. Recorded(s, F, V, Q, sections)
    <2>1. ASSUME NEW i \in 1 .. Len(V)
          PROVE  V[i].id \in OfStream(sections, s) /\ sections[V[i].id].ric = V[i].ric
      <3>1. CASE i \in 1 .. m /\ V[i] = U[i]
        BY <3>1 DEF Passing, Recorded, m
      <3>2. CASE HasReferences(w) /\ V[i] = u
        BY <1>1, <1>2, <1>9, <3>2 DEF Passing, Recorded, n, w
      <3> QED
        BY <1>6, <3>1, <3>2
    <2>2. \A i \in 1 .. Len(Q) : HasReferences(Q[i]) => Q[i].id \in OfStream(sections, s)
      BY <1>4 DEF Passing, Recorded, n
    <2> QED
      BY <2>1, <2>2 DEF Passing, Recorded
  <1>12. Accounted(s, F, V, Q, sections, gone)
    <2> SUFFICES ASSUME NEW k \in OfStream(sections, s)
                 PROVE  \/ \E i \in 1 .. Len(F) : AckOf(F[i], s) /\ F[i].id = k
                        \/ \E i \in 1 .. Len(V) : V[i].id = k
                        \/ \E i \in 1 .. Len(Q) : HasReferences(Q[i]) /\ Q[i].id = k
                        \/ gone /\ \A i \in 1 .. Len(F) : AckOf(F[i], s) => F[i].id < k
      BY DEF Accounted
    <2>1. CASE \E i \in 1 .. m : U[i].id = k
      BY <1>7, <2>1
    <2>2. CASE \E i \in 1 .. n : HasReferences(R[i]) /\ R[i].id = k
      <3>1. PICK i \in 1 .. n : HasReferences(R[i]) /\ R[i].id = k
        BY <2>2
      <3>2. CASE i = 1
        BY <1>1, <1>2, <1>8, <3>1, <3>2
      <3>3. CASE i # 1
        <4>1. i \in 2 .. n
          BY <1>1, <3>3
        <4> QED
          BY <1>5, <3>1, <4>1
      <3> QED
        BY <3>2, <3>3
    <2> QED
      BY <2>1, <2>2 DEF Passing, Accounted, m, n
  <1>13. Ended(s, F, V, Q, gone)
    <2>1. ~ gone
      BY DEF Passing, Ended
    <2> QED
      BY <2>1 DEF Passing, Ended
  <1> QED
    BY <1>10, <1>11, <1>12, <1>13 DEF Passing, Q, V, u, w

\* The oldest section that is decoded is acknowledged.
LEMMA AcknowledgmentSent ==
  ASSUME NEW s \in Streams, NEW F \in Seq(FeedbackMessage), NEW U \in Seq(Decoded),
         U # << >>, NEW R \in Seq(WireSections), NEW sections, NEW gone,
         Passing(s, F, U, R, sections, gone)
  PROVE  Passing(s, Append(F, [type |-> "ack", stream |-> s, id |-> Head(U).id]),
                 Tail(U), R, sections, gone)
  <1> DEFINE a == [type |-> "ack", stream |-> s, id |-> Head(U).id]
             G == Append(F, a)
             V == Tail(U)
             n == Len(F)
             m == Len(U)
  <1>1. /\ m \in Nat /\ m >= 1 /\ Len(V) = m - 1 /\ Head(U) = U[1]
        /\ \A i \in 1 .. (m - 1) : V[i] = U[i + 1]
        /\ U[1] \in Decoded
    BY Popped
  <1>2. a \in FeedbackMessage /\ AckOf(a, s) /\ ~ CancelOf(a, s) /\ a.id = U[1].id
    BY <1>1 DEF FeedbackMessage, AckOf, CancelOf, Decoded
  <1> HIDE DEF a
  <1>3. /\ n \in Nat /\ Len(G) = n + 1
        /\ \A i \in 1 .. n : G[i] = F[i]
        /\ G[n + 1] = a
    BY <1>2, Appended
  <1> HIDE DEF G, V, n, m
  <1>4. \A i \in 1 .. Len(G) :
          (i \in 1 .. n /\ G[i] = F[i]) \/ (i = n + 1 /\ G[i] = a)
    BY <1>3
  <1>5. \A i \in 1 .. n : i \in 1 .. Len(G) /\ G[i] = F[i]
    BY <1>3
  <1>6. n + 1 \in 1 .. Len(G) /\ 1 \in 1 .. m
    BY <1>1, <1>3
  <1>7. \A i \in 1 .. Len(V) : i + 1 \in 1 .. m /\ V[i] = U[i + 1] /\ 1 < i + 1
    BY <1>1
  <1>8. \A i \in 2 .. m : i - 1 \in 1 .. Len(V) /\ V[i - 1] = U[i]
    <2> SUFFICES ASSUME NEW i \in 2 .. m
                 PROVE  i - 1 \in 1 .. Len(V) /\ V[i - 1] = U[i]
      OBVIOUS
    <2>1. i - 1 \in 1 .. (m - 1) /\ (i - 1) + 1 = i
      BY <1>1
    <2> QED
      BY <1>1, <2>1
  <1>9. ~ gone
    BY DEF Passing, Ended
  <1>10. InOrder(s, G, V, R)
    <2>1. \A i, j \in 1 .. Len(G) :
            i < j /\ AckOf(G[i], s) /\ AckOf(G[j], s) => G[i].id < G[j].id
      <3> SUFFICES ASSUME NEW i \in 1 .. Len(G), NEW j \in 1 .. Len(G),
                          i < j, AckOf(G[i], s), AckOf(G[j], s)
                   PROVE  G[i].id < G[j].id
        OBVIOUS
      <3>1. i \in 1 .. n /\ G[i] = F[i]
        BY <1>3, <1>4
      <3>2. CASE j \in 1 .. n /\ G[j] = F[j]
        BY <3>1, <3>2 DEF Passing, InOrder, n
      <3>3. CASE G[j] = a
        BY <1>2, <1>6, <3>1, <3>3 DEF Passing, InOrder, n, m
      <3> QED
        BY <1>4, <3>2, <3>3
    <2>2. \A i \in 1 .. Len(G), j \in 1 .. Len(V) : AckOf(G[i], s) => G[i].id < V[j].id
      <3> SUFFICES ASSUME NEW i \in 1 .. Len(G), NEW j \in 1 .. Len(V), AckOf(G[i], s)
                   PROVE  G[i].id < V[j].id
        OBVIOUS
      <3>1. j + 1 \in 1 .. m /\ V[j] = U[j + 1] /\ 1 < j + 1
        BY <1>7
      <3>2. CASE i \in 1 .. n /\ G[i] = F[i]
        BY <3>1, <3>2 DEF Passing, InOrder, n, m
      <3>3. CASE G[i] = a
        BY <1>2, <1>6, <3>1, <3>3 DEF Passing, InOrder, m
      <3> QED
        BY <1>4, <3>2, <3>3
    <2>3. \A i \in 1 .. Len(G), j \in 1 .. Len(R) : AckOf(G[i], s) => G[i].id < R[j].id
      <3> SUFFICES ASSUME NEW i \in 1 .. Len(G), NEW j \in 1 .. Len(R), AckOf(G[i], s)
                   PROVE  G[i].id < R[j].id
        OBVIOUS
      <3>2. CASE i \in 1 .. n /\ G[i] = F[i]
        BY <3>2 DEF Passing, InOrder, n
      <3>3. CASE G[i] = a
        BY <1>2, <1>6, <3>3 DEF Passing, InOrder, m
      <3> QED
        BY <1>4, <3>2, <3>3
    <2>4. \A i, j \in 1 .. Len(V) : i < j => V[i].id < V[j].id
      <3> SUFFICES ASSUME NEW i \in 1 .. Len(V), NEW j \in 1 .. Len(V), i < j
                   PROVE  V[i].id < V[j].id
        OBVIOUS
      <3>1. i + 1 \in 1 .. m /\ j + 1 \in 1 .. m /\ i + 1 < j + 1
        BY <1>7
      <3> QED
        BY <1>7, <3>1 DEF Passing, InOrder, m
    <2>5. \A i \in 1 .. Len(V), j \in 1 .. Len(R) : V[i].id < R[j].id
      BY <1>7 DEF Passing, InOrder, m
    <2> QED
      BY <2>1, <2>2, <2>3, <2>4, <2>5 DEF Passing, InOrder
  <1>11. Recorded(s, G, V, R, sections)
    <2>1. \A i \in 1 .. Len(G) : AckOf(G[i], s) => G[i].id \in OfStream(sections, s)
      BY <1>2, <1>4, <1>6 DEF Passing, Recorded, n, m
    <2>2. \A i \in 1 .. Len(V) :
            V[i].id \in OfStream(sections, s) /\ sections[V[i].id].ric = V[i].ric
      BY <1>7 DEF Passing, Recorded, m
    <2> QED
      BY <2>1, <2>2 DEF Passing, Recorded
  <1>12. Accounted(s, G, V, R, sections, gone)
    <2> SUFFICES ASSUME NEW k \in OfStream(sections, s)
                 PROVE  \/ \E i \in 1 .. Len(G) : AckOf(G[i], s) /\ G[i].id = k
                        \/ \E i \in 1 .. Len(V) : V[i].id = k
                        \/ \E i \in 1 .. Len(R) : HasReferences(R[i]) /\ R[i].id = k
      BY DEF Accounted
    <2>1. CASE \E i \in 1 .. n : AckOf(F[i], s) /\ F[i].id = k
      BY <1>5, <2>1
    <2>2. CASE \E i \in 1 .. m : U[i].id = k
      <3>1. PICK i \in 1 .. m : U[i].id = k
        BY <2>2
      <3>2. CASE i = 1
        BY <1>2, <1>3, <1>6, <3>1, <3>2
      <3>3. CASE i # 1
        <4>1. i \in 2 .. m
          BY <1>1, <3>3
        <4> QED
          BY <1>8, <3>1, <4>1
      <3> QED
        BY <3>2, <3>3
    <2> QED
      BY <1>9, <2>1, <2>2 DEF Passing, Accounted, n, m
  <1>13. Ended(s, G, V, R, gone)
    <2>1. \A i \in 1 .. Len(G) : ~ CancelOf(G[i], s)
      BY <1>2, <1>4, <1>9 DEF Passing, Ended, n
    <2> QED
      BY <1>9, <2>1 DEF Ended
  <1> QED
    BY <1>10, <1>11, <1>12, <1>13 DEF Passing, G, V, a

\* What the encoder is told about first is what it has recorded first.
LEMMA FirstIsAcknowledged ==
  ASSUME NEW s \in Streams, NEW F \in Seq(FeedbackMessage), NEW U \in Seq(Decoded),
         NEW R \in Seq(WireSections), NEW sections, NEW gone,
         Passing(s, F, U, R, sections, gone), DOMAIN sections \subseteq Nat,
         NEW k \in 1 .. Len(F), AckOf(F[k], s), NEW earlier,
         \A n \in earlier : \E i \in 1 .. Len(F) : i < k /\ AckOf(F[i], s) /\ F[i].id = n,
         \A i \in 1 .. Len(F) : i < k /\ AckOf(F[i], s) => F[i].id \in earlier
  PROVE  IsFirstOf(Without(sections, earlier), s, F[k].id)
  <1> DEFINE left == Without(sections, earlier)
  <1>1. F[k].id \in OfStream(sections, s) /\ F[k].id \in Nat
    BY NumbersType DEF Passing, Recorded
  <1>2. F[k].id \notin earlier
    <2> SUFFICES ASSUME F[k].id \in earlier PROVE FALSE
      OBVIOUS
    <2>1. PICK i \in 1 .. Len(F) : i < k /\ AckOf(F[i], s) /\ F[i].id = F[k].id
      OBVIOUS
    <2>2. F[i].id < F[k].id
      BY <2>1 DEF Passing, InOrder
    <2> QED
      BY <1>1, <2>1, <2>2
  <1>3. F[k].id \in DOMAIN left /\ left[F[k].id].stream = s
    BY <1>1, <1>2 DEF OfStream, Without
  <1>4. ASSUME NEW m \in DOMAIN left, left[m].stream = s
        PROVE  F[k].id <= m
    <2>1. m \in OfStream(sections, s) /\ m \notin earlier
      BY <1>4 DEF OfStream, Without
    <2>2. CASE \E i \in 1 .. Len(F) : AckOf(F[i], s) /\ F[i].id = m
      <3>1. PICK i \in 1 .. Len(F) : AckOf(F[i], s) /\ F[i].id = m
        BY <2>2
      <3>2. ~ (i < k)
        BY <2>1, <3>1
      <3>3. CASE i = k
        BY <1>1, <3>1, <3>3
      <3>4. CASE i # k
        <4>1. k < i
          BY <3>2, <3>4, NumbersType
        <4>2. F[k].id < F[i].id
          BY <3>1, <4>1 DEF Passing, InOrder
        <4> QED
          BY <1>1, <3>1, <4>2, NumbersType
      <3> QED
        BY <3>3, <3>4
    <2>3. CASE \E i \in 1 .. Len(U) : U[i].id = m
      <3>1. PICK i \in 1 .. Len(U) : U[i].id = m
        BY <2>3
      <3>2. F[k].id < U[i].id
        BY <3>1 DEF Passing, InOrder
      <3> QED
        BY <1>1, <3>1, <3>2, NumbersType
    <2>4. CASE \E i \in 1 .. Len(R) : R[i].id = m
      <3>1. PICK i \in 1 .. Len(R) : R[i].id = m
        BY <2>4
      <3>2. F[k].id < R[i].id
        BY <3>1 DEF Passing, InOrder
      <3> QED
        BY <1>1, <3>1, <3>2, NumbersType
    <2>5. CASE \A i \in 1 .. Len(F) : AckOf(F[i], s) => F[i].id < m
      <3>1. F[k].id < m
        BY <2>5
      <3>2. m \in Nat
        BY <2>1 DEF OfStream
      <3> QED
        BY <1>1, <3>1, <3>2
    <2> QED
      BY <2>1, <2>2, <2>3, <2>4, <2>5 DEF Passing, Accounted
  <1> QED
    BY <1>3, <1>4 DEF IsFirstOf

\* The encoder reads an acknowledgment: it drops the record of that section.
LEMMA AcknowledgmentRead ==
  ASSUME NEW s \in Streams, NEW F \in Seq(FeedbackMessage), F # << >>,
         NEW U \in Seq(Decoded), NEW R \in Seq(WireSections), NEW sections, NEW gone,
         Passing(s, F, U, R, sections, gone), AckOf(Head(F), s)
  PROVE  Passing(s, Tail(F), U, R, Without(sections, {Head(F).id}), gone)
  <1> DEFINE G == Tail(F)
             n == Len(F)
             id == Head(F).id
             after == Without(sections, {id})
  <1>1. /\ n \in Nat /\ n >= 1 /\ Len(G) = n - 1
        /\ \A i \in 1 .. (n - 1) : G[i] = F[i + 1]
        /\ Head(F) = F[1]
    BY Popped
  <1>2. id = F[1].id /\ id \in Nat /\ 1 \in 1 .. n /\ AckOf(F[1], s)
    <2>1. 1 \in 1 .. n /\ id = F[1].id /\ AckOf(F[1], s)
      BY <1>1
    <2>2. \A i \in 1 .. n : AckOf(F[i], s) => F[i].id \in Nat
      BY NumbersType
    <2> HIDE DEF id, n
    <2> QED
      BY <2>1, <2>2
  <1>3. /\ \A k \in OfStream(sections, s) \ {id} :
             k \in OfStream(after, s) /\ after[k] = sections[k]
        /\ \A k \in OfStream(after, s) : k \in OfStream(sections, s) /\ k # id
    BY DEF OfStream, Without
  <1> HIDE DEF G, n, id, after
  <1>4. \A i \in 1 .. Len(G) : i + 1 \in 1 .. n /\ G[i] = F[i + 1] /\ 1 < i + 1
    BY <1>1
  <1>5. \A i \in 2 .. n : i - 1 \in 1 .. Len(G) /\ G[i - 1] = F[i]
    <2> SUFFICES ASSUME NEW i \in 2 .. n
                 PROVE  i - 1 \in 1 .. Len(G) /\ G[i - 1] = F[i]
      OBVIOUS
    <2>1. i - 1 \in 1 .. (n - 1) /\ (i - 1) + 1 = i
      BY <1>1
    <2> QED
      BY <1>1, <2>1
  <1>6. InOrder(s, G, U, R)
    <2>1. \A i, j \in 1 .. Len(G) :
            i < j /\ AckOf(G[i], s) /\ AckOf(G[j], s) => G[i].id < G[j].id
      <3> SUFFICES ASSUME NEW i \in 1 .. Len(G), NEW j \in 1 .. Len(G),
                          i < j, AckOf(G[i], s), AckOf(G[j], s)
                   PROVE  G[i].id < G[j].id
        OBVIOUS
      <3>1. i + 1 \in 1 .. n /\ j + 1 \in 1 .. n /\ i + 1 < j + 1
        BY <1>1, <1>4
      <3> QED
        BY <1>4, <3>1 DEF Passing, InOrder, n
    <2>2. /\ \A i \in 1 .. Len(G), j \in 1 .. Len(U) : AckOf(G[i], s) => G[i].id < U[j].id
          /\ \A i \in 1 .. Len(G), j \in 1 .. Len(R) : AckOf(G[i], s) => G[i].id < R[j].id
      BY <1>4 DEF Passing, InOrder, n
    <2> QED
      BY <2>1, <2>2 DEF Passing, InOrder
  <1>7. Recorded(s, G, U, R, after)
    <2>1. ASSUME NEW i \in 1 .. Len(G), AckOf(G[i], s)
          PROVE  G[i].id \in OfStream(after, s)
      <3>1. i + 1 \in 1 .. n /\ G[i] = F[i + 1] /\ 1 < i + 1
        BY <1>4
      <3>2. F[1].id < F[i + 1].id /\ F[i + 1].id \in OfStream(sections, s)
        BY <1>2, <2>1, <3>1 DEF Passing, InOrder, Recorded, n
      <3>3. F[i + 1].id # id
        BY <1>2, <3>2
      <3> QED
        BY <1>3, <3>1, <3>2, <3>3
    <2>2. ASSUME NEW i \in 1 .. Len(U)
          PROVE  U[i].id \in OfStream(after, s) /\ after[U[i].id].ric = U[i].ric
      <3>1. /\ F[1].id < U[i].id
            /\ U[i].id \in OfStream(sections, s) /\ sections[U[i].id].ric = U[i].ric
        BY <1>2 DEF Passing, InOrder, Recorded, n
      <3>2. U[i].id # id
        BY <1>2, <3>1
      <3> QED
        BY <1>3, <3>1, <3>2
    <2>3. ASSUME NEW i \in 1 .. Len(R), HasReferences(R[i])
          PROVE  R[i].id \in OfStream(after, s)
      <3>1. F[1].id < R[i].id /\ R[i].id \in OfStream(sections, s)
        BY <1>2, <2>3 DEF Passing, InOrder, Recorded, n
      <3>2. R[i].id # id
        BY <1>2, <3>1
      <3> QED
        BY <1>3, <3>1, <3>2
    <2> QED
      BY <2>1, <2>2, <2>3 DEF Recorded
  <1>8. Accounted(s, G, U, R, after, gone)
    <2> SUFFICES ASSUME NEW k \in OfStream(after, s)
                 PROVE  \/ \E i \in 1 .. Len(G) : AckOf(G[i], s) /\ G[i].id = k
                        \/ \E i \in 1 .. Len(U) : U[i].id = k
                        \/ \E i \in 1 .. Len(R) : HasReferences(R[i]) /\ R[i].id = k
                        \/ gone /\ \A i \in 1 .. Len(G) : AckOf(G[i], s) => G[i].id < k
      BY DEF Accounted
    <2>1. k \in OfStream(sections, s) /\ k # id
      BY <1>3
    <2>2. CASE \E i \in 1 .. n : AckOf(F[i], s) /\ F[i].id = k
      <3>1. PICK i \in 1 .. n : AckOf(F[i], s) /\ F[i].id = k
        BY <2>2
      <3>2. i \in 2 .. n
        BY <1>1, <1>2, <2>1, <3>1
      <3> QED
        BY <1>5, <3>1, <3>2
    <2>3. CASE gone /\ \A i \in 1 .. n : AckOf(F[i], s) => F[i].id < k
      BY <1>4, <2>3
    <2> QED
      BY <2>1, <2>2, <2>3 DEF Passing, Accounted, n
  <1>9. Ended(s, G, U, R, gone)
    <2> SUFFICES ASSUME NEW i \in 1 .. Len(G), CancelOf(G[i], s)
                 PROVE  gone /\ \A j \in 1 .. Len(G) : AckOf(G[j], s) => j < i
      BY DEF Passing, Ended
    <2>1. i + 1 \in 1 .. n /\ CancelOf(F[i + 1], s)
      BY <1>4
    <2>2. gone /\ \A j \in 1 .. n : AckOf(F[j], s) => j < i + 1
      BY <2>1 DEF Passing, Ended, n
    <2>3. ASSUME NEW j \in 1 .. Len(G), AckOf(G[j], s) PROVE j < i
      <3>1. j + 1 \in 1 .. n /\ AckOf(F[j + 1], s)
        BY <1>4, <2>3
      <3>2. j + 1 < i + 1
        BY <2>2, <3>1
      <3> QED
        BY <1>1, <3>2
    <2> QED
      BY <2>2, <2>3
  <1> QED
    BY <1>6, <1>7, <1>8, <1>9 DEF Passing, G, after, id

\* The stream is cancelled: only acknowledgments of it are still on their way.
LEMMA CancellationSent ==
  ASSUME NEW s \in Streams, NEW F \in Seq(FeedbackMessage), NEW U \in Seq(Decoded),
         NEW R \in Seq(WireSections), NEW sections, NEW gone,
         Passing(s, F, U, R, sections, gone), DOMAIN sections \subseteq Nat
  PROVE  Passing(s, Append(F, [type |-> "cancel", stream |-> s]), << >>, << >>, sections, TRUE)
  <1> DEFINE c == [type |-> "cancel", stream |-> s]
             G == Append(F, c)
             n == Len(F)
  <1>1. c \in FeedbackMessage /\ ~ AckOf(c, s)
    BY DEF FeedbackMessage, AckOf
  <1> HIDE DEF c
  <1>2. /\ n \in Nat /\ Len(G) = n + 1
        /\ \A i \in 1 .. n : G[i] = F[i]
        /\ G[n + 1] = c
    BY <1>1, Appended
  <1> HIDE DEF G, n
  <1>3. \A i \in 1 .. Len(G) : AckOf(G[i], s) => i \in 1 .. n /\ G[i] = F[i]
    BY <1>1, <1>2
  <1>4. \A i \in 1 .. n : i \in 1 .. Len(G) /\ G[i] = F[i]
    BY <1>2
  <1>5. InOrder(s, G, << >>, << >>)
    BY <1>3 DEF Passing, InOrder, n
  <1>6. Recorded(s, G, << >>, << >>, sections)
    BY <1>3 DEF Passing, Recorded, n
  <1>7. Accounted(s, G, << >>, << >>, sections, TRUE)
    <2> SUFFICES ASSUME NEW k \in OfStream(sections, s)
                 PROVE  \/ \E i \in 1 .. Len(G) : AckOf(G[i], s) /\ G[i].id = k
                        \/ \A i \in 1 .. Len(G) : AckOf(G[i], s) => G[i].id < k
      BY DEF Accounted
    <2>1. k \in Nat
      BY DEF OfStream
    <2>2. CASE \E i \in 1 .. n : AckOf(F[i], s) /\ F[i].id = k
      BY <1>4, <2>2
    <2>3. CASE \E j \in 1 .. Len(U) : U[j].id = k
      <3>1. \A i \in 1 .. n : AckOf(F[i], s) => F[i].id < k
        BY <2>3 DEF Passing, InOrder, n
      <3> QED
        BY <1>3, <3>1
    <2>4. CASE \E j \in 1 .. Len(R) : R[j].id = k
      <3>1. \A i \in 1 .. n : AckOf(F[i], s) => F[i].id < k
        BY <2>4 DEF Passing, InOrder, n
      <3> QED
        BY <1>3, <3>1
    <2>5. CASE \A i \in 1 .. n : AckOf(F[i], s) => F[i].id < k
      BY <1>3, <2>5
    <2> QED
      BY <2>2, <2>3, <2>4, <2>5 DEF Passing, Accounted, n
  <1>8. Ended(s, G, << >>, << >>, TRUE)
    <2>1. ASSUME NEW i \in 1 .. Len(G), CancelOf(G[i], s),
                 NEW j \in 1 .. Len(G), AckOf(G[j], s)
          PROVE  j < i
      <3>1. j \in 1 .. n /\ AckOf(F[j], s)
        BY <1>3, <2>1
      <3>2. CASE i \in 1 .. n
        <4>1. CancelOf(F[i], s)
          BY <1>4, <2>1, <3>2
        <4> QED
          BY <3>1, <3>2, <4>1 DEF Passing, Ended, n
      <3>3. CASE i = n + 1
        BY <1>2, <3>1, <3>3
      <3> QED
        BY <1>2, <3>2, <3>3
    <2> QED
      BY <2>1 DEF Ended
  <1> QED
    BY <1>5, <1>6, <1>7, <1>8 DEF Passing, G, c

\* The encoder reads the cancellation: nothing of the stream is on its way.
LEMMA CancellationRead ==
  ASSUME NEW s \in Streams, NEW F \in Seq(FeedbackMessage), F # << >>,
         NEW U \in Seq(Decoded), NEW R \in Seq(WireSections), NEW sections, NEW gone,
         Passing(s, F, U, R, sections, gone), CancelOf(Head(F), s)
  PROVE  /\ Passing(s, Tail(F), U, R, Without(sections, OfStream(sections, s)), gone)
         /\ \A i \in 1 .. Len(F) : ~ AckOf(F[i], s)
  <1> DEFINE G == Tail(F)
             n == Len(F)
             after == Without(sections, OfStream(sections, s))
  <1>1. /\ n \in Nat /\ n >= 1 /\ Len(G) = n - 1
        /\ \A i \in 1 .. (n - 1) : G[i] = F[i + 1]
        /\ Head(F) = F[1] /\ 1 \in 1 .. n
    BY Popped
  <1>2. gone /\ U = << >> /\ R = << >>
    BY <1>1 DEF Passing, Ended
  <1>3. \A i \in 1 .. n : ~ AckOf(F[i], s)
    <2> SUFFICES ASSUME NEW i \in 1 .. n, AckOf(F[i], s) PROVE FALSE
      OBVIOUS
    <2>1. i < 1
      BY <1>1 DEF Passing, Ended
    <2> QED
      BY <1>1, <2>1
  <1>4. OfStream(after, s) = {}
    BY DEF OfStream, Without
  <1> HIDE DEF G, n, after
  <1>5. \A i \in 1 .. Len(G) : ~ AckOf(G[i], s)
    <2> SUFFICES ASSUME NEW i \in 1 .. Len(G) PROVE ~ AckOf(G[i], s)
      OBVIOUS
    <2>1. i + 1 \in 1 .. n /\ G[i] = F[i + 1]
      BY <1>1
    <2> QED
      BY <1>3, <2>1
  <1>6. InOrder(s, G, U, R) /\ Recorded(s, G, U, R, after)
    BY <1>2, <1>5 DEF InOrder, Recorded
  <1>7. Accounted(s, G, U, R, after, gone) /\ Ended(s, G, U, R, gone)
    BY <1>2, <1>4, <1>5 DEF Accounted, Ended
  <1> QED
    BY <1>3, <1>6, <1>7 DEF Passing, G, n, after

-----------------------------------------------------------------------------
(* What the invariant says of the state as a whole. *)

\* The types of what a stream has on its way.
LEMMA QueueTypes ==
  ASSUME TypeOK, NEW s \in Streams
  PROVE  /\ requests[s] \in Seq(WireSections) /\ Len(requests[s]) \in Nat
         /\ unacknowledged[s] \in Seq(Decoded) /\ Len(unacknowledged[s]) \in Nat
         /\ feedback \in Seq(FeedbackMessage) /\ Len(feedback) \in Nat
         /\ instructions \in Seq(Instruction) /\ Len(instructions) \in Nat
         /\ DOMAIN outstanding \subseteq Nat
         /\ DOMAIN outstanding \subseteq 0 .. (sectionCount - 1)
         /\ sectionCount \in Nat
         /\ \A i \in 1 .. Len(requests[s]) : requests[s][i] \in WireSections
         /\ \A i \in 1 .. Len(unacknowledged[s]) : unacknowledged[s][i] \in Decoded
  <1>1. requests[s] \in Seq(WireSections) /\ unacknowledged[s] \in Seq(Decoded)
    BY DEF TypeOK
  <1>2. DOMAIN outstanding \subseteq 0 .. (sectionCount - 1) /\ sectionCount \in Nat
    BY DEF TypeOK, SectionId
  <1>3. feedback \in Seq(FeedbackMessage) /\ instructions \in Seq(Instruction)
    BY DEF TypeOK
  <1>4. DOMAIN outstanding \subseteq Nat
    BY <1>2
  <1>5. \A i \in 1 .. Len(requests[s]) : requests[s][i] \in WireSections
    BY <1>1, ElementOfSeq
  <1>6. \A i \in 1 .. Len(unacknowledged[s]) : unacknowledged[s][i] \in Decoded
    BY <1>1, ElementOfSeq
  <1> QED
    BY <1>1, <1>2, <1>3, <1>4, <1>5, <1>6

\* The decoder's table is a past state of the encoder's.
LEMMA DecoderIsBehind ==
  ASSUME TypeOK, DecoderFollows
  PROVE  /\ IsWellFormed(decTable) /\ IsWellFormed(encTable)
         /\ Precedes(decTable, encTable)
         /\ decTable.insertCount \in Nat /\ encTable.insertCount \in Nat
         /\ decTable.insertCount <= encTable.insertCount
  <1>1. PICK tables : IsReplay(tables, instructions, decTable, encTable)
    BY DEF DecoderFollows
  <1>2. 0 \in 0 .. Len(instructions)
    BY DEF TypeOK
  <1>3. Precedes(decTable, encTable)
    BY <1>1, <1>2 DEF IsReplay
  <1> QED
    BY <1>3, BoundsType DEF TypeOK, Precedes

\* What the encoder knows to be received the decoder has reported, and what it
\* has reported it has inserted.
LEMMA CountsInOrder ==
  ASSUME TypeOK, DecoderFollows, CountsMeet
  PROVE  /\ encKrc \in Nat /\ decKrc \in Nat
         /\ encKrc <= decKrc /\ decKrc <= decTable.insertCount
         /\ encKrc <= decTable.insertCount /\ decKrc <= encTable.insertCount
         /\ encKrc <= encTable.insertCount
  <1>1. PICK counts : IsCount(counts, feedback, encKrc, decKrc, outstanding)
    BY DEF CountsMeet
  <1>2. 0 \in 0 .. Len(feedback)
    BY DEF TypeOK
  <1>3. encKrc <= decKrc
    BY <1>1, <1>2 DEF IsCount
  <1>4. encKrc \in Nat /\ decKrc \in Nat /\ decKrc <= decTable.insertCount
    BY DEF TypeOK, CountsMeet
  <1>5. /\ decTable.insertCount \in Nat /\ encTable.insertCount \in Nat
        /\ decTable.insertCount <= encTable.insertCount
    BY DecoderIsBehind
  <1> HIDE DEF TypeOK, CountsMeet
  <1> QED
    BY <1>3, <1>4, <1>5

\* A table of the allowed capacity has no more entries than the field section
\* arithmetic counts on.
LEMMA MostEntries ==
  ASSUME NEW t, IsWellFormed(t), t.capacity <= MaxCapacity
  PROVE  Len(t.entries) <= MaxEntries
  <1>1. /\ t.entries \in Seq(Entry) /\ Len(t.entries) \in Nat /\ t.capacity \in Nat
        /\ Size(t) <= t.capacity
    BY TableParts DEF IsWellFormed
  <1>2. Len(t.entries) \in 0 .. Len(t.entries)
    BY <1>1
  <1> DEFINE n == Len(t.entries)
  <1>3. Size(t) = PackedBytes(t.entries, n) + 32 * n /\ PackedBytes(t.entries, n) \in Nat
    BY <1>1, <1>2, ListSizeType DEF Size
  <1> HIDE DEF n
  <1>4. n \in Nat
    BY <1>1 DEF n
  <1>5. 32 * n <= MaxCapacity
    BY <1>1, <1>3, <1>4, MaxCapacityAssumption
  <1>6. n <= MaxCapacity \div 32
    BY <1>4, <1>5, MaxCapacityAssumption
  <1> QED
    BY <1>6 DEF MaxEntries, n

\* The Required Insert Count of a section on its way, and its references.
LEMMA SentParts ==
  ASSUME Inv, NEW s \in Streams, NEW i \in 1 .. Len(requests[s])
  PROVE  LET w   == requests[s][i]
             ric == SentRic(w, outstanding)
         IN  /\ w \in WireSections /\ w.id \in Nat
             /\ ric \in Nat /\ ric <= encTable.insertCount
             /\ HasReferences(w) =>
                  /\ w.id \in DOMAIN outstanding /\ outstanding[w.id].stream = s
                  /\ ric = outstanding[w.id].ric /\ ric - 1 \in Active(encTable)
             /\ \A k \in 1 .. Len(w.lines) : IsDynamic(w.lines[k]) =>
                  LET a == SentIndex(w.lines[k], SentBase(w, outstanding))
                  IN  a \in outstanding[w.id].refs /\ a < ric /\ a \in Active(encTable)
  <1> DEFINE w == requests[s][i]
             ric == SentRic(w, outstanding)
             base == SentBase(w, outstanding)
  <1>1. w \in WireSections /\ w.id \in Nat /\ w.lines \in Seq(WireLines)
    <2>1. w \in WireSections
      BY QueueTypes DEF Inv
    <2> QED
      BY <2>1 DEF WireSections
  <1>2. encTable.insertCount \in Nat /\ IsWellFormed(encTable)
    BY DecoderIsBehind DEF Inv
  <1>3. CASE ~ HasReferences(w)
    <2>1. ric = 0
      BY <1>3 DEF SentRic
    <2>2. \A k \in 1 .. Len(w.lines) : ~ IsDynamic(w.lines[k])
      BY <1>1, <1>3 DEF HasReferences
    <2> QED
      BY <1>1, <1>2, <1>3, <2>1, <2>2
  <1>4. CASE HasReferences(w)
    <2> DEFINE n == w.id
               refs == outstanding[n].refs
    <2>1. n \in DOMAIN outstanding /\ outstanding[n].stream = s
      BY <1>4 DEF Inv, SectionsPass, Passing, Recorded, OfStream
    <2>2. ric = outstanding[n].ric
      BY <1>4 DEF SentRic
    <2>3. outstanding[n].ric \in Nat \ {0}
      BY <2>1 DEF Inv, TypeOK, Section
    <2>4. refs \subseteq Active(encTable) /\ IsRequired(outstanding[n].ric, refs)
      BY <2>1 DEF Inv, ReferencesStayActive
    <2>5. ASSUME NEW k \in 1 .. Len(w.lines), IsDynamic(w.lines[k])
          PROVE  SentIndex(w.lines[k], base) \in refs
      <3>1. Says(w, outstanding, encTable)
        BY DEF Inv, SectionsSay
      <3> HIDE DEF w, base
      <3> QED
        BY <2>5, <3>1 DEF Says, base
    <2> HIDE DEF ric, refs, n, w, base
    <2>6. refs # {}
      <3>1. PICK k \in DOMAIN w.lines : IsDynamic(w.lines[k])
        BY <1>4 DEF HasReferences
      <3>2. k \in 1 .. Len(w.lines)
        BY <1>1, <3>1
      <3> QED
        BY <2>5, <3>1, <3>2
    <2>7. ric - 1 \in refs /\ \A r \in refs : r < ric
      BY <2>2, <2>4, <2>6 DEF IsRequired, n
    <2>8. ric \in Nat /\ ric <= encTable.insertCount /\ ric - 1 \in Active(encTable)
      <3>1. ric - 1 \in Active(encTable)
        BY <2>4, <2>7
      <3>2. ric - 1 < encTable.insertCount
        BY <1>2, <3>1, BoundsType
      <3>3. ric \in Nat
        BY <2>2, <2>3
      <3> QED
        BY <1>2, <3>1, <3>2, <3>3
    <2>9. \A k \in 1 .. Len(w.lines) : IsDynamic(w.lines[k]) =>
            LET a == SentIndex(w.lines[k], base)
            IN  a \in refs /\ a < ric /\ a \in Active(encTable)
      BY <2>4, <2>5, <2>7
    <2> QED
      BY <1>1, <1>4, <2>1, <2>2, <2>8, <2>9 DEF ric, refs, n, w, base
  <1> QED
    BY <1>3, <1>4

\* The decoder recovers the Required Insert Count and the Base of any section
\* on its way, however late it reads it.
LEMMA SectionIsRead ==
  ASSUME Inv, NEW s \in Streams, NEW i \in 1 .. Len(requests[s])
  PROVE  /\ ReadRic(requests[s][i], decTable.insertCount)
              = SentRic(requests[s][i], outstanding)
         /\ ReadBase(requests[s][i], decTable.insertCount)
              = SentBase(requests[s][i], outstanding)
         /\ SentBase(requests[s][i], outstanding) \in Nat
  <1> DEFINE w == requests[s][i]
             ric == SentRic(w, outstanding)
             total == decTable.insertCount
  <1>1. w.ric = EncodedRic(ric) /\ SentBase(w, outstanding) \in Nat
    BY DEF Inv, SectionsSay, Says
  <1>2. ric \in Nat /\ ric <= encTable.insertCount
    BY SentParts
  <1>3. CASE ~ HasReferences(w)
    <2>1. ric = 0
      BY <1>3 DEF SentRic
    <2>2. ReadRic(w, total) = ric
      BY <1>1, <2>1 DEF EncodedRic, ReadRic, ReconstructedRic
    <2> QED
      BY <1>1, <2>2 DEF ReadBase, SentBase
  <1>4. CASE HasReferences(w)
    <2>1. ric - 1 \in Active(encTable) /\ ric = outstanding[w.id].ric
          /\ w.id \in DOMAIN outstanding
      BY <1>4, SentParts
    <2>2. ric \in Nat \ {0}
      BY <2>1 DEF Inv, TypeOK, Section
    <2>3. /\ IsWellFormed(encTable) /\ IsWellFormed(decTable)
          /\ decTable.insertCount \in Nat /\ encTable.insertCount \in Nat
          /\ decTable.insertCount <= encTable.insertCount
          /\ encKrc <= decTable.insertCount /\ encKrc \in Nat
      BY DecoderIsBehind, CountsInOrder DEF Inv
    <2>4. Len(encTable.entries) <= MaxEntries /\ Oldest(encTable) <= encKrc
      BY <2>3, MostEntries DEF Inv, EvictedIsReceived
    <2>5. /\ Oldest(encTable) = encTable.insertCount - Len(encTable.entries)
          /\ Len(encTable.entries) \in Nat
      BY <2>3, TableParts DEF Oldest, IsWellFormed
    <2>6. Oldest(encTable) <= ric - 1 /\ ric - 1 < encTable.insertCount
      BY <2>1, <2>3, BoundsType
    <2>7. MaxEntries \in Nat
      BY RangeType
    <2> HIDE DEF w, ric, total
    <2>8. MaxEntries > 0
      BY <2>2, <2>3, <2>4, <2>5, <2>6, <2>7
    <2>9. total - MaxEntries < ric
      BY <2>2, <2>3, <2>4, <2>5, <2>6, <2>7 DEF total
    <2>10. ric <= total + MaxEntries
      BY <2>2, <2>3, <2>4, <2>5, <2>6, <2>7 DEF total
    <2>11. ReadRic(w, total) = ric
      BY <1>1, <2>2, <2>3, <2>8, <2>9, <2>10, RicRoundTrip DEF ReadRic, total
    <2> QED
      BY <1>1, <2>11 DEF ReadBase, SentBase, w, ric, total
  <1> QED
    BY <1>3, <1>4

\* A section the decoder does not block on is decodable, and what is read is
\* what was meant.
LEMMA SectionDecodes ==
  ASSUME Inv, NEW s \in Streams, NEW i \in 1 .. Len(requests[s]),
         ~ IsBlocked(requests[s][i], decTable)
  PROVE  /\ SentRic(requests[s][i], outstanding) <= decTable.insertCount
         /\ IsDecodable(requests[s][i], decTable)
         /\ ReadFields(requests[s][i], decTable) = requests[s][i].fields
  <1> DEFINE w == requests[s][i]
             ric == SentRic(w, outstanding)
             base == SentBase(w, outstanding)
             total == decTable.insertCount
             at(k) == SentIndex(w.lines[k], base)
  <1>1. ReadRic(w, total) = ric /\ ReadBase(w, total) = base /\ base \in Nat
    BY SectionIsRead
  <1>2. /\ w \in WireSections /\ ric \in Nat
        /\ \A k \in 1 .. Len(w.lines) : IsDynamic(w.lines[k]) =>
             at(k) < ric /\ at(k) \in Active(encTable)
    BY SentParts
  <1>3. /\ w.fields \in Seq(Field) /\ w.lines \in Seq(WireLines)
        /\ Len(w.lines) \in Nat /\ DOMAIN w.lines = 1 .. Len(w.lines)
        /\ DOMAIN w.fields = 1 .. Len(w.fields)
    <2>1. w.fields \in Seq(Field) /\ w.lines \in Seq(WireLines)
      BY <1>2 DEF WireSections
    <2> HIDE DEF w
    <2> QED
      BY <2>1
  <1>4. /\ Len(w.fields) = Len(w.lines)
        /\ \A k \in 1 .. Len(w.lines) : w.fields[k] = Meaning(encTable, w.lines[k], at(k))
    BY DEF Inv, SectionsSay, Says
  <1>5. /\ IsWellFormed(encTable) /\ IsWellFormed(decTable)
        /\ total \in Nat /\ encTable.insertCount \in Nat
        /\ Precedes(decTable, encTable)
    BY DecoderIsBehind DEF Inv
  <1>6. ~ (ReadRic(w, total) > total) \/ ReadBase(w, total) = Invalid
    BY DEF IsBlocked
  <1> HIDE DEF w, ric, base, total
  <1>7. ric <= total
    BY <1>1, <1>2, <1>5, <1>6 DEF Invalid
  <1>8. ASSUME NEW k \in 1 .. Len(w.lines), IsDynamic(w.lines[k])
        PROVE  /\ at(k) = ResolvedIndex(w.lines[k].at, base)
               /\ at(k) \in Nat /\ at(k) < ric
               /\ at(k) \in Active(decTable)
               /\ EntryAt(decTable, at(k)) = EntryAt(encTable, at(k))
    <2>1. at(k) = ResolvedIndex(w.lines[k].at, base)
      BY <1>8 DEF SentIndex
    <2>2. at(k) < ric /\ at(k) \in Active(encTable)
      BY <1>2, <1>8
    <2> HIDE DEF at
    <2>3. at(k) \in Nat /\ Oldest(encTable) <= at(k)
      BY <1>5, <2>2, ActiveParts, BoundsType
    <2>4. at(k) < total /\ Oldest(decTable) <= at(k)
      BY <1>2, <1>5, <1>7, <2>2, <2>3, BoundsType DEF Precedes
    <2>5. at(k) \in Active(decTable)
      BY <1>5, <2>3, <2>4, BoundsType DEF total
    <2>6. EntryAt(decTable, at(k)) = EntryAt(encTable, at(k))
      BY <1>5, <2>2, <2>5 DEF Precedes
    <2> QED
      BY <2>1, <2>2, <2>3, <2>5, <2>6
  <1>9. IsDecodable(w, decTable)
    <2>1. ric \in 0 .. total /\ base # Invalid
      BY <1>1, <1>2, <1>5, <1>7 DEF Invalid
    <2>2. ASSUME NEW k \in DOMAIN w.lines, IsDynamic(w.lines[k])
          PROVE  ReferenceOk(w.lines[k], w, decTable)
      <3>1. k \in 1 .. Len(w.lines)
        BY <1>3
      <3> HIDE DEF at
      <3> QED
        BY <1>1, <1>8, <2>2, <3>1 DEF ReferenceOk, total
    <2> QED
      BY <1>1, <2>1, <2>2 DEF IsDecodable, total
  <1>10. ASSUME NEW k \in 1 .. Len(w.lines)
         PROVE  Meaning(decTable, w.lines[k], at(k)) = Meaning(encTable, w.lines[k], at(k))
    <2>1. w.lines[k].kind \in {"indexed", "named", "literal"}
      <3>1. w.lines[k] \in WireLines
        BY <1>3, ElementOfSeq
      <3> QED
        BY <3>1, WireLineParts
    <2>2. CASE IsDynamic(w.lines[k])
      <3>1. EntryAt(decTable, at(k)) = EntryAt(encTable, at(k))
        BY <1>8, <2>2
      <3> HIDE DEF at
      <3> QED
        BY <2>1, <2>2, <3>1 DEF Meaning, IsDynamic
    <2>3. CASE ~ IsDynamic(w.lines[k])
      <3>1. w.lines[k].kind = "literal"
        BY <2>1, <2>3 DEF IsDynamic
      <3> QED
        BY <3>1 DEF Meaning
    <2> QED
      BY <2>2, <2>3
  <1>11. ReadFields(w, decTable) = w.fields
    <2>1. ReadFields(w, decTable)
            = [k \in DOMAIN w.lines |-> Meaning(decTable, w.lines[k], at(k))]
      BY <1>1 DEF ReadFields, SentIndex, total
    <2>2. \A k \in DOMAIN w.lines :
            Meaning(decTable, w.lines[k], at(k)) = w.fields[k]
      BY <1>3, <1>4, <1>10
    <2>3. w.fields = [k \in DOMAIN w.fields |-> w.fields[k]]
      BY <1>3
    <2>4. DOMAIN w.fields = DOMAIN w.lines
      BY <1>3, <1>4
    <2> HIDE DEF at
    <2> QED
      BY <2>1, <2>2, <2>3, <2>4
  <1> QED
    BY <1>7, <1>9, <1>11 DEF w, ric, total

\* A section the decoder blocks on has references yet to come.
LEMMA SectionBlocks ==
  ASSUME Inv, NEW s \in Streams, NEW i \in 1 .. Len(requests[s]),
         IsBlocked(requests[s][i], decTable)
  PROVE  /\ HasReferences(requests[s][i])
         /\ requests[s][i].id \in DOMAIN outstanding
         /\ outstanding[requests[s][i].id].stream = s
         /\ ReadRic(requests[s][i], decTable.insertCount)
              = outstanding[requests[s][i].id].ric
         /\ outstanding[requests[s][i].id].ric > decTable.insertCount
  <1> DEFINE w == requests[s][i]
  <1>1. ReadRic(w, decTable.insertCount) = SentRic(w, outstanding)
    BY SectionIsRead
  <1>2. decTable.insertCount \in Nat
    BY DecoderIsBehind DEF Inv
  <1>3. HasReferences(w)
    BY <1>1, <1>2 DEF IsBlocked, SentRic
  <1> QED
    BY <1>1, <1>3, SentParts DEF IsBlocked

-----------------------------------------------------------------------------
(* The invariant implies the safety properties. *)

\* The Known Received Counts meet.
LEMMA InvGivesAgreement == Inv => FeedbackBringsAgreement
  <1> SUFFICES ASSUME Inv PROVE FeedbackBringsAgreement
    OBVIOUS
  <1>1. KrcAfter(Len(feedback)) = decKrc
    <2>1. feedback \in Seq(FeedbackMessage)
      BY DEF Inv, TypeOK
    <2>2. \E counts : IsCount(counts, feedback, encKrc, decKrc, outstanding)
      BY DEF Inv, CountsMeet
    <2> QED
      BY <2>1, <2>2, CountIsKrcAfter
  <1> QED
    BY <1>1, CountsInOrder, DecoderIsBehind DEF Inv, FeedbackBringsAgreement

\* The tables agree.
LEMMA InvGivesTables == Inv => TablesAgree
  <1> SUFFICES ASSUME Inv PROVE TablesAgree
    OBVIOUS
  <1>1. Precedes(decTable, encTable)
    BY DecoderIsBehind DEF Inv
  <1> QED
    BY <1>1 DEF Precedes, TablesAgree

\* An acknowledgment on its way is for the oldest record of its stream that no
\* earlier one is for.
LEMMA InvGivesMatch == Inv => AcknowledgmentsMatch
  <1> SUFFICES ASSUME Inv, NEW k \in DOMAIN feedback, feedback[k].type = "ack"
               PROVE  LET s == feedback[k].stream
                          earlier == {feedback[j].id : j \in {i \in 1 .. (k - 1) :
                                        feedback[i].type = "ack" /\ feedback[i].stream = s}}
                      IN  IsFirstOf(Without(outstanding, earlier), s, feedback[k].id)
    BY DEF AcknowledgmentsMatch
  <1> DEFINE s == feedback[k].stream
             before == {i \in 1 .. (k - 1) :
                          feedback[i].type = "ack" /\ feedback[i].stream = s}
             earlier == {feedback[j].id : j \in before}
  <1>1. feedback \in Seq(FeedbackMessage) /\ Len(feedback) \in Nat /\ k \in 1 .. Len(feedback)
    BY DEF Inv, TypeOK
  <1>2. s \in Streams /\ AckOf(feedback[k], s)
    <2>1. feedback[k] \in FeedbackMessage
      BY <1>1, ElementOfSeq
    <2> QED
      BY <2>1 DEF FeedbackMessage, AckOf
  <1>3. /\ requests[s] \in Seq(WireSections) /\ unacknowledged[s] \in Seq(Decoded)
        /\ DOMAIN outstanding \subseteq Nat
    BY <1>2, QueueTypes DEF Inv
  <1>4. Passing(s, feedback, unacknowledged[s], requests[s], outstanding, s \in cancelled)
    BY <1>2 DEF Inv, SectionsPass
  <1> HIDE DEF s
  <1>5. \A i \in 1 .. Len(feedback) : i \in before <=> i < k /\ AckOf(feedback[i], s)
    BY <1>1 DEF AckOf
  <1>6. before \subseteq 1 .. Len(feedback)
    BY <1>1
  <1> HIDE DEF before
  <1>7. \A n \in earlier :
          \E i \in 1 .. Len(feedback) : i < k /\ AckOf(feedback[i], s) /\ feedback[i].id = n
    BY <1>5, <1>6
  <1>8. \A i \in 1 .. Len(feedback) :
          i < k /\ AckOf(feedback[i], s) => feedback[i].id \in earlier
    BY <1>5
  <1> HIDE DEF earlier
  <1>9. IsFirstOf(Without(outstanding, earlier), s, feedback[k].id)
    BY <1>1, <1>2, <1>3, <1>4, <1>7, <1>8, FirstIsAcknowledged
  <1> QED
    BY <1>9 DEF earlier, before, s

\* The decoder recovers the Required Insert Count.
LEMMA InvGivesRecovery == Inv => WrappedCountsRecovered
  <1> SUFFICES ASSUME Inv, NEW s \in Streams, NEW i \in DOMAIN requests[s],
                      HasReferences(requests[s][i])
               PROVE  /\ requests[s][i].id \in DOMAIN outstanding
                      /\ ReadRic(requests[s][i], decTable.insertCount)
                           = outstanding[requests[s][i].id].ric
    BY DEF WrappedCountsRecovered
  <1>1. i \in 1 .. Len(requests[s])
    BY QueueTypes DEF Inv
  <1>2. requests[s][i].id \in DOMAIN outstanding
    BY <1>1, SentParts
  <1>3. ReadRic(requests[s][i], decTable.insertCount) = SentRic(requests[s][i], outstanding)
    BY <1>1, SectionIsRead
  <1> QED
    BY <1>2, <1>3 DEF SentRic

\* A stream that waits for insertions counts as at risk.
LEMMA BlockedIsAtRisk ==
  ASSUME Inv, NEW s \in DOMAIN blocked, ~ (blocked[s] <= decTable.insertCount)
  PROVE  s \in AtRisk(outstanding, encKrc)
  <1>1. s \in Streams /\ blocked[s] \in Nat
    BY DEF Inv, TypeOK
  <1>2. PICK i \in 1 .. Len(requests[s]) :
          HasReferences(requests[s][i]) /\ blocked[s] <= outstanding[requests[s][i].id].ric
    BY DEF Inv, BlockedIsAwaited, Awaited
  <1> DEFINE n == requests[s][i].id
  <1>3. n \in DOMAIN outstanding /\ outstanding[n].stream = s
    BY <1>1, <1>2, SentParts
  <1>4. outstanding[n].ric \in Nat
    BY <1>3 DEF Inv, TypeOK, Section
  <1>5. decTable.insertCount \in Nat /\ encKrc \in Nat /\ encKrc <= decTable.insertCount
    BY DecoderIsBehind, CountsInOrder DEF Inv
  <1>6. outstanding[n].ric > encKrc
    BY <1>1, <1>2, <1>4, <1>5
  <1> HIDE DEF n
  <1> QED
    BY <1>3, <1>6 DEF AtRisk

\* Blocked streams are at risk, and those are few enough.
LEMMA InvGivesForesight == Inv => BlockingIsForeseen
  <1> SUFFICES ASSUME Inv PROVE BlockingIsForeseen
    OBVIOUS
  <1>1. ASSUME NEW s \in DOMAIN blocked \ ReadyStreams
        PROVE  s \in AtRisk(outstanding, encKrc)
    BY BlockedIsAtRisk DEF ReadyStreams
  <1> QED
    BY <1>1 DEF Inv, RiskIsLimited, BlockingIsForeseen

-----------------------------------------------------------------------------
(* No call fails, and what each call that reads something does instead. *)

\* The head of the feedback is what the encoder expects.
LEMMA FeedbackIsAccepted ==
  ASSUME Inv, ReceiveFeedback
  PROVE  LET m == Head(feedback)
         IN  /\ failed' = failed
             /\ encKrc' \in Nat /\ encKrc <= encKrc'
             /\ Counted(m, encKrc, encKrc', outstanding)
             /\ \E counts : IsCount(counts, Tail(feedback), encKrc', decKrc, outstanding)
             /\ \/ /\ m.type = "ack" /\ m.stream \in Streams
                   /\ outstanding' = Without(outstanding, {m.id})
                   /\ m.id \in OfStream(outstanding, m.stream)
                \/ /\ m.type = "cancel" /\ m.stream \in Streams
                   /\ outstanding' = Without(outstanding, OfStream(outstanding, m.stream))
                \/ /\ m.type = "increment"
                   /\ outstanding' = outstanding
  <1> DEFINE m == Head(feedback)
  <1>1. feedback \in Seq(FeedbackMessage) /\ feedback # << >>
    BY DEF Inv, TypeOK, ReceiveFeedback
  <1>2. /\ m \in FeedbackMessage /\ m = feedback[1]
        /\ 1 \in 1 .. Len(feedback) /\ Len(feedback) \in Nat
    BY <1>1, Popped
  <1>3. PICK next \in Nat :
          /\ Counted(m, encKrc, next, outstanding)
          /\ next <= decKrc
          /\ \E counts : IsCount(counts, Tail(feedback), next, decKrc, outstanding)
    <2>1. \E counts : IsCount(counts, feedback, encKrc, decKrc, outstanding)
      BY DEF Inv, CountsMeet
    <2> QED
      BY <1>1, <2>1, CountAdvances
  <1>4. /\ encKrc \in Nat /\ decKrc \in Nat /\ decKrc <= encTable.insertCount
        /\ encTable.insertCount \in Nat
    BY CountsInOrder, DecoderIsBehind DEF Inv
  <1> HIDE DEF m
  <1>5. CASE m.type = "ack"
    <2> DEFINE s == m.stream
    <2>1. s \in Streams /\ AckOf(feedback[1], s) /\ m.id \in Nat
      BY <1>2, <1>5 DEF FeedbackMessage, AckOf
    <2>2. /\ requests[s] \in Seq(WireSections) /\ unacknowledged[s] \in Seq(Decoded)
          /\ DOMAIN outstanding \subseteq Nat
      BY <2>1, QueueTypes DEF Inv
    <2>3. Passing(s, feedback, unacknowledged[s], requests[s], outstanding, s \in cancelled)
      BY <2>1 DEF Inv, SectionsPass
    <2>4. m.id \in OfStream(outstanding, s)
      BY <1>2, <2>1, <2>3 DEF Passing, Recorded
    <2>5. IsFirstOf(Without(outstanding, {}), s, feedback[1].id)
      <3>1. /\ feedback \in Seq(FeedbackMessage) /\ 1 \in 1 .. Len(feedback)
            /\ \A i \in 1 .. Len(feedback) : ~ (i < 1)
        BY <1>1, <1>2
      <3> HIDE DEF s
      <3> QED
        BY <2>1, <2>2, <2>3, <3>1, FirstIsAcknowledged
    <2> HIDE DEF s
    <2>6. IsFirstOf(outstanding, s, m.id)
      <3>1. \A n \in DOMAIN outstanding :
              n \in DOMAIN Without(outstanding, {}) /\ Without(outstanding, {})[n] = outstanding[n]
        BY DEF Without
      <3> QED
        BY <1>2, <2>4, <2>5, <3>1 DEF IsFirstOf, OfStream
    <2>7. ApplyAcknowledgment(s)
      BY <1>5 DEF ReceiveFeedback, m, s
    <2>8. PICK n \in DOMAIN outstanding :
            /\ IsFirstOf(outstanding, s, n)
            /\ encKrc' = Larger(encKrc, outstanding[n].ric)
            /\ outstanding' = Without(outstanding, {n})
            /\ failed' = failed
      BY <2>4, <2>7 DEF ApplyAcknowledgment
    <2>9. n = m.id
      <3>1. n \in Nat /\ m.id \in Nat
        BY <2>1, <2>2
      <3>2. n <= m.id /\ m.id <= n
        BY <2>6, <2>8 DEF IsFirstOf
      <3> QED
        BY <3>1, <3>2
    <2>10. encKrc' = next
      BY <1>3, <1>5, <2>8, <2>9 DEF Counted
    <2>11. outstanding[n].ric \in Nat
      BY <2>8 DEF Inv, TypeOK, Section
    <2>12. encKrc <= encKrc'
      BY <1>4, <2>8, <2>11 DEF Larger
    <2> QED
      BY <1>3, <1>5, <2>1, <2>4, <2>8, <2>9, <2>10, <2>12 DEF m, s
  <1>6. CASE m.type = "cancel"
    <2>1. ApplyCancellation(m.stream)
      BY <1>6 DEF ReceiveFeedback, m
    <2>2. next = encKrc
      BY <1>3, <1>6 DEF Counted
    <2>3. m.stream \in Streams
      BY <1>2, <1>6 DEF FeedbackMessage
    <2> QED
      BY <1>3, <1>4, <1>6, <2>1, <2>2, <2>3 DEF ApplyCancellation, m
  <1>7. CASE m.type = "increment"
    <2>1. ApplyIncrement(m.increment)
      BY <1>7 DEF ReceiveFeedback, m
    <2>2. next = encKrc + m.increment
      BY <1>3, <1>7 DEF Counted
    <2>3. m.increment \in Nat \ {0}
      BY <1>2, <1>7 DEF FeedbackMessage
    <2>4. ~ (m.increment = 0 \/ encKrc + m.increment > encTable.insertCount)
      BY <1>3, <1>4, <2>2, <2>3
    <2>5. encKrc' = next /\ failed' = failed /\ outstanding' = outstanding
      BY <2>1, <2>2, <2>4 DEF ApplyIncrement
    <2>6. encKrc <= next
      BY <1>4, <2>2, <2>3
    <2> QED
      BY <1>3, <1>7, <2>5, <2>6 DEF m
  <1> QED
    BY <1>2, <1>5, <1>6, <1>7 DEF FeedbackMessage, m

\* The decoder can apply the next instruction, and then holds the next table
\* the encoder held.
LEMMA InstructionIsAccepted ==
  ASSUME Inv, ReceiveInstruction
  PROVE  /\ failed' = failed
         /\ Precedes(decTable, decTable')
         /\ decTable'.insertCount \in Nat
         /\ decTable.insertCount <= decTable'.insertCount
         /\ \E tables : IsReplay(tables, Tail(instructions), decTable', encTable)
  <1> DEFINE i == Head(instructions)
  <1>1. instructions \in Seq(Instruction) /\ instructions # << >>
    BY DEF Inv, TypeOK, ReceiveInstruction
  <1>2. PICK next : /\ Applied(i, decTable, next)
                    /\ IsWellFormed(decTable) /\ IsWellFormed(next)
                    /\ \E tables : IsReplay(tables, Tail(instructions), next, encTable)
    <2>1. \E tables : IsReplay(tables, instructions, decTable, encTable)
      BY DEF Inv, DecoderFollows
    <2> QED
      BY <1>1, <2>1, ReplayAdvances
  <1>3. /\ instructions # << >>
        /\ IF i.type = "capacity" THEN ApplyCapacity(i.capacity) ELSE ApplyInsert(i)
    BY DEF ReceiveInstruction
  <1> HIDE DEF i
  <1>4. Applied(i, decTable, decTable') /\ failed' = failed
    <2>1. CASE i.type = "capacity"
      <3>1. i.capacity \in Nat /\ ~ (i.capacity > MaxCapacity)
        BY <1>2, <2>1, MaxCapacityAssumption DEF Applied
      <3> QED
        BY <1>2, <1>3, <2>1, <3>1 DEF ApplyCapacity, Applied
    <2>2. CASE i.type # "capacity"
      <3> DEFINE f == InsertedField(decTable, i)
      <3>1. i \in Instruction /\ SourceOk(decTable, i)
        BY <1>2, <2>2 DEF Applied
      <3>2. EntrySize(f) <= decTable.capacity
        BY <1>2, <2>2 DEF Applied, CanInsert
      <3>3. EntrySize(f) \in Nat /\ decTable.capacity \in Nat
        <4>1. f \in Field
          BY <1>2, <2>2, <3>1, InsertedFieldType
        <4> QED
          BY <1>2, <4>1, FieldLenType, BoundsType
      <3>4. ~ (~ SourceOk(decTable, i) \/ EntrySize(f) > decTable.capacity)
        BY <3>1, <3>2, <3>3
      <3>5. /\ \E keep \in 0 .. Len(decTable.entries) :
                 CanInsert(decTable, f, keep) /\ decTable' = WithInserted(decTable, f, keep)
            /\ failed' = failed
        BY <1>3, <2>2, <3>4 DEF ApplyInsert
      <3> QED
        BY <2>2, <3>1, <3>5 DEF Applied
    <2> QED
      BY <2>1, <2>2
  <1>5. decTable' = next
    BY <1>2, <1>4, AppliedIsDeterministic
  <1>6. Precedes(decTable, decTable') /\ IsWellFormed(decTable')
    BY <1>2, <1>5, AppliedGoesForward
  <1> QED
    BY <1>2, <1>4, <1>5, <1>6, BoundsType DEF Precedes

\* The oldest section of a stream, once it is not blocked, is delivered.
LEMMA SectionIsDelivered ==
  ASSUME Inv, NEW s \in Streams, DecodeSection(s)
  PROVE  LET w   == Head(requests[s])
             ric == SentRic(w, outstanding)
         IN  /\ requests[s] # << >> /\ w = requests[s][1] /\ 1 \in 1 .. Len(requests[s])
             /\ failed' = failed
             /\ delivered' = <<s, w.fields>>
             /\ requests' = [requests EXCEPT ![s] = Tail(@)]
             /\ blocked' = Without(blocked, {s})
             /\ unacknowledged' =
                  IF HasReferences(w)
                  THEN [unacknowledged EXCEPT ![s] = Append(@, [id |-> w.id, ric |-> ric])]
                  ELSE unacknowledged
             /\ ric <= decTable.insertCount
  <1> DEFINE w == Head(requests[s])
             ric == SentRic(w, outstanding)
  <1>1. requests[s] \in Seq(WireSections) /\ requests[s] # << >> /\ ~ IsBlocked(w, decTable)
    BY QueueTypes DEF Inv, DecodeSection
  <1>2. w = requests[s][1] /\ 1 \in 1 .. Len(requests[s])
    BY <1>1, Popped
  <1>3. /\ ric <= decTable.insertCount
        /\ IsDecodable(w, decTable)
        /\ ReadFields(w, decTable) = w.fields
        /\ ReadRic(w, decTable.insertCount) = ric
    BY <1>1, <1>2, SectionDecodes, SectionIsRead
  <1>4. /\ delivered' = <<s, ReadFields(w, decTable)>>
        /\ requests' = [requests EXCEPT ![s] = Tail(@)]
        /\ blocked' = Without(blocked, {s})
        /\ unacknowledged' =
             IF ~ HasReferences(w) THEN unacknowledged
             ELSE [unacknowledged EXCEPT ![s] =
                     Append(@, [id  |-> w.id, ric |-> ReadRic(w, decTable.insertCount)])]
        /\ failed' = failed
    BY <1>3 DEF DecodeSection
  <1> HIDE DEF w, ric
  <1>5. unacknowledged' =
          IF HasReferences(w)
          THEN [unacknowledged EXCEPT ![s] = Append(@, [id |-> w.id, ric |-> ric])]
          ELSE unacknowledged
    BY <1>3, <1>4
  <1> QED
    BY <1>1, <1>2, <1>3, <1>4, <1>5 DEF w, ric

\* A stream that blocks is admitted: with it, the blocked streams are at risk.
LEMMA StreamIsAdmitted ==
  ASSUME Inv, NEW s \in Streams, BlockSection(s)
  PROVE  /\ failed' = failed
         /\ DOMAIN blocked' = DOMAIN blocked \union {s}
         /\ \A t \in DOMAIN blocked : t # s => blocked'[t] = blocked[t]
         /\ \/ s \in DOMAIN blocked /\ blocked'[s] = blocked[s]
            \/ Awaited(requests[s], outstanding, blocked'[s])
  <1>1. PICK i \in 1 .. Len(requests[s]) :
          /\ \A j \in 1 .. i : IsBlocked(requests[s][j], decTable)
          /\ LET ric == ReadRic(requests[s][i], decTable.insertCount)
             IN  IF s \in DOMAIN blocked
                 THEN /\ blocked' = [blocked EXCEPT ![s] = Larger(@, ric)]
                      /\ UNCHANGED failed
                 ELSE IF Cardinality(DOMAIN blocked) >= MaxBlockedStreams
                 THEN failed' = "blocked streams" /\ UNCHANGED blocked
                 ELSE blocked' = Registered(blocked, s, ric) /\ UNCHANGED failed
    BY DEF BlockSection
  <1> DEFINE n == requests[s][i].id
             ric == outstanding[n].ric
  <1>2. IsBlocked(requests[s][i], decTable)
    <2>1. i \in 1 .. i
      BY QueueTypes DEF Inv
    <2> QED
      BY <1>1, <2>1
  <1>3. /\ HasReferences(requests[s][i])
        /\ n \in DOMAIN outstanding /\ outstanding[n].stream = s
        /\ ReadRic(requests[s][i], decTable.insertCount) = ric
        /\ ric > decTable.insertCount
    BY <1>2, SectionBlocks
  <1>4. /\ decTable.insertCount \in Nat /\ encKrc \in Nat /\ encKrc <= decTable.insertCount
        /\ ric \in Nat
    BY <1>3, DecoderIsBehind, CountsInOrder DEF Inv, TypeOK, Section
  <1>5. Awaited(requests[s], outstanding, ric)
    BY <1>3, <1>4 DEF Awaited
  <1> HIDE DEF n, ric
  <1>6. CASE s \in DOMAIN blocked
    <2>1. blocked' = [blocked EXCEPT ![s] = Larger(blocked[s], ric)] /\ failed' = failed
      BY <1>1, <1>3, <1>6
    <2>2. blocked'[s] = blocked[s] \/ blocked'[s] = ric
      BY <1>6, <2>1 DEF Larger
    <2> QED
      BY <1>5, <1>6, <2>1, <2>2
  <1>7. CASE s \notin DOMAIN blocked
    <2> DEFINE risk == AtRisk(outstanding, encKrc)
               streams == DOMAIN blocked
    <2>1. s \in risk
      <3>1. outstanding[n].ric > encKrc
        BY <1>3, <1>4 DEF ric
      <3> QED
        BY <1>3, <3>1 DEF AtRisk
    <2>2. streams \subseteq risk
      <3>1. ASSUME NEW t \in streams PROVE t \in risk
        <4>1. ~ (blocked[t] <= decTable.insertCount)
          BY DEF BlockSection, ReadyStreams
        <4> QED
          BY <4>1, BlockedIsAtRisk
      <3> QED
        BY <3>1
    <2>3. IsFiniteSet(risk) /\ Cardinality(risk) <= MaxBlockedStreams
      BY DEF Inv, RiskIsLimited
    <2> HIDE DEF risk, streams
    <2>4. IsFiniteSet(streams)
      BY <2>2, <2>3, FS_Subset
    <2>5. /\ Cardinality(streams \union {s}) = Cardinality(streams) + 1
      BY <1>7, <2>4, FS_AddElement DEF streams
    <2>6. Cardinality(streams \union {s}) <= Cardinality(risk)
      BY <2>1, <2>2, <2>3, FS_Subset
    <2>7. Cardinality(streams) \in Nat /\ Cardinality(risk) \in Nat
      BY <2>3, <2>4, FS_CardinalityType
    <2>8. ~ (Cardinality(DOMAIN blocked) >= MaxBlockedStreams)
      BY <2>3, <2>5, <2>6, <2>7, MaxBlockedStreamsAssumption DEF streams
    <2>9. blocked' = Registered(blocked, s, ric) /\ failed' = failed
      BY <1>1, <1>3, <1>7, <2>8
    <2> QED
      BY <1>5, <1>7, <2>9 DEF Registered
  <1> QED
    BY <1>6, <1>7

\* A line on the wire names the entry its planner meant, and means the same.
LEMMA LineIsSent ==
  ASSUME NEW t, IsWellFormed(t), NEW line \in PlanLines(t), NEW base \in Nat
  PROVE  LET wire == WireLine(line, base)
             a    == SentIndex(wire, base)
         IN  /\ IsDynamic(wire) <=> IsDynamic(line)
             /\ a = IF IsDynamic(line) THEN line.absolute ELSE 0
             /\ Meaning(t, wire, a) = Meaning(t, line, a)
  <1> DEFINE wire == WireLine(line, base)
             a    == SentIndex(wire, base)
  <1>1. line.kind \in {"indexed", "named", "literal"}
    BY PlanLineParts
  <1>2. CASE line.kind = "literal"
    <2>1. wire = line /\ ~ IsDynamic(line)
      BY <1>2 DEF WireLine, IsDynamic
    <2> QED
      BY <2>1 DEF SentIndex
  <1>3. CASE IsDynamic(line)
    <2>1. line.absolute \in Nat
      BY <1>3, PlanLineParts, ActiveParts
    <2>2. /\ wire.kind = line.kind /\ wire.at = LineIndex(line.absolute, base)
          /\ line.kind = "named" => wire.value = line.value
      BY <1>3 DEF WireLine, IsDynamic
    <2> HIDE DEF wire
    <2>3. IsDynamic(wire) /\ a = ResolvedIndex(wire.at, base)
      BY <1>3, <2>2 DEF IsDynamic, SentIndex
    <2>4. a = line.absolute
      BY <2>1, <2>2, <2>3, IndexRoundTrip
    <2> HIDE DEF a
    <2>5. Meaning(t, wire, a) = Meaning(t, line, a)
      BY <1>3, <2>2 DEF Meaning, IsDynamic
    <2> QED
      BY <1>3, <2>3, <2>4, <2>5 DEF wire, a
  <1> QED
    BY <1>1, <1>2, <1>3 DEF IsDynamic

\* encode puts a section on the stream that says what is meant and registers
\* its references.
LEMMA SectionIsSent ==
  ASSUME Inv, NEW s \in Streams, EncodeSection(s)
  PROVE  \E w \in WireSections : \E record :
           /\ w.id = sectionCount /\ record.stream = s
           /\ outstanding' = IF HasReferences(w)
                             THEN Registered(outstanding, sectionCount, record)
                             ELSE outstanding
           /\ requests' = IF s \in cancelled THEN requests
                          ELSE [requests EXCEPT ![s] = Append(@, w)]
           /\ HasReferences(w) =>
                record.ric \in Nat /\ MayBlock(outstanding, encKrc, s, record.ric)
           /\ Says(w, outstanding', encTable)
           /\ w.fields \in UNION {[1 .. n -> Field] : n \in 1 .. MaxLines}
  <1> DEFINE Sent(plan, ric, base) ==
          /\ IsRequired(ric, References(plan))
          /\ ric > 0 => MaxEntries > 0 /\ MayBlock(outstanding, encKrc, s, ric)
          /\ outstanding' =
               IF References(plan) = {} THEN outstanding
               ELSE Registered(outstanding, sectionCount,
                      [stream |-> s, ric |-> ric, refs |-> References(plan)])
          /\ requests' = IF s \in cancelled THEN requests
                         ELSE [requests EXCEPT ![s] =
                                 Append(@, WireSection(sectionCount, plan, ric, base))]
  <1>0. PICK plan \in Plans(encTable), ric \in 0 .. encTable.insertCount :
        \E base \in {ric} \union {b \in ExplicitBases : b <= encTable.insertCount} :
          Sent(plan, ric, base)
    BY DEF EncodeSection
  <1>1. PICK base \in {ric} \union {b \in ExplicitBases : b <= encTable.insertCount} :
          Sent(plan, ric, base)
    BY <1>0
  <1> DEFINE w == WireSection(sectionCount, plan, ric, base)
             record == [stream |-> s, ric |-> ric, refs |-> References(plan)]
  <1>2. encTable.insertCount \in Nat /\ IsWellFormed(encTable) /\ sectionCount \in Nat
    BY DecoderIsBehind DEF Inv, TypeOK
  <1>3. ric \in Nat /\ base \in Nat
    BY <1>2, ConnectionAssumption
  <1>4. w \in WireSections
    BY <1>1, <1>2, <1>3, WireSectionType DEF Inv
  <1>5. PICK n \in 1 .. MaxLines : plan \in [1 .. n -> PlanLines(encTable)]
    BY DEF Plans
  <1>6. n \in Nat /\ DOMAIN plan = 1 .. n
    BY <1>5, ConnectionAssumption
  <1>7. /\ w.id = sectionCount /\ w.ric = EncodedRic(ric) /\ w.prefix = PrefixDelta(ric, base)
        /\ w.fields = Meant(encTable, plan)
        /\ w.lines = [k \in 1 .. n |-> WireLine(plan[k], base)]
    BY <1>6 DEF WireSection
  <1>8. w.fields = [k \in 1 .. n |->
                      Meaning(encTable, plan[k],
                              IF IsDynamic(plan[k]) THEN plan[k].absolute ELSE 0)]
    BY <1>6, <1>7 DEF Meant
  <1> HIDE DEF w
  <1>9. \A k \in 1 .. n :
          /\ plan[k] \in PlanLines(encTable)
          /\ w.lines[k] = WireLine(plan[k], base)
    BY <1>5, <1>7
  <1>10. HasReferences(w) <=> References(plan) # {}
    <2>1. DOMAIN w.lines = 1 .. n
      BY <1>7
    <2>2. \A k \in 1 .. n : IsDynamic(w.lines[k]) <=> IsDynamic(plan[k])
      BY <1>2, <1>3, <1>9, LineIsSent
    <2> QED
      BY <1>6, <2>1, <2>2 DEF HasReferences, References
  <1>11. SentRic(w, outstanding') = ric
    <2>1. CASE HasReferences(w)
      <3>1. outstanding' = Registered(outstanding, sectionCount, record)
        BY <1>1, <1>10, <2>1
      <3> QED
        BY <1>7, <2>1, <3>1 DEF SentRic, Registered
    <2>2. CASE ~ HasReferences(w)
      <3>1. ric = 0
        BY <1>1, <1>10, <2>2 DEF IsRequired
      <3> QED
        BY <2>2, <3>1 DEF SentRic
    <2> QED
      BY <2>1, <2>2
  <1>12. SentBase(w, outstanding') = base
    BY <1>3, <1>7, <1>11, BaseRoundTrip DEF SentBase
  <1>13. Len(w.fields) = n /\ Len(w.lines) = n
    BY <1>6, <1>7, <1>8
  <1>14. ASSUME NEW k \in 1 .. n
         PROVE  LET a == SentIndex(w.lines[k], base)
                IN  /\ IsDynamic(w.lines[k]) => a \in outstanding'[w.id].refs
                    /\ w.fields[k] = Meaning(encTable, w.lines[k], a)
    <2> DEFINE a == SentIndex(w.lines[k], base)
    <2>1. /\ IsDynamic(w.lines[k]) <=> IsDynamic(plan[k])
          /\ a = IF IsDynamic(plan[k]) THEN plan[k].absolute ELSE 0
          /\ Meaning(encTable, w.lines[k], a) = Meaning(encTable, plan[k], a)
      BY <1>2, <1>3, <1>9, LineIsSent
    <2>2. w.fields[k] = Meaning(encTable, plan[k],
                                IF IsDynamic(plan[k]) THEN plan[k].absolute ELSE 0)
      BY <1>8
    <2> HIDE DEF a
    <2>3. ASSUME IsDynamic(plan[k])
          PROVE  a \in outstanding'[w.id].refs
      <3>1. plan[k].absolute \in References(plan)
        BY <1>6, <2>3 DEF References
      <3>2. outstanding' = Registered(outstanding, sectionCount, record)
        BY <1>1, <3>1
      <3>3. outstanding'[w.id].refs = References(plan)
        BY <1>7, <3>2 DEF Registered
      <3> QED
        BY <2>1, <2>3, <3>1, <3>3
    <2> QED
      BY <2>1, <2>2, <2>3 DEF a
  <1>15. Says(w, outstanding', encTable)
    BY <1>3, <1>7, <1>11, <1>12, <1>13, <1>14 DEF Says
  <1>16. w.fields \in UNION {[1 .. m -> Field] : m \in 1 .. MaxLines}
    <2>1. w.fields \in Seq(Field)
      BY <1>4 DEF WireSections
    <2>2. w.fields \in [1 .. n -> Field]
      BY <1>13, <2>1
    <2> QED
      BY <1>5, <2>2
  <1>17. HasReferences(w) => ric > 0
    <2> SUFFICES ASSUME HasReferences(w) PROVE ric > 0
      OBVIOUS
    <2>1. References(plan) # {}
      BY <1>10
    <2> QED
      BY <1>1, <1>3, <2>1, RegisteredType DEF Inv
  <1>18. outstanding' = IF HasReferences(w)
                        THEN Registered(outstanding, sectionCount, record)
                        ELSE outstanding
    BY <1>1, <1>10
  <1>19. record.stream = s /\ record.ric = ric
    OBVIOUS
  <1>20. requests' = IF s \in cancelled THEN requests
                     ELSE [requests EXCEPT ![s] = Append(@, w)]
    BY <1>1 DEF w
  <1> HIDE DEF record
  <1> QED
    BY <1>1, <1>3, <1>4, <1>7, <1>15, <1>16, <1>17, <1>18, <1>19, <1>20

-----------------------------------------------------------------------------
(* Every step keeps the invariant, one part at a time. *)

\* set_capacity and insert: what they have in common.
TableChanges ==
  /\ \E i \in Instruction :
       Applied(i, encTable, encTable') /\ instructions' = Append(instructions, i)
  /\ IsWellFormed(encTable') /\ Precedes(encTable, encTable')
  /\ encTable'.capacity <= MaxCapacity /\ Oldest(encTable') <= encKrc
  /\ \A a \in Active(encTable) \ Active(encTable') : IsEvictable(outstanding, encKrc, a)
  /\ UNCHANGED <<outstanding, encKrc, sectionCount, decoderVars, requests, feedback,
                 cancelled, delivered, failed>>

\* If what has left the table may leave it, the oldest entry left is no younger
\* than what is known to be received.
LEMMA EvictionIsReceived ==
  ASSUME TypeOK, EvictedIsReceived, NEW keep \in 0 .. Len(encTable.entries),
         EvictionAllowed(keep)
  PROVE  encTable.insertCount - keep <= encKrc
  <1>1. /\ encTable.insertCount \in Nat /\ Len(encTable.entries) \in Nat
        /\ Oldest(encTable) = encTable.insertCount - Len(encTable.entries)
        /\ encKrc \in Nat /\ Oldest(encTable) <= encKrc /\ keep \in Nat
    BY TableParts DEF TypeOK, IsWellFormed, Oldest, EvictedIsReceived
  <1>2. CASE keep = Len(encTable.entries)
    BY <1>1, <1>2
  <1>3. CASE keep # Len(encTable.entries)
    <2>1. encTable.insertCount - keep - 1 \in Evicted(encTable, keep)
      BY <1>1, <1>3 DEF Evicted
    <2>2. encKrc > encTable.insertCount - keep - 1
      BY <2>1 DEF EvictionAllowed, IsEvictable
    <2> QED
      BY <1>1, <2>2
  <1> QED
    BY <1>2, <1>3

\* set_capacity is such a change.
LEMMA CapacityChanges ==
  ASSUME Inv, NEW c \in Capacities, SetCapacity(c)
  PROVE  TableChanges
  <1>1. PICK keep \in 0 .. Len(encTable.entries) :
          /\ CanSetCapacity(encTable, c, keep)
          /\ EvictionAllowed(keep)
          /\ encTable' = WithCapacity(encTable, c, keep)
    BY DEF SetCapacity
  <1>2. c \in Nat /\ c <= MaxCapacity
    BY ConnectionAssumption, MaxCapacityAssumption
  <1>3. IsWellFormed(encTable) /\ keep \in Nat
    BY TableParts DEF Inv, TypeOK, IsWellFormed
  <1>4. /\ IsWellFormed(encTable') /\ encTable'.capacity = c
        /\ Oldest(encTable') = encTable.insertCount - keep
        /\ Precedes(encTable, encTable')
    BY <1>1, <1>2, <1>3, AfterCapacity
  <1>5. Oldest(encTable') <= encKrc
    BY <1>1, <1>4, EvictionIsReceived DEF Inv
  <1>6. \A a \in Active(encTable) \ Active(encTable') : IsEvictable(outstanding, encKrc, a)
    <2>1. Active(encTable') = Active(encTable) \ Evicted(encTable, keep)
      BY <1>1, <1>2, <1>3, CapacityEvicts
    <2> QED
      BY <1>1, <2>1 DEF EvictionAllowed
  <1> DEFINE i == [type |-> "capacity", capacity |-> c]
  <1>7. /\ i \in Instruction /\ Applied(i, encTable, encTable')
        /\ instructions' = Append(instructions, i)
    BY <1>1, <1>2 DEF Instruction, Applied, SetCapacity
  <1> QED
    BY <1>2, <1>4, <1>5, <1>6, <1>7 DEF TableChanges, SetCapacity

\* insert is such a change, for each of its instructions.
LEMMA InsertionChanges ==
  ASSUME Inv, NEW i \in Instruction, i.type # "capacity", Insert(i)
  PROVE  TableChanges
  <1> DEFINE f == InsertedField(encTable, i)
  <1>1. PICK keep \in 0 .. Len(encTable.entries) :
          /\ CanInsert(encTable, f, keep)
          /\ EvictionAllowed(keep)
          /\ encTable' = WithInserted(encTable, f, keep)
    BY DEF Insert
  <1>2. IsWellFormed(encTable) /\ SourceOk(encTable, i)
    BY DEF Inv, TypeOK, Insert
  <1>3. f \in Field /\ keep \in Nat
    BY <1>2, InsertedFieldType, TableParts DEF IsWellFormed
  <1>4. Applied(i, encTable, encTable')
    BY <1>1, <1>2 DEF Applied
  <1> HIDE DEF f
  <1>5. /\ IsWellFormed(encTable') /\ encTable'.capacity = encTable.capacity
        /\ Oldest(encTable') = encTable.insertCount - keep
        /\ Precedes(encTable, encTable')
    BY <1>1, <1>2, <1>3, AfterInsertion
  <1>6. Oldest(encTable') <= encKrc
    BY <1>1, <1>5, EvictionIsReceived DEF Inv
  <1>7. \A a \in Active(encTable) \ Active(encTable') : IsEvictable(outstanding, encKrc, a)
    <2>1. Active(encTable')
            = (Active(encTable) \ Evicted(encTable, keep)) \union {encTable.insertCount}
      BY <1>1, <1>2, <1>3, EntriesSurvive
    <2> QED
      BY <1>1, <2>1 DEF EvictionAllowed
  <1> QED
    BY <1>4, <1>5, <1>6, <1>7 DEF TableChanges, Insert, Inv, EvictedIsReceived

\* The cases of a step.
LEMMA StepCases ==
  ASSUME Inv, [Next]_vars
  PROVE  \/ TableChanges \/ ReceiveFeedback \/ ReceiveInstruction \/ EmitIncrement
         \/ \E s \in Streams : \/ EncodeSection(s)
                               \/ DecodeSection(s)
                               \/ BlockSection(s)
                               \/ AcknowledgeSection(s)
                               \/ CancelStream(s)
         \/ UNCHANGED vars
  <1>1. CASE InsertLiteral \/ InsertNameReference \/ Duplicate
    BY <1>1, InsertCases, InsertionChanges DEF Inv
  <1>2. CASE \E c \in Capacities : SetCapacity(c)
    BY <1>2, CapacityChanges
  <1> QED
    BY <1>1, <1>2 DEF Next

\* The decoder can still follow.
LEMMA NextFollows == Inv /\ [Next]_vars => DecoderFollows'
  <1> SUFFICES ASSUME Inv, [Next]_vars PROVE DecoderFollows'
    OBVIOUS
  <1>1. CASE TableChanges
    <2>1. PICK i \in Instruction :
            Applied(i, encTable, encTable') /\ instructions' = Append(instructions, i)
      BY <1>1 DEF TableChanges
    <2>2. /\ instructions \in Seq(Instruction) /\ IsWellFormed(encTable)
          /\ \E tables : IsReplay(tables, instructions, decTable, encTable)
      BY DEF Inv, TypeOK, DecoderFollows
    <2>3. \E tables : IsReplay(tables, Append(instructions, i), decTable, encTable')
      BY <2>1, <2>2, ReplayGrows
    <2>4. decTable' = decTable
      BY <1>1 DEF TableChanges, decoderVars
    <2> QED
      BY <2>1, <2>3, <2>4 DEF DecoderFollows
  <1>2. CASE ReceiveInstruction
    <2>1. \E tables : IsReplay(tables, Tail(instructions), decTable', encTable)
      BY <1>2, InstructionIsAccepted
    <2>2. instructions' = Tail(instructions) /\ encTable' = encTable
      BY <1>2 DEF ReceiveInstruction, encoderVars
    <2> QED
      BY <2>1, <2>2 DEF DecoderFollows
  <1>3. CASE UNCHANGED <<instructions, decTable, encTable>>
    BY <1>3 DEF Inv, DecoderFollows
  <1>4. CASE ReceiveFeedback \/ EmitIncrement \/ UNCHANGED vars
    BY <1>3, <1>4 DEF ReceiveFeedback, EmitIncrement, vars, encoderVars, decoderVars, wireVars
  <1>5. CASE \E s \in Streams : \/ EncodeSection(s)
                                \/ DecodeSection(s)
                                \/ BlockSection(s)
                                \/ AcknowledgeSection(s)
                                \/ CancelStream(s)
    BY <1>3, <1>5 DEF EncodeSection, DecodeSection, BlockSection, AcknowledgeSection,
                      CancelStream, encoderVars, decoderVars, wireVars
  <1> QED
    BY <1>1, <1>2, <1>4, <1>5, StepCases

\* What has left the encoder's table is still known to be received.
LEMMA NextEvicted == Inv /\ [Next]_vars => EvictedIsReceived'
  <1> SUFFICES ASSUME Inv, [Next]_vars PROVE EvictedIsReceived'
    OBVIOUS
  <1>1. CASE TableChanges
    BY <1>1 DEF TableChanges, EvictedIsReceived
  <1>2. CASE ReceiveFeedback
    <2>1. encKrc' \in Nat /\ encKrc <= encKrc' /\ encTable' = encTable
      BY <1>2, FeedbackIsAccepted DEF ReceiveFeedback
    <2>2. encKrc \in Nat /\ Oldest(encTable) \in Nat
      BY BoundsType DEF Inv, TypeOK
    <2> QED
      BY <2>1, <2>2 DEF Inv, EvictedIsReceived
  <1>3. CASE UNCHANGED <<encKrc, encTable>>
    BY <1>3 DEF Inv, EvictedIsReceived
  <1>4. CASE ReceiveInstruction \/ EmitIncrement \/ UNCHANGED vars
    BY <1>3, <1>4 DEF ReceiveInstruction, EmitIncrement, vars, encoderVars
  <1>5. CASE \E s \in Streams : \/ EncodeSection(s)
                                \/ DecodeSection(s)
                                \/ BlockSection(s)
                                \/ AcknowledgeSection(s)
                                \/ CancelStream(s)
    BY <1>3, <1>5 DEF EncodeSection, DecodeSection, BlockSection, AcknowledgeSection,
                      CancelStream, encoderVars
  <1> QED
    BY <1>1, <1>2, <1>4, <1>5, StepCases

\* No call fails.
LEMMA NextNeverFails == Inv /\ [Next]_vars => NeverFails'
  <1> SUFFICES ASSUME Inv, [Next]_vars PROVE NeverFails'
    OBVIOUS
  <1>1. CASE UNCHANGED failed
    BY <1>1 DEF Inv, NeverFails
  <1>2. CASE ReceiveFeedback
    BY <1>1, <1>2, FeedbackIsAccepted
  <1>3. CASE ReceiveInstruction
    BY <1>1, <1>3, InstructionIsAccepted
  <1>4. CASE TableChanges \/ EmitIncrement \/ UNCHANGED vars
    BY <1>1, <1>4 DEF TableChanges, EmitIncrement, vars
  <1>5. ASSUME NEW s \in Streams, DecodeSection(s) PROVE NeverFails'
    BY <1>1, <1>5, SectionIsDelivered
  <1>6. ASSUME NEW s \in Streams, BlockSection(s) PROVE NeverFails'
    BY <1>1, <1>6, StreamIsAdmitted
  <1>7. CASE \E s \in Streams : EncodeSection(s) \/ AcknowledgeSection(s) \/ CancelStream(s)
    BY <1>1, <1>7 DEF EncodeSection, AcknowledgeSection, CancelStream
  <1> QED
    BY <1>2, <1>3, <1>4, <1>5, <1>6, <1>7, StepCases

-----------------------------------------------------------------------------
(* The sections on their way keep their order and their records. *)

\* Sending a section.
LEMMA EncodingPasses ==
  ASSUME Inv, NEW s \in Streams, EncodeSection(s)
  PROVE  SectionsPass'
  <1>1. PICK w \in WireSections : \E record :
          /\ w.id = sectionCount /\ record.stream = s
          /\ outstanding' = IF HasReferences(w)
                            THEN Registered(outstanding, sectionCount, record)
                            ELSE outstanding
          /\ requests' = IF s \in cancelled THEN requests
                         ELSE [requests EXCEPT ![s] = Append(@, w)]
    BY SectionIsSent
  <1>2. PICK record :
          /\ w.id = sectionCount /\ record.stream = s
          /\ outstanding' = IF HasReferences(w)
                            THEN Registered(outstanding, sectionCount, record)
                            ELSE outstanding
          /\ requests' = IF s \in cancelled THEN requests
                         ELSE [requests EXCEPT ![s] = Append(@, w)]
    BY <1>1
  <1>3. /\ feedback' = feedback /\ unacknowledged' = unacknowledged
        /\ cancelled' = cancelled /\ decTable' = decTable
        /\ sectionCount' = sectionCount + 1
    BY DEF EncodeSection, decoderVars
  <1>4. /\ requests \in [Streams -> Seq(WireSections)] /\ sectionCount \in Nat
        /\ DOMAIN outstanding \subseteq 0 .. (sectionCount - 1)
    BY DEF Inv, TypeOK, SectionId
  <1> SUFFICES ASSUME NEW t \in Streams
               PROVE  /\ Passing(t, feedback, unacknowledged[t], requests'[t], outstanding',
                                 t \in cancelled)
                      /\ \A i \in 1 .. Len(requests'[t]) :
                           requests'[t][i].id < sectionCount + 1
                      /\ \A i \in 1 .. Len(unacknowledged[t]) :
                           unacknowledged[t][i].ric <= decTable.insertCount
    BY <1>3 DEF SectionsPass
  <1>5. /\ Passing(t, feedback, unacknowledged[t], requests[t], outstanding, t \in cancelled)
        /\ \A i \in 1 .. Len(requests[t]) : requests[t][i].id < sectionCount
        /\ \A i \in 1 .. Len(unacknowledged[t]) :
             unacknowledged[t][i].ric <= decTable.insertCount
    BY DEF Inv, SectionsPass
  <1>6. /\ requests[t] \in Seq(WireSections) /\ unacknowledged[t] \in Seq(Decoded)
        /\ feedback \in Seq(FeedbackMessage)
        /\ \A i \in 1 .. Len(requests[t]) : requests[t][i].id \in Nat
    BY QueueTypes, NumbersType DEF Inv
  <1>7. ASSUME requests'[t] = requests[t]
        PROVE  \A i \in 1 .. Len(requests'[t]) : requests'[t][i].id < sectionCount + 1
    BY <1>4, <1>5, <1>6, <1>7
  <1>8. CASE t = s /\ s \notin cancelled
    <2>1. requests'[t] = Append(requests[t], w)
      BY <1>2, <1>4, <1>8
    <2>2. (t \in cancelled) = FALSE
      BY <1>8
    <2>3. Passing(t, feedback, unacknowledged[t], requests[t], outstanding, FALSE)
      BY <1>5, <2>2
    <2>4. Passing(t, feedback, unacknowledged[t], Append(requests[t], w), outstanding', FALSE)
      BY <1>2, <1>4, <1>5, <1>6, <1>8, <2>3, SectionSent
    <2>5. \A i \in 1 .. Len(requests'[t]) : requests'[t][i].id < sectionCount + 1
      BY <1>2, <1>4, <1>5, <1>6, <2>1, Appended
    <2> QED
      BY <1>5, <2>1, <2>2, <2>4, <2>5
  <1>9. CASE t = s /\ s \in cancelled
    <2>1. requests' = requests
      BY <1>2, <1>9
    <2>2. (t \in cancelled) = TRUE
      BY <1>9
    <2>3. Passing(t, feedback, unacknowledged[t], requests[t], outstanding, TRUE)
      BY <1>5, <2>2
    <2>4. Passing(t, feedback, unacknowledged[t], requests[t], outstanding', TRUE)
      BY <1>2, <1>4, <1>6, <1>9, <2>3, SectionSentInVain
    <2> QED
      BY <1>5, <1>7, <2>1, <2>2, <2>4
  <1>10. CASE t # s
    <2>1. requests'[t] = requests[t]
      BY <1>2, <1>4, <1>10
    <2>2. /\ OfStream(outstanding', t) = OfStream(outstanding, t)
          /\ \A n \in OfStream(outstanding, t) : outstanding'[n] = outstanding[n]
      <3>1. sectionCount \notin DOMAIN outstanding
        BY <1>4
      <3> QED
        BY <1>2, <1>10, <3>1 DEF OfStream, Registered
    <2>3. Passing(t, feedback, unacknowledged[t], requests[t], outstanding', t \in cancelled)
      BY <1>5, <2>2, OtherRecords
    <2> QED
      BY <1>5, <1>7, <2>1, <2>3
  <1> QED
    BY <1>8, <1>9, <1>10

\* Decoding a section.
LEMMA DecodingPasses ==
  ASSUME Inv, NEW s \in Streams, DecodeSection(s)
  PROVE  SectionsPass'
  <1> DEFINE w   == Head(requests[s])
             ric == SentRic(w, outstanding)
  <1>1. /\ requests[s] # << >> /\ 1 \in 1 .. Len(requests[s]) /\ w = requests[s][1]
        /\ requests' = [requests EXCEPT ![s] = Tail(@)]
        /\ unacknowledged' =
             IF HasReferences(w)
             THEN [unacknowledged EXCEPT ![s] = Append(@, [id |-> w.id, ric |-> ric])]
             ELSE unacknowledged
        /\ ric <= decTable.insertCount
    BY SectionIsDelivered
  <1>2. /\ feedback' = feedback /\ outstanding' = outstanding
        /\ cancelled' = cancelled /\ decTable' = decTable
        /\ sectionCount' = sectionCount
    BY DEF DecodeSection, encoderVars
  <1>3. ric \in Nat /\ (HasReferences(w) => outstanding[w.id].ric = ric) /\ w.id \in Nat
    <2>1. LET v == requests[s][1]
          IN  /\ SentRic(v, outstanding) \in Nat /\ v.id \in Nat
              /\ HasReferences(v) => SentRic(v, outstanding) = outstanding[v.id].ric
      BY <1>1, SentParts
    <2>2. w = requests[s][1]
      BY <1>1
    <2> HIDE DEF w
    <2> QED
      BY <2>1, <2>2
  <1> HIDE DEF w, ric
  <1>4. /\ requests \in [Streams -> Seq(WireSections)]
        /\ unacknowledged \in [Streams -> Seq(Decoded)]
    BY DEF Inv, TypeOK
  <1> SUFFICES ASSUME NEW t \in Streams
               PROVE  /\ Passing(t, feedback, unacknowledged'[t], requests'[t], outstanding,
                                 t \in cancelled)
                      /\ \A i \in 1 .. Len(requests'[t]) :
                           requests'[t][i].id < sectionCount
                      /\ \A i \in 1 .. Len(unacknowledged'[t]) :
                           unacknowledged'[t][i].ric <= decTable.insertCount
    BY <1>2 DEF SectionsPass
  <1>5. /\ Passing(t, feedback, unacknowledged[t], requests[t], outstanding, t \in cancelled)
        /\ \A i \in 1 .. Len(requests[t]) : requests[t][i].id < sectionCount
        /\ \A i \in 1 .. Len(unacknowledged[t]) :
             unacknowledged[t][i].ric <= decTable.insertCount
    BY DEF Inv, SectionsPass
  <1>6. /\ requests[t] \in Seq(WireSections) /\ unacknowledged[t] \in Seq(Decoded)
        /\ feedback \in Seq(FeedbackMessage)
    BY QueueTypes DEF Inv
  <1>7. CASE t # s
    <2>1. requests'[t] = requests[t] /\ unacknowledged'[t] = unacknowledged[t]
      BY <1>1, <1>4, <1>7
    <2> QED
      BY <1>5, <2>1
  <1>8. CASE t = s
    <2> DEFINE u == [id |-> w.id, ric |-> ric]
               V == IF HasReferences(w) THEN Append(unacknowledged[t], u)
                    ELSE unacknowledged[t]
    <2>1. requests'[t] = Tail(requests[t]) /\ unacknowledged'[t] = V
      BY <1>1, <1>4, <1>8
    <2>2. w = Head(requests[t]) /\ requests[t] # << >>
      BY <1>1, <1>8 DEF w
    <2>3. Passing(t, feedback, V, Tail(requests[t]), outstanding, t \in cancelled)
      BY <1>3, <1>5, <1>6, <2>2, SectionTaken
    <2>4. \A i \in 1 .. Len(Tail(requests[t])) : Tail(requests[t])[i].id < sectionCount
      BY <1>5, <1>6, <2>2, Popped
    <2>5. \A i \in 1 .. Len(V) : V[i].ric <= decTable.insertCount
      <3>1. u \in Decoded /\ u.ric = ric
        BY <1>3 DEF Decoded
      <3> HIDE DEF u
      <3> QED
        BY <1>1, <1>5, <1>6, <3>1, Appended
    <2> QED
      BY <2>1, <2>3, <2>4, <2>5
  <1> QED
    BY <1>7, <1>8

\* Acknowledging a section.
LEMMA AcknowledgingPasses ==
  ASSUME Inv, NEW s \in Streams, AcknowledgeSection(s)
  PROVE  SectionsPass'
  <1> DEFINE a == [type |-> "ack", stream |-> s, id |-> Head(unacknowledged[s]).id]
  <1>1. /\ unacknowledged[s] # << >>
        /\ feedback' = Append(feedback, a)
        /\ unacknowledged' = [unacknowledged EXCEPT ![s] = Tail(@)]
        /\ requests' = requests /\ outstanding' = outstanding
        /\ cancelled' = cancelled /\ decTable' = decTable
        /\ sectionCount' = sectionCount
    BY DEF AcknowledgeSection, encoderVars
  <1>2. unacknowledged \in [Streams -> Seq(Decoded)]
    BY DEF Inv, TypeOK
  <1> SUFFICES ASSUME NEW t \in Streams
               PROVE  /\ Passing(t, Append(feedback, a), unacknowledged'[t], requests[t],
                                 outstanding, t \in cancelled)
                      /\ \A i \in 1 .. Len(requests[t]) :
                           requests[t][i].id < sectionCount
                      /\ \A i \in 1 .. Len(unacknowledged'[t]) :
                           unacknowledged'[t][i].ric <= decTable.insertCount
    BY <1>1 DEF SectionsPass
  <1>3. /\ Passing(t, feedback, unacknowledged[t], requests[t], outstanding, t \in cancelled)
        /\ \A i \in 1 .. Len(requests[t]) : requests[t][i].id < sectionCount
        /\ \A i \in 1 .. Len(unacknowledged[t]) :
             unacknowledged[t][i].ric <= decTable.insertCount
    BY DEF Inv, SectionsPass
  <1>4. /\ requests[t] \in Seq(WireSections) /\ unacknowledged[t] \in Seq(Decoded)
        /\ feedback \in Seq(FeedbackMessage)
    BY QueueTypes DEF Inv
  <1>5. CASE t = s
    <2>1. Passing(t, Append(feedback, a), Tail(unacknowledged[t]), requests[t], outstanding,
                  t \in cancelled)
      BY <1>1, <1>3, <1>4, <1>5, AcknowledgmentSent
    <2>2. unacknowledged'[t] = Tail(unacknowledged[t]) /\ unacknowledged[t] # << >>
      BY <1>1, <1>2, <1>5
    <2>3. \A i \in 1 .. Len(Tail(unacknowledged[t])) :
            Tail(unacknowledged[t])[i].ric <= decTable.insertCount
      BY <1>3, <1>4, <2>2, Popped
    <2> QED
      BY <1>3, <2>1, <2>2, <2>3
  <1>6. CASE t # s
    <2>1. a \in FeedbackMessage /\ ~ AckOf(a, t) /\ ~ CancelOf(a, t)
      <3>1. Head(unacknowledged[s]) \in Decoded
        BY <1>1, <1>2, Popped
      <3> QED
        BY <1>6, <3>1 DEF FeedbackMessage, Decoded, AckOf, CancelOf
    <2>2. unacknowledged'[t] = unacknowledged[t]
      BY <1>1, <1>2, <1>6
    <2> HIDE DEF a
    <2> QED
      BY <1>3, <1>4, <2>1, <2>2, OtherFeedbackSent
  <1> QED
    BY <1>5, <1>6

\* Abandoning a stream.
LEMMA CancellingPasses ==
  ASSUME Inv, NEW s \in Streams, CancelStream(s)
  PROVE  SectionsPass'
  <1> DEFINE c == [type |-> "cancel", stream |-> s]
  <1>1. /\ feedback' = Append(feedback, c)
        /\ unacknowledged' = [unacknowledged EXCEPT ![s] = << >>]
        /\ requests' = [requests EXCEPT ![s] = << >>]
        /\ cancelled' = cancelled \union {s}
        /\ outstanding' = outstanding /\ decTable' = decTable
        /\ sectionCount' = sectionCount
    BY DEF CancelStream, encoderVars
  <1>2. /\ unacknowledged \in [Streams -> Seq(Decoded)]
        /\ requests \in [Streams -> Seq(WireSections)]
    BY DEF Inv, TypeOK
  <1> SUFFICES ASSUME NEW t \in Streams
               PROVE  /\ Passing(t, Append(feedback, c), unacknowledged'[t], requests'[t],
                                 outstanding, t \in cancelled \union {s})
                      /\ \A i \in 1 .. Len(requests'[t]) :
                           requests'[t][i].id < sectionCount
                      /\ \A i \in 1 .. Len(unacknowledged'[t]) :
                           unacknowledged'[t][i].ric <= decTable.insertCount
    BY <1>1 DEF SectionsPass
  <1>3. /\ Passing(t, feedback, unacknowledged[t], requests[t], outstanding, t \in cancelled)
        /\ \A i \in 1 .. Len(requests[t]) : requests[t][i].id < sectionCount
        /\ \A i \in 1 .. Len(unacknowledged[t]) :
             unacknowledged[t][i].ric <= decTable.insertCount
    BY DEF Inv, SectionsPass
  <1>4. /\ requests[t] \in Seq(WireSections) /\ unacknowledged[t] \in Seq(Decoded)
        /\ feedback \in Seq(FeedbackMessage) /\ DOMAIN outstanding \subseteq Nat
    BY QueueTypes DEF Inv
  <1>5. CASE t = s
    <2>1. Passing(t, Append(feedback, c), << >>, << >>, outstanding, TRUE)
      BY <1>3, <1>4, <1>5, CancellationSent
    <2>2. requests'[t] = << >> /\ unacknowledged'[t] = << >>
      BY <1>1, <1>2, <1>5
    <2>3. (t \in cancelled \union {s}) = TRUE
      BY <1>5
    <2>4. 1 .. Len(<< >>) = {}
      OBVIOUS
    <2> HIDE DEF c
    <2> QED
      BY <2>1, <2>2, <2>3, <2>4
  <1>6. CASE t # s
    <2>1. c \in FeedbackMessage /\ ~ AckOf(c, t) /\ ~ CancelOf(c, t)
      BY <1>6 DEF FeedbackMessage, AckOf, CancelOf
    <2>2. requests'[t] = requests[t] /\ unacknowledged'[t] = unacknowledged[t]
      BY <1>1, <1>2, <1>6
    <2>3. (t \in cancelled \union {s}) = (t \in cancelled)
      BY <1>6
    <2> HIDE DEF c
    <2>4. Passing(t, Append(feedback, c), unacknowledged[t], requests[t], outstanding,
                  t \in cancelled)
      BY <1>3, <1>4, <2>1, OtherFeedbackSent
    <2> QED
      BY <1>3, <2>2, <2>3, <2>4
  <1> QED
    BY <1>5, <1>6

\* Reading feedback.
LEMMA ReadingPasses ==
  ASSUME Inv, ReceiveFeedback
  PROVE  SectionsPass'
  <1> DEFINE m == Head(feedback)
  <1>1. /\ feedback # << >> /\ feedback' = Tail(feedback)
        /\ unacknowledged' = unacknowledged /\ requests' = requests
        /\ cancelled' = cancelled /\ decTable' = decTable
        /\ sectionCount' = sectionCount
    BY DEF ReceiveFeedback, decoderVars
  <1>2. \/ /\ m.type = "ack" /\ m.stream \in Streams
           /\ outstanding' = Without(outstanding, {m.id})
           /\ m.id \in OfStream(outstanding, m.stream)
        \/ /\ m.type = "cancel" /\ m.stream \in Streams
           /\ outstanding' = Without(outstanding, OfStream(outstanding, m.stream))
        \/ /\ m.type = "increment"
           /\ outstanding' = outstanding
    BY FeedbackIsAccepted
  <1> SUFFICES ASSUME NEW t \in Streams
               PROVE  Passing(t, Tail(feedback), unacknowledged[t], requests[t], outstanding',
                              t \in cancelled)
    BY <1>1 DEF SectionsPass, Inv
  <1>3. Passing(t, feedback, unacknowledged[t], requests[t], outstanding, t \in cancelled)
    BY DEF Inv, SectionsPass
  <1>4. /\ requests[t] \in Seq(WireSections) /\ unacknowledged[t] \in Seq(Decoded)
        /\ feedback \in Seq(FeedbackMessage)
    BY QueueTypes DEF Inv
  <1>5. CASE AckOf(m, t)
    BY <1>1, <1>2, <1>3, <1>4, <1>5, AcknowledgmentRead DEF AckOf
  <1>6. CASE CancelOf(m, t)
    BY <1>1, <1>2, <1>3, <1>4, <1>6, CancellationRead DEF CancelOf
  <1>7. CASE ~ AckOf(m, t) /\ ~ CancelOf(m, t)
    <2>1. Passing(t, Tail(feedback), unacknowledged[t], requests[t], outstanding,
                  t \in cancelled)
      BY <1>1, <1>3, <1>4, <1>7, OtherFeedbackRead
    <2>2. /\ OfStream(outstanding', t) = OfStream(outstanding, t)
          /\ \A n \in OfStream(outstanding, t) : outstanding'[n] = outstanding[n]
      <3> HIDE DEF m
      <3> QED
        BY <1>2, <1>7 DEF AckOf, CancelOf, OfStream, Without
    <2> QED
      BY <2>1, <2>2, OtherRecords
  <1> QED
    BY <1>5, <1>6, <1>7

\* Any step.
LEMMA NextSectionsPass == Inv /\ [Next]_vars => SectionsPass'
  <1> SUFFICES ASSUME Inv, [Next]_vars PROVE SectionsPass'
    OBVIOUS
  <1>1. CASE UNCHANGED <<feedback, unacknowledged, requests, outstanding, cancelled,
                         decTable, sectionCount>>
    BY <1>1 DEF Inv, SectionsPass
  <1>2. CASE TableChanges \/ UNCHANGED vars
    BY <1>1, <1>2 DEF TableChanges, vars, encoderVars, decoderVars, wireVars
  <1>3. CASE ReceiveInstruction
    <2>1. /\ UNCHANGED <<feedback, unacknowledged, requests, outstanding, cancelled,
                         sectionCount>>
          /\ decTable.insertCount \in Nat /\ decTable'.insertCount \in Nat
          /\ decTable.insertCount <= decTable'.insertCount
      BY <1>3, InstructionIsAccepted, BoundsType
        DEF ReceiveInstruction, encoderVars, Inv, TypeOK
    <2> SUFFICES ASSUME NEW t \in Streams, NEW i \in 1 .. Len(unacknowledged[t])
                 PROVE  unacknowledged[t][i].ric <= decTable'.insertCount
      BY <2>1 DEF Inv, SectionsPass
    <2>2. unacknowledged[t][i].ric \in Nat
      BY QueueTypes DEF Inv, Decoded
    <2>3. unacknowledged[t][i].ric <= decTable.insertCount
      BY DEF Inv, SectionsPass
    <2> QED
      BY <2>1, <2>2, <2>3
  <1>4. CASE EmitIncrement
    <2> DEFINE m == [type |-> "increment", increment |-> Increment]
    <2>1. /\ UNCHANGED <<unacknowledged, requests, outstanding, cancelled, decTable,
                         sectionCount>>
          /\ feedback' = Append(feedback, m)
      BY <1>4 DEF EmitIncrement, encoderVars
    <2>2. m \in FeedbackMessage
      <3>1. decTable.insertCount \in Nat /\ decKrc \in Nat /\ decTable.insertCount > decKrc
        BY <1>4, BoundsType DEF Inv, TypeOK, EmitIncrement
      <3>2. Increment \in Nat \ {0}
        BY <3>1, ConnectionAssumption DEF Increment
      <3> QED
        BY <3>2 DEF FeedbackMessage
    <2>3. \A t \in Streams : ~ AckOf(m, t) /\ ~ CancelOf(m, t)
      BY DEF AckOf, CancelOf
    <2> HIDE DEF m
    <2>4. feedback \in Seq(FeedbackMessage)
      BY DEF Inv, TypeOK
    <2>5. ASSUME NEW t \in Streams
          PROVE  Passing(t, Append(feedback, m), unacknowledged[t], requests[t], outstanding,
                         t \in cancelled)
      BY <2>2, <2>3, <2>4, OtherFeedbackSent DEF Inv, SectionsPass
    <2> QED
      BY <2>1, <2>5 DEF Inv, SectionsPass
  <1>5. ASSUME NEW s \in Streams, BlockSection(s) PROVE SectionsPass'
    BY <1>1, <1>5 DEF BlockSection, encoderVars, wireVars
  <1>6. CASE ReceiveFeedback
    BY <1>6, ReadingPasses
  <1> QED
    BY <1>2, <1>3, <1>4, <1>5, <1>6, StepCases, EncodingPasses, DecodingPasses,
       AcknowledgingPasses, CancellingPasses

-----------------------------------------------------------------------------
(* The sections on their way keep saying what their senders meant. *)

\* A stream at most loses its head when a section is read.
LEMMA OthersAreKept ==
  ASSUME NEW S, NEW q \in [Streams -> Seq(S)], NEW s \in Streams, q[s] # << >>,
         NEW t \in Streams, NEW i \in 1 .. Len([q EXCEPT ![s] = Tail(@)][t])
  PROVE  \E j \in 1 .. Len(q[t]) : [q EXCEPT ![s] = Tail(@)][t][i] = q[t][j]
  <1>1. CASE t # s
    BY <1>1
  <1>2. CASE t = s
    <2>1. /\ Len(q[s]) \in Nat /\ Len(Tail(q[s])) = Len(q[s]) - 1
          /\ \A k \in 1 .. (Len(q[s]) - 1) : Tail(q[s])[k] = q[s][k + 1]
      BY Popped
    <2>2. [q EXCEPT ![s] = Tail(@)][t] = Tail(q[s])
      BY <1>2
    <2>3. i \in 1 .. (Len(q[s]) - 1)
      BY <2>1, <2>2
    <2>4. i + 1 \in 1 .. Len(q[s]) /\ Tail(q[s])[i] = q[s][i + 1]
      BY <2>1, <2>3
    <2> QED
      BY <1>2, <2>2, <2>4
  <1> QED
    BY <1>1, <1>2

\* A section on its way that has references keeps its record: the encoder
\* only releases what has been decoded or abandoned.
LEMMA RecordsAreKept ==
  ASSUME Inv, ReceiveFeedback
  PROVE  /\ \A n \in DOMAIN outstanding' :
              n \in DOMAIN outstanding /\ outstanding'[n] = outstanding[n]
         /\ \A s \in Streams : \A i \in 1 .. Len(requests[s]) :
              HasReferences(requests[s][i]) =>
                outstanding'[requests[s][i].id] = outstanding[requests[s][i].id]
  <1>1. \A n \in DOMAIN outstanding' :
          n \in DOMAIN outstanding /\ outstanding'[n] = outstanding[n]
    <2>1. \/ outstanding' = Without(outstanding, {Head(feedback).id})
          \/ outstanding' = Without(outstanding,
                                    OfStream(outstanding, Head(feedback).stream))
          \/ outstanding' = outstanding
      BY FeedbackIsAccepted
    <2> QED
      BY <2>1 DEF Without
  <1>2. requests' = requests
    BY DEF ReceiveFeedback
  <1>3. \A s \in Streams : \A i \in 1 .. Len(requests[s]) :
          HasReferences(requests[s][i]) =>
            requests[s][i].id \in OfStream(outstanding', s)
    BY <1>2, ReadingPasses DEF SectionsPass, Passing, Recorded
  <1> QED
    BY <1>1, <1>3 DEF OfStream

\* What a section says does not depend on other sections' records.
LEMMA StillSays ==
  ASSUME NEW w \in WireSections, NEW sections, NEW t, Says(w, sections, t),
         NEW others, HasReferences(w) => others[w.id] = sections[w.id]
  PROVE  Says(w, others, t)
  <1>1. SentRic(w, others) = SentRic(w, sections)
    BY DEF SentRic
  <1>2. SentBase(w, others) = SentBase(w, sections)
    BY <1>1 DEF SentBase
  <1>3. \A k \in 1 .. Len(w.lines) : IsDynamic(w.lines[k]) => HasReferences(w)
    <2>1. w.lines \in Seq(WireLines)
      BY DEF WireSections
    <2> QED
      BY <2>1 DEF HasReferences
  <1> QED
    BY <1>1, <1>2, <1>3 DEF Says

\* Nor does it depend on entries it does not refer to.
LEMMA StillMeans ==
  ASSUME NEW w \in WireSections, NEW sections, NEW t, Says(w, sections, t),
         NEW u, Precedes(t, u),
         sections[w.id].refs \subseteq Active(t) \/ ~ HasReferences(w),
         sections[w.id].refs \subseteq Active(u) \/ ~ HasReferences(w)
  PROVE  Says(w, sections, u)
  <1> DEFINE base == SentBase(w, sections)
  <1>1. w.lines \in Seq(WireLines)
    BY DEF WireSections
  <1>2. /\ w.ric = EncodedRic(SentRic(w, sections))
        /\ base \in Nat /\ Len(w.fields) = Len(w.lines)
    BY DEF Says
  <1>3. ASSUME NEW k \in 1 .. Len(w.lines)
        PROVE  LET a == SentIndex(w.lines[k], base)
               IN  /\ IsDynamic(w.lines[k]) => a \in sections[w.id].refs
                   /\ w.fields[k] = Meaning(u, w.lines[k], a)
    <2> DEFINE a == SentIndex(w.lines[k], base)
    <2>1. /\ IsDynamic(w.lines[k]) => a \in sections[w.id].refs
          /\ w.fields[k] = Meaning(t, w.lines[k], a)
      BY DEF Says
    <2> HIDE DEF a
    <2>2. CASE IsDynamic(w.lines[k])
      <3>1. HasReferences(w)
        BY <1>1, <2>2 DEF HasReferences
      <3>2. EntryAt(t, a) = EntryAt(u, a)
        BY <2>1, <2>2, <3>1 DEF Precedes
      <3> QED
        BY <2>1, <2>2, <3>2 DEF Meaning, IsDynamic, a
    <2>3. CASE ~ IsDynamic(w.lines[k])
      <3>1. w.lines[k] \in WireLines
        BY <1>1
      <3>2. w.lines[k].kind = "literal"
        BY <2>3, <3>1 DEF WireLines, IsDynamic
      <3> QED
        BY <2>1, <2>3, <3>2 DEF Meaning, a
    <2> QED
      BY <2>2, <2>3
  <1> QED
    BY <1>2, <1>3 DEF Says

\* Any step.
LEMMA NextSectionsSay == Inv /\ [Next]_vars => SectionsSay'
  <1> SUFFICES ASSUME Inv, [Next]_vars PROVE SectionsSay'
    OBVIOUS
  <1>1. requests \in [Streams -> Seq(WireSections)]
    BY DEF Inv, TypeOK
  <1>2. CASE UNCHANGED <<requests, outstanding, encTable>>
    BY <1>2 DEF Inv, SectionsSay
  <1>3. CASE TableChanges
    <2>1. requests' = requests /\ outstanding' = outstanding /\ Precedes(encTable, encTable')
      BY <1>3 DEF TableChanges
    <2> SUFFICES ASSUME NEW s \in Streams, NEW i \in 1 .. Len(requests[s])
                 PROVE  Says(requests[s][i], outstanding, encTable')
      BY <2>1 DEF SectionsSay
    <2>2. ReferencesStayActive'
      BY NextReferences DEF Inv
    <2>3. \A n \in DOMAIN outstanding :
            outstanding[n].refs \subseteq Active(encTable)
              /\ outstanding[n].refs \subseteq Active(encTable')
      BY <2>1, <2>2 DEF Inv, ReferencesStayActive
    <2>4. /\ requests[s][i] \in WireSections
          /\ HasReferences(requests[s][i]) => requests[s][i].id \in DOMAIN outstanding
      BY SentParts
    <2>5. Says(requests[s][i], outstanding, encTable)
      BY DEF Inv, SectionsSay
    <2> QED
      BY <2>1, <2>3, <2>4, <2>5, StillMeans
  <1>4. CASE ReceiveFeedback
    <2>1. requests' = requests /\ encTable' = encTable
      BY <1>4 DEF ReceiveFeedback
    <2> SUFFICES ASSUME NEW s \in Streams, NEW i \in 1 .. Len(requests[s])
                 PROVE  Says(requests[s][i], outstanding', encTable)
      BY <2>1 DEF SectionsSay
    <2>2. /\ requests[s][i] \in WireSections
          /\ HasReferences(requests[s][i]) =>
               outstanding'[requests[s][i].id] = outstanding[requests[s][i].id]
      BY <1>4, RecordsAreKept, QueueTypes DEF Inv
    <2>3. Says(requests[s][i], outstanding, encTable)
      BY DEF Inv, SectionsSay
    <2> QED
      BY <2>2, <2>3, StillSays
  <1>5. ASSUME NEW s \in Streams, EncodeSection(s) PROVE SectionsSay'
    <2>1. PICK w \in WireSections : \E record :
            /\ w.id = sectionCount
            /\ outstanding' = IF HasReferences(w)
                              THEN Registered(outstanding, sectionCount, record)
                              ELSE outstanding
            /\ requests' = IF s \in cancelled THEN requests
                           ELSE [requests EXCEPT ![s] = Append(@, w)]
            /\ Says(w, outstanding', encTable)
      BY <1>5, SectionIsSent
    <2>2. encTable' = encTable
      BY <1>5 DEF EncodeSection
    <2>3. \A n \in DOMAIN outstanding : outstanding'[n] = outstanding[n]
      <3>1. sectionCount \notin DOMAIN outstanding
        BY DEF Inv, TypeOK, SectionId
      <3> QED
        BY <2>1, <3>1 DEF Registered
    <2> SUFFICES ASSUME NEW t \in Streams, NEW i \in 1 .. Len(requests'[t])
                 PROVE  Says(requests'[t][i], outstanding', encTable)
      BY <2>2 DEF SectionsSay
    <2>4. ASSUME NEW j \in 1 .. Len(requests[t])
          PROVE  Says(requests[t][j], outstanding', encTable)
      <3>1. /\ requests[t][j] \in WireSections
            /\ HasReferences(requests[t][j]) => requests[t][j].id \in DOMAIN outstanding
        BY SentParts
      <3>2. Says(requests[t][j], outstanding, encTable)
        BY DEF Inv, SectionsSay
      <3> QED
        BY <2>3, <3>1, <3>2, StillSays
    <2>5. CASE t = s /\ s \notin cancelled
      <3>1. requests'[t] = Append(requests[t], w)
        BY <1>1, <2>1, <2>5
      <3>2. \/ i \in 1 .. Len(requests[t]) /\ requests'[t][i] = requests[t][i]
            \/ requests'[t][i] = w
        BY <1>1, <3>1, Appended
      <3> QED
        BY <2>1, <2>4, <3>2
    <2>6. CASE ~ (t = s /\ s \notin cancelled)
      <3>1. requests'[t] = requests[t]
        BY <1>1, <2>1, <2>6
      <3> QED
        BY <2>4, <3>1
    <2> QED
      BY <2>5, <2>6
  <1>6. ASSUME NEW s \in Streams, DecodeSection(s) PROVE SectionsSay'
    <2>1. requests[s] # << >> /\ requests' = [requests EXCEPT ![s] = Tail(@)]
      BY <1>6, SectionIsDelivered
    <2>2. encTable' = encTable /\ outstanding' = outstanding
      BY <1>6 DEF DecodeSection, encoderVars
    <2> SUFFICES ASSUME NEW t \in Streams, NEW i \in 1 .. Len(requests'[t])
                 PROVE  Says(requests'[t][i], outstanding, encTable)
      BY <2>2 DEF SectionsSay
    <2>3. PICK j \in 1 .. Len(requests[t]) : requests'[t][i] = requests[t][j]
      BY <1>1, <2>1, OthersAreKept
    <2> QED
      BY <2>3 DEF Inv, SectionsSay
  <1>7. ASSUME NEW s \in Streams, CancelStream(s) PROVE SectionsSay'
    <2>1. /\ requests' = [requests EXCEPT ![s] = << >>]
          /\ encTable' = encTable /\ outstanding' = outstanding
      BY <1>7 DEF CancelStream, encoderVars
    <2> SUFFICES ASSUME NEW t \in Streams, NEW i \in 1 .. Len(requests'[t])
                 PROVE  Says(requests'[t][i], outstanding, encTable)
      BY <2>1 DEF SectionsSay
    <2>2. t # s
      <3>1. 1 .. Len(<< >>) = {}
        OBVIOUS
      <3> QED
        BY <1>1, <2>1, <3>1
    <2>3. requests'[t] = requests[t]
      BY <1>1, <2>1, <2>2
    <2> QED
      BY <2>3 DEF Inv, SectionsSay
  <1>8. CASE ReceiveInstruction \/ EmitIncrement \/ UNCHANGED vars
    BY <1>2, <1>8 DEF ReceiveInstruction, EmitIncrement, vars, encoderVars, wireVars
  <1>9. CASE \E s \in Streams : BlockSection(s) \/ AcknowledgeSection(s)
    BY <1>2, <1>9 DEF BlockSection, AcknowledgeSection, encoderVars, wireVars
  <1> QED
    BY <1>3, <1>4, <1>5, <1>6, <1>7, <1>8, <1>9, StepCases

-----------------------------------------------------------------------------
(* Blocked streams, streams at risk and Known Received Counts. *)

\* A blocked stream still has what it waits for on the way.
LEMMA NextBlocked == Inv /\ [Next]_vars => BlockedIsAwaited'
  <1> SUFFICES ASSUME Inv, [Next]_vars PROVE BlockedIsAwaited'
    OBVIOUS
  <1>1. /\ requests \in [Streams -> Seq(WireSections)]
        /\ DOMAIN blocked \subseteq Streams
        /\ \A s \in DOMAIN blocked : blocked[s] \in Nat
    BY DEF Inv, TypeOK
  <1>2. \A s \in DOMAIN blocked :
          blocked[s] <= decTable.insertCount \/ Awaited(requests[s], outstanding, blocked[s])
    BY DEF Inv, BlockedIsAwaited
  <1>3. CASE UNCHANGED <<blocked, decTable, requests, outstanding>>
    BY <1>3 DEF Inv, BlockedIsAwaited
  <1>4. CASE ReceiveInstruction
    <2>1. /\ decTable.insertCount \in Nat /\ decTable'.insertCount \in Nat
          /\ decTable.insertCount <= decTable'.insertCount
          /\ UNCHANGED <<blocked, requests, outstanding>>
      BY <1>4, InstructionIsAccepted, BoundsType
        DEF ReceiveInstruction, encoderVars, Inv, TypeOK
    <2>2. \A s \in DOMAIN blocked : blocked[s] <= decTable.insertCount
                                      => blocked[s] <= decTable'.insertCount
      BY <1>1, <2>1
    <2> QED
      BY <1>2, <2>1, <2>2 DEF BlockedIsAwaited
  <1>5. CASE ReceiveFeedback
    <2>1. UNCHANGED <<blocked, requests, decTable>>
      BY <1>5 DEF ReceiveFeedback, decoderVars
    <2>2. ASSUME NEW s \in DOMAIN blocked, Awaited(requests[s], outstanding, blocked[s])
          PROVE  Awaited(requests[s], outstanding', blocked[s])
      BY <1>1, <1>5, <2>2, RecordsAreKept DEF Awaited
    <2> QED
      BY <1>2, <2>1, <2>2 DEF BlockedIsAwaited
  <1>6. ASSUME NEW s \in Streams, EncodeSection(s) PROVE BlockedIsAwaited'
    <2>1. PICK w \in WireSections : \E record :
            /\ outstanding' = IF HasReferences(w)
                              THEN Registered(outstanding, sectionCount, record)
                              ELSE outstanding
            /\ requests' = IF s \in cancelled THEN requests
                           ELSE [requests EXCEPT ![s] = Append(@, w)]
      BY <1>6, SectionIsSent
    <2>2. blocked' = blocked /\ decTable' = decTable
      BY <1>6 DEF EncodeSection, decoderVars
    <2>3. \A n \in DOMAIN outstanding : outstanding'[n] = outstanding[n]
      <3>1. sectionCount \notin DOMAIN outstanding
        BY DEF Inv, TypeOK, SectionId
      <3> QED
        BY <2>1, <3>1 DEF Registered
    <2>4. ASSUME NEW t \in DOMAIN blocked, Awaited(requests[t], outstanding, blocked[t])
          PROVE  Awaited(requests'[t], outstanding', blocked[t])
      <3>1. PICK i \in 1 .. Len(requests[t]) :
              /\ HasReferences(requests[t][i])
              /\ blocked[t] <= outstanding[requests[t][i].id].ric
        BY <2>4 DEF Awaited
      <3>2. requests[t][i].id \in DOMAIN outstanding
        BY <1>1, <3>1, SentParts
      <3>3. i \in 1 .. Len(requests'[t]) /\ requests'[t][i] = requests[t][i]
        <4>1. CASE requests'[t] = requests[t]
          BY <4>1
        <4>2. CASE requests'[t] = Append(requests[t], w)
          BY <1>1, <4>2, Appended
        <4> QED
          BY <1>1, <2>1, <4>1, <4>2
      <3> QED
        BY <2>3, <3>1, <3>2, <3>3 DEF Awaited
    <2> QED
      BY <1>2, <2>2, <2>4 DEF BlockedIsAwaited
  <1>7. ASSUME NEW s \in Streams, DecodeSection(s) PROVE BlockedIsAwaited'
    <2>1. /\ requests' = [requests EXCEPT ![s] = Tail(@)]
          /\ blocked' = Without(blocked, {s})
      BY <1>7, SectionIsDelivered
    <2>2. decTable' = decTable /\ outstanding' = outstanding
      BY <1>7 DEF DecodeSection, encoderVars
    <2>3. \A t \in DOMAIN blocked' :
            t \in DOMAIN blocked /\ blocked'[t] = blocked[t] /\ requests'[t] = requests[t]
      BY <1>1, <2>1 DEF Without
    <2> QED
      BY <1>2, <2>2, <2>3 DEF BlockedIsAwaited
  <1>8. ASSUME NEW s \in Streams, CancelStream(s) PROVE BlockedIsAwaited'
    <2>1. /\ requests' = [requests EXCEPT ![s] = << >>]
          /\ blocked' = Without(blocked, {s})
          /\ decTable' = decTable /\ outstanding' = outstanding
      BY <1>8 DEF CancelStream, encoderVars
    <2>2. \A t \in DOMAIN blocked' :
            t \in DOMAIN blocked /\ blocked'[t] = blocked[t] /\ requests'[t] = requests[t]
      BY <1>1, <2>1 DEF Without
    <2> QED
      BY <1>2, <2>1, <2>2 DEF BlockedIsAwaited
  <1>9. ASSUME NEW s \in Streams, BlockSection(s) PROVE BlockedIsAwaited'
    <2>1. requests' = requests /\ decTable' = decTable /\ outstanding' = outstanding
      BY <1>9 DEF BlockSection, encoderVars, wireVars
    <2>2. /\ DOMAIN blocked' = DOMAIN blocked \union {s}
          /\ \A t \in DOMAIN blocked : t # s => blocked'[t] = blocked[t]
          /\ \/ s \in DOMAIN blocked /\ blocked'[s] = blocked[s]
             \/ Awaited(requests[s], outstanding, blocked'[s])
      BY <1>9, StreamIsAdmitted
    <2> QED
      BY <1>2, <2>1, <2>2 DEF BlockedIsAwaited
  <1>10. CASE TableChanges \/ EmitIncrement \/ UNCHANGED vars
    BY <1>3, <1>10 DEF TableChanges, EmitIncrement, vars, encoderVars, decoderVars, wireVars
  <1>11. ASSUME NEW s \in Streams, AcknowledgeSection(s) PROVE BlockedIsAwaited'
    BY <1>3, <1>11 DEF AcknowledgeSection, encoderVars
  <1> QED
    BY <1>4, <1>5, <1>6, <1>7, <1>8, <1>9, <1>10, <1>11, StepCases

\* The encoder's check on each section keeps the streams at risk within the limit.
LEMMA NextRisk == Inv /\ [Next]_vars => RiskIsLimited'
  <1> SUFFICES ASSUME Inv, [Next]_vars PROVE RiskIsLimited'
    OBVIOUS
  <1> DEFINE risk == AtRisk(outstanding, encKrc)
  <1>1. /\ IsFiniteSet(risk) /\ Cardinality(risk) <= MaxBlockedStreams
        /\ Cardinality(risk) \in Nat /\ MaxBlockedStreams \in Nat
    BY FS_CardinalityType, MaxBlockedStreamsAssumption DEF Inv, RiskIsLimited
  <1>2. /\ encKrc \in Nat
        /\ \A n \in DOMAIN outstanding : outstanding[n].ric \in Nat
    BY DEF Inv, TypeOK, Section
  <1>3. CASE UNCHANGED <<outstanding, encKrc>>
    BY <1>3 DEF Inv, RiskIsLimited
  <1>4. CASE ReceiveFeedback
    <2>1. /\ encKrc' \in Nat /\ encKrc <= encKrc'
          /\ \A n \in DOMAIN outstanding' :
               n \in DOMAIN outstanding /\ outstanding'[n] = outstanding[n]
      BY <1>4, FeedbackIsAccepted, RecordsAreKept
    <2>2. AtRisk(outstanding', encKrc') \subseteq risk
      BY <1>2, <2>1 DEF AtRisk
    <2> HIDE DEF risk
    <2>3. /\ IsFiniteSet(AtRisk(outstanding', encKrc'))
          /\ Cardinality(AtRisk(outstanding', encKrc')) <= Cardinality(risk)
      BY <1>1, <2>2, FS_Subset
    <2>4. Cardinality(AtRisk(outstanding', encKrc')) \in Nat
      BY <2>3, FS_CardinalityType
    <2> QED
      BY <1>1, <2>3, <2>4 DEF RiskIsLimited
  <1>5. ASSUME NEW s \in Streams, EncodeSection(s) PROVE RiskIsLimited'
    <2>1. PICK w \in WireSections : \E record :
            /\ record.stream = s
            /\ outstanding' = IF HasReferences(w)
                              THEN Registered(outstanding, sectionCount, record)
                              ELSE outstanding
            /\ HasReferences(w) =>
                 record.ric \in Nat /\ MayBlock(outstanding, encKrc, s, record.ric)
      BY <1>5, SectionIsSent
    <2>2. PICK record :
            /\ record.stream = s
            /\ outstanding' = IF HasReferences(w)
                              THEN Registered(outstanding, sectionCount, record)
                              ELSE outstanding
            /\ HasReferences(w) =>
                 record.ric \in Nat /\ MayBlock(outstanding, encKrc, s, record.ric)
      BY <2>1
    <2>3. encKrc' = encKrc
      BY <1>5 DEF EncodeSection
    <2>4. CASE ~ HasReferences(w)
      BY <1>3, <2>2, <2>3, <2>4
    <2>5. CASE HasReferences(w)
      <3> DEFINE after == AtRisk(outstanding', encKrc)
      <3>1. sectionCount \notin DOMAIN outstanding
        BY DEF Inv, TypeOK, SectionId
      <3>2. outstanding' = Registered(outstanding, sectionCount, record)
        BY <2>2, <2>5
      <3>3. after \subseteq risk \union {s}
        BY <2>2, <3>1, <3>2 DEF AtRisk, Registered
      <3>4. record.ric <= encKrc => after \subseteq risk
        <4> SUFFICES ASSUME record.ric <= encKrc, NEW x \in after PROVE x \in risk
          OBVIOUS
        <4>1. PICK n \in DOMAIN outstanding' :
                outstanding'[n].ric > encKrc /\ x = outstanding'[n].stream
          BY DEF AtRisk
        <4>2. n # sectionCount
          BY <1>2, <2>2, <2>5, <3>2, <4>1 DEF Registered
        <4>3. n \in DOMAIN outstanding /\ outstanding'[n] = outstanding[n]
          BY <3>2, <4>2 DEF Registered
        <4> QED
          BY <4>1, <4>3 DEF AtRisk
      <3>5. \/ after \subseteq risk
            \/ Cardinality(risk) < MaxBlockedStreams
        BY <2>2, <2>5, <3>3, <3>4 DEF MayBlock
      <3> HIDE DEF after, risk
      <3>6. CASE after \subseteq risk
        <4>1. IsFiniteSet(after) /\ Cardinality(after) <= Cardinality(risk)
          BY <1>1, <3>6, FS_Subset
        <4>2. Cardinality(after) \in Nat
          BY <4>1, FS_CardinalityType
        <4> QED
          BY <1>1, <2>3, <4>1, <4>2 DEF RiskIsLimited, after
      <3>7. CASE Cardinality(risk) < MaxBlockedStreams
        <4>1. /\ IsFiniteSet(risk \union {s})
              /\ Cardinality(risk \union {s}) <= Cardinality(risk) + 1
          <5>1. Cardinality(risk \union {s})
                  = IF s \in risk THEN Cardinality(risk) ELSE Cardinality(risk) + 1
            BY <1>1, FS_AddElement, Zenon
          <5>2. IsFiniteSet(risk \union {s})
            BY <1>1, FS_AddElement, Zenon
          <5> QED
            BY <1>1, <5>1, <5>2
        <4>2. IsFiniteSet(after) /\ Cardinality(after) <= Cardinality(risk \union {s})
          BY <3>3, <4>1, FS_Subset
        <4>3. Cardinality(after) \in Nat /\ Cardinality(risk \union {s}) \in Nat
          BY <4>1, <4>2, FS_CardinalityType
        <4>4. Cardinality(after) <= MaxBlockedStreams
          BY <1>1, <3>7, <4>1, <4>2, <4>3
        <4> QED
          BY <2>3, <4>2, <4>4 DEF RiskIsLimited, after
      <3> QED
        BY <3>5, <3>6, <3>7
    <2> QED
      BY <2>4, <2>5
  <1>6. CASE TableChanges \/ ReceiveInstruction \/ EmitIncrement \/ UNCHANGED vars
    BY <1>3, <1>6 DEF TableChanges, ReceiveInstruction, EmitIncrement, vars, encoderVars
  <1>7. CASE \E s \in Streams : \/ DecodeSection(s)
                                \/ BlockSection(s)
                                \/ AcknowledgeSection(s)
                                \/ CancelStream(s)
    BY <1>3, <1>7 DEF DecodeSection, BlockSection, AcknowledgeSection, CancelStream,
                      encoderVars
  <1> QED
    BY <1>4, <1>5, <1>6, <1>7, StepCases

\* The Known Received Counts still meet.
LEMMA NextCounts == Inv /\ [Next]_vars => CountsMeet'
  <1> SUFFICES ASSUME Inv, [Next]_vars PROVE CountsMeet'
    OBVIOUS
  <1>1. /\ feedback \in Seq(FeedbackMessage)
        /\ encKrc \in Nat /\ decKrc \in Nat
        /\ decTable.insertCount \in Nat /\ decKrc <= decTable.insertCount
        /\ \E counts : IsCount(counts, feedback, encKrc, decKrc, outstanding)
    BY BoundsType DEF Inv, TypeOK, CountsMeet
  <1>2. CASE UNCHANGED <<feedback, encKrc, decKrc, outstanding, decTable>>
    BY <1>2 DEF Inv, CountsMeet
  <1>3. CASE ReceiveInstruction
    <2>1. /\ decTable'.insertCount \in Nat
          /\ decTable.insertCount <= decTable'.insertCount
          /\ UNCHANGED <<feedback, encKrc, decKrc, outstanding>>
      BY <1>3, InstructionIsAccepted DEF ReceiveInstruction, encoderVars
    <2>2. decKrc <= decTable'.insertCount
      BY <1>1, <2>1
    <2> QED
      BY <1>1, <2>1, <2>2 DEF CountsMeet
  <1>4. CASE EmitIncrement
    <2> DEFINE m == [type |-> "increment", increment |-> Increment]
    <2>1. /\ feedback' = Append(feedback, m) /\ decKrc' = decKrc + Increment
          /\ UNCHANGED <<encKrc, outstanding, decTable>>
          /\ decTable.insertCount > decKrc
      BY <1>4 DEF EmitIncrement, encoderVars
    <2>2. /\ Increment \in Nat \ {0}
          /\ decKrc + Increment <= decTable.insertCount
      <3>1. /\ decKrc \in Nat /\ decTable.insertCount \in Nat
            /\ decTable.insertCount > decKrc /\ IntegerMax \in Nat \ {0}
        BY <1>1, <2>1, ConnectionAssumption
      <3> QED
        BY <3>1 DEF Increment
    <2>3. m \in FeedbackMessage
      BY <2>2 DEF FeedbackMessage
    <2>4. Counted(m, decKrc, decKrc + Increment, outstanding)
      BY DEF Counted
    <2>5. decKrc + Increment \in Nat /\ decKrc <= decKrc + Increment
      BY <1>1, <2>2
    <2> HIDE DEF m
    <2>6. \E counts : IsCount(counts, Append(feedback, m), encKrc, decKrc + Increment,
                              outstanding)
      BY <1>1, <2>3, <2>4, <2>5, CountGrows
    <2> QED
      BY <2>1, <2>2, <2>6 DEF CountsMeet
  <1>5. ASSUME NEW s \in Streams, AcknowledgeSection(s) PROVE CountsMeet'
    <2> DEFINE u == Head(unacknowledged[s])
               a == [type |-> "ack", stream |-> s, id |-> u.id]
               next == Larger(decKrc, u.ric)
    <2>1. /\ unacknowledged[s] # << >>
          /\ feedback' = Append(feedback, a) /\ decKrc' = next
          /\ UNCHANGED <<encKrc, outstanding, decTable>>
      BY <1>5 DEF AcknowledgeSection, encoderVars
    <2>2. u \in Decoded /\ u = unacknowledged[s][1] /\ 1 \in 1 .. Len(unacknowledged[s])
      BY <2>1, QueueTypes, Popped DEF Inv
    <2>3. /\ outstanding[u.id].ric = u.ric
          /\ u.ric <= decTable.insertCount
      BY <2>2 DEF Inv, SectionsPass, Passing, Recorded
    <2> HIDE DEF u
    <2>4. /\ a \in FeedbackMessage /\ next \in Nat
          /\ decKrc <= next /\ next <= decTable.insertCount
      BY <1>1, <2>2, <2>3 DEF Decoded, FeedbackMessage, Larger
    <2>5. Counted(a, decKrc, next, outstanding)
      BY <2>3 DEF Counted
    <2> HIDE DEF a, next
    <2>6. \E counts : IsCount(counts, Append(feedback, a), encKrc, next, outstanding)
      BY <1>1, <2>4, <2>5, CountGrows
    <2> QED
      BY <2>1, <2>4, <2>6 DEF CountsMeet
  <1>6. ASSUME NEW s \in Streams, CancelStream(s) PROVE CountsMeet'
    <2> DEFINE c == [type |-> "cancel", stream |-> s]
    <2>1. /\ feedback' = Append(feedback, c)
          /\ UNCHANGED <<encKrc, decKrc, outstanding, decTable>>
      BY <1>6 DEF CancelStream, encoderVars
    <2>2. c \in FeedbackMessage /\ Counted(c, decKrc, decKrc, outstanding)
      BY DEF FeedbackMessage, Counted
    <2> HIDE DEF c
    <2>3. \E counts : IsCount(counts, Append(feedback, c), encKrc, decKrc, outstanding)
      BY <1>1, <2>2, CountGrows
    <2> QED
      BY <1>1, <2>1, <2>3 DEF CountsMeet
  <1>7. CASE ReceiveFeedback
    <2> DEFINE rest == Tail(feedback)
    <2>1. /\ feedback # << >> /\ feedback' = rest
          /\ UNCHANGED <<decKrc, decTable>>
      BY <1>7 DEF ReceiveFeedback, decoderVars
    <2>2. \E counts : IsCount(counts, rest, encKrc', decKrc, outstanding)
      BY <1>7, FeedbackIsAccepted
    <2>3. rest \in Seq(FeedbackMessage)
      BY <1>1, <2>1, Popped
    <2>4. ASSUME NEW k \in 1 .. Len(rest), rest[k].type = "ack"
          PROVE  outstanding'[rest[k].id] = outstanding[rest[k].id]
      <3>1. rest[k] \in FeedbackMessage /\ rest[k].stream \in Streams
        BY <2>3, <2>4 DEF FeedbackMessage
      <3>2. AckOf(rest[k], rest[k].stream)
        BY <2>4 DEF AckOf
      <3>3. SectionsPass'
        BY <1>7, ReadingPasses
      <3>4. rest[k].id \in OfStream(outstanding', rest[k].stream)
        BY <2>1, <3>1, <3>2, <3>3 DEF SectionsPass, Passing, Recorded
      <3> QED
        BY <1>7, <3>4, RecordsAreKept DEF OfStream
    <2> HIDE DEF rest
    <2>5. \E counts : IsCount(counts, rest, encKrc', decKrc, outstanding')
      BY <2>2, <2>3, <2>4, CountKeepsSections
    <2> QED
      BY <1>1, <2>1, <2>5 DEF CountsMeet
  <1>8. ASSUME NEW s \in Streams, EncodeSection(s) PROVE CountsMeet'
    <2>1. UNCHANGED <<feedback, encKrc, decKrc, decTable>>
      BY <1>8 DEF EncodeSection, decoderVars
    <2>2. \A n \in DOMAIN outstanding : outstanding'[n] = outstanding[n]
      <3>1. sectionCount \notin DOMAIN outstanding
        BY DEF Inv, TypeOK, SectionId
      <3>2. \/ outstanding' = outstanding
            \/ \E record : outstanding' = Registered(outstanding, sectionCount, record)
        BY <1>8, SectionIsSent
      <3> QED
        BY <3>1, <3>2 DEF Registered
    <2>3. ASSUME NEW k \in 1 .. Len(feedback), feedback[k].type = "ack"
          PROVE  outstanding'[feedback[k].id] = outstanding[feedback[k].id]
      <3>1. feedback[k] \in FeedbackMessage /\ feedback[k].stream \in Streams
        BY <1>1, <2>3 DEF FeedbackMessage
      <3>2. AckOf(feedback[k], feedback[k].stream)
        BY <2>3 DEF AckOf
      <3>3. feedback[k].id \in OfStream(outstanding, feedback[k].stream)
        BY <3>1, <3>2 DEF Inv, SectionsPass, Passing, Recorded
      <3> QED
        BY <2>2, <3>3 DEF OfStream
    <2>4. \E counts : IsCount(counts, feedback, encKrc, decKrc, outstanding')
      BY <1>1, <2>3, CountKeepsSections
    <2> QED
      BY <1>1, <2>1, <2>4 DEF CountsMeet
  <1>9. CASE TableChanges \/ UNCHANGED vars
    BY <1>2, <1>9 DEF TableChanges, vars, encoderVars, decoderVars, wireVars
  <1>10. CASE \E s \in Streams : DecodeSection(s) \/ BlockSection(s)
    BY <1>2, <1>10 DEF DecodeSection, BlockSection, encoderVars, wireVars
  <1> QED
    BY <1>3, <1>4, <1>5, <1>6, <1>7, <1>8, <1>9, <1>10, StepCases

-----------------------------------------------------------------------------
(* The whole invariant. *)

\* Nothing has been sent yet.
LEMMA InitInv == Init => Inv
  <1> SUFFICES ASSUME Init PROVE Inv
    OBVIOUS
  <1>1. Len(<< >>) = 0 /\ 1 .. 0 = {} /\ 0 .. 0 = {0}
    OBVIOUS
  <1>2. /\ IsWellFormed(EmptyTable) /\ EmptyTable.capacity = 0
        /\ EmptyTable.insertCount = 0 /\ Oldest(EmptyTable) = 0
    BY EmptyTableWellFormed DEF EmptyTable, Oldest
  <1>3. /\ encTable = EmptyTable /\ decTable = EmptyTable
        /\ instructions = << >> /\ feedback = << >>
        /\ outstanding = << >> /\ blocked = << >> /\ DOMAIN << >> = {}
        /\ encKrc = 0 /\ decKrc = 0 /\ sectionCount = 0 /\ cancelled = {}
        /\ \A s \in Streams : requests[s] = << >> /\ unacknowledged[s] = << >>
    BY DEF Init
  <1>4. TypeOK /\ ReferencesStayActive /\ NeverFails
    BY InitType, <1>3 DEF Init, ReferencesStayActive, NeverFails
  <1>5. DecoderFollows
    <2> DEFINE tables == [k \in Nat |-> EmptyTable]
    <2>1. \A k \in 0 .. 0 : IsWellFormed(tables[k]) /\ Precedes(tables[k], EmptyTable)
      BY <1>2, PrecedesReflexive
    <2>2. IsReplay(tables, << >>, EmptyTable, EmptyTable)
      BY <1>1, <2>1 DEF IsReplay
    <2> QED
      BY <1>3, <2>2 DEF DecoderFollows
  <1>6. EvictedIsReceived
    BY <1>2, <1>3, MaxCapacityAssumption DEF EvictedIsReceived
  <1>7. CountsMeet
    <2> DEFINE counts == [k \in Nat |-> 0]
    <2>1. IsCount(counts, << >>, 0, 0, << >>)
      BY <1>1 DEF IsCount
    <2> QED
      BY <1>2, <1>3, <2>1 DEF CountsMeet
  <1>8. SectionsPass
    <2> SUFFICES ASSUME NEW s \in Streams
                 PROVE  Passing(s, << >>, << >>, << >>, << >>, s \in cancelled)
      BY <1>1, <1>3 DEF SectionsPass
    <2> QED
      BY <1>1, <1>3 DEF Passing, InOrder, Recorded, Accounted, Ended, OfStream
  <1>9. SectionsSay /\ BlockedIsAwaited
    BY <1>1, <1>3 DEF SectionsSay, BlockedIsAwaited
  <1>10. RiskIsLimited
    <2>1. AtRisk(outstanding, encKrc) = {}
      BY <1>3 DEF AtRisk
    <2> QED
      BY <2>1, FS_EmptySet, MaxBlockedStreamsAssumption DEF RiskIsLimited
  <1> QED
    BY <1>4, <1>5, <1>6, <1>7, <1>8, <1>9, <1>10 DEF Inv

\* Every step keeps every part.
LEMMA NextInv == Inv /\ [Next]_vars => Inv'
  <1> SUFFICES ASSUME Inv, [Next]_vars PROVE Inv'
    OBVIOUS
  <1>1. TypeOK' /\ ReferencesStayActive'
    BY NextType, NextReferences DEF Inv
  <1>2. DecoderFollows' /\ EvictedIsReceived' /\ CountsMeet'
    BY NextFollows, NextEvicted, NextCounts
  <1>3. SectionsPass' /\ SectionsSay'
    BY NextSectionsPass, NextSectionsSay
  <1>4. BlockedIsAwaited' /\ RiskIsLimited' /\ NeverFails'
    BY NextBlocked, NextRisk, NextNeverFails
  <1> QED
    BY <1>1, <1>2, <1>3, <1>4 DEF Inv

\* All that is on its way between the two sides is consistent with the state of
\* both, whatever the order in which the calls of src/qpack are made.
THEOREM InvHolds == Spec => []Inv
  BY InitInv, NextInv, PTL DEF Spec

-----------------------------------------------------------------------------
(* What it is for. *)

\* Two sides that follow the API of src/qpack never get an error from it: no
\* field section refers to an entry that is gone or yet to come
\* (field/section/decode.rs), no instruction fails to apply (apply.rs), no
\* feedback is refused (state/encoder.rs), no stream is refused for blocking
\* (state/blocked.rs).
THEOREM NoCallFails == Spec => []NeverFails
  <1>1. Inv => NeverFails
    BY DEF Inv
  <1> QED
    BY <1>1, InvHolds, PTL

\* The Known Received Count (state/encoder.rs, state/decoder.rs) is never ahead
\* of the decoder's reports, nor these of its insertions, and both sides agree
\* on it once the decoder stream is read, although neither ever sends it.
THEOREM SidesAgree == Spec => []FeedbackBringsAgreement
  BY InvGivesAgreement, InvHolds, PTL

\* A Section Acknowledgment names only a stream, yet apply (state/encoder.rs)
\* releases the section that was decoded and no other.
THEOREM RightSectionsReleased == Spec => []AcknowledgmentsMatch
  BY InvGivesMatch, InvHolds, PTL

\* The Required Insert Count goes modulo 2 * MaxEntries on the wire
\* (field/section/encode.rs); however late it is read, the decoder reconstructs
\* the count the encoder registered (field/section/decode.rs).
THEOREM CountsRecovered == Spec => []WrappedCountsRecovered
  BY InvGivesRecovery, InvHolds, PTL

\* The two dynamic tables (table/dynamic.rs) hold the same field at every
\* absolute index both have, and the decoder drops no entry first.
THEOREM TablesNeverDisagree == Spec => []TablesAgree
  BY InvGivesTables, InvHolds, PTL

\* reserve_registration (state/encoder.rs) limits the streams the decoder may
\* have to block: each it does block on is counted, and there are never more
\* than it allows.
THEOREM BlockingForeseen == Spec => []BlockingIsForeseen
  BY InvGivesForesight, InvHolds, PTL

-----------------------------------------------------------------------------
(* Evictions. *)

\* What the decoder will refer to is on the encoder's record.
LEMMA ReferencesReadAreRecorded ==
  ASSUME Inv, NEW s \in Streams, NEW i \in 1 .. Len(requests[s])
  PROVE  ReferencesRead(requests[s][i]) \subseteq Referenced(outstanding)
  <1> DEFINE w == requests[s][i]
             base == SentBase(w, outstanding)
  <1>1. w \in WireSections
    BY SentParts
  <1>2. w.lines \in Seq(WireLines)
    BY <1>1 DEF WireSections
  <1>3. ReadBase(w, decTable.insertCount) = base
    BY SectionIsRead
  <1>4. /\ HasReferences(w) => w.id \in DOMAIN outstanding
        /\ \A k \in 1 .. Len(w.lines) : IsDynamic(w.lines[k]) =>
             SentIndex(w.lines[k], base) \in outstanding[w.id].refs
    BY SentParts
  <1> HIDE DEF w, base
  <1>5. ASSUME NEW k \in DOMAIN w.lines, IsDynamic(w.lines[k])
        PROVE  ResolvedIndex(w.lines[k].at, base) \in Referenced(outstanding)
    <2>1. k \in 1 .. Len(w.lines)
      BY <1>2
    <2>2. HasReferences(w)
      BY <1>5 DEF HasReferences
    <2> QED
      BY <1>4, <1>5, <2>1, <2>2 DEF Referenced, SentIndex
  <1>6. ReferencesRead(w) \subseteq Referenced(outstanding)
    BY <1>3, <1>5 DEF ReferencesRead
  <1> QED
    BY <1>6 DEF w

\* What leaves the encoder's table in a step.
LEMMA NextEvicts ==
  ASSUME Inv, [Next]_vars
  PROVE  \A a \in Active(encTable) \ Active(encTable') :
           /\ a < decTable.insertCount
           /\ \A s \in Streams : \A i \in DOMAIN requests[s] :
                a \notin ReferencesRead(requests[s][i])
  <1>1. CASE TableChanges
    <2> SUFFICES ASSUME NEW a \in Active(encTable) \ Active(encTable')
                 PROVE  /\ a < decTable.insertCount
                        /\ \A s \in Streams : \A i \in DOMAIN requests[s] :
                             a \notin ReferencesRead(requests[s][i])
      OBVIOUS
    <2>1. encKrc > a /\ a \notin Referenced(outstanding)
      BY <1>1 DEF TableChanges, IsEvictable
    <2>2. a \in Int
      BY BoundsType DEF Inv, TypeOK
    <2>3. a < decTable.insertCount
      BY <2>1, <2>2, CountsInOrder, BoundsType DEF Inv, TypeOK
    <2>4. ASSUME NEW s \in Streams, NEW i \in DOMAIN requests[s]
          PROVE  a \notin ReferencesRead(requests[s][i])
      <3>1. i \in 1 .. Len(requests[s])
        BY QueueTypes DEF Inv
      <3> QED
        BY <2>1, <3>1, ReferencesReadAreRecorded
    <2> QED
      BY <2>3, <2>4
  <1>2. CASE UNCHANGED encTable
    BY <1>2
  <1>3. CASE ReceiveFeedback \/ ReceiveInstruction \/ EmitIncrement \/ UNCHANGED vars
    BY <1>2, <1>3 DEF ReceiveFeedback, ReceiveInstruction, EmitIncrement, vars, encoderVars
  <1>4. CASE \E s \in Streams : \/ EncodeSection(s)
                                \/ DecodeSection(s)
                                \/ BlockSection(s)
                                \/ AcknowledgeSection(s)
                                \/ CancelStream(s)
    BY <1>2, <1>4 DEF EncodeSection, DecodeSection, BlockSection, AcknowledgeSection,
                      CancelStream, encoderVars
  <1> QED
    BY <1>1, <1>3, <1>4, StepCases

\* insert and set_capacity evict under the policy of is_evictable
\* (state/encoder.rs): an entry leaves the encoder's table only when the decoder
\* has it and no section still to be decoded refers to it.
THEOREM NothingNeededIsEvicted == Spec => EvictionsAreSafe
  <1>1. Inv /\ [Next]_vars =>
          [\A a \in Active(encTable) \ Active(encTable)' :
             /\ a < decTable.insertCount
             /\ \A s \in Streams : \A i \in DOMAIN requests[s] :
                  a \notin ReferencesRead(requests[s][i])]_vars
    BY NextEvicts
  <1> QED
    BY <1>1, InvHolds, PTL DEF Spec, EvictionsAreSafe

-----------------------------------------------------------------------------
(* The connection implements the channel. *)

\* What the sections of a stream say.
FieldsOf(q) == [i \in DOMAIN q |-> q[i].fields]

\* It is a sequence, as long as the stream's.
LEMMA FieldsType ==
  ASSUME NEW q \in Seq(WireSections)
  PROVE  /\ FieldsOf(q) \in Seq(Seq(Field)) /\ Len(FieldsOf(q)) = Len(q)
         /\ \A i \in 1 .. Len(q) : FieldsOf(q)[i] = q[i].fields
  <1>1. Len(q) \in Nat /\ DOMAIN q = 1 .. Len(q) /\ \A i \in 1 .. Len(q) : q[i] \in WireSections
    OBVIOUS
  <1>2. \A i \in 1 .. Len(q) : q[i].fields \in Seq(Field)
    BY <1>1 DEF WireSections
  <1> QED
    BY <1>1, <1>2 DEF FieldsOf

\* Sending.
LEMMA FieldsAppended ==
  ASSUME NEW q \in Seq(WireSections), NEW w \in WireSections
  PROVE  FieldsOf(Append(q, w)) = Append(FieldsOf(q), w.fields)
  <1> DEFINE p == Append(q, w)
             f == Append(FieldsOf(q), w.fields)
  <1>1. /\ p \in Seq(WireSections) /\ Len(q) \in Nat /\ Len(p) = Len(q) + 1
        /\ p[Len(q) + 1] = w /\ \A i \in 1 .. Len(q) : p[i] = q[i]
    BY Appended
  <1>2. w.fields \in Seq(Field)
    BY DEF WireSections
  <1>3. /\ f \in Seq(Seq(Field)) /\ Len(f) = Len(q) + 1 /\ f[Len(q) + 1] = w.fields
        /\ \A i \in 1 .. Len(q) : f[i] = q[i].fields
    <2>1. /\ FieldsOf(q) \in Seq(Seq(Field)) /\ Len(FieldsOf(q)) = Len(q)
          /\ \A i \in 1 .. Len(q) : FieldsOf(q)[i] = q[i].fields
      BY FieldsType
    <2> QED
      BY <1>2, <2>1, Appended
  <1> HIDE DEF p, f
  <1>4. /\ FieldsOf(p) \in Seq(Seq(Field)) /\ Len(FieldsOf(p)) = Len(q) + 1
        /\ \A i \in 1 .. (Len(q) + 1) : FieldsOf(p)[i] = p[i].fields
    BY <1>1, FieldsType
  <1>5. \A i \in 1 .. (Len(q) + 1) : FieldsOf(p)[i] = f[i]
    <2> SUFFICES ASSUME NEW i \in 1 .. (Len(q) + 1) PROVE FieldsOf(p)[i] = f[i]
      OBVIOUS
    <2>1. i \in 1 .. Len(q) \/ i = Len(q) + 1
      BY <1>1
    <2> QED
      BY <1>1, <1>3, <1>4, <2>1
  <1>6. FieldsOf(p) = f
    BY <1>3, <1>4, <1>5, SeqEqual
  <1> QED
    BY <1>6 DEF p, f

\* Delivering.
LEMMA FieldsTaken ==
  ASSUME NEW q \in Seq(WireSections), q # << >>
  PROVE  /\ FieldsOf(q) # << >> /\ Head(FieldsOf(q)) = Head(q).fields
         /\ FieldsOf(Tail(q)) = Tail(FieldsOf(q))
  <1> DEFINE F == FieldsOf(q)
             p == Tail(q)
             f == Tail(F)
  <1>1. /\ p \in Seq(WireSections) /\ Len(q) \in Nat /\ Len(q) >= 1 /\ Len(p) = Len(q) - 1
        /\ Head(q) = q[1] /\ \A i \in 1 .. (Len(q) - 1) : p[i] = q[i + 1]
    BY Popped
  <1>2. /\ F \in Seq(Seq(Field)) /\ Len(F) = Len(q)
        /\ \A i \in 1 .. Len(q) : F[i] = q[i].fields
    BY FieldsType
  <1> HIDE DEF F
  <1>3. F # << >> /\ Head(F) = q[1].fields
    BY <1>1, <1>2
  <1>4. /\ f \in Seq(Seq(Field)) /\ Len(f) = Len(q) - 1
        /\ \A i \in 1 .. (Len(q) - 1) : f[i] = F[i + 1]
    BY <1>2, <1>3, Popped
  <1> HIDE DEF p, f
  <1>5. /\ FieldsOf(p) \in Seq(Seq(Field)) /\ Len(FieldsOf(p)) = Len(q) - 1
        /\ \A i \in 1 .. (Len(q) - 1) : FieldsOf(p)[i] = p[i].fields
    BY <1>1, FieldsType
  <1>6. \A i \in 1 .. (Len(q) - 1) : FieldsOf(p)[i] = f[i]
    <2> SUFFICES ASSUME NEW i \in 1 .. (Len(q) - 1) PROVE FieldsOf(p)[i] = f[i]
      OBVIOUS
    <2>1. i + 1 \in 1 .. Len(q)
      BY <1>1
    <2>2. f[i] = q[i + 1].fields
      BY <1>2, <1>4, <2>1
    <2>3. FieldsOf(p)[i] = q[i + 1].fields
      BY <1>1, <1>5
    <2> QED
      BY <2>2, <2>3
  <1>7. FieldsOf(p) = f
    BY <1>4, <1>5, <1>6, SeqEqual
  <1> QED
    BY <1>1, <1>3, <1>7 DEF p, f, F

\* The channel's pending lists.
Pending(q) == [s \in Streams |-> FieldsOf(q[s])]

\* A change to one stream.
LEMMA PendingChanges ==
  ASSUME NEW q \in [Streams -> Seq(WireSections)], NEW s \in Streams,
         NEW r \in Seq(WireSections)
  PROVE  Pending([q EXCEPT ![s] = r]) = [Pending(q) EXCEPT ![s] = FieldsOf(r)]
  BY DEF Pending

\* The initial state is one of the channel's.
LEMMA InitChannel == Init => Channel!Init
  <1> SUFFICES ASSUME Init PROVE Channel!Init
    OBVIOUS
  <1>1. FieldsOf(<< >>) = << >>
    <2>1. /\ FieldsOf(<< >>) \in Seq(Seq(Field)) /\ Len(FieldsOf(<< >>)) = 0
      BY FieldsType, EmptySeq
    <2> QED
      BY <2>1
  <1>2. \A s \in Streams : FieldsOf(requests[s]) = << >>
    BY <1>1 DEF Init
  <1>3. [s \in Streams |-> FieldsOf(requests[s])] = [s \in Streams |-> << >>]
    BY <1>2
  <1> QED
    BY <1>3 DEF Init, Channel!Init, Channel!Nothing, FieldsOf

\* Sending on an open stream is a Send, a first or repeated decode that succeeds
\* a Deliver, and CancelStream an Abandon; to the channel all else is a stutter.
LEMMA NextChannel == Inv /\ [Next]_vars => [Channel!Next]_(Channel!vars)
  <1> SUFFICES ASSUME Inv, [Next]_vars PROVE [Channel!Next]_(Channel!vars)
    OBVIOUS
  <1>1. requests \in [Streams -> Seq(WireSections)]
    BY DEF Inv, TypeOK
  <1>2. CASE UNCHANGED <<requests, delivered, cancelled>>
    BY <1>2 DEF Channel!vars
  <1>3. ASSUME NEW s \in Streams, EncodeSection(s) PROVE [Channel!Next]_(Channel!vars)
    <2>1. PICK w \in WireSections :
            /\ requests' = IF s \in cancelled THEN requests
                           ELSE [requests EXCEPT ![s] = Append(@, w)]
            /\ w.fields \in UNION {[1 .. n -> Field] : n \in 1 .. MaxLines}
      BY <1>3, SectionIsSent
    <2>2. delivered' = delivered /\ cancelled' = cancelled
      BY <1>3 DEF EncodeSection
    <2>3. CASE s \in cancelled
      BY <1>2, <2>1, <2>2, <2>3
    <2>4. CASE s \notin cancelled
      <3>1. requests' = [requests EXCEPT ![s] = Append(requests[s], w)]
        BY <2>1, <2>4
      <3>2. Append(requests[s], w) \in Seq(WireSections)
        BY <1>1
      <3>3. Pending(requests')
              = [Pending(requests) EXCEPT ![s] = FieldsOf(Append(requests[s], w))]
        BY <1>1, <3>1, <3>2, PendingChanges
      <3>4. FieldsOf(Append(requests[s], w)) = Append(Pending(requests)[s], w.fields)
        BY <1>1, FieldsAppended DEF Pending
      <3>5. Pending(requests')
              = [Pending(requests) EXCEPT ![s] = Append(@, w.fields)]
        BY <3>3, <3>4
      <3>6. Channel!Send(s)
        BY <2>1, <2>2, <2>4, <3>5 DEF Channel!Send, Pending, FieldsOf
      <3> QED
        BY <3>6 DEF Channel!Next
    <2> QED
      BY <2>3, <2>4
  <1>4. ASSUME NEW s \in Streams, DecodeSection(s) PROVE [Channel!Next]_(Channel!vars)
    <2>1. /\ requests[s] # << >>
          /\ delivered' = <<s, Head(requests[s]).fields>>
          /\ requests' = [requests EXCEPT ![s] = Tail(requests[s])]
      BY <1>4, SectionIsDelivered
    <2>2. cancelled' = cancelled
      BY <1>4 DEF DecodeSection
    <2>3. Tail(requests[s]) \in Seq(WireSections)
      BY <1>1, <2>1, Popped
    <2>4. Pending(requests')
            = [Pending(requests) EXCEPT ![s] = FieldsOf(Tail(requests[s]))]
      BY <1>1, <2>1, <2>3, PendingChanges
    <2>5. /\ Pending(requests)[s] # << >>
          /\ Head(Pending(requests)[s]) = Head(requests[s]).fields
          /\ FieldsOf(Tail(requests[s])) = Tail(Pending(requests)[s])
      BY <1>1, <2>1, FieldsTaken DEF Pending
    <2>6. /\ Pending(requests') = [Pending(requests) EXCEPT ![s] = Tail(@)]
          /\ delivered' = <<s, Head(Pending(requests)[s])>>
      BY <2>1, <2>4, <2>5
    <2>7. Channel!Deliver(s)
      BY <2>2, <2>5, <2>6 DEF Channel!Deliver, Pending, FieldsOf
    <2> QED
      BY <2>7 DEF Channel!Next
  <1>5. ASSUME NEW s \in Streams, CancelStream(s) PROVE [Channel!Next]_(Channel!vars)
    <2>1. /\ requests' = [requests EXCEPT ![s] = << >>]
          /\ cancelled' = cancelled \union {s} /\ delivered' = delivered
      BY <1>5 DEF CancelStream
    <2>2. FieldsOf(<< >>) = << >>
      <3>1. FieldsOf(<< >>) \in Seq(Seq(Field)) /\ Len(FieldsOf(<< >>)) = 0
        BY FieldsType, EmptySeq
      <3> QED
        BY <3>1
    <2>3. Pending(requests') = [Pending(requests) EXCEPT ![s] = << >>]
      <3>1. << >> \in Seq(WireSections)
        OBVIOUS
      <3>2. Pending([requests EXCEPT ![s] = << >>])
              = [Pending(requests) EXCEPT ![s] = FieldsOf(<< >>)]
        BY <1>1, <3>1, PendingChanges
      <3> QED
        BY <2>1, <2>2, <3>2
    <2>4. Channel!Abandon(s)
      BY <2>1, <2>3 DEF Channel!Abandon, Pending, FieldsOf
    <2> QED
      BY <2>4 DEF Channel!Next
  <1>6. CASE TableChanges \/ ReceiveFeedback \/ ReceiveInstruction \/ EmitIncrement
             \/ UNCHANGED vars
    BY <1>2, <1>6 DEF TableChanges, ReceiveFeedback, ReceiveInstruction, EmitIncrement,
                      vars, wireVars
  <1>7. CASE \E s \in Streams : BlockSection(s) \/ AcknowledgeSection(s)
    BY <1>2, <1>7 DEF BlockSection, AcknowledgeSection, wireVars
  <1> QED
    BY <1>3, <1>4, <1>5, <1>6, <1>7, StepCases

\* QPACK delivers: on each stream every field section comes out of the decoder
\* (field/section/decode.rs) as it went into the encoder
\* (field/section/encode.rs), in order and once, until the stream is abandoned;
\* tables, evictions, wrapped counts, blocking and feedback never show.
THEOREM ConnectionImplementsChannel == Spec => DeliversHeaders
  BY InitChannel, NextChannel, InitInv, NextInv, InvHolds, PTL
    DEF Spec, DeliversHeaders, Channel!Spec
=============================================================================

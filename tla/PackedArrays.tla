----------------------------- MODULE PackedArrays -----------------------------
(***************************************************************************)
(* How both dynamic tables (src/qpack/table/dynamic.rs and                 *)
(* src/http2/hpack/table.rs) are stored: a caller's byte array and a       *)
(* caller's array of entry slots, both packed newest first.  An insertion  *)
(* moves the surviving bytes and slots up and writes in front of them; an  *)
(* eviction only lowers the length, so bytes and slots beyond it are       *)
(* stale.                                                                  *)
(***************************************************************************)
EXTENDS Integers, Sequences

CONSTANTS
  Names, Values, ByteLen,    \* the fields, as in PackedEntries
  StorageLen, SlotCount      \* the lengths of the caller's arrays

ASSUME ArraysAssumption == {StorageLen, SlotCount} \subseteq Nat

\* There is one string of no bytes.
ASSUME StringsAssumption ==
  /\ ByteLen \in [Names \union Values -> Nat]
  /\ \A S \in {Names, Values} : \A s, t \in S : ByteLen[s] = 0 /\ ByteLen[t] = 0 => s = t

Fields == [name : Names, value : Values]

\* The bytes of a name or a value, told apart by whose they are; an unwritten
\* byte belongs to nobody.
BytesOf(string) == [k \in 1 .. ByteLen[string] |-> <<string, k>>]

FieldBytes(f) == BytesOf(f.name) \o BytesOf(f.value)

NoByte == << >>

\* QpackDynamicTableEntry::EMPTY
EmptySlot == [offset |-> 0, nameLen |-> 0, valueLen |-> 0]

EmptyStorage == [i \in 0 .. (StorageLen - 1) |-> NoByte]

EmptySlots == [i \in 0 .. (SlotCount - 1) |-> EmptySlot]

-----------------------------------------------------------------------------
\* Mutant: one byte more than the slots can account for.
StorageCapacityRounded ==
  LET bytes == StorageLen + 32
      slots == (SlotCount + 1) * 32
  IN  IF bytes < slots THEN bytes ELSE slots

StorageCapacity ==
  LET bytes == StorageLen + 32
      slots == SlotCount * 32 + 31
  IN  IF bytes < slots THEN bytes ELSE slots

EntrySizeFromSlot(slot) == slot.nameLen + slot.valueLen + 32

PackedBytes(entries, n) ==
  IF n = 0 THEN 0
  ELSE entries[n - 1].offset + entries[n - 1].nameLen + entries[n - 1].valueLen

\* The size left when the entries from slot n on are dropped one by one.
SizeWith(entries, len, size, n) ==
  LET left[k \in n .. len] ==
        IF k = len THEN size ELSE left[k + 1] - EntrySizeFromSlot(entries[k])
  IN  left[n]

\* The eviction loop stops at n, as soon as the rest fits.
IsRetained(entries, len, size, n, room) ==
  /\ n \in 0 .. len
  /\ n = 0 \/ SizeWith(entries, len, size, n) <= room
  /\ \A k \in (n + 1) .. len : SizeWith(entries, len, size, k) > room

EntrySize(f) == ByteLen[f.name] + ByteLen[f.value] + 32

\* Mutant: copies from the front, over what is still to be copied.
MovedUpForwards(array, count, width, front) ==
  [i \in DOMAIN array |->
     IF i < width THEN front[i + 1]
     ELSE IF width > 0 /\ i < width + count THEN array[i % width] ELSE array[i]]

\* copy_within(0 .. count, width), then the new contents at the front.
MovedUp(array, count, width, front) ==
  [i \in DOMAIN array |->
     IF i < width THEN front[i + 1]
     ELSE IF i < width + count THEN array[i - width] ELSE array[i]]

\* The bytes after f is inserted in front of n surviving entries.
StorageWith(storage, entries, n, f) ==
  MovedUp(storage, PackedBytes(entries, n), Len(FieldBytes(f)), FieldBytes(f))

\* The slots after that.
SlotsWith(entries, n, f) ==
  MovedUp([i \in DOMAIN entries |->
             IF i < n THEN [entries[i] EXCEPT !.offset = @ + Len(FieldBytes(f))]
                      ELSE entries[i]],
          n, 1,
          << [offset |-> 0, nameLen |-> ByteLen[f.name], valueLen |-> ByteLen[f.value]] >>)

-----------------------------------------------------------------------------
\* A lookup: f is the field whose bytes an active slot delimits.
Holds(storage, slot, f) ==
  /\ slot.nameLen = ByteLen[f.name]
  /\ slot.valueLen = ByteLen[f.value]
  /\ \A k \in 1 .. slot.nameLen : storage[slot.offset + k - 1] = BytesOf(f.name)[k]
  /\ \A k \in 1 .. slot.valueLen :
       storage[slot.offset + slot.nameLen + k - 1] = BytesOf(f.value)[k]

\* The entries that the first len slots stand for.  Bytes that are no field stand for
\* no table at all.
ActiveEntries(storage, entries, len) ==
  IF \A i \in 0 .. (len - 1) : \E f \in Fields : Holds(storage, entries[i], f)
  THEN [i \in 1 .. len |->
          [field  |-> CHOOSE f \in Fields : Holds(storage, entries[i - 1], f),
           offset |-> entries[i - 1].offset]]
  ELSE << >>

\* The active entries lie one behind the other, and size is their RFC size.
ArePacked(entries, len, size) ==
  /\ size = PackedBytes(entries, len) + 32 * len
  /\ \A i \in 0 .. (len - 1) : entries[i].offset = PackedBytes(entries, i)

\* Any entry that the maximum admits finds room in both arrays, so that no copy runs
\* over the end of one.
HasRoom(entries, len, size, maximum) ==
  \A f \in Fields : EntrySize(f) <= maximum =>
    \E n \in 0 .. len :
      /\ IsRetained(entries, len, size, n, maximum - EntrySize(f))
      /\ PackedBytes(entries, n) + EntrySize(f) - 32 <= StorageLen
      /\ n + 1 <= SlotCount
=============================================================================

----------------------------- MODULE PackedEntries -----------------------------
(***************************************************************************)
(* What the dynamic tables of QPACK (src/qpack/table/dynamic.rs) and of    *)
(* HPACK (src/http2/hpack/table.rs) have in common: a list of entries,     *)
(* newest first, each with the offset at which its bytes start, the RFC    *)
(* size of such a list, and the eviction of the oldest ones.  Both tables  *)
(* are records with a list of "entries"; their other components differ.    *)
(***************************************************************************)
EXTENDS Integers, Sequences

CONSTANTS
  Names, Values,   \* field names and values
  ByteLen          \* the length in bytes of each of them

Field == [name : Names, value : Values]

ASSUME ByteLenAssumption == ByteLen \in [Names \union Values -> Nat]

FieldLen(f) == ByteLen[f.name] + ByteLen[f.value]

\* The fixed cost of an entry, in RFC 7541 and in RFC 9204.
EntryOverhead == 32

EntrySize(f) == FieldLen(f) + EntryOverhead

Entry == [field : Field, offset : Nat]

-----------------------------------------------------------------------------
\* The bytes of the k newest entries, read off the oldest of them.
PackedBytes(entries, k) ==
  IF k = 0 THEN 0 ELSE entries[k].offset + FieldLen(entries[k].field)

\* The RFC size of the k newest entries.
SizeOf(entries, k) == PackedBytes(entries, k) + EntryOverhead * k

\* The entries lie one behind the other from the start of the storage.
IsPacked(entries) ==
  /\ entries \in Seq(Entry)
  /\ \A i \in 1 .. Len(entries) : entries[i].offset = PackedBytes(entries, i - 1)

\* Dropping the oldest entries one by one until the rest fit leaves "keep".
Retains(t, room, keep) ==
  /\ keep \in 0 .. Len(t.entries)
  /\ SizeOf(t.entries, keep) <= room
  /\ \A k \in (keep + 1) .. Len(t.entries) : SizeOf(t.entries, k) > room

\* A new field in front of the "keep" newest entries, which move up behind its bytes.
Pushed(entries, f, keep) ==
  [i \in 1 .. (keep + 1) |->
     IF i = 1 THEN [field |-> f, offset |-> 0]
     ELSE [field  |-> entries[i - 1].field,
           offset |-> entries[i - 1].offset + FieldLen(f)]]
=============================================================================

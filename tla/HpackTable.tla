------------------------------ MODULE HpackTable ------------------------------
(***************************************************************************)
(* The HPACK dynamic table (src/http2/hpack/table.rs) at the level of its  *)
(* entries, and the indexes that address it behind the static table.  The  *)
(* bytes are in module HpackDynamicTable.                                  *)
(*                                                                         *)
(* Every operation succeeds once its argument has been validated.          *)
(***************************************************************************)
EXTENDS PackedEntries

CONSTANT StaticTable   \* the fields of the static table, in order

ASSUME StaticTableAssumption == StaticTable \in Seq(Field)

Table == [entries : Seq(Entry), maximum : Nat]

EmptyTable(m) == [entries |-> << >>, maximum |-> m]

\* The entries lie one behind the other and do not exceed the maximum.
IsWellFormed(t) ==
  /\ t \in Table /\ IsPacked(t.entries)
  /\ SizeOf(t.entries, Len(t.entries)) <= t.maximum

\* How many entries the eviction loops of both operations leave.
Kept(t, room) == CHOOSE keep \in 0 .. Len(t.entries) : Retains(t, room, keep)

\* set_maximum_size_prevalidated
WithMaximum(t, m) == [entries |-> SubSeq(t.entries, 1, Kept(t, m)), maximum |-> m]

\* insert_prevalidated: a field that is larger than the whole table clears it.
WithInserted(t, f) ==
  [entries |-> IF EntrySize(f) > t.maximum THEN << >>
               ELSE Pushed(t.entries, f, Kept(t, t.maximum - EntrySize(f))),
   maximum |-> t.maximum]

-----------------------------------------------------------------------------
\* The combined index space of both tables.
Indexes(t) == 1 .. (Len(StaticTable) + Len(t.entries))

FieldAt(t, index) ==
  IF index <= Len(StaticTable) THEN StaticTable[index]
  ELSE t.entries[index - Len(StaticTable)].field
=============================================================================

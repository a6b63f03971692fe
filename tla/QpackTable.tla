------------------------------ MODULE QpackTable ------------------------------
(***************************************************************************)
(* The QPACK dynamic table (src/qpack/table/dynamic.rs) at the level of    *)
(* its entries: a table is a record of the active entries, newest first,   *)
(* its capacity and the number of insertions so far.  The bytes are in     *)
(* module QpackDynamicTable, which implements this one.                    *)
(*                                                                         *)
(* A failed operation changes nothing, so an operation is a condition      *)
(* (Can...) and the table it yields.  "keep" is the number of entries that *)
(* survive the eviction the operation needs: retained_for_capacity's       *)
(* result, of which there is exactly one.                                  *)
(***************************************************************************)
EXTENDS PackedEntries

EmptyTable == [entries |-> << >>, capacity |-> 0, insertCount |-> 0]

Table == [entries : Seq(Entry), capacity : Nat, insertCount : Nat]

Size(t) == SizeOf(t.entries, Len(t.entries))

Oldest(t) == t.insertCount - Len(t.entries)

Active(t) == Oldest(t) .. (t.insertCount - 1)

EntryAt(t, absolute) == t.entries[t.insertCount - absolute].field

\* Mutant: spares the newest entry that must go from the eviction policy.
EvictedButOne(t, keep) == Oldest(t) .. (t.insertCount - keep - 2)

\* The absolute indexes that leave the table when "keep" entries stay.
Evicted(t, keep) == Oldest(t) .. (t.insertCount - keep - 1)

-----------------------------------------------------------------------------
\* The table after set_capacity(c).
CanSetCapacity(t, c, keep) == Retains(t, c, keep)

WithCapacity(t, c, keep) ==
  [entries     |-> SubSeq(t.entries, 1, keep),
   capacity    |-> c,
   insertCount |-> t.insertCount]

\* The table after insert(f): the survivors move up behind the new bytes.
CanInsert(t, f, keep) ==
  /\ EntrySize(f) <= t.capacity
  /\ Retains(t, t.capacity - EntrySize(f), keep)

WithInserted(t, f, keep) ==
  [entries     |-> Pushed(t.entries, f, keep),
   capacity    |-> t.capacity,
   insertCount |-> t.insertCount + 1]

-----------------------------------------------------------------------------
\* The entries lie one behind the other from the start of the storage, were
\* all inserted, and do not exceed the capacity.
IsWellFormed(t) ==
  /\ t \in Table /\ IsPacked(t.entries)
  /\ Len(t.entries) <= t.insertCount
  /\ Size(t) <= t.capacity
=============================================================================

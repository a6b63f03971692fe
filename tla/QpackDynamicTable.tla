--------------------------- MODULE QpackDynamicTable ---------------------------
(***************************************************************************)
(* QpackDynamicTable (src/qpack/table/dynamic.rs) as it is stored.         *)
(*                                                                         *)
(* An eviction policy that refuses makes a call fail without an effect:    *)
(* the successful calls are those of a policy that never refuses.          *)
(***************************************************************************)
EXTENDS PackedArrays

CONSTANTS Capacities, MaxTableInserts     \* bounds of the model

ASSUME DynamicTableAssumption == Capacities \subseteq Nat

VARIABLES storage, entries, len, size, capacity, tableInserts

tableVars == <<storage, entries, len, size, capacity, tableInserts>>

TableInit ==
  /\ storage = EmptyStorage
  /\ entries = EmptySlots
  /\ len = 0 /\ size = 0 /\ capacity = 0 /\ tableInserts = 0

SetCapacity(c) ==
  /\ c <= StorageCapacity
  /\ \E n \in 0 .. len :
       /\ IsRetained(entries, len, size, n, c)
       /\ len' = n /\ size' = SizeWith(entries, len, size, n)
  /\ capacity' = c
  /\ UNCHANGED <<storage, entries, tableInserts>>

Insert(f) ==
  /\ tableInserts < MaxTableInserts
  /\ EntrySize(f) <= capacity
  /\ \E n \in 0 .. len :
       /\ IsRetained(entries, len, size, n, capacity - EntrySize(f))
       /\ storage' = StorageWith(storage, entries, n, f)
       /\ entries' = SlotsWith(entries, n, f)
       /\ len' = n + 1
       /\ size' = SizeWith(entries, len, size, n) + EntrySize(f)
  /\ tableInserts' = tableInserts + 1
  /\ UNCHANGED capacity

TableNext == (\E c \in Capacities : SetCapacity(c)) \/ (\E f \in Fields : Insert(f))

TableSpec == TableInit /\ [][TableNext]_tableVars

-----------------------------------------------------------------------------
\* The size that evictions subtract from, entry by entry, is always the RFC
\* size of what is in the table, and stays within the capacity; the active
\* entries lie one behind the other.  Any entry the capacity admits then finds
\* room in both arrays, so that no copy runs over the end of one: what
\* storage_capacity is computed for.
InsertionsFit ==
  /\ ArePacked(entries, len, size) /\ size <= capacity
  /\ HasRoom(entries, len, size, capacity)

History ==
  INSTANCE QpackTableHistory WITH
    table <- [entries |-> ActiveEntries(storage, entries, len),
              capacity |-> capacity, insertCount |-> tableInserts]

\* The bytes implement the table: an entry reads back as it was inserted for
\* as long as it is active, whatever was inserted and evicted around it.
ImplementsTable == History!Spec
=============================================================================

--------------------------- MODULE HpackDynamicTable ---------------------------
(***************************************************************************)
(* HpackDynamicTable (src/http2/hpack/table.rs) as it is stored.  Unlike   *)
(* QPACK's it has no entry that must stay, takes a field that is larger    *)
(* than the whole table as a reason to clear it, and may be cleared.       *)
(***************************************************************************)
EXTENDS PackedArrays

CONSTANT Maxima     \* bound: the maxima that are tried

ASSUME MaximaAssumption == Maxima \subseteq Nat

VARIABLES storage, entries, count, size, maximum

vars == <<storage, entries, count, size, maximum>>

Init ==
  /\ storage = EmptyStorage
  /\ entries = EmptySlots
  /\ count = 0 /\ size = 0
  /\ maximum \in {m \in Maxima : m <= StorageCapacity}

\* Mutant: the entries go, but what they counted for stays.
ClearEntries ==
  /\ count' = 0
  /\ UNCHANGED <<storage, entries, size, maximum>>

Clear ==
  /\ count' = 0 /\ size' = 0
  /\ UNCHANGED <<storage, entries, maximum>>

SetMaximum(m) ==
  /\ m <= StorageCapacity
  /\ \E n \in 0 .. count :
       /\ IsRetained(entries, count, size, n, m)
       /\ count' = n /\ size' = SizeWith(entries, count, size, n)
  /\ maximum' = m
  /\ UNCHANGED <<storage, entries>>

Insert(f) ==
  \/ EntrySize(f) > maximum /\ Clear
  \/ /\ EntrySize(f) <= maximum
     /\ \E n \in 0 .. count :
          /\ IsRetained(entries, count, size, n, maximum - EntrySize(f))
          /\ storage' = StorageWith(storage, entries, n, f)
          /\ entries' = SlotsWith(entries, n, f)
          /\ count' = n + 1
          /\ size' = SizeWith(entries, count, size, n) + EntrySize(f)
     /\ UNCHANGED maximum

Next == Clear \/ (\E m \in Maxima : SetMaximum(m)) \/ (\E f \in Fields : Insert(f))

Spec == Init /\ [][Next]_vars

-----------------------------------------------------------------------------
History ==
  INSTANCE HpackTableHistory WITH
    StaticTable <- << >>,
    table <- [entries |-> ActiveEntries(storage, entries, count), maximum |-> maximum]

\* The bytes implement the table: an entry reads back as it was inserted for as long as
\* it is active, whatever was inserted, evicted and cleared around it.
ImplementsTable == History!Spec
=============================================================================

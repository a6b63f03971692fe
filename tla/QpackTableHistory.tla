--------------------------- MODULE QpackTableHistory ---------------------------
(***************************************************************************)
(* The promise of QpackDynamicTable as a state machine over one table of   *)
(* module QpackTable: fields are inserted and keep their contents until    *)
(* they are the oldest and room is needed.  There are no bytes here.       *)
(***************************************************************************)
EXTENDS QpackTable

VARIABLE table

Init == table = EmptyTable

\* Any capacity may be chosen.
SetCapacity ==
  \E keep \in 0 .. Len(table.entries) :
    /\ table'.capacity \in Nat
    /\ CanSetCapacity(table, table'.capacity, keep)
    /\ table' = WithCapacity(table, table'.capacity, keep)

Insert(f) ==
  \E keep \in 0 .. Len(table.entries) :
    /\ CanInsert(table, f, keep)
    /\ table' = WithInserted(table, f, keep)

Next == SetCapacity \/ \E f \in Field : Insert(f)

Spec == Init /\ [][Next]_table
=============================================================================

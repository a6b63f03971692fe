--------------------------- MODULE HpackTableHistory ---------------------------
(***************************************************************************)
(* The promise of HpackDynamicTable as a state machine over one table of   *)
(* module HpackTable.  There are no bytes here.                            *)
(***************************************************************************)
EXTENDS HpackTable

VARIABLE table

\* Any maximum may be chosen.
Init == table.maximum \in Nat /\ table = EmptyTable(table.maximum)

SetMaximum ==
  /\ table'.maximum \in Nat
  /\ table' = WithMaximum(table, table'.maximum)

Insert(f) == table' = WithInserted(table, f)

Clear == table' = EmptyTable(table.maximum)

Next == SetMaximum \/ (\E f \in Field : Insert(f)) \/ Clear

Spec == Init /\ [][Next]_table
=============================================================================

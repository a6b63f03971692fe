-------------------------- MODULE MCQpackDynamicTable --------------------------
(***************************************************************************)
(* An instance of QpackDynamicTable for TLC: names and values of no byte   *)
(* and of a few, so that entries are 32 to 37 bytes.                       *)
(***************************************************************************)
EXTENDS QpackDynamicTable, TLC

CONSTANTS a, b, x, y

MCNames == {a, b}
MCValues == {x, y}
MCByteLen == (a :> 0) @@ (b :> 2) @@ (x :> 0) @@ (y :> 3)
=============================================================================

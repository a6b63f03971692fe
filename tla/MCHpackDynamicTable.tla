-------------------------- MODULE MCHpackDynamicTable --------------------------
(***************************************************************************)
(* An instance of HpackDynamicTable for TLC: entries of 33 and 35 bytes.   *)
(***************************************************************************)
EXTENDS HpackDynamicTable, TLC

CONSTANTS a, b, x

MCNames == {a, b}
MCValues == {x}
MCByteLen == (a :> 0) @@ (b :> 2) @@ (x :> 1)
=============================================================================

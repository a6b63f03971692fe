--------------------------- MODULE MCHpackConnection ---------------------------
(***************************************************************************)
(* An instance of HpackConnection for TLC.  The short field takes 34 bytes *)
(* of a table and the long one 40; a static table of one field.            *)
(***************************************************************************)
EXTENDS HpackConnection, TLC

CONSTANTS a, b, x

MCNames == {a, b}
MCValues == {x}
MCByteLen == (a :> 1) @@ (b :> 7) @@ (x :> 1)
MCStaticTable == <<[name |-> a, value |-> x]>>

Indexed(index) == [kind |-> "indexed", index |-> index]
Literal(indexing, index, name) ==
  [kind |-> "literal", indexing |-> indexing, index |-> index, name |-> name, value |-> x]

MCRepresentations ==
  {Indexed(2), Indexed(3), Literal(TRUE, 0, b), Literal(TRUE, 1, a),
   Literal(FALSE, 2, b)}
=============================================================================

--------------------------- MODULE MCQpackConnection ---------------------------
(***************************************************************************)
(* Instances of QpackConnection for TLC.  Entries are 34 or 35 bytes, so a *)
(* table of 70 bytes holds two of them and the Required Insert Count is    *)
(* sent modulo 4.                                                          *)
(***************************************************************************)
EXTENDS QpackConnection, TLC

CONSTANTS a, b, x

Symmetry == Permutations(Streams)

MCNames == {a, b}
MCValues == {x}
MCByteLen == (a :> 1) @@ (b :> 2) @@ (x :> 1)
=============================================================================

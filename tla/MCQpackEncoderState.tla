-------------------------- MODULE MCQpackEncoderState --------------------------
(***************************************************************************)
(* An instance of QpackEncoderState for TLC: two streams of which one may  *)
(* block, three section slots and five reference slots.                    *)
(***************************************************************************)
EXTENDS QpackEncoderState
=============================================================================

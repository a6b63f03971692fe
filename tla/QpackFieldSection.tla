--------------------------- MODULE QpackFieldSection ---------------------------
(***************************************************************************)
(* The arithmetic of an encoded QPACK field section: the Required Insert   *)
(* Count (RIC) modulo twice the peer's maximum number of entries, the Base *)
(* as a signed distance from it, and a dynamic reference as a distance     *)
(* from the Base (src/qpack/field/section/context.rs, encode.rs, and the   *)
(* index arithmetic of src/qpack/table/dynamic.rs).  Everything here is a  *)
(* pure operator; u64 overflow is out of the range of any count reached by *)
(* inserting and is not modelled.                                          *)
(***************************************************************************)
EXTENDS Integers

\* SETTINGS_QPACK_MAX_TABLE_CAPACITY as advertised by the decoder.
CONSTANT MaxCapacity

ASSUME MaxCapacityAssumption == MaxCapacity \in Nat

MaxEntries == MaxCapacity \div 32

FullRange == 2 * MaxEntries

\* What a failed conversion yields.
Invalid == -1

-----------------------------------------------------------------------------
EncodedRic(ric) == IF ric = 0 THEN 0 ELSE (ric % FullRange) + 1

\* The largest multiple of the full range not above what the decoder can hold.
MaxWrapped(total) == FullRange * ((total + MaxEntries) \div FullRange)

\* Mutant: excludes the maximum value itself.
UnwrappedBelow(encoded, total) ==
  LET candidate == MaxWrapped(total) + encoded - 1
  IN  IF candidate < total + MaxEntries THEN candidate
      ELSE IF candidate <= FullRange THEN Invalid
      ELSE candidate - FullRange

\* A nonzero encoded RIC, taken as close below the maximum value as it fits.
Unwrapped(encoded, total) ==
  LET candidate == MaxWrapped(total) + encoded - 1
  IN  IF candidate <= total + MaxEntries THEN candidate
      ELSE IF candidate <= FullRange THEN Invalid
      ELSE candidate - FullRange

\* "total" is the decoder's insert count when it reads the section.
ReconstructedRic(encoded, total) ==
  IF encoded = 0 THEN 0
  ELSE IF MaxEntries = 0 \/ encoded > FullRange \/ Unwrapped(encoded, total) = 0
       THEN Invalid
       ELSE Unwrapped(encoded, total)

-----------------------------------------------------------------------------
\* The sign and Delta Base that stand for a Base.
PrefixDelta(ric, base) ==
  IF base >= ric THEN [negative |-> FALSE, delta |-> base - ric]
                 ELSE [negative |-> TRUE, delta |-> ric - base - 1]

ResolvedBase(ric, prefix) ==
  IF ~prefix.negative THEN ric + prefix.delta
  ELSE IF prefix.delta >= ric THEN Invalid ELSE ric - prefix.delta - 1

\* The index that stands for an absolute index, and the way back.
LineIndex(absolute, base) ==
  IF absolute < base THEN [post |-> FALSE, index |-> base - absolute - 1]
                     ELSE [post |-> TRUE, index |-> absolute - base]

\* Mutant: relative indexes start one entry further back.
ResolvedIndexFar(line, base) ==
  IF line.post THEN base + line.index ELSE base - line.index - 2

ResolvedIndex(line, base) ==
  IF line.post THEN base + line.index ELSE base - line.index - 1
=============================================================================

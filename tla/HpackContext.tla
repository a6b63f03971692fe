----------------------------- MODULE HpackContext -----------------------------
(***************************************************************************)
(* The HPACK contexts of the two ends of one direction of an HTTP/2        *)
(* connection (src/http2/hpack/context.rs), with the block each may have   *)
(* open (HpackBlockEncoder in encoder.rs, HpackBlockDecoder in             *)
(* decoder.rs).  Both contexts have the same state; encoder.rs and         *)
(* decoder.rs check and change it by code of their own.                    *)
(*                                                                         *)
(* A call that fails changes nothing, so a call is the errors it returns   *)
(* (none, or one) and the context it leaves.                               *)
(***************************************************************************)
EXTENDS HpackTable

CONSTANT Capacity      \* the largest maximum that the storage supports, at both ends

ASSUME CapacityAssumption == Capacity \in Nat

\* Option<usize>: a set of at most one element.
Options == {{}} \cup {{n} : n \in 0 .. Capacity}

\* PendingSizes
Pending == [minimum : Options, final : Options]

\* No block is open, one that has no field yet, or one that has.
Blocks == {"closed", "leading", "fields"}

\* "applied" counts the SETTINGS values applied so far: a caller's knowledge.
Context == [table : Table, allowed : 0 .. Capacity, pending : Pending,
            block : Blocks, applied : Nat]

\* A representation of a field.  A name index of 0 stands for a literal name.
Representation ==
  [kind : {"indexed"}, index : Nat]
    \cup [kind : {"literal"}, indexing : BOOLEAN, index : Nat, name : Names, value : Values]

-----------------------------------------------------------------------------
NothingPending == [minimum |-> {}, final |-> {}]

\* PendingSizes::next
NextRequired(pending) ==
  IF pending.minimum # {} THEN pending.minimum ELSE pending.final

\* PendingSizes::advance
Advanced(pending) ==
  [minimum |-> {}, final |-> IF pending.minimum # {} THEN pending.final ELSE {}]

\* Mutant: only the last change is remembered.
WithChangeLast(pending, n) == [minimum |-> {n}, final |-> {}]

\* Mutant: a reduction leaves an earlier, larger final size behind.
WithChangeStale(pending, n) ==
  IF \A m \in pending.minimum : n <= m
  THEN [minimum |-> {n}, final |-> pending.final]
  ELSE [minimum |-> pending.minimum, final |-> {n}]

\* PendingSizes::record_change
WithChange(pending, n) ==
  IF \A m \in pending.minimum : n <= m
  THEN [minimum |-> {n}, final |-> {}]
  ELSE [minimum |-> pending.minimum, final |-> {n}]

\* HpackEncoderContext::new and HpackDecoderContext::new, for a table of maximum m.
NewContext(m, n) ==
  [table   |-> EmptyTable(m),
   allowed |-> n,
   pending |-> [minimum |-> IF m > n THEN {n} ELSE {}, final |-> {}],
   block   |-> "closed",
   applied |-> 0]

\* set_allowed_maximum_size.  The context is not borrowed by a block.
WithAllowed(c, n) ==
  [c EXCEPT !.allowed = n,
            !.pending = IF n = c.allowed THEN @ ELSE WithChange(@, n),
            !.applied = @ + 1]

\* begin_block and decode_block
WithBlock(c) == [c EXCEPT !.block = "leading"]

-----------------------------------------------------------------------------
(***************************************************************************)
(* encoder.rs                                                              *)
(***************************************************************************)
\* encode_dynamic_table_size_update succeeds.
CanEncodeUpdate(c, m) ==
  /\ c.block = "leading"
  /\ \A required \in NextRequired(c.pending) : m = required
  /\ m <= c.allowed /\ m <= Capacity

\* Mutant: the encoder does not reduce its own table.
EncodedUpdateRemote(c, m) ==
  [c EXCEPT !.table = [@ EXCEPT !.maximum = m], !.pending = Advanced(@)]

EncodedUpdate(c, m) ==
  [c EXCEPT !.table = WithMaximum(@, m), !.pending = Advanced(@)]

\* encode_indexed and encode_literal succeed.
CanEncodeField(c, r) ==
  /\ c.block # "closed"
  /\ NextRequired(c.pending) = {}
  /\ \/ r.kind = "literal" /\ r.index = 0
     \/ r.index \in Indexes(c.table)
  /\ r.kind = "literal" /\ r.index # 0 => r.name = FieldAt(c.table, r.index).name

\* The field that the caller means.
Meant(c, r) ==
  IF r.kind = "indexed" THEN FieldAt(c.table, r.index)
  ELSE [name |-> r.name, value |-> r.value]

EncodedField(c, r) ==
  [c EXCEPT !.block = "fields",
            !.table = IF r.kind = "literal" /\ r.indexing
                      THEN WithInserted(@, Meant(c, r)) ELSE @]

\* Mutant: a block ends although an update is still required.
CanFinishEarly(c) == c.block # "closed"

\* finish succeeds.
CanFinish(c) == c.block # "closed" /\ NextRequired(c.pending) = {}

WithoutBlock(c) == [c EXCEPT !.block = "closed"]

-----------------------------------------------------------------------------
(***************************************************************************)
(* decoder.rs: decode_next by the representation that it meets.            *)
(***************************************************************************)
UpdateErrors(c, m) ==
  IF c.block = "fields" THEN {"DynamicTableSizeUpdateAfterField"}
  ELSE IF \E required \in NextRequired(c.pending) : m # required
       THEN {"DynamicTableSizeUpdateMismatch"}
  ELSE IF m > c.allowed THEN {"DynamicTableSizeUpdateExceedsAllowed"}
  ELSE {}

DecodedUpdate(c, m) ==
  [c EXCEPT !.table = WithMaximum(@, m), !.pending = Advanced(@)]

FieldErrors(c, r) ==
  IF NextRequired(c.pending) # {} THEN {"DynamicTableSizeUpdateRequired"}
  ELSE IF ~(r.kind = "literal" /\ r.index = 0) /\ r.index \notin Indexes(c.table)
       THEN {"UnavailableIndex"}
  ELSE {}

\* The field that decode_next returns; a literal's name is on the wire, or is that of
\* the index that is there instead.
FieldRead(c, r) ==
  IF r.kind = "indexed" THEN FieldAt(c.table, r.index)
  ELSE [name  |-> IF r.index = 0 THEN r.name ELSE FieldAt(c.table, r.index).name,
        value |-> r.value]

\* Mutant: every literal is inserted.
DecodedFieldAlways(c, r) ==
  [c EXCEPT !.block = "fields",
            !.table = IF r.kind = "literal" THEN WithInserted(@, FieldRead(c, r)) ELSE @]

DecodedField(c, r) ==
  [c EXCEPT !.block = "fields",
            !.table = IF r.kind = "literal" /\ r.indexing
                      THEN WithInserted(@, FieldRead(c, r)) ELSE @]

\* The end of the block.
CompleteErrors(c) ==
  IF NextRequired(c.pending) # {} THEN {"DynamicTableSizeUpdateRequired"} ELSE {}
=============================================================================

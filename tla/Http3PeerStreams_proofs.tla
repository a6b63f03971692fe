------------------------ MODULE Http3PeerStreams_proofs ------------------------
(***************************************************************************)
(* Proofs about Http3PeerStreams, for any streams, inputs and limits and   *)
(* any number of writes.  First that what is on its way are bytes, so that *)
(* identifiers are numbers; then what the three fields of the tracker      *)
(* (CriticalInv) and the three values of the control stream (ControlInv)   *)
(* stand for: all that has been accepted.  Then that an integer, a header, *)
(* a frame and the numbers of a payload are read as they were written,     *)
(* whatever follows them and however they are cut, so that of every stream *)
(* what has been read and what is left are together what was written       *)
(* (DeliveryInv), and that the settings in force are those sent.           *)
(***************************************************************************)
EXTENDS Http3PeerStreams, SequenceTheorems, WellFoundedInduction, TLAPS

-----------------------------------------------------------------------------
(* Numbers and bytes *)

\* The bases of the byte arithmetic are positive numbers.
LEMMA Bases ==
  /\ ByteValues \in Nat /\ ByteValues > 0
  /\ Unit \in Nat /\ Unit > 0
  BY ByteAssumption, Z3 DEF Unit

\* The lowest byte and what is above it are natural numbers.
LEMMA ByteParts ==
  ASSUME NEW n \in Nat
  PROVE  Low(n) \in Nat /\ Rest(n) \in Nat
  BY Bases, Z3 DEF Low, Rest

\* An integer is written as numbers, whatever its width.
LEMMA VarIntTyped ==
  ASSUME NEW value \in Nat, NEW length \in Lengths
  PROVE  VarInt(value, length) \in Seq(Nat)
  <1> DEFINE bytes == BigEndian(value, length)
             r == Rest(Rest(Rest(Rest(value))))
  <1>1. /\ Rest(value) \in Nat /\ Rest(Rest(value)) \in Nat
        /\ Rest(Rest(Rest(value))) \in Nat /\ r \in Nat
    BY ByteParts
  <1>2. /\ Rest(r) \in Nat /\ Rest(Rest(r)) \in Nat /\ Rest(Rest(Rest(r))) \in Nat
    BY <1>1, ByteParts
  <1>3. U16Bytes(value) \in Seq(Nat) /\ Len(U16Bytes(value)) = 2
    BY <1>1, ByteParts DEF U16Bytes
  <1>4. U32Bytes(value) \in Seq(Nat) /\ Len(U32Bytes(value)) = 4
    BY <1>1, ByteParts DEF U32Bytes
  <1>5. U32Bytes(r) \in Seq(Nat) /\ Len(U32Bytes(r)) = 4
    BY <1>1, <1>2, ByteParts DEF U32Bytes
  <1>6. U64Bytes(value) \in Seq(Nat) /\ Len(U64Bytes(value)) = 8
    <2> DEFINE high == U32Bytes(r)
               low == U32Bytes(value)
    <2>1. U64Bytes(value) = high \o low
      BY DEF U64Bytes
    <2>2. high \in Seq(Nat) /\ low \in Seq(Nat) /\ Len(high) = 4 /\ Len(low) = 4
      BY <1>4, <1>5
    <2> HIDE DEF high, low
    <2>3. high \o low \in Seq(Nat) /\ Len(high \o low) = Len(high) + Len(low)
      BY <2>2, ConcatProperties
    <2> QED BY <2>1, <2>2, <2>3
  <1>7. <<Low(value)>> \in Seq(Nat) /\ Len(<<Low(value)>>) = 1
    BY ByteParts
  <1>8. bytes \in Seq(Nat) /\ Len(bytes) > 0
    <2>1. CASE length = 1
      BY <1>7, <2>1 DEF BigEndian
    <2>2. CASE length = 2
      BY <1>3, <2>2 DEF BigEndian
    <2>3. CASE length = 4
      BY <1>4, <2>3 DEF BigEndian
    <2>4. CASE length = 8
      BY <1>6, <2>4 DEF BigEndian
    <2> QED BY <2>1, <2>2, <2>3, <2>4 DEF Lengths
  <1>9. Prefix(length) * Unit \in Nat
    <2>1. Prefix(length) \in 0 .. 3
      BY DEF Prefix
    <2> QED BY <2>1, Bases, Z3
  <1> HIDE DEF bytes
  <1>10. bytes[1] + Prefix(length) * Unit \in Nat
    BY <1>8, <1>9
  <1>11. [bytes EXCEPT ![1] = bytes[1] + Prefix(length) * Unit] \in Seq(Nat)
    BY <1>8, <1>10, ExceptSeq
  <1> QED
    BY <1>11 DEF VarInt, bytes

\* So is an integer in its shortest form,
LEMMA CanonicalTyped ==
  ASSUME NEW value \in Nat
  PROVE  Canonical(value) \in Seq(Nat)
  <1>1. CanonicalLength(value) \in Lengths
    BY DEF CanonicalLength, Lengths
  <1> QED
    BY <1>1, VarIntTyped DEF Canonical

\* and one in the width that a header or frame asks for.
LEMMA WrittenTyped ==
  ASSUME NEW value \in Nat, NEW widths \in WidthChoices, NEW k \in {1, 2}
  PROVE  Written(value, widths, k) \in Seq(Nat)
  <1>1. CASE widths = <<>>
    BY <1>1, CanonicalTyped DEF Written
  <1>2. CASE widths # <<>>
    <2>1. widths \in Lengths \X Lengths
      BY <1>2 DEF WidthChoices
    <2>2. widths[k] \in Lengths
      BY <2>1
    <2> QED BY <1>2, <2>2, VarIntTyped DEF Written
  <1> QED BY <1>1, <1>2

\* Among numbers with a property there is a least.
LEMMA LeastNumber ==
  ASSUME NEW S \in SUBSET Nat, S # {}
  PROVE  \E n \in S : \A m \in S : ~ (m < n)
  <1>1. PICK n \in S : \A m \in S : ~ (<<m, n>> \in OpToRel(<, Nat))
    BY NatLessThanWellFounded, WFMin
  <1>2. ASSUME NEW m \in S PROVE ~ (m < n)
    <2>1. m \in Nat /\ n \in Nat
      OBVIOUS
    <2>2. <<m, n>> \in OpToRel(<, Nat) <=> m < n
      BY <2>1 DEF OpToRel
    <2> QED BY <1>1, <2>2
  <1> QED BY <1>2

\* Joining goes through the pieces from the first to the last.
JoinedBy(f, pieces, last) ==
  /\ f[0] = <<>>
  /\ \A k \in 1 .. last : f[k] = f[k - 1] \o pieces[k]

\* Joining is one of those ways through the pieces.
LEMMA JoinedSteps ==
  ASSUME NEW pieces, Len(pieces) \in Nat
  PROVE  \E f : JoinedBy(f, pieces, Len(pieces)) /\ Joined(pieces) = f[Len(pieces)]
  <1> DEFINE N == Len(pieces)
             Body(f, k) == IF k = 0 THEN <<>> ELSE f[k - 1] \o pieces[k]
             Solves(f, n) == f = [k \in 0 .. n |-> Body(f, k)]
             upTo == CHOOSE f : Solves(f, N)
             without == {n \in 0 .. N : ~ \E f : Solves(f, n)}
  <1>1. N \in Nat
    OBVIOUS
  <1>2. without = {}
    <2>1. SUFFICES ASSUME without # {} PROVE FALSE
      OBVIOUS
    <2>2. PICK n \in without : \A m \in without : ~ (m < n)
      <3>1. without \in SUBSET Nat
        <4>1. without \subseteq 0 .. N
          BY Zenon
        <4>2. 0 .. N \subseteq Nat
          BY <1>1
        <4> HIDE DEF without
        <4> QED BY <4>1, <4>2
      <3> HIDE DEF without
      <3> QED BY <2>1, <3>1, LeastNumber
    <2>3. n \in 0 .. N /\ n \in Nat
      BY <1>1, <2>2
    <2>4. CASE n = 0
      <3>1. Solves([k \in 0 .. 0 |-> <<>>], 0)
        OBVIOUS
      <3> QED BY <2>2, <2>4, <3>1
    <2>5. CASE n # 0
      <3>1. n - 1 \in 0 .. N /\ n - 1 < n
        BY <1>1, <2>3, <2>5
      <3>2. n - 1 \notin without
        BY <2>2, <3>1
      <3>3. PICK g : Solves(g, n - 1)
        BY <3>1, <3>2
      <3> DEFINE f == [k \in 0 .. n |-> IF k = n THEN g[n - 1] \o pieces[n] ELSE g[k]]
      <3>4. ASSUME NEW k \in 0 .. n PROVE f[k] = Body(f, k)
        <4>1. CASE k = n
          <5>1. n - 1 \in 0 .. n /\ n - 1 # n /\ n \in 0 .. n
            BY <2>3, <2>5
          <5>2. f[n - 1] = g[n - 1]
            BY <5>1
          <5>3. f[n] = g[n - 1] \o pieces[n]
            BY <5>1
          <5>4. Body(f, n) = f[n - 1] \o pieces[n]
            BY <2>5
          <5> HIDE DEF f, Body
          <5> QED BY <4>1, <5>2, <5>3, <5>4
        <4>2. CASE k # n
          <5>1. k \in 0 .. (n - 1)
            BY <2>3, <4>2
          <5>2. f[k] = g[k] /\ g[k] = Body(g, k)
            BY <3>3, <4>2, <5>1
          <5>3. k # 0 => k - 1 \in 0 .. n /\ k - 1 # n
            BY <2>3, <5>1
          <5>4. k # 0 => f[k - 1] = g[k - 1]
            BY <5>3
          <5> QED BY <5>2, <5>4
        <4> QED BY <4>1, <4>2
      <3>5. Solves(f, n)
        BY <3>4
      <3> QED BY <2>2, <3>5
    <2> QED BY <2>4, <2>5
  <1>3. Solves(upTo, N)
    <2>1. N \in 0 .. N
      BY <1>1
    <2>2. N \notin without
      <3> HIDE DEF without
      <3> QED BY <1>2
    <2>3. \E f : Solves(f, N)
      BY <2>1, <2>2, Zenon
    <2> QED BY <2>3
  <1> HIDE DEF upTo
  <1>4. \A k \in 0 .. N : upTo[k] = Body(upTo, k)
    BY <1>3
  <1>5. upTo[0] = <<>>
    <2>1. 0 \in 0 .. N
      BY <1>1
    <2> QED BY <1>4, <2>1
  <1>6. ASSUME NEW k \in 1 .. N PROVE upTo[k] = upTo[k - 1] \o pieces[k]
    <2>1. k \in 0 .. N /\ k # 0
      BY <1>1
    <2> QED BY <1>4, <2>1
  <1>7. Joined(pieces) = upTo[N]
    BY DEF Joined, upTo
  <1> QED
    BY <1>5, <1>6, <1>7 DEF JoinedBy

\* Joined pieces are of the kind that the pieces are.
LEMMA JoinedTyped ==
  ASSUME NEW S, NEW pieces, Len(pieces) \in Nat,
         \A k \in 1 .. Len(pieces) : pieces[k] \in Seq(S)
  PROVE  Joined(pieces) \in Seq(S)
  <1> DEFINE N == Len(pieces)
  <1>1. PICK f : JoinedBy(f, pieces, N) /\ Joined(pieces) = f[N]
    BY JoinedSteps
  <1> DEFINE bad == {n \in 0 .. N : f[n] \notin Seq(S)}
  <1>2. bad = {}
    <2>1. SUFFICES ASSUME bad # {} PROVE FALSE
      OBVIOUS
    <2>2. PICK n \in bad : \A m \in bad : ~ (m < n)
      <3>1. bad \in SUBSET Nat
        OBVIOUS
      <3> HIDE DEF bad
      <3> QED BY <2>1, <3>1, LeastNumber
    <2>3. n \in 0 .. N /\ f[n] \notin Seq(S)
      BY <2>2
    <2>4. n # 0
      <3>1. f[0] = <<>> /\ <<>> \in Seq(S)
        BY <1>1 DEF JoinedBy
      <3> QED BY <2>3, <3>1
    <2>5. n - 1 \in 0 .. N /\ n - 1 < n /\ n \in 1 .. N
      BY <2>3, <2>4
    <2>6. f[n - 1] \in Seq(S)
      BY <2>2, <2>5
    <2>7. pieces[n] \in Seq(S) /\ f[n] = f[n - 1] \o pieces[n]
      BY <1>1, <2>5 DEF JoinedBy
    <2> QED BY <2>3, <2>6, <2>7, ConcatProperties
  <1>3. N \in 0 .. N
    OBVIOUS
  <1> HIDE DEF N
  <1> QED
    BY <1>1, <1>2, <1>3

\* One piece more is put behind the others.
LEMMA JoinedGrows ==
  ASSUME NEW pieces, Len(pieces) \in Nat, NEW more, Len(more) = Len(pieces) + 1,
         \A k \in 1 .. Len(pieces) : more[k] = pieces[k]
  PROVE  Joined(more) = Joined(pieces) \o more[Len(pieces) + 1]
  <1> DEFINE N == Len(pieces)
  <1>1. PICK f : JoinedBy(f, pieces, N) /\ Joined(pieces) = f[N]
    BY JoinedSteps
  <1>2. PICK g : JoinedBy(g, more, N + 1) /\ Joined(more) = g[N + 1]
    BY JoinedSteps
  <1> DEFINE bad == {n \in 0 .. N : f[n] # g[n]}
  <1>3. bad = {}
    <2>1. SUFFICES ASSUME bad # {} PROVE FALSE
      OBVIOUS
    <2>2. PICK n \in bad : \A m \in bad : ~ (m < n)
      <3>1. bad \in SUBSET Nat
        OBVIOUS
      <3> HIDE DEF bad
      <3> QED BY <2>1, <3>1, LeastNumber
    <2>3. n \in 0 .. N /\ f[n] # g[n]
      BY <2>2
    <2>4. n # 0
      BY <1>1, <1>2, <2>3 DEF JoinedBy
    <2>5. n - 1 \in 0 .. N /\ n - 1 < n /\ n \in 1 .. N /\ n \in 1 .. (N + 1)
      BY <2>3, <2>4
    <2>6. f[n - 1] = g[n - 1] /\ more[n] = pieces[n]
      BY <2>2, <2>5
    <2>7. f[n] = f[n - 1] \o pieces[n] /\ g[n] = g[n - 1] \o more[n]
      BY <1>1, <1>2, <2>5 DEF JoinedBy
    <2> QED BY <2>3, <2>6, <2>7
  <1>4. N \in 0 .. N /\ N + 1 \in 1 .. (N + 1) /\ (N + 1) - 1 = N
    OBVIOUS
  <1> HIDE DEF N
  <1>5. f[N] = g[N]
    BY <1>3, <1>4
  <1>6. g[N + 1] = g[N] \o more[N + 1]
    BY <1>2, <1>4 DEF JoinedBy
  <1> QED
    BY <1>1, <1>2, <1>5, <1>6 DEF N

\* Numbers written one behind the other.
LEMMA CanonicalAllTyped ==
  ASSUME NEW numbers \in Seq(Nat)
  PROVE  CanonicalAll(numbers) \in Seq(Nat)
  <1> DEFINE pieces == [k \in DOMAIN numbers |-> Canonical(numbers[k])]
             N == Len(numbers)
  <1>1. N \in Nat /\ DOMAIN numbers = 1 .. N
    OBVIOUS
  <1>2. \A k \in 1 .. N : pieces[k] \in Seq(Nat)
    <2> SUFFICES ASSUME NEW k \in 1 .. N PROVE pieces[k] \in Seq(Nat)
      OBVIOUS
    <2>1. numbers[k] \in Nat /\ k \in DOMAIN numbers
      BY <1>1, ElementOfSeq
    <2>2. pieces[k] = Canonical(numbers[k])
      BY <2>1
    <2> HIDE DEF pieces
    <2> QED BY <2>1, <2>2, CanonicalTyped
  <1>3. pieces \in Seq(Seq(Nat)) /\ Len(pieces) = N
    <2>1. DOMAIN pieces = 1 .. N
      BY <1>1
    <2>2. pieces = [k \in 1 .. N |-> pieces[k]]
      BY <2>1
    <2> HIDE DEF pieces
    <2>3. [k \in 1 .. N |-> pieces[k]] \in Seq(Seq(Nat))
      BY <1>1, <1>2
    <2>4. Len([k \in 1 .. N |-> pieces[k]]) = N
      BY <1>1
    <2> QED BY <2>2, <2>3, <2>4
  <1> HIDE DEF pieces, N
  <1>4. Joined(pieces) \in Seq(Nat)
    BY <1>1, <1>2, <1>3, JoinedTyped
  <1> QED
    BY <1>4 DEF CanonicalAll, pieces

\* What is written of a frame, and of a stream header, are numbers.
LEMMA FrameBytesTyped ==
  ASSUME NEW given \in Frames
  PROVE  FrameBytes(given) \in Seq(Nat)
  <1> DEFINE payload == Payload(given)
             front == Written(given.type, given.widths, 1)
             length == Written(Len(payload), given.widths, 2)
  <1>1. /\ given.type \in Nat /\ given.numbers \in Seq(Nat)
        /\ given.data \in Seq(Byte) /\ given.widths \in WidthChoices
    BY InputsAssumption DEF IsGivenFrame
  <1>2. given.data \in Seq(Nat)
    BY <1>1, Bases DEF Byte
  <1>3. payload \in Seq(Nat)
    BY <1>1, <1>2, CanonicalAllTyped, ConcatProperties DEF Payload
  <1>4. Len(payload) \in Nat
    BY <1>3
  <1>5. front \in Seq(Nat) /\ length \in Seq(Nat)
    BY <1>1, <1>4, WrittenTyped
  <1>6. FrameBytes(given) = (front \o length) \o payload
    BY DEF FrameBytes
  <1> HIDE DEF front, length, payload
  <1> QED
    BY <1>3, <1>5, <1>6, ConcatProperties

\* What is written of a stream header are numbers.
LEMMA HeaderBytesTyped ==
  ASSUME NEW header \in Headers
  PROVE  HeaderBytes(header) \in Seq(Nat)
  <1> DEFINE front == Written(header.type, header.widths, 1)
             push == Written(header.push, header.widths, 2)
  <1>1. header.type \in Nat /\ header.push \in Nat /\ header.widths \in WidthChoices
    BY InputsAssumption DEF IsHeader, IsNumber
  <1>2. front \in Seq(Nat) /\ push \in Seq(Nat)
    BY <1>1, WrittenTyped
  <1>3. HeaderBytes(header) = front \o (IF header.type = PUSH THEN push ELSE <<>>)
    BY DEF HeaderBytes
  <1> HIDE DEF front, push
  <1>4. <<>> \in Seq(Nat)
    OBVIOUS
  <1> QED
    BY <1>2, <1>3, <1>4, ConcatProperties

\* A tail of numbers, also one that starts behind the end.
LEMMA FromTyped ==
  ASSUME NEW bytes \in Seq(Nat), NEW start \in Nat, start > 0
  PROVE  From(bytes, start) \in Seq(Nat)
  BY DEF From

\* What is left after an integer, whatever its length.
LEMMA VarIntLengths ==
  ASSUME NEW bytes
  PROVE  VarIntLength(bytes) \in Lengths
  BY DEF VarIntLength, Lengths

\* Numbers are left behind an integer.
LEMMA AfterVarIntTyped ==
  ASSUME NEW bytes \in Seq(Nat)
  PROVE  AfterVarInt(bytes) \in Seq(Nat)
  <1>1. VarIntLength(bytes) + 1 \in Nat /\ VarIntLength(bytes) + 1 > 0
    BY VarIntLengths DEF Lengths
  <1> QED
    BY <1>1, FromTyped DEF AfterVarInt

\* What is read as an integer is one.
LEMMA VarIntInTyped ==
  ASSUME NEW bytes \in Seq(Nat), HasVarInt(bytes)
  PROVE  VarIntIn(bytes) \in Nat
  <1> DEFINE length == VarIntLength(bytes)
             b == [bytes EXCEPT ![1] = bytes[1] % Unit]
  <1>1. length \in Lengths /\ length <= Len(bytes) /\ Len(bytes) > 0
    BY VarIntLengths DEF HasVarInt
  <1>2. bytes[1] % Unit \in Nat
    <2>1. bytes[1] \in Nat
      BY <1>1
    <2> QED BY <2>1, Bases, Z3
  <1>3. b \in Seq(Nat) /\ Len(b) = Len(bytes)
    BY <1>1, <1>2, ExceptSeq
  <1>4. VarIntIn(bytes) = IF length = 1 THEN b[1]
                          ELSE IF length = 2 THEN U16(b)
                          ELSE IF length = 4 THEN U32(b)
                          ELSE U64(b)
    BY DEF VarIntIn
  <1> HIDE DEF length, b
  <1>5. \A k \in 1 .. length : b[k] \in Nat
    BY <1>1, <1>3 DEF Lengths
  <1>6. \A m, n \in Nat : m * ByteValues + n \in Nat
    BY Bases, Z3
  <1>7. length >= 2 => U16(b) \in Nat
    <2> SUFFICES ASSUME length >= 2 PROVE U16(b) \in Nat
      OBVIOUS
    <2>1. b[1] \in Nat /\ b[2] \in Nat
      BY <1>1, <1>5 DEF Lengths
    <2> QED BY <1>6, <2>1 DEF U16
  <1>8. length >= 4 => U32(b) \in Nat
    <2> SUFFICES ASSUME length >= 4 PROVE U32(b) \in Nat
      OBVIOUS
    <2>1. U16(b) \in Nat /\ b[3] \in Nat /\ b[4] \in Nat
      BY <1>1, <1>5, <1>7 DEF Lengths
    <2>2. U16(b) * ByteValues + b[3] \in Nat
      BY <1>6, <2>1
    <2> QED BY <1>6, <2>1, <2>2 DEF U32
  <1>9. length >= 8 => U64(b) \in Nat
    <2> SUFFICES ASSUME length >= 8 PROVE U64(b) \in Nat
      OBVIOUS
    <2>1. /\ b[5] \in Nat /\ b[6] \in Nat /\ b[7] \in Nat /\ b[8] \in Nat
          /\ U32(b) \in Nat
      BY <1>1, <1>5, <1>8 DEF Lengths
    <2>2. U32(b) * ByteValues + b[5] \in Nat
      BY <1>6, <2>1
    <2>3. (U32(b) * ByteValues + b[5]) * ByteValues + b[6] \in Nat
      BY <1>6, <2>1, <2>2
    <2>4. ((U32(b) * ByteValues + b[5]) * ByteValues + b[6]) * ByteValues + b[7] \in Nat
      BY <1>6, <2>1, <2>3
    <2> QED BY <1>6, <2>1, <2>4 DEF U64
  <1>10. b[1] \in Nat
    BY <1>1, <1>5 DEF Lengths
  <1> QED
    BY <1>1, <1>4, <1>7, <1>8, <1>9, <1>10 DEF Lengths

\* What is left after a stream header.
LEMMA AfterHeaderTyped ==
  ASSUME NEW bytes \in Seq(Nat)
  PROVE  AfterHeader(bytes) \in Seq(Nat)
  BY AfterVarIntTyped DEF AfterHeader

\* A frame is read from bytes, and its identifier is a number.
LEMMA FrameParts ==
  ASSUME NEW bytes \in Seq(Nat)
  PROVE  FrameIn(bytes).payload \in Seq(Nat)
  BY AfterVarIntTyped DEF FrameIn

\* The identifier of a well-formed frame is a number.
LEMMA IdentifierTyped ==
  ASSUME NEW frame, frame.payload \in Seq(Nat), frame.type \in {GOAWAY, MAX_PUSH_ID},
         IsWellFormed(frame)
  PROVE  IdentifierOf(frame) \in Nat
  BY VarIntInTyped DEF IsWellFormed, IsOneVarInt, IdentifierOf

\* A frame that was found lies within the bytes.
LEMMA ParseTyped ==
  ASSUME NEW bytes \in Seq(Nat), NEW maximum, Parse(bytes, maximum).result = "frame"
  PROVE  Parse(bytes, maximum).length \in 0 .. Len(bytes)
  <1> DEFINE afterType == AfterVarInt(bytes)
             start == VarIntLength(bytes) + VarIntLength(afterType)
  <1>1. afterType \in Seq(Nat)
    BY AfterVarIntTyped
  <1>2. start \in Nat
    BY VarIntLengths DEF Lengths
  <1>3. /\ HasVarInt(afterType) /\ Parse(bytes, maximum).length = start + VarIntIn(afterType)
        /\ ~ (Len(bytes) < start + VarIntIn(afterType))
    BY DEF Parse
  <1> HIDE DEF afterType, start
  <1> QED
    BY <1>1, <1>2, <1>3, VarIntInTyped

-----------------------------------------------------------------------------
(* Types *)

\* What is on its way on a stream are numbers.
WireInv == wire \in [Streams -> Seq(Nat)]

\* The history is a sequence, of whatever was logged.
HistoryInv == \E S : events \in Seq(S)

\* What appending to a sequence does, and what a prefix is.
LEMMA Appended ==
  ASSUME NEW S, NEW q \in Seq(S), NEW e
  PROVE  /\ Len(q) \in Nat /\ DOMAIN q = 1 .. Len(q)
         /\ Append(q, e) \in Seq(S \cup {e})
         /\ Len(Append(q, e)) = Len(q) + 1
         /\ DOMAIN Append(q, e) = 1 .. (Len(q) + 1)
         /\ \A j \in 1 .. Len(q) : Append(q, e)[j] = q[j]
         /\ Append(q, e)[Len(q) + 1] = e
  <1>1. q \in Seq(S \cup {e})
    OBVIOUS
  <1> QED
    BY <1>1, AppendProperties

\* A beginning of numbers are numbers.
LEMMA PrefixTyped ==
  ASSUME NEW q \in Seq(Nat), NEW m \in 0 .. Len(q)
  PROVE  SubSeq(q, 1, m) \in Seq(Nat) /\ Len(SubSeq(q, 1, m)) = m
  BY SubSeqProperties

\* The bytes of a frame that arrives, and the frame.
LEMMA ArrivedTyped ==
  ASSUME WireInv, NEW s \in Streams, NEW n \in 0 .. Len(wire[s]),
         Arrived(s, n).result = "frame"
  PROVE  /\ Arrived(s, n).length \in 0 .. Len(wire[s])
         /\ FrameIn(SubSeq(wire[s], 1, Arrived(s, n).length)).payload \in Seq(Nat)
  <1>1. wire[s] \in Seq(Nat)
    BY DEF WireInv
  <1> DEFINE q == wire[s]
             length == Arrived(s, n).length
  <1>2. q \in Seq(Nat) /\ n \in 0 .. Len(q)
    BY <1>1
  <1>3. SubSeq(q, 1, n) \in Seq(Nat) /\ Len(SubSeq(q, 1, n)) = n
    BY <1>2, PrefixTyped
  <1>4. length \in 0 .. n
    BY <1>3, ParseTyped DEF Arrived
  <1>5. length \in 0 .. Len(q)
    BY <1>2, <1>4
  <1>6. SubSeq(q, 1, length) \in Seq(Nat)
    BY <1>2, <1>5, PrefixTyped
  <1> QED
    BY <1>5, <1>6, FrameParts

\* Every action leaves numbers on the wire: writes add some, reads leave a tail.
LEMMA WireStep ==
  ASSUME WireInv, [Next]_vars
  PROVE  WireInv'
  <1>1. ASSUME NEW s \in Streams, NEW bytes \in Seq(Nat),
               wire' = [wire EXCEPT ![s] = @ \o bytes]
        PROVE  WireInv'
    <2>1. wire[s] \in Seq(Nat)
      BY DEF WireInv
    <2>2. wire[s] \o bytes \in Seq(Nat)
      BY <2>1, ConcatProperties
    <2> QED BY <1>1, <2>2 DEF WireInv
  <1>2. ASSUME NEW s \in Streams, OpenStream(s)
        PROVE  WireInv'
    BY <1>1, <1>2, HeaderBytesTyped DEF OpenStream, Write
  <1>3. ASSUME NEW s \in Streams, WriteFrame(s)
        PROVE  WireInv'
    BY <1>1, <1>3, FrameBytesTyped DEF WriteFrame, Write
  <1>4. ASSUME NEW s \in Streams, ReceiveHeader(s)
        PROVE  WireInv'
    <2>1. wire' = [wire EXCEPT ![s] = AfterHeader(@)]
      BY <1>4 DEF ReceiveHeader
    <2>2. AfterHeader(wire[s]) \in Seq(Nat)
      BY AfterHeaderTyped DEF WireInv
    <2> QED BY <2>1, <2>2 DEF WireInv
  <1>5. ASSUME NEW s \in Streams, ReceiveFrame(s)
        PROVE  WireInv'
    <2>1. PICK n \in 0 .. Len(wire[s]) :
             /\ Arrived(s, n).result = "frame"
             /\ wire' = [wire EXCEPT ![s] = From(@, Arrived(s, n).length + 1)]
      BY <1>5 DEF ReceiveFrame
    <2>2. Arrived(s, n).length \in 0 .. Len(wire[s])
      BY <2>1, ArrivedTyped
    <2>3. wire[s] \in Seq(Nat) /\ Len(wire[s]) \in Nat
      BY DEF WireInv
    <2>4. Arrived(s, n).length + 1 \in Nat /\ Arrived(s, n).length + 1 > 0
      BY <2>2, <2>3
    <2>5. From(wire[s], Arrived(s, n).length + 1) \in Seq(Nat)
      BY <2>3, <2>4, FromTyped
    <2> QED BY <2>1, <2>5 DEF WireInv
  <1>6. ASSUME NEW s \in Streams, CloseStream(s) \/ ReceiveClosed(s) \/ RefuseLength(s)
        PROVE  WireInv'
    BY <1>6 DEF CloseStream, ReceiveClosed, RefuseLength, WireInv
  <1>7. CASE UNCHANGED vars
    BY <1>7 DEF vars, WireInv
  <1> QED
    BY <1>2, <1>3, <1>4, <1>5, <1>6, <1>7 DEF Next

\* The values that the control stream keeps are numbers.
Kept == {None} \cup {Some(n) : n \in Nat}

\* Whatever a frame does to them, the two identifiers stay numbers or nothing.
LEMMA ReceivedTyped ==
  ASSUME NEW frame, frame.payload \in Seq(Nat), goaway \in Kept, maximumPush \in Kept
  PROVE  Received(frame).goaway \in Kept /\ Received(frame).maximumPush \in Kept
  <1> DEFINE Typed(after) == after.goaway \in Kept /\ after.maximumPush \in Kept
  <1>1. \A answer, s : Typed(After(answer, s, goaway, maximumPush))
    BY DEF After
  <1>2. \A answer : Typed(Refused(answer))
    BY <1>1 DEF Refused
  <1>3. Typed(Unchanged)
    BY <1>2 DEF Unchanged
  <1>4. Typed(SettingsReceived(frame))
    BY <1>1, <1>2 DEF SettingsReceived
  <1>5. Typed(CancelPushReceived(frame))
    BY <1>2, <1>3 DEF CancelPushReceived
  <1>6. frame.type = GOAWAY => Typed(GoawayReceived(frame))
    <2> SUFFICES ASSUME frame.type = GOAWAY, IsWellFormed(frame)
                 PROVE  Typed(GoawayReceived(frame))
      BY <1>2 DEF GoawayReceived
    <2>1. Some(IdentifierOf(frame)) \in Kept
      BY IdentifierTyped DEF Kept
    <2>2. Typed(After(Ok, settings, Some(IdentifierOf(frame)), maximumPush))
      BY <2>1 DEF After
    <2> QED BY <1>2, <2>2 DEF GoawayReceived
  <1>7. frame.type = MAX_PUSH_ID => Typed(MaxPushIdReceived(frame))
    <2> SUFFICES ASSUME frame.type = MAX_PUSH_ID, IsWellFormed(frame)
                 PROVE  Typed(MaxPushIdReceived(frame))
      BY <1>2 DEF MaxPushIdReceived
    <2>1. Some(IdentifierOf(frame)) \in Kept
      BY IdentifierTyped DEF Kept
    <2>2. Typed(After(Ok, settings, goaway, Some(IdentifierOf(frame))))
      BY <2>1 DEF After
    <2> QED BY <1>2, <2>2 DEF MaxPushIdReceived
  <1> HIDE DEF Typed
  <1>8. Typed(Received(frame))
    BY <1>2, <1>3, <1>4, <1>5, <1>6, <1>7 DEF Received
  <1> QED
    BY <1>8 DEF Typed

\* The types are inductive together with those of the bytes.
TypeInv == TypeOK /\ WireInv

\* The types hold at first,
LEMMA TypeInit ==
  ASSUME Init
  PROVE  TypeInv
  BY DEF Init, TypeInv, TypeOK, WireInv

\* and after every action.
LEMMA TypeStep ==
  ASSUME TypeInv, [Next]_vars
  PROVE  TypeInv'
  <1>1. WireInv'
    BY WireStep DEF TypeInv
  <1>2. ASSUME NEW s \in Streams, OpenStream(s) \/ WriteFrame(s)
        PROVE  TypeOK'
    BY <1>2 DEF TypeInv, TypeOK, OpenStream, WriteFrame, Write, receiver
  <1>3. ASSUME NEW s \in Streams, CloseStream(s) \/ ReceiveClosed(s) \/ RefuseLength(s)
        PROVE  TypeOK'
    BY <1>3 DEF TypeInv, TypeOK, CloseStream, ReceiveClosed, RefuseLength, receiver
  <1>4. ASSUME NEW s \in Streams, ReceiveHeader(s)
        PROVE  TypeOK'
    <2>1. /\ \/ critical' = critical
             \/ \E type \in CriticalTypes : critical' = [critical EXCEPT ![type] = Some(s)]
          /\ UNCHANGED <<role, settings, goaway, maximumPush, sent, closed, stopped>>
      BY <1>4 DEF ReceiveHeader
    <2>2. critical' \in [CriticalTypes -> {None} \cup {Some(i) : i \in Streams}]
      BY <2>1 DEF TypeInv, TypeOK
    <2> QED BY <2>1, <2>2 DEF TypeInv, TypeOK
  <1>5. ASSUME NEW s \in Streams, ReceiveFrame(s)
        PROVE  TypeOK'
    <2>1. PICK n \in 0 .. Len(wire[s]) :
             LET frame == FrameIn(SubSeq(wire[s], 1, Arrived(s, n).length))
             IN  /\ Arrived(s, n).result = "frame"
                 /\ goaway' = Received(frame).goaway
                 /\ maximumPush' = Received(frame).maximumPush
                 /\ UNCHANGED <<role, critical, sent, closed, stopped>>
      BY <1>5 DEF ReceiveFrame
    <2>2. FrameIn(SubSeq(wire[s], 1, Arrived(s, n).length)).payload \in Seq(Nat)
      BY <2>1, ArrivedTyped DEF TypeInv
    <2>3. goaway' \in Kept /\ maximumPush' \in Kept
      BY <2>1, <2>2, ReceivedTyped DEF TypeInv, TypeOK, Kept
    <2> QED BY <2>1, <2>3 DEF TypeInv, TypeOK, Kept
  <1>6. ASSUME UNCHANGED vars
        PROVE  TypeOK'
    BY <1>6 DEF TypeInv, TypeOK, vars, receiver
  <1> QED
    BY <1>1, <1>2, <1>3, <1>4, <1>5, <1>6 DEF Next, TypeInv

\* Whatever a peer writes, the three fields of the tracker name streams that it uses,
\* and the identifiers that the control stream keeps are numbers.
THEOREM PeerStreamsTypeCorrect == Spec => []TypeOK
  <1>1. Init => TypeInv
    BY TypeInit
  <1>2. TypeInv /\ [Next]_vars => TypeInv'
    BY TypeStep
  <1>3. TypeInv => TypeOK
    BY DEF TypeInv
  <1> QED
    BY <1>1, <1>2, <1>3, PTL DEF Spec

-----------------------------------------------------------------------------
(* The history *)

\* What a step leaves of the history when it logs an event, or nothing.
Remembers ==
  /\ Len(events) \in Nat /\ DOMAIN events = 1 .. Len(events)
  /\ \A j \in 1 .. Len(events) : events'[j] = events[j]

\* What logging an event does to the history.
LEMMA LoggedStep ==
  ASSUME HistoryInv, NEW kind, NEW s, NEW item, NEW answer, Logged(kind, s, item, answer)
  PROVE  /\ HistoryInv' /\ Remembers
         /\ Len(events') = Len(events) + 1
         /\ DOMAIN events' = 1 .. (Len(events) + 1)
         /\ events'[Len(events) + 1]
               = [kind |-> kind, stream |-> s, item |-> item, answer |-> answer]
  <1> DEFINE e == [kind |-> kind, stream |-> s, item |-> item, answer |-> answer]
  <1>1. PICK S : events \in Seq(S)
    BY DEF HistoryInv
  <1>2. events' = Append(events, e)
    BY DEF Logged
  <1> HIDE DEF e
  <1>3. /\ events' \in Seq(S \cup {e})
        /\ Len(events') = Len(events) + 1
        /\ DOMAIN events' = 1 .. (Len(events) + 1)
        /\ events'[Len(events) + 1] = e
        /\ Remembers
    BY <1>1, <1>2, Appended DEF Remembers
  <1>4. HistoryInv'
    BY <1>3 DEF HistoryInv
  <1> QED
    BY <1>3, <1>4 DEF e

\* What was accepted up to an event is settled when the event happens.
LEMMA PastIsSettled ==
  ASSUME Remembers, NEW k \in 1 .. (Len(events) + 1)
  PROVE  /\ Accepted(k)' = Accepted(k)
         /\ Registered(k)' = Registered(k)
         /\ EarlierFrames(k)' = EarlierFrames(k)
         /\ Accepted(k) \subseteq 1 .. Len(events)
  <1>1. \A j \in 1 .. (k - 1) : j \in 1 .. Len(events) /\ events'[j] = events[j]
    BY DEF Remembers
  <1>2. Accepted(k)' = Accepted(k) /\ Accepted(k) \subseteq 1 .. (k - 1)
    BY <1>1 DEF Accepted
  <1>3. \A j \in Accepted(k) : events'[j] = events[j] /\ j \in 1 .. Len(events)
    BY <1>1, <1>2
  <1>4. Registered(k)' = Registered(k)
    BY <1>2, <1>3 DEF Registered
  <1>5. {i \in Accepted(k) : events[i].kind = "frame"}'
          = {i \in Accepted(k) : events[i].kind = "frame"}
    BY <1>2, <1>3
  <1>6. EarlierFrames(k)' = EarlierFrames(k)
    BY <1>3, <1>5 DEF EarlierFrames
  <1> QED
    BY <1>2, <1>3, <1>4, <1>6

\* A new event is the only one that can be accepted anew.
LEMMA NewlyAccepted ==
  ASSUME HistoryInv, NEW kind, NEW s, NEW item, NEW answer, Logged(kind, s, item, answer),
         NEW n, n = Len(events)
  PROVE  Accepted(n + 2)' = Accepted(n + 1) \cup (IF answer = Ok THEN {n + 1} ELSE {})
  <1>1. /\ n \in Nat
        /\ events'[n + 1] = [kind |-> kind, stream |-> s, item |-> item, answer |-> answer]
        /\ \A j \in 1 .. n : events'[j] = events[j]
    BY LoggedStep DEF Remembers
  <1>2. Accepted(n + 2)' = {j \in 1 .. (n + 1) : events'[j].answer = Ok}
    <2>1. (n + 2) - 1 = n + 1
      BY <1>1
    <2> QED BY <2>1 DEF Accepted
  <1>3. Accepted(n + 1) = {j \in 1 .. n : events[j].answer = Ok}
    BY <1>1 DEF Accepted
  <1> QED
    BY <1>1, <1>2, <1>3

\* An Option that holds a value is not empty, and holds one value.
LEMMA SomeIsSome ==
  /\ \A a, b : Some(a) = Some(b) => a = b
  /\ \A a : Some(a) # None /\ Some(a)[1] = a
  BY DEF Some, None

-----------------------------------------------------------------------------
(* The tracker *)

\* The three fields stand for the accepted headers of critical streams.
CriticalInv ==
  \A n \in Nat : n = Len(events) =>
    \A type \in CriticalTypes : \A s :
       critical[type] = Some(s)
         <=> \E j \in Registered(n + 1) :
                events[j].item.type = type /\ events[j].stream = s

\* The inductive invariant of the tracker.
TrackerInv == HistoryInv /\ CriticalInv /\ StreamsExactlyLegal

\* A header, a close and every other event: what they add to the registered ones.
LEMMA NewlyRegistered ==
  ASSUME HistoryInv, NEW kind, NEW s, NEW item, NEW answer, Logged(kind, s, item, answer),
         NEW n, n = Len(events)
  PROVE  Registered(n + 2)'
           = Registered(n + 1)
               \cup (IF answer = Ok /\ kind = "header" /\ item.type \in CriticalTypes
                     THEN {n + 1} ELSE {})
  <1>1. /\ n \in Nat
        /\ events'[n + 1] = [kind |-> kind, stream |-> s, item |-> item, answer |-> answer]
        /\ \A j \in 1 .. n : events'[j] = events[j]
    BY LoggedStep DEF Remembers
  <1>2. /\ Accepted(n + 2)' = Accepted(n + 1) \cup (IF answer = Ok THEN {n + 1} ELSE {})
        /\ Accepted(n + 1) \subseteq 1 .. n
    BY NewlyAccepted, LoggedStep, PastIsSettled, <1>1
  <1>3. Registered(n + 2)'
          = {j \in Accepted(n + 2)' : /\ events'[j].kind = "header"
                                      /\ events'[j].item.type \in CriticalTypes}
    BY DEF Registered
  <1>4. Registered(n + 1)
          = {j \in Accepted(n + 1) : /\ events[j].kind = "header"
                                     /\ events[j].item.type \in CriticalTypes}
    BY DEF Registered
  <1>5. \A j \in Accepted(n + 1) : events'[j] = events[j]
    BY <1>1, <1>2
  <1> QED
    BY <1>1, <1>2, <1>3, <1>4, <1>5

\* Whether an earlier header or close was legal does not depend on what comes later.
LEMMA EarlierAnswersStand ==
  ASSUME StreamsExactlyLegal, Remembers, role' = role, NEW k \in 1 .. Len(events)
  PROVE  /\ events'[k].kind = "header" => (events'[k].answer = Ok <=> MayOpen(k)')
         /\ events'[k].kind = "closed" => (events'[k].answer = Ok <=> MayClose(k)')
  <1>1. /\ events[k].kind = "header" => (events[k].answer = Ok <=> MayOpen(k))
        /\ events[k].kind = "closed" => (events[k].answer = Ok <=> MayClose(k))
    BY DEF StreamsExactlyLegal, Remembers
  <1>2. events'[k] = events[k]
    BY DEF Remembers
  <1>3. Registered(k)' = Registered(k) /\ Registered(k) \subseteq 1 .. Len(events)
    BY PastIsSettled DEF Registered, Remembers
  <1>4. \A j \in Registered(k) : events'[j] = events[j]
    BY <1>3 DEF Remembers
  <1>5. MayOpen(k)' <=> MayOpen(k)
    BY <1>2, <1>3, <1>4 DEF MayOpen
  <1>6. MayClose(k)' <=> MayClose(k)
    BY <1>2, <1>3, <1>4 DEF MayClose
  <1> QED
    BY <1>1, <1>2, <1>5, <1>6

\* The answers to a header and to a close are the legal ones.
LEMMA HeaderAnswerIsLegal ==
  ASSUME TrackerInv, TypeOK, role' = role, NEW s \in Streams, NEW header,
         Logged("header", s, header, HeaderAnswer(s, header)),
         NEW n, n = Len(events)
  PROVE  HeaderAnswer(s, header) = Ok <=> MayOpen(n + 1)'
  <1>1. /\ n \in Nat /\ Remembers
        /\ events'[n + 1] = [kind |-> "header", stream |-> s, item |-> header,
                             answer |-> HeaderAnswer(s, header)]
        /\ \A j \in 1 .. n : events'[j] = events[j]
    BY LoggedStep DEF Remembers, TrackerInv
  <1>2. Registered(n + 1)' = Registered(n + 1) /\ Registered(n + 1) \subseteq 1 .. n
    BY <1>1, PastIsSettled DEF Registered
  <1>3. MayOpen(n + 1)'
          <=> /\ Encodable(s)
              /\ s % 4 = (IF role = "Client" THEN 3 ELSE 2)
              /\ header.type = PUSH => role = "Client"
              /\ \A j \in Registered(n + 1) : events[j].item.type # header.type
    BY <1>1, <1>2 DEF MayOpen
  <1>4. header.type \in CriticalTypes =>
          (critical[header.type] # None
             <=> \E j \in Registered(n + 1) : events[j].item.type = header.type)
    <2> SUFFICES ASSUME header.type \in CriticalTypes
                 PROVE  critical[header.type] # None
                          <=> \E j \in Registered(n + 1) : events[j].item.type = header.type
      OBVIOUS
    <2>1. \A t : critical[header.type] = Some(t)
                   <=> \E j \in Registered(n + 1) :
                          events[j].item.type = header.type /\ events[j].stream = t
      BY <1>1 DEF TrackerInv, CriticalInv
    <2>2. critical[header.type] \in {None} \cup {Some(t) : t \in Streams}
      BY DEF TypeOK
    <2>3. critical[header.type] # None => \E t : critical[header.type] = Some(t)
      BY <2>2
    <2>4. ASSUME NEW j \in Registered(n + 1), events[j].item.type = header.type
          PROVE  critical[header.type] # None
      <3>1. critical[header.type] = Some(events[j].stream)
        BY <2>1, <2>4
      <3> QED BY <3>1, SomeIsSome
    <2> QED BY <2>1, <2>3, <2>4
  <1>5. \A j \in Registered(n + 1) : events[j].item.type \in CriticalTypes
    BY DEF Registered
  <1>6. role = "Client" \/ role = "Server"
    BY DEF TypeOK
  <1>7. HeaderAnswer(s, header) = Ok
          <=> /\ IsPeerUnidirectional(s)
              /\ ~ (header.type \in CriticalTypes /\ critical[header.type] # None)
              /\ ~ (header.type = PUSH /\ role = "Server")
    BY DEF HeaderAnswer, Ok
  <1> QED
    BY <1>3, <1>4, <1>5, <1>6, <1>7 DEF IsPeerUnidirectional

\* So is a close.
LEMMA ClosedAnswerIsLegal ==
  ASSUME TrackerInv, NEW s \in Streams,
         Logged("closed", s, None, ClosedAnswer(s)),
         NEW n, n = Len(events)
  PROVE  ClosedAnswer(s) = Ok <=> MayClose(n + 1)'
  <1>1. /\ n \in Nat /\ Remembers
        /\ events'[n + 1] = [kind |-> "closed", stream |-> s, item |-> None,
                             answer |-> ClosedAnswer(s)]
        /\ \A j \in 1 .. n : events'[j] = events[j]
    BY LoggedStep DEF Remembers, TrackerInv
  <1>2. Registered(n + 1)' = Registered(n + 1) /\ Registered(n + 1) \subseteq 1 .. n
    BY <1>1, PastIsSettled DEF Registered
  <1>3. MayClose(n + 1)' <=> \A j \in Registered(n + 1) : events[j].stream # s
    BY <1>1, <1>2 DEF MayClose
  <1>4. (\E type \in CriticalTypes : critical[type] = Some(s))
          <=> \E j \in Registered(n + 1) : events[j].stream = s
    <2>1. \A j \in Registered(n + 1) : events[j].item.type \in CriticalTypes
      BY DEF Registered
    <2> QED BY <1>1, <2>1 DEF TrackerInv, CriticalInv
  <1>5. ClosedAnswer(s) = Ok <=> ~ \E type \in CriticalTypes : critical[type] = Some(s)
    BY DEF ClosedAnswer, Ok
  <1> QED
    BY <1>3, <1>4, <1>5

\* An event that registers nothing leaves the fields true.
LEMMA CriticalKept ==
  ASSUME HistoryInv, CriticalInv, critical' = critical,
         NEW kind, NEW s, NEW item, NEW answer, Logged(kind, s, item, answer),
         ~ (answer = Ok /\ kind = "header" /\ item.type \in CriticalTypes)
  PROVE  CriticalInv'
  <1> SUFFICES ASSUME NEW m \in Nat, m = Len(events')
               PROVE  \A type \in CriticalTypes : \A t :
                         critical[type] = Some(t)
                           <=> \E j \in Registered(m + 1)' :
                                  events'[j].item.type = type /\ events'[j].stream = t
    BY DEF CriticalInv
  <1>1. PICK n \in Nat : n = Len(events)
    BY LoggedStep DEF Remembers
  <1>2. Len(events') = Len(events) + 1 /\ Remembers
    BY LoggedStep
  <1>3. m = n + 1 /\ m + 1 = n + 2 /\ \A j \in 1 .. n : events'[j] = events[j]
    BY <1>1, <1>2 DEF Remembers
  <1>4. Registered(n + 2)' = Registered(n + 1)
    BY <1>1, NewlyRegistered
  <1>5. Accepted(n + 1) \subseteq 1 .. n
    BY <1>1, <1>2, PastIsSettled
  <1>6. \A j \in Registered(n + 1) : events'[j] = events[j]
    BY <1>3, <1>5 DEF Registered
  <1>7. Registered(m + 1)' = Registered(n + 1)
    BY <1>3, <1>4
  <1>8. \A type \in CriticalTypes : \A t :
           critical[type] = Some(t)
             <=> \E j \in Registered(n + 1) :
                    events[j].item.type = type /\ events[j].stream = t
    BY <1>1 DEF CriticalInv
  <1> QED
    BY <1>6, <1>7, <1>8

\* A header of a critical stream that is accepted takes a free field.
LEMMA CriticalTaken ==
  ASSUME HistoryInv, CriticalInv, TypeOK, NEW s, NEW header, header.type \in CriticalTypes,
         critical[header.type] = None,
         critical' = [critical EXCEPT ![header.type] = Some(s)],
         Logged("header", s, header, Ok)
  PROVE  CriticalInv'
  <1> SUFFICES ASSUME NEW m \in Nat, m = Len(events'), NEW type \in CriticalTypes, NEW t
               PROVE  critical'[type] = Some(t)
                        <=> \E j \in Registered(m + 1)' :
                               events'[j].item.type = type /\ events'[j].stream = t
    BY DEF CriticalInv
  <1>1. PICK n \in Nat : n = Len(events)
    BY LoggedStep DEF Remembers
  <1>2. /\ Len(events') = Len(events) + 1 /\ Remembers
        /\ events'[n + 1] = [kind |-> "header", stream |-> s, item |-> header, answer |-> Ok]
    BY <1>1, LoggedStep
  <1>3. m = n + 1 /\ m + 1 = n + 2 /\ \A j \in 1 .. n : events'[j] = events[j]
    BY <1>1, <1>2 DEF Remembers
  <1>4. Registered(n + 2)' = Registered(n + 1) \cup {n + 1}
    BY <1>1, NewlyRegistered
  <1>5. Accepted(n + 1) \subseteq 1 .. n
    BY <1>1, <1>2, PastIsSettled
  <1>6. \A j \in Registered(n + 1) : events'[j] = events[j]
    BY <1>3, <1>5 DEF Registered
  <1>7. critical[type] = Some(t)
          <=> \E j \in Registered(n + 1) :
                 events[j].item.type = type /\ events[j].stream = t
    BY <1>1 DEF CriticalInv
  <1>8. /\ events'[n + 1].item.type = header.type
        /\ events'[n + 1].stream = s
    BY <1>2
  <1>9. (\E j \in Registered(m + 1)' : events'[j].item.type = type /\ events'[j].stream = t)
          <=> critical[type] = Some(t) \/ (header.type = type /\ s = t)
    BY <1>3, <1>4, <1>6, <1>7, <1>8
  <1>10. critical'[type] = IF type = header.type THEN Some(s) ELSE critical[type]
    BY DEF TypeOK
  <1>11. type = header.type => critical[type] # Some(t)
    BY SomeIsSome
  <1> QED
    BY <1>9, <1>10, <1>11, SomeIsSome

\* The new event is answered as it must be, and the earlier ones were.
LEMMA AnswersStand ==
  ASSUME TrackerInv, role' = role,
         NEW kind, NEW s, NEW item, NEW answer, Logged(kind, s, item, answer),
         \A n : n = Len(events) =>
            /\ kind = "header" => (answer = Ok <=> MayOpen(n + 1)')
            /\ kind = "closed" => (answer = Ok <=> MayClose(n + 1)')
  PROVE  StreamsExactlyLegal'
  <1>1. PICK n \in Nat : n = Len(events)
    BY LoggedStep DEF Remembers, TrackerInv
  <1>2. /\ Remembers
        /\ DOMAIN events' = 1 .. (n + 1)
        /\ events'[n + 1] = [kind |-> kind, stream |-> s, item |-> item, answer |-> answer]
    BY <1>1, LoggedStep DEF TrackerInv
  <1> SUFFICES ASSUME NEW k \in 1 .. (n + 1)
               PROVE  /\ events'[k].kind = "header" => (events'[k].answer = Ok <=> MayOpen(k)')
                      /\ events'[k].kind = "closed" => (events'[k].answer = Ok <=> MayClose(k)')
    BY <1>2 DEF StreamsExactlyLegal
  <1>3. CASE k \in 1 .. n
    BY <1>1, <1>2, <1>3, EarlierAnswersStand DEF TrackerInv
  <1>4. CASE k = n + 1
    <2>1. events'[k].kind = kind /\ events'[k].answer = answer
      BY <1>2, <1>4
    <2> QED BY <1>1, <1>4, <2>1
  <1> QED
    BY <1>3, <1>4

\* One step per action: only headers and closes concern the tracker.
LEMMA TrackerStep ==
  ASSUME TypeInv, TrackerInv, [Next]_vars
  PROVE  TrackerInv'
  <1>1. TypeOK
    BY DEF TypeInv
  <1>2. ASSUME UNCHANGED <<role, critical, events>>
        PROVE  TrackerInv'
    BY <1>2 DEF TrackerInv, HistoryInv, CriticalInv, StreamsExactlyLegal, MayOpen, MayClose,
                Registered, Accepted
  <1>3. ASSUME NEW s \in Streams,
               \/ OpenStream(s) \/ WriteFrame(s) \/ CloseStream(s) \/ RefuseLength(s)
        PROVE  TrackerInv'
    BY <1>2, <1>3 DEF OpenStream, WriteFrame, Write, CloseStream, RefuseLength, receiver
  <1>4. ASSUME NEW s \in Streams, ReceiveHeader(s)
        PROVE  TrackerInv'
    <2>1. PICK header :
             LET answer == HeaderAnswer(s, header)
             IN  /\ critical' = IF answer = Ok /\ header.type \in CriticalTypes
                                THEN [critical EXCEPT ![header.type] = Some(s)] ELSE critical
                 /\ Logged("header", s, header, answer)
                 /\ role' = role
      BY <1>4 DEF ReceiveHeader
    <2> DEFINE answer == HeaderAnswer(s, header)
    <2>2. StreamsExactlyLegal'
      BY <1>1, <2>1, HeaderAnswerIsLegal, AnswersStand
    <2>3. CriticalInv'
      <3>1. CASE answer = Ok /\ header.type \in CriticalTypes
        <4>1. critical[header.type] = None
          BY <3>1 DEF HeaderAnswer, Ok
        <4> QED BY <1>1, <2>1, <3>1, <4>1, CriticalTaken DEF TrackerInv
      <3>2. CASE ~ (answer = Ok /\ header.type \in CriticalTypes)
        BY <2>1, <3>2, CriticalKept DEF TrackerInv
      <3> QED BY <3>1, <3>2
    <2>4. HistoryInv'
      BY <2>1, LoggedStep DEF TrackerInv
    <2> QED BY <2>2, <2>3, <2>4 DEF TrackerInv
  <1>5. ASSUME NEW s \in Streams, ReceiveClosed(s)
        PROVE  TrackerInv'
    <2>1. /\ Logged("closed", s, None, ClosedAnswer(s))
          /\ role' = role /\ critical' = critical
      BY <1>5 DEF ReceiveClosed, receiver
    <2>2. StreamsExactlyLegal'
      BY <2>1, ClosedAnswerIsLegal, AnswersStand
    <2>3. HistoryInv' /\ CriticalInv'
      BY <2>1, LoggedStep, CriticalKept DEF TrackerInv
    <2> QED BY <2>2, <2>3 DEF TrackerInv
  <1>6. ASSUME NEW s \in Streams, ReceiveFrame(s)
        PROVE  TrackerInv'
    <2>1. PICK frame : /\ Logged("frame", s, frame, Received(frame).answer)
                       /\ role' = role /\ critical' = critical
      BY <1>6 DEF ReceiveFrame
    <2>2. StreamsExactlyLegal'
      BY <2>1, AnswersStand
    <2>3. HistoryInv' /\ CriticalInv'
      BY <2>1, LoggedStep, CriticalKept DEF TrackerInv
    <2> QED BY <2>2, <2>3 DEF TrackerInv
  <1>7. CASE UNCHANGED vars
    BY <1>2, <1>7 DEF vars, receiver
  <1> QED
    BY <1>3, <1>4, <1>5, <1>6, <1>7 DEF Next

\* At first nothing has been accepted.
LEMMA TrackerInit ==
  ASSUME Init
  PROVE  TrackerInv
  <1>1. events = <<>> /\ Len(events) = 0 /\ DOMAIN events = {}
    BY DEF Init
  <1>2. events \in Seq({}) /\ HistoryInv
    BY <1>1 DEF HistoryInv
  <1>3. Registered(1) = {}
    BY DEF Registered, Accepted
  <1>4. CriticalInv
    BY <1>1, <1>3, SomeIsSome DEF CriticalInv, Init
  <1> QED
    BY <1>1, <1>2, <1>4 DEF TrackerInv, StreamsExactlyLegal

\* However the headers and the ends of any number of streams are interleaved, and after
\* any refused ones, a header is accepted exactly if the earlier ones leave room for it,
\* and a close is an error exactly if the stream had become a critical one.
THEOREM SpecStreamsExactlyLegal == Spec => []StreamsExactlyLegal
  <1>1. Init => TypeInv /\ TrackerInv
    BY TypeInit, TrackerInit
  <1>2. TypeInv /\ TrackerInv /\ [Next]_vars => TypeInv' /\ TrackerInv'
    BY TypeStep, TrackerStep
  <1>3. TrackerInv => StreamsExactlyLegal
    BY DEF TrackerInv
  <1> QED
    BY <1>1, <1>2, <1>3, PTL DEF Spec

-----------------------------------------------------------------------------
(* The control stream *)

\* The frames of a type.
OfType(type, taken) == {f \in taken : f.type = type}

\* Some frame of those taken has this identifier, and it is the least, the greatest.
IsLeast(n, frames) ==
  /\ \E f \in frames : IdentifierOf(f) = n
  /\ \A f \in frames : IdentifierOf(f) \in Nat /\ n <= IdentifierOf(f)

IsGreatest(n, frames) ==
  /\ \E f \in frames : IdentifierOf(f) = n
  /\ \A f \in frames : IdentifierOf(f) \in Nat /\ n >= IdentifierOf(f)

\* Three values stand for the frames that were taken.
Sums(taken, first, least, greatest) ==
  /\ first = None <=> taken = {}
  /\ \/ least = None /\ OfType(GOAWAY, taken) = {}
     \/ \E n \in Nat : least = Some(n) /\ IsLeast(n, OfType(GOAWAY, taken))
  /\ \/ greatest = None /\ OfType(MAX_PUSH_ID, taken) = {}
     \/ \E n \in Nat : greatest = Some(n) /\ IsGreatest(n, OfType(MAX_PUSH_ID, taken))

\* What the control stream keeps stands for all the frames that it has taken.
ControlInv ==
  \A n \in Nat : n = Len(events) => Sums(EarlierFrames(n + 1), settings, goaway, maximumPush)

\* The inductive invariant of the control stream.
FramesInv == HistoryInv /\ ControlInv /\ FramesExactlyLegal

\* A new event is the only one that can add a frame to those taken.
LEMMA NewlyTaken ==
  ASSUME HistoryInv, NEW kind, NEW s, NEW item, NEW answer, Logged(kind, s, item, answer),
         NEW n, n = Len(events)
  PROVE  EarlierFrames(n + 2)'
           = EarlierFrames(n + 1) \cup (IF answer = Ok /\ kind = "frame" THEN {item} ELSE {})
  <1>1. /\ n \in Nat /\ Remembers
        /\ events'[n + 1] = [kind |-> kind, stream |-> s, item |-> item, answer |-> answer]
        /\ \A j \in 1 .. n : events'[j] = events[j]
    BY LoggedStep DEF Remembers
  <1>2. Accepted(n + 2)' = Accepted(n + 1) \cup (IF answer = Ok THEN {n + 1} ELSE {})
    BY NewlyAccepted
  <1>3. Accepted(n + 1) \subseteq 1 .. n
    BY <1>1, PastIsSettled
  <1>4. \A j \in Accepted(n + 1) : events'[j] = events[j]
    BY <1>1, <1>3
  <1> DEFINE Old == {i \in Accepted(n + 1) : events[i].kind = "frame"}
             New == {i \in Accepted(n + 2)' : events'[i].kind = "frame"}
             Added == IF answer = Ok /\ kind = "frame" THEN {n + 1} ELSE {}
  <1>5. EarlierFrames(n + 1) = {events[j].item : j \in Old}
    BY DEF EarlierFrames
  <1>6. EarlierFrames(n + 2)' = {events'[j].item : j \in New}
    BY DEF EarlierFrames
  <1>7. New = Old \cup Added
    BY <1>1, <1>2, <1>4
  <1>8. \A j \in Old : events'[j] = events[j]
    BY <1>4
  <1>9. \A j \in Added : events'[j].item = item
    BY <1>1
  <1>10. Added = IF answer = Ok /\ kind = "frame" THEN {n + 1} ELSE {}
    OBVIOUS
  <1> HIDE DEF Old, New, Added
  <1> QED
    BY <1>5, <1>6, <1>7, <1>8, <1>9, <1>10

\* What a refusal leaves, and that it is none of the answers Ok.
LEMMA Refusals ==
  /\ \A error : Refused(error) = [answer |-> error, settings |-> settings,
                                  goaway |-> goaway, maximumPush |-> maximumPush]
  /\ "FramePayload" # Ok /\ "Settings" # Ok /\ "UnexpectedFrame" # Ok
  /\ "MissingSettings" # Ok /\ "InvalidGoawayStreamId" # Ok
  /\ "IncreasedGoawayIdentifier" # Ok /\ "ReducedMaximumPushId" # Ok
  BY DEF Refused, After, Ok

\* The types of frames are different numbers.
LEMMA TypesDiffer ==
  /\ DATA = 0 /\ HEADERS = 1 /\ CANCEL_PUSH = 3 /\ SETTINGS = 4 /\ PUSH_PROMISE = 5
  /\ GOAWAY = 7 /\ MAX_PUSH_ID = 13 /\ Http2ReservedTypes = {2, 6, 8, 9}
  BY DEF DATA, HEADERS, CANCEL_PUSH, SETTINGS, PUSH_PROMISE, GOAWAY, MAX_PUSH_ID,
         Http2ReservedTypes

\* GOAWAY and MAX_PUSH_ID are checked against the value kept as against all frames.
LEMMA GoawayIsLegal ==
  ASSUME NEW taken, Sums(taken, settings, goaway, maximumPush),
         NEW frame, frame.payload \in Seq(Nat), frame.type = GOAWAY
  PROVE  GoawayReceived(frame).answer = Ok
           <=> /\ IsWellFormed(frame)
               /\ role = "Client" => IdentifierOf(frame) % 4 = 0
               /\ \A e \in OfType(GOAWAY, taken) : IdentifierOf(frame) <= IdentifierOf(e)
  <1> DEFINE id == IdentifierOf(frame)
             older == OfType(GOAWAY, taken)
  <1>1. CASE ~ IsWellFormed(frame)
    BY <1>1, Refusals DEF GoawayReceived
  <1>2. CASE IsWellFormed(frame)
    <2>1. id \in Nat
      BY <1>2, IdentifierTyped
    <2>2. (goaway # None /\ id > goaway[1]) <=> \E e \in older : ~ (id <= IdentifierOf(e))
      <3>1. CASE goaway = None /\ older = {}
        BY <3>1
      <3>2. ASSUME NEW n \in Nat, goaway = Some(n), IsLeast(n, older)
            PROVE  (goaway # None /\ id > goaway[1])
                     <=> \E e \in older : ~ (id <= IdentifierOf(e))
        <4>1. goaway # None /\ goaway[1] = n
          BY <3>2, SomeIsSome
        <4> HIDE DEF id, older
        <4> QED BY <2>1, <3>2, <4>1 DEF IsLeast
      <3> QED BY <3>1, <3>2 DEF Sums
    <2>3. GoawayReceived(frame).answer = Ok
            <=> /\ ~ (role = "Client" /\ id % 4 # 0)
                /\ ~ (goaway # None /\ id > goaway[1])
      BY <1>2, Refusals DEF GoawayReceived, After
    <2> QED BY <1>2, <2>2, <2>3
  <1> QED
    BY <1>1, <1>2

\* The same for MAX_PUSH_ID.
LEMMA MaxPushIdIsLegal ==
  ASSUME NEW taken, Sums(taken, settings, goaway, maximumPush), role \in {"Client", "Server"},
         NEW frame, frame.payload \in Seq(Nat), frame.type = MAX_PUSH_ID
  PROVE  MaxPushIdReceived(frame).answer = Ok
           <=> /\ IsWellFormed(frame)
               /\ role = "Server"
               /\ \A e \in OfType(MAX_PUSH_ID, taken) : IdentifierOf(frame) >= IdentifierOf(e)
  <1> DEFINE id == IdentifierOf(frame)
             older == OfType(MAX_PUSH_ID, taken)
  <1>1. CASE ~ IsWellFormed(frame) \/ role = "Client"
    BY <1>1, Refusals DEF MaxPushIdReceived
  <1>2. CASE IsWellFormed(frame) /\ role = "Server"
    <2>1. id \in Nat
      BY <1>2, IdentifierTyped
    <2>2. (maximumPush # None /\ id < maximumPush[1])
            <=> \E e \in older : ~ (id >= IdentifierOf(e))
      <3>1. CASE maximumPush = None /\ older = {}
        BY <3>1
      <3>2. ASSUME NEW n \in Nat, maximumPush = Some(n), IsGreatest(n, older)
            PROVE  (maximumPush # None /\ id < maximumPush[1])
                     <=> \E e \in older : ~ (id >= IdentifierOf(e))
        <4>1. maximumPush # None /\ maximumPush[1] = n
          BY <3>2, SomeIsSome
        <4> HIDE DEF id, older
        <4> QED BY <2>1, <3>2, <4>1 DEF IsGreatest
      <3> QED BY <3>1, <3>2 DEF Sums
    <2>3. MaxPushIdReceived(frame).answer = Ok
            <=> ~ (maximumPush # None /\ id < maximumPush[1])
      BY <1>2, Refusals DEF MaxPushIdReceived, After
    <2> QED BY <1>2, <2>2, <2>3
  <1> QED
    BY <1>1, <1>2

\* A frame is taken exactly if it is legal after the frames that the values stand for.
LEMMA ReceivedIsLegal ==
  ASSUME NEW taken, Sums(taken, settings, goaway, maximumPush), role \in {"Client", "Server"},
         NEW frame, frame.payload \in Seq(Nat)
  PROVE  Received(frame).answer = Ok <=> IsLegalFrame(frame, taken)
  <1>1. settings = None <=> taken = {}
    BY DEF Sums
  <1>2. IsLegalFrame(frame, taken)
          <=> /\ IsWellFormed(frame)
              /\ frame.type \notin {DATA, HEADERS, PUSH_PROMISE} \cup Http2ReservedTypes
              /\ frame.type = SETTINGS <=> taken = {}
              /\ frame.type = SETTINGS => HasValidSemantics(frame)
              /\ frame.type \in {CANCEL_PUSH, MAX_PUSH_ID} => role = "Server"
              /\ frame.type = GOAWAY =>
                    /\ role = "Client" => IdentifierOf(frame) % 4 = 0
                    /\ \A e \in OfType(GOAWAY, taken) : IdentifierOf(frame) <= IdentifierOf(e)
              /\ frame.type = MAX_PUSH_ID =>
                    \A e \in OfType(MAX_PUSH_ID, taken) :
                       IdentifierOf(frame) >= IdentifierOf(e)
    BY DEF IsLegalFrame, OfType
  <1>3. CASE frame.type = SETTINGS
    <2>1. SettingsReceived(frame).answer = Ok
            <=> IsWellFormed(frame) /\ HasValidSemantics(frame)
      BY Refusals DEF SettingsReceived, After
    <2>2. Received(frame).answer = Ok <=> settings = None /\ SettingsReceived(frame).answer = Ok
      BY <1>3, Refusals DEF Received
    <2> QED BY <1>1, <1>2, <1>3, <2>1, <2>2, TypesDiffer
  <1>4. CASE frame.type # SETTINGS /\ settings = None
    BY <1>1, <1>2, <1>4, Refusals DEF Received
  <1>5. CASE settings # None /\ frame.type \in {DATA, HEADERS, PUSH_PROMISE} \cup Http2ReservedTypes
    BY <1>2, <1>5, Refusals DEF Received
  <1>6. CASE settings # None /\ frame.type = CANCEL_PUSH
    <2>1. Received(frame) = CancelPushReceived(frame)
      BY <1>6, TypesDiffer DEF Received
    <2>2. CancelPushReceived(frame).answer = Ok <=> role = "Server" /\ IsWellFormed(frame)
      BY Refusals DEF CancelPushReceived, Unchanged
    <2> QED BY <1>1, <1>2, <1>6, <2>1, <2>2, TypesDiffer
  <1>7. CASE settings # None /\ frame.type = GOAWAY
    <2>1. Received(frame) = GoawayReceived(frame)
      BY <1>7, TypesDiffer DEF Received
    <2> QED BY <1>1, <1>2, <1>7, <2>1, GoawayIsLegal, TypesDiffer
  <1>8. CASE settings # None /\ frame.type = MAX_PUSH_ID
    <2>1. Received(frame) = MaxPushIdReceived(frame)
      BY <1>8, TypesDiffer DEF Received
    <2> QED BY <1>1, <1>2, <1>8, <2>1, MaxPushIdIsLegal, TypesDiffer
  <1>9. CASE /\ settings # None
             /\ frame.type \notin {SETTINGS, DATA, HEADERS, PUSH_PROMISE} \cup Http2ReservedTypes
             /\ frame.type \notin {CANCEL_PUSH, GOAWAY, MAX_PUSH_ID}
    <2>1. Received(frame).answer = Ok
      BY <1>9, Refusals DEF Received, Unchanged
    <2>2. IsWellFormed(frame)
      BY <1>9 DEF IsWellFormed
    <2> QED BY <1>1, <1>2, <1>9, <2>1, <2>2
  <1> QED
    BY <1>3, <1>4, <1>5, <1>6, <1>7, <1>8, <1>9

\* An error changes nothing.
LEMMA RefusedKeeps ==
  ASSUME NEW frame, Received(frame).answer # Ok
  PROVE  /\ Received(frame).settings = settings
         /\ Received(frame).goaway = goaway
         /\ Received(frame).maximumPush = maximumPush
  <1> DEFINE Keeps(after) ==
               after.answer # Ok => /\ after.settings = settings /\ after.goaway = goaway
                                    /\ after.maximumPush = maximumPush
  <1>1. \A answer : Keeps(Refused(answer))
    BY Refusals
  <1>2. \A a, b, c : Keeps(After(Ok, a, b, c))
    BY DEF After
  <1>3. Keeps(Unchanged)
    BY <1>1 DEF Unchanged
  <1> HIDE DEF Keeps
  <1>4. Keeps(SettingsReceived(frame))
    BY <1>1, <1>2 DEF SettingsReceived
  <1>5. Keeps(CancelPushReceived(frame))
    BY <1>1, <1>3 DEF CancelPushReceived
  <1>6. Keeps(GoawayReceived(frame))
    BY <1>1, <1>2 DEF GoawayReceived
  <1>7. Keeps(MaxPushIdReceived(frame))
    BY <1>1, <1>2 DEF MaxPushIdReceived
  <1>8. Keeps(Received(frame))
    BY <1>1, <1>3, <1>4, <1>5, <1>6, <1>7 DEF Received
  <1> QED
    BY <1>8 DEF Keeps

\* What the values are after a frame that was taken.
LEMMA TakenChanges ==
  ASSUME NEW frame, Received(frame).answer = Ok
  PROVE  /\ Received(frame).settings # None
         /\ frame.type # SETTINGS => settings # None
         /\ Received(frame).goaway = IF frame.type = GOAWAY THEN Some(IdentifierOf(frame))
                                     ELSE goaway
         /\ Received(frame).maximumPush = IF frame.type = MAX_PUSH_ID
                                          THEN Some(IdentifierOf(frame)) ELSE maximumPush
         /\ frame.type \in {GOAWAY, MAX_PUSH_ID} => IsWellFormed(frame)
  <1>1. CASE frame.type = SETTINGS
    <2>1. Received(frame) = SettingsReceived(frame)
      BY <1>1, Refusals DEF Received
    <2> QED
      BY <1>1, <2>1, Refusals, SomeIsSome, TypesDiffer DEF SettingsReceived, After
  <1>2. CASE frame.type = GOAWAY
    <2>1. Received(frame) = GoawayReceived(frame) /\ settings # None
      BY <1>2, Refusals, TypesDiffer DEF Received
    <2> QED
      BY <1>2, <2>1, Refusals, TypesDiffer DEF GoawayReceived, After
  <1>3. CASE frame.type = MAX_PUSH_ID
    <2>1. Received(frame) = MaxPushIdReceived(frame) /\ settings # None
      BY <1>3, Refusals, TypesDiffer DEF Received
    <2> QED
      BY <1>3, <2>1, Refusals, TypesDiffer DEF MaxPushIdReceived, After
  <1>4. CASE frame.type \notin {SETTINGS, GOAWAY, MAX_PUSH_ID}
    <2>1. settings # None
      BY <1>4, Refusals DEF Received
    <2>2. \E error : Received(frame) = Refused(error)
      BY <1>4 DEF Received, CancelPushReceived, Unchanged
    <2> QED
      BY <1>4, <2>1, <2>2, Refusals
  <1> QED
    BY <1>1, <1>2, <1>3, <1>4

\* The values stand for the frame that was taken, too.
LEMMA ReceivedSums ==
  ASSUME NEW taken, Sums(taken, settings, goaway, maximumPush), role \in {"Client", "Server"},
         NEW frame, frame.payload \in Seq(Nat), Received(frame).answer = Ok,
         NEW after, after = Received(frame)
  PROVE  Sums(taken \cup {frame}, after.settings, after.goaway, after.maximumPush)
  <1> DEFINE all == taken \cup {frame}
             id == IdentifierOf(frame)
  <1>1. IsLegalFrame(frame, taken)
    BY ReceivedIsLegal
  <1>2. after.settings = None <=> all = {}
    BY TakenChanges
  <1>3. \/ after.goaway = None /\ OfType(GOAWAY, all) = {}
        \/ \E n \in Nat : after.goaway = Some(n) /\ IsLeast(n, OfType(GOAWAY, all))
    <2>1. CASE frame.type # GOAWAY
      <3>1. OfType(GOAWAY, all) = OfType(GOAWAY, taken)
        BY <2>1 DEF OfType
      <3>2. after.goaway = goaway
        BY <2>1, TakenChanges
      <3> QED BY <3>1, <3>2 DEF Sums
    <2>2. CASE frame.type = GOAWAY
      <3>1. id \in Nat /\ after.goaway = Some(id)
        BY <2>2, TakenChanges, IdentifierTyped
      <3>2. OfType(GOAWAY, all) = OfType(GOAWAY, taken) \cup {frame}
        BY <2>2 DEF OfType
      <3>3. \A e \in OfType(GOAWAY, taken) : IdentifierOf(e) \in Nat /\ id <= IdentifierOf(e)
        <4>1. \A e \in OfType(GOAWAY, taken) : id <= IdentifierOf(e)
          BY <1>1, <2>2 DEF IsLegalFrame, OfType
        <4>2. \A e \in OfType(GOAWAY, taken) : IdentifierOf(e) \in Nat
          BY DEF Sums, IsLeast
        <4> QED BY <4>1, <4>2
      <3>4. IsLeast(id, OfType(GOAWAY, all))
        <4> DEFINE older == OfType(GOAWAY, taken)
                   now == OfType(GOAWAY, all)
        <4>1. now = older \cup {frame} /\ id = IdentifierOf(frame)
          BY <3>2
        <4>2. \A e \in older : IdentifierOf(e) \in Nat /\ id <= IdentifierOf(e)
          BY <3>3
        <4>3. id \in Nat /\ id <= id
          BY <3>1
        <4> HIDE DEF id, older, now
        <4>4. IsLeast(id, now)
          BY <4>1, <4>2, <4>3 DEF IsLeast
        <4> QED BY <4>4 DEF now
      <3> QED BY <3>1, <3>4
    <2> QED BY <2>1, <2>2
  <1>4. \/ after.maximumPush = None /\ OfType(MAX_PUSH_ID, all) = {}
        \/ \E n \in Nat : /\ after.maximumPush = Some(n)
                          /\ IsGreatest(n, OfType(MAX_PUSH_ID, all))
    <2>1. CASE frame.type # MAX_PUSH_ID
      <3>1. OfType(MAX_PUSH_ID, all) = OfType(MAX_PUSH_ID, taken)
        BY <2>1 DEF OfType
      <3>2. after.maximumPush = maximumPush
        BY <2>1, TakenChanges
      <3> QED BY <3>1, <3>2 DEF Sums
    <2>2. CASE frame.type = MAX_PUSH_ID
      <3>1. id \in Nat /\ after.maximumPush = Some(id)
        BY <2>2, TakenChanges, IdentifierTyped
      <3>2. OfType(MAX_PUSH_ID, all) = OfType(MAX_PUSH_ID, taken) \cup {frame}
        BY <2>2 DEF OfType
      <3>3. \A e \in OfType(MAX_PUSH_ID, taken) :
               IdentifierOf(e) \in Nat /\ id >= IdentifierOf(e)
        <4>1. \A e \in OfType(MAX_PUSH_ID, taken) : id >= IdentifierOf(e)
          BY <1>1, <2>2 DEF IsLegalFrame, OfType
        <4>2. \A e \in OfType(MAX_PUSH_ID, taken) : IdentifierOf(e) \in Nat
          BY DEF Sums, IsGreatest
        <4> QED BY <4>1, <4>2
      <3>4. IsGreatest(id, OfType(MAX_PUSH_ID, all))
        <4> DEFINE older == OfType(MAX_PUSH_ID, taken)
                   now == OfType(MAX_PUSH_ID, all)
        <4>1. now = older \cup {frame} /\ id = IdentifierOf(frame)
          BY <3>2
        <4>2. \A e \in older : IdentifierOf(e) \in Nat /\ id >= IdentifierOf(e)
          BY <3>3
        <4>3. id \in Nat /\ id >= id
          BY <3>1
        <4> HIDE DEF id, older, now
        <4>4. IsGreatest(id, now)
          BY <4>1, <4>2, <4>3 DEF IsGreatest
        <4> QED BY <4>4 DEF now
      <3> QED BY <3>1, <3>4
    <2> QED BY <2>1, <2>2
  <1> QED
    BY <1>2, <1>3, <1>4 DEF Sums

\* The legality of earlier frames does not depend on what comes later.
LEMMA EarlierFramesStand ==
  ASSUME FramesExactlyLegal, Remembers, role' = role, NEW k \in 1 .. Len(events)
  PROVE  events'[k].kind = "frame" =>
           (events'[k].answer = Ok <=> IsLegalFrame(events[k].item, EarlierFrames(k))')
  <1>1. events[k].kind = "frame" =>
          (events[k].answer = Ok <=> IsLegalFrame(events[k].item, EarlierFrames(k)))
    BY DEF FramesExactlyLegal, Remembers
  <1>2. events'[k] = events[k] /\ EarlierFrames(k)' = EarlierFrames(k)
    BY PastIsSettled DEF Remembers
  <1>3. IsLegalFrame(events[k].item, EarlierFrames(k))'
          <=> IsLegalFrame(events[k].item, EarlierFrames(k))
    BY <1>2 DEF IsLegalFrame
  <1> QED
    BY <1>1, <1>2, <1>3

\* An event leaves the values true if they change as they should, which is not at all
\* when no frame is taken.
LEMMA FramesLogged ==
  ASSUME FramesInv, role' = role,
         NEW kind, NEW s, NEW item, NEW answer, Logged(kind, s, item, answer),
         NEW n \in Nat, n = Len(events),
         NEW taken, taken = EarlierFrames(n + 1),
         Sums(taken \cup (IF answer = Ok /\ kind = "frame" THEN {item} ELSE {}),
              settings', goaway', maximumPush'),
         kind = "frame" => (answer = Ok <=> IsLegalFrame(item, taken))
  PROVE  FramesInv'
  <1>1. HistoryInv /\ ControlInv /\ FramesExactlyLegal
    BY DEF FramesInv
  <1>2. /\ HistoryInv' /\ Remembers
        /\ Len(events') = n + 1 /\ DOMAIN events' = 1 .. (n + 1)
        /\ events'[n + 1] = [kind |-> kind, stream |-> s, item |-> item, answer |-> answer]
    BY <1>1, LoggedStep
  <1>3. ControlInv'
    <2> SUFFICES ASSUME NEW m \in Nat, m = Len(events')
                 PROVE  Sums(EarlierFrames(m + 1)', settings', goaway', maximumPush')
      BY DEF ControlInv
    <2>1. m + 1 = n + 2
      BY <1>2
    <2>2. EarlierFrames(n + 2)'
            = taken \cup (IF answer = Ok /\ kind = "frame" THEN {item} ELSE {})
      BY <1>1, NewlyTaken
    <2>3. EarlierFrames(m + 1)' = EarlierFrames(n + 2)'
      BY <2>1
    <2> QED BY <2>2, <2>3
  <1>4. FramesExactlyLegal'
    <2> SUFFICES ASSUME NEW k \in 1 .. (n + 1)
                 PROVE  events'[k].kind = "frame" =>
                          (events'[k].answer = Ok
                             <=> IsLegalFrame(events[k].item, EarlierFrames(k))')
      BY <1>2 DEF FramesExactlyLegal
    <2>1. CASE k \in 1 .. n
      BY <1>1, <1>2, <2>1, EarlierFramesStand
    <2>2. CASE k = n + 1
      <3>1. EarlierFrames(k)' = taken
        BY <1>2, <2>2, PastIsSettled
      <3>2. /\ events'[k].kind = kind /\ events'[k].item = item
            /\ events'[k].answer = answer
        BY <1>2, <2>2
      <3>3. IsLegalFrame(events[k].item, EarlierFrames(k))' <=> IsLegalFrame(item, taken)
        BY <3>1, <3>2 DEF IsLegalFrame
      <3> QED BY <3>2, <3>3
    <2> QED BY <2>1, <2>2
  <1> QED
    BY <1>2, <1>3, <1>4 DEF FramesInv

\* One step per action: only a received frame changes the three values.
LEMMA FramesStep ==
  ASSUME TypeInv, FramesInv, [Next]_vars
  PROVE  FramesInv'
  <1>1. TypeOK /\ role \in {"Client", "Server"}
    BY DEF TypeInv, TypeOK
  <1>2. PICK n \in Nat : n = Len(events)
    BY DEF FramesInv, HistoryInv
  <1>3. PICK taken : taken = EarlierFrames(n + 1)
    OBVIOUS
  <1>4. Sums(taken, settings, goaway, maximumPush)
    BY <1>2, <1>3 DEF FramesInv, ControlInv
  <1>5. ASSUME UNCHANGED <<role, settings, goaway, maximumPush, events>>
        PROVE  FramesInv'
    <2>1. HistoryInv'
      BY <1>5 DEF FramesInv, HistoryInv
    <2>2. \A k \in Nat : EarlierFrames(k)' = EarlierFrames(k)
      BY <1>5 DEF EarlierFrames, Accepted
    <2>3. ControlInv'
      BY <1>2, <1>3, <1>4, <1>5, <2>2 DEF ControlInv
    <2>4. \A k \in 1 .. n :
             IsLegalFrame(events[k].item, EarlierFrames(k))'
               <=> IsLegalFrame(events[k].item, EarlierFrames(k))
      BY <1>5, <2>2 DEF IsLegalFrame
    <2>5. FramesExactlyLegal'
      <3>1. DOMAIN events = 1 .. n /\ FramesExactlyLegal
        BY <1>2 DEF FramesInv, HistoryInv
      <3> QED BY <1>5, <2>4, <3>1 DEF FramesExactlyLegal
    <2> QED BY <2>1, <2>3, <2>5 DEF FramesInv
  <1>6. ASSUME NEW s \in Streams,
               \/ OpenStream(s) \/ WriteFrame(s) \/ CloseStream(s) \/ RefuseLength(s)
        PROVE  FramesInv'
    BY <1>5, <1>6 DEF OpenStream, WriteFrame, Write, CloseStream, RefuseLength, receiver
  <1>7. ASSUME NEW kind, kind # "frame", NEW s, NEW item, NEW answer,
               Logged(kind, s, item, answer),
               UNCHANGED <<role, settings, goaway, maximumPush>>
        PROVE  FramesInv'
    <2>1. Sums(taken \cup (IF answer = Ok /\ kind = "frame" THEN {item} ELSE {}),
               settings', goaway', maximumPush')
      BY <1>4, <1>7
    <2> QED BY <1>2, <1>3, <1>7, <2>1, FramesLogged
  <1>8. ASSUME NEW s \in Streams, ReceiveHeader(s)
        PROVE  FramesInv'
    <2>1. \E header : /\ Logged("header", s, header, HeaderAnswer(s, header))
                      /\ UNCHANGED <<role, settings, goaway, maximumPush>>
      BY <1>8 DEF ReceiveHeader
    <2> QED BY <1>7, <2>1
  <1>9. ASSUME NEW s \in Streams, ReceiveClosed(s)
        PROVE  FramesInv'
    BY <1>7, <1>9 DEF ReceiveClosed, receiver
  <1>10. ASSUME NEW s \in Streams, ReceiveFrame(s)
         PROVE  FramesInv'
    <2>1. PICK m \in 0 .. Len(wire[s]) :
             LET frame == FrameIn(SubSeq(wire[s], 1, Arrived(s, m).length))
             IN  /\ Arrived(s, m).result = "frame"
                 /\ settings' = Received(frame).settings
                 /\ goaway' = Received(frame).goaway
                 /\ maximumPush' = Received(frame).maximumPush
                 /\ Logged("frame", s, frame, Received(frame).answer)
                 /\ role' = role
      BY <1>10 DEF ReceiveFrame
    <2>2. PICK frame : frame = FrameIn(SubSeq(wire[s], 1, Arrived(s, m).length))
      OBVIOUS
    <2>3. PICK after : after = Received(frame)
      OBVIOUS
    <2>4. frame.payload \in Seq(Nat)
      BY <2>1, <2>2, ArrivedTyped DEF TypeInv
    <2>5. after.answer = Ok <=> IsLegalFrame(frame, taken)
      BY <1>1, <1>4, <2>3, <2>4, ReceivedIsLegal
    <2>6. Sums(taken \cup (IF after.answer = Ok THEN {frame} ELSE {}),
               after.settings, after.goaway, after.maximumPush)
      <3>1. CASE after.answer = Ok
        BY <1>1, <1>4, <2>3, <2>4, <3>1, ReceivedSums
      <3>2. CASE after.answer # Ok
        BY <1>4, <2>3, <3>2, RefusedKeeps
      <3> QED BY <3>1, <3>2
    <2>7. /\ Logged("frame", s, frame, after.answer) /\ role' = role
          /\ settings' = after.settings /\ goaway' = after.goaway
          /\ maximumPush' = after.maximumPush
      BY <2>1, <2>2, <2>3
    <2>8. Sums(taken \cup (IF after.answer = Ok /\ "frame" = "frame" THEN {frame} ELSE {}),
               settings', goaway', maximumPush')
      BY <2>6, <2>7
    <2> HIDE <2>6
    <2> QED BY <1>2, <1>3, <2>5, <2>7, <2>8, FramesLogged
  <1>11. CASE UNCHANGED vars
    BY <1>5, <1>11 DEF vars, receiver
  <1> QED
    BY <1>6, <1>8, <1>9, <1>10, <1>11 DEF Next

\* At first no frame has been taken.
LEMMA FramesInit ==
  ASSUME Init
  PROVE  FramesInv
  <1>1. events = <<>> /\ Len(events) = 0 /\ DOMAIN events = {}
    BY DEF Init
  <1>2. events \in Seq({}) /\ HistoryInv
    BY <1>1 DEF HistoryInv
  <1>3. EarlierFrames(1) = {}
    BY DEF EarlierFrames, Accepted
  <1>4. Sums({}, settings, goaway, maximumPush)
    BY DEF Init, Sums, OfType
  <1>5. ControlInv
    <2> SUFFICES ASSUME NEW n \in Nat, n = 0
                 PROVE  Sums(EarlierFrames(n + 1), settings, goaway, maximumPush)
      BY <1>1 DEF ControlInv
    <2> QED BY <1>3, <1>4
  <1> QED
    BY <1>1, <1>2, <1>5 DEF FramesInv, FramesExactlyLegal

\* After any number of frames, taken and refused, a frame of the control stream is taken
\* exactly if it is legal after all those taken before it: the settings, the last GOAWAY
\* and the last MAX_PUSH_ID that the code keeps are enough to decide it.
THEOREM SpecFramesExactlyLegal == Spec => []FramesExactlyLegal
  <1>1. Init => TypeInv /\ FramesInv
    BY TypeInit, FramesInit
  <1>2. TypeInv /\ FramesInv /\ [Next]_vars => TypeInv' /\ FramesInv'
    BY TypeStep, FramesStep
  <1>3. FramesInv => FramesExactlyLegal
    BY DEF FramesInv
  <1> QED
    BY <1>1, <1>2, <1>3, PTL DEF Spec

-----------------------------------------------------------------------------
(* What is written is read again *)

\* A number is its lowest byte and what is above it; four units make a byte.
LEMMA BytesMakeNumbers ==
  ASSUME NEW n \in Nat
  PROVE  Rest(n) * ByteValues + Low(n) = n
  BY Bases, Z3 DEF Low, Rest

\* A number below a unit is its own lowest byte.
LEMMA LowOfUnit ==
  ASSUME NEW n \in Nat, n < Unit
  PROVE  Low(n) = n /\ n % Unit = n
  BY Bases, Z3 DEF Low, Unit

\* The two bits in front of a byte below a unit are found again, and so is the byte.
LEMMA PrefixComesBack ==
  ASSUME NEW n \in Nat, n < Unit, NEW p \in 0 .. 3
  PROVE  /\ (n + p * Unit) \in Nat
         /\ (n + p * Unit) \div Unit = p
         /\ (n + p * Unit) % Unit = n
  <1>1. Unit \in Nat /\ Unit > 0
    BY Bases
  <1> HIDE DEF Unit
  <1>2. CASE p = 0
    BY <1>1, <1>2, Z3
  <1>3. CASE p = 1
    BY <1>1, <1>3, Z3
  <1>4. CASE p = 2
    BY <1>1, <1>4, Z3
  <1>5. CASE p = 3
    BY <1>1, <1>5, Z3
  <1> QED BY <1>2, <1>3, <1>4, <1>5

\* Bytes found at an offset are what SubSeq cuts out there.
LEMMA CutOut ==
  ASSUME NEW all \in Seq(Nat), NEW part \in Seq(Nat), NEW a \in Nat,
         a + Len(part) <= Len(all),
         \A i \in 1 .. Len(part) : all[a + i] = part[i]
  PROVE  SubSeq(all, a + 1, a + Len(part)) = part
  <1> DEFINE n == Len(part)
             c == SubSeq(all, a + 1, a + n)
  <1>1. n \in Nat /\ Len(all) \in Nat
    OBVIOUS
  <1>2. \A i \in (a + 1) .. (a + n) : all[i] \in Nat
    <2>1. \A i \in (a + 1) .. (a + n) : i \in 1 .. Len(all)
      BY <1>1
    <2> QED BY <2>1, ElementOfSeq
  <1>3. /\ c \in Seq(Nat)
        /\ Len(c) = IF a + 1 <= a + n THEN (a + n) - (a + 1) + 1 ELSE 0
        /\ \A i \in 1 .. (a + n) - (a + 1) + 1 : c[i] = all[(a + 1) + i - 1]
    <2> HIDE DEF n
    <2> QED BY <1>1, <1>2, SubSeqProperties
  <1> HIDE DEF c
  <1>4. Len(c) = n
    BY <1>1, <1>3
  <1>5. ASSUME NEW i \in 1 .. n PROVE c[i] = part[i]
    <2>1. i \in 1 .. (a + n) - (a + 1) + 1 /\ (a + 1) + i - 1 = a + i
      BY <1>1
    <2> QED BY <1>3, <2>1
  <1> QED BY <1>3, <1>4, <1>5, SeqEqual DEF c

\* The two parts of joined bytes are cut out again.
LEMMA PartsComeBack ==
  ASSUME NEW front \in Seq(Nat), NEW rest \in Seq(Nat), NEW q, q = front \o rest
  PROVE  /\ q \in Seq(Nat) /\ Len(q) = Len(front) + Len(rest)
         /\ \A k \in 1 .. Len(front) : q[k] = front[k]
         /\ SubSeq(q, 1, Len(front)) = front
         /\ From(q, Len(front) + 1) = rest
  <1> DEFINE m == Len(front)
             n == Len(rest)
  <1>1. m \in Nat /\ n \in Nat
    OBVIOUS
  <1>2. /\ q \in Seq(Nat) /\ Len(q) = m + n
        /\ \A k \in 1 .. (m + n) : q[k] = IF k <= m THEN front[k] ELSE rest[k - m]
    BY ConcatProperties
  <1>3. \A k \in 1 .. m : q[0 + k] = front[k] /\ q[k] = front[k]
    BY <1>1, <1>2
  <1>4. \A k \in 1 .. n : q[m + k] = rest[k]
    <2> SUFFICES ASSUME NEW k \in 1 .. n PROVE q[m + k] = rest[k]
      OBVIOUS
    <2>1. m + k \in 1 .. (m + n) /\ ~ (m + k <= m) /\ (m + k) - m = k
      BY <1>1
    <2> HIDE DEF m, n
    <2> QED BY <1>2, <2>1
  <1>5. SubSeq(q, 0 + 1, 0 + m) = front
    BY <1>1, <1>2, <1>3, CutOut
  <1>6. SubSeq(q, m + 1, m + n) = rest
    BY <1>1, <1>2, <1>4, CutOut
  <1>7. SubSeq(q, 1, m) = front
    BY <1>1, <1>5
  <1> QED BY <1>2, <1>3, <1>6, <1>7 DEF From

\* What a length says of the first bytes, as an integer.
Numeral(b, length) ==
  IF length = 1 THEN b[1]
  ELSE IF length = 2 THEN U16(b)
  ELSE IF length = 4 THEN U32(b)
  ELSE U64(b)

\* The bytes of a value that fits leave room for the prefix and make up the value.
LEMMA BigEndianComesBack ==
  ASSUME NEW value \in Nat, NEW length \in Lengths, Fits(value, length)
  PROVE  /\ BigEndian(value, length) \in Seq(Nat)
         /\ Len(BigEndian(value, length)) = length
         /\ BigEndian(value, length)[1] < Unit
         /\ Numeral(BigEndian(value, length), length) = value
  <1> DEFINE r1 == Rest(value)
             r2 == Rest(r1)
             r3 == Rest(r2)
             r4 == Rest(r3)
             r5 == Rest(r4)
             r6 == Rest(r5)
             r7 == Rest(r6)
             b == BigEndian(value, length)
  <1>1. /\ r1 \in Nat /\ r2 \in Nat /\ r3 \in Nat /\ r4 \in Nat
        /\ r5 \in Nat /\ r6 \in Nat /\ r7 \in Nat
    BY ByteParts
  <1>2. /\ Low(value) \in Nat /\ r1 * ByteValues + Low(value) = value
        /\ Low(r1) \in Nat /\ r2 * ByteValues + Low(r1) = r1
        /\ Low(r2) \in Nat /\ r3 * ByteValues + Low(r2) = r2
        /\ Low(r3) \in Nat /\ r4 * ByteValues + Low(r3) = r3
        /\ Low(r4) \in Nat /\ r5 * ByteValues + Low(r4) = r4
        /\ Low(r5) \in Nat /\ r6 * ByteValues + Low(r5) = r5
        /\ Low(r6) \in Nat /\ r7 * ByteValues + Low(r6) = r6
        /\ Low(r7) \in Nat
    <2> HIDE DEF r1, r2, r3, r4, r5, r6, r7
    <2>1. /\ r1 * ByteValues + Low(value) = value
          /\ r2 * ByteValues + Low(r1) = r1
          /\ r3 * ByteValues + Low(r2) = r2
          /\ r4 * ByteValues + Low(r3) = r3
      BY <1>1, BytesMakeNumbers DEF r1, r2, r3, r4
    <2>2. /\ r5 * ByteValues + Low(r4) = r4
          /\ r6 * ByteValues + Low(r5) = r5
          /\ r7 * ByteValues + Low(r6) = r6
      BY <1>1, BytesMakeNumbers DEF r5, r6, r7
    <2> QED BY <1>1, <2>1, <2>2, ByteParts
  <1>3. CASE length = 1
    <2>1. value < Unit
      BY <1>3 DEF Fits
    <2>2. Low(value) = value
      BY <2>1, LowOfUnit
    <2>3. b = <<value>>
      BY <1>3, <2>2 DEF BigEndian
    <2> HIDE DEF b
    <2>4. b \in Seq(Nat) /\ Len(b) = length /\ b[1] = value
      BY <1>3, <2>3
    <2> QED BY <1>3, <2>1, <2>4 DEF Numeral, b
  <1>4. CASE length = 2
    <2>1. r1 < Unit
      BY <1>4 DEF Fits
    <2>2. Low(r1) = r1
      BY <1>1, <2>1, LowOfUnit
    <2>3. b = <<r1, Low(value)>>
      BY <1>4, <2>2 DEF BigEndian, U16Bytes
    <2> HIDE DEF b, r1
    <2>4. b \in Seq(Nat) /\ Len(b) = length /\ b[1] = r1 /\ b[2] = Low(value)
      BY <1>1, <1>2, <1>4, <2>3
    <2>5. U16(b) = value
      BY <1>2, <2>4 DEF U16
    <2> QED BY <1>4, <2>1, <2>4, <2>5 DEF Numeral, b
  <1>5. CASE length = 4
    <2>1. r3 < Unit
      BY <1>5 DEF Fits
    <2>2. Low(r3) = r3
      BY <1>1, <2>1, LowOfUnit
    <2>3. b = <<r3, Low(r2), Low(r1), Low(value)>>
      BY <1>5, <2>2 DEF BigEndian, U32Bytes
    <2> HIDE DEF b, r1, r2, r3
    <2>4. /\ b \in Seq(Nat) /\ Len(b) = length
          /\ b[1] = r3 /\ b[2] = Low(r2) /\ b[3] = Low(r1) /\ b[4] = Low(value)
      BY <1>1, <1>2, <1>5, <2>3
    <2>5. U32(b) = value
      <3>1. U16(b) = r2
        BY <1>2, <2>4 DEF U16
      <3> QED BY <1>2, <2>4, <3>1 DEF U32
    <2> QED BY <1>5, <2>1, <2>4, <2>5 DEF Numeral, b
  <1>6. CASE length = 8
    <2>1. r7 < Unit
      BY <1>6 DEF Fits
    <2>2. Low(r7) = r7
      BY <1>1, <2>1, LowOfUnit
    <2> DEFINE high == <<r7, Low(r6), Low(r5), Low(r4)>>
               low == <<Low(r3), Low(r2), Low(r1), Low(value)>>
    <2>3. b = high \o low
      BY <1>6, <2>2 DEF BigEndian, U64Bytes, U32Bytes
    <2> HIDE DEF b, r1, r2, r3, r4, r5, r6, r7
    <2>4. /\ high \in Seq(Nat) /\ Len(high) = 4
          /\ high[1] = r7 /\ high[2] = Low(r6) /\ high[3] = Low(r5) /\ high[4] = Low(r4)
      BY <1>1, <1>2
    <2>5. /\ low \in Seq(Nat) /\ Len(low) = 4
          /\ low[1] = Low(r3) /\ low[2] = Low(r2) /\ low[3] = Low(r1) /\ low[4] = Low(value)
      BY <1>2
    <2> HIDE DEF high, low
    <2>6. /\ b \in Seq(Nat) /\ Len(b) = length
          /\ b[1] = r7 /\ b[2] = Low(r6) /\ b[3] = Low(r5) /\ b[4] = Low(r4)
          /\ b[5] = Low(r3) /\ b[6] = Low(r2) /\ b[7] = Low(r1) /\ b[8] = Low(value)
      <3>1. /\ b \in Seq(Nat) /\ Len(b) = 8
            /\ \A k \in 1 .. 8 : b[k] = IF k <= 4 THEN high[k] ELSE low[k - 4]
        <4>1. high \in Seq(Nat) /\ low \in Seq(Nat) /\ Len(high) = 4 /\ Len(low) = 4
          BY <2>4, <2>5
        <4>2. /\ high \o low \in Seq(Nat) /\ Len(high \o low) = Len(high) + Len(low)
              /\ \A k \in 1 .. (Len(high) + Len(low)) :
                    (high \o low)[k] = IF k <= Len(high) THEN high[k]
                                       ELSE low[k - Len(high)]
          BY <4>1, ConcatProperties
        <4>3. Len(high) + Len(low) = 8
          BY <4>1
        <4>4. b \in Seq(Nat) /\ Len(b) = 8
          BY <2>3, <4>2, <4>3
        <4>5. ASSUME NEW k \in 1 .. 8 PROVE b[k] = IF k <= 4 THEN high[k] ELSE low[k - 4]
          <5>1. k \in 1 .. (Len(high) + Len(low))
            BY <4>3
          <5>2. b[k] = IF k <= Len(high) THEN high[k] ELSE low[k - Len(high)]
            BY <2>3, <4>2, <5>1
          <5> QED BY <4>1, <5>2
        <4> QED BY <4>4, <4>5
      <3>2. b[1] = high[1] /\ b[2] = high[2] /\ b[3] = high[3] /\ b[4] = high[4]
        BY <3>1
      <3>3. b[5] = low[1] /\ b[6] = low[2] /\ b[7] = low[3] /\ b[8] = low[4]
        BY <3>1
      <3> QED BY <1>6, <2>4, <2>5, <3>1, <3>2, <3>3
    <2>7. U64(b) = value
      <3>1. U16(b) = r6
        BY <1>2, <2>6 DEF U16
      <3>2. U32(b) = r4
        BY <1>2, <2>6, <3>1 DEF U32
      <3> QED BY <1>2, <2>6, <3>2 DEF U64
    <2> QED BY <1>6, <2>1, <2>6, <2>7 DEF Numeral, b
  <1> QED BY <1>3, <1>4, <1>5, <1>6 DEF Lengths

\* An integer's bytes: those of the value, the first one with the prefix.
LEMMA VarIntBytes ==
  ASSUME NEW value \in Nat, NEW length \in Lengths, Fits(value, length)
  PROVE  LET v == VarInt(value, length)
             b == BigEndian(value, length)
         IN  /\ v \in Seq(Nat) /\ Len(v) = length
             /\ v[1] \div Unit = Prefix(length)
             /\ v[1] % Unit = b[1]
             /\ \A k \in 2 .. length : v[k] = b[k]
  <1> DEFINE b == BigEndian(value, length)
             v == VarInt(value, length)
             first == b[1] + Prefix(length) * Unit
  <1>1. b \in Seq(Nat) /\ Len(b) = length /\ b[1] < Unit
    BY BigEndianComesBack
  <1>2. Prefix(length) \in 0 .. 3 /\ length \in Nat /\ length > 0
    BY DEF Prefix, Lengths
  <1>3. v = [b EXCEPT ![1] = first]
    BY DEF VarInt
  <1> HIDE DEF b, v
  <1>4. b[1] \in Nat
    BY <1>1, <1>2
  <1>5. first \in Nat /\ first \div Unit = Prefix(length) /\ first % Unit = b[1]
    BY <1>1, <1>2, <1>4, PrefixComesBack
  <1> HIDE DEF first
  <1>6. /\ v \in Seq(Nat) /\ Len(v) = length /\ v[1] = first
        /\ \A k \in 2 .. length : v[k] = b[k]
    BY <1>1, <1>2, <1>3, <1>5, ExceptSeq
  <1> QED BY <1>5, <1>6 DEF v, b

\* What is read depends on the first bytes alone, the prefix taken off.
LEMMA ReadWithoutPrefix ==
  ASSUME NEW q \in Seq(Nat), Len(q) > 0, NEW b \in Seq(Nat), NEW length \in Lengths,
         VarIntLength(q) = length, length <= Len(q), length = Len(b),
         q[1] % Unit = b[1],
         \A k \in 2 .. length : q[k] = b[k]
  PROVE  VarIntIn(q) = Numeral(b, length)
  <1> DEFINE e == q[1] % Unit
             u == [q EXCEPT ![1] = e]
  <1>1. e \in Nat
    BY Bases, Z3
  <1> HIDE DEF e
  <1>2. \A k \in 1 .. Len(q) : u[k] = IF k = 1 THEN e ELSE q[k]
    BY <1>1, ExceptSeq
  <1>3. VarIntIn(q) = Numeral(u, length)
    BY DEF VarIntIn, Numeral, e
  <1> HIDE DEF u
  <1>4. \A k \in 1 .. length : u[k] = b[k]
    <2> SUFFICES ASSUME NEW k \in 1 .. length PROVE u[k] = b[k]
      OBVIOUS
    <2>1. length \in Nat /\ k \in 1 .. Len(q)
      BY DEF Lengths
    <2>2. CASE k = 1
      BY <1>2, <2>1, <2>2 DEF e
    <2>3. CASE k # 1
      <3>1. k \in 2 .. length
        BY <2>1, <2>3
      <3> QED BY <1>2, <2>1, <2>3, <3>1
    <2> QED BY <2>2, <2>3
  <1>5. Numeral(u, length) = Numeral(b, length)
    <2>1. CASE length = 1
      BY <1>4, <2>1 DEF Numeral
    <2>2. CASE length = 2
      BY <1>4, <2>2 DEF Numeral, U16
    <2>3. CASE length = 4
      BY <1>4, <2>3 DEF Numeral, U16, U32
    <2>4. CASE length = 8
      <3>1. /\ u[1] = b[1] /\ u[2] = b[2] /\ u[3] = b[3] /\ u[4] = b[4]
            /\ u[5] = b[5] /\ u[6] = b[6] /\ u[7] = b[7] /\ u[8] = b[8]
        BY <1>4, <2>4
      <3> QED BY <2>4, <3>1, Zenon DEF Numeral, U16, U32, U64
    <2> QED BY <2>1, <2>2, <2>3, <2>4 DEF Lengths
  <1> QED BY <1>3, <1>5

\* An integer is read as it was written, whatever follows it.
LEMMA IntegerComesBack ==
  ASSUME NEW value \in Nat, NEW length \in Lengths, Fits(value, length),
         NEW rest \in Seq(Nat)
  PROVE  LET q == VarInt(value, length) \o rest
         IN  /\ HasVarInt(q)
             /\ VarIntLength(q) = length
             /\ VarIntIn(q) = value
             /\ AfterVarInt(q) = rest
  <1> DEFINE b == BigEndian(value, length)
             v == VarInt(value, length)
             q == v \o rest
  <1>1. /\ v \in Seq(Nat) /\ Len(v) = length
        /\ v[1] \div Unit = Prefix(length) /\ v[1] % Unit = b[1]
        /\ \A k \in 2 .. length : v[k] = b[k]
    BY VarIntBytes
  <1>2. b \in Seq(Nat) /\ Len(b) = length /\ Numeral(b, length) = value
    BY BigEndianComesBack
  <1>3. length \in Nat /\ length > 0
    BY DEF Lengths
  <1>4. /\ q \in Seq(Nat) /\ Len(q) = length + Len(rest)
        /\ \A k \in 1 .. length : q[k] = v[k]
        /\ From(q, length + 1) = rest
    <2>1. q \in Seq(Nat) /\ Len(q) = Len(v) + Len(rest)
      BY <1>1, PartsComeBack
    <2>2. \A k \in 1 .. Len(v) : q[k] = v[k]
      BY <1>1, PartsComeBack
    <2>3. From(q, Len(v) + 1) = rest
      BY <1>1, PartsComeBack
    <2> HIDE DEF v
    <2> QED BY <1>1, <2>1, <2>2, <2>3
  <1> HIDE DEF b, v, q
  <1>5. q[1] = v[1] /\ Len(q) > 0 /\ length <= Len(q)
    BY <1>1, <1>3, <1>4
  <1>6. VarIntLength(q) = length
    <2>1. VarIntLength(q) = IF Prefix(length) = 0 THEN 1 ELSE IF Prefix(length) = 1 THEN 2
                            ELSE IF Prefix(length) = 2 THEN 4 ELSE 8
      BY <1>1, <1>5 DEF VarIntLength
    <2> QED BY <2>1 DEF Prefix, Lengths
  <1>7. \A k \in 2 .. length : q[k] = b[k]
    BY <1>1, <1>3, <1>4
  <1>8. VarIntIn(q) = value
    <2>1. q[1] % Unit = b[1]
      BY <1>1, <1>5
    <2>2. VarIntIn(q) = Numeral(b, length)
      BY <1>2, <1>4, <1>5, <1>6, <1>7, <2>1, ReadWithoutPrefix
    <2> QED BY <1>2, <2>2
  <1> QED
    BY <1>1, <1>4, <1>5, <1>6, <1>8 DEF HasVarInt, AfterVarInt, q, v

\* The shortest length holds its value, if any does.
LEMMA CanonicalFits ==
  ASSUME NEW value \in Nat, Encodable(value)
  PROVE  CanonicalLength(value) \in Lengths /\ Fits(value, CanonicalLength(value))
  BY DEF CanonicalLength, Encodable, Lengths

\* The same first bytes are the same integer.
LEMMA ReadAlike ==
  ASSUME NEW p \in Seq(Nat), NEW q \in Seq(Nat), HasVarInt(p),
         VarIntLength(p) <= Len(q),
         \A k \in 1 .. VarIntLength(p) : p[k] = q[k]
  PROVE  HasVarInt(q) /\ VarIntLength(q) = VarIntLength(p) /\ VarIntIn(q) = VarIntIn(p)
  <1> DEFINE length == VarIntLength(p)
             b == [k \in 1 .. length |-> IF k = 1 THEN q[1] % Unit ELSE q[k]]
  <1>1. length \in Lengths /\ length \in Nat /\ length > 0
    BY VarIntLengths DEF Lengths
  <1>2. Len(p) > 0 /\ length <= Len(p)
    BY DEF HasVarInt
  <1>3. p[1] = q[1] /\ VarIntLength(q) = length /\ Len(q) > 0
    <2>1. p[1] = q[1]
      BY <1>1
    <2>2. Len(q) > 0
      BY <1>1
    <2>3. VarIntLength(q) = VarIntLength(p)
      BY <2>1, Zenon DEF VarIntLength
    <2> QED BY <2>1, <2>2, <2>3
  <1>4. b \in Seq(Nat) /\ Len(b) = length
    <2>1. ASSUME NEW k \in 1 .. length PROVE (IF k = 1 THEN q[1] % Unit ELSE q[k]) \in Nat
      <3>1. q[1] \in Nat /\ q[k] \in Nat
        BY <1>1, <1>3
      <3>2. q[1] % Unit \in Nat
        BY <3>1, Bases, Z3
      <3> QED BY <3>1, <3>2
    <2> HIDE DEF length
    <2> QED BY <1>1, <2>1
  <1>5. b[1] = q[1] % Unit /\ \A k \in 2 .. length : b[k] = q[k]
    <2> HIDE DEF length
    <2> QED BY <1>1
  <1>6. \A k \in 2 .. length : p[k] = q[k]
    BY <1>1
  <1> HIDE DEF b
  <1>7. VarIntIn(q) = Numeral(b, length)
    <2>1. (\A k \in 2 .. length : q[k] = b[k]) /\ length <= Len(q)
      BY <1>5
    <2> HIDE DEF length
    <2> QED BY <1>1, <1>3, <1>4, <1>5, <2>1, ReadWithoutPrefix
  <1>8. VarIntIn(p) = Numeral(b, length)
    <2>1. /\ \A k \in 2 .. length : p[k] = b[k]
          /\ p[1] % Unit = b[1]
      BY <1>3, <1>5, <1>6
    <2>2. VarIntLength(p) = length
      OBVIOUS
    <2> HIDE DEF length
    <2> QED BY <1>1, <1>2, <1>4, <2>1, <2>2, ReadWithoutPrefix
  <1> QED BY <1>3, <1>7, <1>8 DEF HasVarInt

\* What is behind an integer, and its length.
LEMMA BehindVarInt ==
  ASSUME NEW q \in Seq(Nat), HasVarInt(q)
  PROVE  /\ AfterVarInt(q) \in Seq(Nat)
         /\ VarIntLength(q) \in 1 .. Len(q)
         /\ Len(AfterVarInt(q)) = Len(q) - VarIntLength(q)
         /\ \A k \in 1 .. Len(AfterVarInt(q)) : AfterVarInt(q)[k] = q[VarIntLength(q) + k]
  <1> DEFINE length == VarIntLength(q)
             n == Len(q)
             t == SubSeq(q, length + 1, n)
  <1>1. length \in Nat /\ length > 0 /\ length <= n /\ n \in Nat
    BY VarIntLengths DEF Lengths, HasVarInt
  <1>2. t = AfterVarInt(q)
    BY DEF AfterVarInt, From
  <1>3. \A k \in (length + 1) .. n : q[k] \in Nat
    BY <1>1
  <1> HIDE DEF length, n
  <1>4. /\ t \in Seq(Nat)
        /\ Len(t) = IF length + 1 <= n THEN n - (length + 1) + 1 ELSE 0
        /\ \A k \in 1 .. n - (length + 1) + 1 : t[k] = q[(length + 1) + k - 1]
    BY <1>1, <1>3, SubSeqProperties
  <1> HIDE DEF t
  <1>5. Len(t) = n - length
    BY <1>1, <1>4
  <1>6. ASSUME NEW k \in 1 .. Len(t) PROVE t[k] = q[length + k]
    <2>1. k \in 1 .. n - (length + 1) + 1 /\ (length + 1) + k - 1 = length + k
      BY <1>1, <1>5
    <2> QED BY <1>4, <2>1
  <1>7. t \in Seq(Nat) /\ length \in 1 .. n
    BY <1>1, <1>4
  <1> QED BY <1>2, <1>5, <1>6, <1>7 DEF length, n

\* The first bytes of a stream say what all its bytes say, once an integer is whole.
LEMMA ReadOfPrefix ==
  ASSUME NEW q \in Seq(Nat), NEW n \in 0 .. Len(q), NEW p, p = SubSeq(q, 1, n),
         HasVarInt(p)
  PROVE  /\ HasVarInt(q)
         /\ VarIntLength(q) = VarIntLength(p)
         /\ VarIntIn(q) = VarIntIn(p)
         /\ n - VarIntLength(p) \in 0 .. Len(AfterVarInt(q))
         /\ AfterVarInt(p) = SubSeq(AfterVarInt(q), 1, n - VarIntLength(p))
  <1> DEFINE length == VarIntLength(p)
             a == AfterVarInt(p)
             b == AfterVarInt(q)
             m == n - length
             c == SubSeq(b, 1, m)
  <1>1. p \in Seq(Nat) /\ Len(p) = n
    BY PrefixTyped
  <1>2. \A k \in 1 .. n : p[k] = q[k]
    <2>1. \A k \in 1 .. n : q[k] \in Nat
      OBVIOUS
    <2> QED BY <2>1, SubSeqProperties
  <1>3. length \in Nat /\ length > 0 /\ length <= n /\ n \in Nat /\ length <= Len(q)
    BY <1>1, VarIntLengths DEF HasVarInt, Lengths
  <1>4. HasVarInt(q) /\ VarIntLength(q) = length /\ VarIntIn(q) = VarIntIn(p)
    <2>1. \A k \in 1 .. length : p[k] = q[k]
      BY <1>2, <1>3
    <2> QED BY <1>1, <1>3, <2>1, ReadAlike
  <1>5. /\ a \in Seq(Nat) /\ Len(a) = n - length
        /\ \A k \in 1 .. Len(a) : a[k] = p[length + k]
    BY <1>1, BehindVarInt
  <1>6. /\ b \in Seq(Nat) /\ Len(b) = Len(q) - length
        /\ \A k \in 1 .. Len(b) : b[k] = q[length + k]
    BY <1>4, BehindVarInt
  <1> HIDE DEF length, a, b
  <1>7. m \in 0 .. Len(b)
    BY <1>3, <1>6
  <1>8. c \in Seq(Nat) /\ Len(c) = m /\ \A k \in 1 .. m : c[k] = b[k]
    <2>1. \A k \in 1 .. m : b[k] \in Nat
      BY <1>6, <1>7
    <2> HIDE DEF m
    <2> QED BY <1>6, <1>7, <2>1, PrefixTyped, SubSeqProperties
  <1>9. a = c
    <2> HIDE DEF c
    <2>1. Len(a) = Len(c)
      BY <1>5, <1>8
    <2>2. ASSUME NEW k \in 1 .. Len(a) PROVE a[k] = c[k]
      <3>1. k \in 1 .. m /\ k \in 1 .. Len(b) /\ length + k \in 1 .. n
        <4>1. k \in Nat /\ k >= 1 /\ k <= n - length
          BY <1>3, <1>5
        <4>2. Len(b) \in Nat /\ m <= Len(b)
          BY <1>6, <1>7
        <4> QED BY <1>3, <4>1, <4>2
      <3> HIDE DEF m
      <3> QED BY <1>2, <1>5, <1>6, <1>8, <3>1
    <2> QED BY <1>5, <1>8, <2>1, <2>2, SeqEqual
  <1> QED BY <1>4, <1>7, <1>9 DEF length, a, b

\* A sequence of numbers, as the provers need not look into it.
Bytes == Seq(Nat)
NatNumber == Nat

\* Joining bytes.
LEMMA Joined2 ==
  ASSUME NEW a \in Bytes, NEW b \in Bytes
  PROVE  a \o b \in Bytes /\ Len(a \o b) = Len(a) + Len(b)
  <1> DEFINE S == Nat
  <1>1. Bytes = Seq(S)
    BY DEF Bytes
  <1> HIDE DEF S
  <1> QED BY <1>1, ConcatProperties

\* Bytes may be joined in any order of joining.
LEMMA Joined3 ==
  ASSUME NEW a \in Bytes, NEW b \in Bytes, NEW c \in Bytes
  PROVE  (a \o b) \o c = a \o (b \o c)
  <1> DEFINE S == Nat
  <1>1. Bytes = Seq(S)
    BY DEF Bytes
  <1> HIDE DEF S
  <1> QED BY <1>1, ConcatAssociative

\* Joining nothing changes nothing.
LEMMA NoBytes ==
  /\ <<>> \in Bytes
  /\ \A a \in Bytes : <<>> \o a = a /\ a \o <<>> = a /\ Len(a) \in Nat
  <1> DEFINE S == Nat
  <1>1. Bytes = Seq(S)
    BY DEF Bytes
  <1> HIDE DEF S
  <1> QED BY <1>1, ConcatEmptySeq

\* So is an integer in its shortest form, or in the width chosen for it.
LEMMA WrittenComesBack ==
  ASSUME NEW value \in NatNumber, NEW widths \in WidthChoices, NEW k \in {1, 2},
         Encodable(value), FitsChosen(value, widths, k),
         NEW rest \in Bytes
  PROVE  LET q == Written(value, widths, k) \o rest
         IN  /\ HasVarInt(q)
             /\ VarIntIn(q) = value
             /\ AfterVarInt(q) = rest
             /\ VarIntLength(q) = Len(Written(value, widths, k))
  <1> DEFINE q == Written(value, widths, k) \o rest
  <1>1. PICK length \in Lengths :
           Fits(value, length) /\ Written(value, widths, k) = VarInt(value, length)
    <2>1. CASE widths = <<>>
      BY <2>1, CanonicalFits DEF Written, Canonical, NatNumber
    <2>2. CASE widths # <<>>
      <3>1. widths[k] \in Lengths
        BY <2>2 DEF WidthChoices
      <3> QED BY <2>2, <3>1 DEF Written, FitsChosen
    <2> QED BY <2>1, <2>2
  <1>2. Len(VarInt(value, length)) = length
    BY <1>1, VarIntBytes DEF NatNumber
  <1>3. q = VarInt(value, length) \o rest
    BY <1>1
  <1> HIDE DEF q
  <1>4. /\ HasVarInt(q) /\ VarIntLength(q) = length /\ VarIntIn(q) = value
        /\ AfterVarInt(q) = rest
    <2>1. rest \in Seq(Nat) /\ value \in Nat
      BY DEF Bytes, NatNumber
    <2> QED BY <1>1, <1>3, <2>1, IntegerComesBack
  <1> QED BY <1>1, <1>2, <1>4 DEF q

\* A header is found in front of what follows it.
LEMMA HeaderFound ==
  ASSUME NEW given \in Headers, NEW rest \in Bytes
  PROVE  LET q == HeaderBytes(given) \o rest
         IN  /\ HasHeader(q)
             /\ HeaderComesBack(HeaderIn(q), given)
             /\ AfterHeader(q) = rest
  <1> DEFINE q == HeaderBytes(given) \o rest
             front == Written(given.type, given.widths, 1)
             push == Written(given.push, given.widths, 2)
             second == IF given.type = PUSH THEN push ELSE <<>>
             tail == second \o rest
  <1>1. /\ given.type \in Nat /\ Encodable(given.type)
        /\ given.push \in Nat /\ Encodable(given.push)
        /\ given.widths \in WidthChoices
        /\ FitsChosen(given.type, given.widths, 1) /\ FitsChosen(given.push, given.widths, 2)
    BY InputsAssumption DEF IsHeader, IsNumber
  <1>2. front \in Bytes /\ push \in Bytes
    BY <1>1, WrittenTyped DEF Bytes
  <1>0. given.type \in NatNumber /\ given.push \in NatNumber
    BY <1>1 DEF NatNumber
  <1>3. /\ front = Written(given.type, given.widths, 1)
        /\ push = Written(given.push, given.widths, 2)
        /\ q = (front \o second) \o rest
    BY DEF HeaderBytes
  <1> HIDE DEF front, push, q
  <1>4. second \in Bytes /\ (given.type = PUSH => second = push)
        /\ (given.type # PUSH => second = <<>>)
    <2>1. <<>> \in Bytes
      BY NoBytes
    <2> QED BY <1>2, <2>1
  <1> HIDE DEF second
  <1>5. tail \in Bytes /\ q = front \o tail
    <2>1. tail \in Bytes
      BY <1>4, Joined2
    <2>2. (front \o second) \o rest = front \o (second \o rest)
      BY <1>2, <1>4, Joined3
    <2> QED BY <1>3, <2>1, <2>2
  <1>6. /\ given.type = PUSH => tail = push \o rest
        /\ given.type # PUSH => tail = rest
    BY <1>4, NoBytes
  <1> HIDE DEF tail
  <1>7. HasVarInt(q) /\ VarIntIn(q) = given.type /\ AfterVarInt(q) = tail
    <2>1. /\ Encodable(given.type) /\ given.widths \in WidthChoices
          /\ FitsChosen(given.type, given.widths, 1)
      BY <1>1
    <2>2. q = Written(given.type, given.widths, 1) \o tail /\ tail \in Bytes
      BY <1>3, <1>5
    <2> QED BY <1>0, <2>1, <2>2, WrittenComesBack
  <1>8. CASE given.type = PUSH
    <2>1. tail = push \o rest
      BY <1>6, <1>8
    <2>2. HasVarInt(tail) /\ VarIntIn(tail) = given.push /\ AfterVarInt(tail) = rest
      BY <1>0, <1>1, <1>3, <2>1, WrittenComesBack
    <2>3. HasHeader(q) /\ AfterHeader(q) = rest
      BY <1>7, <1>8, <2>2 DEF HasHeader, AfterHeader
    <2>4. HeaderComesBack(HeaderIn(q), given)
      BY <1>7, <1>8, <2>2 DEF HeaderIn, HeaderComesBack
    <2> QED BY <2>3, <2>4 DEF q
  <1>9. CASE given.type # PUSH
    <2>1. HasHeader(q) /\ AfterHeader(q) = rest
      BY <1>6, <1>7, <1>9 DEF HasHeader, AfterHeader
    <2>2. HeaderComesBack(HeaderIn(q), given)
      BY <1>7, <1>9 DEF HeaderIn, HeaderComesBack
    <2> QED BY <2>1, <2>2 DEF q
  <1> QED BY <1>8, <1>9 DEF q

\* The header that the first bytes show is that of the stream.
LEMMA HeaderOfPrefix ==
  ASSUME NEW q \in Seq(Nat), NEW n \in 0 .. Len(q), HasHeader(SubSeq(q, 1, n))
  PROVE  HasHeader(q) /\ HeaderIn(SubSeq(q, 1, n)) = HeaderIn(q)
  <1> DEFINE p == SubSeq(q, 1, n)
             m == n - VarIntLength(p)
  <1>1. HasVarInt(p)
    BY DEF HasHeader
  <1>2. /\ HasVarInt(q) /\ VarIntLength(q) = VarIntLength(p) /\ VarIntIn(q) = VarIntIn(p)
        /\ m \in 0 .. Len(AfterVarInt(q))
        /\ AfterVarInt(p) = SubSeq(AfterVarInt(q), 1, m)
    BY <1>1, ReadOfPrefix
  <1>3. AfterVarInt(q) \in Seq(Nat)
    BY AfterVarIntTyped
  <1>4. VarIntIn(q) = PUSH => HasVarInt(AfterVarInt(p))
    BY <1>2 DEF HasHeader
  <1> HIDE DEF p, m
  <1>5. VarIntIn(q) = PUSH => /\ HasVarInt(AfterVarInt(q))
                              /\ VarIntIn(AfterVarInt(q)) = VarIntIn(AfterVarInt(p))
    BY <1>2, <1>3, <1>4, ReadOfPrefix
  <1>6. HasHeader(q) /\ HeaderIn(p) = HeaderIn(q)
    BY <1>2, <1>5 DEF HasHeader, HeaderIn
  <1> QED BY <1>6 DEF p

\* The frame that the first bytes show is the one that all the bytes show.
LEMMA FrameOfPrefix ==
  ASSUME NEW q \in Seq(Nat), NEW n \in 0 .. Len(q), NEW maximum,
         Parse(SubSeq(q, 1, n), maximum).result = "frame"
  PROVE  /\ Parse(q, maximum).result = "frame"
         /\ Parse(q, maximum).length = Parse(SubSeq(q, 1, n), maximum).length
  <1> DEFINE p == SubSeq(q, 1, n)
             m == n - VarIntLength(p)
             a == AfterVarInt(p)
             b == AfterVarInt(q)
             start == VarIntLength(p) + VarIntLength(a)
  <1>1. /\ HasVarInt(p) /\ HasVarInt(a)
        /\ ~ (VarIntIn(a) > maximum)
        /\ ~ (Len(p) < start + VarIntIn(a))
        /\ Parse(p, maximum).length = start + VarIntIn(a)
    BY DEF Parse
  <1>2. /\ HasVarInt(q) /\ VarIntLength(q) = VarIntLength(p) /\ VarIntIn(q) = VarIntIn(p)
        /\ m \in 0 .. Len(b)
        /\ a = SubSeq(b, 1, m)
    BY <1>1, ReadOfPrefix
  <1>3. b \in Seq(Nat) /\ a \in Seq(Nat)
    <2>1. p \in Seq(Nat)
      BY PrefixTyped
    <2> HIDE DEF p
    <2> QED BY <2>1, AfterVarIntTyped
  <1>4. Len(p) = n /\ n <= Len(q) /\ Len(q) \in Nat /\ n \in Nat
    BY PrefixTyped
  <1> HIDE DEF p, m, a, b
  <1>5. HasVarInt(b) /\ VarIntLength(b) = VarIntLength(a) /\ VarIntIn(b) = VarIntIn(a)
    <2>1. HasVarInt(a) /\ a = SubSeq(b, 1, m) /\ m \in 0 .. Len(b) /\ b \in Seq(Nat)
      BY <1>1, <1>2, <1>3
    <2> QED BY <2>1, ReadOfPrefix
  <1>6. VarIntIn(a) \in Nat /\ start \in Nat
    <2>1. VarIntIn(a) \in Nat
      BY <1>1, <1>3, VarIntInTyped
    <2>2. \A bytes : VarIntLength(bytes) \in Nat
      BY VarIntLengths DEF Lengths
    <2>3. VarIntLength(p) \in Nat /\ VarIntLength(a) \in Nat
      BY <2>2
    <2> QED BY <2>1, <2>3
  <1>7. ~ (Len(q) < start + VarIntIn(a))
    <2> HIDE DEF start
    <2> QED BY <1>1, <1>4, <1>6
  <1>8. Parse(q, maximum).result = "frame" /\ Parse(q, maximum).length = start + VarIntIn(a)
    BY <1>1, <1>2, <1>5, <1>7 DEF Parse, b
  <1> QED BY <1>1, <1>8 DEF p

\* A frame is found in front of what follows it, unless its payload is too large.
LEMMA FrameFound ==
  ASSUME NEW given \in Frames, BuildAllowed(given, Capacity),
         NEW rest \in Bytes
  PROVE  LET parsed == Parse(FrameBytes(given) \o rest, MaximumPayload)
         IN  /\ parsed.result
                   = IF Len(Payload(given)) > MaximumPayload THEN "too large" ELSE "frame"
             /\ parsed.result = "frame" => parsed.length = Len(FrameBytes(given))
             /\ FrameIn(FrameBytes(given)) = [type |-> given.type, payload |-> Payload(given)]
  <1> DEFINE q == FrameBytes(given) \o rest
             payload == Payload(given)
             size == Len(payload)
             front == Written(given.type, given.widths, 1)
             length == Written(size, given.widths, 2)
             tail == payload \o rest
             second == length \o tail
             all == FrameBytes(given)
  <1>1. /\ given.type \in Nat /\ Encodable(given.type)
        /\ given.numbers \in Seq(Nat) /\ given.data \in Seq(Byte)
        /\ given.widths \in WidthChoices
        /\ FitsChosen(given.type, given.widths, 1)
        /\ FitsChosen(size, given.widths, 2) /\ Encodable(size)
    BY InputsAssumption DEF IsGivenFrame, BuildAllowed
  <1>2. payload \in Bytes /\ size \in Nat
    <2>1. given.data \in Seq(Nat)
      BY <1>1, Bases DEF Byte
    <2>2. payload \in Seq(Nat)
      BY <1>1, <2>1, CanonicalAllTyped, ConcatProperties DEF Payload
    <2> HIDE DEF payload
    <2> QED BY <2>2 DEF Bytes
  <1> HIDE DEF payload
  <1> HIDE DEF size
  <1>3. front \in Bytes /\ length \in Bytes
    BY <1>1, <1>2, WrittenTyped DEF Bytes
  <1>0. given.type \in NatNumber /\ size \in NatNumber
    BY <1>1, <1>2 DEF NatNumber
  <1>4. /\ front = Written(given.type, given.widths, 1)
        /\ length = Written(size, given.widths, 2)
        /\ all = (front \o length) \o payload
        /\ q = all \o rest
    BY DEF FrameBytes, payload, size
  <1> HIDE DEF front, length, all, q
  <1>5. /\ length \o payload \in Bytes
        /\ all = front \o (length \o payload)
        /\ all \in Bytes
        /\ Len(all) = Len(front) + (Len(length) + size)
    <2>1. length \o payload \in Bytes /\ Len(length \o payload) = Len(length) + size
      BY <1>2, <1>3, Joined2 DEF size
    <2>2. all = front \o (length \o payload)
      <3>1. (front \o length) \o payload = front \o (length \o payload)
        BY <1>2, <1>3, Joined3
      <3> QED BY <1>4, <3>1
    <2> QED BY <1>3, <2>1, <2>2, Joined2
  <1>6. tail \in Bytes /\ second \in Bytes /\ q = front \o second
    <2>0. (length \o payload) \o rest = length \o (payload \o rest)
      BY <1>2, <1>3, Joined3
    <2>1. tail \in Bytes /\ (length \o payload) \o rest = second
      BY <1>2, <2>0, Joined2
    <2>2. second \in Bytes
      <3> HIDE DEF tail
      <3> QED BY <1>3, <2>1, Joined2
    <2>3. q = front \o ((length \o payload) \o rest)
      <3> DEFINE back == length \o payload
      <3>1. back \in Bytes /\ q = (front \o back) \o rest
        BY <1>4, <1>5
      <3> HIDE DEF back
      <3>2. (front \o back) \o rest = front \o (back \o rest)
        BY <1>3, <3>1, Joined3
      <3> QED BY <3>1, <3>2 DEF back
    <2> HIDE DEF second, tail
    <2> QED BY <2>1, <2>2, <2>3
  <1>7. second = length \o tail
    OBVIOUS
  <1> HIDE DEF second, tail
  <1>8. /\ HasVarInt(q) /\ VarIntIn(q) = given.type /\ AfterVarInt(q) = second
        /\ VarIntLength(q) = Len(front)
    <2>1. /\ Encodable(given.type) /\ given.widths \in WidthChoices
          /\ FitsChosen(given.type, given.widths, 1)
      BY <1>1
    <2>2. q = Written(given.type, given.widths, 1) \o second /\ second \in Bytes
      BY <1>4, <1>6
    <2>3. HasVarInt(q) /\ VarIntIn(q) = given.type /\ AfterVarInt(q) = second
      BY <1>0, <2>1, <2>2, WrittenComesBack
    <2>4. VarIntLength(q) = Len(Written(given.type, given.widths, 1))
      BY <1>0, <2>1, <2>2, WrittenComesBack
    <2> QED BY <1>4, <2>3, <2>4
  <1>9. /\ HasVarInt(second) /\ VarIntIn(second) = size /\ AfterVarInt(second) = tail
        /\ VarIntLength(second) = Len(length)
    BY <1>0, <1>1, <1>2, <1>4, <1>6, <1>7, WrittenComesBack
  <1>10. Len(q) = Len(all) + Len(rest) /\ Len(rest) \in Nat /\ Len(all) \in Nat
    BY <1>4, <1>5, Joined2, NoBytes
  <1>11. FrameIn(all) = [type |-> given.type, payload |-> payload]
    <2> DEFINE back == length \o payload
    <2>1. back \in Bytes /\ all = front \o back /\ back = length \o payload
      BY <1>5
    <2> HIDE DEF back
    <2>2. VarIntIn(all) = given.type /\ AfterVarInt(all) = back
      <3>1. /\ Encodable(given.type) /\ given.widths \in WidthChoices
            /\ FitsChosen(given.type, given.widths, 1)
        BY <1>1
      <3>2. all = Written(given.type, given.widths, 1) \o back /\ back \in Bytes
        BY <1>4, <2>1
      <3> QED BY <1>0, <3>1, <3>2, WrittenComesBack
    <2>3. AfterVarInt(back) = payload
      BY <1>0, <1>1, <1>2, <1>4, <2>1, WrittenComesBack
    <2> QED BY <2>2, <2>3 DEF FrameIn
  <1>12. Len(front) \in Nat /\ Len(length) \in Nat /\ MaximumPayload \in Nat
    BY <1>3, InputsAssumption
  <1>13. /\ ~ (Len(q) < (Len(front) + Len(length)) + size)
         /\ (Len(front) + Len(length)) + size = Len(all)
    BY <1>2, <1>5, <1>10, <1>12
  <1>14. CASE size > MaximumPayload
    <2>1. Parse(q, MaximumPayload).result = "too large"
      BY <1>8, <1>9, <1>14 DEF Parse
    <2> QED BY <1>11, <1>14, <2>1 DEF all, size, payload, q
  <1>15. CASE ~ (size > MaximumPayload)
    <2>1. /\ Parse(q, MaximumPayload).result = "frame"
          /\ Parse(q, MaximumPayload).length = (Len(front) + Len(length)) + size
      BY <1>8, <1>9, <1>13, <1>15 DEF Parse
    <2> QED BY <1>11, <1>13, <1>15, <2>1 DEF all, size, payload, q
  <1> QED BY <1>14, <1>15

-----------------------------------------------------------------------------
(* Pieces in a row, and the numbers of a payload *)

\* The whole is what the pieces from the first to the last are, joined: each tail is its
\* first piece and the next tail.
Tails(tails, pieces, first, last, whole) ==
  /\ tails \in [first .. (last + 1) -> Bytes]
  /\ tails[first] = whole
  /\ tails[last + 1] = <<>>
  /\ \A k \in first .. last : tails[k] = pieces[k] \o tails[k + 1]

AreJoined(pieces, first, last, whole) == \E tails : Tails(tails, pieces, first, last, whole)

\* No pieces are no bytes.
LEMMA NoneAreJoined ==
  ASSUME NEW pieces, NEW last \in Nat
  PROVE  AreJoined(pieces, last + 1, last, <<>>)
  <1> DEFINE tails == [k \in (last + 1) .. (last + 1) |-> <<>>]
  <1>1. tails \in [(last + 1) .. (last + 1) -> Bytes]
    BY NoBytes
  <1>2. (last + 1) \in (last + 1) .. (last + 1)
    OBVIOUS
  <1>3. tails[last + 1] = <<>>
    BY <1>2
  <1>4. (last + 1) .. last = {}
    OBVIOUS
  <1> HIDE DEF tails
  <1>5. Tails(tails, pieces, last + 1, last, <<>>)
    BY <1>1, <1>3, <1>4 DEF Tails
  <1> QED BY <1>5 DEF AreJoined

\* A piece behind the last makes the whole longer by its bytes.
LEMMA OneMoreJoined ==
  ASSUME NEW pieces, NEW more, NEW first \in Nat, NEW last \in Nat, first <= last + 1,
         NEW whole, NEW bytes \in Bytes,
         AreJoined(pieces, first, last, whole),
         \A k \in first .. last : pieces[k] \in Bytes /\ more[k] = pieces[k],
         more[last + 1] = bytes
  PROVE  AreJoined(more, first, last + 1, whole \o bytes)
  <1>1. PICK tails : Tails(tails, pieces, first, last, whole)
    BY DEF AreJoined
  <1>2. /\ tails \in [first .. (last + 1) -> Bytes]
        /\ tails[first] = whole /\ tails[last + 1] = <<>>
        /\ \A k \in first .. last : tails[k] = pieces[k] \o tails[k + 1]
    BY <1>1 DEF Tails
  <1> DEFINE end == last + 2
             longer == [k \in first .. end |-> IF k = end THEN <<>> ELSE tails[k] \o bytes]
  <1>3. \A k \in first .. end : k # end => k \in first .. (last + 1)
    OBVIOUS
  <1>4. \A k \in first .. (last + 1) :
           /\ k \in first .. end /\ k # end
           /\ tails[k] \in Bytes
    BY <1>2
  <1>5. \A k \in first .. (last + 1) : longer[k] = tails[k] \o bytes
    BY <1>4
  <1>6. longer[end] = <<>> /\ longer \in [first .. end -> Bytes]
    <2>1. end \in first .. end
      OBVIOUS
    <2>2. ASSUME NEW k \in first .. end
          PROVE  (IF k = end THEN <<>> ELSE tails[k] \o bytes) \in Bytes
      <3>1. CASE k = end
        BY <3>1, NoBytes
      <3>2. CASE k # end
        BY <1>2, <1>3, <3>2, Joined2
      <3> QED BY <3>1, <3>2
    <2> HIDE DEF end
    <2> QED BY <2>1, <2>2
  <1> HIDE DEF longer
  <1>7. longer[first] = whole \o bytes
    <2>1. first \in first .. (last + 1)
      OBVIOUS
    <2> QED BY <1>2, <1>5, <2>1
  <1>8. longer[last + 1] = bytes
    <2>1. (last + 1) \in first .. (last + 1)
      OBVIOUS
    <2>2. longer[last + 1] = <<>> \o bytes
      BY <1>2, <1>5, <2>1
    <2> QED BY <2>2, NoBytes
  <1>9. ASSUME NEW k \in first .. (last + 1) PROVE longer[k] = more[k] \o longer[k + 1]
    <2>1. CASE k = last + 1
      <3>1. longer[k + 1] = <<>>
        <4>1. k + 1 = end
          BY <2>1
        <4> QED BY <1>6, <4>1
      <3>2. bytes \o <<>> = bytes
        BY NoBytes
      <3>3. more[k] = bytes /\ longer[k] = bytes
        BY <1>8, <2>1
      <3> QED BY <3>1, <3>2, <3>3
    <2>2. CASE k # last + 1
      <3>1. k \in first .. last /\ k + 1 \in first .. (last + 1)
        BY <2>2
      <3>2. /\ tails[k] = pieces[k] \o tails[k + 1] /\ tails[k + 1] \in Bytes
            /\ pieces[k] \in Bytes /\ more[k] = pieces[k]
        BY <1>2, <3>1
      <3>3. longer[k] = tails[k] \o bytes /\ longer[k + 1] = tails[k + 1] \o bytes
        BY <1>5, <3>1
      <3>4. (pieces[k] \o tails[k + 1]) \o bytes = pieces[k] \o (tails[k + 1] \o bytes)
        BY <3>2, Joined3
      <3> QED BY <3>2, <3>3, <3>4
    <2> QED BY <2>1, <2>2
  <1>10. end = (last + 1) + 1
    OBVIOUS
  <1> HIDE DEF end
  <1>11. Tails(longer, more, first, last + 1, whole \o bytes)
    BY <1>6, <1>7, <1>9, <1>10 DEF Tails
  <1> QED BY <1>11 DEF AreJoined

\* The whole begins with the first piece; the others are the rest.
LEMMA FirstOfJoined ==
  ASSUME NEW pieces, NEW first \in Nat, NEW last \in Nat, NEW whole, first <= last,
         AreJoined(pieces, first, last, whole)
  PROVE  \E rest \in Bytes : /\ whole = pieces[first] \o rest
                             /\ AreJoined(pieces, first + 1, last, rest)
  <1>1. PICK tails : Tails(tails, pieces, first, last, whole)
    BY DEF AreJoined
  <1>2. /\ tails \in [first .. (last + 1) -> Bytes]
        /\ tails[first] = whole /\ tails[last + 1] = <<>>
        /\ \A k \in first .. last : tails[k] = pieces[k] \o tails[k + 1]
    BY <1>1 DEF Tails
  <1> DEFINE fewer == [k \in (first + 1) .. (last + 1) |-> tails[k]]
  <1>3. \A k \in (first + 1) .. (last + 1) : k \in first .. (last + 1)
    OBVIOUS
  <1>4. \A k \in (first + 1) .. (last + 1) : fewer[k] = tails[k]
    OBVIOUS
  <1>5. fewer \in [(first + 1) .. (last + 1) -> Bytes]
    BY <1>2, <1>3
  <1> HIDE DEF fewer
  <1>6. /\ (first + 1) \in (first + 1) .. (last + 1)
        /\ (last + 1) \in (first + 1) .. (last + 1)
        /\ first \in first .. last
    OBVIOUS
  <1>7. ASSUME NEW k \in (first + 1) .. last PROVE fewer[k] = pieces[k] \o fewer[k + 1]
    <2>1. /\ k \in first .. last /\ k \in (first + 1) .. (last + 1)
          /\ k + 1 \in (first + 1) .. (last + 1)
      OBVIOUS
    <2> QED BY <1>2, <1>4, <2>1
  <1>8. Tails(fewer, pieces, first + 1, last, tails[first + 1])
    BY <1>2, <1>4, <1>5, <1>6, <1>7 DEF Tails
  <1>9. whole = pieces[first] \o tails[first + 1] /\ tails[first + 1] \in Bytes
    BY <1>2, <1>3, <1>6
  <1> QED BY <1>8, <1>9 DEF AreJoined

\* Joined pieces are the first and the join of the others, down to the last.
LEMMA JoinedAreJoined ==
  ASSUME NEW pieces, Len(pieces) \in Nat, \A k \in 1 .. Len(pieces) : pieces[k] \in Bytes
  PROVE  AreJoined(pieces, 1, Len(pieces), Joined(pieces))
  <1> DEFINE N == Len(pieces)
  <1>1. PICK f : JoinedBy(f, pieces, N) /\ Joined(pieces) = f[N]
    BY JoinedSteps
  <1>2. f[0] = <<>> /\ \A k \in 1 .. N : f[k] = f[k - 1] \o pieces[k]
    BY <1>1 DEF JoinedBy
  <1> DEFINE bad == {n \in 0 .. N : ~ AreJoined(pieces, 1, n, f[n])}
  <1>3. bad = {}
    <2>1. SUFFICES ASSUME bad # {} PROVE FALSE
      OBVIOUS
    <2>2. PICK n \in bad : \A m \in bad : ~ (m < n)
      <3>1. bad \in SUBSET Nat
        OBVIOUS
      <3> HIDE DEF bad
      <3> QED BY <2>1, <3>1, LeastNumber
    <2>3. n \in 0 .. N /\ ~ AreJoined(pieces, 1, n, f[n]) /\ n \in Nat
      BY <2>2
    <2>4. n # 0
      <3>1. AreJoined(pieces, 0 + 1, 0, <<>>)
        BY NoneAreJoined
      <3> QED BY <1>2, <2>3, <3>1
    <2>5. n - 1 \in 0 .. N /\ n - 1 < n /\ n \in 1 .. N /\ n - 1 \in Nat
      BY <2>3, <2>4
    <2>6. AreJoined(pieces, 1, n - 1, f[n - 1])
      BY <2>2, <2>5
    <2> DEFINE l == n - 1
    <2>7. l \in Nat /\ 1 <= l + 1 /\ l + 1 = n /\ f[n] = f[l] \o pieces[n]
      <3>1. f[n] = f[n - 1] \o pieces[n]
        BY <1>2, <2>5
      <3>2. n \in Nat
        BY <2>3
      <3> QED BY <2>5, <3>1, <3>2
    <2>8. \A k \in 1 .. l : pieces[k] \in Bytes /\ pieces[k] = pieces[k]
      BY <2>5
    <2>9. pieces[n] \in Bytes /\ AreJoined(pieces, 1, l, f[l])
      BY <2>5, <2>6
    <2> HIDE DEF l
    <2>10. AreJoined(pieces, 1, l + 1, f[l] \o pieces[n])
      BY <2>7, <2>8, <2>9, OneMoreJoined
    <2> QED BY <2>3, <2>7, <2>10
  <1>4. N \in 0 .. N
    OBVIOUS
  <1> HIDE DEF N
  <1> QED BY <1>1, <1>3, <1>4 DEF N

\* A tail of bytes, and a tail of a tail.
LEMMA TailOf ==
  ASSUME NEW q \in Bytes, NEW i \in 1 .. (Len(q) + 1)
  PROVE  /\ From(q, i) \in Bytes
         /\ Len(From(q, i)) = (Len(q) + 1) - i
         /\ \A k \in 1 .. ((Len(q) + 1) - i) : From(q, i)[k] = q[(i - 1) + k]
  <1> DEFINE n == Len(q)
  <1>1. q \in Seq(Nat) /\ n \in Nat /\ i \in Nat
    BY DEF Bytes
  <1>2. \A k \in i .. n : q[k] \in Nat
    <2>1. \A k \in i .. n : k \in 1 .. n
      BY <1>1
    <2> QED BY <1>1, <2>1, ElementOfSeq
  <1>3. /\ SubSeq(q, i, n) \in Seq(Nat)
        /\ Len(SubSeq(q, i, n)) = IF i <= n THEN n - i + 1 ELSE 0
        /\ \A k \in 1 .. n - i + 1 : SubSeq(q, i, n)[k] = q[i + k - 1]
    <2> HIDE DEF n
    <2> QED BY <1>1, <1>2, SubSeqProperties
  <1>4. \A k \in 1 .. ((n + 1) - i) : k \in 1 .. n - i + 1 /\ i + k - 1 = (i - 1) + k
    BY <1>1
  <1>5. From(q, i) = SubSeq(q, i, n)
    BY DEF From
  <1> DEFINE t == SubSeq(q, i, n)
  <1>6. \A k \in 1 .. ((n + 1) - i) : t[k] = q[(i - 1) + k]
    BY <1>3, <1>4
  <1>7. Len(t) = (n + 1) - i
    BY <1>1, <1>3
  <1> HIDE DEF t, n
  <1> QED BY <1>3, <1>5, <1>6, <1>7 DEF Bytes, t, n

\* The tail of a tail is a tail.
LEMMA TailOfTail ==
  ASSUME NEW q \in Bytes, NEW i \in 1 .. (Len(q) + 1), NEW j \in 0 .. Len(From(q, i))
  PROVE  /\ i + j \in 1 .. (Len(q) + 1)
         /\ From(From(q, i), j + 1) = From(q, i + j)
  <1> DEFINE n == Len(q)
             a == From(q, i)
             m == (n + 1) - i
  <1>1. /\ a \in Bytes /\ Len(a) = m
        /\ \A k \in 1 .. m : a[k] = q[(i - 1) + k]
    BY TailOf
  <1>2. n \in Nat /\ i \in Nat /\ j \in 0 .. m /\ m \in Nat
    BY <1>1 DEF Bytes
  <1>3. i + j \in 1 .. (n + 1) /\ j + 1 \in 1 .. (m + 1)
    BY <1>2
  <1> HIDE DEF a
  <1> DEFINE b == From(a, j + 1)
             c == From(q, i + j)
  <1>4. /\ b \in Bytes /\ Len(b) = (m + 1) - (j + 1)
        /\ \A k \in 1 .. ((m + 1) - (j + 1)) : b[k] = a[((j + 1) - 1) + k]
    <2>1. j + 1 \in 1 .. (Len(a) + 1)
      BY <1>1, <1>3
    <2> HIDE DEF m
    <2> QED BY <1>1, <2>1, TailOf
  <1>5. /\ c \in Bytes /\ Len(c) = (n + 1) - (i + j)
        /\ \A k \in 1 .. ((n + 1) - (i + j)) : c[k] = q[((i + j) - 1) + k]
    BY <1>3, TailOf
  <1> HIDE DEF b, c
  <1>6. Len(b) = Len(c)
    BY <1>2, <1>4, <1>5
  <1>7. ASSUME NEW k \in 1 .. Len(b) PROVE b[k] = c[k]
    <2>1. /\ k \in 1 .. ((m + 1) - (j + 1)) /\ k \in 1 .. ((n + 1) - (i + j))
          /\ ((j + 1) - 1) + k \in 1 .. m
          /\ (i - 1) + (((j + 1) - 1) + k) = ((i + j) - 1) + k
      BY <1>2, <1>4
    <2> HIDE DEF m, n
    <2> QED BY <1>1, <1>4, <1>5, <2>1
  <1>8. b = c
    BY <1>4, <1>5, <1>6, <1>7, SeqEqual DEF Bytes
  <1> QED BY <1>3, <1>8 DEF a, b, c

\* Integers are read one behind the other, up to the end of the bytes.
ReadBy(f, bytes, first) ==
  \A i \in first .. (Len(bytes) + 1) :
     f[i] = IF From(bytes, i) = <<>> THEN <<>>
            ELSE IF ~HasVarInt(From(bytes, i)) THEN <<Broken>>
            ELSE <<VarIntIn(From(bytes, i))>> \o f[i + VarIntLength(From(bytes, i))]

\* The numbers of a payload are read that way.
LEMMA NumbersSteps ==
  ASSUME NEW bytes \in Bytes
  PROVE  \E f : ReadBy(f, bytes, 1) /\ NumbersIn(bytes) = f[1]
  <1> DEFINE L == Len(bytes)
             T(i) == From(bytes, i)
             Body(f, i) == IF T(i) = <<>> THEN <<>>
                           ELSE IF ~HasVarInt(T(i)) THEN <<Broken>>
                           ELSE <<VarIntIn(T(i))>> \o f[i + VarIntLength(T(i))]
             Solves(f, n) == f = [i \in ((L + 1) - n) .. (L + 1) |-> Body(f, i)]
             whole == CHOOSE f : f = [i \in 1 .. (L + 1) |-> Body(f, i)]
             without == {n \in 0 .. L : ~ \E f : Solves(f, n)}
  <1>1. L \in Nat
    BY DEF Bytes
  <1>2. ASSUME NEW i \in 1 .. (L + 1), T(i) # <<>>, HasVarInt(T(i))
        PROVE  /\ i + VarIntLength(T(i)) \in (i + 1) .. (L + 1)
    <2>1. T(i) \in Bytes /\ Len(T(i)) = (L + 1) - i
      BY TailOf
    <2>2. VarIntLength(T(i)) \in 1 .. Len(T(i))
      BY <1>2, <2>1, BehindVarInt DEF Bytes
    <2> QED BY <1>1, <2>1, <2>2
  <1> HIDE DEF T
  <1>3. without = {}
    <2>1. SUFFICES ASSUME without # {} PROVE FALSE
      OBVIOUS
    <2>2. PICK n \in without : \A m \in without : ~ (m < n)
      <3>1. without \in SUBSET Nat
        <4>1. without \subseteq 0 .. L
          BY Zenon
        <4>2. 0 .. L \subseteq Nat
          BY <1>1
        <4> HIDE DEF without
        <4> QED BY <4>1, <4>2
      <3> HIDE DEF without
      <3> QED BY <2>1, <3>1, LeastNumber
    <2>3. n \in 0 .. L /\ n \in Nat /\ ~ \E f : Solves(f, n)
      BY <1>1, <2>2
    <2> DEFINE start == (L + 1) - n
    <2>4. start \in 1 .. (L + 1)
      BY <1>1, <2>3
    <2>5. PICK g : \A i \in (start + 1) .. (L + 1) : g[i] = Body(g, i)
      <3>1. CASE n = 0
        <4>1. (start + 1) .. (L + 1) = {}
          BY <1>1, <3>1
        <4> HIDE DEF start, Body
        <4> QED BY <4>1
      <3>2. CASE n # 0
        <4>1. n - 1 \in 0 .. L /\ n - 1 < n
          BY <1>1, <2>3, <3>2
        <4>2. n - 1 \notin without
          BY <2>2, <4>1
        <4>3. PICK g : Solves(g, n - 1)
          BY <4>1, <4>2
        <4>4. (L + 1) - (n - 1) = start + 1
          BY <1>1, <2>3
        <4>5. g = [i \in (start + 1) .. (L + 1) |-> Body(g, i)]
          BY <4>3, <4>4
        <4> HIDE DEF start
        <4> QED BY <4>5
      <3> QED BY <3>1, <3>2
    <2> DEFINE f == [i \in start .. (L + 1) |-> IF i = start THEN Body(g, i) ELSE g[i]]
    <2>6. \A i \in (start + 1) .. (L + 1) :
             i \in start .. (L + 1) /\ i # start /\ i \in 1 .. (L + 1)
      BY <1>1, <2>4
    <2>7. \A i \in (start + 1) .. (L + 1) : f[i] = g[i]
      <3> HIDE DEF start, Body
      <3> QED BY <2>6
    <2>8. ASSUME NEW i \in start .. (L + 1) PROVE f[i] = Body(g, i)
      <3>1. CASE i = start
        <4> HIDE DEF start, Body
        <4> QED BY <3>1
      <3>2. CASE i # start
        <4>1. i \in (start + 1) .. (L + 1)
          BY <1>1, <2>4, <3>2
        <4> HIDE DEF start, Body
        <4> QED BY <2>5, <3>2, <4>1
      <3> QED BY <3>1, <3>2
    <2>9. ASSUME NEW i \in start .. (L + 1) PROVE Body(g, i) = Body(f, i)
      <3>1. i \in 1 .. (L + 1)
        BY <1>1, <2>4
      <3>2. CASE T(i) # <<>> /\ HasVarInt(T(i))
        <4>1. i + VarIntLength(T(i)) \in (i + 1) .. (L + 1)
          BY <1>2, <3>1, <3>2
        <4>2. i + VarIntLength(T(i)) \in (start + 1) .. (L + 1)
          BY <1>1, <2>4, <4>1
        <4> HIDE DEF start, f
        <4> QED BY <2>7, <4>2
      <3> HIDE DEF f
      <3> QED BY <3>2
    <2>10. Solves(f, n)
      <3>1. \A i \in start .. (L + 1) : f[i] = Body(f, i)
        BY <2>8, <2>9
      <3>2. f = [i \in start .. (L + 1) |-> f[i]]
        OBVIOUS
      <3> HIDE DEF f, Body, start
      <3>3. f = [i \in start .. (L + 1) |-> Body(f, i)]
        BY <3>1, <3>2
      <3> QED BY <3>3 DEF start
    <2> QED BY <2>3, <2>10
  <1>4. whole = [i \in 1 .. (L + 1) |-> Body(whole, i)]
    <2>1. L \in 0 .. L /\ (L + 1) - L = 1
      BY <1>1
    <2>2. L \notin without
      <3> HIDE DEF without
      <3> QED BY <1>3
    <2>3. \E f : Solves(f, L)
      BY <2>1, <2>2, Zenon
    <2>4. \E f : f = [i \in 1 .. (L + 1) |-> Body(f, i)]
      BY <2>1, <2>3
    <2> QED BY <2>4
  <1>5. NumbersIn(bytes) = whole[1]
    BY DEF NumbersIn, T
  <1> HIDE DEF whole
  <1>6. \A i \in 1 .. (L + 1) : whole[i] = Body(whole, i)
    BY <1>4
  <1>7. ReadBy(whole, bytes, 1)
    BY <1>6 DEF ReadBy, T
  <1> QED BY <1>5, <1>7

\* What an integer takes from the bytes it stands in front of.
LEMMA CanonicalComesBack ==
  ASSUME NEW value \in Nat, Encodable(value), NEW rest \in Bytes
  PROVE  LET q == Canonical(value) \o rest
         IN  /\ q \in Bytes /\ q # <<>>
             /\ HasVarInt(q)
             /\ VarIntIn(q) = value
             /\ VarIntLength(q) \in 0 .. Len(q)
             /\ From(q, VarIntLength(q) + 1) = rest
  <1> DEFINE q == Canonical(value) \o rest
  <1>1. Canonical(value) = Written(value, <<>>, 1)
    BY DEF Written
  <1>2. value \in NatNumber /\ <<>> \in WidthChoices /\ FitsChosen(value, <<>>, 1)
    BY DEF NatNumber, WidthChoices, FitsChosen
  <1>3. HasVarInt(q) /\ VarIntIn(q) = value /\ AfterVarInt(q) = rest
    BY <1>1, <1>2, WrittenComesBack
  <1>4. q \in Bytes
    <2>1. Canonical(value) \in Bytes
      BY CanonicalTyped DEF Bytes
    <2> QED BY <2>1, Joined2
  <1> HIDE DEF q
  <1>5. q # <<>> /\ VarIntLength(q) \in 0 .. Len(q)
    <2>1. Len(q) > 0
      BY <1>3 DEF HasVarInt
    <2>2. VarIntLength(q) \in 1 .. Len(q)
      BY <1>3, <1>4, BehindVarInt DEF Bytes
    <2> QED BY <2>1, <2>2
  <1> QED BY <1>3, <1>4, <1>5 DEF AfterVarInt, q

\* The last elements of a sequence.
LEMMA LastElements ==
  ASSUME NEW q \in Seq(Nat)
  PROVE  /\ SubSeq(q, Len(q) + 1, Len(q)) = <<>>
         /\ SubSeq(q, 1, Len(q)) = q
         /\ \A k \in 1 .. Len(q) :
               SubSeq(q, k, Len(q)) = <<q[k]>> \o SubSeq(q, k + 1, Len(q))
  <1> DEFINE n == Len(q)
  <1>1. n \in Nat /\ DOMAIN q = 1 .. n
    OBVIOUS
  <1>2. SubSeq(q, n + 1, n) = <<>>
    BY <1>1, Z3
  <1>3. SubSeq(q, 1, n) = q
    <2>1. q \o <<>> = q /\ <<>> \in Seq(Nat)
      OBVIOUS
    <2>2. SubSeq(q, 1, Len(q)) = q
      BY <2>1, PartsComeBack
    <2> QED BY <2>2
  <1>4. ASSUME NEW k \in 1 .. n
        PROVE  SubSeq(q, k, n) = <<q[k]>> \o SubSeq(q, k + 1, n)
    <2> DEFINE a == From(q, k)
               b == From(q, k + 1)
               c == <<q[k]>> \o b
    <2>1. k \in 1 .. (Len(q) + 1) /\ k + 1 \in 1 .. (Len(q) + 1) /\ q \in Bytes /\ q[k] \in Nat
      BY <1>1, ElementOfSeq DEF Bytes
    <2>2. /\ a \in Bytes /\ Len(a) = (n + 1) - k
          /\ \A i \in 1 .. ((n + 1) - k) : a[i] = q[(k - 1) + i]
      BY <2>1, TailOf
    <2>3. /\ b \in Bytes /\ Len(b) = (n + 1) - (k + 1)
          /\ \A i \in 1 .. ((n + 1) - (k + 1)) : b[i] = q[((k + 1) - 1) + i]
      BY <2>1, TailOf
    <2> HIDE DEF a, b
    <2>4. <<q[k]>> \in Seq(Nat) /\ Len(<<q[k]>>) = 1 /\ <<q[k]>>[1] = q[k]
      BY <2>1
    <2>5. /\ c \in Seq(Nat) /\ Len(c) = 1 + Len(b)
          /\ \A i \in 1 .. (1 + Len(b)) : c[i] = IF i <= 1 THEN <<q[k]>>[i] ELSE b[i - 1]
      <3> DEFINE h == <<q[k]>>
      <3>1. h \in Seq(Nat) /\ Len(h) = 1 /\ b \in Seq(Nat) /\ c = h \o b
        BY <2>3, <2>4 DEF Bytes
      <3> HIDE DEF h, c
      <3>2. /\ h \o b \in Seq(Nat) /\ Len(h \o b) = Len(h) + Len(b)
            /\ \A i \in 1 .. (Len(h) + Len(b)) :
                 (h \o b)[i] = IF i <= Len(h) THEN h[i] ELSE b[i - Len(h)]
        BY <3>1, ConcatProperties
      <3>3. /\ c \in Seq(Nat) /\ Len(c) = 1 + Len(b)
            /\ \A i \in 1 .. (1 + Len(b)) : c[i] = IF i <= 1 THEN h[i] ELSE b[i - 1]
        BY <3>1, <3>2
      <3> QED BY <3>3 DEF h
    <2> HIDE DEF c
    <2>6. ASSUME NEW i \in 1 .. Len(a) PROVE a[i] = c[i]
      <3>1. CASE i = 1
        <4>1. i \in 1 .. ((n + 1) - k) /\ (k - 1) + i = k
          BY <1>1, <3>1
        <4>2. a[i] = q[k]
          BY <2>2, <4>1
        <4>3. i \in 1 .. (1 + Len(b)) /\ i <= 1
          BY <1>1, <2>3, <3>1
        <4>4. c[i] = q[k]
          BY <2>4, <2>5, <3>1, <4>3
        <4> QED BY <4>2, <4>4
      <3>2. CASE i # 1
        <4>1. /\ i \in 1 .. ((n + 1) - k) /\ i \in 1 .. (1 + Len(b)) /\ ~ (i <= 1)
              /\ i - 1 \in 1 .. ((n + 1) - (k + 1))
              /\ ((k + 1) - 1) + (i - 1) = (k - 1) + i
          BY <1>1, <2>2, <2>3, <3>2
        <4> HIDE DEF n
        <4> QED BY <2>2, <2>3, <2>5, <4>1
      <3> QED BY <3>1, <3>2
    <2>7. Len(a) = Len(c)
      BY <1>1, <2>2, <2>3, <2>5
    <2>8. a = c
      BY <2>2, <2>5, <2>6, <2>7, SeqEqual DEF Bytes
    <2> QED BY <2>8 DEF a, b, c, From
  <1> QED BY <1>2, <1>3, <1>4

\* The numbers of a payload are read as they were written.
LEMMA NumbersComeBack ==
  ASSUME NEW numbers \in Seq(Nat), \A k \in DOMAIN numbers : Encodable(numbers[k])
  PROVE  NumbersIn(CanonicalAll(numbers)) = numbers
  <1> DEFINE pieces == [k \in DOMAIN numbers |-> Canonical(numbers[k])]
             N == Len(numbers)
             bytes == CanonicalAll(numbers)
             L == Len(bytes)
  <1>1. N \in Nat /\ DOMAIN numbers = 1 .. N /\ \A k \in 1 .. N : numbers[k] \in Nat
    BY ElementOfSeq
  <1>2. \A k \in 1 .. N : pieces[k] = Canonical(numbers[k])
    BY <1>1
  <1>3. \A k \in 1 .. N : pieces[k] \in Bytes
    <2> HIDE DEF pieces
    <2> QED BY <1>1, <1>2, CanonicalTyped DEF Bytes
  <1>4. Len(pieces) = N
    <2>1. DOMAIN pieces = 1 .. N
      BY <1>1
    <2>2. pieces = [k \in 1 .. N |-> pieces[k]]
      BY <2>1
    <2> HIDE DEF pieces
    <2>3. Len([k \in 1 .. N |-> pieces[k]]) = N
      BY <1>1
    <2> QED BY <2>2, <2>3
  <1>5. bytes \in Bytes /\ L \in Nat
    BY CanonicalAllTyped DEF Bytes
  <1>6. bytes = Joined(pieces)
    BY DEF CanonicalAll
  <1> HIDE DEF pieces, bytes
  <1>7. AreJoined(pieces, 1, N, bytes)
    BY <1>1, <1>3, <1>4, <1>6, JoinedAreJoined
  <1>8. PICK tails : Tails(tails, pieces, 1, N, bytes)
    BY <1>7 DEF AreJoined
  <1>9. /\ \A k \in 1 .. (N + 1) : tails[k] \in Bytes
        /\ tails[1] = bytes /\ tails[N + 1] = <<>>
        /\ \A k \in 1 .. N : tails[k] = pieces[k] \o tails[k + 1]
    BY <1>8 DEF Tails
  <1>10. PICK f : ReadBy(f, bytes, 1) /\ NumbersIn(bytes) = f[1]
    BY <1>5, NumbersSteps
  <1> DEFINE Holds(k) == \A i \in 1 .. (L + 1) :
                           From(bytes, i) = tails[k] => f[i] = SubSeq(numbers, k, N)
             bad == {n \in 0 .. N : ~ Holds((N + 1) - n)}
  <1>11. \A i \in 1 .. (L + 1) :
            f[i] = IF From(bytes, i) = <<>> THEN <<>>
                   ELSE IF ~HasVarInt(From(bytes, i)) THEN <<Broken>>
                   ELSE <<VarIntIn(From(bytes, i))>> \o f[i + VarIntLength(From(bytes, i))]
    BY <1>10 DEF ReadBy
  <1>12. Holds(N + 1)
    <2> SUFFICES ASSUME NEW i \in 1 .. (L + 1), From(bytes, i) = tails[N + 1]
                 PROVE  f[i] = SubSeq(numbers, N + 1, N)
      OBVIOUS
    <2>1. f[i] = <<>>
      BY <1>9, <1>11
    <2> QED BY <2>1, LastElements
  <1>13. ASSUME NEW k \in 1 .. N, Holds(k + 1)
         PROVE  Holds(k)
    <2> SUFFICES ASSUME NEW i \in 1 .. (L + 1), From(bytes, i) = tails[k]
                 PROVE  f[i] = SubSeq(numbers, k, N)
      OBVIOUS
    <2> DEFINE q == From(bytes, i)
               j == VarIntLength(q)
    <2>1. q = Canonical(numbers[k]) \o tails[k + 1] /\ tails[k + 1] \in Bytes
      <3>1. k + 1 \in 1 .. (N + 1)
        BY <1>1
      <3> QED BY <1>2, <1>9, <3>1
    <2>2. numbers[k] \in Nat /\ Encodable(numbers[k])
      BY <1>1
    <2>3. /\ q # <<>> /\ HasVarInt(q) /\ VarIntIn(q) = numbers[k]
          /\ j \in 0 .. Len(q) /\ From(q, j + 1) = tails[k + 1]
      <3> HIDE DEF q
      <3> QED BY <2>1, <2>2, CanonicalComesBack
    <2>4. i + j \in 1 .. (L + 1) /\ From(bytes, i + j) = tails[k + 1]
      BY <1>5, <2>3, TailOfTail
    <2>5. f[i] = <<numbers[k]>> \o f[i + j]
      BY <1>11, <2>3
    <2>6. f[i + j] = SubSeq(numbers, k + 1, N)
      BY <1>13, <2>4
    <2>7. SubSeq(numbers, k, N) = <<numbers[k]>> \o SubSeq(numbers, k + 1, N)
      BY LastElements
    <2> QED BY <2>5, <2>6, <2>7
  <1> HIDE DEF Holds
  <1>14. bad = {}
    <2>1. SUFFICES ASSUME bad # {} PROVE FALSE
      OBVIOUS
    <2>2. PICK n \in bad : \A m \in bad : ~ (m < n)
      <3>1. bad \in SUBSET Nat
        BY <1>1
      <3> HIDE DEF bad
      <3> QED BY <2>1, <3>1, LeastNumber
    <2>3. n \in 0 .. N /\ ~ Holds((N + 1) - n)
      BY <2>2
    <2>4. n # 0
      <3>1. (N + 1) - 0 = N + 1
        BY <1>1
      <3> QED BY <1>12, <2>3, <3>1
    <2>5. n - 1 \in 0 .. N /\ n - 1 < n
      BY <1>1, <2>3, <2>4
    <2>6. Holds((N + 1) - (n - 1))
      BY <2>2, <2>5
    <2>7. (N + 1) - n \in 1 .. N /\ (N + 1) - (n - 1) = ((N + 1) - n) + 1
      BY <1>1, <2>3, <2>4
    <2> QED BY <1>13, <2>3, <2>6, <2>7
  <1>15. Holds(1)
    <2>1. N \in 0 .. N /\ (N + 1) - N = 1
      BY <1>1
    <2> QED BY <1>14, <2>1
  <1>16. 1 \in 1 .. (L + 1) /\ From(bytes, 1) = tails[1]
    <2>1. From(bytes, 1) = bytes
      BY <1>5, LastElements DEF From, Bytes
    <2> QED BY <1>5, <1>9, <2>1
  <1>17. f[1] = SubSeq(numbers, 1, N)
    BY <1>15, <1>16 DEF Holds
  <1>18. SubSeq(numbers, 1, N) = numbers
    BY LastElements
  <1> QED BY <1>10, <1>17, <1>18 DEF bytes

\* No number and one number, written.
LEMMA FewNumbers ==
  ASSUME NEW numbers \in Seq(Nat)
  PROVE  /\ numbers = <<>> => CanonicalAll(numbers) = <<>>
         /\ Len(numbers) = 1 => CanonicalAll(numbers) = Canonical(numbers[1])
  <1> DEFINE pieces == [k \in DOMAIN numbers |-> Canonical(numbers[k])]
             N == Len(numbers)
  <1>1. N \in Nat /\ DOMAIN numbers = 1 .. N
    OBVIOUS
  <1>2. Len(pieces) = N
    <2>1. DOMAIN pieces = 1 .. N
      BY <1>1
    <2>2. pieces = [k \in 1 .. N |-> pieces[k]]
      BY <2>1
    <2> HIDE DEF pieces
    <2>3. Len([k \in 1 .. N |-> pieces[k]]) = N
      BY <1>1
    <2> QED BY <2>2, <2>3
  <1>3. N = 1 => pieces[1] = Canonical(numbers[1]) /\ numbers[1] \in Nat
    BY <1>1, ElementOfSeq
  <1>4. CanonicalAll(numbers) = Joined(pieces)
    BY DEF CanonicalAll
  <1> HIDE DEF pieces
  <1>5. PICK f : JoinedBy(f, pieces, N) /\ Joined(pieces) = f[N]
    BY <1>1, <1>2, JoinedSteps
  <1>6. numbers = <<>> => N = 0
    OBVIOUS
  <1>7. f[0] = <<>>
    BY <1>5 DEF JoinedBy
  <1>8. N = 1 => f[1] = Canonical(numbers[1])
    <2> SUFFICES ASSUME N = 1 PROVE f[1] = Canonical(numbers[1])
      OBVIOUS
    <2>1. f[1] = f[0] \o pieces[1]
      <3>1. 1 \in 1 .. N /\ 1 - 1 = 0
        OBVIOUS
      <3>2. f[1] = f[1 - 1] \o pieces[1]
        BY <1>5, <3>1 DEF JoinedBy
      <3> QED BY <3>1, <3>2
    <2>2. Canonical(numbers[1]) \in Bytes
      BY <1>3, CanonicalTyped DEF Bytes
    <2>3. <<>> \o Canonical(numbers[1]) = Canonical(numbers[1])
      BY <2>2, NoBytes
    <2> QED BY <1>3, <1>7, <2>1, <2>3
  <1> QED BY <1>4, <1>5, <1>6, <1>7, <1>8

\* What is given to a builder is in the frame.
LEMMA GivenComesBack ==
  ASSUME NEW given \in Frames, BuildAllowed(given, Capacity)
  PROVE  FrameComesBack([type |-> given.type, payload |-> Payload(given)], given)
  <1> DEFINE payload == Payload(given)
             frame == [type |-> given.type, payload |-> payload]
             numbers == given.numbers
             data == given.data
  <1>1. /\ numbers \in Seq(Nat) /\ data \in Bytes
        /\ \A k \in DOMAIN numbers : Encodable(numbers[k])
        /\ \/ numbers = <<>>
           \/ given.type = SETTINGS /\ Len(numbers) % 2 = 0 /\ data = <<>>
           \/ given.type = PUSH_PROMISE /\ Len(numbers) = 1
           \/ /\ given.type \in {CANCEL_PUSH, GOAWAY, MAX_PUSH_ID}
              /\ Len(numbers) = 1 /\ data = <<>>
    <2>1. IsGivenFrame(given)
      BY InputsAssumption
    <2>2. data \in Seq(Nat)
      BY <2>1, Bases DEF IsGivenFrame, Byte
    <2> QED BY <2>1, <2>2 DEF IsGivenFrame, BuildAllowed, Bytes
  <1>2. payload = CanonicalAll(numbers) \o data
    BY DEF Payload
  <1>3. CanonicalAll(numbers) \in Bytes
    BY <1>1, CanonicalAllTyped DEF Bytes
  <1>4. frame.type = given.type /\ frame.payload = payload
    OBVIOUS
  <1> HIDE DEF payload, frame, numbers, data
  <1>5. numbers = <<>> => payload = data
    BY <1>1, <1>2, FewNumbers, NoBytes
  <1>6. data = <<>> => NumbersIn(payload) = numbers
    <2> SUFFICES ASSUME data = <<>> PROVE NumbersIn(payload) = numbers
      OBVIOUS
    <2>1. payload = CanonicalAll(numbers)
      BY <1>2, <1>3, NoBytes
    <2> QED BY <1>1, <2>1, NumbersComeBack
  <1>7. ASSUME Len(numbers) = 1
        PROVE  /\ payload \in Bytes
               /\ HasVarInt(payload)
               /\ VarIntIn(payload) = numbers[1]
               /\ VarIntLength(payload) \in 0 .. Len(payload)
               /\ AfterVarInt(payload) = data
    <2>1. payload = Canonical(numbers[1]) \o data
      BY <1>1, <1>2, <1>7, FewNumbers
    <2>2. numbers[1] \in Nat /\ Encodable(numbers[1])
      BY <1>1, <1>7, ElementOfSeq
    <2> QED BY <1>1, <2>1, <2>2, CanonicalComesBack DEF AfterVarInt
  <1>8. Len(numbers) = 1 /\ data = <<>> => IsOneVarInt(payload)
    <2> SUFFICES ASSUME Len(numbers) = 1, data = <<>> PROVE IsOneVarInt(payload)
      OBVIOUS
    <2>1. Len(AfterVarInt(payload)) = 0
      BY <1>7
    <2>2. Len(AfterVarInt(payload)) = Len(payload) - VarIntLength(payload)
      BY <1>7, BehindVarInt DEF Bytes
    <2>3. VarIntLength(payload) \in Nat /\ Len(payload) \in Nat
      BY <1>7 DEF Bytes
    <2> QED BY <1>7, <2>1, <2>2, <2>3 DEF IsOneVarInt
  <1>9. numbers # <<>> => IsWellFormed(frame)
    <2> SUFFICES ASSUME numbers # <<>> PROVE IsWellFormed(frame)
      OBVIOUS
    <2>1. CASE given.type = SETTINGS /\ Len(numbers) % 2 = 0 /\ data = <<>>
      <3>1. \A k \in DOMAIN numbers : numbers[k] # Broken
        <4>1. \A k \in DOMAIN numbers : numbers[k] \in Nat
          BY <1>1, ElementOfSeq
        <4> QED BY <4>1 DEF Broken
      <3>2. NumbersIn(frame.payload) = numbers
        BY <1>4, <1>6, <2>1
      <3> QED BY <1>4, <2>1, <3>1, <3>2
            DEF IsWellFormed, SETTINGS, CANCEL_PUSH, GOAWAY, MAX_PUSH_ID, PUSH_PROMISE
    <2>2. CASE given.type = PUSH_PROMISE /\ Len(numbers) = 1
      BY <1>4, <1>7, <2>2
         DEF IsWellFormed, SETTINGS, CANCEL_PUSH, GOAWAY, MAX_PUSH_ID, PUSH_PROMISE
    <2>3. CASE /\ given.type \in {CANCEL_PUSH, GOAWAY, MAX_PUSH_ID}
               /\ Len(numbers) = 1 /\ data = <<>>
      BY <1>4, <1>8, <2>3
         DEF IsWellFormed, SETTINGS, CANCEL_PUSH, GOAWAY, MAX_PUSH_ID, PUSH_PROMISE
    <2> QED BY <1>1, <2>1, <2>2, <2>3
  <1>10. Len(numbers) = 1 => IdentifierOf(frame) = numbers[1]
    BY <1>4, <1>7 DEF IdentifierOf
  <1>11. given.type \in {DATA, HEADERS} => DataOf(frame) = data
    <2> SUFFICES ASSUME given.type \in {DATA, HEADERS} PROVE DataOf(frame) = data
      OBVIOUS
    <2>1. numbers = <<>>
      BY <1>1 DEF DATA, HEADERS, SETTINGS, CANCEL_PUSH, GOAWAY, MAX_PUSH_ID, PUSH_PROMISE
    <2> QED BY <1>4, <1>5, <2>1 DEF DataOf, DATA, HEADERS, PUSH_PROMISE
  <1>12. given.type = PUSH_PROMISE /\ numbers # <<>> => DataOf(frame) = data
    <2> SUFFICES ASSUME given.type = PUSH_PROMISE, numbers # <<>> PROVE DataOf(frame) = data
      OBVIOUS
    <2>1. Len(numbers) = 1
      BY <1>1 DEF SETTINGS, CANCEL_PUSH, GOAWAY, MAX_PUSH_ID, PUSH_PROMISE
    <2> QED BY <1>4, <1>7, <2>1 DEF DataOf
  <1>13. FrameComesBack(frame, given)
    BY <1>4, <1>5, <1>6, <1>9, <1>10, <1>11, <1>12 DEF FrameComesBack, numbers, data
  <1> QED BY <1>13 DEF frame, payload

-----------------------------------------------------------------------------
(* What a history selects *)

\* What is selected are elements of the sequence.
LEMMA SelectedTyped ==
  ASSUME NEW S, NEW q \in Seq(S), NEW indices
  PROVE  Selected(q, indices) \in Seq(S)
  <1> DEFINE pieces == [k \in DOMAIN q |-> IF k \in indices THEN <<q[k]>> ELSE <<>>]
             N == Len(q)
  <1>1. N \in Nat /\ DOMAIN q = 1 .. N /\ \A k \in 1 .. N : q[k] \in S
    BY ElementOfSeq
  <1>2. Len(pieces) = N
    <2>1. DOMAIN pieces = 1 .. N
      BY <1>1
    <2>2. pieces = [k \in 1 .. N |-> pieces[k]]
      BY <2>1
    <2> HIDE DEF pieces
    <2>3. Len([k \in 1 .. N |-> pieces[k]]) = N
      BY <1>1
    <2> QED BY <2>2, <2>3
  <1>3. \A k \in 1 .. N : pieces[k] \in Seq(S)
    BY <1>1
  <1> HIDE DEF pieces, N
  <1>4. Joined(pieces) \in Seq(S)
    BY <1>1, <1>2, <1>3, JoinedTyped
  <1> QED BY <1>4 DEF Selected, pieces

\* Behind the elements of one sequence the other has one more.
Grows(q, more, e) ==
  /\ Len(q) \in Nat
  /\ Len(more) = Len(q) + 1
  /\ more[Len(q) + 1] = e
  /\ \A k \in 1 .. Len(q) : more[k] = q[k]

\* A sequence, of whatever it is made.
IsSequence(q) == \E S : q \in Seq(S)

SelectsMore(q, e, indices, wider) ==
  IF (Len(q) + 1) \in wider
  THEN Grows(Selected(q, indices), Selected(Append(q, e), wider), e)
  ELSE Selected(Append(q, e), wider) = Selected(q, indices)

\* An element more is selected behind the others, or passed over.
LEMMA SelectedGrows ==
  ASSUME NEW q, IsSequence(q), NEW e, NEW indices, NEW wider,
         \A k \in 1 .. Len(q) : k \in wider <=> k \in indices
  PROVE  SelectsMore(q, e, indices, wider)
  <1>0. PICK S : q \in Seq(S)
    BY DEF IsSequence
  <1> DEFINE N == Len(q)
             T == S \cup {e}
             r == Append(q, e)
             pieces == [k \in DOMAIN q |-> IF k \in indices THEN <<q[k]>> ELSE <<>>]
             more == [k \in DOMAIN r |-> IF k \in wider THEN <<r[k]>> ELSE <<>>]
             last == IF N + 1 \in wider THEN <<e>> ELSE <<>>
             a == Selected(q, indices)
             b == Selected(r, wider)
  <1>1. /\ N \in Nat /\ DOMAIN q = 1 .. N /\ DOMAIN r = 1 .. (N + 1)
        /\ \A k \in 1 .. N : r[k] = q[k]
        /\ r[N + 1] = e
    BY <1>0, Appended
  <1>2. Len(pieces) = N
    <2>1. DOMAIN pieces = 1 .. N
      BY <1>1
    <2>2. pieces = [k \in 1 .. N |-> pieces[k]]
      BY <2>1
    <2> HIDE DEF pieces
    <2>3. Len([k \in 1 .. N |-> pieces[k]]) = N
      BY <1>1
    <2> QED BY <2>2, <2>3
  <1>3. Len(more) = N + 1
    <2>1. DOMAIN more = 1 .. (N + 1)
      BY <1>1
    <2>2. more = [k \in 1 .. (N + 1) |-> more[k]]
      BY <2>1
    <2> HIDE DEF more
    <2>3. Len([k \in 1 .. (N + 1) |-> more[k]]) = N + 1
      BY <1>1
    <2> QED BY <2>2, <2>3
  <1>4. ASSUME NEW k \in 1 .. N PROVE more[k] = pieces[k]
    <2>1. k \in DOMAIN q /\ k \in DOMAIN r /\ r[k] = q[k] /\ (k \in wider <=> k \in indices)
      BY <1>1
    <2> HIDE DEF r
    <2> QED BY <2>1
  <1>5. more[N + 1] = last
    <2>1. N + 1 \in DOMAIN r /\ r[N + 1] = e
      BY <1>1
    <2> HIDE DEF r
    <2> QED BY <2>1
  <1>6. a = Joined(pieces) /\ b = Joined(more)
    BY DEF Selected
  <1>7. a \in Seq(T)
    <2>1. a \in Seq(S)
      BY <1>0, SelectedTyped
    <2> HIDE DEF a
    <2> QED BY <2>1
  <1> HIDE DEF pieces, more, a, b
  <1> HIDE DEF r, last
  <1>8. b = a \o last
    <2>1. /\ Len(pieces) \in Nat /\ Len(more) = Len(pieces) + 1
          /\ more[Len(pieces) + 1] = last
      BY <1>1, <1>2, <1>3, <1>5
    <2>2. \A k \in 1 .. Len(pieces) : more[k] = pieces[k]
      BY <1>2, <1>4
    <2>3. Joined(more) = Joined(pieces) \o more[Len(pieces) + 1]
      BY <2>1, <2>2, JoinedGrows
    <2> QED BY <1>6, <2>1, <2>3
  <1>9. CASE N + 1 \in wider
    <2>0. last = <<e>>
      BY <1>9 DEF last
    <2>1. <<e>> \in Seq(T) /\ Len(<<e>>) = 1 /\ <<e>>[1] = e
      OBVIOUS
    <2> DEFINE h == <<e>>
    <2>2. b = a \o h /\ h \in Seq(T) /\ Len(h) = 1 /\ h[1] = e
      BY <1>8, <2>0, <2>1
    <2> HIDE DEF h, T
    <2>3. /\ Len(a \o h) = Len(a) + Len(h)
          /\ \A k \in 1 .. (Len(a) + Len(h)) :
                (a \o h)[k] = IF k <= Len(a) THEN a[k] ELSE h[k - Len(a)]
      BY <1>7, <2>2, ConcatProperties
    <2>4. Len(a) \in Nat
      BY <1>7
    <2>5. b[Len(a) + 1] = e
      BY <2>2, <2>3, <2>4
    <2>6. Grows(a, b, e)
      BY <2>2, <2>3, <2>4, <2>5 DEF Grows
    <2> QED BY <1>9, <2>6 DEF a, b, r, SelectsMore
  <1>10. CASE N + 1 \notin wider
    <2>1. b = a \o <<>>
      BY <1>8, <1>10 DEF last
    <2> HIDE DEF T
    <2>2. b = a
      BY <1>7, <2>1, ConcatEmptySeq
    <2> QED BY <1>10, <2>2 DEF a, b, r, SelectsMore
  <1> QED BY <1>9, <1>10

\* What is written grows by one on its stream, and is the same on the others.
LEMMA SentGrows ==
  ASSUME NEW S, sent \in Seq(S), NEW s, NEW item,
         sent' = Append(sent, [stream |-> s, item |-> item]), NEW t
  PROVE  /\ t = s => Grows(SentOn(t), SentOn(t)', [stream |-> s, item |-> item])
         /\ t # s => SentOn(t)' = SentOn(t)
  <1> DEFINE e == [stream |-> s, item |-> item]
             indices == {k \in DOMAIN sent : sent[k].stream = t}
             more == Append(sent, e)
             wider == {k \in DOMAIN more : more[k].stream = t}
             N == Len(sent)
  <1>1. /\ N \in Nat /\ DOMAIN sent = 1 .. N /\ DOMAIN more = 1 .. (N + 1)
        /\ \A k \in 1 .. N : more[k] = sent[k]
        /\ more[N + 1] = e
    BY Appended
  <1>2. \A k \in 1 .. N : k \in wider <=> k \in indices
    <2> HIDE DEF more
    <2> QED BY <1>1
  <1>3. (N + 1) \in wider <=> t = s
    <2>1. e.stream = s
      OBVIOUS
    <2> HIDE DEF more, e
    <2> QED BY <1>1, <2>1
  <1>4. SentOn(t) = Selected(sent, indices) /\ SentOn(t)' = Selected(more, wider)
    BY DEF SentOn
  <1> HIDE DEF indices, wider, e
  <1>5. SelectsMore(sent, e, indices, wider)
    <2>1. IsSequence(sent)
      BY DEF IsSequence
    <2> QED BY <1>2, <2>1, SelectedGrows
  <1> QED BY <1>3, <1>4, <1>5 DEF e, SelectsMore

\* So is what has been read.
LEMMA ReadGrows ==
  ASSUME NEW S, events \in Seq(S), NEW kind, NEW s, NEW item, NEW answer,
         Logged(kind, s, item, answer), NEW t
  PROVE  /\ t = s /\ kind \in {"header", "frame"} =>
              Grows(ReadOn(t), ReadOn(t)',
                    [kind |-> kind, stream |-> s, item |-> item, answer |-> answer])
         /\ ~ (t = s /\ kind \in {"header", "frame"}) => ReadOn(t)' = ReadOn(t)
  <1> DEFINE e == [kind |-> kind, stream |-> s, item |-> item, answer |-> answer]
             kinds == {"header", "frame"}
             indices == {k \in DOMAIN events : events[k].stream = t /\ events[k].kind \in kinds}
             more == Append(events, e)
             wider == {k \in DOMAIN more : more[k].stream = t /\ more[k].kind \in kinds}
             N == Len(events)
  <1>1. /\ N \in Nat /\ DOMAIN events = 1 .. N /\ DOMAIN more = 1 .. (N + 1)
        /\ \A k \in 1 .. N : more[k] = events[k]
        /\ more[N + 1] = e
    BY Appended
  <1>2. \A k \in 1 .. N : k \in wider <=> k \in indices
    <2> HIDE DEF more, kinds
    <2> QED BY <1>1
  <1>3. (N + 1) \in wider <=> t = s /\ kind \in kinds
    <2>1. e.stream = s /\ e.kind = kind
      OBVIOUS
    <2> HIDE DEF more, e, kinds
    <2> QED BY <1>1, <2>1
  <1>4. ReadOn(t) = Selected(events, indices) /\ ReadOn(t)' = Selected(more, wider)
    BY DEF ReadOn, EventsOn, Logged
  <1> HIDE DEF indices, wider, e, kinds
  <1>5. SelectsMore(events, e, indices, wider)
    <2>1. IsSequence(events)
      BY DEF IsSequence
    <2> QED BY <1>2, <2>1, SelectedGrows
  <1> QED BY <1>3, <1>4, <1>5 DEF e, kinds, SelectsMore

-----------------------------------------------------------------------------
(* Delivery *)

\* The k-th that was written on a stream, and its bytes: first the header, then frames.
IsWritten(written, k) ==
  IF k = 1 THEN written[1].item \in Headers
  ELSE written[k].item \in Frames /\ BuildAllowed(written[k].item, Capacity)

PieceOf(written, k) ==
  IF k = 1 THEN HeaderBytes(written[1].item) ELSE FrameBytes(written[k].item)

\* It was read as it was written.
IsRead(read, written, k) ==
  IF k = 1 THEN read[1].kind = "header" /\ HeaderComesBack(read[1].item, written[1].item)
  ELSE read[k].kind = "frame" /\ FrameComesBack(read[k].item, written[k].item)

\* The bytes are what was written behind the first so many.
IsLeft(written, bytes, count) ==
  \E pieces : /\ \A k \in 1 .. Len(written) : pieces[k] = PieceOf(written, k)
              /\ AreJoined(pieces, count + 1, Len(written), bytes)

\* What has been read is how what was written begins, and the bytes are the rest of it.
Delivered(read, written, bytes) ==
  /\ Len(read) \in Nat /\ Len(written) \in Nat /\ Len(read) <= Len(written)
  /\ \A k \in 1 .. Len(written) : IsWritten(written, k)
  /\ \A k \in 1 .. Len(read) : IsRead(read, written, k)
  /\ IsLeft(written, bytes, Len(read))

\* What is written are bytes.
LEMMA PieceTyped ==
  ASSUME NEW written, NEW k, IsWritten(written, k)
  PROVE  PieceOf(written, k) \in Bytes
  BY HeaderBytesTyped, FrameBytesTyped DEF IsWritten, PieceOf, Bytes

\* Nothing was written, and nothing read.
LEMMA NothingDelivered == Delivered(<<>>, <<>>, <<>>)
  <1>1. Len(<<>>) = 0 /\ 1 .. Len(<<>>) = {}
    OBVIOUS
  <1>2. AreJoined(<<>>, 0 + 1, 0, <<>>)
    BY NoneAreJoined
  <1>3. IsLeft(<<>>, <<>>, 0)
    BY <1>1, <1>2 DEF IsLeft
  <1> QED BY <1>1, <1>3 DEF Delivered

\* Another piece is written behind those that are left.
LEMMA WriteDelivers ==
  ASSUME NEW read, NEW written, NEW bytes, Delivered(read, written, bytes),
         NEW more, NEW e, Grows(written, more, e), IsWritten(more, Len(written) + 1)
  PROVE  Delivered(read, more, bytes \o PieceOf(more, Len(written) + 1))
  <1> DEFINE R == Len(read)
             W == Len(written)
             piece == PieceOf(more, W + 1)
  <1>1. /\ R \in Nat /\ W \in Nat /\ R <= W /\ Len(more) = W + 1
        /\ \A k \in 1 .. W : more[k] = written[k]
    BY DEF Delivered, Grows
  <1>2. PICK pieces : /\ \A k \in 1 .. W : pieces[k] = PieceOf(written, k)
                      /\ AreJoined(pieces, R + 1, W, bytes)
    BY DEF Delivered, IsLeft
  <1>3. ASSUME NEW k \in 1 .. W
        PROVE  /\ IsWritten(more, k) /\ PieceOf(more, k) = PieceOf(written, k)
               /\ PieceOf(written, k) \in Bytes
               /\ k \in 1 .. R => IsRead(read, more, k)
    <2>1. more[k] = written[k] /\ (k = 1 => more[1] = written[1])
      BY <1>1
    <2>2. IsWritten(written, k) /\ (k \in 1 .. R => IsRead(read, written, k))
      BY DEF Delivered
    <2>3. IsWritten(more, k) /\ PieceOf(more, k) = PieceOf(written, k)
      BY <2>1, <2>2 DEF IsWritten, PieceOf
    <2>4. k \in 1 .. R => IsRead(read, more, k)
      BY <2>1, <2>2 DEF IsRead
    <2> QED BY <2>2, <2>3, <2>4, PieceTyped
  <1> DEFINE longer == [k \in 1 .. (W + 1) |-> PieceOf(more, k)]
  <1>4. \A k \in 1 .. (W + 1) : longer[k] = PieceOf(more, k)
    OBVIOUS
  <1>5. \A k \in (R + 1) .. W : pieces[k] \in Bytes /\ longer[k] = pieces[k]
    <2> SUFFICES ASSUME NEW k \in (R + 1) .. W
                 PROVE  pieces[k] \in Bytes /\ longer[k] = pieces[k]
      OBVIOUS
    <2>1. k \in 1 .. W /\ k \in 1 .. (W + 1)
      BY <1>1
    <2> HIDE DEF longer
    <2> QED BY <1>2, <1>3, <1>4, <2>1
  <1>6. longer[W + 1] = piece /\ piece \in Bytes
    <2>1. W + 1 \in 1 .. (W + 1)
      BY <1>1
    <2>2. piece \in Bytes
      BY PieceTyped
    <2> QED BY <1>4, <2>1, <2>2
  <1> HIDE DEF longer, piece
  <1>7. AreJoined(longer, R + 1, W + 1, bytes \o piece)
    <2> DEFINE first == R + 1
    <2>1. /\ first \in Nat /\ W \in Nat /\ first <= W + 1
          /\ AreJoined(pieces, first, W, bytes)
      BY <1>1, <1>2
    <2>2. \A k \in first .. W : pieces[k] \in Bytes /\ longer[k] = pieces[k]
      BY <1>5
    <2> HIDE DEF first, W
    <2>3. AreJoined(longer, first, W + 1, bytes \o piece)
      BY <1>6, <2>1, <2>2, OneMoreJoined
    <2> QED BY <2>3 DEF first
  <1>8. IsLeft(more, bytes \o piece, R)
    BY <1>1, <1>4, <1>7 DEF IsLeft
  <1>9. \A k \in 1 .. (W + 1) : IsWritten(more, k)
    <2> SUFFICES ASSUME NEW k \in 1 .. (W + 1) PROVE IsWritten(more, k)
      OBVIOUS
    <2>1. k \in 1 .. W \/ k = W + 1
      BY <1>1
    <2> QED BY <1>3, <2>1
  <1>10. \A k \in 1 .. R : IsRead(read, more, k)
    <2> SUFFICES ASSUME NEW k \in 1 .. R PROVE IsRead(read, more, k)
      OBVIOUS
    <2>1. k \in 1 .. W
      BY <1>1
    <2> QED BY <1>3, <2>1
  <1>11. Len(more) \in Nat /\ R <= Len(more)
    BY <1>1
  <1> QED BY <1>1, <1>8, <1>9, <1>10, <1>11 DEF Delivered, piece

\* The bytes begin with the next piece that was written, if there is one.
LEMMA NextPiece ==
  ASSUME NEW read, NEW written, NEW bytes, Delivered(read, written, bytes)
  PROVE  /\ Len(read) = Len(written) => bytes = <<>>
         /\ Len(read) # Len(written) =>
              /\ IsWritten(written, Len(read) + 1)
              /\ \E rest \in Bytes : /\ bytes = PieceOf(written, Len(read) + 1) \o rest
                                     /\ IsLeft(written, rest, Len(read) + 1)
  <1> DEFINE R == Len(read)
             W == Len(written)
  <1>1. R \in Nat /\ W \in Nat /\ R <= W
    BY DEF Delivered
  <1>2. PICK pieces : /\ \A k \in 1 .. W : pieces[k] = PieceOf(written, k)
                      /\ AreJoined(pieces, R + 1, W, bytes)
    BY DEF Delivered, IsLeft
  <1>3. CASE R = W
    <2>1. PICK tails : Tails(tails, pieces, R + 1, W, bytes)
      BY <1>2 DEF AreJoined
    <2>2. bytes = <<>>
      BY <1>3, <2>1 DEF Tails
    <2> QED BY <1>3, <2>2
  <1>4. CASE R # W
    <2> DEFINE first == R + 1
    <2>1. first \in Nat /\ first <= W /\ first \in 1 .. W
      BY <1>1, <1>4
    <2>2. IsWritten(written, first)
      BY <2>1 DEF Delivered
    <2>3. AreJoined(pieces, first, W, bytes)
      BY <1>2
    <2>4. pieces[first] = PieceOf(written, first)
      BY <1>2, <2>1
    <2> HIDE DEF first, W
    <2>5. PICK rest \in Bytes : /\ bytes = pieces[first] \o rest
                                /\ AreJoined(pieces, first + 1, W, rest)
      BY <1>1, <2>1, <2>3, FirstOfJoined
    <2>6. IsLeft(written, rest, first)
      BY <1>2, <2>5 DEF IsLeft, W
    <2> QED BY <1>4, <2>2, <2>4, <2>5, <2>6 DEF first, W
  <1> QED BY <1>3, <1>4

\* The next piece is read.
LEMMA ReadDelivers ==
  ASSUME NEW read, NEW written, NEW bytes, Delivered(read, written, bytes),
         Len(read) # Len(written),
         NEW longer, NEW e, Grows(read, longer, e), IsRead(longer, written, Len(read) + 1),
         NEW rest, IsLeft(written, rest, Len(read) + 1)
  PROVE  Delivered(longer, written, rest)
  <1> DEFINE R == Len(read)
             W == Len(written)
  <1>1. /\ R \in Nat /\ W \in Nat /\ R <= W /\ Len(longer) = R + 1
        /\ \A k \in 1 .. R : longer[k] = read[k]
        /\ \A k \in 1 .. R : IsRead(read, written, k)
        /\ \A k \in 1 .. W : IsWritten(written, k)
    BY DEF Delivered, Grows
  <1>2. ASSUME NEW k \in 1 .. (R + 1) PROVE IsRead(longer, written, k)
    <2>1. CASE k \in 1 .. R
      <3>1. longer[k] = read[k] /\ (k = 1 => longer[1] = read[1])
        BY <1>1, <2>1
      <3>2. IsRead(read, written, k)
        BY <1>1, <2>1
      <3> QED BY <3>1, <3>2 DEF IsRead
    <2>2. CASE k = R + 1
      BY <2>2
    <2>3. k \in 1 .. R \/ k = R + 1
      BY <1>1
    <2> QED BY <2>1, <2>2, <2>3
  <1>3. Len(longer) \in Nat /\ Len(longer) <= W
    BY <1>1
  <1> QED BY <1>1, <1>2, <1>3 DEF Delivered

\* Of every stream, what has been read and what is left are together what was written;
\* only a stream whose header has been read is the control stream.
DeliveryInv ==
  /\ IsSequence(sent) /\ IsSequence(events)
  /\ \A s \in Streams :
        /\ Delivered(ReadOn(s), SentOn(s), wire[s])
        /\ critical[CONTROL] = Some(s) => Len(ReadOn(s)) > 0

\* What is written on a stream and read from it are sequences of their own.
LEMMA OnStream ==
  ASSUME DeliveryInv, NEW s
  PROVE  IsSequence(SentOn(s)) /\ IsSequence(ReadOn(s))
  BY SelectedTyped DEF DeliveryInv, IsSequence, SentOn, ReadOn, EventsOn

\* A sequence that gets one longer is one.
LEMMA StaysSequence ==
  ASSUME NEW q, IsSequence(q), NEW e
  PROVE  IsSequence(Append(q, e))
  BY Appended DEF IsSequence

\* At first nothing is written and nothing is read.
LEMMA DeliveryInit ==
  ASSUME Init
  PROVE  DeliveryInv
  <1>1. sent = <<>> /\ events = <<>> /\ <<>> \in Seq({})
    BY DEF Init
  <1>2. IsSequence(sent) /\ IsSequence(events)
    BY <1>1 DEF IsSequence
  <1>3. ASSUME NEW s \in Streams
        PROVE  /\ Delivered(ReadOn(s), SentOn(s), wire[s])
               /\ critical[CONTROL] = Some(s) => Len(ReadOn(s)) > 0
    <2>1. \A indices : Selected(<<>>, indices) = <<>>
      <3> SUFFICES ASSUME NEW indices PROVE Selected(<<>>, indices) = <<>>
        OBVIOUS
      <3>1. Selected(<<>>, indices) \in Seq({})
        BY <1>1, SelectedTyped
      <3> QED BY <3>1
    <2>2. SentOn(s) = <<>> /\ ReadOn(s) = <<>>
      BY <1>1, <2>1 DEF SentOn, ReadOn, EventsOn
    <2>3. wire[s] = <<>>
      BY DEF Init
    <2>4. critical[CONTROL] # Some(s)
      BY DEF Init, None, Some, CriticalTypes
    <2> QED BY <2>2, <2>3, <2>4, NothingDelivered
  <1> QED BY <1>2, <1>3 DEF DeliveryInv

\* What is written on a stream is delivered in turn.
LEMMA DeliveryWritten ==
  ASSUME TypeInv, DeliveryInv, NEW s \in Streams, NEW item, NEW bytes, Write(s, item, bytes),
         \/ SentOn(s) = <<>> /\ item \in Headers /\ bytes = HeaderBytes(item)
         \/ /\ SentOn(s) # <<>> /\ item \in Frames /\ BuildAllowed(item, Capacity)
            /\ bytes = FrameBytes(item)
  PROVE  DeliveryInv'
  <1> DEFINE e == [stream |-> s, item |-> item]
  <1>1. /\ sent' = Append(sent, e) /\ wire' = [wire EXCEPT ![s] = @ \o bytes]
        /\ UNCHANGED <<critical, events>>
    BY DEF Write, receiver
  <1>2. IsSequence(sent') /\ IsSequence(events')
    BY <1>1, StaysSequence DEF DeliveryInv
  <1>3. ASSUME NEW t \in Streams
        PROVE  /\ Delivered(ReadOn(t)', SentOn(t)', wire'[t])
               /\ critical'[CONTROL] = Some(t) => Len(ReadOn(t)') > 0
    <2>1. ReadOn(t)' = ReadOn(t)
      BY <1>1 DEF ReadOn, EventsOn
    <2>2. Delivered(ReadOn(t), SentOn(t), wire[t])
      BY DEF DeliveryInv
    <2>3. critical'[CONTROL] = Some(t) => Len(ReadOn(t)') > 0
      BY <1>1, <2>1 DEF DeliveryInv
    <2>4. /\ t = s => Grows(SentOn(t), SentOn(t)', e)
          /\ t # s => SentOn(t)' = SentOn(t)
      <3>1. PICK S : sent \in Seq(S)
        BY DEF DeliveryInv, IsSequence
      <3> QED BY <1>1, <3>1, SentGrows
    <2>5. CASE t = s
      <3> DEFINE written == SentOn(s)
                 more == SentOn(s)'
                 W == Len(written)
      <3>1. Grows(written, more, e)
        BY <2>4, <2>5
      <3>2. W \in Nat /\ more[W + 1] = e /\ (written = <<>> <=> W = 0)
        BY <3>1, OnStream DEF Grows, IsSequence
      <3>3. e.item = item
        OBVIOUS
      <3>4. W + 1 = 1 <=> W = 0
        BY <3>2
      <3> HIDE DEF e, written, more, W
      <3>5. IsWritten(more, W + 1) /\ PieceOf(more, W + 1) = bytes
        <4>1. CASE W = 0
          BY <3>2, <3>3, <3>4, <4>1 DEF IsWritten, PieceOf, written
        <4>2. CASE W # 0
          BY <3>2, <3>3, <3>4, <4>2 DEF IsWritten, PieceOf, written
        <4> QED BY <4>1, <4>2
      <3>6. Delivered(ReadOn(s), written, wire[s])
        BY <2>2, <2>5 DEF written
      <3>7. Delivered(ReadOn(s), more, wire[s] \o PieceOf(more, Len(written) + 1))
        BY <3>1, <3>5, <3>6, WriteDelivers DEF W
      <3>8. wire'[s] = wire[s] \o bytes
        BY <1>1 DEF TypeInv, WireInv
      <3> QED BY <2>1, <2>3, <2>5, <3>5, <3>7, <3>8 DEF more, W
    <2>6. CASE t # s
      <3>1. wire'[t] = wire[t]
        BY <1>1, <2>6 DEF TypeInv, WireInv
      <3> QED BY <2>1, <2>2, <2>3, <2>4, <2>6, <3>1
    <2> QED BY <2>5, <2>6
  <1> QED BY <1>2, <1>3 DEF DeliveryInv

\* What is read of a stream is what comes next on it.
LEMMA DeliveryRead ==
  ASSUME TypeInv, DeliveryInv, NEW s \in Streams, NEW kind \in {"header", "frame"},
         NEW item, NEW answer, Logged(kind, s, item, answer), sent' = sent,
         NEW rest, wire' = [wire EXCEPT ![s] = rest],
         Len(ReadOn(s)) # Len(SentOn(s)),
         IsLeft(SentOn(s), rest, Len(ReadOn(s)) + 1),
         IF Len(ReadOn(s)) = 0
         THEN kind = "header" /\ HeaderComesBack(item, SentOn(s)[1].item)
         ELSE kind = "frame" /\ FrameComesBack(item, SentOn(s)[Len(ReadOn(s)) + 1].item),
         \A t \in Streams : critical'[CONTROL] = Some(t) => t = s \/ critical[CONTROL] = Some(t)
  PROVE  DeliveryInv'
  <1> DEFINE e == [kind |-> kind, stream |-> s, item |-> item, answer |-> answer]
  <1>1. events' = Append(events, e)
    BY DEF Logged
  <1>2. IsSequence(sent') /\ IsSequence(events')
    BY <1>1, StaysSequence DEF DeliveryInv
  <1>3. ASSUME NEW t \in Streams
        PROVE  /\ Delivered(ReadOn(t)', SentOn(t)', wire'[t])
               /\ critical'[CONTROL] = Some(t) => Len(ReadOn(t)') > 0
    <2>1. SentOn(t)' = SentOn(t)
      BY DEF SentOn
    <2>2. Delivered(ReadOn(t), SentOn(t), wire[t])
      BY DEF DeliveryInv
    <2>3. /\ t = s => Grows(ReadOn(t), ReadOn(t)', e)
          /\ t # s => ReadOn(t)' = ReadOn(t)
      <3>1. PICK S : events \in Seq(S)
        BY DEF DeliveryInv, IsSequence
      <3> QED BY <3>1, ReadGrows
    <2>4. CASE t = s
      <3> DEFINE read == ReadOn(s)
                 longer == ReadOn(s)'
                 written == SentOn(s)
                 R == Len(read)
      <3>1. Grows(read, longer, e)
        BY <2>3, <2>4
      <3>2. R \in Nat /\ longer[R + 1] = e /\ Len(longer) = R + 1
        BY <3>1 DEF Grows
      <3>3. e.item = item /\ e.kind = kind
        OBVIOUS
      <3>4. R + 1 = 1 <=> R = 0
        BY <3>2
      <3>5. IF R = 0 THEN kind = "header" /\ HeaderComesBack(item, written[1].item)
            ELSE kind = "frame" /\ FrameComesBack(item, written[R + 1].item)
        OBVIOUS
      <3> HIDE DEF e, read, longer, R, written
      <3>6. IsRead(longer, written, R + 1)
        BY <3>2, <3>3, <3>4, <3>5 DEF IsRead
      <3>7. Delivered(read, written, wire[s])
        BY <2>2, <2>4 DEF read, written
      <3>8. Delivered(longer, written, rest)
        <4>1. Len(read) # Len(written) /\ IsLeft(written, rest, Len(read) + 1)
          BY DEF read, written
        <4> QED BY <3>1, <3>6, <3>7, <4>1, ReadDelivers DEF R
      <3>9. wire'[s] = rest
        BY DEF TypeInv, WireInv
      <3>10. Len(longer) > 0
        BY <3>2
      <3> QED BY <2>1, <2>4, <3>8, <3>9, <3>10 DEF longer, written
    <2>5. CASE t # s
      <3>1. wire'[t] = wire[t]
        BY <2>5 DEF TypeInv, WireInv
      <3>2. critical'[CONTROL] = Some(t) => Len(ReadOn(t)') > 0
        BY <2>3, <2>5 DEF DeliveryInv
      <3> QED BY <2>1, <2>2, <2>3, <2>5, <3>1, <3>2
    <2> QED BY <2>4, <2>5
  <1> QED BY <1>2, <1>3 DEF DeliveryInv

\* One step per action: two write, two read, and the others leave the streams alone.
LEMMA DeliveryStep ==
  ASSUME TypeInv, DeliveryInv, [Next]_vars
  PROVE  DeliveryInv'
  <1>1. ASSUME NEW s \in Streams, OpenStream(s)
        PROVE  DeliveryInv'
    <2>1. PICK header \in Headers : Write(s, header, HeaderBytes(header))
      BY <1>1 DEF OpenStream
    <2>2. SentOn(s) = <<>>
      BY <1>1 DEF OpenStream
    <2> QED BY <2>1, <2>2, DeliveryWritten
  <1>2. ASSUME NEW s \in Streams, WriteFrame(s)
        PROVE  DeliveryInv'
    <2>1. PICK given \in Frames : /\ BuildAllowed(given, Capacity)
                                  /\ Write(s, given, FrameBytes(given))
      BY <1>2 DEF WriteFrame
    <2>2. SentOn(s) # <<>>
      BY <1>2 DEF WriteFrame
    <2> QED BY <2>1, <2>2, DeliveryWritten
  <1>3. ASSUME UNCHANGED <<critical, wire, sent, events>>
        PROVE  DeliveryInv'
    <2>1. \A s : SentOn(s)' = SentOn(s) /\ ReadOn(s)' = ReadOn(s)
      BY <1>3 DEF SentOn, ReadOn, EventsOn
    <2> QED BY <1>3, <2>1 DEF DeliveryInv
  <1>4. ASSUME NEW s \in Streams, CloseStream(s) \/ RefuseLength(s)
        PROVE  DeliveryInv'
    BY <1>3, <1>4 DEF CloseStream, RefuseLength, receiver
  <1>5. ASSUME NEW s \in Streams, ReceiveClosed(s)
        PROVE  DeliveryInv'
    <2>1. /\ Logged("closed", s, None, ClosedAnswer(s))
          /\ UNCHANGED <<critical, wire, sent>>
      BY <1>5 DEF ReceiveClosed, receiver
    <2>2. \A t : SentOn(t)' = SentOn(t)
      BY <2>1 DEF SentOn
    <2>3. ASSUME NEW t PROVE ReadOn(t)' = ReadOn(t)
      <3>1. PICK S : events \in Seq(S)
        BY DEF DeliveryInv, IsSequence
      <3>2. ~ (t = s /\ "closed" \in {"header", "frame"})
        OBVIOUS
      <3>3. Logged("closed", s, None, ClosedAnswer(s))
        BY <2>1
      <3> DEFINE kind == "closed"
                 answer == ClosedAnswer(s)
      <3>4. Logged(kind, s, None, answer) /\ ~ (t = s /\ kind \in {"header", "frame"})
        BY <3>2, <3>3
      <3> HIDE DEF kind, answer
      <3> QED BY <3>1, <3>4, ReadGrows
    <2>4. IsSequence(sent') /\ IsSequence(events')
      BY <2>1, StaysSequence DEF DeliveryInv, Logged
    <2> QED BY <2>1, <2>2, <2>3, <2>4 DEF DeliveryInv
  <1>6. ASSUME NEW s \in Streams, ReceiveHeader(s)
        PROVE  DeliveryInv'
    <2> DEFINE q == wire[s]
               written == SentOn(s)
               header == HeaderIn(q)
    <2>1. q \in Seq(Nat)
      BY DEF TypeInv, WireInv
    <2>2. PICK n \in 0 .. Len(q) :
             /\ HasHeader(SubSeq(q, 1, n))
             /\ ReadOn(s) = <<>>
             /\ wire' = [wire EXCEPT ![s] = AfterHeader(@)]
             /\ LET h == HeaderIn(SubSeq(q, 1, n))
                    answer == HeaderAnswer(s, h)
                IN  /\ Logged("header", s, h, answer)
                    /\ critical' = IF answer = Ok /\ h.type \in CriticalTypes
                                   THEN [critical EXCEPT ![h.type] = Some(s)] ELSE critical
             /\ sent' = sent
      BY <1>6 DEF ReceiveHeader
    <2>3. HasHeader(q) /\ HeaderIn(SubSeq(q, 1, n)) = header
      BY <2>1, <2>2, HeaderOfPrefix
    <2>4. /\ Logged("header", s, header, HeaderAnswer(s, header))
          /\ wire' = [wire EXCEPT ![s] = AfterHeader(q)]
      BY <2>2, <2>3
    <2>5. \A t \in Streams : critical'[CONTROL] = Some(t) => t = s \/ critical[CONTROL] = Some(t)
      <3>1. critical \in [CriticalTypes -> {None} \cup {Some(t) : t \in Streams}]
        BY DEF TypeInv, TypeOK
      <3>2. \/ critical' = critical
            \/ \E type \in CriticalTypes : critical' = [critical EXCEPT ![type] = Some(s)]
        BY <2>2
      <3> QED BY <3>1, <3>2, SomeIsSome DEF CriticalTypes
    <2>6. Delivered(ReadOn(s), written, q)
      BY DEF DeliveryInv
    <2>7. Len(ReadOn(s)) = 0
      BY <2>2
    <2>8. q # <<>>
      BY <2>3 DEF HasHeader, HasVarInt
    <2> HIDE DEF q, written, header
    <2>9. Len(ReadOn(s)) # Len(written)
      BY <2>6, <2>8, NextPiece
    <2>10. IsWritten(written, Len(ReadOn(s)) + 1)
      BY <2>6, <2>9, NextPiece
    <2>11. PICK rest \in Bytes : /\ q = PieceOf(written, Len(ReadOn(s)) + 1) \o rest
                                 /\ IsLeft(written, rest, Len(ReadOn(s)) + 1)
      BY <2>6, <2>9, NextPiece
    <2>12. written[1].item \in Headers /\ q = HeaderBytes(written[1].item) \o rest
      BY <2>7, <2>10, <2>11 DEF IsWritten, PieceOf
    <2>13. HeaderComesBack(header, written[1].item) /\ AfterHeader(q) = rest
      BY <2>12, HeaderFound DEF header
    <2>14. wire' = [wire EXCEPT ![s] = rest]
      BY <2>4, <2>13
    <2> QED BY <2>2, <2>4, <2>5, <2>7, <2>9, <2>11, <2>13, <2>14, DeliveryRead DEF written
  <1>7. ASSUME NEW s \in Streams, ReceiveFrame(s)
        PROVE  DeliveryInv'
    <2> DEFINE q == wire[s]
               written == SentOn(s)
               read == ReadOn(s)
               parsed == Parse(q, MaximumPayload)
               frame == FrameIn(SubSeq(q, 1, parsed.length))
    <2>1. q \in Seq(Nat)
      BY DEF TypeInv, WireInv
    <2>2. PICK n \in 0 .. Len(q) :
             LET found == Parse(SubSeq(q, 1, n), MaximumPayload)
                 f == FrameIn(SubSeq(q, 1, found.length))
             IN  /\ found.result = "frame"
                 /\ wire' = [wire EXCEPT ![s] = From(@, found.length + 1)]
                 /\ Logged("frame", s, f, Received(f).answer)
      BY <1>7 DEF ReceiveFrame, Arrived
    <2>3. critical[CONTROL] = Some(s) /\ UNCHANGED <<critical, sent>>
      BY <1>7 DEF ReceiveFrame
    <2>4. /\ parsed.result = "frame"
          /\ parsed.length = Parse(SubSeq(q, 1, n), MaximumPayload).length
      BY <2>1, <2>2, FrameOfPrefix
    <2>5. /\ Logged("frame", s, frame, Received(frame).answer)
          /\ wire' = [wire EXCEPT ![s] = From(q, parsed.length + 1)]
      BY <2>2, <2>4
    <2>6. Delivered(read, written, q) /\ Len(read) > 0 /\ Len(read) \in Nat
      BY <2>3 DEF DeliveryInv, Delivered
    <2>7. q # <<>>
      BY <2>4 DEF Parse, HasVarInt
    <2> HIDE DEF q, written, read, parsed, frame
    <2>8. Len(read) # Len(written)
      BY <2>6, <2>7, NextPiece
    <2> DEFINE next == Len(read) + 1
               given == written[next].item
    <2>9. IsWritten(written, next)
      BY <2>6, <2>8, NextPiece
    <2>10. PICK rest \in Bytes : q = PieceOf(written, next) \o rest /\ IsLeft(written, rest, next)
      BY <2>6, <2>8, NextPiece
    <2>11. next # 1 /\ Len(read) # 0
      BY <2>6
    <2>12. /\ given \in Frames /\ BuildAllowed(given, Capacity)
           /\ q = FrameBytes(given) \o rest
      BY <2>9, <2>10, <2>11 DEF IsWritten, PieceOf
    <2> HIDE DEF next, given
    <2>13. /\ parsed.length = Len(FrameBytes(given))
           /\ FrameIn(FrameBytes(given)) = [type |-> given.type, payload |-> Payload(given)]
      BY <2>4, <2>12, FrameFound DEF parsed
    <2>14. SubSeq(q, 1, parsed.length) = FrameBytes(given) /\ From(q, parsed.length + 1) = rest
      <3>1. FrameBytes(given) \in Seq(Nat) /\ rest \in Seq(Nat)
        BY <2>12, FrameBytesTyped DEF Bytes
      <3> DEFINE front == FrameBytes(given)
      <3>2. front \in Seq(Nat) /\ q = front \o rest /\ parsed.length = Len(front)
        BY <2>12, <2>13, <3>1
      <3> HIDE DEF front
      <3>3. SubSeq(q, 1, Len(front)) = front
        BY <3>1, <3>2, PartsComeBack
      <3>4. From(q, Len(front) + 1) = rest
        BY <3>1, <3>2, PartsComeBack
      <3> QED BY <3>2, <3>3, <3>4 DEF front
    <2>15. FrameComesBack(frame, given)
      BY <2>12, <2>13, <2>14, GivenComesBack DEF frame
    <2>16. wire' = [wire EXCEPT ![s] = rest]
      BY <2>5, <2>14
    <2> QED BY <2>3, <2>5, <2>8, <2>10, <2>11, <2>15, <2>16, DeliveryRead
            DEF written, read, next, given
  <1>8. CASE UNCHANGED vars
    BY <1>3, <1>8 DEF vars, receiver
  <1> QED
    BY <1>1, <1>2, <1>4, <1>5, <1>6, <1>7, <1>8 DEF Next

\* What is found on a stream is what has been written there.
LEMMA DeliveryMeans ==
  ASSUME DeliveryInv
  PROVE  StreamsComeBack
  <1> SUFFICES ASSUME NEW s \in Streams
               PROVE  /\ \A k \in DOMAIN ReadOn(s) :
                            IF k = 1 THEN HeaderComesBack(ReadOn(s)[1].item, SentOn(s)[1].item)
                            ELSE FrameComesBack(ReadOn(s)[k].item, SentOn(s)[k].item)
                      /\ Len(ReadOn(s)) + 1 = 1 /\ SentOn(s) # <<>> => HasHeader(wire[s])
                      /\ Len(ReadOn(s)) + 1 > 1 /\ Len(ReadOn(s)) + 1 <= Len(SentOn(s)) =>
                            Parse(wire[s], MaximumPayload).result
                              = IF Len(Payload(SentOn(s)[Len(ReadOn(s)) + 1].item)) > MaximumPayload
                                THEN "too large" ELSE "frame"
    BY DEF StreamsComeBack
  <1> DEFINE read == ReadOn(s)
             written == SentOn(s)
             q == wire[s]
             R == Len(read)
             W == Len(written)
             next == R + 1
  <1>1. /\ Delivered(read, written, q) /\ R \in Nat /\ W \in Nat /\ R <= W
        /\ DOMAIN read = 1 .. R /\ (written = <<>> <=> W = 0)
    <2>1. Delivered(read, written, q)
      BY DEF DeliveryInv
    <2>2. IsSequence(read) /\ IsSequence(written)
      BY OnStream
    <2> HIDE DEF read, written
    <2> QED BY <2>1, <2>2 DEF Delivered, IsSequence
  <1> HIDE DEF read, written, q, R, W
  <1>2. \A k \in DOMAIN read :
           IF k = 1 THEN HeaderComesBack(read[1].item, written[1].item)
           ELSE FrameComesBack(read[k].item, written[k].item)
    BY <1>1 DEF Delivered, IsRead, R
  <1>3. ASSUME R # W
        PROVE  /\ IsWritten(written, next)
               /\ \E rest \in Bytes : q = PieceOf(written, next) \o rest
    BY <1>1, <1>3, NextPiece DEF R, W
  <1>4. ASSUME next = 1, written # <<>> PROVE HasHeader(q)
    <2>1. R # W
      BY <1>1, <1>4
    <2>2. PICK rest \in Bytes : q = PieceOf(written, next) \o rest
      BY <1>3, <2>1
    <2>3. written[1].item \in Headers /\ q = HeaderBytes(written[1].item) \o rest
      BY <1>3, <1>4, <2>1, <2>2 DEF IsWritten, PieceOf
    <2> QED BY <2>3, HeaderFound
  <1>5. ASSUME next > 1, next <= W
        PROVE  Parse(q, MaximumPayload).result
                 = IF Len(Payload(written[next].item)) > MaximumPayload
                   THEN "too large" ELSE "frame"
    <2>1. R # W /\ next # 1
      BY <1>1, <1>5
    <2>2. PICK rest \in Bytes : q = PieceOf(written, next) \o rest
      BY <1>3, <2>1
    <2> DEFINE given == written[next].item
    <2>3. /\ given \in Frames /\ BuildAllowed(given, Capacity)
          /\ q = FrameBytes(given) \o rest
      BY <1>3, <2>1, <2>2 DEF IsWritten, PieceOf
    <2> HIDE DEF given
    <2>4. Parse(q, MaximumPayload).result
            = IF Len(Payload(given)) > MaximumPayload THEN "too large" ELSE "frame"
      BY <2>3, FrameFound
    <2> QED BY <2>4 DEF given
  <1> QED
    BY <1>2, <1>4, <1>5 DEF read, written, q, R, W

\* Whatever is written on the streams, in whatever widths, and however it is cut on its
\* way, headers and frames are found one behind the other and read as they were written.
THEOREM SpecStreamsComeBack == Spec => []StreamsComeBack
  <1>1. Init => TypeInv /\ DeliveryInv
    BY TypeInit, DeliveryInit
  <1>2. TypeInv /\ DeliveryInv /\ [Next]_vars => TypeInv' /\ DeliveryInv'
    BY TypeStep, DeliveryStep
  <1>3. DeliveryInv => StreamsComeBack
    BY DeliveryMeans
  <1> QED
    BY <1>1, <1>2, <1>3, PTL DEF Spec

-----------------------------------------------------------------------------
(* The settings in force *)

\* Of all frames taken, one that is SETTINGS has brought the values in force.
SettingsInv ==
  \A k \in DOMAIN events :
     events[k].kind = "frame" /\ events[k].answer = Ok /\ events[k].item.type = SETTINGS =>
        settings = Some(EffectiveSettings(NumbersIn(events[k].item.payload)))

\* A frame that is taken brings the values, or leaves them alone.
LEMMA TakenSettings ==
  ASSUME NEW frame, Received(frame).answer = Ok
  PROVE  IF frame.type = SETTINGS
         THEN /\ settings = None
              /\ Received(frame).settings = Some(EffectiveSettings(NumbersIn(frame.payload)))
         ELSE Received(frame).settings = settings
  <1>1. CASE frame.type = SETTINGS
    <2>1. settings = None /\ Received(frame) = SettingsReceived(frame)
      BY <1>1, Refusals DEF Received
    <2> QED BY <1>1, <2>1, Refusals DEF SettingsReceived, After
  <1>2. CASE frame.type # SETTINGS
    <2> DEFINE Keeps(after) == after.settings = settings
    <2>1. \A answer : Keeps(Refused(answer))
      BY Refusals
    <2>2. \A a, b, c : Keeps(After(a, settings, b, c))
      BY DEF After
    <2>3. Keeps(Unchanged)
      BY <2>1 DEF Unchanged
    <2> HIDE DEF Keeps
    <2>4. Keeps(CancelPushReceived(frame))
      BY <2>1, <2>3 DEF CancelPushReceived
    <2>5. Keeps(GoawayReceived(frame))
      BY <2>1, <2>2 DEF GoawayReceived
    <2>6. Keeps(MaxPushIdReceived(frame))
      BY <2>1, <2>2 DEF MaxPushIdReceived
    <2>7. Keeps(Received(frame))
      BY <1>2, <2>1, <2>3, <2>4, <2>5, <2>6 DEF Received
    <2> QED BY <1>2, <2>7 DEF Keeps
  <1> QED BY <1>1, <1>2

\* Only a SETTINGS frame that is taken brings values, and only the first is taken.
LEMMA SettingsStep ==
  ASSUME HistoryInv, SettingsInv, [Next]_vars
  PROVE  SettingsInv'
  <1>1. ASSUME UNCHANGED <<settings, events>>
        PROVE  SettingsInv'
    BY <1>1 DEF SettingsInv
  <1>2. ASSUME NEW s \in Streams,
               OpenStream(s) \/ WriteFrame(s) \/ CloseStream(s) \/ RefuseLength(s)
        PROVE  SettingsInv'
    BY <1>1, <1>2 DEF OpenStream, WriteFrame, Write, CloseStream, RefuseLength, receiver
  <1>3. ASSUME NEW kind, NEW s, NEW item, NEW answer, Logged(kind, s, item, answer),
               \/ kind # "frame" /\ settings' = settings
               \/ answer # Ok /\ settings' = settings
               \/ item.type # SETTINGS /\ settings' = settings
               \/ settings = None /\ settings' = Some(EffectiveSettings(NumbersIn(item.payload)))
        PROVE  SettingsInv'
    <2> DEFINE n == Len(events)
               e == [kind |-> kind, stream |-> s, item |-> item, answer |-> answer]
    <2>1. /\ n \in Nat /\ DOMAIN events = 1 .. n /\ DOMAIN events' = 1 .. (n + 1)
          /\ \A k \in 1 .. n : events'[k] = events[k]
          /\ events'[n + 1] = e
      BY <1>3, Appended DEF HistoryInv, Logged
    <2>2. e.kind = kind /\ e.item = item /\ e.answer = answer
      OBVIOUS
    <2> HIDE DEF e, n
    <2>3. ASSUME NEW k \in 1 .. n, events[k].kind = "frame", events[k].answer = Ok,
                 events[k].item.type = SETTINGS
          PROVE  settings' = Some(EffectiveSettings(NumbersIn(events[k].item.payload)))
      <3>1. settings = Some(EffectiveSettings(NumbersIn(events[k].item.payload)))
        BY <2>1, <2>3 DEF SettingsInv
      <3>2. settings # None
        BY <3>1, SomeIsSome
      <3> QED BY <1>3, <3>1, <3>2
    <2>4. kind = "frame" /\ answer = Ok /\ item.type = SETTINGS =>
            settings' = Some(EffectiveSettings(NumbersIn(item.payload)))
      BY <1>3
    <2>5. ASSUME NEW k \in 1 .. (n + 1), events'[k].kind = "frame", events'[k].answer = Ok,
                 events'[k].item.type = SETTINGS
          PROVE  settings' = Some(EffectiveSettings(NumbersIn(events'[k].item.payload)))
      <3>1. k \in 1 .. n \/ k = n + 1
        BY <2>1
      <3> QED BY <2>1, <2>2, <2>3, <2>4, <2>5, <3>1
    <2> QED BY <2>1, <2>5 DEF SettingsInv
  <1>4. ASSUME NEW s \in Streams, ReceiveHeader(s) \/ ReceiveClosed(s)
        PROVE  SettingsInv'
    <2>1. \E kind, item, answer : /\ Logged(kind, s, item, answer) /\ kind # "frame"
                                  /\ settings' = settings
      BY <1>4 DEF ReceiveHeader, ReceiveClosed, receiver
    <2> QED BY <1>3, <2>1
  <1>5. ASSUME NEW s \in Streams, ReceiveFrame(s)
        PROVE  SettingsInv'
    <2>1. PICK frame : /\ Logged("frame", s, frame, Received(frame).answer)
                       /\ settings' = Received(frame).settings
      BY <1>5 DEF ReceiveFrame
    <2>2. Received(frame).answer # Ok => Received(frame).settings = settings
      BY RefusedKeeps
    <2>3. Received(frame).answer = Ok =>
            \/ frame.type # SETTINGS /\ Received(frame).settings = settings
            \/ /\ settings = None
               /\ Received(frame).settings = Some(EffectiveSettings(NumbersIn(frame.payload)))
      BY TakenSettings
    <2> QED BY <1>3, <2>1, <2>2, <2>3
  <1>6. CASE UNCHANGED vars
    BY <1>1, <1>6 DEF vars, receiver
  <1> QED
    BY <1>2, <1>4, <1>5, <1>6 DEF Next

\* What is read on a stream are events.
LEMMA ReadIsEvent ==
  ASSUME HistoryInv, NEW s, NEW k \in DOMAIN ReadOn(s)
  PROVE  \E j \in DOMAIN events : ReadOn(s)[k] = events[j]
  <1> DEFINE S == {events[j] : j \in DOMAIN events}
  <1>1. events \in Seq(S)
    <2>1. PICK T : events \in Seq(T)
      BY DEF HistoryInv
    <2>2. Len(events) \in Nat /\ DOMAIN events = 1 .. Len(events)
      BY <2>1
    <2>3. \A j \in 1 .. Len(events) : events[j] \in S
      BY <2>2
    <2>4. events = [j \in 1 .. Len(events) |-> events[j]]
      BY <2>1
    <2> HIDE DEF S
    <2>5. [j \in 1 .. Len(events) |-> events[j]] \in Seq(S)
      BY <2>2, <2>3
    <2> QED BY <2>4, <2>5
  <1> HIDE DEF S
  <1>2. ReadOn(s) \in Seq(S)
    BY <1>1, SelectedTyped DEF ReadOn, EventsOn
  <1>3. ReadOn(s)[k] \in S
    BY <1>2
  <1> QED BY <1>3 DEF S

\* A setting's value is the one given for it, or the default.
LEMMA SettingIsSaid ==
  ASSUME NEW numbers, NEW id, NEW default,
         \A k \in SettingIndices(numbers) : k \in Nat
  PROVE  Says(numbers, id, SettingOr(numbers, id, default), default)
  <1>1. CASE \E k \in SettingIndices(numbers) : numbers[k] = id
    <2> DEFINE c == CHOOSE k \in SettingIndices(numbers) : numbers[k] = id
    <2>1. c \in SettingIndices(numbers) /\ numbers[c] = id
      BY <1>1
    <2>2. SettingOr(numbers, id, default) = numbers[1 + c]
      BY <1>1 DEF SettingOr
    <2> HIDE DEF c
    <2>3. 1 + c = c + 1
      BY <2>1
    <2> QED BY <2>1, <2>2, <2>3 DEF Says
  <1>2. CASE ~ \E k \in SettingIndices(numbers) : numbers[k] = id
    BY <1>2 DEF SettingOr, Says
  <1> QED BY <1>1, <1>2

\* The values are those that were given to the builder.
LEMMA SettingsMean ==
  ASSUME DeliveryInv, SettingsInv
  PROVE  SettingsAreAsSent
  <1> SUFFICES ASSUME NEW s \in Streams, NEW k \in DOMAIN ReadOn(s), k > 1,
                      ReadOn(s)[k].answer = Ok, ReadOn(s)[k].item.type = SETTINGS,
                      SentOn(s)[k].item.data = <<>>
               PROVE  LET numbers == SentOn(s)[k].item.numbers
                      IN  /\ settings # None
                          /\ Says(numbers, QPACK_MAX_TABLE_CAPACITY, settings[1].capacity, 0)
                          /\ Says(numbers, MAX_FIELD_SECTION_SIZE, settings[1].section, Unlimited)
                          /\ Says(numbers, QPACK_BLOCKED_STREAMS, settings[1].blocked, 0)
    BY DEF SettingsAreAsSent
  <1> DEFINE read == ReadOn(s)
             written == SentOn(s)
             event == read[k]
             given == written[k].item
             numbers == given.numbers
  <1>1. Delivered(read, written, wire[s]) /\ k \in 1 .. Len(read) /\ k \in 1 .. Len(written)
    <2>1. Delivered(read, written, wire[s])
      BY DEF DeliveryInv
    <2>2. DOMAIN read = 1 .. Len(read) /\ Len(read) \in Nat
      BY OnStream DEF IsSequence
    <2> HIDE DEF read, written
    <2>3. Len(written) \in Nat /\ Len(read) <= Len(written)
      BY <2>1 DEF Delivered
    <2>4. k \in DOMAIN read
      BY DEF read
    <2> QED BY <2>1, <2>2, <2>3, <2>4
  <1>2. event.kind = "frame" /\ FrameComesBack(event.item, given)
    <2>1. IsRead(read, written, k) /\ k # 1
      BY <1>1 DEF Delivered
    <2> HIDE DEF read, written
    <2> QED BY <2>1 DEF IsRead
  <1>3. given \in Frames
    <2>1. IsWritten(written, k) /\ k # 1
      BY <1>1 DEF Delivered
    <2> HIDE DEF read, written
    <2> QED BY <2>1 DEF IsWritten
  <1>4. NumbersIn(event.item.payload) = numbers
    BY <1>2 DEF FrameComesBack
  <1>5. PICK j \in DOMAIN events : event = events[j]
    <2>1. HistoryInv
      BY DEF DeliveryInv, HistoryInv, IsSequence
    <2> QED BY <2>1, ReadIsEvent
  <1>6. settings = Some(EffectiveSettings(numbers))
    BY <1>2, <1>4, <1>5 DEF SettingsInv
  <1>7. settings # None /\ settings[1] = EffectiveSettings(numbers)
    BY <1>6, SomeIsSome
  <1>8. \A i \in SettingIndices(numbers) : i \in Nat
    <2>1. numbers \in Seq(Nat)
      BY <1>3, InputsAssumption DEF IsGivenFrame
    <2> HIDE DEF numbers
    <2>2. DOMAIN numbers \subseteq Nat
      BY <2>1
    <2> QED BY <2>2 DEF SettingIndices
  <1> HIDE DEF numbers
  <1>9. \A id, default : Says(numbers, id, SettingOr(numbers, id, default), default)
    BY <1>8, SettingIsSaid
  <1>10. /\ settings[1].capacity = SettingOr(numbers, QPACK_MAX_TABLE_CAPACITY, 0)
         /\ settings[1].section = SettingOr(numbers, MAX_FIELD_SECTION_SIZE, Unlimited)
         /\ settings[1].blocked = SettingOr(numbers, QPACK_BLOCKED_STREAMS, 0)
    BY <1>7 DEF EffectiveSettings
  <1> QED BY <1>7, <1>9, <1>10 DEF numbers

\* The settings in force after a SETTINGS frame was taken are those that its builder was
\* given, however the frame was cut and whatever has come since.
THEOREM SpecSettingsAreAsSent == Spec => []SettingsAreAsSent
  <1>1. Init => TypeInv /\ DeliveryInv /\ SettingsInv
    <2>1. Init => SettingsInv
      BY DEF Init, SettingsInv
    <2> QED BY <2>1, TypeInit, DeliveryInit
  <1>2. TypeInv /\ DeliveryInv /\ SettingsInv /\ [Next]_vars
          => TypeInv' /\ DeliveryInv' /\ SettingsInv'
    <2>1. DeliveryInv => HistoryInv
      BY DEF DeliveryInv, HistoryInv, IsSequence
    <2> QED BY <2>1, TypeStep, DeliveryStep, SettingsStep
  <1>3. DeliveryInv /\ SettingsInv => SettingsAreAsSent
    BY SettingsMean
  <1> QED
    BY <1>1, <1>2, <1>3, PTL DEF Spec
=============================================================================

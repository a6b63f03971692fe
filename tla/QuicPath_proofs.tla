---------------------------- MODULE QuicPath_proofs ----------------------------
(***************************************************************************)
(* That datagrams and packets arrive as they were sent, and that an ACK    *)
(* frame tells of packets that were sent, for every scenario: whatever     *)
(* the users and the link do, in whatever order.                           *)
(***************************************************************************)
EXTENDS QuicDatagrams_proofs, FiniteSetTheorems

-----------------------------------------------------------------------------
(* Pieces behind one another *)

Joins1(f, pieces, S) ==
  /\ f \in [0 .. Length(pieces) -> Seq(S)]
  /\ f[0] = <<>>
  /\ \A k \in 1 .. Length(pieces) : f[k] = f[k - 1] \o pieces[k]

\* Joined has the pieces joined so far.
LEMMA JoinedSteps ==
  ASSUME NEW S, NEW pieces, Length(pieces) \in Nat,
         \A k \in 1 .. Length(pieces) : pieces[k] \in Seq(S)
  PROVE  \E f : Joins1(f, pieces, S) /\ Frames!Joined(pieces) = f[Length(pieces)]
  <1> DEFINE N == Length(pieces)
             V == Seq(S)
             start == <<>>
             step == [p \in (1 .. N) \X V |-> p[2] \o pieces[p[1]]]
             Body(f, k) == IF k = 0 THEN <<>> ELSE f[k - 1] \o pieces[k]
             upTo == CHOOSE f : f = [k \in 0 .. N |-> Body(f, k)]
  <1>1. Frames!Joined(pieces) = upTo[N]
    BY DEF Frames!Joined, Length
  <1>2. start \in V
    OBVIOUS
  <1>3. step \in [(1 .. N) \X V -> V]
    <2> SUFFICES ASSUME NEW p \in (1 .. N) \X V PROVE p[2] \o pieces[p[1]] \in V
      OBVIOUS
    <2>1. p[1] \in 1 .. N /\ p[2] \in V
      OBVIOUS
    <2>2. p[2] \in Seq(S) /\ pieces[p[1]] \in Seq(S)
      BY <2>1
    <2> HIDE DEF N
    <2> QED BY <2>2, ConcatProperties
  <1>4. N \in Nat
    OBVIOUS
  <1>5. PICK f \in [0 .. N -> V] : Counts(f, N, start, step)
    <2> HIDE DEF N, V, start, step
    <2> QED BY <1>2, <1>3, <1>4, Counting
  <1>6. f[0] = <<>> /\ \A k \in 1 .. N : f[k] = f[k - 1] \o pieces[k]
    <2>1. f[0] = start /\ \A k \in 1 .. N : f[k] = step[<<k, f[k - 1]>>]
      BY <1>5 DEF Counts
    <2> SUFFICES ASSUME NEW k \in 1 .. N PROVE f[k] = f[k - 1] \o pieces[k]
      BY <2>1
    <2>2. k - 1 \in 0 .. N
      BY <1>4
    <2>3. f[k - 1] \in V
      <3> HIDE DEF V, N
      <3> QED BY <1>5, <2>2
    <2>4. step[<<k, f[k - 1]>>] = f[k - 1] \o pieces[k]
      <3> HIDE DEF V, N
      <3> QED BY <2>3
    <2> HIDE DEF step, V, N
    <2> QED BY <2>1, <2>4
  <1>7. f = [k \in 0 .. N |-> Body(f, k)]
    <2>1. f = [k \in 0 .. N |-> f[k]]
      BY <1>5
    <2>2. \A k \in 0 .. N : f[k] = Body(f, k)
      <3> SUFFICES ASSUME NEW k \in 0 .. N PROVE f[k] = Body(f, k)
        OBVIOUS
      <3>1. k = 0 \/ k \in 1 .. N
        BY <1>4
      <3> QED BY <1>6, <3>1
    <2> HIDE DEF Body, N
    <2> QED BY <2>1, <2>2
  <1>8. upTo = [k \in 0 .. N |-> Body(upTo, k)]
    <2> HIDE DEF Body, N
    <2> QED BY <1>7
  <1>9. \A k \in 0 .. N : upTo[k] = Body(upTo, k)
    <2> HIDE DEF Body, N, upTo
    <2> QED BY <1>8
  <1>10. \A k \in 0 .. N : k \in {j \in 0 .. N : upTo[j] = f[j]}
    <2> DEFINE T == {j \in 0 .. N : upTo[j] = f[j]}
    <2>1. 0 \in T
      <3>1. 0 \in 0 .. N
        BY <1>4
      <3> QED BY <1>6, <1>9, <3>1
    <2>2. ASSUME NEW k \in 1 .. N, k - 1 \in T PROVE k \in T
      <3>1. k \in 0 .. N /\ k # 0 /\ upTo[k - 1] = f[k - 1]
        BY <1>4, <2>2
      <3> HIDE DEF upTo
      <3> QED BY <1>6, <1>9, <3>1
    <2> HIDE DEF T, N, upTo
    <2>3. \A k \in 0 .. N : k \in T
      BY <1>4, <2>1, <2>2, Upwards
    <2> QED BY <2>3 DEF T
  <1>11. upTo[N] = f[N]
    <2>1. N \in 0 .. N
      BY <1>4
    <2> HIDE DEF upTo, N
    <2> QED BY <1>10, <2>1
  <1> HIDE DEF upTo
  <1>12. Joins1(f, pieces, S)
    BY <1>5, <1>6 DEF Joins1
  <1> QED BY <1>1, <1>11, <1>12

\* They are a sequence, and the first of them is in front.
LEMMA JoinedTyped ==
  ASSUME NEW S, NEW pieces, Length(pieces) \in Nat,
         \A k \in 1 .. Length(pieces) : pieces[k] \in Seq(S)
  PROVE  /\ Frames!Joined(pieces) \in Seq(S)
         /\ Length(pieces) > 0 =>
               \E rest \in Seq(S) : Frames!Joined(pieces) = pieces[1] \o rest
         /\ Length(pieces) = 0 => Frames!Joined(pieces) = <<>>
         /\ Length(pieces) = 1 => Frames!Joined(pieces) = pieces[1]
         /\ Length(pieces) = 2 => Frames!Joined(pieces) = pieces[1] \o pieces[2]
  <1> DEFINE N == Length(pieces)
  <1>1. PICK f : Joins1(f, pieces, S) /\ Frames!Joined(pieces) = f[N]
    BY JoinedSteps
  <1>2. f \in [0 .. N -> Seq(S)] /\ f[0] = <<>>
        /\ \A k \in 1 .. N : f[k] = f[k - 1] \o pieces[k]
    BY <1>1 DEF Joins1
  <1> HIDE DEF N
  <1>3. N \in Nat /\ \A k \in 1 .. N : pieces[k] \in Seq(S)
    BY DEF N
  <1>4. f[N] \in Seq(S)
    BY <1>2, <1>3
  <1>5. ASSUME N > 0 PROVE f[1] = pieces[1] /\ pieces[1] \in Seq(S)
    <2>1. 1 \in 1 .. N
      BY <1>3, <1>5
    <2>2. f[1] = f[1 - 1] \o pieces[1]
      BY <1>2, <2>1, Zenon
    <2>3. pieces[1] \in Seq(S) /\ 1 - 1 = 0
      BY <1>3, <2>1
    <2>4. f[1] = <<>> \o pieces[1]
      BY <1>2, <2>2, <2>3, Zenon
    <2>5. <<>> \o pieces[1] = pieces[1]
      BY <2>3
    <2> QED BY <2>3, <2>4, <2>5
  <1>6. ASSUME N > 0 PROVE \E rest \in Seq(S) : f[N] = pieces[1] \o rest
    <2> DEFINE T == {k \in 0 .. N : k = 0 \/ \E rest \in Seq(S) : f[k] = pieces[1] \o rest}
    <2>1. 0 \in T
      BY <1>3
    <2>2. ASSUME NEW k \in 1 .. N, k - 1 \in T PROVE k \in T
      <3>1. k \in 0 .. N /\ f[k] = f[k - 1] \o pieces[k] /\ pieces[k] \in Seq(S)
        <4>1. k \in 0 .. N /\ pieces[k] \in Seq(S)
          BY <1>3
        <4>2. f[k] = f[k - 1] \o pieces[k]
          BY <1>2, Zenon
        <4> QED BY <4>1, <4>2
      <3>2. CASE k = 1
        <4>1. f[k] = pieces[1] \o <<>> /\ <<>> \in Seq(S)
          BY <1>5, <1>6, <3>2
        <4> QED BY <3>1, <4>1
      <3>3. CASE k # 1
        <4>1. k - 1 # 0
          BY <3>3
        <4>2. PICK rest \in Seq(S) : f[k - 1] = pieces[1] \o rest
          BY <2>2, <4>1
        <4>3. f[k] = pieces[1] \o (rest \o pieces[k]) /\ rest \o pieces[k] \in Seq(S)
          <5>1. (pieces[1] \o rest) \o pieces[k] = pieces[1] \o (rest \o pieces[k])
            <6>1. pieces[1] \in Seq(S) /\ rest \in Seq(S) /\ pieces[k] \in Seq(S)
              BY <1>5, <1>6, <3>1
            <6> DEFINE head == pieces[1]
                       last == pieces[k]
            <6> HIDE DEF head, last
            <6>2. head \in Seq(S) /\ last \in Seq(S)
              BY <6>1 DEF head, last
            <6>3. (head \o rest) \o last = head \o (rest \o last)
              BY <6>2, ConcatAssociative, SMTT(30)
            <6> QED BY <6>3, Zenon DEF head, last
          <5>2. rest \o pieces[k] \in Seq(S)
            BY <3>1, ConcatProperties
          <5> QED BY <3>1, <4>2, <5>1, <5>2
        <4> QED BY <3>1, <4>3
      <3> QED BY <3>2, <3>3
    <2> HIDE DEF T
    <2>3. N \in T
      <3>1. \A k \in 0 .. N : k \in T
        BY <1>3, <2>1, <2>2, Upwards
      <3>2. N \in 0 .. N
        BY <1>3
      <3> QED BY <3>1, <3>2
    <2>4. N # 0
      BY <1>6
    <2> QED BY <2>3, <2>4 DEF T
  <1>7. ASSUME N = 2 PROVE f[2] = pieces[1] \o pieces[2]
    <2>1. 2 \in 1 .. N /\ N > 0 /\ 2 - 1 = 1
      BY <1>7
    <2>2. f[2] = f[2 - 1] \o pieces[2] /\ f[1] = pieces[1]
      BY <1>2, <1>5, <2>1
    <2> QED BY <2>1, <2>2
  <1>8. N = 1 => N > 0
    OBVIOUS
  <1> QED BY <1>1, <1>2, <1>4, <1>5, <1>6, <1>7, <1>8 DEF N

\* The least of a set, and the integers that take one of the bytes of a payload or less.
LEMMA SmallHolds ==
  ASSUME NEW base, IsBase(base), NEW value \in 0 .. (base - 1)
  PROVE  Holds(base, value, 8) /\ value \in Nat
  <1>1. base \in Nat /\ base > 0 /\ Quarter(base) \in Nat /\ Quarter(base) > 0 /\ value \in Nat
    BY DEF IsBase
  <1>2. \A n \in 0 .. (base - 1) : RestOf(base, n) = 0
    BY <1>1 DEF RestOf
  <1>3. RestOf(base, value) = 0 /\ RestOf(base, 0) = 0
    BY <1>1, <1>2
  <1> QED BY <1>1, <1>3 DEF Holds

\* An integer in the width that was asked for, or in the shortest.
LEMMA WidthTyped ==
  ASSUME NEW value \in Nat, Holds(FrameByteValues, value, 8)
  PROVE  /\ Frames!InWidth(value, 0) \in Bytes
         /\ \A rest \in Bytes :
               \E length : IsRead(Cat(Frames!InWidth(value, 0), rest), FrameByteValues, value,
                                  length, rest)
  <1> DEFINE length == Shortest(FrameByteValues, value)
  <1>1. Frames!InWidth(value, 0) = IntegerBytes(FrameByteValues, value, length)
    BY FrameIntegers DEF Frames!InWidth
  <1>2. length \in Packets!Lengths /\ Holds(FrameByteValues, value, length)
    BY ShortestHolds
  <1> HIDE DEF length
  <1>3. ASSUME NEW rest \in Bytes
        PROVE  /\ Frames!InWidth(value, 0) \in Bytes
               /\ IsRead(Cat(Frames!InWidth(value, 0), rest), FrameByteValues, value,
                         length, rest)
    BY <1>1, <1>2, BothBases, IntegerComesBack
  <1> QED BY <1>3, EmptyBytes

\* Integers up to this one are written in any payload.
LEMMA FifteenFits ==
  ASSUME NEW value \in 0 .. 15
  PROVE  Holds(FrameByteValues, value, 8) /\ value \in Nat
  <1>1. FrameByteValues \in Nat /\ FrameByteValues >= 16
    BY ByteAssumption
  <1>2. value \in 0 .. (FrameByteValues - 1)
    BY <1>1
  <1> QED BY <1>2, BothBases, SmallHolds

\* Parts whose bytes are bytes.
AreParts(parts) == Length(parts) \in Nat /\ \A k \in 1 .. Length(parts) : parts[k].bytes \in Bytes

LEMMA PartsTyped ==
  ASSUME NEW parts, AreParts(parts)
  PROVE  /\ Frames!PartsBytes(parts) \in Bytes
         /\ Length(parts) = 0 => Frames!PartsBytes(parts) = <<>>
         /\ Length(parts) = 1 => Frames!PartsBytes(parts) = parts[1].bytes
         /\ Length(parts) = 2 => Frames!PartsBytes(parts) = parts[1].bytes \o parts[2].bytes
  <1> DEFINE pieces == [k \in 1 .. Length(parts) |-> parts[k].bytes]
  <1>1. Length(parts) \in Nat /\ \A k \in 1 .. Length(parts) : parts[k].bytes \in Bytes
    BY DEF AreParts
  <1>2. pieces \in Seq(Bytes) /\ Length(pieces) = Length(parts)
        /\ \A k \in 1 .. Length(parts) : pieces[k] = parts[k].bytes
    <2> HIDE DEF Bytes
    <2> QED BY <1>1 DEF Length
  <1>3. Frames!PartsBytes(parts) = Frames!Joined(pieces)
    BY DEF Frames!PartsBytes, Length
  <1> HIDE DEF pieces
  <1>4. \A k \in 1 .. Length(pieces) : pieces[k] \in Seq(Link!Byte)
    BY <1>1, <1>2 DEF Bytes
  <1>5. /\ Frames!Joined(pieces) \in Seq(Link!Byte)
        /\ Length(pieces) = 0 => Frames!Joined(pieces) = <<>>
        /\ Length(pieces) = 1 => Frames!Joined(pieces) = pieces[1]
        /\ Length(pieces) = 2 => Frames!Joined(pieces) = pieces[1] \o pieces[2]
    BY <1>1, <1>2, <1>4, JoinedTyped
  <1>6. /\ Length(parts) = 1 => pieces[1] = parts[1].bytes
        /\ Length(parts) = 2 => pieces[1] = parts[1].bytes /\ pieces[2] = parts[2].bytes
    BY <1>2
  <1> QED BY <1>2, <1>3, <1>5, <1>6 DEF Bytes

\* A frame is written as bytes.
LEMMA FrameTyped ==
  ASSUME NEW frame, frame.width = 0, frame.type \in 0 .. 15, AreParts(frame.integers),
         AreParts(frame.data)
  PROVE  FrameBytes(frame) \in Bytes
  <1>1. Frames!InWidth(frame.type, 0) \in Bytes
    BY FifteenFits, WidthTyped
  <1>2. Frames!PartsBytes(frame.integers) \in Bytes /\ Frames!PartsBytes(frame.data) \in Bytes
    BY PartsTyped
  <1>3. FrameBytes(frame) = Cat(Cat(Frames!InWidth(frame.type, 0),
                                    Frames!PartsBytes(frame.integers)),
                                Frames!PartsBytes(frame.data))
    BY DEF FrameBytes, Cat
  <1> QED BY <1>1, <1>2, <1>3, CatTyped

\* Frames of which each is bytes make a payload of bytes, with the first in front.
LEMMA FramesTyped ==
  ASSUME NEW frames, Length(frames) \in Nat,
         \A k \in 1 .. Length(frames) : FrameBytes(frames[k]) \in Bytes
  PROVE  /\ PayloadBytes(frames) \in Bytes
         /\ Length(frames) > 0 =>
               \E rest \in Bytes : PayloadBytes(frames) = Cat(FrameBytes(frames[1]), rest)
         /\ Length(frames) = 1 => PayloadBytes(frames) = FrameBytes(frames[1])
  <1> DEFINE pieces == [k \in 1 .. Length(frames) |-> FrameBytes(frames[k])]
  <1>1. pieces \in Seq(Bytes) /\ Length(pieces) = Length(frames)
        /\ \A k \in 1 .. Length(frames) : pieces[k] = FrameBytes(frames[k])
    <2> HIDE DEF Bytes
    <2> QED BY DEF Length
  <1>2. PayloadBytes(frames) = Frames!Joined(pieces)
    BY DEF PayloadBytes, Length
  <1> HIDE DEF pieces
  <1>3. \A k \in 1 .. Length(pieces) : pieces[k] \in Seq(Link!Byte)
    BY <1>1 DEF Bytes
  <1>4. /\ Frames!Joined(pieces) \in Seq(Link!Byte)
        /\ Length(pieces) > 0 =>
              \E rest \in Seq(Link!Byte) : Frames!Joined(pieces) = pieces[1] \o rest
        /\ Length(pieces) = 1 => Frames!Joined(pieces) = pieces[1]
    BY <1>1, <1>3, JoinedTyped
  <1>5. Length(frames) > 0 => pieces[1] = FrameBytes(frames[1])
    <2>1. Length(frames) > 0 => 1 \in 1 .. Length(frames)
      OBVIOUS
    <2> QED BY <1>1, <2>1
  <1>6. Length(frames) = 1 => Length(frames) > 0
    OBVIOUS
  <1> QED BY <1>1, <1>2, <1>4, <1>5, <1>6 DEF Bytes, Cat

-----------------------------------------------------------------------------
(* The frames the users write *)

LEMMA GreatestIs ==
  ASSUME NEW S \in SUBSET Int, NEW n \in S, \A m \in S : m <= n
  PROVE  Greatest(S) = n
  <1> DEFINE x == Greatest(S)
  <1>1. x \in S /\ \A m \in S : m <= x
    BY DEF Greatest
  <1> HIDE DEF x
  <1>2. x \in Int /\ n \in Int /\ x <= n /\ n <= x
    BY <1>1
  <1>3. x = n
    BY <1>2
  <1> QED BY <1>3 DEF x

\* Where the range of the greatest number begins.
LEMMA RangeStartIs ==
  ASSUME NEW S \in SUBSET Int, NEW n \in S, \A m \in S : m <= n,
         NEW a \in S, a .. n \subseteq S, a - 1 \notin S
  PROVE  RangeStart(S) = a
  <1> DEFINE T == {k \in S : k .. Greatest(S) \subseteq S}
             x == Least(T)
  <1>1. Greatest(S) = n
    BY GreatestIs
  <1>2. a \in T
    BY <1>1
  <1>3. \A m \in T : a <= m
    <2> SUFFICES ASSUME NEW m \in T, ~ (a <= m) PROVE FALSE
      OBVIOUS
    <2>1. m \in Int /\ a \in Int /\ n \in Int /\ m .. n \subseteq S /\ a <= n
      BY <1>1
    <2>2. a - 1 \in m .. n
      BY <2>1
    <2> QED BY <2>1, <2>2
  <1>4. x = Least(T)
    OBVIOUS
  <1> HIDE DEF T
  <1>5. x \in T /\ \A m \in T : x <= m
    BY <1>2, <1>3 DEF Least
  <1>6. T \subseteq Int
    BY DEF T
  <1>7. x <= a /\ a <= x /\ x \in Int /\ a \in Int
    <2> HIDE DEF x
    <2> QED BY <1>2, <1>3, <1>5, <1>6
  <1>8. x = a
    <2> HIDE DEF x
    <2> QED BY <1>7
  <1> QED BY <1>8 DEF RangeStart, T

\* The numbers of packets.
PacketNumbers == {0, 1, 4}

\* The integers of an ACK of each set of them.
WrittenRanges(S) ==
  IF S = {0} THEN <<0, 0, 0, 0>>
  ELSE IF S = {1} THEN <<1, 0, 0, 0>>
  ELSE IF S = {4} THEN <<4, 0, 0, 0>>
  ELSE IF S = {0, 1} THEN <<1, 0, 0, 1>>
  ELSE IF S = {0, 4} THEN <<4, 0, 1, 0, 2, 0>>
  ELSE IF S = {1, 4} THEN <<4, 0, 1, 0, 1, 0>>
  ELSE <<4, 0, 1, 0, 1, 1>>

AckCounts(type) == IF type = 3 THEN <<0, 0, 1>> ELSE <<>>

LEMMA SetsOfNumbers ==
  ASSUME NEW S \in SUBSET PacketNumbers, S # {}
  PROVE  S \in {{0}, {1}, {4}, {0, 1}, {0, 4}, {1, 4}, {0, 1, 4}}
  <1>1. \A x \in S : x = 0 \/ x = 1 \/ x = 4
    BY DEF PacketNumbers
  <1>2. CASE 0 \in S /\ 1 \in S /\ 4 \in S
    <2>1. S = {0, 1, 4}
      BY <1>1, <1>2
    <2> QED BY <2>1
  <1>3. CASE 0 \in S /\ 1 \in S /\ 4 \notin S
    <2>1. S = {0, 1}
      BY <1>1, <1>3
    <2> QED BY <2>1
  <1>4. CASE 0 \in S /\ 1 \notin S /\ 4 \in S
    <2>1. S = {0, 4}
      BY <1>1, <1>4
    <2> QED BY <2>1
  <1>5. CASE 0 \in S /\ 1 \notin S /\ 4 \notin S
    <2>1. S = {0}
      BY <1>1, <1>5
    <2> QED BY <2>1
  <1>6. CASE 0 \notin S /\ 1 \in S /\ 4 \in S
    <2>1. S = {1, 4}
      BY <1>1, <1>6
    <2> QED BY <2>1
  <1>7. CASE 0 \notin S /\ 1 \in S /\ 4 \notin S
    <2>1. S = {1}
      BY <1>1, <1>7
    <2> QED BY <2>1
  <1>8. CASE 0 \notin S /\ 1 \notin S
    <2>1. S = {4}
      BY <1>1, <1>8
    <2> QED BY <2>1
  <1> QED BY <1>2, <1>3, <1>4, <1>5, <1>6, <1>7, <1>8

\* The greatest of a set of numbers, and where its range begins.
LEMMA RangeOf ==
  /\ Greatest({0}) = 0 /\ RangeStart({0}) = 0
  /\ Greatest({1}) = 1 /\ RangeStart({1}) = 1
  /\ Greatest({4}) = 4 /\ RangeStart({4}) = 4
  /\ Greatest({0, 1}) = 1 /\ RangeStart({0, 1}) = 0
  /\ Greatest({0, 4}) = 4 /\ RangeStart({0, 4}) = 4
  /\ Greatest({1, 4}) = 4 /\ RangeStart({1, 4}) = 4
  /\ Greatest({0, 1, 4}) = 4 /\ RangeStart({0, 1, 4}) = 4
  <1>1. \A n \in Int : n .. n = {n}
    OBVIOUS
  <1>2. 0 .. 1 = {0, 1}
    OBVIOUS
  <1>3. \A n \in Int : Greatest({n}) = n /\ RangeStart({n}) = n
    <2> SUFFICES ASSUME NEW n \in Int PROVE Greatest({n}) = n /\ RangeStart({n}) = n
      OBVIOUS
    <2> DEFINE S == {n}
    <2>1. /\ S \in SUBSET Int /\ n \in S /\ (\A m \in S : m <= n) /\ n .. n \subseteq S
          /\ n - 1 \notin S
      BY <1>1
    <2> HIDE DEF S
    <2>2. Greatest(S) = n /\ RangeStart(S) = n
      BY <2>1, GreatestIs, RangeStartIs
    <2> QED BY <2>2 DEF S
  <1>4. Greatest({0, 1}) = 1 /\ RangeStart({0, 1}) = 0
    <2> DEFINE S == {0, 1}
    <2>1. /\ S \in SUBSET Int /\ 1 \in S /\ (\A m \in S : m <= 1) /\ 0 \in S
          /\ 0 .. 1 \subseteq S /\ 0 - 1 \notin S
      BY <1>2
    <2> HIDE DEF S
    <2>2. Greatest(S) = 1 /\ RangeStart(S) = 0
      BY <2>1, GreatestIs, RangeStartIs
    <2> QED BY <2>2 DEF S
  <1>5. ASSUME NEW S \in {{0, 4}, {1, 4}, {0, 1, 4}} PROVE Greatest(S) = 4 /\ RangeStart(S) = 4
    <2>1. /\ S \in SUBSET Int /\ 4 \in S /\ (\A m \in S : m <= 4) /\ 4 .. 4 \subseteq S
          /\ 4 - 1 \notin S
      BY <1>1
    <2> QED BY <2>1, GreatestIs, RangeStartIs
  <1> QED BY <1>3, <1>4, <1>5

\* The ranges under the last one.
LEMMA RangePartsIs ==
  ASSUME NEW S \in SUBSET PacketNumbers, NEW a \in 0 .. 4
  PROVE  LET below == {m \in S : m < a}
         IN  RangeParts(S, a) = IF below = {} THEN <<>>
                                ELSE <<a - Greatest(below) - 2, Greatest(below) - RangeStart(below)>>
  <1> DEFINE B(n) == {m \in S : m < n}
             item(n) == <<n - Greatest(B(n)) - 2, Greatest(B(n)) - RangeStart(B(n))>>
             Body(f, n) == IF B(n) = {} THEN <<>> ELSE item(n) \o f[RangeStart(B(n))]
             from == CHOOSE f : f = [n \in 0 .. a |-> Body(f, n)]
             g == [n \in 0 .. a |-> IF B(n) = {} THEN <<>> ELSE item(n)]
  <1>1. RangeParts(S, a) = from[a]
    BY DEF RangeParts
  <1>2. ASSUME NEW n \in 0 .. a, B(n) # {}
        PROVE  RangeStart(B(n)) \in 0 .. a /\ B(RangeStart(B(n))) = {}
    <2>1. \A m \in B(n) : m = 0 \/ m = 1
      BY DEF PacketNumbers
    <2>2. B(n) \in {{0}, {1}, {0, 1}}
      <3>1. CASE 0 \in B(n) /\ 1 \in B(n)
        <4>1. B(n) = {0, 1}
          BY <2>1, <3>1
        <4> QED BY <4>1
      <3>2. CASE 0 \in B(n) /\ 1 \notin B(n)
        <4>1. B(n) = {0}
          BY <2>1, <3>2
        <4> QED BY <4>1
      <3>3. CASE 0 \notin B(n)
        <4>1. B(n) = {1}
          BY <1>2, <2>1, <3>3
        <4> QED BY <4>1
      <3> QED BY <3>1, <3>2, <3>3
    <2> DEFINE start == RangeStart(B(n))
    <2>3. start \in B(n) /\ \A m \in B(n) : m >= start
      <3>1. \A T \in {{0}, {1}, {0, 1}} : RangeStart(T) \in T /\ \A m \in T : m >= RangeStart(T)
        BY RangeOf
      <3> HIDE DEF B
      <3> QED BY <2>2, <3>1
    <2> HIDE DEF start
    <2>4. start \in S /\ start < n /\ start \in 0 .. a
      BY <2>1, <2>3
    <2>5. B(start) = {}
      <3> SUFFICES ASSUME NEW m \in S, m < start PROVE FALSE
        OBVIOUS
      <3>1. m \in 0 .. 4
        BY DEF PacketNumbers
      <3>2. m \in B(n)
        BY <2>4, <3>1
      <3> QED BY <2>3, <2>4, <3>1, <3>2
    <2> QED BY <2>4, <2>5 DEF start
  <1>3. \A n \in 0 .. a : item(n) \in Seq({item(n)[1], item(n)[2]}) /\ item(n) \o <<>> = item(n)
    OBVIOUS
  <1> HIDE DEF item
  <1>4. g = [n \in 0 .. a |-> Body(g, n)]
    <2> SUFFICES ASSUME NEW n \in 0 .. a PROVE (IF B(n) = {} THEN <<>> ELSE item(n)) = Body(g, n)
      OBVIOUS
    <2>1. CASE B(n) = {}
      BY <2>1
    <2>2. CASE B(n) # {}
      <3>1. RangeStart(B(n)) \in 0 .. a /\ B(RangeStart(B(n))) = {}
        BY <1>2, <2>2
      <3>2. g[RangeStart(B(n))] = <<>>
        <4> HIDE DEF B
        <4> QED BY <3>1
      <3> HIDE DEF g, B
      <3> QED BY <1>3, <2>2, <3>2
    <2> QED BY <2>1, <2>2
  <1>5. from = [n \in 0 .. a |-> Body(from, n)]
    <2> HIDE DEF Body, g
    <2> QED BY <1>4
  <1>6. \A n \in 0 .. a : from[n] = Body(from, n)
    <2> HIDE DEF Body, from
    <2> QED BY <1>5
  <1> HIDE DEF from
  <1>7. from[a] = IF B(a) = {} THEN <<>> ELSE item(a)
    <2>1. a \in 0 .. a
      OBVIOUS
    <2>2. CASE B(a) = {}
      BY <1>6, <2>1, <2>2
    <2>3. CASE B(a) # {}
      <3>1. RangeStart(B(a)) \in 0 .. a /\ B(RangeStart(B(a))) = {}
        BY <1>2, <2>1, <2>3
      <3>2. from[RangeStart(B(a))] = <<>>
        BY <1>6, <3>1
      <3>3. from[a] = item(a) \o <<>>
        <4> HIDE DEF B
        <4> QED BY <1>6, <2>1, <2>3, <3>2
      <3> QED BY <1>3, <2>1, <2>3, <3>3
    <2> QED BY <2>2, <2>3
  <1> QED BY <1>1, <1>7 DEF item

LEMMA FourAndTwo ==
  ASSUME NEW x \in Int, NEW y \in Int
  PROVE  <<4, 0, 1, 0>> \o <<x, y>> = <<4, 0, 1, 0, x, y>>
  <1> DEFINE s == <<4, 0, 1, 0>>
             t == <<x, y>>
             all == <<4, 0, 1, 0, x, y>>
  <1>1. s \in Seq(Int) /\ t \in Seq(Int) /\ all \in Seq(Int) /\ Len(s) = 4 /\ Len(t) = 2
        /\ Len(all) = 6
    OBVIOUS
  <1>2. /\ s[1] = 4 /\ s[2] = 0 /\ s[3] = 1 /\ s[4] = 0 /\ t[1] = x /\ t[2] = y
        /\ all[1] = 4 /\ all[2] = 0 /\ all[3] = 1 /\ all[4] = 0 /\ all[5] = x /\ all[6] = y
    OBVIOUS
  <1> HIDE DEF s, t, all
  <1>3. s \o t \in Seq(Int) /\ Len(s \o t) = 6
    <2>1. s \in Seq(Int) /\ t \in Seq(Int)
      BY <1>1
    <2>2. s \o t \in Seq(Int) /\ Len(s \o t) = Len(s) + Len(t)
      BY <2>1, ConcatProperties
    <2> QED BY <1>1, <2>2
  <1>4. ASSUME NEW k \in 1 .. 6 PROVE (s \o t)[k] = all[k]
    <2>1. k \in 1 .. Len(s) + Len(t)
      BY <1>1
    <2>2. (s \o t)[k] = IF k <= Len(s) THEN s[k] ELSE t[k - Len(s)]
      BY <1>1, <2>1, ConcatProperties
    <2>3. (s \o t)[k] = IF k <= 4 THEN s[k] ELSE t[k - 4]
      BY <1>1, <2>2
    <2>4. k = 1 \/ k = 2 \/ k = 3 \/ k = 4 \/ k = 5 \/ k = 6
      OBVIOUS
    <2>5. CASE k \in {1, 2, 3, 4}
      <3>1. (s \o t)[k] = s[k]
        BY <2>3, <2>5
      <3> QED BY <1>2, <2>5, <3>1
    <2>6. CASE k = 5
      BY <1>2, <2>3, <2>6
    <2>7. CASE k = 6
      BY <1>2, <2>3, <2>7
    <2> QED BY <2>4, <2>5, <2>6, <2>7
  <1>6. s \o t = all
    BY <1>1, <1>3, <1>4, SeqEqual
  <1> QED BY <1>6 DEF s, t, all

\* The integers of an ACK.
LEMMA AckFrameIs ==
  ASSUME NEW S \in SUBSET PacketNumbers, S # {}, NEW type \in {2, 3}
  PROVE  LET integers == WrittenRanges(S) \o AckCounts(type)
             frame == AckFrame(S, type)
         IN  /\ frame.type = type /\ frame.width = 0 /\ frame.data = <<>>
             /\ integers \in Seq(0 .. 4)
             /\ Len(integers) = Len(WrittenRanges(S)) + Len(AckCounts(type))
             /\ WrittenRanges(S) \in Seq(0 .. 4) /\ AckCounts(type) \in Seq(0 .. 4)
             /\ frame.integers = [k \in 1 .. Len(integers) |-> Frames!Number(integers[k], 0)]
  <1> DEFINE start == RangeStart(S)
             lower == RangeParts(S, start)
             head == <<Greatest(S), 0, Len(lower) \div 2, Greatest(S) - start>>
             counts == AckCounts(type)
             integers == head \o lower \o counts
  <1>1. head \o lower = WrittenRanges(S)
    <2>1. S \in {{0}, {1}, {4}, {0, 1}, {0, 4}, {1, 4}, {0, 1, 4}}
      BY SetsOfNumbers
    <2>2. ASSUME NEW G \in 0 .. 4, NEW s \in 0 .. 4, Greatest(S) = G, RangeStart(S) = s,
                 \A m \in S : ~ (m < s)
          PROVE  head \o lower = <<G, 0, 0, G - s>>
      <3>1. {m \in S : m < s} = {}
        BY <2>2
      <3>2. lower = <<>>
        BY <2>2, <3>1, RangePartsIs
      <3>3. head = <<G, 0, 0, G - s>>
        BY <2>2, <3>2
      <3> DEFINE h == <<G, 0, 0, G - s>>
      <3>4. h \in Seq(Int)
        OBVIOUS
      <3>5. h \o <<>> = h
        <4> HIDE DEF h
        <4> QED BY <3>4
      <3> QED BY <3>2, <3>3, <3>5
    <2>3. ASSUME NEW below, NEW b \in 0 .. 4, NEW t \in 0 .. 4,
                 Greatest(S) = 4, RangeStart(S) = 4, below = {m \in S : m < 4}, below # {},
                 Greatest(below) = b, RangeStart(below) = t
          PROVE  head \o lower = <<4, 0, 1, 0, 4 - b - 2, b - t>>
      <3>1. lower = <<4 - b - 2, b - t>>
        <4>1. start = 4 /\ 4 \in 0 .. 4
          BY <2>3
        <4>2. RangeParts(S, 4) = IF {m \in S : m < 4} = {} THEN <<>>
                                 ELSE <<4 - Greatest({m \in S : m < 4}) - 2,
                                        Greatest({m \in S : m < 4})
                                           - RangeStart({m \in S : m < 4})>>
          BY <4>1, RangePartsIs
        <4>3. RangeParts(S, 4) = <<4 - Greatest(below) - 2, Greatest(below) - RangeStart(below)>>
          BY <2>3, <4>2
        <4>4. RangeParts(S, 4) = <<4 - b - 2, b - t>>
          BY <2>3, <4>3
        <4> QED BY <4>1, <4>4
      <3> DEFINE x == 4 - b - 2
                 y == b - t
      <3>2. head = <<4, 0, 1, 0>>
        <4>1. Len(lower) = 2 /\ 2 \div 2 = 1
          BY <3>1
        <4>2. Greatest(S) - start = 0 /\ Greatest(S) = 4
          BY <2>3
        <4> HIDE DEF lower, start
        <4> QED BY <4>1, <4>2
      <3>3. x \in Int /\ y \in Int
        OBVIOUS
      <3> HIDE DEF x, y, head, lower
      <3>4. <<4, 0, 1, 0>> \o <<x, y>> = <<4, 0, 1, 0, x, y>>
        BY <3>3, FourAndTwo
      <3>5. head \o lower = <<4, 0, 1, 0, x, y>>
        BY <3>1, <3>2, <3>4 DEF x, y
      <3> QED BY <3>5 DEF x, y
    <2>4. CASE S \in {{0}, {1}, {4}}
      <3>1. PICK n \in {0, 1, 4} : S = {n}
        BY <2>4
      <3>2. Greatest(S) = n /\ RangeStart(S) = n /\ n \in 0 .. 4 /\ \A m \in S : ~ (m < n)
        BY <3>1, RangeOf
      <3>3. head \o lower = <<n, 0, 0, n - n>> /\ n - n = 0
        BY <2>2, <3>2
      <3>4. WrittenRanges(S) = <<n, 0, 0, 0>>
        BY <3>1 DEF WrittenRanges
      <3> QED BY <3>3, <3>4
    <2>5. CASE S = {0, 1}
      <3>1. Greatest(S) = 1 /\ RangeStart(S) = 0 /\ \A m \in S : ~ (m < 0)
        BY <2>5, RangeOf
      <3>2. head \o lower = <<1, 0, 0, 1 - 0>>
        BY <2>2, <3>1
      <3>3. WrittenRanges(S) = <<1, 0, 0, 1>>
        BY <2>5 DEF WrittenRanges
      <3> QED BY <3>2, <3>3
    <2>6. CASE S = {0, 4}
      <3>1. {m \in S : m < 4} = {0} /\ Greatest(S) = 4 /\ RangeStart(S) = 4
            /\ Greatest({0}) = 0 /\ RangeStart({0}) = 0
        BY <2>6, RangeOf
      <3> DEFINE below == {0}
      <3>2. head \o lower = <<4, 0, 1, 0, 4 - 0 - 2, 0 - 0>>
        <4>1. below # {} /\ 0 \in 0 .. 4 /\ 1 \in 0 .. 4
          OBVIOUS
        <4>2. below = {m \in S : m < 4} /\ Greatest(below) = 0 /\ RangeStart(below) = 0
              /\ Greatest(S) = 4 /\ RangeStart(S) = 4
          BY <3>1
        <4> HIDE DEF head, lower, start, below
        <4> QED BY <2>3, <4>1, <4>2
      <3>3. WrittenRanges(S) = <<4, 0, 1, 0, 2, 0>>
        BY <2>6 DEF WrittenRanges
      <3> QED BY <3>2, <3>3
    <2>7. CASE S = {1, 4}
      <3>1. {m \in S : m < 4} = {1} /\ Greatest(S) = 4 /\ RangeStart(S) = 4
            /\ Greatest({1}) = 1 /\ RangeStart({1}) = 1
        BY <2>7, RangeOf
      <3> DEFINE below == {1}
      <3>2. head \o lower = <<4, 0, 1, 0, 4 - 1 - 2, 1 - 1>>
        <4>1. below # {} /\ 0 \in 0 .. 4 /\ 1 \in 0 .. 4
          OBVIOUS
        <4>2. below = {m \in S : m < 4} /\ Greatest(below) = 1 /\ RangeStart(below) = 1
              /\ Greatest(S) = 4 /\ RangeStart(S) = 4
          BY <3>1
        <4> HIDE DEF head, lower, start, below
        <4> QED BY <2>3, <4>1, <4>2
      <3>3. WrittenRanges(S) = <<4, 0, 1, 0, 1, 0>>
        BY <2>7 DEF WrittenRanges
      <3> QED BY <3>2, <3>3
    <2>8. CASE S = {0, 1, 4}
      <3>1. {m \in S : m < 4} = {0, 1} /\ Greatest(S) = 4 /\ RangeStart(S) = 4
            /\ Greatest({0, 1}) = 1 /\ RangeStart({0, 1}) = 0
        BY <2>8, RangeOf
      <3> DEFINE below == {0, 1}
      <3>2. head \o lower = <<4, 0, 1, 0, 4 - 1 - 2, 1 - 0>>
        <4>1. below # {} /\ 0 \in 0 .. 4 /\ 1 \in 0 .. 4
          OBVIOUS
        <4>2. below = {m \in S : m < 4} /\ Greatest(below) = 1 /\ RangeStart(below) = 0
              /\ Greatest(S) = 4 /\ RangeStart(S) = 4
          BY <3>1
        <4> HIDE DEF head, lower, start, below
        <4> QED BY <2>3, <4>1, <4>2
      <3>3. WrittenRanges(S) = <<4, 0, 1, 0, 1, 1>>
        BY <2>8 DEF WrittenRanges
      <3> QED BY <3>2, <3>3
    <2> QED BY <2>1, <2>4, <2>5, <2>6, <2>7, <2>8
  <1>2. WrittenRanges(S) \in Seq(0 .. 4) /\ counts \in Seq(0 .. 4)
    <2>1. \A a, b, c, d \in 0 .. 4 : <<a, b, c, d>> \in Seq(0 .. 4)
      OBVIOUS
    <2>2. \A a, b, c, d, e, f \in 0 .. 4 : <<a, b, c, d, e, f>> \in Seq(0 .. 4)
      OBVIOUS
    <2>3. 0 \in 0 .. 4 /\ 1 \in 0 .. 4 /\ 2 \in 0 .. 4 /\ 4 \in 0 .. 4
      OBVIOUS
    <2>4. WrittenRanges(S) \in Seq(0 .. 4)
      BY <2>1, <2>2, <2>3 DEF WrittenRanges
    <2>5. <<>> \in Seq(0 .. 4) /\ <<0, 0, 1>> \in Seq(0 .. 4)
      OBVIOUS
    <2> QED BY <2>4, <2>5 DEF AckCounts
  <1> DEFINE frame == AckFrame(S, type)
  <1>3. /\ frame.type = type /\ frame.width = 0 /\ frame.data = <<>>
        /\ frame.integers = [k \in DOMAIN integers |-> Frames!Number(integers[k], 0)]
    BY DEF AckFrame, AckCounts
  <1> HIDE DEF frame, head, lower, counts
  <1>4. /\ integers = WrittenRanges(S) \o counts /\ integers \in Seq(0 .. 4)
        /\ Len(integers) = Len(WrittenRanges(S)) + Len(counts) /\ DOMAIN integers = 1 .. Len(integers)
    <2>1. integers = WrittenRanges(S) \o counts
      BY <1>1
    <2> DEFINE r == WrittenRanges(S)
    <2> HIDE DEF r, integers
    <2>2. r \in Seq(0 .. 4) /\ counts \in Seq(0 .. 4) /\ integers = r \o counts
      BY <1>2, <2>1 DEF r
    <2>3. integers \in Seq(0 .. 4) /\ Len(integers) = Len(r) + Len(counts)
      BY <2>2, ConcatProperties
    <2>4. DOMAIN integers = 1 .. Len(integers)
      BY <2>3
    <2> QED BY <2>2, <2>3, <2>4 DEF r
  <1> HIDE DEF integers
  <1> QED BY <1>2, <1>3, <1>4 DEF counts, frame

-----------------------------------------------------------------------------
(* The payloads that the users write are bytes *)

LEMMA NumberTyped ==
  ASSUME NEW value \in Nat, Holds(FrameByteValues, value, 8)
  PROVE  Frames!Number(value, 0).bytes \in Bytes
  <1>1. Frames!Number(value, 0).bytes = Frames!InWidth(value, 0)
    BY DEF Frames!Number
  <1> QED BY <1>1, WidthTyped

\* Of ACK frames.
LEMMA AckTyped ==
  ASSUME NEW S \in SUBSET PacketNumbers, S # {}, NEW type \in {2, 3}
  PROVE  FrameBytes(AckFrame(S, type)) \in Bytes
  <1> DEFINE integers == WrittenRanges(S) \o AckCounts(type)
             frame == AckFrame(S, type)
  <1>1. /\ frame.type = type /\ frame.width = 0 /\ frame.data = <<>>
        /\ integers \in Seq(0 .. 4)
        /\ frame.integers = [k \in 1 .. Len(integers) |-> Frames!Number(integers[k], 0)]
    BY AckFrameIs
  <1> HIDE DEF integers, frame
  <1>2. AreParts(frame.integers)
    <2>1. Len(integers) \in Nat /\ \A k \in 1 .. Len(integers) : integers[k] \in 0 .. 4
      BY <1>1
    <2>2. \A k \in 1 .. Len(integers) : Frames!Number(integers[k], 0).bytes \in Bytes
      <3> SUFFICES ASSUME NEW k \in 1 .. Len(integers)
                   PROVE  Frames!Number(integers[k], 0).bytes \in Bytes
        OBVIOUS
      <3>1. integers[k] \in 0 .. 15
        BY <2>1
      <3>2. Holds(FrameByteValues, integers[k], 8) /\ integers[k] \in Nat
        BY <3>1, FifteenFits
      <3> QED BY <3>2, NumberTyped
    <2> HIDE DEF Bytes
    <2>3. Len(frame.integers) = Len(integers)
      BY <1>1, <2>1
    <2>4. \A k \in 1 .. Len(integers) : frame.integers[k] = Frames!Number(integers[k], 0)
      BY <1>1
    <2> QED BY <2>1, <2>2, <2>3, <2>4 DEF AreParts, Length
  <1>3. AreParts(frame.data)
    BY <1>1 DEF AreParts, Length
  <1>4. frame.type \in 0 .. 15
    BY <1>1
  <1>5. FrameBytes(frame) \in Bytes
    BY <1>1, <1>2, <1>3, <1>4, FrameTyped
  <1> QED BY <1>5 DEF frame

\* Of PING frames.
LEMMA PingTyped == FrameBytes(PingFrame) \in Bytes
  <1>1. /\ PingFrame.type = 1 /\ PingFrame.width = 0 /\ PingFrame.integers = <<>>
        /\ PingFrame.data = <<>>
    BY DEF PingFrame
  <1>2. AreParts(<<>>)
    BY DEF AreParts, Length
  <1>3. PingFrame.type \in 0 .. 15
    BY <1>1
  <1> QED BY <1>1, <1>2, <1>3, FrameTyped

\* Of the lists of transport parameters.
LEMMA ListTyped ==
  ASSUME NEW list, IsList(list)
  PROVE  list \in Bytes /\ Length(list) \in Nat /\ Holds(FrameByteValues, Length(list), 8)
  <1>1. list \in BytesOf(FrameByteValues)
    BY DEF IsList, BytesOf, Frames!Byte
  <1>2. list \in Bytes
    BY <1>1, BothBases, BytesOfBase
  <1>3. Holds(FrameByteValues, Length(list), 8)
    BY FrameIntegers DEF IsList, Frames!Encodable, Length
  <1> QED BY <1>2, <1>3, LengthIsNat

\* Of CRYPTO frames.
LEMMA CryptoTyped ==
  ASSUME NEW list, IsList(list)
  PROVE  FrameBytes(CryptoFrame(list)) \in Bytes
  <1> DEFINE frame == CryptoFrame(list)
             number == Frames!Number(0, 0)
             sized == Frames!Sized(list, 0)
  <1>1. frame.type = 6 /\ frame.width = 0 /\ frame.integers = <<number>> /\ frame.data = <<sized>>
    BY DEF CryptoFrame, Frames!CRYPTO
  <1>2. number.bytes \in Bytes
    <2>1. 0 \in 0 .. 15
      OBVIOUS
    <2>2. Holds(FrameByteValues, 0, 8) /\ 0 \in Nat
      BY <2>1, FifteenFits
    <2> QED BY <2>2, NumberTyped
  <1>3. sized.bytes \in Bytes
    <2>1. list \in Bytes /\ Length(list) \in Nat /\ Holds(FrameByteValues, Length(list), 8)
      BY ListTyped
    <2>2. Frames!InWidth(Length(list), 0) \in Bytes
      BY <2>1, WidthTyped
    <2>3. sized.bytes = Cat(Frames!InWidth(Length(list), 0), list)
      BY DEF Frames!Sized, Cat, Length
    <2> QED BY <2>1, <2>2, <2>3, CatTyped
  <1> HIDE DEF frame, number, sized
  <1>4. AreParts(<<number>>) /\ AreParts(<<sized>>)
    <2>1. ASSUME NEW part, part.bytes \in Bytes PROVE AreParts(<<part>>)
      <3>1. Len(<<part>>) = 1 /\ <<part>>[1] = part
        OBVIOUS
      <3>2. \A k \in 1 .. 1 : k = 1
        OBVIOUS
      <3> QED BY <2>1, <3>1, <3>2 DEF AreParts, Length
    <2> QED BY <1>2, <1>3, <2>1
  <1>5. frame.type \in 0 .. 15
    BY <1>1
  <1>6. FrameBytes(frame) \in Bytes
    BY <1>1, <1>4, <1>5, FrameTyped
  <1> QED BY <1>6 DEF frame

\* A payload of one frame, and one of the frames of a scenario behind an ACK or not.
LEMMA OneFrameTyped ==
  ASSUME NEW frame, FrameBytes(frame) \in Bytes
  PROVE  PayloadBytes(<<frame>>) \in Bytes
  <1> DEFINE frames == <<frame>>
  <1>1. Length(frames) = 1 /\ frames[1] = frame
    BY DEF Length
  <1> HIDE DEF frames
  <1>2. Length(frames) \in Nat /\ \A k \in 1 .. Length(frames) : FrameBytes(frames[k]) \in Bytes
    <2>1. \A k \in 1 .. 1 : k = 1
      OBVIOUS
    <2> QED BY <1>1, <2>1
  <1>3. PayloadBytes(frames) \in Bytes
    BY <1>2, FramesTyped
  <1> QED BY <1>3 DEF frames

\* A payload of frames, with an ACK in front or without.
LEMMA FramesBehind ==
  ASSUME NEW acks, acks = <<>> \/ \E frame : acks = <<frame>> /\ FrameBytes(frame) \in Bytes,
         NEW T, NEW frames \in Seq(T),
         \A k \in 1 .. Len(frames) : FrameBytes(frames[k]) \in Bytes
  PROVE  PayloadBytes(acks \o frames) \in Bytes
  <1> DEFINE all == acks \o frames
             U == T \cup {acks[1]}
  <1>1. acks \in Seq(U) /\ Len(acks) \in {0, 1} /\ (Len(acks) = 1 => FrameBytes(acks[1]) \in Bytes)
    <2>1. CASE acks = <<>>
      BY <2>1
    <2>2. CASE \E frame : acks = <<frame>> /\ FrameBytes(frame) \in Bytes
      <3>1. PICK frame : acks = <<frame>> /\ FrameBytes(frame) \in Bytes
        BY <2>2
      <3>2. acks[1] = frame /\ Len(acks) = 1
        BY <3>1
      <3>3. frame \in U
        BY <3>2
      <3> HIDE DEF U
      <3>4. acks \in Seq(U)
        BY <3>1, <3>3, Singleton
      <3> QED BY <3>1, <3>2, <3>4
    <2> QED BY <2>1, <2>2
  <1>2. frames \in Seq(U)
    BY WiderSequence
  <1> HIDE DEF U, all
  <1>3. /\ all \in Seq(U) /\ Len(all) = Len(acks) + Len(frames)
        /\ \A k \in 1 .. Len(all) : all[k] = IF k <= Len(acks) THEN acks[k]
                                             ELSE frames[k - Len(acks)]
    BY <1>1, <1>2, ConcatProperties DEF all
  <1>4. Len(frames) \in Nat /\ Length(all) = Len(all)
    BY DEF Length
  <1>5. \A k \in 1 .. Length(all) : FrameBytes(all[k]) \in Bytes
    <2> SUFFICES ASSUME NEW k \in 1 .. Length(all) PROVE FrameBytes(all[k]) \in Bytes
      OBVIOUS
    <2>1. CASE k <= Len(acks)
      <3>1. k \in Int /\ k >= 1 /\ k <= Len(acks)
        BY <1>1, <1>3, <1>4, <2>1
      <3>2. Len(acks) = 0 \/ Len(acks) = 1
        BY <1>1
      <3>3. CASE Len(acks) = 0
        BY <3>1, <3>3
      <3>4. CASE Len(acks) = 1
        <4>1. k = 1
          BY <3>1, <3>4
        <4> QED BY <1>1, <1>3, <1>4, <2>1, <3>4, <4>1
      <3> QED BY <3>2, <3>3, <3>4
    <2>2. CASE ~ (k <= Len(acks))
      <3>1. k - Len(acks) \in 1 .. Len(frames)
        BY <1>1, <1>3, <1>4, <2>2
      <3> QED BY <1>3, <1>4, <2>2, <3>1
    <2> QED BY <2>1, <2>2
  <1>6. Length(all) \in Nat
    BY <1>1, <1>3, <1>4
  <1>7. PayloadBytes(all) \in Bytes
    BY <1>5, <1>6, FramesTyped
  <1> QED BY <1>7 DEF all

\* The bytes of a frame of a scenario are bytes of the link too.
LEMMA GivenFramesTyped ==
  ASSUME NEW given, IsScenario(given), NEW k \in 1 .. Len(given.frames)
  PROVE  FrameBytes(given.frames[k]) \in Bytes
  <1>1. FrameBytes(given.frames[k]) \in BytesOf(FrameByteValues)
    BY DEF IsScenario, BytesOf, Frames!Byte
  <1> QED BY <1>1, BothBases, BytesOfBase

-----------------------------------------------------------------------------
(* What a user gives to a builder, before any check of its length *)

IsPlanned(g) ==
  /\ g.type \in Packets!ProtectedTypes \cup {"Retry", "Short", "VersionNegotiation", "Unknown"}
  /\ g.low \in Nat
  /\ g.version \in Bytes /\ Length(g.version) = 4
  /\ g.dcid \in Bytes /\ Length(g.dcid) <= 20
  /\ g.scid \in Bytes /\ Length(g.scid) <= 20
  /\ g.token \in Bytes /\ Length(g.token) < Link!WordValues
  /\ g.body \in Bytes
  /\ g.widths # <<>> => g.widths[1] \in Packets!Lengths /\ g.widths[2] \in Packets!Lengths
  /\ g.type \notin {"Initial", "Retry"} => g.token = <<>>
  /\ g.type = "Short" => g.scid = <<>>
  /\ g.type = "Unknown" =>
        g.version \notin Packets!Versions \cup {Packets!NEGOTIATION} /\ g.low < 128

\* What may be built and fits a datagram is a packet that comes back.
LEMMA PlannedIsGiven ==
  ASSUME NEW g, IsPlanned(g), Packets!BuildAllowed(g), Length(g.body) < Link!WordValues
  PROVE  IsGivenPacket(g)
  BY DEF IsPlanned, IsGivenPacket

\* Integers that may be too large to be read back are sequences of integers all the same.
LEMMA IntegerSequence ==
  ASSUME NEW base, IsBase(base), NEW value \in Nat, NEW length \in Packets!Lengths
  PROVE  IntegerBytes(base, value, length) \in Seq(Int)
  <1> DEFINE b == Digits(base, value, length)
             low(n) == LowOf(base, n)
             rest(n) == RestOf(base, n)
             first == b[1] + Packets!Prefix(length) * Quarter(base)
  <1>1. \A n \in Nat : low(n) \in Int /\ rest(n) \in Nat
    <2> SUFFICES ASSUME NEW n \in Nat PROVE low(n) \in Int /\ rest(n) \in Nat
      OBVIOUS
    <2>1. LowOf(base, n) \in 0 .. (base - 1) /\ RestOf(base, n) \in Nat
      BY DigitsMakeNumbers
    <2> QED BY <2>1
  <1>2. \A n \in Nat : Pair(base, n) \in Seq(Int) /\ Len(Pair(base, n)) = 2
    <2> SUFFICES ASSUME NEW n \in Nat PROVE Pair(base, n) \in Seq(Int) /\ Len(Pair(base, n)) = 2
      OBVIOUS
    <2>1. low(rest(n)) \in Int /\ low(n) \in Int
      BY <1>1
    <2> HIDE DEF low
    <2> QED BY <2>1 DEF Pair, low
  <1>3. \A n \in Nat : Quad(base, n) \in Seq(Int) /\ Len(Quad(base, n)) = 4
    <2> SUFFICES ASSUME NEW n \in Nat PROVE Quad(base, n) \in Seq(Int) /\ Len(Quad(base, n)) = 4
      OBVIOUS
    <2>1. rest(n) \in Nat /\ rest(rest(n)) \in Nat /\ rest(rest(rest(n))) \in Nat
      <3> HIDE DEF rest
      <3> QED BY <1>1
    <2>2. low(rest(rest(rest(n)))) \in Int /\ low(rest(rest(n))) \in Int /\ low(rest(n)) \in Int
          /\ low(n) \in Int
      <3> HIDE DEF rest, low
      <3> QED BY <1>1, <2>1
    <2>3. Quad(base, n) = <<low(rest(rest(rest(n)))), low(rest(rest(n))), low(rest(n)), low(n)>>
      BY DEF Quad
    <2> HIDE DEF rest, low
    <2> QED BY <2>2, <2>3
  <1>4. b \in Seq(Int) /\ Len(b) = length
    <2>1. CASE length = 1
      <3>1. b = <<low(value)>> /\ low(value) \in Int
        BY <1>1, <2>1 DEF Digits
      <3> HIDE DEF b, low
      <3> QED BY <2>1, <3>1
    <2>2. CASE length = 2
      BY <1>2, <2>2 DEF Digits
    <2>3. CASE length = 4
      BY <1>3, <2>3 DEF Digits
    <2>4. CASE length = 8
      <3> DEFINE upper == Quad(base, rest(rest(rest(rest(value)))))
                 lower == Quad(base, value)
      <3>1. rest(rest(rest(rest(value)))) \in Nat
        <4> HIDE DEF rest
        <4> QED BY <1>1
      <3>2. upper \in Seq(Int) /\ Len(upper) = 4 /\ lower \in Seq(Int) /\ Len(lower) = 4
        <4> HIDE DEF rest
        <4> QED BY <1>3, <3>1
      <3>3. b = upper \o lower
        BY <2>4 DEF Digits
      <3> HIDE DEF upper, lower, b
      <3>4. upper \o lower \in Seq(Int) /\ Len(upper \o lower) = Len(upper) + Len(lower)
        BY <3>2, ConcatProperties
      <3> QED BY <2>4, <3>2, <3>3, <3>4
    <2> QED BY <2>1, <2>2, <2>3, <2>4 DEF Packets!Lengths
  <1>5. IntegerBytes(base, value, length) = [b EXCEPT ![1] = first]
    BY DEF IntegerBytes
  <1>6. Packets!Prefix(length) \in Int /\ Quarter(base) \in Int /\ length \in Nat /\ length > 0
    BY DEF Packets!Prefix, Packets!Lengths, IsBase
  <1> HIDE DEF b
  <1>7. first \in Int
    <2>1. 1 \in 1 .. Len(b)
      BY <1>4, <1>6
    <2>2. b[1] \in Int
      BY <1>4, <2>1, ElementOfSeq
    <2> QED BY <1>6, <2>2
  <1> HIDE DEF first
  <1>8. [b EXCEPT ![1] = first] \in Seq(Int)
    <2>1. 1 \in 1 .. Len(b)
      BY <1>4, <1>6
    <2> QED BY <1>4, <1>7, <2>1, ExceptSeq
  <1> QED BY <1>5, <1>8

LEMMA WrittenSequence ==
  ASSUME NEW value \in Nat, NEW k \in {1, 2}, NEW widths,
         widths # <<>> => widths[1] \in Packets!Lengths /\ widths[2] \in Packets!Lengths
  PROVE  Packets!Written(value, widths, k) \in Seq(Int)
  <1>1. IsBase(ByteValues)
    BY BothBases
  <1>2. CASE widths = <<>>
    <2>1. Packets!Written(value, widths, k)
             = IntegerBytes(ByteValues, value, Shortest(ByteValues, value))
      BY <1>2, PacketIntegers DEF Packets!Written
    <2>2. Shortest(ByteValues, value) \in Packets!Lengths
      BY DEF Shortest, Packets!Lengths
    <2> QED BY <1>1, <2>1, <2>2, IntegerSequence
  <1>3. CASE widths # <<>>
    <2>1. Packets!Written(value, widths, k) = IntegerBytes(ByteValues, value, widths[k])
      BY <1>3, PacketIntegers DEF Packets!Written
    <2>2. widths[k] \in Packets!Lengths
      BY <1>3
    <2> QED BY <1>1, <2>1, <2>2, IntegerSequence
  <1> QED BY <1>2, <1>3

LEMMA CatSequence ==
  ASSUME NEW p \in Seq(Int), NEW q \in Seq(Int)
  PROVE  Cat(p, q) \in Seq(Int) /\ Length(Cat(p, q)) = Length(p) + Length(q)
         /\ Length(p) \in Nat /\ Length(q) \in Nat
  BY ConcatProperties DEF Cat, Length

LEMMA BytesAreIntegers == Bytes \subseteq Seq(Int)
  <1>1. Link!Byte \subseteq Int
    BY Bases
  <1> SUFFICES ASSUME NEW q \in Bytes PROVE q \in Seq(Int)
    OBVIOUS
  <1> QED BY <1>1, WiderSequence DEF Bytes

LEMMA HeaderSequence ==
  ASSUME NEW first \in Int, NEW g, g.version \in Bytes, g.dcid \in Bytes, g.scid \in Bytes
  PROVE  Packets!LongHeaderBytes(first, g) \in Seq(Int)
  <1> DEFINE h1 == Cat(<<first>>, g.version)
             h2 == Cat(h1, <<Length(g.dcid)>>)
             h3 == Cat(h2, g.dcid)
             h4 == Cat(h3, <<Length(g.scid)>>)
             h5 == Cat(h4, g.scid)
  <1>1. Packets!LongHeaderBytes(first, g) = h5
    BY DEF Packets!LongHeaderBytes, Length, Cat
  <1>2. g.version \in Seq(Int) /\ g.dcid \in Seq(Int) /\ g.scid \in Seq(Int)
    BY BytesAreIntegers
  <1>3. \A n \in Int : <<n>> \in Seq(Int)
    OBVIOUS
  <1>4. Length(g.dcid) \in Int /\ Length(g.scid) \in Int
    BY LengthIsNat
  <1>5. <<first>> \in Seq(Int) /\ <<Length(g.dcid)>> \in Seq(Int) /\ <<Length(g.scid)>> \in Seq(Int)
    BY <1>3, <1>4
  <1> HIDE DEF h1, h2, h3, h4, h5
  <1>6. h1 \in Seq(Int)
    BY <1>2, <1>5, CatSequence DEF h1
  <1>7. h2 \in Seq(Int)
    BY <1>5, <1>6, CatSequence DEF h2
  <1>8. h3 \in Seq(Int)
    BY <1>2, <1>7, CatSequence DEF h3
  <1>9. h4 \in Seq(Int)
    BY <1>5, <1>8, CatSequence DEF h4
  <1>10. h5 \in Seq(Int)
    BY <1>2, <1>9, CatSequence DEF h5
  <1> QED BY <1>1, <1>10

\* The body is the end of a packet that is built.
LEMMA BodyInPacket ==
  ASSUME NEW g, IsPlanned(g), Packets!BuildAllowed(g)
  PROVE  /\ Packets!PacketBytes(g) \in Seq(Int)
         /\ Length(Packets!PacketBytes(g)) \in Nat /\ Length(g.body) \in Nat
         /\ Length(g.body) <= Length(Packets!PacketBytes(g))
  <1> DEFINE b == Packets!PacketBytes(g)
  <1> SUFFICES \E front \in Seq(Int) : b = Cat(front, g.body)
    <2>1. g.body \in Seq(Int)
      BY BytesAreIntegers DEF IsPlanned
    <2>2. PICK front \in Seq(Int) : b = Cat(front, g.body)
      OBVIOUS
    <2> HIDE DEF b
    <2>3. /\ b \in Seq(Int) /\ Length(b) = Length(front) + Length(g.body)
          /\ Length(front) \in Nat /\ Length(g.body) \in Nat
      BY <2>1, <2>2, CatSequence
    <2> QED BY <2>3 DEF b
  <1>1. /\ g.version \in Bytes /\ g.dcid \in Bytes /\ g.scid \in Bytes /\ g.token \in Bytes
        /\ g.low \in Int /\ g.body \in Bytes
        /\ g.widths # <<>> => g.widths[1] \in Packets!Lengths /\ g.widths[2] \in Packets!Lengths
    BY DEF IsPlanned
  <1>2. CASE g.type \in Packets!ProtectedTypes
    <2> DEFINE first == 192 + 16 * Packets!RawType(g.version, g.type) + g.low
               header == Packets!LongHeaderBytes(first, g)
               tokenSize == Packets!Written(Len(g.token), g.widths, 1)
               tokenBytes == IF g.type = "Initial" THEN Packets!TokenBytes(g) ELSE <<>>
               size == Packets!Written(Len(g.body), g.widths, 2)
               front == Cat(Cat(header, tokenBytes), size)
    <2>1. b = Cat(front, g.body)
      BY <1>2 DEF Packets!PacketBytes, Packets!ProtectedBytes, Cat
    <2>2. first \in Int
      <3>1. g.version \in Packets!Versions
        BY <1>2 DEF Packets!BuildAllowed
      <3>2. Packets!RawType(g.version, g.type) \in 0 .. 3
        BY <1>2, <3>1, TypesComeBack
      <3> QED BY <1>1, <3>2
    <2> HIDE DEF first
    <2>3. header \in Seq(Int)
      BY <1>1, <2>2, HeaderSequence
    <2>4. tokenSize \in Seq(Int) /\ size \in Seq(Int)
      <3>1. Len(g.token) \in Nat /\ Len(g.body) \in Nat
        BY <1>1, LengthIsNat DEF Length
      <3> QED BY <1>1, <3>1, WrittenSequence
    <2>5. tokenBytes = IF g.type = "Initial" THEN Cat(tokenSize, g.token) ELSE <<>>
      BY DEF Packets!TokenBytes, Cat
    <2>6. g.token \in Seq(Int) /\ <<>> \in Seq(Int)
      BY <1>1, BytesAreIntegers
    <2> HIDE DEF header, tokenSize, tokenBytes, size
    <2>7. tokenBytes \in Seq(Int)
      BY <2>4, <2>5, <2>6, CatSequence
    <2>8. Cat(header, tokenBytes) \in Seq(Int)
      BY <2>3, <2>7, CatSequence
    <2>9. front \in Seq(Int)
      BY <2>4, <2>8, CatSequence
    <2> QED BY <2>1, <2>9
  <1>3. CASE g.type = "Retry"
    <2> DEFINE first == 192 + 16 * Packets!RawType(g.version, "Retry") + g.low
               header == Packets!LongHeaderBytes(first, g)
               front == Cat(header, g.token)
    <2>1. b = Cat(front, g.body)
      BY <1>3 DEF Packets!PacketBytes, Packets!RetryBytes, Packets!ProtectedTypes, Cat
    <2>2. first \in Int
      <3>1. g.version \in Packets!Versions
        BY <1>3 DEF Packets!BuildAllowed
      <3>2. Packets!RawType(g.version, "Retry") \in 0 .. 3
        BY <3>1, TypesComeBack
      <3> QED BY <1>1, <3>2
    <2> HIDE DEF first
    <2>3. header \in Seq(Int)
      BY <1>1, <2>2, HeaderSequence
    <2>4. g.token \in Seq(Int)
      BY <1>1, BytesAreIntegers
    <2> HIDE DEF header
    <2>5. front \in Seq(Int)
      BY <2>3, <2>4, CatSequence
    <2> QED BY <2>1, <2>5
  <1>4. CASE g.type = "Short"
    <2> DEFINE first == 64 + g.low
               front == Cat(<<first>>, g.dcid)
    <2>1. b = Cat(front, g.body)
      BY <1>4 DEF Packets!PacketBytes, Packets!ShortBytes, Packets!ProtectedTypes, Cat
    <2>2. first \in Int /\ g.dcid \in Seq(Int)
      BY <1>1, BytesAreIntegers
    <2> HIDE DEF first
    <2>3. <<first>> \in Seq(Int)
      BY <2>2
    <2>4. front \in Seq(Int)
      BY <2>2, <2>3, CatSequence
    <2> QED BY <2>1, <2>4
  <1>5. CASE g.type \in {"VersionNegotiation", "Unknown"}
    <2> DEFINE first == 128 + g.low
               front == Packets!LongHeaderBytes(first, g)
    <2>1. b = Cat(front, g.body)
      BY <1>5 DEF Packets!PacketBytes, Packets!InvariantBytes, Packets!ProtectedTypes, Cat
    <2>2. first \in Int
      BY <1>1
    <2> HIDE DEF first
    <2>3. front \in Seq(Int)
      BY <1>1, <2>2, HeaderSequence
    <2> QED BY <2>1, <2>3
  <1> QED BY <1>2, <1>3, <1>4, <1>5 DEF IsPlanned

-----------------------------------------------------------------------------
(* The datagram that a user hands down *)

\* The record before its port is chosen.
Unported(e, payload) ==
  LET carrier == scenario.carrier
  IN  [version |-> carrier.version, source |-> carrier.address[e],
       destination |-> carrier.address[Other(e)],
       sourcePort |-> 0, destinationPort |-> 443,
       fragment |-> carrier.fragment, options |-> carrier.options,
       extensions |-> carrier.extensions, checked |-> FALSE,
       payload |-> payload]

BalancedPort(e, payload) ==
  LET d == Unported(e, payload)
      unchecked == Link!UdpBytes(d)
  IN  Link!Complement(Link!OnesSum(
         Cat(Link!PseudoHeader(d.version, d.source, d.destination, Length(unchecked)), unchecked)))

\* What Datagram gives to the builders.
LEMMA DatagramIs ==
  ASSUME NEW e, NEW payload
  PROVE  LET d == Datagram(e, payload)
             port == IF scenario.carrier.balanced THEN BalancedPort(e, payload) ELSE 4433
         IN  /\ d.version = scenario.carrier.version
             /\ d.source = scenario.carrier.address[e]
             /\ d.destination = scenario.carrier.address[Other(e)]
             /\ d.sourcePort = port /\ d.destinationPort = 443
             /\ d.fragment = scenario.carrier.fragment
             /\ d.options = scenario.carrier.options
             /\ d.extensions = scenario.carrier.extensions
             /\ d.checked = scenario.carrier.checked
             /\ d.payload = payload
  BY DEF Datagram, BalancedPort, Unported, Cat, Length

LEMMA PortsTyped == 0 \in Words /\ 443 \in Words /\ 4433 \in Words
  BY LinkBase DEF Words

\* The addresses of the two ends.
LEMMA AddressTyped ==
  ASSUME NEW carrier, IsCarrier(carrier), NEW e \in Endpoints
  PROVE  /\ carrier.version \in {4, 6}
         /\ carrier.address[e] \in Bytes
         /\ Length(carrier.address[e]) = Size(carrier.version)
         /\ carrier.address[Other(e)] \in Bytes
         /\ Length(carrier.address[Other(e)]) = Size(carrier.version)
         /\ carrier.checked \in BOOLEAN
  <1>1. Other(e) \in Endpoints
    BY DEF Other, Endpoints
  <1> QED BY <1>1 DEF IsCarrier, Bytes, Length, Size

\* The port that brings the checksum to zero is a port.
LEMMA BalancedPortTyped ==
  ASSUME IsCarrier(scenario.carrier), NEW e \in Endpoints, NEW payload \in Bytes,
         Link!UdpHeaderLength + Length(payload) < Link!WordValues
  PROVE  BalancedPort(e, payload) \in Words
  <1> DEFINE d == Unported(e, payload)
             u == Link!UdpBytes(d)
             pseudo == Link!PseudoHeader(d.version, d.source, d.destination, Length(u))
  <1>1. /\ d.version = scenario.carrier.version /\ d.source = scenario.carrier.address[e]
        /\ d.destination = scenario.carrier.address[Other(e)] /\ d.sourcePort = 0
        /\ d.destinationPort = 443 /\ d.checked = FALSE /\ d.payload = payload
    BY DEF Unported
  <1> HIDE DEF d
  <1>2. IsGiven(d)
    <2>1. d.version \in {4, 6} /\ d.source \in Bytes /\ d.destination \in Bytes
          /\ Length(d.source) = Size(d.version) /\ Length(d.destination) = Size(d.version)
      BY <1>1, AddressTyped
    <2>2. d.checked \in BOOLEAN
      BY <1>1
    <2>3. d.sourcePort \in Words /\ d.destinationPort \in Words
      BY <1>1, PortsTyped
    <2>4. d.payload \in Bytes /\ Link!UdpHeaderLength + Length(d.payload) < Link!WordValues
      BY <1>1
    <2> QED BY <2>1, <2>2, <2>3, <2>4 DEF IsGiven
  <1>3. u = WithChecksum(d, <<0, 0>>)
    BY <1>1 DEF Link!UdpBytes, WithChecksum, Joined4, Cat, Length
  <1>4. <<0, 0>> \in Bytes /\ Length(<<0, 0>>) = 2
    BY ZeroByte DEF Bytes, Length
  <1> HIDE DEF u
  <1>5. u \in Bytes /\ Length(u) \in Words
    BY <1>2, <1>3, <1>4, HeaderComesBack
  <1>6. pseudo \in Bytes
    BY <1>2, <1>5, PseudoHeaderTyped DEF IsGiven
  <1>7. BalancedPort(e, payload) = Link!Complement(Link!OnesSum(Cat(pseudo, u)))
    BY DEF BalancedPort, d, u
  <1> HIDE DEF pseudo
  <1>8. Cat(pseudo, u) \in Bytes
    BY <1>5, <1>6, CatTyped
  <1>9. Link!OnesSum(Cat(pseudo, u)) \in Words
    BY <1>8, SumIsWord
  <1> QED BY <1>7, <1>9, PlusLimits

LEMMA ChainOfScenario ==
  ASSUME NEW e, IsExtensions(e)
  PROVE  IsChain(e) /\ (e = <<>> <=> Length(e) = 0)
  <1>1. e \in Seq([type : Link!Skipped, bytes : Seq(Link!Byte)])
    BY DEF IsExtensions
  <1>2. Len(e) \in Nat /\ \A k \in 1 .. Len(e) : e[k] \in [type : Link!Skipped, bytes : Seq(Link!Byte)]
    <2> DEFINE R == [type : Link!Skipped, bytes : Seq(Link!Byte)]
    <2> HIDE DEF R
    <2>1. e \in Seq(R)
      BY <1>1 DEF R
    <2>2. Len(e) \in Nat /\ \A k \in 1 .. Len(e) : e[k] \in R
      BY <2>1
    <2> QED BY <2>2 DEF R
  <1>3. e = <<>> <=> Len(e) = 0
    BY <1>1
  <1>4. \A k \in 1 .. Len(e) :
           /\ e[k].bytes \in Bytes /\ e[k].type \in Link!Skipped
           /\ Link!HasExtension(e[k].type, e[k].bytes)
           /\ Len(e[k].bytes) = Link!ExtensionLength(e[k].type, e[k].bytes)
           /\ e[k].bytes[1] = IF k = Len(e) THEN Link!UDP ELSE e[k + 1].type
    BY <1>2 DEF IsExtensions, Bytes
  <1> QED BY <1>2, <1>3, <1>4 DEF IsChain, Length, At

\* What the carrier of a scenario makes of a payload goes through all the layers.
LEMMA DatagramCarried ==
  ASSUME IsCarrier(scenario.carrier), NEW e \in Endpoints, NEW payload \in Bytes,
         NEW d, d = Datagram(e, payload), Link!BuildAllowed(d)
  PROVE  /\ IsCarried(d)
         /\ d.payload = payload
         /\ IsFragment(d) <=> scenario.carrier.fragmented
         /\ Link!UdpHeaderLength + Length(payload) < Link!WordValues
  <1> DEFINE carrier == scenario.carrier
             port == IF carrier.balanced THEN BalancedPort(e, payload) ELSE 4433
  <1>1. /\ d.version = carrier.version /\ d.source = carrier.address[e]
        /\ d.destination = carrier.address[Other(e)]
        /\ d.sourcePort = port /\ d.destinationPort = 443
        /\ d.fragment = carrier.fragment /\ d.options = carrier.options
        /\ d.extensions = carrier.extensions /\ d.checked = carrier.checked
        /\ d.payload = payload
    BY DatagramIs
  <1>2. Link!UdpHeaderLength + Length(payload) < Link!WordValues
    BY <1>1 DEF Link!BuildAllowed, Length
  <1>3. port \in Words
    BY <1>2, BalancedPortTyped, PortsTyped
  <1> HIDE DEF port, carrier
  <1>4. IsCarrier(carrier)
    BY DEF carrier
  <1>5. IsGiven(d)
    <2>1. d.version \in {4, 6} /\ d.source \in Bytes /\ d.destination \in Bytes
          /\ Length(d.source) = Size(d.version) /\ Length(d.destination) = Size(d.version)
          /\ d.checked \in BOOLEAN
      BY <1>1, <1>4, AddressTyped
    <2> QED BY <1>1, <1>2, <1>3, <2>1, PortsTyped DEF IsGiven
  <1>6. CASE carrier.version = 4
    <2>1. /\ carrier.fragment \in 0 .. (Link!WordValues - 1)
          /\ carrier.options \in Seq(Link!Byte)
          /\ carrier.fragmented <=> carrier.fragment % (Link!WordValues \div 4) # 0
      BY <1>4, <1>6 DEF IsCarrier
    <2>2. Len(d.options) <= 40 /\ Len(d.options) % 4 = 0
      BY <1>1, <1>6 DEF Link!BuildAllowed
    <2>3. IsGiven4(d)
      BY <1>1, <1>5, <1>6, <2>1, <2>2 DEF IsGiven4, Words, Bytes, Length
    <2>4. IsCarried(d)
      BY <1>1, <1>5, <1>6, <2>3 DEF IsCarried
    <2>5. IsFragment(d) <=> carrier.fragmented
      BY <1>1, <1>6, <2>1 DEF IsFragment
    <2> QED BY <1>1, <1>2, <2>4, <2>5 DEF carrier
  <1>7. CASE carrier.version = 6
    <2>1. /\ carrier.checked /\ IsExtensions(carrier.extensions)
          /\ carrier.fragmented <=>
                \E k \in 1 .. Len(carrier.extensions) :
                    /\ carrier.extensions[k].type = Link!FRAGMENT
                    /\ Link!IsNonAtomicIpv6(carrier.extensions[k].bytes)
      BY <1>4, <1>7 DEF IsCarrier
    <2>2. IsChain(d.extensions) /\ (d.extensions = <<>> <=> Length(d.extensions) = 0)
      BY <1>1, <2>1, ChainOfScenario
    <2>3. IsCarried(d)
      BY <1>1, <1>5, <1>7, <2>1, <2>2 DEF IsCarried, IsGiven6
    <2>4. IsFragment(d) <=> carrier.fragmented
      BY <1>1, <1>7, <2>1 DEF IsFragment, FragmentsFrom, FragmentsAt, Length
    <2> QED BY <1>1, <1>2, <2>3, <2>4 DEF carrier
  <1> QED BY <1>4, <1>6, <1>7 DEF IsCarrier

-----------------------------------------------------------------------------
(* The inductive invariant *)

\* The bytes of the number of a packet, as it was sealed.
SentNumber(p) ==
  IF p.given.type \in {"Initial", "Handshake"} THEN <<p.number>> ELSE <<0, p.number>>

\* The connection ID that an endpoint names in its Initials.
InitialCid(e) == IF e = "Client" THEN ClientCid ELSE ServerCid

IsBareSent(e, p) ==
  /\ p.space = "None"
  /\ p.given.type \in {"Unknown", "VersionNegotiation", "Retry"}
  /\ p.given.type = "Retry" =>
        e = "Server" /\ p.given.scid = RetryCid /\ p.given.token = RetryToken

\* The first frame acknowledges the packets that are remembered for it.
IsAckSent(p) ==
  p.acked # {} =>
     /\ p.acked \in SUBSET PacketNumbers
     /\ \E type \in {2, 3} : \E more \in Bytes :
           PayloadBytes(p.frames) = Cat(FrameBytes(AckFrame(p.acked, type)), more)

IsProtectedSent(e, p) ==
  /\ p.given.type \in Packets!ProtectedTypes \cup {"Short"}
  /\ p.space = Space(p.given.type)
  /\ p.number \in PacketNumbers
  /\ PayloadBytes(p.frames) \in Bytes
  /\ IsSealed(p.given, SentNumber(p), PayloadBytes(p.frames))
  /\ p.given.type = "Initial" => p.given.scid = InitialCid(e)
  /\ p.given.type = "Short" => Length(p.given.dcid) = 1
  /\ IsAckSent(p)

IsPacketSent(e, p) == IsGivenPacket(p.given) /\ (IsBareSent(e, p) \/ IsProtectedSent(e, p))

\* One packet, one and zeros, or two.
IsContents(s) ==
  \/ \E p : /\ s.packets = <<p>> /\ s.zeros = 0
            /\ s.datagram.payload = Packets!PacketBytes(p.given)
  \/ \E p : /\ s.packets = <<p>> /\ s.zeros = 5
            /\ p.given.type \in Packets!ProtectedTypes
            /\ s.datagram.payload = Cat(Packets!PacketBytes(p.given), Link!Zeros(5))
  \/ \E p, q : /\ s.packets = <<p, q>> /\ s.zeros = 0
               /\ p.given.type \in Packets!ProtectedTypes
               /\ q.given.type \in Packets!ProtectedTypes
               /\ s.datagram.payload = Cat(Packets!PacketBytes(p.given),
                                           Packets!PacketBytes(q.given))

IsDatagramSent(s) ==
  /\ s.by \in Endpoints
  /\ IsContents(s)
  /\ \A k \in DOMAIN s.packets : IsPacketSent(s.by, s.packets[k])
  /\ IsCarried(s.datagram)
  /\ Link!BuildAllowed(s.datagram)
  /\ s.frame = Link!OnTheLink(s.datagram)
  /\ IsFragment(s.datagram) <=> scenario.carrier.fragmented

\* What an endpoint may have read: the protected packets of the other one.
Readable(e) ==
  {[space |-> p.space, number |-> p.number,
    frames |-> Frames!FramesIn(PayloadBytes(p.frames))] :
      p \in {p \in PacketsSent(Other(e)) : p.space # "None"}}

\* The space of the packet that carries the other's transport parameters.
ParameterSpace(e) == IF e = "Client" THEN "Handshake" ELSE "Initial"

Known(e) ==
  {now \in [peer : {<<>>, <<InitialCid(Other(e))>>},
            retry : IF e = "Client" THEN {<<>>, <<[scid |-> RetryCid, token |-> RetryToken]>>}
                    ELSE {<<>>},
            seen : {"Nothing", "Unknown", "Tokenless"},
            read : SUBSET Readable(e),
            verdict : {"None", "Accepted", "Refused"},
            closed : BOOLEAN] :
     now.verdict # "None" =>
        /\ now.peer # <<>>
        /\ \E r \in now.read : r.space = ParameterSpace(e)}

Spaces == {"Initial", "Handshake", "Application"}
Prefixes == {{}, {0}, {0, 1}, {0, 1, 4}}

NumbersInOrder == \A e \in Endpoints : \A space \in Spaces : NumbersSent(e, space) \in Prefixes

\* No two packets of an endpoint share a space and a number.
NumbersAreUnique ==
  \A e \in Endpoints : \A p, q \in PacketsSent(e) :
     (p.space # "None" /\ p.space = q.space /\ p.number = q.number) => p = q

AcksOfSent ==
  \A e \in Endpoints : \A p \in PacketsSent(e) : p.acked \subseteq NumbersSent(Other(e), p.space)

\* Early packets go behind Initials, and the server's Initials before its Handshake packets.
SpacesInStep ==
  /\ local["Client"].verdict = "None" =>
        NumbersSent("Client", "Application") \subseteq NumbersSent("Client", "Initial")
  /\ HasSent("Server", "Initial") => HasSent("Server", "Handshake")
  /\ HasSent("Server", "Handshake") => local["Server"].verdict # "None"

ClientBegins ==
  /\ sent = <<>> => local["Server"].seen = "Nothing"
  /\ sent # <<>> => sent[1].by = "Client"

PathInvariant ==
  /\ IsScenario(scenario)
  /\ \E S : sent \in Seq(S)
  /\ \A i \in DOMAIN sent : IsDatagramSent(sent[i])
  /\ DOMAIN local = Endpoints
  /\ \A e \in Endpoints : local[e] \in Known(e)
  /\ NumbersInOrder
  /\ NumbersAreUnique
  /\ AcksOfSent
  /\ SpacesInStep
  /\ ClientBegins

-----------------------------------------------------------------------------
(* The numbers of packets *)

NextOf(P) == NUMBERS[Cardinality(P) + 1]

\* The prefixes of the numbers, with their sizes and the number that comes next.
LEMMA PrefixSizes ==
  /\ Cardinality({}) = 0 /\ Cardinality({0}) = 1
  /\ Cardinality({0, 1}) = 2 /\ Cardinality({0, 1, 4}) = 3
  <1>1. Cardinality({}) = 0 /\ IsFiniteSet({})
    BY FS_EmptySet
  <1>2. Cardinality({0}) = 1 /\ IsFiniteSet({0})
    BY FS_Singleton
  <1>3. Cardinality({0} \cup {1}) = 2 /\ IsFiniteSet({0} \cup {1})
    <2>1. 1 \notin {0}
      OBVIOUS
    <2> QED BY <1>2, <2>1, FS_AddElement
  <1>4. {0} \cup {1} = {0, 1}
    OBVIOUS
  <1>5. Cardinality({0, 1} \cup {4}) = 3
    <2>1. 4 \notin {0, 1}
      OBVIOUS
    <2>2. Cardinality({0, 1}) = 2 /\ IsFiniteSet({0, 1})
      BY <1>3, <1>4
    <2> QED BY <2>1, <2>2, FS_AddElement
  <1>6. {0, 1} \cup {4} = {0, 1, 4}
    OBVIOUS
  <1>7. Cardinality({0, 1}) = 2 /\ Cardinality({0, 1, 4}) = 3
    BY <1>3, <1>4, <1>5, <1>6
  <1> QED BY <1>1, <1>2, <1>7

\* Numbers are used in their order: what is used is a prefix.
LEMMA NextOfPrefix ==
  /\ \A P \in Prefixes : Cardinality(P) < 3 => P \in {{}, {0}, {0, 1}}
  /\ \A P \in Prefixes : Cardinality(P) \in 0 .. 3 /\ P \subseteq PacketNumbers
  /\ NextOf({}) = 0 /\ NextOf({0}) = 1 /\ NextOf({0, 1}) = 4
  <1>1. ASSUME NEW P \in Prefixes
        PROVE  /\ Cardinality(P) < 3 => P \in {{}, {0}, {0, 1}}
               /\ Cardinality(P) \in 0 .. 3 /\ P \subseteq PacketNumbers
    <2>1. CASE P = {}
      BY <2>1, PrefixSizes
    <2>2. CASE P = {0}
      BY <2>2, PrefixSizes DEF PacketNumbers
    <2>3. CASE P = {0, 1}
      BY <2>3, PrefixSizes DEF PacketNumbers
    <2>4. CASE P = {0, 1, 4}
      BY <2>4, PrefixSizes DEF PacketNumbers
    <2> QED BY <2>1, <2>2, <2>3, <2>4 DEF Prefixes
  <1>2. NUMBERS[1] = 0 /\ NUMBERS[2] = 1 /\ NUMBERS[3] = 4
    BY DEF NUMBERS
  <1>3. NextOf({}) = 0 /\ NextOf({0}) = 1 /\ NextOf({0, 1}) = 4
    <2>1. 0 + 1 = 1 /\ 1 + 1 = 2 /\ 2 + 1 = 3
      OBVIOUS
    <2> QED BY <1>2, <2>1, PrefixSizes DEF NextOf
  <1> QED BY <1>1, <1>3

LEMMA NextIsNew ==
  ASSUME NEW P \in Prefixes, Cardinality(P) < 3
  PROVE  /\ NextOf(P) \in PacketNumbers /\ NextOf(P) \notin P
         /\ P \cup {NextOf(P)} \in Prefixes
  <1>1. P = {} \/ P = {0} \/ P = {0, 1}
    BY NextOfPrefix
  <1>2. CASE P = {}
    <2>1. P \cup {0} = {0}
      BY <1>2
    <2> QED BY <1>2, <2>1, NextOfPrefix DEF Prefixes, PacketNumbers
  <1>3. CASE P = {0}
    <2>1. P \cup {1} = {0, 1}
      BY <1>3
    <2> QED BY <1>3, <2>1, NextOfPrefix DEF Prefixes, PacketNumbers
  <1>4. CASE P = {0, 1}
    <2>1. P \cup {4} = {0, 1, 4}
      BY <1>4
    <2> QED BY <1>4, <2>1, NextOfPrefix DEF Prefixes, PacketNumbers
  <1> QED BY <1>1, <1>2, <1>3, <1>4

\* Who has used fewer stays behind or catches up.
LEMMA NextInStep ==
  ASSUME NEW P \in Prefixes, Cardinality(P) < 3, NEW Q \in Prefixes, Q \subseteq P
  PROVE  Cardinality(Q) < 3 /\ Q \cup {NextOf(Q)} \subseteq P \cup {NextOf(P)}
  <1>1. P = {} \/ P = {0} \/ P = {0, 1}
    BY NextOfPrefix
  <1>2. Q = {} \/ Q = {0} \/ Q = {0, 1}
    <2>1. 4 \notin P
      BY <1>1
    <2> QED BY <2>1 DEF Prefixes
  <1>3. Cardinality(Q) < 3
    BY <1>2, PrefixSizes
  <1>4. 1 \in P => 0 \in P
    BY <1>1
  <1>5. CASE P = {}
    <2>1. Q = {}
      BY <1>5
    <2> QED BY <1>3, <1>5, <2>1
  <1>6. CASE P = {0}
    <2>1. 1 \notin Q
      BY <1>6
    <2>2. Q = {} \/ Q = {0}
      BY <1>2, <2>1
    <2>3. CASE Q = {}
      <3>1. NextOf(Q) = 0 /\ 0 \in P
        BY <1>6, <2>3, NextOfPrefix
      <3> QED BY <1>3, <2>3, <3>1
    <2>4. CASE Q = {0}
      <3>1. Q = P
        BY <1>6, <2>4
      <3> QED BY <1>3, <3>1
    <2> QED BY <2>2, <2>3, <2>4
  <1>7. CASE P = {0, 1}
    <2>1. 0 \in P /\ 1 \in P
      BY <1>7
    <2>2. CASE Q = {} \/ Q = {0}
      <3>1. NextOf(Q) = 0 \/ NextOf(Q) = 1
        BY <2>2, NextOfPrefix
      <3> QED BY <1>3, <2>1, <3>1
    <2>3. CASE Q = {0, 1}
      <3>1. Q = P
        BY <1>7, <2>3
      <3> QED BY <1>3, <3>1
    <2> QED BY <1>2, <2>2, <2>3
  <1> QED BY <1>1, <1>3, <1>5, <1>6, <1>7

-----------------------------------------------------------------------------
(* What has been sent, after one more datagram *)

LEMMA PacketsAre ==
  ASSUME NEW e, NEW p
  PROVE  p \in PacketsSent(e) <=>
           \E i \in DOMAIN sent : /\ sent[i].by = e
                                  /\ \E k \in DOMAIN sent[i].packets : p = sent[i].packets[k]
  BY DEF PacketsSent

\* The packets of a datagram.
PacketsOf(s) == {s.packets[k] : k \in DOMAIN s.packets}

\* What one more datagram adds to the packets that were sent,
LEMMA PacketsAfter ==
  ASSUME NEW S, sent \in Seq(S), NEW s, sent' = Append(sent, s), NEW e
  PROVE  /\ PacketsSent(e)' = PacketsSent(e) \cup (IF s.by = e THEN PacketsOf(s) ELSE {})
         /\ \A i \in DOMAIN sent' : (i \in DOMAIN sent /\ sent'[i] = sent[i]) \/ sent'[i] = s
         /\ \E T : sent' \in Seq(T)
         /\ sent = <<>> => sent'[1] = s
         /\ sent # <<>> => sent'[1] = sent[1]
         /\ sent' # <<>>
  <1> DEFINE T == S \cup {s}
             N == Len(sent)
  <1>1. sent \in Seq(T) /\ s \in T
    BY WiderSequence
  <1> HIDE DEF T
  <1>2. /\ sent' \in Seq(T) /\ N \in Nat /\ Len(sent') = N + 1
        /\ \A i \in 1 .. N : sent'[i] = sent[i]
        /\ sent'[N + 1] = s /\ DOMAIN sent = 1 .. N /\ DOMAIN sent' = 1 .. (N + 1)
    BY <1>1
  <1> HIDE DEF N
  <1>3. \A i \in DOMAIN sent' : (i \in DOMAIN sent /\ sent'[i] = sent[i]) \/ sent'[i] = s
    <2>1. \A i \in 1 .. (N + 1) : i \in 1 .. N \/ i = N + 1
      BY <1>2
    <2> QED BY <1>2, <2>1
  <1>4. \A i \in DOMAIN sent : i \in DOMAIN sent' /\ sent'[i] = sent[i]
    <2>1. \A i \in 1 .. N : i \in 1 .. (N + 1)
      BY <1>2
    <2> QED BY <1>2, <2>1
  <1>5. N + 1 \in DOMAIN sent' /\ sent'[N + 1] = s
    BY <1>2
  <1>6. PacketsSent(e)' = {p \in UNION {{sent'[i].packets[k] : k \in DOMAIN sent'[i].packets} :
                                           i \in {i \in DOMAIN sent' : sent'[i].by = e}} : TRUE}
    BY DEF PacketsSent
  <1>7. PacketsSent(e)' = PacketsSent(e) \cup (IF s.by = e THEN PacketsOf(s) ELSE {})
    <2>1. ASSUME NEW p
          PROVE  p \in PacketsSent(e)' <=>
                   \E i \in DOMAIN sent' : /\ sent'[i].by = e
                                           /\ \E k \in DOMAIN sent'[i].packets :
                                                 p = sent'[i].packets[k]
      BY <1>6
    <2>2. ASSUME NEW p, p \in PacketsSent(e)'
          PROVE  p \in PacketsSent(e) \cup (IF s.by = e THEN PacketsOf(s) ELSE {})
      <3>1. PICK i \in DOMAIN sent' : /\ sent'[i].by = e
                                      /\ \E k \in DOMAIN sent'[i].packets :
                                            p = sent'[i].packets[k]
        BY <2>1, <2>2
      <3>2. CASE i \in DOMAIN sent /\ sent'[i] = sent[i]
        BY <3>1, <3>2, PacketsAre
      <3>3. CASE sent'[i] = s
        BY <3>1, <3>3 DEF PacketsOf
      <3> QED BY <1>3, <3>2, <3>3
    <2>3. ASSUME NEW p, p \in PacketsSent(e) PROVE p \in PacketsSent(e)'
      <3>1. PICK i \in DOMAIN sent : /\ sent[i].by = e
                                     /\ \E k \in DOMAIN sent[i].packets : p = sent[i].packets[k]
        BY <2>3, PacketsAre
      <3> QED BY <1>4, <2>1, <3>1
    <2>4. ASSUME NEW p, s.by = e, p \in PacketsOf(s) PROVE p \in PacketsSent(e)'
      BY <1>5, <2>1, <2>4 DEF PacketsOf
    <2> QED BY <2>2, <2>3, <2>4
  <1>8. sent = <<>> => sent'[1] = s
    <2> SUFFICES ASSUME sent = <<>> PROVE sent'[1] = s
      OBVIOUS
    <2>1. N = 0
      BY DEF N
    <2> QED BY <1>5, <2>1
  <1>9. sent # <<>> => sent'[1] = sent[1]
    <2> SUFFICES ASSUME sent # <<>> PROVE sent'[1] = sent[1]
      OBVIOUS
    <2>1. N # 0
      BY <1>1 DEF N
    <2>2. 1 \in 1 .. N
      BY <1>2, <2>1
    <2> QED BY <1>2, <2>2
  <1>10. sent' # <<>>
    BY <1>2
  <1> QED BY <1>2, <1>3, <1>7, <1>8, <1>9, <1>10

\* and to their numbers.
LEMMA NumbersAfter ==
  ASSUME NEW e, NEW more, PacketsSent(e)' = PacketsSent(e) \cup more, NEW space
  PROVE  NumbersSent(e, space)'
            = NumbersSent(e, space) \cup {p.number : p \in {p \in more : p.space = space}}
  BY DEF NumbersSent

-----------------------------------------------------------------------------
(* What an endpoint knows after a packet *)

\* Every packet on the link is one that its sender could build.
PacketsAreSent == \A e \in Endpoints : \A p \in PacketsSent(e) : IsPacketSent(e, p)

LEMMA AllPacketsSent ==
  ASSUME \A i \in DOMAIN sent : IsDatagramSent(sent[i])
  PROVE  PacketsAreSent
  <1> SUFFICES ASSUME NEW e \in Endpoints, NEW p \in PacketsSent(e) PROVE IsPacketSent(e, p)
    BY DEF PacketsAreSent
  <1>1. PICK i \in DOMAIN sent : /\ sent[i].by = e
                                 /\ \E k \in DOMAIN sent[i].packets : p = sent[i].packets[k]
    BY PacketsAre
  <1> QED BY <1>1 DEF IsDatagramSent

\* A packet number is read from the bytes it is written in.
LEMMA NumberOfSent ==
  ASSUME NEW p, p.number \in PacketNumbers
  PROVE  SentNumber(p) \in NumberBytes /\ Packets!NumberIn(SentNumber(p)) = p.number
  <1>1. p.number = 0 \/ p.number = 1 \/ p.number = 4
    BY DEF PacketNumbers
  <1>2. SentNumber(p) = <<p.number>> \/ SentNumber(p) = <<0, p.number>>
    BY DEF SentNumber
  <1>3. SentNumber(p) \in NumberBytes
    BY <1>1, <1>2 DEF NumberBytes
  <1>4. p.number \in {0, 1, 4}
    BY <1>1
  <1>5. Packets!NumberIn(<<p.number>>) = p.number /\ Packets!NumberIn(<<0, p.number>>) = p.number
    BY <1>4, NumberRead
  <1> QED BY <1>2, <1>3, <1>5

\* A packet that opens is one the peer has sealed, with its number and its frames.
IsOpened(e, packet, p) ==
  /\ p \in PacketsSent(Other(e))
  /\ IsProtectedSent(Other(e), p)
  /\ Seen(packet) = Seen(p.given)
  /\ p.space = Space(packet.type)
  /\ Packets!NumberIn(UnprotectedNumber(packet)) = p.number
  /\ Payload(packet) = PayloadBytes(p.frames)

\* A packet that opens is one that the other endpoint sent,
LEMMA OpenedIs ==
  ASSUME PacketsAreSent, NEW e \in Endpoints, NEW packet, Opens(e, packet),
         packet.type \in Packets!ProtectedTypes \cup {"Short"}
  PROVE  \E p : IsOpened(e, packet, p)
  <1>1. PICK p \in PacketsSent(Other(e)) :
           /\ Seen(packet) = Seen(p.given)
           /\ packet.first = Packets!PacketBytes(p.given)[1]
    BY DEF Opens
  <1>2. IsPacketSent(Other(e), p)
    BY DEF PacketsAreSent, Other, Endpoints
  <1>3. packet.type = p.given.type /\ packet.body = p.given.body
    BY <1>1 DEF Seen
  <1>4. IsProtectedSent(Other(e), p) /\ IsGivenPacket(p.given)
    BY <1>2, <1>3 DEF IsPacketSent, IsBareSent, Packets!ProtectedTypes
  <1>5. /\ p.number \in PacketNumbers /\ PayloadBytes(p.frames) \in Bytes
        /\ IsSealed(p.given, SentNumber(p), PayloadBytes(p.frames))
        /\ p.space = Space(p.given.type)
    BY <1>4 DEF IsProtectedSent
  <1>6. SentNumber(p) \in NumberBytes /\ Packets!NumberIn(SentNumber(p)) = p.number
    BY <1>5, NumberOfSent
  <1> DEFINE payload == PayloadBytes(p.frames)
             number == SentNumber(p)
             g == p.given
  <1>7. /\ IsGivenPacket(g) /\ g.type \in Packets!ProtectedTypes \cup {"Short"}
        /\ number \in NumberBytes /\ payload \in Bytes /\ IsSealed(g, number, payload)
        /\ packet.type = g.type /\ packet.body = g.body
        /\ packet.first = Packets!PacketBytes(g)[1]
    BY <1>1, <1>3, <1>4, <1>5, <1>6
  <1> HIDE DEF payload, number, g
  <1>8. UnprotectedNumber(packet) = number /\ Payload(packet) = payload
    BY <1>7, SealedComesBack
  <1> QED BY <1>1, <1>3, <1>4, <1>5, <1>6, <1>8 DEF IsOpened, payload, number

\* and is entered with its number and its frames.
LEMMA OpenedIsReadable ==
  ASSUME NEW e, NEW packet, NEW p, IsOpened(e, packet, p)
  PROVE  [space |-> Space(packet.type), number |-> Packets!NumberIn(UnprotectedNumber(packet)),
          frames |-> Frames!FramesIn(Payload(packet))] \in Readable(e)
  <1>1. p.space # "None"
    BY DEF IsOpened, IsProtectedSent, Space, Packets!ProtectedTypes
  <1> QED BY <1>1 DEF IsOpened, Readable

\* The parts of what an endpoint knows.
KnownPeer(e) == {<<>>, <<InitialCid(Other(e))>>}

KnownRetry(e) ==
  IF e = "Client" THEN {<<>>, <<[scid |-> RetryCid, token |-> RetryToken]>>} ELSE {<<>>}

HasParts(now) ==
  now = [peer |-> now.peer, retry |-> now.retry, seen |-> now.seen, read |-> now.read,
         verdict |-> now.verdict, closed |-> now.closed]

IsKnown(e, now) ==
  /\ HasParts(now)
  /\ now.peer \in KnownPeer(e)
  /\ now.retry \in KnownRetry(e)
  /\ now.seen \in {"Nothing", "Unknown", "Tokenless"}
  /\ now.read \in SUBSET Readable(e)
  /\ now.verdict \in {"None", "Accepted", "Refused"}
  /\ now.closed \in BOOLEAN
  /\ now.verdict # "None" => /\ now.peer # <<>>
                             /\ \E r \in now.read : r.space = ParameterSpace(e)

\* What an endpoint knows, field by field.
LEMMA KnownIs ==
  ASSUME NEW e, NEW now
  PROVE  now \in Known(e) <=> IsKnown(e, now)
  <1> DEFINE P == KnownPeer(e)
             R == KnownRetry(e)
             S == {"Nothing", "Unknown", "Tokenless"}
             D == SUBSET Readable(e)
             V == {"None", "Accepted", "Refused"}
             K == [peer : P, retry : R, seen : S, read : D, verdict : V, closed : BOOLEAN]
             Q(x) == x.verdict # "None" => /\ x.peer # <<>>
                                           /\ \E r \in x.read : r.space = ParameterSpace(e)
  <1>1. Known(e) = {x \in K : Q(x)}
    BY DEF Known, KnownPeer, KnownRetry
  <1>2. IsKnown(e, now) <=>
          /\ HasParts(now)
          /\ now.peer \in P /\ now.retry \in R /\ now.seen \in S /\ now.read \in D
          /\ now.verdict \in V /\ now.closed \in BOOLEAN
          /\ Q(now)
    BY DEF IsKnown
  <1> HIDE DEF P, R, S, D, V, Q
  <1>3. now \in K <=>
          /\ HasParts(now)
          /\ now.peer \in P /\ now.retry \in R /\ now.seen \in S /\ now.read \in D
          /\ now.verdict \in V /\ now.closed \in BOOLEAN
    BY DEF HasParts
  <1> QED BY <1>1, <1>2, <1>3

\* The fields of what an endpoint knows.
IsOf(x, P, R, S, D, V, C) ==
  /\ HasParts(x)
  /\ x.peer = P /\ x.retry = R /\ x.seen = S /\ x.read = D /\ x.verdict = V /\ x.closed = C

LEMMA PartsAre ==
  ASSUME NEW P, NEW R, NEW S, NEW D, NEW V, NEW C
  PROVE  IsOf([peer |-> P, retry |-> R, seen |-> S, read |-> D, verdict |-> V, closed |-> C],
              P, R, S, D, V, C)
  <1> DEFINE x == [peer |-> P, retry |-> R, seen |-> S, read |-> D, verdict |-> V, closed |-> C]
  <1>1. x.peer = P
    BY Zenon
  <1>2. x.retry = R
    BY Zenon
  <1>3. x.seen = S
    BY Zenon
  <1>4. x.read = D
    BY Zenon
  <1>5. x.verdict = V
    BY Zenon
  <1>6. x.closed = C
    BY Zenon
  <1>7. HasParts(x)
    BY <1>1, <1>2, <1>3, <1>4, <1>5, <1>6, Zenon DEF HasParts
  <1> HIDE DEF x
  <1>8. IsOf(x, P, R, S, D, V, C)
    BY <1>1, <1>2, <1>3, <1>4, <1>5, <1>6, <1>7 DEF IsOf
  <1> QED BY <1>8 DEF x

LEMMA Relearned ==
  ASSUME NEW now, HasParts(now), NEW p, NEW d, NEW c
  PROVE  IsOf([now EXCEPT !.peer = p, !.read = d, !.closed = c],
              p, now.retry, now.seen, d, now.verdict, c)
  <1> DEFINE P == now.peer
             R == now.retry
             S == now.seen
             D == now.read
             V == now.verdict
             C == now.closed
  <1>1. now = [peer |-> P, retry |-> R, seen |-> S, read |-> D, verdict |-> V, closed |-> C]
    BY DEF HasParts
  <1> HIDE DEF P, R, S, D, V, C
  <1>2. [now EXCEPT !.peer = p, !.read = d, !.closed = c]
           = [peer |-> p, retry |-> R, seen |-> S, read |-> d, verdict |-> V, closed |-> c]
    <2>1. ASSUME NEW x, x = [now EXCEPT !.peer = p, !.read = d, !.closed = c]
          PROVE  x = [peer |-> p, retry |-> R, seen |-> S, read |-> d, verdict |-> V, closed |-> c]
      BY <1>1, <2>1
    <2> QED BY <2>1, Zenon
  <1>3. IsOf([peer |-> p, retry |-> R, seen |-> S, read |-> d, verdict |-> V, closed |-> c],
             p, R, S, d, V, c)
    BY PartsAre
  <1> QED BY <1>2, <1>3 DEF P, R, S, D, V, C

LEMMA Judged ==
  ASSUME NEW now, HasParts(now), NEW v, NEW c
  PROVE  IsOf([now EXCEPT !.verdict = v, !.closed = c],
              now.peer, now.retry, now.seen, now.read, v, c)
  <1> DEFINE P == now.peer
             R == now.retry
             S == now.seen
             D == now.read
             V == now.verdict
             C == now.closed
  <1>1. now = [peer |-> P, retry |-> R, seen |-> S, read |-> D, verdict |-> V, closed |-> C]
    BY DEF HasParts
  <1> HIDE DEF P, R, S, D, V, C
  <1>2. [now EXCEPT !.verdict = v, !.closed = c]
           = [peer |-> P, retry |-> R, seen |-> S, read |-> D, verdict |-> v, closed |-> c]
    <2>1. ASSUME NEW x, x = [now EXCEPT !.verdict = v, !.closed = c]
          PROVE  x = [peer |-> P, retry |-> R, seen |-> S, read |-> D, verdict |-> v, closed |-> c]
      BY <1>1, <2>1
    <2> QED BY <2>1, Zenon
  <1>3. IsOf([peer |-> P, retry |-> R, seen |-> S, read |-> D, verdict |-> v, closed |-> c],
             P, R, S, D, v, c)
    BY PartsAre
  <1> QED BY <1>2, <1>3 DEF P, R, S, D, V, C

\* A verdict is only ever taken once, on the packet that carries the parameters.
LEMMA VerdictIs ==
  ASSUME NEW e \in Endpoints, NEW now, NEW type, NEW frames, NEW v,
         v = Verdict(e, now, type, frames)
  PROVE  \/ v = now.verdict
         \/ v \in {"Accepted", "Refused"} /\ now.verdict = "None" /\ type = ParameterSpace(e)
  BY DEF Verdict, CarriesParameters, ParameterSpace

\* Nothing that an endpoint has found out is forgotten.
Since(old, now) == old.verdict # "None" => now.verdict # "None"

\* Taking the frames of a packet keeps what is known in its bounds.
LEMMA AfterFramesKnown ==
  ASSUME NEW e \in Endpoints, NEW now, IsKnown(e, now), NEW packet, NEW number, NEW frames,
         [space |-> Space(packet.type), number |-> number, frames |-> frames] \in Readable(e),
         now.peer = <<>> => packet.scid = InitialCid(Other(e))
  PROVE  /\ IsKnown(e, AfterFrames(e, now, packet, number, frames))
         /\ Since(now, AfterFrames(e, now, packet, number, frames))
  <1> DEFINE entry == [space |-> Space(packet.type), number |-> number, frames |-> frames]
             peer == IF now.peer = <<>> THEN <<packet.scid>> ELSE now.peer
             read == now.read \cup {entry}
             refused == (frames = <<>>)
             learned == [now EXCEPT !.peer = peer, !.read = read, !.closed = refused]
             verdict == Verdict(e, learned, packet.type, frames)
             closed == refused \/ verdict = "Refused"
             after == [learned EXCEPT !.verdict = verdict, !.closed = closed]
  <1>1. HasParts(now) /\ now.verdict \in {"None", "Accepted", "Refused"}
    BY DEF IsKnown
  <1> HIDE DEF peer, read, refused
  <1>2. /\ HasParts(learned) /\ learned.peer = peer /\ learned.retry = now.retry
        /\ learned.seen = now.seen /\ learned.read = read /\ learned.verdict = now.verdict
        /\ learned.closed = refused
    <2>1. IsOf(learned, peer, now.retry, now.seen, read, now.verdict, refused)
      BY <1>1, Relearned
    <2> HIDE DEF learned
    <2> QED BY <2>1 DEF IsOf
  <1>3. AfterFrames(e, now, packet, number, frames)
           = IF \E r \in now.read : r.space = entry.space /\ r.number = number THEN now
             ELSE [learned EXCEPT !.verdict = verdict, !.closed = @ \/ verdict = "Refused"]
    BY DEF AfterFrames, peer, read, refused
  <1> HIDE DEF learned
  <1>4. \/ verdict = now.verdict
        \/ verdict \in {"Accepted", "Refused"} /\ now.verdict = "None"
              /\ packet.type = ParameterSpace(e)
    <2>1. learned.verdict = now.verdict
      BY <1>2
    <2> QED BY <2>1, VerdictIs
  <1> HIDE DEF verdict
  <1>5. [learned EXCEPT !.verdict = verdict, !.closed = @ \/ verdict = "Refused"] = after
    BY <1>2
  <1>6. peer \in KnownPeer(e) /\ peer # <<>>
    BY DEF IsKnown, peer, KnownPeer
  <1>7. read \in SUBSET Readable(e)
    BY DEF IsKnown, read
  <1>8. verdict \in {"None", "Accepted", "Refused"}
    BY <1>1, <1>4
  <1>9. closed \in BOOLEAN
    OBVIOUS
  <1>10. verdict # "None" => \E r \in read : r.space = ParameterSpace(e)
    <2>1. CASE verdict = now.verdict
      BY <2>1 DEF IsKnown, read
    <2>2. CASE packet.type = ParameterSpace(e)
      <3>1. entry.space = ParameterSpace(e)
        BY <2>2 DEF Space, ParameterSpace
      <3>2. entry \in read
        BY DEF read
      <3> QED BY <3>1, <3>2
    <2> QED BY <1>4, <2>1, <2>2
  <1> HIDE DEF closed
  <1>11. /\ HasParts(after) /\ after.peer = peer /\ after.retry = now.retry
         /\ after.seen = now.seen /\ after.read = read /\ after.verdict = verdict
         /\ after.closed = closed
    <2>1. IsOf(after, learned.peer, learned.retry, learned.seen, learned.read, verdict, closed)
      BY <1>2, Judged
    <2> HIDE DEF after
    <2> QED BY <1>2, <2>1 DEF IsOf
  <1> HIDE DEF after
  <1>12. IsKnown(e, after)
    <2>1. now.retry \in KnownRetry(e) /\ now.seen \in {"Nothing", "Unknown", "Tokenless"}
      BY DEF IsKnown
    <2> QED BY <1>6, <1>7, <1>8, <1>9, <1>10, <1>11, <2>1 DEF IsKnown
  <1>13. Since(now, after) /\ Since(now, now)
    BY <1>4, <1>11 DEF Since
  <1>14. AfterFrames(e, now, packet, number, frames) \in {now, after}
    BY <1>3, <1>5
  <1> QED BY <1>12, <1>13, <1>14

\* One field at a time.
LEMMA Changed ==
  ASSUME NEW now, HasParts(now), NEW v
  PROVE  /\ IsOf([now EXCEPT !.seen = v],
                 now.peer, now.retry, v, now.read, now.verdict, now.closed)
         /\ IsOf([now EXCEPT !.closed = v],
                 now.peer, now.retry, now.seen, now.read, now.verdict, v)
         /\ IsOf([now EXCEPT !.retry = v],
                 now.peer, v, now.seen, now.read, now.verdict, now.closed)
  <1> DEFINE P == now.peer
             R == now.retry
             S == now.seen
             D == now.read
             V == now.verdict
             C == now.closed
  <1>1. now = [peer |-> P, retry |-> R, seen |-> S, read |-> D, verdict |-> V, closed |-> C]
    BY DEF HasParts
  <1> HIDE DEF P, R, S, D, V, C
  <1>2. IsOf([now EXCEPT !.seen = v], P, R, v, D, V, C)
    <2>1. ASSUME NEW x, x = [now EXCEPT !.seen = v]
          PROVE  x = [peer |-> P, retry |-> R, seen |-> v, read |-> D, verdict |-> V, closed |-> C]
      BY <1>1, <2>1
    <2>2. IsOf([peer |-> P, retry |-> R, seen |-> v, read |-> D, verdict |-> V, closed |-> C],
               P, R, v, D, V, C)
      BY PartsAre
    <2> QED BY <2>1, <2>2, Zenon
  <1>3. IsOf([now EXCEPT !.closed = v], P, R, S, D, V, v)
    <2>1. ASSUME NEW x, x = [now EXCEPT !.closed = v]
          PROVE  x = [peer |-> P, retry |-> R, seen |-> S, read |-> D, verdict |-> V, closed |-> v]
      BY <1>1, <2>1
    <2>2. IsOf([peer |-> P, retry |-> R, seen |-> S, read |-> D, verdict |-> V, closed |-> v],
               P, R, S, D, V, v)
      BY PartsAre
    <2> QED BY <2>1, <2>2, Zenon
  <1>4. IsOf([now EXCEPT !.retry = v], P, v, S, D, V, C)
    <2>1. ASSUME NEW x, x = [now EXCEPT !.retry = v]
          PROVE  x = [peer |-> P, retry |-> v, seen |-> S, read |-> D, verdict |-> V, closed |-> C]
      BY <1>1, <2>1
    <2>2. IsOf([peer |-> P, retry |-> v, seen |-> S, read |-> D, verdict |-> V, closed |-> C],
               P, v, S, D, V, C)
      BY PartsAre
    <2> QED BY <2>1, <2>2, Zenon
  <1> QED BY <1>2, <1>3, <1>4 DEF P, R, S, D, V, C

LEMMA OtherEnds ==
  ASSUME NEW e \in Endpoints
  PROVE  Other(e) \in Endpoints /\ Other(Other(e)) = e /\ Other(e) # e
  BY DEF Endpoints, Other

\* A Retry that comes is the server's.
IsRetried(e, packet) ==
  (e = "Client" /\ packet.type = "Retry") => packet.scid = RetryCid /\ packet.token = RetryToken

IsSince(e, old, now) == IsKnown(e, now) /\ Since(old, now)

\* So does taking a protected packet,
LEMMA AfterProtectedKnown ==
  ASSUME PacketsAreSent, NEW e \in Endpoints, NEW now, IsKnown(e, now), NEW packet,
         MayTake(e, now, packet)
  PROVE  IsSince(e, now, AfterProtected(e, now, packet))
  <1>1. Opens(e, packet) /\ packet.type \in Packets!ProtectedTypes \cup {"Short"}
    BY DEF MayTake
  <1>2. PICK p : IsOpened(e, packet, p)
    BY <1>1, OpenedIs
  <1>3. now.peer = <<>> => packet.type = "Initial"
    BY DEF MayTake
  <1>4. packet.type = "Initial" => packet.scid = InitialCid(Other(e))
    BY <1>2 DEF IsOpened, IsProtectedSent, Seen
  <1> DEFINE number == Packets!NumberIn(UnprotectedNumber(packet))
             frames == Frames!FramesIn(Payload(packet))
  <1>5. [space |-> Space(packet.type), number |-> number, frames |-> frames] \in Readable(e)
    BY <1>2, OpenedIsReadable
  <1>6. AfterProtected(e, now, packet) = AfterFrames(e, now, packet, number, frames)
    BY DEF AfterProtected
  <1> HIDE DEF number, frames
  <1>7. now.peer = <<>> => packet.scid = InitialCid(Other(e))
    BY <1>3, <1>4
  <1>8. /\ IsKnown(e, AfterFrames(e, now, packet, number, frames))
        /\ Since(now, AfterFrames(e, now, packet, number, frames))
    BY <1>5, <1>7, AfterFramesKnown
  <1> QED BY <1>6, <1>8 DEF IsSince

\* and any packet.
LEMMA AfterPacketKnown ==
  ASSUME PacketsAreSent, NEW e \in Endpoints, NEW now, IsKnown(e, now), NEW packet,
         IsRetried(e, packet)
  PROVE  IsSince(e, now, AfterPacket(e, now, packet))
  <1>1. IsSince(e, now, now)
    BY DEF IsSince, Since
  <1>2. HasParts(now)
    BY DEF IsKnown
  <1>3. ASSUME NEW s \in {"Nothing", "Unknown", "Tokenless"}
        PROVE  IsSince(e, now, [now EXCEPT !.seen = s])
    <2> DEFINE x == [now EXCEPT !.seen = s]
    <2>1. IsOf(x, now.peer, now.retry, s, now.read, now.verdict, now.closed)
      BY <1>2, Changed
    <2> HIDE DEF x
    <2>2. IsKnown(e, x)
      BY <2>1 DEF IsOf, IsKnown
    <2>3. Since(now, x)
      BY <2>1 DEF IsOf, Since
    <2>4. IsSince(e, now, x)
      BY <2>2, <2>3 DEF IsSince
    <2> QED BY <2>4 DEF x
  <1>4. ASSUME NEW c \in BOOLEAN PROVE IsSince(e, now, [now EXCEPT !.closed = c])
    <2> DEFINE x == [now EXCEPT !.closed = c]
    <2>1. IsOf(x, now.peer, now.retry, now.seen, now.read, now.verdict, c)
      BY <1>2, Changed
    <2> HIDE DEF x
    <2>2. IsKnown(e, x)
      BY <2>1 DEF IsOf, IsKnown
    <2>3. Since(now, x)
      BY <2>1 DEF IsOf, Since
    <2>4. IsSince(e, now, x)
      BY <2>2, <2>3 DEF IsSince
    <2> QED BY <2>4 DEF x
  <1>5. ASSUME e = "Client", packet.type = "Retry"
        PROVE  IsSince(e, now, [now EXCEPT !.retry = <<[scid |-> packet.scid,
                                                        token |-> packet.token]>>])
    <2> DEFINE v == <<[scid |-> packet.scid, token |-> packet.token]>>
               x == [now EXCEPT !.retry = v]
    <2>1. IsOf(x, now.peer, v, now.seen, now.read, now.verdict, now.closed)
      BY <1>2, Changed
    <2>2. v \in KnownRetry(e)
      BY <1>5 DEF IsRetried, KnownRetry
    <2> HIDE DEF x, v
    <2>3. IsKnown(e, x)
      BY <2>1, <2>2 DEF IsOf, IsKnown
    <2>4. Since(now, x)
      BY <2>1 DEF IsOf, Since
    <2>5. IsSince(e, now, x)
      BY <2>3, <2>4 DEF IsSince
    <2> QED BY <2>5 DEF x, v
  <1>6. MayTake(e, now, packet) => IsSince(e, now, AfterProtected(e, now, packet))
    BY AfterProtectedKnown
  <1> DEFINE c == now.closed \/ packet.dcid = ClientCid
             after == AfterPacket(e, now, packet)
  <1>7. c \in BOOLEAN
    OBVIOUS
  <1>8. \/ after = now
        \/ \E s \in {"Nothing", "Unknown", "Tokenless"} : after = [now EXCEPT !.seen = s]
        \/ after = [now EXCEPT !.closed = c]
        \/ /\ e = "Client" /\ packet.type = "Retry"
           /\ after = [now EXCEPT !.retry = <<[scid |-> packet.scid, token |-> packet.token]>>]
        \/ MayTake(e, now, packet) /\ after = AfterProtected(e, now, packet)
    BY DEF AfterPacket
  <1> HIDE DEF c, after
  <1>9. IsSince(e, now, after)
    BY <1>1, <1>3, <1>4, <1>5, <1>6, <1>7, <1>8
  <1> QED BY <1>9 DEF after

\* What an endpoint knows after a datagram.
LEMMA AfterPacketsKnown ==
  ASSUME PacketsAreSent, NEW e \in Endpoints, local[e] \in Known(e), NEW packets,
         NEW S, packets \in Seq(S), \A k \in 1 .. Len(packets) : IsRetried(e, packets[k])
  PROVE  AfterPackets(e, packets) \in Known(e) /\ Since(local[e], AfterPackets(e, packets))
  <1> DEFINE N == Len(packets)
             old == local[e]
             V == {now \in Known(e) : Since(old, now)}
             step == [x \in (1 .. N) \X V |-> AfterPacket(e, x[2], packets[x[1]])]
             upTo == CHOOSE f : f = [k \in 0 .. N |-> IF k = 0 THEN old
                                                      ELSE AfterPacket(e, f[k - 1], packets[k])]
  <1>1. N \in Nat
    OBVIOUS
  <1>2. AfterPackets(e, packets) = upTo[N]
    BY DEF AfterPackets
  <1>3. old \in V
    BY DEF Since
  <1> HIDE DEF N, old
  <1>4. ASSUME NEW k \in 1 .. N, NEW now \in V PROVE AfterPacket(e, now, packets[k]) \in V
    <2>1. now \in Known(e) /\ Since(old, now)
      OBVIOUS
    <2>2. IsKnown(e, now) /\ IsRetried(e, packets[k])
      BY <2>1, KnownIs DEF N
    <2>3. IsSince(e, now, AfterPacket(e, now, packets[k]))
      BY <2>2, AfterPacketKnown
    <2>4. AfterPacket(e, now, packets[k]) \in Known(e)
      BY <2>3, KnownIs DEF IsSince
    <2>5. Since(old, AfterPacket(e, now, packets[k]))
      BY <2>1, <2>3 DEF IsSince, Since
    <2> QED BY <2>4, <2>5
  <1> HIDE DEF V
  <1>5. step \in [(1 .. N) \X V -> V]
    BY <1>4
  <1>6. \A k \in 1 .. N, now \in V : step[<<k, now>>] = AfterPacket(e, now, packets[k])
    OBVIOUS
  <1> HIDE DEF step
  <1>7. PICK g \in [0 .. N -> V] : Counts(g, N, old, step)
    BY <1>1, <1>3, <1>5, Counting
  <1>8. g = [k \in 0 .. N |-> IF k = 0 THEN old ELSE AfterPacket(e, g[k - 1], packets[k])]
    <2>1. ASSUME NEW k \in 0 .. N
          PROVE  g[k] = IF k = 0 THEN old ELSE AfterPacket(e, g[k - 1], packets[k])
      <3>1. CASE k = 0
        BY <1>7, <3>1 DEF Counts
      <3>2. CASE k # 0
        <4>1. k \in 1 .. N /\ k - 1 \in 0 .. N
          BY <1>1, <3>2
        <4>2. g[k] = step[<<k, g[k - 1]>>] /\ g[k - 1] \in V
          BY <1>7, <4>1 DEF Counts
        <4> QED BY <1>6, <3>2, <4>1, <4>2
      <3> QED BY <3>1, <3>2
    <2> QED BY <1>7, <2>1
  <1>9. upTo = [k \in 0 .. N |-> IF k = 0 THEN old ELSE AfterPacket(e, upTo[k - 1], packets[k])]
    BY <1>8
  <1> HIDE DEF upTo
  <1>10. upTo[N] \in V
    <2> DEFINE Good == {k \in 0 .. N : upTo[k] \in V}
    <2>1. 0 \in Good
      BY <1>1, <1>3, <1>9
    <2>2. \A k \in 1 .. N : k - 1 \in Good => k \in Good
      <3> SUFFICES ASSUME NEW k \in 1 .. N, k - 1 \in Good PROVE k \in Good
        OBVIOUS
      <3>1. k \in 0 .. N /\ k # 0 /\ upTo[k - 1] \in V
        BY <1>1
      <3>2. upTo[k] = AfterPacket(e, upTo[k - 1], packets[k])
        BY <1>9, <3>1
      <3> QED BY <1>4, <3>1, <3>2
    <2> HIDE DEF Good
    <2>3. \A k \in 0 .. N : k \in Good
      BY <1>1, <2>1, <2>2, Upwards
    <2> QED BY <1>1, <2>3 DEF Good
  <1> QED BY <1>2, <1>10 DEF V, old

-----------------------------------------------------------------------------
(* What arrives *)

\* What a datagram was taken apart into, beside what it was put together from.
IsGot(e, s, got) ==
  /\ \E S : got \in Seq(S)
  /\ Length(got) \in Length(s.packets) ..
        (Length(s.packets) + (IF s.zeros = 0 THEN 0 ELSE 1))
  /\ DOMAIN s.packets = 1 .. Length(s.packets)
  /\ \A k \in DOMAIN s.packets : IsPacketGot(got[k], s.packets[k].given, Context(e))
  /\ \A k \in 1 .. Length(got) :
        k \in DOMAIN s.packets \/ got[k].type \in {"Error", "Short"}

LEMMA OneItem ==
  ASSUME NEW x
  PROVE  /\ <<x>>[1] = x /\ Length(<<x>>) = 1 /\ DOMAIN <<x>> = 1 .. 1
         /\ \E S : <<x>> \in Seq(S)
  <1>1. <<x>> \in Seq({x})
    BY x \in {x}
  <1>2. \E S : <<x>> \in Seq(S)
    BY <1>1, Zenon
  <1> QED BY <1>2 DEF Length

LEMMA TwoItemsAre ==
  ASSUME NEW x, NEW y
  PROVE  /\ <<x, y>>[1] = x /\ <<x, y>>[2] = y /\ Length(<<x, y>>) = 2
         /\ DOMAIN <<x, y>> = 1 .. 2
         /\ \E S : <<x, y>> \in Seq(S)
  <1>1. \A a, b \in {x, y} : <<a, b>> \in Seq({x, y})
    OBVIOUS
  <1>2. <<x, y>> \in Seq({x, y})
    BY <1>1
  <1>3. \E S : <<x, y>> \in Seq(S)
    BY <1>2, Zenon
  <1> QED BY <1>3 DEF Length

LEMMA ZerosTyped ==
  ASSUME NEW n \in Nat
  PROVE  /\ Link!Zeros(n) \in Bytes /\ Length(Link!Zeros(n)) = n
         /\ n > 0 => At(Link!Zeros(n), 1) = 0
  <1>1. 0 \in Link!Byte
    BY ZeroByte
  <1>2. Link!Zeros(n) \in Bytes /\ Length(Link!Zeros(n)) = n
    BY <1>1 DEF Link!Zeros, Bytes, Length
  <1>3. n > 0 => At(Link!Zeros(n), 1) = 0
    BY DEF Link!Zeros, At
  <1> QED BY <1>2, <1>3

\* A server that has given out no connection ID cannot read a short header.
LEMMA ContextIs ==
  ASSUME NEW e \in Endpoints
  PROVE  /\ Context(e) = <<1>> \/ Context(e) = <<>>
         /\ Context(e) = <<>> => e = "Server" /\ ~ HasSent("Server", "Handshake")
  <1>1. Len(ClientCid) = 1 /\ Len(ServerCid) = 1
    BY DEF ClientCid, ServerCid
  <1>2. <<1>> # <<>>
    OBVIOUS
  <1>3. CASE e = "Client"
    BY <1>1, <1>2, <1>3 DEF Context
  <1>4. CASE e = "Server"
    BY <1>1, <1>2, <1>4 DEF Context
  <1> QED BY <1>3, <1>4 DEF Endpoints

LEMMA ShortSent ==
  ASSUME NEW e \in Endpoints, NEW p, NEW by, IsPacketSent(by, p)
  PROVE  p.given.type = "Short" => Context(e) \in {<<>>, <<Len(p.given.dcid)>>}
  <1>1. p.given.type = "Short" => Length(p.given.dcid) = 1
    BY DEF IsPacketSent, IsBareSent, IsProtectedSent
  <1> QED BY <1>1, ContextIs DEF Length

\* The three shapes of what a datagram carries.
LEMMA PacketsArrive ==
  ASSUME NEW e \in Endpoints, NEW s, IsDatagramSent(s)
  PROVE  IsGot(e, s, Packets!PacketsIn(s.datagram.payload, Context(e)))
  <1> DEFINE context == Context(e)
             got == Packets!PacketsIn(s.datagram.payload, context)
  <1>0. IsContents(s) /\ \A k \in DOMAIN s.packets : IsPacketSent(s.by, s.packets[k])
    BY DEF IsDatagramSent
  <1>1. ASSUME NEW p, s.packets = <<p>>, s.zeros = 0,
               s.datagram.payload = Packets!PacketBytes(p.given)
        PROVE  IsGot(e, s, got)
    <2>1. s.packets[1] = p /\ Length(s.packets) = 1 /\ DOMAIN s.packets = 1 .. 1
      BY <1>1, OneItem
    <2>2. IsPacketSent(s.by, p)
      BY <1>0, <2>1
    <2>3. IsGivenPacket(p.given)
      BY <2>2 DEF IsPacketSent
    <2>4. p.given.type = "Short" => context \in {<<>>, <<Len(p.given.dcid)>>}
      BY <2>2, ShortSent
    <2> DEFINE g == p.given
    <2> HIDE DEF context, g
    <2>5. \E r : Packets!PacketsIn(Packets!PacketBytes(g), context) = <<r>>
                    /\ IsPacketGot(r, g, context)
      BY <2>3, <2>4, OnePacketComesBack DEF g
    <2>6. PICK r : got = <<r>> /\ IsPacketGot(r, g, context)
      BY <1>1, <2>5 DEF g
    <2> HIDE DEF got
    <2>7. got[1] = r /\ Length(got) = 1 /\ \E S : got \in Seq(S)
      BY <2>6, OneItem
    <2>8. IsPacketGot(got[1], s.packets[1].given, context)
      BY <2>1, <2>6, <2>7 DEF g
    <2> QED BY <1>1, <2>1, <2>7, <2>8 DEF IsGot, context
  <1>2. ASSUME NEW p, s.packets = <<p>>, s.zeros = 5, p.given.type \in Packets!ProtectedTypes,
               s.datagram.payload = Cat(Packets!PacketBytes(p.given), Link!Zeros(5))
        PROVE  IsGot(e, s, got)
    <2>1. s.packets[1] = p /\ Length(s.packets) = 1 /\ DOMAIN s.packets = 1 .. 1
      BY <1>2, OneItem
    <2>2. IsGivenPacket(p.given)
      BY <1>0, <2>1 DEF IsPacketSent
    <2> DEFINE g == p.given
               zeros == Link!Zeros(5)
    <2>3. zeros \in Bytes /\ Length(zeros) > 0 /\ At(zeros, 1) = 0
      BY ZerosTyped
    <2> HIDE DEF context, g, zeros
    <2>4. \E x, r : /\ Packets!PacketsIn(Cat(Packets!PacketBytes(g), zeros), context) = <<x, r>>
                    /\ IsPacketRead(x, g) /\ r.type \in {"Error", "Short"}
      BY <1>2, <2>2, <2>3, PacketAndZerosComeBack DEF g
    <2>5. PICK x, r : got = <<x, r>> /\ IsPacketRead(x, g) /\ r.type \in {"Error", "Short"}
      BY <1>2, <2>4 DEF g, zeros
    <2> HIDE DEF got
    <2>6. got[1] = x /\ got[2] = r /\ Length(got) = 2 /\ \E S : got \in Seq(S)
      BY <2>5, TwoItemsAre
    <2>7. IsPacketGot(got[1], s.packets[1].given, context)
      BY <2>1, <2>5, <2>6 DEF g, IsPacketGot
    <2> QED BY <1>2, <2>1, <2>5, <2>6, <2>7 DEF IsGot, context
  <1>3. ASSUME NEW p, NEW q, s.packets = <<p, q>>, s.zeros = 0,
               p.given.type \in Packets!ProtectedTypes, q.given.type \in Packets!ProtectedTypes,
               s.datagram.payload = Cat(Packets!PacketBytes(p.given),
                                        Packets!PacketBytes(q.given))
        PROVE  IsGot(e, s, got)
    <2>1. /\ s.packets[1] = p /\ s.packets[2] = q /\ Length(s.packets) = 2
          /\ DOMAIN s.packets = 1 .. 2
      BY <1>3, TwoItemsAre
    <2>2. IsGivenPacket(p.given) /\ IsGivenPacket(q.given)
      BY <1>0, <2>1 DEF IsPacketSent
    <2> DEFINE g == p.given
               h == q.given
    <2> HIDE DEF context, g, h
    <2>3. \E x, r : /\ Packets!PacketsIn(Cat(Packets!PacketBytes(g), Packets!PacketBytes(h)),
                                         context) = <<x, r>>
                    /\ IsPacketRead(x, g) /\ IsPacketRead(r, h)
      BY <1>3, <2>2, TwoPacketsComeBack DEF g, h
    <2>4. PICK x, r : got = <<x, r>> /\ IsPacketRead(x, g) /\ IsPacketRead(r, h)
      BY <1>3, <2>3 DEF g, h
    <2> HIDE DEF got
    <2>5. got[1] = x /\ got[2] = r /\ Length(got) = 2 /\ \E S : got \in Seq(S)
      BY <2>4, TwoItemsAre
    <2>6. /\ IsPacketGot(got[1], s.packets[1].given, context)
          /\ IsPacketGot(got[2], s.packets[2].given, context)
      BY <2>1, <2>4, <2>5 DEF g, h, IsPacketGot
    <2>7. \A k \in 1 .. 2 : k = 1 \/ k = 2
      OBVIOUS
    <2>8. \A k \in DOMAIN s.packets : IsPacketGot(got[k], s.packets[k].given, context)
      <3> SUFFICES ASSUME NEW k \in DOMAIN s.packets
                   PROVE  IsPacketGot(got[k], s.packets[k].given, context)
        OBVIOUS
      <3>1. k = 1 \/ k = 2
        BY <2>1, <2>7
      <3> QED BY <2>6, <3>1
    <2>9. Length(got) \in Length(s.packets) ..
             (Length(s.packets) + (IF s.zeros = 0 THEN 0 ELSE 1))
      BY <1>3, <2>1, <2>5
    <2> QED BY <2>1, <2>5, <2>8, <2>9 DEF IsGot, context
  <1> HIDE DEF got
  <1>4. IsGot(e, s, got)
    BY <1>0, <1>1, <1>2, <1>3 DEF IsContents
  <1> QED BY <1>4 DEF got, context

\* What was sent arrives, whole or padded, unless it is a fragment.
LEMMA CarriedArrives ==
  ASSUME NEW s, IsDatagramSent(s), NEW copy \in {Whole, Padded}
  PROVE  Link!Received(OnArrival(s.frame, copy))
            = IF IsFragment(s.datagram) THEN Link!Nothing ELSE Delivered(s.datagram)
  <1> DEFINE d == s.datagram
             frame == s.frame
  <1>1. IsCarried(d) /\ Link!BuildAllowed(d) /\ frame = Link!OnTheLink(d)
    BY DEF IsDatagramSent
  <1>2. copy.kind = "Whole" \/ copy.kind = "Padded"
    BY DEF Whole, Padded
  <1>3. <<>> \in Bytes /\ Link!Zeros(3) \in Bytes
    BY EmptyBytes, ZerosTyped
  <1> HIDE DEF d, frame
  <1>4. \E tail \in Bytes : OnArrival(frame, copy) = Cat(frame, tail)
    <2>1. CASE copy.kind = "Whole"
      <3>1. OnArrival(frame, copy) = frame
        BY <2>1 DEF OnArrival
      <3>2. frame \in Bytes
        BY <1>1, <1>3, LinkComesBack
      <3>3. Cat(frame, <<>>) = frame
        BY <3>2, CatEmpty
      <3> QED BY <1>3, <3>1, <3>3
    <2>2. CASE copy.kind = "Padded"
      <3>1. OnArrival(frame, copy) = Cat(frame, Link!Zeros(3))
        BY <2>2 DEF OnArrival, Cat
      <3> QED BY <1>3, <3>1
    <2> QED BY <1>2, <2>1, <2>2
  <1>5. PICK tail \in Bytes : OnArrival(frame, copy) = Cat(frame, tail)
    BY <1>4
  <1>6. Link!Received(Cat(frame, tail)) = IF IsFragment(d) THEN Link!Nothing ELSE Delivered(d)
    BY <1>1, LinkComesBack
  <1> QED BY <1>5, <1>6 DEF d, frame

LEMMA DeliveredIs ==
  ASSUME NEW d, IsCarried(d)
  PROVE  Delivered(d) # Link!Nothing /\ Delivered(d).payload = d.payload
  <1>1. d.version \in {4, 6}
    BY DEF IsCarried, IsGiven
  <1>2. Delivered(d).version = d.version /\ Delivered(d).payload = d.payload
    BY DEF Delivered
  <1>3. Link!Nothing.version = 0
    BY DEF Link!Nothing
  <1>4. d.version # 0
    BY <1>1
  <1> QED BY <1>2, <1>3, <1>4

\* What a damaged frame is taken apart into is a sequence of packets all the same.
LEMMA DamagedTyped ==
  ASSUME NEW frame \in Bytes, NEW copy \in Damages(frame)
  PROVE  OnArrival(frame, copy) \in Bytes
  <1>1. Length(frame) \in Nat /\ DOMAIN frame = 1 .. Length(frame)
    BY DEF Bytes, Length
  <1>2. \/ copy.kind = "Cut" /\ copy.at \in 0 .. (Length(frame) - 1)
        \/ copy.kind = "Changed" /\ copy.at \in 1 .. Length(frame) /\ copy.byte \in {0, 44, 255}
    BY DEF Damages, Length
  <1>3. CASE copy.kind = "Cut" /\ copy.at \in 0 .. (Length(frame) - 1)
    <2>1. OnArrival(frame, copy) = Cut(frame, 1, copy.at)
      BY <1>3 DEF OnArrival, Packets!Leading, Cut
    <2> DEFINE n == copy.at
    <2>2. n \in Nat /\ n <= Length(frame)
      BY <1>1, <1>3
    <2> HIDE DEF n
    <2>3. 1 <= n + 1 /\ 1 >= 1 /\ 1 \in Nat
      BY <2>2
    <2>4. IsCut(Cut(frame, 1, n), frame, 1, n)
      BY <2>2, <2>3, CutIs
    <2> QED BY <2>1, <2>4 DEF IsCut, n
  <1>4. CASE copy.kind = "Changed" /\ copy.at \in 1 .. Length(frame) /\ copy.byte \in {0, 44, 255}
    <2>1. OnArrival(frame, copy) = [frame EXCEPT ![copy.at] = copy.byte]
      BY <1>4 DEF OnArrival
    <2>2. copy.byte \in Link!Byte
      BY <1>4, LinkBase, SMT
    <2> DEFINE k == copy.at
               b == copy.byte
               S == Link!Byte
    <2>3. frame \in Seq(S)
      BY DEF Bytes
    <2>4. b \in S
      BY <2>2
    <2>5. k \in 1 .. Len(frame)
      BY <1>4 DEF Length
    <2> HIDE DEF k, b, S
    <2>6. [frame EXCEPT ![k] = b] \in Seq(S)
      BY <2>3, <2>4, <2>5, ExceptSeq
    <2> QED BY <2>1, <2>6 DEF k, b, S, Bytes
  <1> QED BY <1>2, <1>3, <1>4

\* The packets of an arrival.
PacketsOn(e, datagram) ==
  IF datagram = Link!Nothing THEN <<>> ELSE Packets!PacketsIn(datagram.payload, Context(e))

LEMMA AnyPackets ==
  ASSUME NEW e, NEW q \in Bytes
  PROVE  \E S : PacketsOn(e, Link!Received(q)) \in Seq(S)
  <1> DEFINE d == Link!Received(q)
             context == Context(e)
  <1>1. CASE d = Link!Nothing
    <2>1. PacketsOn(e, d) = <<>>
      BY <1>1 DEF PacketsOn
    <2>2. <<>> \in Seq({})
      OBVIOUS
    <2> QED BY <2>1, <2>2
  <1>2. CASE d # Link!Nothing
    <2>1. d.payload \in Bytes
      BY <1>2, PayloadTyped
    <2>2. PacketsOn(e, d) = Packets!PacketsIn(d.payload, context)
      BY <1>2 DEF PacketsOn
    <2> DEFINE payload == d.payload
    <2> HIDE DEF d, context
    <2>3. payload \in Bytes
      BY <2>1
    <2> HIDE DEF payload
    <2>4. Packets!PacketsIn(payload, context)
             \in Seq({Packets!PacketIn(Cut(payload, i, Length(payload)), context) :
                         i \in 1 .. Length(payload)})
      BY <2>3, PacketsWalk
    <2>5. \E S : Packets!PacketsIn(payload, context) \in Seq(S)
      BY <2>4, Zenon
    <2> QED BY <2>2, <2>5 DEF payload, d
  <1> QED BY <1>1, <1>2

-----------------------------------------------------------------------------
(* An arrival keeps the invariant *)

\* A step that only adds to what endpoints know keeps the invariant.
LEMMA KnowingMore ==
  ASSUME PathInvariant, scenario' = scenario, sent' = sent, DOMAIN local' = Endpoints,
         \A e \in Endpoints : local'[e] \in Known(e) /\ Since(local[e], local'[e]),
         sent = <<>> => local' = local
  PROVE  PathInvariant'
  <1>1. \A e : PacketsSent(e)' = PacketsSent(e)
    BY DEF PacketsSent
  <1>2. \A e, space : NumbersSent(e, space)' = NumbersSent(e, space)
    BY <1>1 DEF NumbersSent
  <1>3. \A e, type : HasSent(e, type)' <=> HasSent(e, type)
    BY <1>1 DEF HasSent
  <1>4. \A e : Known(e)' = Known(e)
    <2>1. \A e : Readable(e)' = Readable(e)
      BY <1>1 DEF Readable
    <2> QED BY <2>1 DEF Known
  <1>5. IsScenario(scenario)'
    BY DEF PathInvariant
  <1>6. (\E S : sent \in Seq(S))' /\ (\A i \in DOMAIN sent : IsDatagramSent(sent[i]))'
    BY DEF PathInvariant, IsDatagramSent
  <1>7. (DOMAIN local = Endpoints)' /\ (\A e \in Endpoints : local[e] \in Known(e))'
    BY <1>4
  <1>8. NumbersInOrder' /\ AcksOfSent'
    BY <1>1, <1>2 DEF PathInvariant, NumbersInOrder, AcksOfSent
  <1>9. NumbersAreUnique'
    BY <1>1 DEF PathInvariant, NumbersAreUnique
  <1>10. SpacesInStep'
    <2>1. Since(local["Client"], local'["Client"]) /\ Since(local["Server"], local'["Server"])
      BY DEF Endpoints
    <2>2. SpacesInStep
      BY DEF PathInvariant
    <2> QED BY <1>2, <1>3, <2>1, <2>2 DEF SpacesInStep, Since
  <1>11. ClientBegins'
    BY DEF PathInvariant, ClientBegins
  <1> QED BY <1>5, <1>6, <1>7, <1>8, <1>9, <1>10, <1>11 DEF PathInvariant

\* The datagram and the packets of an arrival.
IsArrival(e, i, copy) ==
  /\ i \in DOMAIN sent /\ sent[i].by = Other(e)
  /\ copy \in {Whole, Padded} \cup Damages(sent[i].frame)
  /\ LET datagram == Link!Received(OnArrival(sent[i].frame, copy))
     IN  /\ arrival' = [of |-> i, copy |-> copy.kind, datagram |-> datagram,
                        packets |-> PacketsOn(e, datagram)]
         /\ local' = [local EXCEPT ![e] = AfterPackets(e, PacketsOn(e, datagram))]

LEMMA ReceiveIs ==
  ASSUME NEW e, Receive(e)
  PROVE  /\ scenario' = scenario /\ sent' = sent
         /\ \E i, copy : IsArrival(e, i, copy)
  BY DEF Receive, IsArrival, PacketsOn

\* What the invariant says of every datagram that was sent.
LEMMA SentIs ==
  ASSUME PathInvariant
  PROVE  /\ \A i \in DOMAIN sent : i # 0 /\ IsDatagramSent(sent[i])
         /\ PacketsAreSent
         /\ Len(sent) = 1 => \A i \in DOMAIN sent : sent[i].by = "Client"
  <1>1. PICK S : sent \in Seq(S)
    BY DEF PathInvariant
  <1>2. \A i \in DOMAIN sent : IsDatagramSent(sent[i])
    BY DEF PathInvariant
  <1>3. DOMAIN sent = 1 .. Len(sent) /\ Len(sent) \in Nat
    BY <1>1
  <1>4. \A i \in DOMAIN sent : i # 0
    BY <1>3
  <1>5. Len(sent) = 1 => \A i \in DOMAIN sent : i = 1 /\ sent # <<>>
    BY <1>3
  <1>6. Len(sent) = 1 => \A i \in DOMAIN sent : sent[i].by = "Client"
    BY <1>5 DEF PathInvariant, ClientBegins
  <1> QED BY <1>2, <1>4, <1>6, AllPacketsSent

\* Only a datagram of a client is ever damaged.
LEMMA DamagedIs ==
  ASSUME PathInvariant, NEW e \in Endpoints, NEW i, NEW copy, IsArrival(e, i, copy),
         copy \notin {Whole, Padded}
  PROVE  e = "Server" /\ copy \in Damages(sent[i].frame) /\ copy.kind \in {"Cut", "Changed"}
  <1>1. copy \in Damages(sent[i].frame) /\ i \in DOMAIN sent /\ sent[i].by = Other(e)
    BY DEF IsArrival
  <1>2. Len(sent) = 1 /\ copy.kind \in {"Cut", "Changed"}
    BY <1>1 DEF Damages
  <1>3. Other(e) = "Client"
    BY <1>1, <1>2, SentIs
  <1> QED BY <1>1, <1>2, <1>3 DEF Other, Endpoints

\* What the peer's packets say of Retries.
LEMMA GotRetried ==
  ASSUME NEW e \in Endpoints, NEW s, s.by = Other(e), IsDatagramSent(s), NEW got, IsGot(e, s, got)
  PROVE  \A k \in 1 .. Length(got) : IsRetried(e, got[k])
  <1> SUFFICES ASSUME NEW k \in 1 .. Length(got), e = "Client", got[k].type = "Retry"
               PROVE  got[k].scid = RetryCid /\ got[k].token = RetryToken
    BY DEF IsRetried
  <1>1. k \in DOMAIN s.packets
    BY DEF IsGot
  <1> DEFINE p == s.packets[k]
             g == p.given
  <1>2. IsPacketGot(got[k], g, Context(e)) /\ IsPacketSent(s.by, p)
    BY <1>1 DEF IsGot, IsDatagramSent
  <1>3. IsPacketRead(got[k], g)
    BY <1>2 DEF IsPacketGot
  <1>4. g.type = "Retry" /\ got[k].scid = g.scid /\ got[k].token = g.token
    BY <1>3 DEF IsPacketRead, Seen
  <1>5. IsBareSent(s.by, p)
    BY <1>2, <1>4 DEF IsPacketSent, IsProtectedSent, Packets!ProtectedTypes
  <1> QED BY <1>4, <1>5 DEF IsBareSent

\* What an arrival delivers.
LEMMA ArrivalIs ==
  ASSUME PathInvariant, NEW e \in Endpoints, NEW i, NEW copy, IsArrival(e, i, copy)
  PROVE  LET s == sent[i]
             datagram == Link!Received(OnArrival(s.frame, copy))
             packets == PacketsOn(e, datagram)
         IN  /\ \E S : packets \in Seq(S)
             /\ \A k \in 1 .. Length(packets) : IsRetried(e, packets[k])
             /\ copy \in {Whole, Padded} =>
                   /\ datagram = IF scenario.carrier.fragmented THEN Link!Nothing
                                 ELSE Delivered(s.datagram)
                   /\ ~ scenario.carrier.fragmented => IsGot(e, s, packets)
  <1> DEFINE s == sent[i]
             datagram == Link!Received(OnArrival(s.frame, copy))
             packets == PacketsOn(e, datagram)
  <1>1. IsDatagramSent(s) /\ s.by = Other(e)
    BY SentIs DEF IsArrival
  <1>2. CASE copy \in {Whole, Padded}
    <2>1. datagram = IF IsFragment(s.datagram) THEN Link!Nothing ELSE Delivered(s.datagram)
      BY <1>1, <1>2, CarriedArrives
    <2>2. IsFragment(s.datagram) <=> scenario.carrier.fragmented
      BY <1>1 DEF IsDatagramSent
    <2>3. datagram = IF scenario.carrier.fragmented THEN Link!Nothing ELSE Delivered(s.datagram)
      BY <2>1, <2>2
    <2>4. Delivered(s.datagram) # Link!Nothing
             /\ Delivered(s.datagram).payload = s.datagram.payload
      BY <1>1, DeliveredIs DEF IsDatagramSent
    <2> HIDE DEF datagram
    <2>5. ~ scenario.carrier.fragmented => packets = Packets!PacketsIn(s.datagram.payload, Context(e))
      BY <2>3, <2>4 DEF PacketsOn
    <2>6. IsGot(e, s, Packets!PacketsIn(s.datagram.payload, Context(e)))
      BY <1>1, PacketsArrive
    <2>7. scenario.carrier.fragmented => packets = <<>>
      BY <2>3 DEF PacketsOn
    <2> HIDE DEF packets, s
    <2>8. ~ scenario.carrier.fragmented => IsGot(e, s, packets)
      BY <2>5, <2>6
    <2>9. \E S : packets \in Seq(S)
      <3>1. CASE scenario.carrier.fragmented
        <4>1. <<>> \in Seq({})
          OBVIOUS
        <4> QED BY <2>7, <3>1, <4>1
      <3>2. CASE ~ scenario.carrier.fragmented
        BY <2>8, <3>2 DEF IsGot
      <3> QED BY <3>1, <3>2
    <2>10. \A k \in 1 .. Length(packets) : IsRetried(e, packets[k])
      <3>1. CASE scenario.carrier.fragmented
        BY <2>7, <3>1, EmptyBytes
      <3>2. CASE ~ scenario.carrier.fragmented
        BY <1>1, <2>8, <3>2, GotRetried
      <3> QED BY <3>1, <3>2
    <2> QED BY <1>2, <2>3, <2>8, <2>9, <2>10 DEF packets, datagram, s
  <1>3. CASE copy \notin {Whole, Padded}
    <2>1. e = "Server" /\ copy \in Damages(s.frame)
      BY <1>3, DamagedIs
    <2>2. s.frame \in Bytes
      <3>1. IsCarried(s.datagram) /\ Link!BuildAllowed(s.datagram)
               /\ s.frame = Link!OnTheLink(s.datagram)
        BY <1>1 DEF IsDatagramSent
      <3>2. <<>> \in Bytes
        BY EmptyBytes
      <3> QED BY <3>1, <3>2, LinkComesBack
    <2>3. OnArrival(s.frame, copy) \in Bytes
      BY <2>1, <2>2, DamagedTyped
    <2>4. \E S : packets \in Seq(S)
      BY <2>3, AnyPackets
    <2>5. \A k \in 1 .. Length(packets) : IsRetried(e, packets[k])
      BY <2>1 DEF IsRetried
    <2> QED BY <1>3, <2>4, <2>5
  <1> QED BY <1>2, <1>3

\* Receiving keeps the invariant, also when the datagram was damaged.
LEMMA ReceiveKeeps ==
  ASSUME PathInvariant, NEW e \in Endpoints, Receive(e)
  PROVE  PathInvariant'
  <1>1. scenario' = scenario /\ sent' = sent
    BY ReceiveIs
  <1>2. PICK i, copy : IsArrival(e, i, copy)
    BY ReceiveIs
  <1> DEFINE packets == PacketsOn(e, Link!Received(OnArrival(sent[i].frame, copy)))
             after == AfterPackets(e, packets)
  <1>3. /\ \E S : packets \in Seq(S)
        /\ \A k \in 1 .. Length(packets) : IsRetried(e, packets[k])
    BY <1>2, ArrivalIs
  <1>4. local' = [local EXCEPT ![e] = after] /\ i \in DOMAIN sent
    BY <1>2 DEF IsArrival
  <1> HIDE DEF packets
  <1>5. after \in Known(e) /\ Since(local[e], after)
    <2>1. PICK S : packets \in Seq(S)
      BY <1>3
    <2>2. local[e] \in Known(e)
      BY DEF PathInvariant
    <2>3. \A k \in 1 .. Len(packets) : IsRetried(e, packets[k])
      BY <1>3 DEF Length
    <2> QED BY <2>1, <2>2, <2>3, SentIs, AfterPacketsKnown
  <1> HIDE DEF after
  <1>6. DOMAIN local = Endpoints /\ \A f \in Endpoints : local[f] \in Known(f)
    BY DEF PathInvariant
  <1>7. DOMAIN local' = Endpoints
    BY <1>4, <1>6
  <1>8. ASSUME NEW f \in Endpoints PROVE local'[f] \in Known(f) /\ Since(local[f], local'[f])
    <2>1. CASE f = e
      BY <1>4, <1>5, <1>6, <2>1
    <2>2. CASE f # e
      <3>1. local'[f] = local[f]
        BY <1>4, <1>6, <2>2
      <3> QED BY <1>6, <3>1 DEF Since
    <2> QED BY <2>1, <2>2
  <1>9. sent # <<>>
    BY <1>4
  <1> QED BY <1>1, <1>7, <1>8, <1>9, KnowingMore

\* An arrival is as the two properties say.
LEMMA ReceiveDelivers ==
  ASSUME PathInvariant, NEW e \in Endpoints, Receive(e)
  PROVE  DatagramsComeBack' /\ PacketsComeBack'
  <1>1. scenario' = scenario /\ sent' = sent
    BY ReceiveIs
  <1>2. PICK i, copy : IsArrival(e, i, copy)
    BY ReceiveIs
  <1> DEFINE s == sent[i]
             datagram == Link!Received(OnArrival(s.frame, copy))
             got == PacketsOn(e, datagram)
  <1>3. copy \in {Whole, Padded} =>
          /\ datagram = IF scenario.carrier.fragmented THEN Link!Nothing
                        ELSE Delivered(s.datagram)
          /\ ~ scenario.carrier.fragmented => IsGot(e, s, got)
    BY <1>2, ArrivalIs
  <1>4. arrival' = [of |-> i, copy |-> copy.kind, datagram |-> datagram, packets |-> got]
    BY <1>2 DEF IsArrival
  <1>5. i \in DOMAIN sent /\ s.by = Other(e)
    BY <1>2 DEF IsArrival
  <1> HIDE DEF datagram, got
  <1>6. arrival'.of = i /\ arrival'.copy = copy.kind /\ arrival'.datagram = datagram
           /\ arrival'.packets = got
    BY <1>4
  <1>7. copy.kind \in {"Whole", "Padded"} => copy \in {Whole, Padded}
    <2>1. copy \notin {Whole, Padded} => copy.kind \in {"Cut", "Changed"}
      BY <1>2, DamagedIs
    <2> QED BY <2>1
  <1>8. DatagramsComeBack'
    <2>1. arrival'.copy \in {"Whole", "Padded"} =>
             datagram = IF scenario.carrier.fragmented THEN Link!Nothing
                        ELSE Delivered(s.datagram)
      BY <1>3, <1>6, <1>7
    <2> QED BY <1>1, <1>6, <2>1 DEF DatagramsComeBack, Delivered
  <1>9. PacketsComeBack'
    <2> DEFINE packets == s.packets
    <2>1. ASSUME ~ scenario.carrier.fragmented, copy.kind \in {"Whole", "Padded"}
          PROVE  /\ Len(got) \in Len(packets) ..
                       (Len(packets) + (IF s.zeros = 0 THEN 0 ELSE 1))
                 /\ \A k \in DOMAIN packets :
                       LET given == packets[k].given
                       IN  \/ got[k].type # "Error" /\ Seen(got[k]) = Seen(given)
                           \/ /\ got[k].type = "Error" /\ given.type = "Short"
                              /\ s.by = "Client"
                              /\ ~HasSent("Server", "Handshake")
      <3>1. IsGot(e, s, got)
        BY <1>3, <1>7, <2>1
      <3>2. Len(got) \in Len(packets) .. (Len(packets) + (IF s.zeros = 0 THEN 0 ELSE 1))
        BY <3>1 DEF IsGot, Length
      <3>3. ASSUME NEW k \in DOMAIN packets
            PROVE  \/ got[k].type # "Error" /\ Seen(got[k]) = Seen(packets[k].given)
                   \/ /\ got[k].type = "Error" /\ packets[k].given.type = "Short"
                      /\ s.by = "Client"
                      /\ ~HasSent("Server", "Handshake")
        <4> DEFINE g == packets[k].given
        <4>1. IsPacketGot(got[k], g, Context(e))
          BY <3>1 DEF IsGot
        <4>2. IsGivenPacket(g)
          BY <1>5, SentIs DEF IsDatagramSent, IsPacketSent
        <4>3. CASE IsPacketRead(got[k], g)
          <5>1. g.type # "Error"
            BY <4>2 DEF IsGivenPacket, Packets!ProtectedTypes
          <5> QED BY <4>3, <5>1 DEF IsPacketRead
        <4>4. CASE g.type = "Short" /\ Context(e) = <<>> /\ got[k].type = "Error"
          <5>1. e = "Server" /\ ~ HasSent("Server", "Handshake")
            BY <4>4, ContextIs
          <5> QED BY <1>5, <4>4, <5>1 DEF Other
        <4> QED BY <4>1, <4>3, <4>4 DEF IsPacketGot
      <3> QED BY <3>2, <3>3
    <2>2. HasSent("Server", "Handshake")' <=> HasSent("Server", "Handshake")
      BY <1>1 DEF HasSent, PacketsSent
    <2>3. \A x, g : (Seen(x) = Seen(g))' <=> Seen(x) = Seen(g)
      OBVIOUS
    <2> HIDE DEF s
    <2>4. sent'[arrival'.of] = s /\ arrival'.packets = got /\ arrival'.copy = copy.kind
      BY <1>1, <1>6 DEF s
    <2> QED BY <1>1, <2>1, <2>2, <2>4, ZenonT(60) DEF PacketsComeBack, Seen
  <1> QED BY <1>8, <1>9

\* Before a datagram has arrived there is nothing to say.
LEMMA NothingArrived ==
  ASSUME arrival' = [of |-> 0]
  PROVE  DatagramsComeBack' /\ PacketsComeBack'
  BY DEF DatagramsComeBack, PacketsComeBack

-----------------------------------------------------------------------------
(* A datagram that is sent is one that can be read back *)

PayloadOf(packets, zeros) ==
  Cat(Frames!Joined([k \in DOMAIN packets |-> Packets!PacketBytes(packets[k].given)]),
      Link!Zeros(zeros))

Shipped(e, packets, zeros) ==
  LET datagram == Datagram(e, PayloadOf(packets, zeros))
  IN  [by |-> e, packets |-> packets, zeros |-> zeros, datagram |-> datagram,
       frame |-> Link!OnTheLink(datagram)]

\* What the builders of all layers have agreed to.
IsShipped(e, packets, zeros) ==
  /\ \A k \in DOMAIN packets : Packets!BuildAllowed(packets[k].given)
  /\ Link!BuildAllowed(Datagram(e, PayloadOf(packets, zeros)))

LEMMA SendIs ==
  ASSUME NEW e, NEW packets, NEW zeros, Send(e, packets, zeros)
  PROVE  /\ IsShipped(e, packets, zeros)
         /\ sent' = Append(sent, Shipped(e, packets, zeros))
         /\ arrival' = [of |-> 0] /\ scenario' = scenario /\ local' = local
  <1> DEFINE d == Datagram(e, PayloadOf(packets, zeros))
             built == [k \in DOMAIN packets |-> Packets!PacketBytes(packets[k].given)]
  <1>1. PayloadOf(packets, zeros) = Frames!Joined(built) \o Link!Zeros(zeros)
    BY DEF PayloadOf, Cat
  <1>2. /\ {k \in DOMAIN packets : ~Packets!BuildAllowed(packets[k].given)} = {}
        /\ {d} = {x \in {d} : Link!BuildAllowed(x)}
        /\ sent' = Append(sent, [by |-> e, packets |-> packets, zeros |-> zeros,
                                 datagram |-> d, frame |-> Link!OnTheLink(d)])
        /\ arrival' = [of |-> 0] /\ scenario' = scenario /\ local' = local
    BY <1>1 DEF Send
  <1> HIDE DEF d, built
  <1>3. Link!BuildAllowed(d)
    <2>1. d \in {x \in {d} : Link!BuildAllowed(x)}
      BY <1>2
    <2> QED BY <2>1
  <1>4. \A k \in DOMAIN packets : Packets!BuildAllowed(packets[k].given)
    BY <1>2
  <1> QED BY <1>2, <1>3, <1>4 DEF IsShipped, Shipped, d

LEMMA ShippedIs ==
  ASSUME NEW e, NEW packets, NEW zeros, NEW s, s = Shipped(e, packets, zeros)
  PROVE  /\ s.by = e /\ s.packets = packets /\ s.zeros = zeros
         /\ s.datagram = Datagram(e, PayloadOf(packets, zeros))
         /\ s.datagram.payload = PayloadOf(packets, zeros)
         /\ s.frame = Link!OnTheLink(s.datagram)
  <1> DEFINE d == Datagram(e, PayloadOf(packets, zeros))
  <1>1. s = [by |-> e, packets |-> packets, zeros |-> zeros, datagram |-> d,
             frame |-> Link!OnTheLink(d)]
    BY DEF Shipped
  <1>2. d.payload = PayloadOf(packets, zeros)
    BY DatagramIs
  <1> HIDE DEF d
  <1>3. s.by = e /\ s.packets = packets /\ s.zeros = zeros /\ s.datagram = d
           /\ s.frame = Link!OnTheLink(d)
    BY <1>1
  <1> QED BY <1>2, <1>3 DEF d

IsPlan(e, p) == IsPlanned(p.given) /\ (IsBareSent(e, p) \/ IsProtectedSent(e, p))

LEMMA PayloadBound ==
  ASSUME NEW e, NEW payload, Length(payload) \in Nat, Link!BuildAllowed(Datagram(e, payload))
  PROVE  Length(payload) < Link!WordValues
  <1> DEFINE d == Datagram(e, payload)
             n == Length(payload)
  <1>1. d.payload = payload
    BY DatagramIs
  <1>2. Link!UdpHeaderLength + n < Link!WordValues
    BY <1>1 DEF Link!BuildAllowed, Length
  <1> HIDE DEF n
  <1>3. n \in Nat /\ Link!WordValues \in Nat
    BY Bases DEF n
  <1>4. n < Link!WordValues
    BY <1>2, <1>3 DEF Link!UdpHeaderLength
  <1> QED BY <1>4 DEF n

LEMMA GivenBytes ==
  ASSUME NEW g, IsGivenPacket(g)
  PROVE  Packets!PacketBytes(g) \in Bytes
  <1>1. <<>> \in Bytes
    BY EmptyBytes
  <1> QED BY <1>1, PacketComesBack

\* A datagram that may be sent is as the invariant wants it.
LEMMA DatagramIsSent ==
  ASSUME IsScenario(scenario), NEW e \in Endpoints, NEW packets, NEW zeros,
         IsShipped(e, packets, zeros), NEW s, s = Shipped(e, packets, zeros),
         IsContents(s), \A k \in DOMAIN packets : IsPacketSent(e, packets[k]),
         PayloadOf(packets, zeros) \in Bytes
  PROVE  IsDatagramSent(s)
  <1> DEFINE payload == PayloadOf(packets, zeros)
  <1>1. /\ s.by = e /\ s.packets = packets
        /\ s.datagram = Datagram(e, payload)
        /\ s.frame = Link!OnTheLink(s.datagram)
    BY ShippedIs
  <1>2. IsCarrier(scenario.carrier)
    BY DEF IsScenario
  <1>3. Link!BuildAllowed(s.datagram)
    BY <1>1 DEF IsShipped
  <1>4. payload \in Bytes
    OBVIOUS
  <1> HIDE DEF payload
  <1>5. IsCarried(s.datagram) /\ (IsFragment(s.datagram) <=> scenario.carrier.fragmented)
    BY <1>1, <1>2, <1>3, <1>4, DatagramCarried
  <1> QED BY <1>1, <1>3, <1>5 DEF IsDatagramSent

\* The bytes of one packet or of two.
LEMMA OnePiece ==
  ASSUME NEW S, NEW p, Packets!PacketBytes(p.given) \in Seq(S)
  PROVE  Frames!Joined([k \in DOMAIN <<p>> |-> Packets!PacketBytes(<<p>>[k].given)])
            = Packets!PacketBytes(p.given)
  <1> DEFINE b == Packets!PacketBytes(p.given)
             pieces == [k \in DOMAIN <<p>> |-> Packets!PacketBytes(<<p>>[k].given)]
  <1>1. pieces = [k \in 1 .. 1 |-> Packets!PacketBytes(<<p>>[k].given)]
    BY OneItem
  <1>2. pieces[1] = b /\ Length(pieces) = 1
    BY <1>1, OneItem DEF Length
  <1> HIDE DEF pieces, b
  <1>3. Length(pieces) \in Nat /\ \A k \in 1 .. Length(pieces) : pieces[k] \in Seq(S)
    <2>1. \A k \in 1 .. 1 : k = 1
      OBVIOUS
    <2> QED BY <1>2, <2>1 DEF b
  <1>4. Frames!Joined(pieces) = pieces[1]
    BY <1>2, <1>3, JoinedTyped
  <1> QED BY <1>2, <1>4 DEF pieces, b

LEMMA TwoPieces ==
  ASSUME NEW S, NEW p, NEW q, Packets!PacketBytes(p.given) \in Seq(S),
         Packets!PacketBytes(q.given) \in Seq(S)
  PROVE  Frames!Joined([k \in DOMAIN <<p, q>> |-> Packets!PacketBytes(<<p, q>>[k].given)])
            = Cat(Packets!PacketBytes(p.given), Packets!PacketBytes(q.given))
  <1> DEFINE b == Packets!PacketBytes(p.given)
             c == Packets!PacketBytes(q.given)
             pieces == [k \in DOMAIN <<p, q>> |-> Packets!PacketBytes(<<p, q>>[k].given)]
  <1>1. pieces = [k \in 1 .. 2 |-> Packets!PacketBytes(<<p, q>>[k].given)]
    BY TwoItemsAre
  <1>2. pieces[1] = b /\ pieces[2] = c /\ Length(pieces) = 2
    BY <1>1, TwoItemsAre DEF Length
  <1> HIDE DEF pieces, b, c
  <1>3. Length(pieces) \in Nat /\ \A k \in 1 .. Length(pieces) : pieces[k] \in Seq(S)
    <2>1. \A k \in 1 .. 2 : k = 1 \/ k = 2
      OBVIOUS
    <2> QED BY <1>2, <2>1 DEF b, c
  <1>4. Frames!Joined(pieces) = pieces[1] \o pieces[2]
    BY <1>2, <1>3, JoinedTyped
  <1> QED BY <1>2, <1>4 DEF pieces, b, c, Cat

\* A packet that is planned and may be built comes back.
LEMMA GivenPlan ==
  ASSUME NEW e, NEW p, IsPlan(e, p), Packets!BuildAllowed(p.given)
  PROVE  /\ Packets!PacketBytes(p.given) \in Seq(Int)
         /\ Length(Packets!PacketBytes(p.given)) \in Nat
         /\ Length(Packets!PacketBytes(p.given)) < Link!WordValues =>
               IsPacketSent(e, p) /\ Packets!PacketBytes(p.given) \in Bytes
  <1> DEFINE g == p.given
             b == Packets!PacketBytes(g)
             n == Length(b)
             m == Length(g.body)
  <1>1. IsPlanned(g) /\ Packets!BuildAllowed(g)
    BY DEF IsPlan
  <1>2. b \in Seq(Int) /\ n \in Nat /\ m \in Nat /\ m <= n
    BY <1>1, BodyInPacket
  <1>3. ASSUME n < Link!WordValues PROVE IsPacketSent(e, p) /\ b \in Bytes
    <2>1. m < Link!WordValues
      <3> HIDE DEF n, m
      <3> QED BY <1>2, <1>3, Bases
    <2>2. IsGivenPacket(g)
      BY <1>1, <2>1, PlannedIsGiven
    <2>3. b \in Bytes
      BY <2>2, GivenBytes
    <2> QED BY <2>2, <2>3 DEF IsPacketSent, IsPlan
  <1> QED BY <1>2, <1>3

LEMMA NoZeros == Link!Zeros(0) = <<>>
  <1>1. Link!Zeros(0) \in Bytes /\ Length(Link!Zeros(0)) = 0
    BY ZerosTyped
  <1>2. <<>> \in Bytes /\ Length(<<>>) = 0
    BY EmptyBytes
  <1>3. \A k \in 1 .. 0 : FALSE
    OBVIOUS
  <1> QED BY <1>1, <1>2, <1>3, SameBytes

\* One packet, with zeros behind it or without.
LEMMA OneIsSent ==
  ASSUME IsScenario(scenario), NEW e \in Endpoints, NEW p, IsPlan(e, p), NEW zeros \in {0, 5},
         zeros = 5 => p.given.type \in Packets!ProtectedTypes,
         IsShipped(e, <<p>>, zeros), NEW s, s = Shipped(e, <<p>>, zeros)
  PROVE  IsDatagramSent(s) /\ PacketsOf(s) = {p} /\ s.by = e
  <1> DEFINE b == Packets!PacketBytes(p.given)
             z == Link!Zeros(zeros)
             payload == PayloadOf(<<p>>, zeros)
             n == Length(b)
  <1>1. <<p>>[1] = p /\ DOMAIN <<p>> = 1 .. 1 /\ \A k \in 1 .. 1 : k = 1
    BY OneItem
  <1>2. Packets!BuildAllowed(p.given)
    <2>1. 1 \in 1 .. 1
      OBVIOUS
    <2> QED BY <1>1, <2>1 DEF IsShipped
  <1>3. b \in Seq(Int) /\ n \in Nat
    BY <1>2, GivenPlan
  <1>4. payload = Cat(b, z)
    BY <1>3, OnePiece DEF PayloadOf
  <1>5. z \in Bytes /\ Length(z) = zeros /\ z \in Seq(Int)
    BY ZerosTyped, BytesAreIntegers
  <1>6. n < Link!WordValues
    <2> HIDE DEF b, z, n, payload
    <2>1. Length(payload) = n + zeros
      BY <1>3, <1>4, <1>5, CatSequence DEF n
    <2>2. Length(payload) \in Nat /\ n <= Length(payload)
      BY <1>3, <2>1
    <2>3. Length(payload) < Link!WordValues
      BY <2>2, PayloadBound DEF IsShipped, payload
    <2> QED BY <1>3, <2>2, <2>3, Bases
  <1>7. IsPacketSent(e, p) /\ b \in Bytes
    BY <1>2, <1>6, GivenPlan
  <1>8. /\ s.by = e /\ s.packets = <<p>> /\ s.zeros = zeros /\ s.datagram.payload = payload
    BY ShippedIs
  <1>9. payload \in Bytes
    BY <1>4, <1>5, <1>7, CatTyped
  <1>10. zeros = 0 => payload = b
    <2> HIDE DEF b, payload
    <2> QED BY <1>4, <1>7, NoZeros, CatEmpty
  <1>11. IsContents(s)
    <2>1. CASE zeros = 0
      <3>1. s.packets = <<p>> /\ s.zeros = 0 /\ s.datagram.payload = Packets!PacketBytes(p.given)
        BY <1>8, <1>10, <2>1
      <3> QED BY <3>1 DEF IsContents
    <2>2. CASE zeros = 5
      <3>1. /\ s.packets = <<p>> /\ s.zeros = 5 /\ p.given.type \in Packets!ProtectedTypes
            /\ s.datagram.payload = Cat(Packets!PacketBytes(p.given), Link!Zeros(5))
        BY <1>4, <1>8, <2>2
      <3> QED BY <3>1 DEF IsContents
    <2> QED BY <2>1, <2>2
  <1>12. \A k \in DOMAIN <<p>> : IsPacketSent(e, <<p>>[k])
    BY <1>1, <1>7
  <1> HIDE DEF payload
  <1>13. IsDatagramSent(s)
    BY <1>9, <1>11, <1>12, DatagramIsSent DEF payload
  <1>14. PacketsOf(s) = {p}
    <2>1. PacketsOf(s) = {<<p>>[k] : k \in 1 .. 1}
      BY <1>1, <1>8 DEF PacketsOf
    <2> QED BY <1>1, <2>1
  <1> QED BY <1>8, <1>13, <1>14

\* And two packets in one datagram.
LEMMA TwoAreSent ==
  ASSUME IsScenario(scenario), NEW e \in Endpoints, NEW p, IsPlan(e, p), NEW q, IsPlan(e, q),
         p.given.type \in Packets!ProtectedTypes, q.given.type \in Packets!ProtectedTypes,
         IsShipped(e, <<p, q>>, 0), NEW s, s = Shipped(e, <<p, q>>, 0)
  PROVE  IsDatagramSent(s) /\ PacketsOf(s) = {p, q} /\ s.by = e
  <1> DEFINE b == Packets!PacketBytes(p.given)
             c == Packets!PacketBytes(q.given)
             payload == PayloadOf(<<p, q>>, 0)
             n == Length(b)
             m == Length(c)
  <1>1. /\ <<p, q>>[1] = p /\ <<p, q>>[2] = q /\ DOMAIN <<p, q>> = 1 .. 2
        /\ \A k \in 1 .. 2 : k = 1 \/ k = 2
    BY TwoItemsAre
  <1>2. Packets!BuildAllowed(p.given) /\ Packets!BuildAllowed(q.given)
    <2>1. 1 \in 1 .. 2 /\ 2 \in 1 .. 2
      OBVIOUS
    <2> QED BY <1>1, <2>1 DEF IsShipped
  <1>3. b \in Seq(Int) /\ n \in Nat /\ c \in Seq(Int) /\ m \in Nat
    BY <1>2, GivenPlan
  <1>4. payload = Cat(Cat(b, c), <<>>)
    BY <1>3, TwoPieces, NoZeros DEF PayloadOf
  <1>5. n < Link!WordValues /\ m < Link!WordValues
    <2> HIDE DEF b, c, n, m, payload
    <2>1. Cat(b, c) \in Seq(Int) /\ Length(Cat(b, c)) = n + m
      BY <1>3, CatSequence DEF n, m
    <2>2. <<>> \in Seq(Int) /\ Length(<<>>) = 0
      BY EmptyBytes, BytesAreIntegers
    <2>3. Length(payload) = n + m + 0
      BY <1>4, <2>1, <2>2, CatSequence
    <2>4. Length(payload) \in Nat /\ n <= Length(payload) /\ m <= Length(payload)
      BY <1>3, <2>3
    <2>5. Length(payload) < Link!WordValues
      BY <2>4, PayloadBound DEF IsShipped, payload
    <2> QED BY <1>3, <2>4, <2>5, Bases
  <1>6. IsPacketSent(e, p) /\ b \in Bytes /\ IsPacketSent(e, q) /\ c \in Bytes
    BY <1>2, <1>5, GivenPlan
  <1>7. s.by = e /\ s.packets = <<p, q>> /\ s.zeros = 0 /\ s.datagram.payload = payload
    BY ShippedIs
  <1>8. Cat(b, c) \in Bytes
    BY <1>6, CatTyped
  <1>9. payload = Cat(b, c)
    BY <1>4, <1>8, CatEmpty
  <1>10. IsContents(s)
    BY <1>7, <1>9 DEF IsContents
  <1>11. \A k \in DOMAIN <<p, q>> : IsPacketSent(e, <<p, q>>[k])
    <2> SUFFICES ASSUME NEW k \in DOMAIN <<p, q>> PROVE IsPacketSent(e, <<p, q>>[k])
      OBVIOUS
    <2>1. k = 1 \/ k = 2
      BY <1>1
    <2> QED BY <1>1, <1>6, <2>1
  <1>12. payload \in Bytes
    BY <1>8, <1>9
  <1> HIDE DEF payload
  <1>13. IsDatagramSent(s)
    BY <1>10, <1>11, <1>12, DatagramIsSent DEF payload
  <1>14. PacketsOf(s) = {p, q}
    <2>1. PacketsOf(s) = {<<p, q>>[k] : k \in 1 .. 2}
      BY <1>1, <1>7 DEF PacketsOf
    <2>2. 1 \in 1 .. 2 /\ 2 \in 1 .. 2
      OBVIOUS
    <2>3. p \in PacketsOf(s) /\ q \in PacketsOf(s)
      BY <1>1, <2>1, <2>2
    <2>4. ASSUME NEW x \in PacketsOf(s) PROVE x \in {p, q}
      <3>1. PICK k \in 1 .. 2 : x = <<p, q>>[k]
        BY <2>1
      <3> QED BY <1>1, <3>1
    <2> QED BY <2>3, <2>4
  <1> QED BY <1>7, <1>13, <1>14

-----------------------------------------------------------------------------
(* The packets the users build *)

LEMMA CidsTyped ==
  /\ ClientCid \in Bytes /\ Length(ClientCid) = 1
  /\ OriginalCid \in Bytes /\ Length(OriginalCid) = 3
  /\ RetryCid \in Bytes /\ Length(RetryCid) = 2
  /\ ServerCid \in Bytes /\ Length(ServerCid) = 1
  /\ RetryToken \in Bytes /\ Length(RetryToken) = 2
  <1>1. \A x, y, z \in Link!Byte :
           /\ <<x>> \in Seq(Link!Byte) /\ <<x, y>> \in Seq(Link!Byte)
           /\ <<x, y, z>> \in Seq(Link!Byte)
    OBVIOUS
  <1>2. \A n \in 0 .. 12 : n \in Link!Byte
    BY SmallBytes
  <1>3. /\ <<12>> \in Seq(Link!Byte) /\ <<1, 2, 3>> \in Seq(Link!Byte)
        /\ <<4, 5>> \in Seq(Link!Byte) /\ <<6>> \in Seq(Link!Byte) /\ <<9, 9>> \in Seq(Link!Byte)
    BY <1>1, <1>2
  <1> QED BY <1>3 DEF ClientCid, OriginalCid, RetryCid, ServerCid, RetryToken, Bytes, Length

LEMMA GivenIs ==
  ASSUME NEW type, NEW dcid, NEW scid, NEW token
  PROVE  LET g == Given(type, dcid, scid, token)
         IN  /\ g.type = type /\ g.low = 0 /\ g.version = scenario.version /\ g.dcid = dcid
             /\ g.scid = scid /\ g.token = token /\ g.body = <<>>
             /\ g.widths = IF type = "Short" THEN <<>> ELSE scenario.widths
  BY DEF Given

IsSealedOf(g, h, number, payload) ==
  /\ IsSealed(g, number, payload)
  /\ g.type = h.type /\ g.version = h.version /\ g.dcid = h.dcid /\ g.scid = h.scid
  /\ g.token = h.token /\ g.widths = h.widths

\* What Sealed adds to a given packet.
LEMMA SealedIs ==
  ASSUME NEW type, NEW dcid, NEW scid, NEW token, NEW number, NEW payload,
         NEW h, h = Given(type, dcid, scid, token)
  PROVE  IsSealedOf(Sealed(h, number, payload), h, number, payload)
  <1> DEFINE low == (Len(number) - 1 + Mask) % ProtectedBits(h.type)
             body == Cat(Cat(MaskedNumber(number), payload), <<TAG>>)
             version == scenario.version
             widths == IF type = "Short" THEN <<>> ELSE scenario.widths
             g == Sealed(h, number, payload)
  <1>1. g = [h EXCEPT !.low = low, !.body = body]
    BY DEF Sealed, MaskedNumber, Cat
  <1>2. h = [type |-> type, low |-> 0, version |-> version, dcid |-> dcid, scid |-> scid,
             token |-> token, body |-> <<>>, widths |-> widths]
    BY DEF Given
  <1> HIDE DEF low, body, version, widths, g
  <1>3. /\ g.low = low /\ g.body = body /\ g.type = h.type /\ g.version = h.version
        /\ g.dcid = h.dcid /\ g.scid = h.scid /\ g.token = h.token /\ g.widths = h.widths
    BY <1>1, <1>2
  <1>4. IsSealed(g, number, payload)
    BY <1>3 DEF IsSealed, low, body, Length
  <1>5. IsSealedOf(g, h, number, payload)
    BY <1>3, <1>4 DEF IsSealedOf
  <1> QED BY <1>5 DEF g

\* The connection IDs and the token of a packet of this type.
AreIds(e, type, dcid, scid, token) ==
  /\ dcid \in Bytes /\ Length(dcid) <= 20
  /\ scid \in Bytes /\ Length(scid) <= 20
  /\ token \in Bytes /\ Length(token) <= 20
  /\ type # "Initial" => token = <<>>
  /\ type = "Initial" => scid = InitialCid(e)
  /\ type = "Short" => scid = <<>> /\ Length(dcid) = 1

AreFrames(frames, acked) ==
  /\ PayloadBytes(frames) \in Bytes
  /\ acked # {} =>
        /\ acked \in SUBSET PacketNumbers
        /\ \E type \in {2, 3} : \E more \in Bytes :
              PayloadBytes(frames) = Cat(FrameBytes(AckFrame(acked, type)), more)

LEMMA LowOfSealed ==
  ASSUME NEW n \in {1, 2}, NEW type
  PROVE  (n - 1 + Mask) % ProtectedBits(type) \in Nat
  <1>1. ProtectedBits(type) = 32 \/ ProtectedBits(type) = 16
    BY DEF ProtectedBits
  <1>2. n - 1 + Mask = 5 \/ n - 1 + Mask = 6
    BY DEF Mask
  <1> QED BY <1>1, <1>2

\* A protected packet of frames, with the next number of its space.
LEMMA ProtectedPlan ==
  ASSUME IsScenario(scenario), NEW e \in Endpoints,
         NEW type \in Packets!ProtectedTypes \cup {"Short"},
         NEW dcid, NEW scid, NEW token, AreIds(e, type, dcid, scid, token),
         NEW frames, NEW acked, AreFrames(frames, acked),
         NextNumber(e, Space(type)) \in PacketNumbers,
         NEW p, p = Protected(e, type, Given(type, dcid, scid, token), frames, acked)
  PROVE  /\ IsPlan(e, p)
         /\ p.given.type = type /\ p.space = Space(type)
         /\ p.number = NextNumber(e, Space(type)) /\ p.acked = acked
  <1> DEFINE h == Given(type, dcid, scid, token)
             next == NextNumber(e, Space(type))
             number == IF type \in {"Initial", "Handshake"} THEN <<next>> ELSE <<0, next>>
             payload == PayloadBytes(frames)
             g == Sealed(h, number, payload)
             space == Space(type)
  <1>1. p = [given |-> g, space |-> space, number |-> next, frames |-> frames, acked |-> acked]
    BY DEF Protected
  <1>2. IsSealedOf(g, h, number, payload)
    BY SealedIs
  <1>3. /\ h.type = type /\ h.version = scenario.version /\ h.dcid = dcid
        /\ h.scid = scid /\ h.token = token
        /\ h.widths = IF type = "Short" THEN <<>> ELSE scenario.widths
    BY GivenIs
  <1>4. payload \in Bytes
    BY DEF AreFrames
  <1> HIDE DEF h, next, number, payload, g, space
  <1>5. /\ p.given = g /\ p.space = space /\ p.number = next /\ p.frames = frames
        /\ p.acked = acked
    BY <1>1
  <1>6. /\ g.type = type /\ g.version = scenario.version /\ g.dcid = dcid
        /\ g.scid = scid /\ g.token = token
        /\ g.widths = IF type = "Short" THEN <<>> ELSE scenario.widths
        /\ IsSealed(g, number, payload)
    BY <1>2, <1>3 DEF IsSealedOf
  <1>7. p.number \in PacketNumbers
    BY <1>5 DEF next
  <1>8. SentNumber(p) = number
    BY <1>5, <1>6 DEF SentNumber, number
  <1>9. number \in NumberBytes
    BY <1>7, <1>8, NumberOfSent
  <1>10. g.body \in Bytes /\ Length(number) \in {1, 2}
    BY <1>4, <1>6, <1>9, SealedBody
  <1>11. g.low \in Nat
    BY <1>6, <1>10, LowOfSealed DEF IsSealed
  <1>12. IsPlanned(g)
    <2>1. g.type \in Packets!ProtectedTypes \cup {"Retry", "Short", "VersionNegotiation", "Unknown"}
      BY <1>6
    <2>2. g.version \in Bytes /\ Length(g.version) = 4
      BY <1>6 DEF IsScenario, Bytes, Length
    <2>3. g.dcid \in Bytes /\ Length(g.dcid) <= 20 /\ g.scid \in Bytes /\ Length(g.scid) <= 20
      BY <1>6 DEF AreIds
    <2>4. g.token \in Bytes /\ Length(g.token) < Link!WordValues
      <3> DEFINE n == Length(token)
      <3>1. token \in Bytes /\ n <= 20 /\ n \in Nat
        BY LengthIsNat DEF AreIds
      <3> HIDE DEF n
      <3>2. n < Link!WordValues
        BY <3>1, LinkBase, SMT
      <3> QED BY <1>6, <3>1, <3>2 DEF n
    <2>5. g.widths # <<>> => g.widths[1] \in Packets!Lengths /\ g.widths[2] \in Packets!Lengths
      <3>1. g.widths = <<>> \/ g.widths = scenario.widths
        BY <1>6
      <3>2. scenario.widths # <<>> => scenario.widths \in Packets!Lengths \X Packets!Lengths
        BY DEF IsScenario
      <3> QED BY <3>1, <3>2
    <2>6. /\ g.type \notin {"Initial", "Retry"} => g.token = <<>>
          /\ g.type = "Short" => g.scid = <<>>
      BY <1>6 DEF AreIds
    <2>7. g.type # "Unknown"
      BY <1>6 DEF Packets!ProtectedTypes
    <2> QED BY <1>10, <1>11, <2>1, <2>2, <2>3, <2>4, <2>5, <2>6, <2>7 DEF IsPlanned
  <1>13. IsProtectedSent(e, p)
    <2>1. p.given.type \in Packets!ProtectedTypes \cup {"Short"} /\ p.space = Space(p.given.type)
      BY <1>5, <1>6 DEF space
    <2>2. PayloadBytes(p.frames) \in Bytes
      BY <1>4, <1>5 DEF payload
    <2>3. IsSealed(p.given, SentNumber(p), PayloadBytes(p.frames))
      BY <1>5, <1>6, <1>8 DEF payload
    <2>4. /\ p.given.type = "Initial" => p.given.scid = InitialCid(e)
          /\ p.given.type = "Short" => Length(p.given.dcid) = 1
      BY <1>5, <1>6 DEF AreIds
    <2>5. IsAckSent(p)
      BY <1>5 DEF AreFrames, IsAckSent
    <2> QED BY <1>7, <2>1, <2>2, <2>3, <2>4, <2>5 DEF IsProtectedSent
  <1>14. IsPlan(e, p)
    BY <1>5, <1>12, <1>13 DEF IsPlan
  <1> QED BY <1>5, <1>6, <1>14 DEF next, space

-----------------------------------------------------------------------------
(* A datagram that is sent keeps the invariant *)

\* The packets of a datagram take the next numbers of their spaces, and acknowledge what
\* the peer has sent.
AreNext(e, M) ==
  /\ \A space \in Spaces :
        \/ \A p \in M : p.space # space
        \/ /\ Cardinality(NumbersSent(e, space)) < 3
           /\ \A p \in M : p.space = space => p.number = NextNumber(e, space)
  /\ \A p, q \in M : p.space # "None" /\ p.space = q.space => p = q
  /\ \A p \in M : p.acked \subseteq NumbersSent(Other(e), p.space)

LEMMA SpaceOfSent ==
  ASSUME NEW e, NEW p, IsPacketSent(e, p)
  PROVE  p.space \in Spaces \cup {"None"}
  BY DEF IsPacketSent, IsBareSent, IsProtectedSent, Space, Spaces, Packets!ProtectedTypes

LEMMA NextNumberIs ==
  ASSUME NEW e, NEW space
  PROVE  NextNumber(e, space) = NextOf(NumbersSent(e, space))
  BY DEF NextNumber, NextOf

\* The numbers of one space after the packets M have been sent.
LEMMA NumbersGrow ==
  ASSUME NumbersInOrder, NEW e \in Endpoints, NEW M, AreNext(e, M), NEW space \in Spaces
  PROVE  LET P == NumbersSent(e, space)
             Q == {p.number : p \in {p \in M : p.space = space}}
         IN  /\ P \cup Q \in Prefixes
             /\ \A p \in M : p.space = space => p.number \notin P
             /\ (\E p \in M : p.space = space) => P \cup Q = P \cup {NextOf(P)}
  <1> DEFINE P == NumbersSent(e, space)
             Q == {p.number : p \in {p \in M : p.space = space}}
  <1>1. P \in Prefixes
    BY DEF NumbersInOrder
  <1>2. CASE \A p \in M : p.space # space
    <2>1. Q = {}
      BY <1>2
    <2>2. P \cup Q = P
      BY <2>1
    <2> QED BY <1>1, <1>2, <2>2
  <1>3. CASE /\ Cardinality(P) < 3
             /\ \A p \in M : p.space = space => p.number = NextNumber(e, space)
             /\ \E p \in M : p.space = space
    <2>1. NextNumber(e, space) = NextOf(P)
      BY NextNumberIs
    <2>2. \A p \in M : p.space = space => p.number = NextOf(P)
      BY <1>3, <2>1
    <2>3. Q = {NextOf(P)}
      BY <1>3, <2>2
    <2> HIDE DEF P, Q
    <2>4. NextOf(P) \notin P /\ P \cup {NextOf(P)} \in Prefixes
      BY <1>1, <1>3, NextIsNew
    <2> QED BY <2>2, <2>3, <2>4 DEF P, Q
  <1>4. \/ \A p \in M : p.space # space
        \/ /\ Cardinality(P) < 3
           /\ \A p \in M : p.space = space => p.number = NextNumber(e, space)
    BY DEF AreNext
  <1> QED BY <1>2, <1>3, <1>4

\* Sending packets with the next numbers of their spaces keeps the invariant.
LEMMA SendKeeps ==
  ASSUME PathInvariant, NEW e \in Endpoints, NEW s, IsDatagramSent(s), s.by = e,
         sent' = Append(sent, s), scenario' = scenario, local' = local,
         NEW M, PacketsOf(s) = M, AreNext(e, M), SpacesInStep',
         sent = <<>> => e = "Client"
  PROVE  PathInvariant'
  <1>1. PICK S : sent \in Seq(S)
    BY DEF PathInvariant
  <1>2. \A f : PacketsSent(f)' = PacketsSent(f) \cup (IF e = f THEN M ELSE {})
    BY <1>1, PacketsAfter
  <1>3. /\ \A i \in DOMAIN sent' : (i \in DOMAIN sent /\ sent'[i] = sent[i]) \/ sent'[i] = s
        /\ \E T : sent' \in Seq(T)
        /\ sent = <<>> => sent'[1] = s
        /\ sent # <<>> => sent'[1] = sent[1]
        /\ sent' # <<>>
    BY <1>1, PacketsAfter
  <1>4. \A space : NumbersSent(e, space)'
                      = NumbersSent(e, space) \cup {p.number : p \in {p \in M : p.space = space}}
    <2>1. PacketsSent(e)' = PacketsSent(e) \cup M
      BY <1>2
    <2> QED BY <2>1, NumbersAfter
  <1>5. \A f, space : f # e => NumbersSent(f, space)' = NumbersSent(f, space)
    <2>1. \A f : f # e => PacketsSent(f)' = PacketsSent(f)
      BY <1>2
    <2> QED BY <2>1 DEF NumbersSent
  <1>6. \A f, space : NumbersSent(f, space) \subseteq NumbersSent(f, space)'
    BY <1>4, <1>5
  <1>7. /\ NumbersInOrder /\ NumbersAreUnique /\ AcksOfSent /\ ClientBegins
        /\ \A f \in Endpoints : local[f] \in Known(f)
        /\ DOMAIN local = Endpoints /\ IsScenario(scenario)
        /\ \A i \in DOMAIN sent : IsDatagramSent(sent[i])
    BY DEF PathInvariant
  <1>8. PacketsAreSent /\ \A p \in M : IsPacketSent(e, p)
    <2>1. PacketsAreSent
      BY SentIs
    <2>2. \A p \in M : IsPacketSent(e, p)
      BY DEF IsDatagramSent, PacketsOf
    <2> QED BY <2>1, <2>2
  <1>9. NumbersInOrder'
    <2> SUFFICES ASSUME NEW f \in Endpoints, NEW space \in Spaces
                 PROVE  NumbersSent(f, space)' \in Prefixes
      BY DEF NumbersInOrder
    <2>1. CASE f = e
      BY <1>4, <1>7, <2>1, NumbersGrow
    <2>2. CASE f # e
      BY <1>5, <1>7, <2>2 DEF NumbersInOrder
    <2> QED BY <2>1, <2>2
  <1>10. NumbersAreUnique'
    <2> SUFFICES ASSUME NEW f \in Endpoints, NEW p \in PacketsSent(f)', NEW q \in PacketsSent(f)',
                        p.space # "None", p.space = q.space, p.number = q.number
                 PROVE  p = q
      BY DEF NumbersAreUnique
    <2>1. CASE p \in PacketsSent(f) /\ q \in PacketsSent(f)
      BY <1>7, <2>1 DEF NumbersAreUnique
    <2>2. CASE f = e /\ p \in M /\ q \in M
      BY <2>2 DEF AreNext
    <2>3. ASSUME f = e, NEW x \in PacketsSent(e), NEW y \in M, x.space = y.space,
                 x.number = y.number, y.space # "None"
          PROVE  FALSE
      <3>1. y.space \in Spaces
        BY <1>8, <2>3, SpaceOfSent
      <3>2. y.number \notin NumbersSent(e, y.space)
        BY <1>7, <3>1, NumbersGrow
      <3>3. x.number \in NumbersSent(e, y.space)
        BY <2>3 DEF NumbersSent
      <3> QED BY <2>3, <3>2, <3>3
    <2> QED BY <1>2, <2>1, <2>2, <2>3
  <1>11. AcksOfSent'
    <2> SUFFICES ASSUME NEW f \in Endpoints, NEW p \in PacketsSent(f)'
                 PROVE  p.acked \subseteq NumbersSent(Other(f), p.space)'
      BY DEF AcksOfSent, Other
    <2>1. p.acked \subseteq NumbersSent(Other(f), p.space)
      <3>1. CASE p \in PacketsSent(f)
        BY <1>7, <3>1 DEF AcksOfSent
      <3>2. CASE f = e /\ p \in M
        BY <3>2 DEF AreNext
      <3> QED BY <1>2, <3>1, <3>2
    <2> QED BY <1>6, <2>1
  <1>12. (DOMAIN local = Endpoints)' /\ (\A f \in Endpoints : local[f] \in Known(f))'
    <2>1. ASSUME NEW f PROVE Known(f) \subseteq Known(f)'
      <3>1. PacketsSent(Other(f)) \subseteq PacketsSent(Other(f))'
        <4>1. PacketsSent(Other(f))' = PacketsSent(Other(f)) \cup (IF e = Other(f) THEN M ELSE {})
          BY <1>1, PacketsAfter
        <4> QED BY <4>1
      <3>2. Readable(f) \subseteq Readable(f)'
        BY <3>1 DEF Readable, PayloadBytes, FrameBytes
      <3>3. ASSUME NEW now, IsKnown(f, now) PROVE IsKnown(f, now)'
        BY <3>2, <3>3 DEF IsKnown, HasParts, KnownPeer, KnownRetry, ParameterSpace, InitialCid, Other
      <3>4. ASSUME NEW now PROVE (now \in Known(f))' <=> IsKnown(f, now)'
        BY DEF Known, IsKnown, HasParts, KnownPeer, KnownRetry
      <3> QED BY <3>3, <3>4, KnownIs
    <2> QED BY <1>7, <2>1
  <1>13. ClientBegins'
    <2>1. sent'[1].by = "Client"
      BY <1>3, <1>7 DEF ClientBegins
    <2> QED BY <1>3, <2>1 DEF ClientBegins
  <1>14. (\E T : sent \in Seq(T))' /\ (\A i \in DOMAIN sent : IsDatagramSent(sent[i]))'
    <2>1. \A i \in DOMAIN sent' : IsDatagramSent(sent'[i])
      BY <1>3, <1>7
    <2>2. \A x : IsDatagramSent(x)' <=> IsDatagramSent(x)
      BY DEF IsDatagramSent
    <2>3. (\A i \in DOMAIN sent : IsDatagramSent(sent[i]))'
      BY <2>1 DEF IsDatagramSent
    <2> QED BY <1>3, <2>3
  <1> QED BY <1>7, <1>9, <1>10, <1>11, <1>12, <1>13, <1>14 DEF PathInvariant

LEMMA OneIsNext ==
  ASSUME NEW e, NEW p, p.acked \subseteq NumbersSent(Other(e), p.space),
         \/ p.space = "None"
         \/ /\ Cardinality(NumbersSent(e, p.space)) < 3
            /\ p.number = NextNumber(e, p.space)
  PROVE  AreNext(e, {p})
  <1>1. "None" \notin Spaces
    BY DEF Spaces
  <1> QED BY <1>1 DEF AreNext

LEMMA TwoAreNext ==
  ASSUME NEW e, NEW p, NEW q, p.space # q.space,
         p.acked \subseteq NumbersSent(Other(e), p.space),
         q.acked \subseteq NumbersSent(Other(e), q.space),
         Cardinality(NumbersSent(e, p.space)) < 3, p.number = NextNumber(e, p.space),
         Cardinality(NumbersSent(e, q.space)) < 3, q.number = NextNumber(e, q.space)
  PROVE  AreNext(e, {p, q})
  <1>1. ASSUME NEW space \in Spaces
        PROVE  \/ \A x \in {p, q} : x.space # space
               \/ /\ Cardinality(NumbersSent(e, space)) < 3
                  /\ \A x \in {p, q} : x.space = space => x.number = NextNumber(e, space)
    <2>1. CASE space = p.space
      BY <2>1
    <2>2. CASE space = q.space
      BY <2>2
    <2>3. CASE space # p.space /\ space # q.space
      BY <2>3
    <2> QED BY <2>1, <2>2, <2>3
  <1>2. \A x, y \in {p, q} : x.space # "None" /\ x.space = y.space => x = y
    OBVIOUS
  <1>3. \A x \in {p, q} : x.acked \subseteq NumbersSent(Other(e), x.space)
    OBVIOUS
  <1> QED BY <1>1, <1>2, <1>3 DEF AreNext

LEMMA NumberInSpace ==
  ASSUME NumbersInOrder, NEW e \in Endpoints, NEW space \in Spaces,
         Cardinality(NumbersSent(e, space)) < 3
  PROVE  NextNumber(e, space) \in PacketNumbers
  <1> DEFINE P == NumbersSent(e, space)
  <1>1. P \in Prefixes /\ Cardinality(P) < 3 /\ NextNumber(e, space) = NextOf(P)
    BY NextNumberIs DEF NumbersInOrder
  <1> HIDE DEF P
  <1>2. NextOf(P) \in PacketNumbers
    BY <1>1, NextIsNew
  <1> QED BY <1>1, <1>2

LEMMA CountIs ==
  ASSUME NumbersInOrder, NEW e \in Endpoints, NEW space \in Spaces, NEW limit \in 0 .. Len(NUMBERS),
         Cardinality(NumbersSent(e, space)) < limit
  PROVE  Cardinality(NumbersSent(e, space)) < 3
  <1> DEFINE n == Cardinality(NumbersSent(e, space))
  <1>1. n \in 0 .. 3
    BY NextOfPrefix DEF NumbersInOrder
  <1>2. limit \in 0 .. 3
    BY DEF NUMBERS
  <1> HIDE DEF n
  <1>3. n < 3
    BY <1>1, <1>2 DEF n
  <1> QED BY <1>3 DEF n

\* An endpoint that has come to a verdict knows its peer.
LEMMA PeerIs ==
  ASSUME PathInvariant, NEW e \in Endpoints, local[e].peer # <<>>
  PROVE  PeerCid(e) = InitialCid(Other(e)) /\ PeerCid(e) \in Bytes /\ Length(PeerCid(e)) = 1
  <1>1. local[e] \in Known(e)
    BY DEF PathInvariant
  <1>2. IsKnown(e, local[e])
    BY <1>1, KnownIs
  <1>3. local[e].peer = <<InitialCid(Other(e))>>
    BY <1>2 DEF IsKnown, KnownPeer
  <1>4. PeerCid(e) = InitialCid(Other(e))
    BY <1>3 DEF PeerCid
  <1> QED BY <1>4, CidsTyped DEF InitialCid

\* Who has judged has heard of the other end and has taken its parameters.
LEMMA VerdictKnown ==
  ASSUME PathInvariant, NEW e \in Endpoints, local[e].verdict # "None"
  PROVE  /\ local[e].peer # <<>>
         /\ \E r \in local[e].read : r.space = ParameterSpace(e)
         /\ sent # <<>>
  <1>1. local[e] \in Known(e)
    BY DEF PathInvariant
  <1>2. IsKnown(e, local[e])
    BY <1>1, KnownIs
  <1>3. PICK r \in local[e].read : r.space = ParameterSpace(e)
    BY <1>2 DEF IsKnown
  <1>4. r \in Readable(e)
    BY <1>2 DEF IsKnown
  <1>5. \E p : p \in PacketsSent(Other(e))
    BY <1>4 DEF Readable
  <1>6. sent # <<>>
    BY <1>5 DEF PacketsSent
  <1> QED BY <1>2, <1>3, <1>6 DEF IsKnown

\* What was read are numbers of the peer.
LEMMA ReadAreSent ==
  ASSUME PathInvariant, NEW e \in Endpoints, NEW space \in Spaces
  PROVE  /\ NumbersRead(e, space) \subseteq NumbersSent(Other(e), space)
         /\ NumbersRead(e, space) \in SUBSET PacketNumbers
  <1>1. local[e] \in Known(e)
    BY DEF PathInvariant
  <1>2. local[e].read \subseteq Readable(e)
    BY <1>1, KnownIs DEF IsKnown
  <1>3. ASSUME NEW n \in NumbersRead(e, space) PROVE n \in NumbersSent(Other(e), space)
    <2>1. PICK r \in local[e].read : r.space = space /\ r.number = n
      BY DEF NumbersRead
    <2>2. PICK p \in PacketsSent(Other(e)) :
             r = [space |-> p.space, number |-> p.number,
                  frames |-> Frames!FramesIn(PayloadBytes(p.frames))]
      BY <1>2, <2>1 DEF Readable
    <2>3. p.space = space /\ p.number = n
      BY <2>1, <2>2
    <2> QED BY <2>3 DEF NumbersSent
  <1>4. NumbersSent(Other(e), space) \subseteq PacketNumbers
    <2>1. NumbersSent(Other(e), space) \in Prefixes
      BY OtherEnds DEF PathInvariant, NumbersInOrder
    <2> QED BY <2>1, NextOfPrefix
  <1> QED BY <1>3, <1>4

\* A packet of this type is in this space and no other one is.
LEMMA NumbersOfType ==
  ASSUME PathInvariant, NEW e \in Endpoints, NEW type \in {"Initial", "Handshake"},
         ~ HasSent(e, type)
  PROVE  NumbersSent(e, type) = {} /\ Cardinality(NumbersSent(e, type)) < 3
  <1>1. NumbersSent(e, type) = {}
    <2> SUFFICES ASSUME NEW p \in PacketsSent(e), p.space = type PROVE FALSE
      BY DEF NumbersSent
    <2>1. IsPacketSent(e, p)
      BY SentIs DEF PacketsAreSent
    <2>2. p.given.type = type
      BY <2>1 DEF IsPacketSent, IsBareSent, IsProtectedSent, Space, Packets!ProtectedTypes
    <2> QED BY <2>2 DEF HasSent
  <1> QED BY <1>1, PrefixSizes

\* What one packet's datagram does, and what two packets' does.
LEMMA SendOne ==
  ASSUME PathInvariant, NEW e \in Endpoints, NEW p, IsPlan(e, p), NEW zeros \in {0, 5},
         zeros = 5 => p.given.type \in Packets!ProtectedTypes,
         Send(e, <<p>>, zeros), AreNext(e, {p}), sent = <<>> => e = "Client",
         \A s : (s.by = e /\ PacketsOf(s) = {p} /\ sent' = Append(sent, s) /\ local' = local)
                   => SpacesInStep'
  PROVE  PathInvariant' /\ arrival' = [of |-> 0]
  <1>1. /\ IsShipped(e, <<p>>, zeros)
        /\ sent' = Append(sent, Shipped(e, <<p>>, zeros))
        /\ arrival' = [of |-> 0] /\ scenario' = scenario /\ local' = local
    BY SendIs
  <1> DEFINE s == Shipped(e, <<p>>, zeros)
  <1>2. IsScenario(scenario)
    BY DEF PathInvariant
  <1>3. IsDatagramSent(s) /\ PacketsOf(s) = {p} /\ s.by = e
    BY <1>1, <1>2, OneIsSent
  <1>4. sent' = Append(sent, s)
    BY <1>1
  <1> HIDE DEF s
  <1>5. SpacesInStep'
    BY <1>1, <1>3, <1>4
  <1>6. PathInvariant'
    BY <1>1, <1>3, <1>4, <1>5, SendKeeps
  <1> QED BY <1>1, <1>6

\* Two packets in one datagram likewise.
LEMMA SendTwo ==
  ASSUME PathInvariant, NEW e \in Endpoints, NEW p, IsPlan(e, p), NEW q, IsPlan(e, q),
         p.given.type \in Packets!ProtectedTypes, q.given.type \in Packets!ProtectedTypes,
         Send(e, <<p, q>>, 0), AreNext(e, {p, q}), sent = <<>> => e = "Client",
         \A s : (s.by = e /\ PacketsOf(s) = {p, q} /\ sent' = Append(sent, s) /\ local' = local)
                   => SpacesInStep'
  PROVE  PathInvariant' /\ arrival' = [of |-> 0]
  <1>1. /\ IsShipped(e, <<p, q>>, 0)
        /\ sent' = Append(sent, Shipped(e, <<p, q>>, 0))
        /\ arrival' = [of |-> 0] /\ scenario' = scenario /\ local' = local
    BY SendIs
  <1> DEFINE s == Shipped(e, <<p, q>>, 0)
  <1>2. IsScenario(scenario)
    BY DEF PathInvariant
  <1>3. IsDatagramSent(s) /\ PacketsOf(s) = {p, q} /\ s.by = e
    BY <1>1, <1>2, TwoAreSent
  <1>4. sent' = Append(sent, s)
    BY <1>1
  <1> HIDE DEF s
  <1>5. SpacesInStep'
    BY <1>1, <1>3, <1>4
  <1>6. PathInvariant'
    BY <1>1, <1>3, <1>4, <1>5, SendKeeps
  <1> QED BY <1>1, <1>6

\* The three packets without protection.
LEMMA BarePlan ==
  ASSUME IsScenario(scenario), NEW e \in Endpoints, NEW g, NEW p, p = Bare(g),
         IsPlanned(g), g.type \in {"Unknown", "VersionNegotiation", "Retry"},
         g.type = "Retry" => e = "Server" /\ g.scid = RetryCid /\ g.token = RetryToken
  PROVE  /\ IsPlan(e, p) /\ AreNext(e, {p})
         /\ p.given.type = g.type
         /\ p.space = "None"
  <1>1. p = [given |-> g, space |-> "None", number |-> 0, frames |-> <<>>, acked |-> {}]
    BY DEF Bare
  <1>2. p.given = g /\ p.space = "None" /\ p.acked = {}
    BY <1>1
  <1>3. IsPlan(e, p)
    BY <1>2 DEF IsPlan, IsBareSent
  <1>4. AreNext(e, {p})
    BY <1>2, OneIsNext
  <1> QED BY <1>2, <1>3, <1>4

\* A given packet with another body and another version.
LEMMA BareGiven ==
  ASSUME IsScenario(scenario), NEW type \in {"Unknown", "VersionNegotiation", "Retry"},
         NEW dcid \in Bytes, Length(dcid) <= 20, NEW scid \in Bytes, Length(scid) <= 20,
         NEW token \in Bytes, Length(token) <= 20, type # "Retry" => token = <<>>,
         NEW body \in Bytes, NEW version \in Bytes, Length(version) = 4,
         type = "Unknown" => version \notin Packets!Versions \cup {Packets!NEGOTIATION},
         NEW g, g.type = type, g.low = 0, g.version = version, g.dcid = dcid, g.scid = scid,
         g.token = token, g.body = body, g.widths = scenario.widths
  PROVE  IsPlanned(g)
  <1>1. g.token \in Bytes /\ Length(g.token) < Link!WordValues
    <2> DEFINE n == Length(token)
    <2>1. n <= 20 /\ n \in Nat
      BY LengthIsNat
    <2> HIDE DEF n
    <2>2. n < Link!WordValues
      BY <2>1, LinkBase, SMT
    <2> QED BY <2>2 DEF n
  <1>2. g.widths # <<>> => g.widths[1] \in Packets!Lengths /\ g.widths[2] \in Packets!Lengths
    <2>1. scenario.widths # <<>> => scenario.widths \in Packets!Lengths \X Packets!Lengths
      BY DEF IsScenario
    <2> QED BY <2>1
  <1>3. /\ g.type \in Packets!ProtectedTypes \cup {"Retry", "Short", "VersionNegotiation", "Unknown"}
        /\ g.low \in Nat /\ g.low < 128
    OBVIOUS
  <1>4. /\ g.type \notin {"Initial", "Retry"} => g.token = <<>>
        /\ g.type # "Short"
    OBVIOUS
  <1> QED BY <1>1, <1>2, <1>3, <1>4 DEF IsPlanned

LEMMA BareBytes ==
  /\ <<7, 7>> \in Bytes
  /\ Packets!NEGOTIATION \in Bytes /\ Length(Packets!NEGOTIATION) = 4
  /\ Packets!V1 \o Packets!V2 \in Bytes
  /\ [k \in 1 .. Packets!TagLength |-> TAG] \in Bytes
  <1>1. {0, 1, 7, 107, 51, 67, 207, 255} \subseteq Link!Byte
    BY LinkBase, SMT
  <1>2. \A x, y \in Link!Byte : <<x, y>> \in Seq(Link!Byte)
    OBVIOUS
  <1>3. \A x, y, z, w \in Link!Byte : <<x, y, z, w>> \in Seq(Link!Byte)
    OBVIOUS
  <1>4. <<7, 7>> \in Bytes
    BY <1>1, <1>2 DEF Bytes
  <1>5. Packets!NEGOTIATION \in Bytes /\ Length(Packets!NEGOTIATION) = 4
    BY <1>1, <1>3 DEF Packets!NEGOTIATION, Bytes, Length
  <1>6. Packets!V1 \in Bytes /\ Packets!V2 \in Bytes
    BY <1>1, <1>3 DEF Packets!V1, Packets!V2, Bytes
  <1>7. Packets!V1 \o Packets!V2 \in Bytes
    <2>1. Cat(Packets!V1, Packets!V2) \in Bytes
      BY <1>6, CatTyped
    <2> QED BY <2>1 DEF Cat
  <1>8. [k \in 1 .. Packets!TagLength |-> TAG] \in Bytes
    <2>1. TAG \in Link!Byte
      BY <1>1 DEF TAG
    <2> QED BY <2>1 DEF Packets!TagLength, Bytes
  <1> QED BY <1>4, <1>5, <1>7, <1>8

\* A packet without protection changes no numbers.
LEMMA BareInStep ==
  ASSUME PathInvariant, NEW e \in Endpoints, NEW p, p.space = "None",
         p.given.type \notin {"Initial", "Handshake"},
         NEW s, s.by = e, PacketsOf(s) = {p}, sent' = Append(sent, s), local' = local
  PROVE  SpacesInStep'
  <1>1. PICK S : sent \in Seq(S)
    BY DEF PathInvariant
  <1>2. \A f : PacketsSent(f)' = PacketsSent(f) \cup (IF e = f THEN {p} ELSE {})
    BY <1>1, PacketsAfter
  <1>3. \A f : HasSent(f, "Initial")' <=> HasSent(f, "Initial")
    BY <1>2 DEF HasSent
  <1>4. \A f : HasSent(f, "Handshake")' <=> HasSent(f, "Handshake")
    BY <1>2 DEF HasSent
  <1>5. \A f : /\ NumbersSent(f, "Initial")' = NumbersSent(f, "Initial")
               /\ NumbersSent(f, "Application")' = NumbersSent(f, "Application")
    BY <1>2 DEF NumbersSent
  <1>6. SpacesInStep
    BY DEF PathInvariant
  <1> QED BY <1>3, <1>4, <1>5, <1>6 DEF SpacesInStep

\* The steps that send, one after the other.
LEMMA UnknownKeeps ==
  ASSUME PathInvariant, ClientSendsUnknown
  PROVE  PathInvariant' /\ arrival' = [of |-> 0]
  <1> DEFINE h == Given("Unknown", OriginalCid, ClientCid, <<>>)
             g == [h EXCEPT !.body = <<7, 7>>]
             p == Bare(g)
             version == scenario.version
             widths == scenario.widths
  <1>1. Send("Client", <<p>>, 0) /\ version \notin Packets!Versions
    BY DEF ClientSendsUnknown
  <1>2. IsScenario(scenario)
    BY DEF PathInvariant
  <1>3. version \in Bytes /\ Length(version) = 4 /\ version # Packets!NEGOTIATION
    BY <1>2 DEF IsScenario, Bytes, Length
  <1> HIDE DEF version, widths
  <1>4. h = [type |-> "Unknown", low |-> 0, version |-> version, dcid |-> OriginalCid,
             scid |-> ClientCid, token |-> <<>>, body |-> <<>>, widths |-> widths]
    BY DEF Given, version, widths
  <1> HIDE DEF h
  <1>5. /\ g.type = "Unknown" /\ g.low = 0 /\ g.version = version /\ g.dcid = OriginalCid
        /\ g.scid = ClientCid /\ g.token = <<>> /\ g.body = <<7, 7>> /\ g.widths = widths
    BY <1>4
  <1> HIDE DEF g
  <1>6. "Client" \in Endpoints
    BY DEF Endpoints
  <1>7. IsPlanned(g)
    <2>1. <<7, 7>> \in Bytes /\ <<>> \in Bytes /\ Length(<<>>) <= 20
      BY BareBytes, EmptyBytes
    <2>2. Length(OriginalCid) <= 20 /\ Length(ClientCid) <= 20
      BY CidsTyped
    <2> QED BY <1>1, <1>2, <1>3, <1>5, <2>1, <2>2, CidsTyped, BareGiven DEF widths
  <1>8. /\ IsPlan("Client", p) /\ AreNext("Client", {p})
        /\ p.given.type = "Unknown" /\ p.space = "None"
    BY <1>2, <1>5, <1>6, <1>7, BarePlan
  <1> HIDE DEF p
  <1>9. \A s : (s.by = "Client" /\ PacketsOf(s) = {p} /\ sent' = Append(sent, s)
                  /\ local' = local) => SpacesInStep'
    BY <1>6, <1>8, BareInStep
  <1> QED BY <1>1, <1>6, <1>8, <1>9, SendOne

LEMMA NegotiationKeeps ==
  ASSUME PathInvariant, ServerSendsNegotiation
  PROVE  PathInvariant' /\ arrival' = [of |-> 0]
  <1> DEFINE h == Given("VersionNegotiation", ClientCid, OriginalCid, <<>>)
             body == Packets!V1 \o Packets!V2
             g == [h EXCEPT !.version = Packets!NEGOTIATION, !.body = body]
             p == Bare(g)
             version == scenario.version
             widths == scenario.widths
  <1>1. Send("Server", <<p>>, 0) /\ local["Server"].seen = "Unknown"
    BY DEF ServerSendsNegotiation
  <1>2. IsScenario(scenario) /\ ClientBegins
    BY DEF PathInvariant
  <1>3. sent # <<>>
    BY <1>1, <1>2 DEF ClientBegins
  <1> HIDE DEF version, widths, body
  <1>4. h = [type |-> "VersionNegotiation", low |-> 0, version |-> version, dcid |-> ClientCid,
             scid |-> OriginalCid, token |-> <<>>, body |-> <<>>, widths |-> widths]
    BY DEF Given, version, widths
  <1> HIDE DEF h
  <1>5. /\ g.type = "VersionNegotiation" /\ g.low = 0 /\ g.version = Packets!NEGOTIATION
        /\ g.dcid = ClientCid
        /\ g.scid = OriginalCid /\ g.token = <<>> /\ g.body = body /\ g.widths = widths
    BY <1>4
  <1> HIDE DEF g
  <1>6. "Server" \in Endpoints
    BY DEF Endpoints
  <1>7. IsPlanned(g)
    <2>1. body \in Bytes /\ <<>> \in Bytes /\ Length(<<>>) <= 20
      BY BareBytes, EmptyBytes DEF body
    <2>2. Length(OriginalCid) <= 20 /\ Length(ClientCid) <= 20
      BY CidsTyped
    <2> DEFINE negotiation == Packets!NEGOTIATION
    <2>3. negotiation \in Bytes /\ Length(negotiation) = 4 /\ g.version = negotiation
      BY <1>5, BareBytes
    <2> HIDE DEF negotiation
    <2> QED BY <1>2, <1>5, <2>1, <2>2, <2>3, CidsTyped, BareGiven DEF widths
  <1>8. /\ IsPlan("Server", p) /\ AreNext("Server", {p})
        /\ p.given.type = "VersionNegotiation" /\ p.space = "None"
    BY <1>2, <1>5, <1>6, <1>7, BarePlan
  <1> HIDE DEF p
  <1>9. \A s : (s.by = "Server" /\ PacketsOf(s) = {p} /\ sent' = Append(sent, s)
                  /\ local' = local) => SpacesInStep'
    BY <1>6, <1>8, BareInStep
  <1> QED BY <1>1, <1>3, <1>6, <1>8, <1>9, SendOne

LEMMA RetryKeeps ==
  ASSUME PathInvariant, ServerSendsRetry
  PROVE  PathInvariant' /\ arrival' = [of |-> 0]
  <1> DEFINE h == Given("Retry", ClientCid, RetryCid, RetryToken)
             body == [k \in 1 .. Packets!TagLength |-> TAG]
             g == [h EXCEPT !.body = body]
             p == Bare(g)
             version == scenario.version
             widths == scenario.widths
  <1>1. Send("Server", <<p>>, 0) /\ local["Server"].seen = "Tokenless"
    BY DEF ServerSendsRetry
  <1>2. IsScenario(scenario) /\ ClientBegins
    BY DEF PathInvariant
  <1>3. sent # <<>>
    BY <1>1, <1>2 DEF ClientBegins
  <1>4. version \in Bytes /\ Length(version) = 4
    BY <1>2 DEF IsScenario, Bytes, Length
  <1> HIDE DEF version, widths, body
  <1>5. h = [type |-> "Retry", low |-> 0, version |-> version, dcid |-> ClientCid,
             scid |-> RetryCid, token |-> RetryToken, body |-> <<>>, widths |-> widths]
    BY DEF Given, version, widths
  <1> HIDE DEF h
  <1>6. /\ g.type = "Retry" /\ g.low = 0 /\ g.version = version /\ g.dcid = ClientCid
        /\ g.scid = RetryCid /\ g.token = RetryToken /\ g.body = body /\ g.widths = widths
    BY <1>5
  <1> HIDE DEF g
  <1>7. "Server" \in Endpoints
    BY DEF Endpoints
  <1>8. IsPlanned(g)
    <2>1. body \in Bytes
      BY BareBytes DEF body
    <2>2. Length(RetryCid) <= 20 /\ Length(ClientCid) <= 20 /\ Length(RetryToken) <= 20
      BY CidsTyped
    <2> QED BY <1>2, <1>4, <1>6, <2>1, <2>2, CidsTyped, BareGiven DEF widths
  <1>9. /\ IsPlan("Server", p) /\ AreNext("Server", {p})
        /\ p.given.type = "Retry" /\ p.space = "None"
    BY <1>2, <1>6, <1>7, <1>8, BarePlan
  <1> HIDE DEF p
  <1>10. \A s : (s.by = "Server" /\ PacketsOf(s) = {p} /\ sent' = Append(sent, s)
                  /\ local' = local) => SpacesInStep'
    BY <1>7, <1>9, BareInStep
  <1> QED BY <1>1, <1>3, <1>7, <1>9, <1>10, SendOne

-----------------------------------------------------------------------------
(* The protected packets *)

\* What a frame in front of others acknowledges.
LEMMA AckInFront ==
  ASSUME NEW frame, FrameBytes(frame) \in Bytes, NEW T, NEW frames \in Seq(T),
         \A k \in 1 .. Len(frames) : FrameBytes(frames[k]) \in Bytes
  PROVE  \E more \in Bytes : PayloadBytes(<<frame>> \o frames) = Cat(FrameBytes(frame), more)
  <1> DEFINE R == T \cup {frame}
             front == <<frame>>
             all == front \o frames
             N == Len(frames)
  <1>1. frames \in Seq(R) /\ frame \in R
    BY WiderSequence
  <1>2. front \in Seq(R) /\ Len(front) = 1 /\ front[1] = frame
    BY <1>1, Singleton
  <1> HIDE DEF R, front
  <1>3. /\ all \in Seq(R) /\ Len(all) = 1 + N /\ N \in Nat
        /\ \A k \in 1 .. 1 : all[k] = front[k]
        /\ \A k \in 1 .. N : all[1 + k] = frames[k]
    <2> HIDE DEF all
    <2>1. front \in Seq(R) /\ frames \in Seq(R) /\ all = front \o frames
      BY <1>1, <1>2 DEF all
    <2>2. /\ all \in Seq(R) /\ Len(all) = Len(front) + Len(frames)
          /\ \A k \in 1 .. Len(front) : all[k] = front[k]
          /\ \A k \in 1 .. Len(frames) : all[Len(front) + k] = frames[k]
      BY <2>1, PartsComeBack
    <2>3. Len(frames) \in Nat
      BY <2>1
    <2> QED BY <1>2, <2>2, <2>3
  <1> HIDE DEF all, N
  <1>4. all[1] = frame
    <2>1. 1 \in 1 .. 1
      OBVIOUS
    <2> QED BY <1>2, <1>3, <2>1
  <1>5. \A k \in 1 .. (1 + N) : FrameBytes(all[k]) \in Bytes
    <2> SUFFICES ASSUME NEW k \in 1 .. (1 + N) PROVE FrameBytes(all[k]) \in Bytes
      OBVIOUS
    <2>1. CASE k = 1
      BY <1>4, <2>1
    <2>2. CASE k # 1
      <3>1. k - 1 \in 1 .. N /\ k = 1 + (k - 1)
        BY <1>3, <2>2
      <3>2. all[k] = frames[k - 1]
        BY <1>3, <3>1
      <3>3. FrameBytes(frames[k - 1]) \in Bytes
        BY <3>1 DEF N
      <3> QED BY <3>2, <3>3
    <2> QED BY <2>1, <2>2
  <1>6. Length(all) = 1 + N /\ Length(all) \in Nat /\ Length(all) > 0
    BY <1>3 DEF Length
  <1>7. \E rest \in Bytes : PayloadBytes(all) = Cat(FrameBytes(all[1]), rest)
    BY <1>5, <1>6, FramesTyped
  <1> QED BY <1>4, <1>7 DEF all, front

LEMMA PlainFrame ==
  ASSUME NEW frame, FrameBytes(frame) \in Bytes
  PROVE  AreFrames(<<frame>>, {})
  BY OneFrameTyped DEF AreFrames

LEMMA AckAlone ==
  ASSUME NEW S \in SUBSET PacketNumbers, S # {}
  PROVE  AreFrames(<<AckFrame(S, 2)>>, S)
  <1> DEFINE frame == AckFrame(S, 2)
  <1>1. 2 \in {2, 3}
    OBVIOUS
  <1>2. FrameBytes(frame) \in Bytes
    BY <1>1, AckTyped
  <1>3. PayloadBytes(<<frame>>) \in Bytes
    BY <1>2, OneFrameTyped
  <1>4. PayloadBytes(<<frame>>) = FrameBytes(frame)
    <2> DEFINE one == <<frame>>
    <2>1. one[1] = frame /\ Length(one) = 1 /\ \A k \in 1 .. 1 : k = 1
      BY OneItem
    <2> HIDE DEF one, frame
    <2>2. Length(one) \in Nat /\ \A k \in 1 .. Length(one) : FrameBytes(one[k]) \in Bytes
      BY <1>2, <2>1
    <2>3. PayloadBytes(one) = FrameBytes(one[1])
      BY <2>1, <2>2, FramesTyped
    <2> QED BY <2>1, <2>3 DEF one
  <1> HIDE DEF frame
  <1>5. PayloadBytes(<<frame>>) = Cat(FrameBytes(frame), <<>>) /\ <<>> \in Bytes
    BY <1>2, <1>4, CatEmpty, EmptyBytes
  <1>6. \E type \in {2, 3} : \E more \in Bytes :
           PayloadBytes(<<frame>>) = Cat(FrameBytes(AckFrame(S, type)), more)
    BY <1>1, <1>5 DEF frame
  <1> QED BY <1>3, <1>6 DEF AreFrames, frame

\* An ACK of what was read, if anything was, and the frames behind it.
LEMMA AckAndFrames ==
  ASSUME NEW S \in SUBSET PacketNumbers, NEW type \in {2, 3},
         NEW acks, acks = (IF S = {} THEN <<>> ELSE <<AckFrame(S, type)>>),
         NEW T, NEW frames \in Seq(T),
         \A k \in 1 .. Len(frames) : FrameBytes(frames[k]) \in Bytes
  PROVE  AreFrames(acks \o frames, S)
  <1> DEFINE frame == AckFrame(S, type)
             all == acks \o frames
  <1>1. S # {} => FrameBytes(frame) \in Bytes
    BY AckTyped
  <1>2. acks = <<>> \/ \E f : acks = <<f>> /\ FrameBytes(f) \in Bytes
    <2>1. CASE S = {}
      BY <2>1
    <2>2. CASE S # {}
      <3>1. acks = <<frame>> /\ FrameBytes(frame) \in Bytes
        BY <1>1, <2>2
      <3> HIDE DEF frame
      <3> QED BY <3>1
    <2> QED BY <2>1, <2>2
  <1>3. PayloadBytes(all) \in Bytes
    BY <1>2, FramesBehind
  <1>4. ASSUME S # {}
        PROVE  \E x \in {2, 3} : \E more \in Bytes :
                  PayloadBytes(all) = Cat(FrameBytes(AckFrame(S, x)), more)
    <2>1. acks = <<frame>>
      BY <1>4
    <2>2. FrameBytes(frame) \in Bytes
      BY <1>1, <1>4
    <2> HIDE DEF frame
    <2>3. \E more \in Bytes : PayloadBytes(<<frame>> \o frames) = Cat(FrameBytes(frame), more)
      BY <2>2, AckInFront
    <2> QED BY <2>1, <2>3 DEF frame
  <1> HIDE DEF all
  <1>5. AreFrames(all, S)
    BY <1>3, <1>4 DEF AreFrames
  <1> QED BY <1>5 DEF all

\* The identifiers of the client's packets.
LEMMA ClientIds ==
  ASSUME PathInvariant
  PROVE  /\ AreIds("Client", "Initial", ClientDcid, ClientCid, ClientToken)
         /\ AreIds("Client", "ZeroRtt", ClientDcid, ClientCid, <<>>)
  <1>1. "Client" \in Endpoints
    BY DEF Endpoints
  <1>2. IsKnown("Client", local["Client"])
    BY <1>1, KnownIs DEF PathInvariant
  <1> DEFINE retry == local["Client"].retry
  <1>3. retry = <<>> \/ retry = <<[scid |-> RetryCid, token |-> RetryToken]>>
    BY <1>2 DEF IsKnown, KnownRetry
  <1>4. retry # <<>> => retry[1].scid = RetryCid /\ retry[1].token = RetryToken
    BY <1>3
  <1>5. local["Client"].peer # <<>> => PeerCid("Client") \in Bytes /\ Length(PeerCid("Client")) = 1
    BY <1>1, PeerIs
  <1>6. ClientDcid \in Bytes /\ Length(ClientDcid) <= 20
    <2>1. CASE local["Client"].peer # <<>>
      <3>1. ClientDcid = PeerCid("Client")
        BY <2>1 DEF ClientDcid
      <3> QED BY <1>5, <2>1, <3>1
    <2>2. CASE local["Client"].peer = <<>>
      <3>1. ClientDcid = RetryCid \/ ClientDcid = OriginalCid
        BY <1>4, <2>2 DEF ClientDcid
      <3> QED BY <3>1, CidsTyped
    <2> QED BY <2>1, <2>2
  <1>7. ClientToken \in Bytes /\ Length(ClientToken) <= 20
    <2>1. ClientToken = <<>> \/ ClientToken = RetryToken
      BY <1>4 DEF ClientToken
    <2> QED BY <2>1, CidsTyped, EmptyBytes
  <1>8. ClientCid \in Bytes /\ Length(ClientCid) <= 20 /\ InitialCid("Client") = ClientCid
    BY CidsTyped DEF InitialCid
  <1>9. <<>> \in Bytes /\ Length(<<>>) <= 20
    BY EmptyBytes
  <1>10. AreIds("Client", "Initial", ClientDcid, ClientCid, ClientToken)
    BY <1>6, <1>7, <1>8 DEF AreIds
  <1>11. AreIds("Client", "ZeroRtt", ClientDcid, ClientCid, <<>>)
    BY <1>6, <1>8, <1>9 DEF AreIds
  <1> QED BY <1>10, <1>11

\* The packets of the client's first flight.
LEMMA InitialPlan ==
  ASSUME PathInvariant, Cardinality(NumbersSent("Client", "Initial")) < scenario.initials,
         NEW p, p = Protected("Client", "Initial",
                              Given("Initial", ClientDcid, ClientCid, ClientToken),
                              <<CryptoFrame(scenario.clientList)>>, {})
  PROVE  /\ IsPlan("Client", p) /\ p.given.type = "Initial" /\ p.space = "Initial"
         /\ p.number = NextNumber("Client", "Initial") /\ p.acked = {}
         /\ Cardinality(NumbersSent("Client", "Initial")) < 3
  <1>1. "Client" \in Endpoints /\ "Initial" \in Spaces
    BY DEF Endpoints, Spaces
  <1>2. IsScenario(scenario) /\ NumbersInOrder
    BY DEF PathInvariant
  <1>3. Cardinality(NumbersSent("Client", "Initial")) < 3
    <2>1. scenario.initials \in 0 .. Len(NUMBERS)
      BY <1>2 DEF IsScenario
    <2> QED BY <1>1, <1>2, <2>1, CountIs
  <1>4. NextNumber("Client", "Initial") \in PacketNumbers
    BY <1>1, <1>2, <1>3, NumberInSpace
  <1>5. Space("Initial") = "Initial"
    BY DEF Space
  <1>6. AreFrames(<<CryptoFrame(scenario.clientList)>>, {})
    <2>1. IsList(scenario.clientList)
      BY <1>2 DEF IsScenario
    <2> QED BY <2>1, CryptoTyped, PlainFrame
  <1>7. AreIds("Client", "Initial", ClientDcid, ClientCid, ClientToken)
    BY ClientIds
  <1>8. "Initial" \in Packets!ProtectedTypes \cup {"Short"}
    BY DEF Packets!ProtectedTypes
  <1> DEFINE dcid == ClientDcid
             scid == ClientCid
             token == ClientToken
             frames == <<CryptoFrame(scenario.clientList)>>
             type == "Initial"
             e == "Client"
  <1>9. p = Protected(e, type, Given(type, dcid, scid, token), frames, {})
    OBVIOUS
  <1>10. AreFrames(frames, {}) /\ AreIds(e, type, dcid, scid, token)
           /\ NextNumber(e, Space(type)) \in PacketNumbers
           /\ e \in Endpoints /\ type \in Packets!ProtectedTypes \cup {"Short"}
    BY <1>1, <1>4, <1>5, <1>6, <1>7, <1>8
  <1> HIDE DEF dcid, scid, token, frames, type, e
  <1>11. /\ IsPlan(e, p) /\ p.given.type = type /\ p.space = Space(type)
         /\ p.number = NextNumber(e, Space(type)) /\ p.acked = {}
    BY <1>2, <1>9, <1>10, ProtectedPlan
  <1> QED BY <1>3, <1>5, <1>11 DEF type, e

\* The packet of early data.
LEMMA ZeroRttPlan ==
  ASSUME PathInvariant, Cardinality(NumbersSent("Client", "Application")) < 3,
         NEW p, p = Protected("Client", "ZeroRtt",
                              Given("ZeroRtt", ClientDcid, ClientCid, <<>>), <<PingFrame>>, {})
  PROVE  /\ IsPlan("Client", p) /\ p.given.type = "ZeroRtt" /\ p.space = "Application"
         /\ p.number = NextNumber("Client", "Application") /\ p.acked = {}
  <1>1. "Client" \in Endpoints /\ "Application" \in Spaces
    BY DEF Endpoints, Spaces
  <1>2. IsScenario(scenario) /\ NumbersInOrder
    BY DEF PathInvariant
  <1>3. NextNumber("Client", "Application") \in PacketNumbers
    BY <1>1, <1>2, NumberInSpace
  <1>4. Space("ZeroRtt") = "Application"
    BY DEF Space
  <1>5. AreFrames(<<PingFrame>>, {})
    BY PingTyped, PlainFrame
  <1>6. AreIds("Client", "ZeroRtt", ClientDcid, ClientCid, <<>>)
    BY ClientIds
  <1>7. "ZeroRtt" \in Packets!ProtectedTypes \cup {"Short"}
    BY DEF Packets!ProtectedTypes
  <1> DEFINE dcid == ClientDcid
             scid == ClientCid
             frames == <<PingFrame>>
             type == "ZeroRtt"
             e == "Client"
  <1>8. p = Protected(e, type, Given(type, dcid, scid, <<>>), frames, {})
    OBVIOUS
  <1>9. AreFrames(frames, {}) /\ AreIds(e, type, dcid, scid, <<>>)
           /\ NextNumber(e, Space(type)) \in PacketNumbers
           /\ e \in Endpoints /\ type \in Packets!ProtectedTypes \cup {"Short"}
    BY <1>1, <1>3, <1>4, <1>5, <1>6, <1>7
  <1> HIDE DEF dcid, scid, frames, type, e
  <1>10. /\ IsPlan(e, p) /\ p.given.type = type /\ p.space = Space(type)
         /\ p.number = NextNumber(e, Space(type)) /\ p.acked = {}
    BY <1>2, <1>8, <1>9, ProtectedPlan
  <1> QED BY <1>4, <1>10 DEF type, e

LEMMA ProtectedSpaces ==
  /\ "Initial" \in Spaces /\ "Handshake" \in Spaces /\ "Application" \in Spaces
  /\ "Client" \in Endpoints /\ "Server" \in Endpoints
  /\ {"Initial", "ZeroRtt", "Handshake"} \subseteq Packets!ProtectedTypes
  /\ Space("Initial") = "Initial" /\ Space("Handshake") = "Handshake"
  /\ Space("Short") = "Application" /\ Space("ZeroRtt") = "Application"
  BY DEF Spaces, Endpoints, Packets!ProtectedTypes, Space

\* ClientSendsInitial keeps the invariant.
LEMMA InitialKeeps ==
  ASSUME PathInvariant, ClientSendsInitial
  PROVE  PathInvariant' /\ arrival' = [of |-> 0]
  <1> DEFINE p == Protected("Client", "Initial",
                            Given("Initial", ClientDcid, ClientCid, ClientToken),
                            <<CryptoFrame(scenario.clientList)>>, {})
             q == Protected("Client", "ZeroRtt", Given("ZeroRtt", ClientDcid, ClientCid, <<>>),
                            <<PingFrame>>, {})
             P == NumbersSent("Client", "Initial")
             Q == NumbersSent("Client", "Application")
             zeros == IF scenario.behind = "Zeros" THEN 5 ELSE 0
  <1>1. /\ local["Client"].verdict = "None"
        /\ Cardinality(P) < scenario.initials
        /\ Send("Client", <<p>> \o ClientMore, zeros)
    BY DEF ClientSendsInitial
  <1>2. /\ IsPlan("Client", p) /\ p.given.type = "Initial" /\ p.space = "Initial"
        /\ p.number = NextNumber("Client", "Initial") /\ p.acked = {}
        /\ Cardinality(P) < 3
    BY <1>1, InitialPlan
  <1>3. P \in Prefixes /\ Q \in Prefixes
    BY ProtectedSpaces DEF PathInvariant, NumbersInOrder
  <1>4. SpacesInStep /\ Q \subseteq P
    BY <1>1 DEF PathInvariant, SpacesInStep
  <1>5. PICK S : sent \in Seq(S)
    BY DEF PathInvariant
  <1> HIDE DEF p
  <1>6. ASSUME NEW s, NEW M, s.by = "Client", PacketsOf(s) = M, sent' = Append(sent, s),
               local' = local,
               \A x \in M : x.given.type # "Handshake",
               NumbersSent("Client", "Application") \cup
                  {x.number : x \in {x \in M : x.space = "Application"}}
                 \subseteq NumbersSent("Client", "Initial") \cup
                             {x.number : x \in {x \in M : x.space = "Initial"}}
        PROVE  SpacesInStep'
    <2>1. PacketsSent("Client")' = PacketsSent("Client") \cup M
             /\ PacketsSent("Server")' = PacketsSent("Server")
      <3>1. \A f : PacketsSent(f)' = PacketsSent(f) \cup (IF s.by = f THEN PacketsOf(s) ELSE {})
        BY <1>5, <1>6, PacketsAfter
      <3>2. PacketsSent("Client")' = PacketsSent("Client") \cup M
        BY <1>6, <3>1
      <3>3. PacketsSent("Server")' = PacketsSent("Server") \cup {}
        BY <1>6, <3>1
      <3> QED BY <3>2, <3>3
    <2>2. \A space : NumbersSent("Client", space)'
             = NumbersSent("Client", space) \cup {x.number : x \in {x \in M : x.space = space}}
      BY <2>1, NumbersAfter
    <2>3. /\ HasSent("Server", "Initial")' <=> HasSent("Server", "Initial")
          /\ HasSent("Server", "Handshake")' <=> HasSent("Server", "Handshake")
      BY <2>1 DEF HasSent
    <2>4. NumbersSent("Client", "Application")' \subseteq NumbersSent("Client", "Initial")'
      BY <1>6, <2>2
    <2> QED BY <1>4, <1>6, <2>3, <2>4 DEF SpacesInStep
  <1>7. CASE scenario.behind # "ZeroRtt"
    <2>1. ClientMore = <<>> /\ zeros \in {0, 5}
      BY <1>7 DEF ClientMore
    <2>2. <<p>> \o ClientMore = <<p>>
      <3>1. <<p>> \in Seq({p})
        BY p \in {p}
      <3> QED BY <2>1, <3>1, ConcatEmptySeq
    <2> HIDE DEF zeros, P, Q
    <2>3. Send("Client", <<p>>, zeros)
      BY <1>1, <2>2
    <2>4. AreNext("Client", {p})
      BY <1>2, OneIsNext DEF P
    <2>5. ASSUME NEW s, s.by = "Client", PacketsOf(s) = {p}, sent' = Append(sent, s),
                 local' = local
          PROVE  SpacesInStep'
      <3>1. \A x \in {p} : x.given.type # "Handshake"
        BY <1>2
      <3>2. NumbersSent("Client", "Application") \cup
               {x.number : x \in {x \in {p} : x.space = "Application"}}
              \subseteq NumbersSent("Client", "Initial") \cup
                          {x.number : x \in {x \in {p} : x.space = "Initial"}}
        <4>1. {x.number : x \in {x \in {p} : x.space = "Application"}} = {}
          BY <1>2
        <4> QED BY <1>4, <4>1 DEF P, Q
      <3> DEFINE M == {p}
      <3>3. PacketsOf(s) = M
        BY <2>5
      <3> HIDE DEF M
      <3>4. /\ \A x \in M : x.given.type # "Handshake"
            /\ NumbersSent("Client", "Application") \cup
                  {x.number : x \in {x \in M : x.space = "Application"}}
                 \subseteq NumbersSent("Client", "Initial") \cup
                             {x.number : x \in {x \in M : x.space = "Initial"}}
        BY <3>1, <3>2 DEF M
      <3> QED BY <1>6, <2>5, <3>3, <3>4
    <2> QED BY <1>2, <2>1, <2>3, <2>4, <2>5, ProtectedSpaces, SendOne
  <1>8. CASE scenario.behind = "ZeroRtt"
    <2>1. ClientMore = <<q>> /\ zeros = 0
      BY <1>8 DEF ClientMore
    <2>2. Cardinality(Q) < 3 /\ Q \cup {NextOf(Q)} \subseteq P \cup {NextOf(P)}
      <3> HIDE DEF P, Q
      <3> QED BY <1>2, <1>3, <1>4, NextInStep
    <2>3. /\ IsPlan("Client", q) /\ q.given.type = "ZeroRtt" /\ q.space = "Application"
          /\ q.number = NextNumber("Client", "Application") /\ q.acked = {}
      BY <2>2, ZeroRttPlan
    <2> HIDE DEF q, zeros, P, Q
    <2>4. Send("Client", <<p, q>>, 0)
      <3>1. <<p>> \o <<q>> = <<p, q>>
        BY TwoItems
      <3> QED BY <1>1, <2>1, <3>1
    <2>5. AreNext("Client", {p, q})
      BY <1>2, <2>2, <2>3, TwoAreNext DEF P, Q
    <2>6. ASSUME NEW s, s.by = "Client", PacketsOf(s) = {p, q}, sent' = Append(sent, s),
                 local' = local
          PROVE  SpacesInStep'
      <3> DEFINE M == {p, q}
      <3>1. \A x \in M : x.given.type # "Handshake"
        BY <1>2, <2>3
      <3>2. {x.number : x \in {x \in M : x.space = "Application"}} = {NextOf(Q)}
        <4>1. q.number = NextOf(Q)
          BY <2>3, NextNumberIs DEF Q
        <4>2. {x \in M : x.space = "Application"} = {q}
          BY <1>2, <2>3
        <4> QED BY <4>1, <4>2
      <3>3. {x.number : x \in {x \in M : x.space = "Initial"}} = {NextOf(P)}
        <4>1. p.number = NextOf(P)
          BY <1>2, NextNumberIs DEF P
        <4>2. {x \in M : x.space = "Initial"} = {p}
          BY <1>2, <2>3
        <4> QED BY <4>1, <4>2
      <3>4. PacketsOf(s) = M
        BY <2>6
      <3> HIDE DEF M
      <3>5. NumbersSent("Client", "Application") \cup
               {x.number : x \in {x \in M : x.space = "Application"}}
              \subseteq NumbersSent("Client", "Initial") \cup
                          {x.number : x \in {x \in M : x.space = "Initial"}}
        BY <2>2, <3>2, <3>3 DEF P, Q
      <3> QED BY <1>6, <2>6, <3>1, <3>4, <3>5
    <2>7. sent = <<>> => "Client" = "Client"
      OBVIOUS
    <2> QED BY <1>2, <2>3, <2>4, <2>5, <2>6, ProtectedSpaces, SendTwo
  <1> QED BY <1>7, <1>8

\* The types an endpoint has sent after a datagram, and the numbers the other has.
TypesAfter(e, s, type) ==
  \A f : HasSent(f, type)' <=>
     (HasSent(f, type) \/ (f = e /\ \E p \in PacketsOf(s) : p.given.type = type))

OthersNumbers(e) ==
  \A f, space : f # e => NumbersSent(f, space)' = NumbersSent(f, space)

\* What one more datagram changes in the types that an endpoint has sent.
LEMMA TypesAre ==
  ASSUME PathInvariant, NEW e \in Endpoints, NEW s, s.by = e, sent' = Append(sent, s), NEW type
  PROVE  TypesAfter(e, s, type)
  <1>1. PICK S : sent \in Seq(S)
    BY DEF PathInvariant
  <1>2. \A f : PacketsSent(f)' = PacketsSent(f) \cup (IF e = f THEN PacketsOf(s) ELSE {})
    BY <1>1, PacketsAfter
  <1>3. ASSUME NEW f
        PROVE  HasSent(f, type)' <=>
                 (HasSent(f, type) \/ (f = e /\ \E p \in PacketsOf(s) : p.given.type = type))
    BY <1>2 DEF HasSent
  <1> QED BY <1>3 DEF TypesAfter

\* The numbers of the other endpoint stay as they are.
LEMMA OthersAre ==
  ASSUME PathInvariant, NEW e \in Endpoints, NEW s, s.by = e, sent' = Append(sent, s)
  PROVE  OthersNumbers(e)
  <1>1. \A f, space : f # e => NumbersSent(f, space)' = NumbersSent(f, space)
    <2>1. PICK S : sent \in Seq(S)
      BY DEF PathInvariant
    <2>2. \A f : PacketsSent(f)' = PacketsSent(f) \cup (IF s.by = f THEN PacketsOf(s) ELSE {})
      BY <2>1, PacketsAfter
    <2> QED BY <2>2 DEF NumbersSent
  <1> QED BY <1>1 DEF OthersNumbers

\* ServerSendsHandshake keeps the invariant.
LEMMA HandshakeKeeps ==
  ASSUME PathInvariant, ServerSendsHandshake
  PROVE  PathInvariant' /\ arrival' = [of |-> 0]
  <1> DEFINE read == NumbersRead("Server", "Initial")
             dcid == PeerCid("Server")
             acks == <<AckFrame(read, 2)>>
             crypto == <<CryptoFrame(scenario.serverList)>>
             p == Protected("Server", "Initial", Given("Initial", dcid, ServerCid, <<>>), acks, read)
             q == Protected("Server", "Handshake", Given("Handshake", dcid, ServerCid, <<>>),
                            crypto, {})
  <1>1. /\ local["Server"].verdict = "Accepted" /\ ~ HasSent("Server", "Handshake")
        /\ Send("Server", <<p, q>>, 0)
    BY DEF ServerSendsHandshake
  <1>2. SpacesInStep /\ IsScenario(scenario) /\ NumbersInOrder
    BY DEF PathInvariant
  <1>3. ~ HasSent("Server", "Initial")
    BY <1>1, <1>2 DEF SpacesInStep
  <1>4. /\ Cardinality(NumbersSent("Server", "Initial")) < 3
        /\ Cardinality(NumbersSent("Server", "Handshake")) < 3
    BY <1>1, <1>3, NumbersOfType, ProtectedSpaces
  <1>5. /\ NextNumber("Server", "Initial") \in PacketNumbers
        /\ NextNumber("Server", "Handshake") \in PacketNumbers
    BY <1>2, <1>4, NumberInSpace, ProtectedSpaces
  <1>6. /\ local["Server"].peer # <<>>
        /\ \E r \in local["Server"].read : r.space = "Initial"
        /\ sent # <<>>
    <2>1. ParameterSpace("Server") = "Initial" /\ local["Server"].verdict # "None"
      BY <1>1 DEF ParameterSpace
    <2> QED BY <2>1, VerdictKnown, ProtectedSpaces
  <1>7. dcid \in Bytes /\ Length(dcid) <= 20
    <2>1. dcid \in Bytes /\ Length(dcid) = 1
      BY <1>6, PeerIs, ProtectedSpaces
    <2> QED BY <2>1
  <1>8. /\ AreIds("Server", "Initial", dcid, ServerCid, <<>>)
        /\ AreIds("Server", "Handshake", dcid, ServerCid, <<>>)
    <2> HIDE DEF dcid
    <2>1. <<>> \in Bytes /\ Length(<<>>) <= 20
      BY EmptyBytes
    <2>2. ServerCid \in Bytes /\ Length(ServerCid) <= 20 /\ InitialCid("Server") = ServerCid
      BY CidsTyped DEF InitialCid
    <2> QED BY <1>7, <2>1, <2>2 DEF AreIds
  <1>9. read # {} /\ read \in SUBSET PacketNumbers
           /\ read \subseteq NumbersSent("Client", "Initial")
    <2>1. read # {}
      BY <1>6 DEF NumbersRead
    <2>2. Other("Server") = "Client"
      BY DEF Other
    <2> QED BY <2>1, <2>2, ReadAreSent, ProtectedSpaces
  <1>10. AreFrames(acks, read)
    BY <1>9, AckAlone
  <1>11. AreFrames(crypto, {})
    <2>1. IsList(scenario.serverList)
      BY <1>2 DEF IsScenario
    <2> QED BY <2>1, CryptoTyped, PlainFrame
  <1> HIDE DEF read, dcid, acks, crypto
  <1>12. /\ IsPlan("Server", p) /\ p.given.type = "Initial" /\ p.space = "Initial"
         /\ p.number = NextNumber("Server", "Initial") /\ p.acked = read
    <2> DEFINE type == "Initial"
    <2>1. type \in Packets!ProtectedTypes \cup {"Short"} /\ Space(type) = "Initial"
      BY ProtectedSpaces
    <2>2. p = Protected("Server", type, Given(type, dcid, ServerCid, <<>>), acks, read)
             /\ NextNumber("Server", Space(type)) \in PacketNumbers
             /\ AreIds("Server", type, dcid, ServerCid, <<>>)
      BY <1>5, <1>8, <2>1
    <2> HIDE DEF type, p
    <2>3. /\ IsPlan("Server", p) /\ p.given.type = type /\ p.space = Space(type)
          /\ p.number = NextNumber("Server", Space(type)) /\ p.acked = read
      BY <1>2, <1>10, <2>1, <2>2, ProtectedPlan, ProtectedSpaces
    <2> QED BY <2>1, <2>3 DEF type
  <1>13. /\ IsPlan("Server", q) /\ q.given.type = "Handshake" /\ q.space = "Handshake"
         /\ q.number = NextNumber("Server", "Handshake") /\ q.acked = {}
    <2> DEFINE type == "Handshake"
    <2>1. type \in Packets!ProtectedTypes \cup {"Short"} /\ Space(type) = "Handshake"
      BY ProtectedSpaces
    <2>2. q = Protected("Server", type, Given(type, dcid, ServerCid, <<>>), crypto, {})
             /\ NextNumber("Server", Space(type)) \in PacketNumbers
             /\ AreIds("Server", type, dcid, ServerCid, <<>>)
      BY <1>5, <1>8, <2>1
    <2> HIDE DEF type, q
    <2>3. /\ IsPlan("Server", q) /\ q.given.type = type /\ q.space = Space(type)
          /\ q.number = NextNumber("Server", Space(type)) /\ q.acked = {}
      BY <1>2, <1>11, <2>1, <2>2, ProtectedPlan, ProtectedSpaces
    <2> QED BY <2>1, <2>3 DEF type
  <1> HIDE DEF p, q
  <1>14. AreNext("Server", {p, q})
    <2>1. Other("Server") = "Client"
      BY DEF Other
    <2> QED BY <1>4, <1>9, <1>12, <1>13, <2>1, TwoAreNext
  <1>15. ASSUME NEW s, s.by = "Server", PacketsOf(s) = {p, q}, sent' = Append(sent, s),
                local' = local
         PROVE  SpacesInStep'
    <2>1. HasSent("Server", "Handshake")'
      <3>1. TypesAfter("Server", s, "Handshake")
        BY <1>15, TypesAre, ProtectedSpaces
      <3>2. \E x \in PacketsOf(s) : x.given.type = "Handshake"
        BY <1>13, <1>15
      <3> QED BY <3>1, <3>2 DEF TypesAfter
    <2>2. \A space : NumbersSent("Client", space)' = NumbersSent("Client", space)
      <3>1. OthersNumbers("Server")
        BY <1>15, OthersAre, ProtectedSpaces
      <3> QED BY <3>1 DEF OthersNumbers
    <2>3. local'["Server"].verdict # "None"
      BY <1>1, <1>15
    <2> QED BY <1>2, <1>15, <2>1, <2>2, <2>3 DEF SpacesInStep
  <1> QED BY <1>1, <1>6, <1>12, <1>13, <1>14, <1>15, ProtectedSpaces, SendTwo

\* The scenario's frames and the client's are sequences of frames that are there.
LEMMA FramesOfEnd ==
  ASSUME IsScenario(scenario), NEW e, NEW frames,
         frames = IF e = "Server" THEN scenario.frames ELSE <<PingFrame>>
  PROVE  /\ \E T : frames \in Seq(T)
         /\ \A k \in 1 .. Len(frames) : FrameBytes(frames[k]) \in Bytes
  <1>1. CASE e = "Server"
    <2>1. frames \in Seq(GivenFrame)
      BY <1>1 DEF IsScenario
    <2>2. \A k \in 1 .. Len(frames) : FrameBytes(frames[k]) \in Bytes
      BY <1>1, GivenFramesTyped
    <2>3. \E T : frames \in Seq(T)
      BY <2>1, Zenon
    <2> QED BY <2>2, <2>3
  <1>2. CASE e # "Server"
    <2> DEFINE ping == PingFrame
    <2>1. frames = <<ping>>
      BY <1>2
    <2>2. FrameBytes(ping) \in Bytes
      BY PingTyped
    <2> HIDE DEF ping
    <2>3. \E T : frames \in Seq(T)
      BY <2>1, OneItem, Zenon
    <2>4. Len(frames) = 1 /\ frames[1] = ping
      BY <2>1, OneItem DEF Length
    <2> HIDE <2>1
    <2>5. \A k \in 1 .. 1 : k = 1
      OBVIOUS
    <2>6. \A k \in 1 .. Len(frames) : FrameBytes(frames[k]) \in Bytes
      <3>1. 1 .. Len(frames) = 1 .. 1
        BY <2>4, Zenon
      <3> QED BY <2>2, <2>4, <2>5, <3>1, Zenon
    <2> QED BY <2>3, <2>6, Zenon
  <1> QED BY <1>1, <1>2

\* SendsShort keeps the invariant.
LEMMA ShortKeeps ==
  ASSUME PathInvariant, NEW e \in Endpoints, SendsShort(e)
  PROVE  PathInvariant' /\ arrival' = [of |-> 0]
  <1> DEFINE read == NumbersRead(e, "Application")
             dcid == PeerCid(e)
             type == IF e = "Client" THEN 2 ELSE 3
             acks == IF read = {} THEN <<>> ELSE <<AckFrame(read, type)>>
             frames == IF e = "Server" THEN scenario.frames ELSE <<PingFrame>>
             all == acks \o frames
             p == Protected(e, "Short", Given("Short", dcid, <<>>, <<>>), all, read)
  <1>1. /\ MayUseShort(e)
        /\ Cardinality(NumbersSent(e, "Application")) < scenario.shorts[e]
        /\ Send(e, <<p>>, 0)
    BY DEF SendsShort
  <1>2. SpacesInStep /\ IsScenario(scenario) /\ NumbersInOrder
    BY DEF PathInvariant
  <1>3. local[e].verdict # "None"
    BY <1>1, <1>2 DEF MayUseShort, SpacesInStep, Endpoints
  <1>4. local[e].peer # <<>> /\ sent # <<>>
    BY <1>3, VerdictKnown
  <1>5. dcid \in Bytes /\ Length(dcid) = 1
    BY <1>4, PeerIs
  <1>6. Cardinality(NumbersSent(e, "Application")) < 3
    <2>1. scenario.shorts[e] \in 0 .. Len(NUMBERS)
      BY <1>2 DEF IsScenario
    <2> QED BY <1>1, <1>2, <2>1, CountIs, ProtectedSpaces
  <1>7. NextNumber(e, "Application") \in PacketNumbers
    BY <1>2, <1>6, NumberInSpace, ProtectedSpaces
  <1>8. AreIds(e, "Short", dcid, <<>>, <<>>)
    <2> HIDE DEF dcid
    <2>1. <<>> \in Bytes /\ Length(<<>>) <= 20
      BY EmptyBytes
    <2>2. Length(dcid) <= 20
      BY <1>5
    <2> QED BY <1>5, <2>1, <2>2 DEF AreIds
  <1>9. read \in SUBSET PacketNumbers /\ read \subseteq NumbersSent(Other(e), "Application")
    BY ReadAreSent, ProtectedSpaces
  <1>10. type \in {2, 3}
    OBVIOUS
  <1>11. /\ \E T : frames \in Seq(T)
         /\ \A k \in 1 .. Len(frames) : FrameBytes(frames[k]) \in Bytes
    BY <1>2, FramesOfEnd
  <1> HIDE DEF read, dcid, type, frames
  <1>12. AreFrames(all, read)
    <2>1. PICK T : frames \in Seq(T)
      BY <1>11
    <2>2. acks = IF read = {} THEN <<>> ELSE <<AckFrame(read, type)>>
      OBVIOUS
    <2> HIDE DEF acks
    <2> QED BY <1>9, <1>10, <1>11, <2>1, <2>2, AckAndFrames
  <1> HIDE DEF all
  <1>13. /\ IsPlan(e, p) /\ p.given.type = "Short" /\ p.space = "Application"
         /\ p.number = NextNumber(e, "Application") /\ p.acked = read
    <2> DEFINE short == "Short"
    <2>1. short \in Packets!ProtectedTypes \cup {"Short"} /\ Space(short) = "Application"
      BY ProtectedSpaces
    <2>2. p = Protected(e, short, Given(short, dcid, <<>>, <<>>), all, read)
             /\ NextNumber(e, Space(short)) \in PacketNumbers
             /\ AreIds(e, short, dcid, <<>>, <<>>)
      BY <1>7, <1>8, <2>1
    <2> HIDE DEF short, p
    <2>3. /\ IsPlan(e, p) /\ p.given.type = short /\ p.space = Space(short)
          /\ p.number = NextNumber(e, Space(short)) /\ p.acked = read
      BY <1>2, <1>12, <2>1, <2>2, ProtectedPlan
    <2> QED BY <2>1, <2>3 DEF short
  <1> HIDE DEF p
  <1>14. AreNext(e, {p})
    BY <1>6, <1>9, <1>13, OneIsNext
  <1>15. ASSUME NEW s, s.by = e, PacketsOf(s) = {p}, sent' = Append(sent, s), local' = local
         PROVE  SpacesInStep'
    <2>1. \A f : HasSent(f, "Handshake")' <=> HasSent(f, "Handshake")
      <3>1. TypesAfter(e, s, "Handshake")
        BY <1>15, TypesAre
      <3> QED BY <1>13, <1>15, <3>1 DEF TypesAfter
    <2>2. \A f : HasSent(f, "Initial")' <=> HasSent(f, "Initial")
      <3>1. TypesAfter(e, s, "Initial")
        BY <1>15, TypesAre
      <3> QED BY <1>13, <1>15, <3>1 DEF TypesAfter
    <2>3. e # "Client" => \A space : NumbersSent("Client", space)' = NumbersSent("Client", space)
      <3>1. OthersNumbers(e)
        BY <1>15, OthersAre
      <3> QED BY <3>1 DEF OthersNumbers
    <2> QED BY <1>2, <1>3, <1>15, <2>1, <2>2, <2>3 DEF SpacesInStep
  <1>16. 0 \in {0, 5}
    OBVIOUS
  <1> QED BY <1>1, <1>4, <1>13, <1>14, <1>15, <1>16, SendOne

-----------------------------------------------------------------------------
(* The theorems *)

\* The invariant holds initially,
LEMMA InitiallyPath ==
  ASSUME Init
  PROVE  PathInvariant /\ DatagramsComeBack /\ PacketsComeBack
  <1>1. scenario \in Scenarios /\ sent = <<>> /\ arrival = [of |-> 0]
    BY DEF Init
  <1>2. IsScenario(scenario)
    BY <1>1, ScenarioAssumption
  <1>3. /\ DOMAIN local = Endpoints
        /\ \A e \in Endpoints :
              local[e] = [peer |-> <<>>, retry |-> <<>>, seen |-> "Nothing", read |-> {},
                          verdict |-> "None", closed |-> FALSE]
    BY DEF Init
  <1>4. \A e \in Endpoints : local[e] \in Known(e)
    <2> SUFFICES ASSUME NEW e \in Endpoints
                 PROVE  local[e] \in Known(e)
      OBVIOUS
    <2>1. IsOf(local[e], <<>>, <<>>, "Nothing", {}, "None", FALSE)
      BY <1>3, PartsAre
    <2>2. IsKnown(e, local[e])
      BY <2>1 DEF IsOf, IsKnown, KnownPeer, KnownRetry
    <2> QED BY <2>2, KnownIs
  <1>5. \A e : PacketsSent(e) = {}
    BY <1>1 DEF PacketsSent
  <1>6. \A e, space : NumbersSent(e, space) = {}
    BY <1>5 DEF NumbersSent
  <1>7. \A e, type : ~ HasSent(e, type)
    BY <1>5 DEF HasSent
  <1>8. NumbersInOrder /\ NumbersAreUnique /\ AcksOfSent
    BY <1>5, <1>6 DEF NumbersInOrder, NumbersAreUnique, AcksOfSent, Prefixes
  <1>9. SpacesInStep
    BY <1>6, <1>7 DEF SpacesInStep
  <1>10. ClientBegins
    BY <1>1, <1>3 DEF ClientBegins, Endpoints
  <1>11. (\E S : sent \in Seq(S)) /\ \A i \in DOMAIN sent : IsDatagramSent(sent[i])
    <2>1. <<>> \in Seq({}) /\ DOMAIN <<>> = {}
      OBVIOUS
    <2> QED BY <1>1, <2>1
  <1>12. PathInvariant
    BY <1>2, <1>3, <1>4, <1>8, <1>9, <1>10, <1>11 DEF PathInvariant
  <1>13. DatagramsComeBack /\ PacketsComeBack
    BY <1>1 DEF DatagramsComeBack, PacketsComeBack
  <1> QED BY <1>12, <1>13

\* and every step keeps it and brings datagrams and packets back.
LEMMA StepKeepsPath ==
  ASSUME PathInvariant, DatagramsComeBack, PacketsComeBack, [Next]_vars
  PROVE  (PathInvariant /\ DatagramsComeBack /\ PacketsComeBack)'
  <1>1. ASSUME PathInvariant', arrival' = [of |-> 0]
        PROVE  (PathInvariant /\ DatagramsComeBack /\ PacketsComeBack)'
    BY <1>1, NothingArrived
  <1>2. CASE ClientSendsInitial
    BY <1>1, <1>2, InitialKeeps
  <1>3. CASE ClientSendsUnknown
    BY <1>1, <1>3, UnknownKeeps
  <1>4. CASE ServerSendsNegotiation
    BY <1>1, <1>4, NegotiationKeeps
  <1>5. CASE ServerSendsRetry
    BY <1>1, <1>5, RetryKeeps
  <1>6. CASE ServerSendsHandshake
    BY <1>1, <1>6, HandshakeKeeps
  <1>7. ASSUME NEW e \in Endpoints, SendsShort(e)
        PROVE  (PathInvariant /\ DatagramsComeBack /\ PacketsComeBack)'
    BY <1>1, <1>7, ShortKeeps
  <1>8. ASSUME NEW e \in Endpoints, Receive(e)
        PROVE  (PathInvariant /\ DatagramsComeBack /\ PacketsComeBack)'
    BY <1>8, ReceiveKeeps, ReceiveDelivers
  <1>9. CASE UNCHANGED vars
    <2>1. scenario' = scenario /\ sent' = sent /\ local' = local /\ arrival' = arrival
      BY <1>9 DEF vars
    <2>2. DOMAIN local' = Endpoints
             /\ \A e \in Endpoints : local'[e] \in Known(e) /\ Since(local[e], local'[e])
      BY <2>1 DEF PathInvariant, Since
    <2>3. PathInvariant'
      BY <2>1, <2>2, KnowingMore
    <2>4. DatagramsComeBack'
      BY <2>1, ZenonT(40) DEF DatagramsComeBack, Delivered
    <2>5. HasSent("Server", "Handshake")' <=> HasSent("Server", "Handshake")
      BY <2>1 DEF HasSent, PacketsSent
    <2>6. PacketsComeBack'
      BY <2>1, <2>5, ZenonT(40) DEF PacketsComeBack, Seen
    <2> QED BY <2>3, <2>4, <2>6
  <1> QED BY <1>2, <1>3, <1>4, <1>5, <1>6, <1>7, <1>8, <1>9 DEF Next

\* In every behaviour: each datagram that was sent is one that its parsers read back, what an
\* endpoint has taken is what the other sent, numbers are used in order and once in each
\* space, and acknowledged packets were sent.
THEOREM PathIsInvariant == Spec => []PathInvariant
  <1>1. Init => PathInvariant /\ DatagramsComeBack /\ PacketsComeBack
    BY InitiallyPath
  <1>2. (PathInvariant /\ DatagramsComeBack /\ PacketsComeBack) /\ [Next]_vars =>
           (PathInvariant /\ DatagramsComeBack /\ PacketsComeBack)'
    BY StepKeepsPath
  <1> QED BY <1>1, <1>2, PTL DEF Spec

\* Whatever was sent before, a datagram that arrives whole, or with Ethernet's padding, comes
\* out of the parsers of IPv4 or IPv6 and of UDP as it was given to the builders.
THEOREM EveryDatagramComesBack == Spec => []DatagramsComeBack
  <1>1. Init => PathInvariant /\ DatagramsComeBack /\ PacketsComeBack
    BY InitiallyPath
  <1>2. (PathInvariant /\ DatagramsComeBack /\ PacketsComeBack) /\ [Next]_vars =>
           (PathInvariant /\ DatagramsComeBack /\ PacketsComeBack)'
    BY StepKeepsPath
  <1> QED BY <1>1, <1>2, PTL DEF Spec

\* Every packet of a datagram that arrives is read as it was built, in order, except for a
\* short header whose length the receiver cannot know yet.
THEOREM EveryPacketComesBack == Spec => []PacketsComeBack
  <1>1. Init => PathInvariant /\ DatagramsComeBack /\ PacketsComeBack
    BY InitiallyPath
  <1>2. (PathInvariant /\ DatagramsComeBack /\ PacketsComeBack) /\ [Next]_vars =>
           (PathInvariant /\ DatagramsComeBack /\ PacketsComeBack)'
    BY StepKeepsPath
  <1> QED BY <1>1, <1>2, PTL DEF Spec

-----------------------------------------------------------------------------
(* The integers of a frame *)

\* What a reader of integers has: those it has read, and the bytes behind them.
ReadState == [values : Seq(Nat), rest : Bytes]

AfterOne(x) ==
  IF HasInteger(FrameByteValues, x.rest)
  THEN [values |-> Append(x.values, IntegerValue(FrameByteValues, x.rest)),
        rest |-> Behind(FrameByteValues, x.rest)]
  ELSE x

IntegersRead(f, q, n) ==
  /\ f \in [0 .. n -> ReadState]
  /\ f[0] = [values |-> <<>>, rest |-> q]
  /\ \A k \in 1 .. n : f[k] = AfterOne(f[k - 1])

\* One more integer leaves no more bytes than there were.
LEMMA AfterOneTyped ==
  ASSUME NEW x \in ReadState
  PROVE  /\ AfterOne(x) \in ReadState
         /\ Length(AfterOne(x).rest) <= Length(x.rest)
  <1>1. x.values \in Seq(Nat) /\ x.rest \in Bytes
    BY DEF ReadState
  <1>2. Length(x.rest) \in Nat
    BY <1>1, LengthIsNat
  <1>3. CASE HasInteger(FrameByteValues, x.rest)
    <2> DEFINE value == IntegerValue(FrameByteValues, x.rest)
               rest == Behind(FrameByteValues, x.rest)
               size == IntegerLength(FrameByteValues, x.rest)
               values == Append(x.values, value)
    <2>1. value \in Nat /\ rest \in Bytes /\ size \in 1 .. Length(x.rest)
          /\ Length(rest) = Length(x.rest) - size
      BY <1>1, <1>3, BothBases, BehindInteger
    <2>2. AfterOne(x) = [values |-> values, rest |-> rest]
      BY <1>3 DEF AfterOne
    <2> HIDE DEF value, rest, size
    <2>3. values \in Seq(Nat)
      BY <1>1, <2>1
    <2>4. Length(rest) <= Length(x.rest)
      BY <1>2, <2>1
    <2> HIDE DEF values
    <2>5. AfterOne(x).rest = rest
      BY <2>2
    <2> QED BY <2>1, <2>2, <2>3, <2>4, <2>5 DEF ReadState
  <1>4. CASE ~ HasInteger(FrameByteValues, x.rest)
    BY <1>2, <1>4 DEF AfterOne
  <1> QED BY <1>3, <1>4

\* IntegersIn reads one integer after another.
LEMMA IntegersInSteps ==
  ASSUME NEW q \in Bytes, NEW n \in Nat
  PROVE  \E f : IntegersRead(f, q, n) /\ Frames!IntegersIn(q, n) = f[n]
  <1> DEFINE V == ReadState
             start == [values |-> <<>>, rest |-> q]
             step == [p \in (1 .. n) \X V |-> AfterOne(p[2])]
             Body(f, k) ==
               IF k = 0 THEN [values |-> <<>>, rest |-> q]
               ELSE IF ~Frames!HasVarInt(f[k - 1].rest) THEN f[k - 1]
               ELSE [values |-> Append(f[k - 1].values, Frames!VarIntIn(f[k - 1].rest)),
                     rest |-> Frames!AfterVarInt(f[k - 1].rest)]
             upTo == CHOOSE f : f = [k \in 0 .. n |-> Body(f, k)]
  <1>1. Frames!IntegersIn(q, n) = upTo[n]
    BY DEF Frames!IntegersIn
  <1>2. start \in V
    <2>1. <<>> \in Seq(Nat)
      OBVIOUS
    <2> HIDE DEF Bytes
    <2> QED BY <2>1 DEF ReadState
  <1>3. step \in [(1 .. n) \X V -> V]
    <2> SUFFICES ASSUME NEW p \in (1 .. n) \X V PROVE AfterOne(p[2]) \in V
      OBVIOUS
    <2>1. p[2] \in V
      OBVIOUS
    <2> QED BY <2>1, AfterOneTyped
  <1>4. PICK f \in [0 .. n -> V] : Counts(f, n, start, step)
    <2> HIDE DEF V, start, step
    <2> QED BY <1>2, <1>3, Counting
  <1>5. f[0] = start /\ \A k \in 1 .. n : f[k] = AfterOne(f[k - 1])
    <2>1. f[0] = start /\ \A k \in 1 .. n : f[k] = step[<<k, f[k - 1]>>]
      BY <1>4 DEF Counts
    <2> SUFFICES ASSUME NEW k \in 1 .. n PROVE f[k] = AfterOne(f[k - 1])
      BY <2>1
    <2>2. k - 1 \in 0 .. n
      OBVIOUS
    <2>3. f[k - 1] \in V
      <3> HIDE DEF V
      <3> QED BY <1>4, <2>2
    <2>4. step[<<k, f[k - 1]>>] = AfterOne(f[k - 1])
      <3> HIDE DEF V
      <3> QED BY <2>3
    <2> HIDE DEF step, V
    <2> QED BY <2>1, <2>4
  <1>6. \A x : (IF ~Frames!HasVarInt(x.rest) THEN x
                ELSE [values |-> Append(x.values, Frames!VarIntIn(x.rest)),
                      rest |-> Frames!AfterVarInt(x.rest)]) = AfterOne(x)
    BY FrameIntegers DEF AfterOne
  <1>7. f = [k \in 0 .. n |-> Body(f, k)]
    <2>1. f = [k \in 0 .. n |-> f[k]]
      BY <1>4
    <2>2. \A k \in 0 .. n : f[k] = Body(f, k)
      <3> SUFFICES ASSUME NEW k \in 0 .. n PROVE f[k] = Body(f, k)
        OBVIOUS
      <3>1. CASE k = 0
        BY <1>5, <3>1
      <3>2. CASE k # 0
        <4>1. k \in 1 .. n
          BY <3>2
        <4>2. f[k] = AfterOne(f[k - 1])
          BY <1>5, <4>1
        <4>3. Body(f, k) = AfterOne(f[k - 1])
          BY <1>6, <3>2
        <4> QED BY <4>2, <4>3
      <3> QED BY <3>1, <3>2
    <2> HIDE DEF Body
    <2> QED BY <2>1, <2>2
  <1>8. upTo = [k \in 0 .. n |-> Body(upTo, k)]
    <2> HIDE DEF Body
    <2> QED BY <1>7
  <1>9. IntegersRead(upTo, q, n)
    <2>1. \A k \in 0 .. n : upTo[k] = Body(upTo, k)
      <3> HIDE DEF Body, upTo
      <3> QED BY <1>8
    <2> HIDE DEF upTo
    <2>2. upTo[0] = start
      <3>1. 0 \in 0 .. n
        OBVIOUS
      <3>2. upTo[0] = Body(upTo, 0)
        BY <2>1, <3>1
      <3>3. Body(upTo, 0) = start
        BY Zenon
      <3> QED BY <3>2, <3>3, Zenon
    <2>3. ASSUME NEW k \in 1 .. n PROVE upTo[k] = AfterOne(upTo[k - 1])
      <3>1. k \in 0 .. n /\ k # 0
        OBVIOUS
      <3>2. upTo[k] = Body(upTo, k)
        BY <2>1, <3>1
      <3> QED BY <1>6, <3>1, <3>2
    <2> DEFINE S == {k \in 0 .. n : upTo[k] \in V}
    <2>4. 0 \in S
      BY <1>2, <2>2
    <2>5. ASSUME NEW k \in 1 .. n, k - 1 \in S PROVE k \in S
      <3>1. upTo[k - 1] \in V /\ k \in 0 .. n
        BY <2>5
      <3> QED BY <2>3, <3>1, AfterOneTyped
    <2> HIDE DEF S
    <2>6. \A k \in 0 .. n : k \in S
      BY <2>4, <2>5, Upwards
    <2>7. \A k \in 0 .. n : upTo[k] \in V
      BY <2>6 DEF S
    <2>8. upTo \in [0 .. n -> V]
      <3> DEFINE g == [k \in 0 .. n |-> Body(upTo, k)]
      <3>1. upTo = g /\ g = [k \in 0 .. n |-> g[k]]
        BY <1>8
      <3> HIDE DEF g, Body, V
      <3>2. DOMAIN g = 0 .. n
        BY DEF g
      <3> QED BY <2>7, <3>1, <3>2, ZenonT(40)
    <2> QED BY <2>2, <2>3, <2>8 DEF IntegersRead
  <1> QED BY <1>1, <1>9

\* Whatever it reads, what it has left is no longer than what it was given.
LEMMA IntegersInTyped ==
  ASSUME NEW q \in Bytes, NEW n \in Nat
  PROVE  /\ Frames!IntegersIn(q, n) \in ReadState
         /\ Length(Frames!IntegersIn(q, n).rest) <= Length(q)
  <1>1. PICK f : IntegersRead(f, q, n) /\ Frames!IntegersIn(q, n) = f[n]
    BY IntegersInSteps
  <1>2. /\ f \in [0 .. n -> ReadState]
        /\ f[0] = [values |-> <<>>, rest |-> q]
        /\ \A k \in 1 .. n : f[k] = AfterOne(f[k - 1])
    BY <1>1 DEF IntegersRead
  <1> DEFINE S == {k \in 0 .. n : Length(f[k].rest) <= Length(q)}
  <1>3. 0 \in S
    <2>1. f[0].rest = q /\ Length(q) \in Nat
      BY <1>2, LengthIsNat
    <2> QED BY <2>1
  <1>4. ASSUME NEW k \in 1 .. n, k - 1 \in S PROVE k \in S
    <2>1. k - 1 \in 0 .. n /\ k \in 0 .. n /\ Length(f[k - 1].rest) <= Length(q)
      BY <1>4
    <2>2. f[k - 1] \in ReadState /\ f[k] \in ReadState
      BY <1>2, <2>1
    <2>3. f[k - 1].rest \in Bytes /\ f[k].rest \in Bytes
      BY <2>2 DEF ReadState
    <2>4. Length(f[k - 1].rest) \in Nat /\ Length(f[k].rest) \in Nat /\ Length(q) \in Nat
      BY <2>3, LengthIsNat
    <2>5. f[k] = AfterOne(f[k - 1])
      BY <1>2, Zenon
    <2>6. Length(AfterOne(f[k - 1]).rest) <= Length(f[k - 1].rest)
      BY <2>2, AfterOneTyped
    <2>7. Length(f[k].rest) <= Length(q)
      BY <2>1, <2>4, <2>5, <2>6
    <2> QED BY <2>1, <2>7
  <1> HIDE DEF S
  <1>5. \A k \in 0 .. n : k \in S
    BY <1>3, <1>4, Upwards
  <1>6. n \in 0 .. n
    OBVIOUS
  <1>7. n \in S /\ f[n] \in ReadState
    BY <1>2, <1>5, <1>6
  <1> QED BY <1>1, <1>7 DEF S

\* The integers that a payload can hold.
Writable == {n \in Nat : Holds(FrameByteValues, n, 8)}

\* What is left of a row of written integers, after each of them.
Tails(t, integers, rest) ==
  /\ t \in [0 .. Length(integers) -> Bytes]
  /\ t[Length(integers)] = rest
  /\ \A k \in 1 .. Length(integers) : t[k - 1] = Cat(Frames!InWidth(integers[k], 0), t[k])

\* Written integers, from each one on.
LEMMA TailsExist ==
  ASSUME NEW integers \in Seq(Writable), NEW rest \in Bytes, NEW parts,
         parts = [k \in 1 .. Len(integers) |-> Frames!Number(integers[k], 0)]
  PROVE  \E t : /\ Tails(t, integers, rest)
                /\ Frames!PartsBytes(parts) \in Bytes
                /\ t[0] = Cat(Frames!PartsBytes(parts), rest)
  <1> DEFINE N == Length(integers)
             piece(k) == Frames!InWidth(integers[k], 0)
             pieces == [k \in 1 .. N |-> piece(k)]
             step == [p \in (1 .. N) \X Bytes |-> Cat(piece(N + 1 - p[1]), p[2])]
  <1>1. N \in Nat /\ \A k \in 1 .. N : integers[k] \in Writable
    BY DEF Length
  <1>2. ASSUME NEW k \in 1 .. N PROVE piece(k) \in Bytes
    <2>1. integers[k] \in Nat /\ Holds(FrameByteValues, integers[k], 8)
      BY <1>1 DEF Writable
    <2> QED BY <2>1, WidthTyped
  <1>3. Frames!PartsBytes(parts) = Frames!Joined(pieces)
    <2>1. Len(parts) = N /\ \A k \in 1 .. N : parts[k].bytes = piece(k)
      BY <1>1 DEF Length, Frames!Number
    <2> QED BY <2>1 DEF Frames!PartsBytes
  <1> HIDE DEF N, piece
  <1>4. /\ Length(pieces) = N
        /\ \A k \in 1 .. N : pieces[k] = piece(k)
        /\ \A k \in 1 .. Length(pieces) : pieces[k] \in Seq(Link!Byte)
    <2>1. Len(pieces) = N
      BY <1>1
    <2> QED BY <1>2, <2>1 DEF Bytes, Length
  <1>5. PICK j : Joins1(j, pieces, Link!Byte) /\ Frames!Joined(pieces) = j[N]
    <2> HIDE DEF pieces
    <2> QED BY <1>1, <1>4, JoinedSteps
  <1> HIDE DEF pieces
  <1>6. /\ j \in [0 .. N -> Bytes] /\ j[0] = <<>>
        /\ \A k \in 1 .. N : j[k] = Cat(j[k - 1], piece(k))
    BY <1>4, <1>5 DEF Joins1, Bytes, Cat
  <1>7. step \in [(1 .. N) \X Bytes -> Bytes]
    <2> SUFFICES ASSUME NEW p \in (1 .. N) \X Bytes PROVE Cat(piece(N + 1 - p[1]), p[2]) \in Bytes
      OBVIOUS
    <2>1. p[1] \in 1 .. N /\ p[2] \in Bytes
      OBVIOUS
    <2>2. N + 1 - p[1] \in 1 .. N
      BY <1>1, <2>1
    <2> QED BY <1>2, <2>1, <2>2, CatTyped
  <1>8. PICK g \in [0 .. N -> Bytes] : Counts(g, N, rest, step)
    <2> HIDE DEF step
    <2> QED BY <1>1, <1>7, Counting
  <1>9. g[0] = rest /\ \A i \in 1 .. N : g[i] = Cat(piece(N + 1 - i), g[i - 1])
    <2>1. g[0] = rest /\ \A i \in 1 .. N : g[i] = step[<<i, g[i - 1]>>]
      BY <1>8 DEF Counts
    <2> SUFFICES ASSUME NEW i \in 1 .. N PROVE g[i] = Cat(piece(N + 1 - i), g[i - 1])
      BY <2>1
    <2>2. i - 1 \in 0 .. N
      BY <1>1
    <2>3. g[i - 1] \in Bytes
      BY <1>8, <2>2
    <2>4. step[<<i, g[i - 1]>>] = Cat(piece(N + 1 - i), g[i - 1])
      BY <2>3
    <2> HIDE DEF step
    <2> QED BY <2>1, <2>4
  <1> HIDE DEF step
  <1> DEFINE t == [k \in 0 .. N |-> g[N - k]]
  <1>10. \A k \in 0 .. N : N - k \in 0 .. N /\ t[k] = g[N - k]
    BY <1>1
  <1>11. t \in [0 .. N -> Bytes]
    BY <1>8, <1>10
  <1>12. t[N] = rest
    BY <1>1, <1>9, <1>10
  <1> HIDE DEF t
  <1>13. ASSUME NEW k \in 1 .. N PROVE t[k - 1] = Cat(piece(k), t[k])
    <2>1. /\ k - 1 \in 0 .. N /\ k \in 0 .. N /\ N - (k - 1) \in 1 .. N
          /\ N + 1 - (N - (k - 1)) = k /\ (N - (k - 1)) - 1 = N - k
      BY <1>1
    <2>2. t[k - 1] = g[N - (k - 1)] /\ t[k] = g[N - k]
      BY <1>10, <2>1
    <2>3. g[N - (k - 1)] = Cat(piece(N + 1 - (N - (k - 1))), g[(N - (k - 1)) - 1])
      BY <1>9, <2>1
    <2> QED BY <2>1, <2>2, <2>3
  <1>14. Tails(t, integers, rest)
    BY <1>11, <1>12, <1>13 DEF Tails, N, piece
  <1> DEFINE S == {k \in 0 .. N : Cat(j[k], t[k]) = t[0]}
  <1>15. 0 \in S
    <2>1. 0 \in 0 .. N /\ t[0] \in Bytes
      BY <1>1, <1>11
    <2> QED BY <1>6, <2>1, CatEmpty
  <1>16. ASSUME NEW k \in 1 .. N, k - 1 \in S PROVE k \in S
    <2>1. k \in 0 .. N /\ k - 1 \in 0 .. N /\ Cat(j[k - 1], t[k - 1]) = t[0]
      BY <1>16
    <2>2. j[k - 1] \in Bytes /\ t[k] \in Bytes /\ piece(k) \in Bytes
      BY <1>2, <1>6, <1>11, <2>1
    <2>3. Cat(Cat(j[k - 1], piece(k)), t[k]) = Cat(j[k - 1], Cat(piece(k), t[k]))
      BY <2>2, CatMoves
    <2>4. j[k] = Cat(j[k - 1], piece(k)) /\ t[k - 1] = Cat(piece(k), t[k])
      BY <1>6, <1>13
    <2>5. Cat(j[k], t[k]) = t[0]
      BY <2>1, <2>3, <2>4, Zenon
    <2> QED BY <2>1, <2>5
  <1> HIDE DEF S
  <1>17. \A k \in 0 .. N : k \in S
    BY <1>1, <1>15, <1>16, Upwards
  <1>18. N \in 0 .. N
    BY <1>1
  <1>19. Cat(j[N], rest) = t[0] /\ j[N] \in Bytes
    BY <1>6, <1>12, <1>17, <1>18 DEF S
  <1> QED BY <1>3, <1>5, <1>14, <1>19

\* Some of a row of integers.
Middle(integers, a, n) == [i \in 1 .. n |-> integers[a + i]]

LEMMA MiddleGrows ==
  ASSUME NEW integers \in Seq(Nat), NEW a \in Nat, NEW n \in Nat, a + n < Len(integers)
  PROVE  Append(Middle(integers, a, n), integers[a + (n + 1)]) = Middle(integers, a, n + 1)
  <1> DEFINE x == integers[a + (n + 1)]
             m == Middle(integers, a, n)
             l == Middle(integers, a, n + 1)
  <1>1. x \in Nat /\ \A i \in 1 .. (n + 1) : integers[a + i] \in Nat
    OBVIOUS
  <1>2. m \in Seq(Nat) /\ Len(m) = n /\ \A i \in 1 .. n : m[i] = integers[a + i]
    BY <1>1 DEF Middle
  <1>3. l \in Seq(Nat) /\ Len(l) = n + 1 /\ \A i \in 1 .. (n + 1) : l[i] = integers[a + i]
    BY <1>1 DEF Middle
  <1> DEFINE q == Append(m, x)
  <1> HIDE DEF m, l, x
  <1>4. q \in Seq(Nat) /\ Len(q) = n + 1
        /\ \A i \in 1 .. (n + 1) : q[i] = IF i = n + 1 THEN x ELSE m[i]
    BY <1>1, <1>2
  <1> HIDE DEF q
  <1>5. \A i \in 1 .. (n + 1) : q[i] = l[i]
    <2> SUFFICES ASSUME NEW i \in 1 .. (n + 1) PROVE q[i] = l[i]
      OBVIOUS
    <2>1. CASE i = n + 1
      BY <1>3, <1>4, <2>1 DEF x
    <2>2. CASE i # n + 1
      <3>1. i \in 1 .. n
        BY <2>2
      <3> QED BY <1>2, <1>3, <1>4, <2>2, <3>1
    <2> QED BY <2>1, <2>2
  <1>6. q = l
    BY <1>3, <1>4, <1>5, SeqEqual
  <1> QED BY <1>6 DEF q, m, l, x

\* Integers are read as they were written, from any of them on.
LEMMA ReadBetween ==
  ASSUME NEW integers \in Seq(Writable), NEW rest \in Bytes, NEW t, Tails(t, integers, rest),
         NEW a \in Nat, NEW n \in Nat, a + n <= Length(integers)
  PROVE  Frames!IntegersIn(t[a], n) = [values |-> Middle(integers, a, n), rest |-> t[a + n]]
  <1> DEFINE N == Length(integers)
             state(k) == [values |-> Middle(integers, a, k), rest |-> t[a + k]]
  <1>1. /\ N \in Nat /\ integers \in Seq(Nat)
        /\ \A k \in 1 .. N : integers[k] \in Nat /\ Holds(FrameByteValues, integers[k], 8)
    <2>1. integers \in Seq(Nat)
      BY WiderSequence DEF Writable
    <2> QED BY <2>1 DEF Length, Writable
  <1>2. /\ t \in [0 .. N -> Bytes]
        /\ \A k \in 1 .. N : t[k - 1] = Cat(Frames!InWidth(integers[k], 0), t[k])
    BY DEF Tails
  <1> HIDE DEF N
  <1>3. a + n <= N /\ a \in 0 .. N
    BY <1>1 DEF N
  <1>4. t[a] \in Bytes
    BY <1>2, <1>3
  <1>5. PICK f : IntegersRead(f, t[a], n) /\ Frames!IntegersIn(t[a], n) = f[n]
    BY <1>4, IntegersInSteps
  <1>6. /\ f[0] = [values |-> <<>>, rest |-> t[a]]
        /\ \A k \in 1 .. n : f[k] = AfterOne(f[k - 1])
    BY <1>5 DEF IntegersRead
  <1>7. ASSUME NEW k \in 1 .. n PROVE AfterOne(state(k - 1)) = state(k)
    <2> DEFINE i == a + k
               value == integers[i]
               before == t[i - 1]
               after == t[i]
               m == Middle(integers, a, k - 1)
    <2>1. i \in 1 .. N /\ i \in 0 .. N /\ a + (k - 1) = i - 1 /\ k - 1 \in Nat
          /\ a + ((k - 1) + 1) = i /\ (k - 1) + 1 = k /\ a + (k - 1) < N
      BY <1>1, <1>3
    <2>2. value \in Nat /\ Holds(FrameByteValues, value, 8) /\ after \in Bytes
      BY <1>1, <1>2, <2>1
    <2>3. before = Cat(Frames!InWidth(value, 0), after)
      BY <1>2, <2>1
    <2> HIDE DEF value, before, after, m
    <2>4. PICK length : IsRead(before, FrameByteValues, value, length, after)
      BY <2>2, <2>3, WidthTyped
    <2>5. /\ HasInteger(FrameByteValues, before)
          /\ IntegerValue(FrameByteValues, before) = value
          /\ Behind(FrameByteValues, before) = after
      BY <2>4 DEF IsRead
    <2>6. AfterOne([values |-> m, rest |-> before]) = [values |-> Append(m, value), rest |-> after]
      BY <2>5 DEF AfterOne
    <2>7. Append(m, value) = Middle(integers, a, k)
      <3>1. Append(Middle(integers, a, k - 1), integers[a + ((k - 1) + 1)])
               = Middle(integers, a, (k - 1) + 1)
        BY <1>1, <2>1, MiddleGrows DEF N, Length
      <3> QED BY <2>1, <3>1 DEF m, value
    <2>8. state(k - 1) = [values |-> m, rest |-> before]
      BY <2>1 DEF m, before
    <2> QED BY <2>6, <2>7, <2>8 DEF after
  <1>8. state(0) = [values |-> <<>>, rest |-> t[a]]
    BY <1>3 DEF Middle
  <1> HIDE DEF state
  <1> DEFINE S == {k \in 0 .. n : f[k] = state(k)}
  <1>9. 0 \in S
    BY <1>6, <1>8
  <1>10. ASSUME NEW k \in 1 .. n, k - 1 \in S PROVE k \in S
    <2>1. f[k - 1] = state(k - 1) /\ k \in 0 .. n
      BY <1>10
    <2> QED BY <1>6, <1>7, <2>1
  <1> HIDE DEF S
  <1>11. \A k \in 0 .. n : k \in S
    BY <1>9, <1>10, Upwards
  <1>12. f[n] = state(n)
    <2>1. n \in 0 .. n
      OBVIOUS
    <2> QED BY <1>11, <2>1 DEF S
  <1> QED BY <1>5, <1>12 DEF state

\* The first integers and the others are all of them.
LEMMA MiddlesJoin ==
  ASSUME NEW integers \in Seq(Nat), NEW n \in Nat, n <= Len(integers)
  PROVE  Middle(integers, 0, n) \o Middle(integers, n, Len(integers) - n) = integers
  <1> DEFINE N == Len(integers)
             f == Middle(integers, 0, n)
             g == Middle(integers, n, N - n)
  <1>1. N \in Nat /\ N - n \in Nat
    OBVIOUS
  <1>2. f \in Seq(Nat) /\ Len(f) = n /\ \A i \in 1 .. n : f[i] = integers[i]
    BY <1>1 DEF Middle
  <1>3. g \in Seq(Nat) /\ Len(g) = N - n /\ \A i \in 1 .. (N - n) : g[i] = integers[n + i]
    BY <1>1 DEF Middle
  <1> HIDE DEF f, g
  <1>4. f \o g \in Seq(Nat) /\ Len(f \o g) = N
    <2>1. f \o g \in Seq(Nat) /\ Len(f \o g) = Len(f) + Len(g)
      BY <1>2, <1>3, ConcatProperties
    <2> QED BY <1>1, <1>2, <1>3, <2>1
  <1>5. ASSUME NEW i \in 1 .. N PROVE (f \o g)[i] = integers[i]
    <2>1. (f \o g)[i] = IF i <= n THEN f[i] ELSE g[i - n]
      <3>1. i \in 1 .. Len(f) + Len(g)
        BY <1>1, <1>2, <1>3
      <3>2. (f \o g)[i] = IF i <= Len(f) THEN f[i] ELSE g[i - Len(f)]
        BY <1>2, <1>3, <3>1, ConcatProperties
      <3> QED BY <1>2, <3>2
    <2>2. CASE i <= n
      BY <1>2, <2>1, <2>2
    <2>3. CASE ~ (i <= n)
      <3>1. i - n \in 1 .. (N - n) /\ n + (i - n) = i
        BY <1>1, <2>3
      <3>2. g[i - n] = integers[n + (i - n)]
        BY <1>3, <3>1
      <3> QED BY <2>1, <2>3, <3>1, <3>2
    <2> QED BY <2>2, <2>3
  <1>6. f \o g = integers
    BY <1>4, <1>5, SeqEqual
  <1> QED BY <1>6 DEF f, g

-----------------------------------------------------------------------------
(* The frames of a payload *)

\* A frame that ends with data takes what was in front of the data, and no more than
\* there is.
LEMMA DataLength ==
  ASSUME NEW q \in Bytes, NEW tail \in Bytes, Length(tail) < Length(q), NEW type, NEW integers,
         Frames!WithData(q, type, integers, tail) # Frames!NoFrame
  PROVE  Frames!WithData(q, type, integers, tail).length \in 1 .. Length(q)
  <1> DEFINE width == Frames!LengthWidth(type, tail)
             size == Frames!DataLength(type, tail)
             end == width + size
             n == Length(q)
             m == Length(tail)
             data == SubSeq(tail, width + 1, end)
             frame == [type |-> type, integers |-> integers, data |-> data,
                       length |-> n - m + end]
  <1>1. /\ Frames!HasDataLength(type, tail)
        /\ ~ (m < end)
        /\ Frames!WithData(q, type, integers, tail) = frame
    BY DEF Frames!WithData, Length
  <1>2. n \in Nat /\ m \in Nat /\ m < n
    BY LengthIsNat
  <1>3. width \in Nat /\ size \in Nat
    <2>1. CASE Frames!HasSizedData(type)
      <3>1. HasInteger(FrameByteValues, tail)
        BY <1>1, <2>1, FrameIntegers DEF Frames!HasDataLength
      <3>2. IntegerLength(FrameByteValues, tail) \in 1 .. m
            /\ IntegerValue(FrameByteValues, tail) \in Nat
        BY <3>1, BothBases, BehindInteger
      <3>3. width = IntegerLength(FrameByteValues, tail)
            /\ size = IntegerValue(FrameByteValues, tail)
        BY <2>1, FrameIntegers DEF Frames!LengthWidth, Frames!DataLength
      <3> HIDE DEF m, width, size
      <3> QED BY <1>2, <3>2, <3>3
    <2>2. CASE ~ Frames!HasSizedData(type) /\ type # Frames!NEW_CONNECTION_ID
      <3>1. width = 0
        BY <2>2 DEF Frames!LengthWidth
      <3>2. size \in {m, 8, 0}
        BY <2>2 DEF Frames!DataLength, Frames!PathDataLength, Length
      <3> HIDE DEF m, width, size
      <3> QED BY <1>2, <3>1, <3>2
    <2>3. CASE ~ Frames!HasSizedData(type) /\ type = Frames!NEW_CONNECTION_ID
      <3>1. width = 1
        BY <2>3 DEF Frames!LengthWidth
      <3>2. tail[1] \in 1 .. 20
        BY <1>1, <2>3 DEF Frames!HasDataLength, Frames!MaximumIdLength
      <3>3. ~ Frames!HasRestAsData(type)
        BY <2>3 DEF Frames!HasRestAsData, Frames!NEW_CONNECTION_ID, Frames!STREAMS
      <3>4. size = tail[1] + 16
        BY <2>3, <3>3 DEF Frames!DataLength, Frames!ResetTokenLength
      <3> HIDE DEF width, size
      <3> QED BY <3>1, <3>2, <3>4
    <2> QED BY <2>1, <2>2, <2>3
  <1> HIDE DEF width, size, n, m, data
  <1>4. frame.length = n - m + end
    OBVIOUS
  <1>5. n - m + end \in 1 .. n
    BY <1>1, <1>2, <1>3
  <1> QED BY <1>1, <1>4, <1>5 DEF n

\* A frame takes some of the bytes, and no more than there are.
LEMMA FrameLength ==
  ASSUME NEW q \in Bytes, Length(q) > 0, Frames!FrameIn(q) # Frames!NoFrame
  PROVE  /\ Frames!FrameIn(q) = Frames!RawFrameIn(q)
         /\ Frames!FrameIn(q).length \in 1 .. Length(q)
  <1> DEFINE raw == Frames!RawFrameIn(q)
             type == Frames!VarIntIn(q)
             behind == Frames!AfterVarInt(q)
             count == Frames!IntegerCount(type)
             fixed == Frames!IntegersIn(behind, count)
             ranges == Frames!RangeIntegers(type, fixed.values[3], fixed.rest)
             more == Frames!IntegersIn(fixed.rest, ranges)
             n == Length(q)
  <1>1. Frames!FrameIn(q) = raw /\ raw # Frames!NoFrame
    <2>1. Frames!FrameIn(q) = Frames!Checked(raw)
      BY DEF Frames!FrameIn
    <2> HIDE DEF raw
    <2> QED BY <2>1 DEF Frames!Checked
  <1>2. /\ Frames!HasVarInt(q) /\ type \in Frames!FrameTypes
        /\ raw = Frames!WithIntegers(q, type, fixed)
    BY <1>1 DEF Frames!RawFrameIn
  <1>3. behind \in Bytes /\ Length(behind) < n /\ Length(behind) \in Nat /\ n \in Nat
    <2>1. HasInteger(FrameByteValues, q) /\ behind = Behind(FrameByteValues, q)
      BY <1>2, FrameIntegers
    <2>2. /\ IntegerLength(FrameByteValues, q) \in 1 .. Length(q)
          /\ Behind(FrameByteValues, q) \in Bytes
          /\ Length(Behind(FrameByteValues, q)) = Length(q) - IntegerLength(FrameByteValues, q)
      BY <2>1, BothBases, BehindInteger
    <2>3. behind \in Bytes /\ Length(behind) = n - IntegerLength(FrameByteValues, q)
      BY <2>1, <2>2
    <2>4. n \in Nat
      BY LengthIsNat
    <2> HIDE DEF behind, n
    <2> QED BY <2>2, <2>3, <2>4 DEF n
  <1> HIDE DEF raw, type, behind
  <1>4. count \in Nat
    BY DEF Frames!IntegerCount
  <1> HIDE DEF count, n
  <1>5. fixed \in ReadState /\ Length(fixed.rest) <= Length(behind)
    BY <1>3, <1>4, IntegersInTyped
  <1> HIDE DEF fixed
  <1>6. fixed.rest \in Bytes /\ fixed.values \in Seq(Nat) /\ Length(fixed.rest) \in Nat
    BY <1>5, LengthIsNat DEF ReadState
  <1>7. Length(fixed.rest) < n
    BY <1>3, <1>5, <1>6
  <1>8. raw = IF Len(fixed.values) < count THEN Frames!NoFrame
              ELSE IF type \notin Frames!ACKS
                   THEN Frames!WithData(q, type, fixed.values, fixed.rest)
              ELSE Frames!WithRanges(q, type, fixed.values, ranges, more)
    BY <1>2 DEF Frames!WithIntegers, count
  <1>9. CASE type \notin Frames!ACKS
    <2>1. raw = Frames!WithData(q, type, fixed.values, fixed.rest)
      BY <1>1, <1>8, <1>9
    <2>2. raw.length \in 1 .. Length(q)
      BY <1>1, <1>6, <1>7, <2>1, DataLength DEF n
    <2> QED BY <1>1, <2>2 DEF raw
  <1>10. CASE type \in Frames!ACKS
    <2>1. raw = Frames!WithRanges(q, type, fixed.values, ranges, more)
             /\ ~ (Len(fixed.values) < count)
      BY <1>1, <1>8, <1>10
    <2>2. ranges \in Nat
      <3>1. type \in {2, 3} /\ count = 4
        BY <1>10 DEF Frames!ACKS, count, Frames!IntegerCount, Frames!BARE, Frames!PATHS,
                     Frames!NEW_TOKEN, Frames!STOP_SENDING, Frames!MAX_STREAM_DATA,
                     Frames!STREAM_DATA_BLOCKED, Frames!NEW_CONNECTION_ID,
                     Frames!CLOSE_TRANSPORT, Frames!RESET_STREAM
      <3>2. 3 \in 1 .. Len(fixed.values)
        BY <1>6, <2>1, <3>1
      <3> DEFINE c == fixed.values[3]
                 l == Length(fixed.rest)
      <3>3. c \in Nat
        BY <1>6, <3>2, ElementOfSeq
      <3>4. ranges = 2 * (IF c > l THEN l ELSE c) + 3 * (type - 2)
        BY DEF Frames!RangeIntegers, Length
      <3> HIDE DEF c, l, ranges
      <3>5. l \in Nat
        BY <1>6 DEF l
      <3> QED BY <3>1, <3>3, <3>4, <3>5
    <2> HIDE DEF ranges
    <2>3. more \in ReadState /\ Length(more.rest) <= Length(fixed.rest)
      BY <1>6, <2>2, IntegersInTyped
    <2> HIDE DEF more
    <2>4. more.rest \in Bytes /\ Length(more.rest) \in Nat
      BY <2>3, LengthIsNat DEF ReadState
    <2>5. Length(more.rest) < n
      BY <1>3, <1>6, <1>7, <2>3, <2>4
    <2> DEFINE all == fixed.values \o more.values
    <2>6. raw = Frames!WithData(q, type, all, more.rest)
      BY <1>1, <2>1 DEF Frames!WithRanges
    <2> HIDE DEF all
    <2>7. raw.length \in 1 .. Length(q)
      BY <1>1, <2>4, <2>5, <2>6, DataLength DEF n
    <2> QED BY <1>1, <2>7 DEF raw
  <1> QED BY <1>9, <1>10

\* The first of the frames of a payload is the one it starts with.
LEMMA FirstFrame ==
  ASSUME NEW q \in Bytes, Length(q) > 0, Frames!FramesIn(q) # <<>>
  PROVE  /\ Frames!FramesIn(q)[1] = Frames!RawFrameIn(q)
         /\ Frames!FrameIn(q) # Frames!NoFrame
  <1> DEFINE n == Length(q)
             D == 1 .. (n + 1)
             P(i) == Frames!FrameIn(Cut(q, i, n))
             X == {P(i) : i \in 1 .. n}
             goes == {i \in 1 .. n : P(i) # Frames!NoFrame}
             item == [i \in 1 .. n |-> P(i)]
             onward == [i \in goes |-> i + P(i).length]
             Body(f, i) == IF i > n THEN <<>>
                           ELSE IF P(i) = Frames!NoFrame THEN <<Frames!NoFrame>>
                           ELSE <<P(i)>> \o f[i + P(i).length]
             from == CHOOSE f : f = [i \in D |-> Body(f, i)]
  <1>1. Frames!FramesIn(q) = Frames!AllOrNone(from[1])
    BY DEF Frames!FramesIn, Frames!From, Cut, Length
  <1>2. n \in Nat /\ n > 0
    BY LengthIsNat
  <1>3. ASSUME NEW i \in goes PROVE P(i).length \in 1 .. (n + 1 - i)
    <2>1. i \in 1 .. n /\ P(i) # Frames!NoFrame
      OBVIOUS
    <2>2. Cut(q, i, n) \in Bytes /\ Length(Cut(q, i, n)) = n + 1 - i
      <3>1. i \in Nat /\ i >= 1 /\ n <= Length(q) /\ i <= n + 1
        BY <1>2, <2>1
      <3>2. IsCut(Cut(q, i, n), q, i, n)
        BY <1>2, <3>1, CutIs
      <3> QED BY <3>2 DEF IsCut
    <2>3. Length(Cut(q, i, n)) > 0
      BY <1>2, <2>1, <2>2
    <2> QED BY <2>1, <2>2, <2>3, FrameLength
  <1>4. onward \in [goes -> D] /\ \A i \in goes : onward[i] > i
    <2> SUFFICES ASSUME NEW i \in goes PROVE i + P(i).length \in D /\ i + P(i).length > i
      OBVIOUS
    <2>1. i \in 1 .. n /\ P(i).length \in 1 .. (n + 1 - i)
      BY <1>3
    <2> HIDE DEF P, n
    <2> QED BY <1>2, <2>1
  <1>5. item \in [1 .. n -> X] /\ goes \in SUBSET (1 .. n)
    OBVIOUS
  <1> HIDE DEF P, X
  <1>6. PICK f \in [D -> Seq(X)] :
           \A i \in D : f[i] = IF i > n THEN <<>>
                               ELSE IF i \in goes THEN <<item[i]>> \o f[onward[i]]
                               ELSE <<item[i]>>
    <2>1. n \in Nat /\ onward \in [goes -> 1 .. (n + 1)] /\ (\A i \in goes : onward[i] > i)
          /\ item \in [1 .. n -> X] /\ goes \in SUBSET (1 .. n)
      BY <1>2, <1>4, <1>5
    <2> HIDE DEF goes, item, onward, n, X
    <2>2. \E f : WalksOver(f, X, n, item, goes, onward)
      BY <2>1, Walking
    <2> QED BY <2>2 DEF WalksOver
  <1>7. ASSUME NEW i \in D PROVE f[i] = Body(f, i)
    <2>1. f[i] = IF i > n THEN <<>>
                 ELSE IF i \in goes THEN <<item[i]>> \o f[onward[i]] ELSE <<item[i]>>
      BY <1>6
    <2>2. CASE i > n
      BY <2>1, <2>2
    <2>3. CASE ~ (i > n)
      <3>1. i \in 1 .. n /\ item[i] = P(i)
        BY <1>2, <2>3
      <3>2. i \in goes => onward[i] = i + P(i).length
        OBVIOUS
      <3>3. i \in goes <=> P(i) # Frames!NoFrame
        BY <3>1
      <3> HIDE DEF goes, onward, item
      <3> QED BY <2>1, <2>3, <3>1, <3>2, <3>3
    <2> QED BY <2>2, <2>3
  <1>8. f = [i \in D |-> Body(f, i)]
    <2>1. f = [i \in D |-> f[i]]
      BY <1>6
    <2> HIDE DEF Body, D
    <2> QED BY <1>7, <2>1
  <1>9. from = [i \in D |-> Body(from, i)]
    <2> HIDE DEF Body, D
    <2> QED BY <1>8
  <1>10. \A i \in D : from[i] = Body(from, i)
    <2> HIDE DEF Body, D, from
    <2> QED BY <1>9
  <1>11. \A i \in 1 .. (n + 1) : i \in {j \in D : from[j] \in Seq(X)}
    <2> DEFINE S == {j \in D : from[j] \in Seq(X)}
    <2>1. n + 1 \in S
      <3>1. n + 1 \in D /\ n + 1 > n
        BY <1>2
      <3> HIDE DEF from
      <3>2. from[n + 1] = <<>>
        BY <1>10, <3>1
      <3>3. <<>> \in Seq(X)
        OBVIOUS
      <3> QED BY <3>1, <3>2, <3>3
    <2>2. ASSUME NEW i \in 1 .. n, \A j \in (i + 1) .. (n + 1) : j \in S
          PROVE  i \in S
      <3>1. i \in D /\ ~ (i > n) /\ P(i) \in X
        BY <1>2, <1>5
      <3>2. from[i] = IF i \in goes THEN <<P(i)>> \o from[i + P(i).length] ELSE <<P(i)>>
        <4> HIDE DEF from, D
        <4> QED BY <1>10, <3>1
      <3>3. <<P(i)>> \in Seq(X)
        BY <3>1
      <3>4. CASE i \in goes
        <4>1. i + P(i).length \in (i + 1) .. (n + 1)
          <5>1. P(i).length \in 1 .. (n + 1 - i)
            BY <1>3, <3>4
          <5> HIDE DEF n
          <5> QED BY <1>2, <5>1
        <4>2. from[i + P(i).length] \in Seq(X)
          <5> HIDE DEF from
          <5> QED BY <2>2, <4>1
        <4> HIDE DEF from
        <4>3. <<P(i)>> \o from[i + P(i).length] \in Seq(X)
          <5> HIDE DEF n
          <5> QED BY <3>3, <4>2, ConcatProperties
        <4> HIDE DEF goes
        <4> QED BY <3>1, <3>2, <3>4, <4>3
      <3>5. CASE i \notin goes
        <4> HIDE DEF from, goes
        <4> QED BY <3>1, <3>2, <3>3, <3>5
      <3> QED BY <3>4, <3>5
    <2> HIDE DEF S, n
    <2>3. \A i \in 1 .. (n + 1) : i \in S
      BY <1>2, <2>1, <2>2, DownwardsFromAll
    <2> QED BY <2>3 DEF S
  <1> HIDE DEF from
  <1>12. 1 \in D /\ 1 \in 1 .. n /\ ~ (1 > n)
    BY <1>2
  <1>13. from[1] \in Seq(X) /\ from[1] = Body(from, 1)
    BY <1>10, <1>11, <1>12
  <1>14. P(1) # Frames!NoFrame /\ Frames!FramesIn(q) = from[1]
    <2>1. Frames!NoFrame \notin {from[1][k] : k \in DOMAIN from[1]}
             /\ Frames!FramesIn(q) = from[1]
      BY <1>1 DEF Frames!AllOrNone
    <2>2. ASSUME P(1) = Frames!NoFrame PROVE FALSE
      <3>1. from[1] = <<Frames!NoFrame>>
        BY <1>12, <1>13, <2>2
      <3> DEFINE x == Frames!NoFrame
                 s == <<x>>
      <3> HIDE DEF x
      <3>2. 1 \in DOMAIN s /\ s[1] = x
        OBVIOUS
      <3>3. x \in {s[k] : k \in DOMAIN s}
        BY <3>2
      <3> QED BY <2>1, <3>1, <3>3 DEF x
    <2> QED BY <2>1, <2>2
  <1>15. from[1][1] = P(1)
    <2>1. 1 + P(1).length \in D
      <3>1. P(1).length \in 1 .. (n + 1 - 1)
        BY <1>3, <1>12, <1>14
      <3> HIDE DEF n
      <3> QED BY <1>2, <3>1
    <2> DEFINE r == from[1 + P(1).length]
    <2>2. r \in Seq(X) /\ P(1) \in X
      BY <1>5, <1>11, <1>12, <2>1
    <2>3. from[1] = <<P(1)>> \o r
      BY <1>12, <1>13, <1>14
    <2> HIDE DEF r
    <2>4. (<<P(1)>> \o r)[1] = P(1)
      BY <2>2
    <2> QED BY <2>3, <2>4
  <1>16. Cut(q, 1, n) = q
    <2>1. Cut(q, 1 + 0, n) = q
      BY <1>2 DEF Cut, n, Length, Bytes
    <2> QED BY <2>1
  <1>17. P(1) = Frames!FrameIn(q)
    BY <1>16 DEF P
  <1> HIDE DEF n
  <1>18. Frames!FrameIn(q) # Frames!NoFrame
    BY <1>14, <1>17
  <1>19. Frames!FrameIn(q) = Frames!RawFrameIn(q)
    BY <1>18, FrameLength
  <1> QED BY <1>14, <1>15, <1>17, <1>18, <1>19

-----------------------------------------------------------------------------
(* What an ACK says *)

\* How many integers an ACK has, and which of them says so.
LEMMA AckSizes ==
  ASSUME NEW S \in SUBSET PacketNumbers, S # {}, NEW type \in {2, 3}
  PROVE  LET integers == WrittenRanges(S) \o AckCounts(type)
         IN  /\ integers \in Seq(0 .. 4)
             /\ integers[3] \in {0, 1}
             /\ Len(integers) = 4 + 2 * integers[3] + 3 * (type - 2)
             /\ \A k \in 1 .. (4 + 2 * integers[3]) : integers[k] = WrittenRanges(S)[k]
             /\ integers[3] = WrittenRanges(S)[3]
  <1> DEFINE r == WrittenRanges(S)
             c == AckCounts(type)
             integers == r \o c
  <1>1. S \in {{0}, {1}, {4}, {0, 1}, {0, 4}, {1, 4}, {0, 1, 4}}
    BY SetsOfNumbers
  <1>2. r[3] \in {0, 1} /\ Len(r) = 4 + 2 * r[3]
    <2>1. CASE r \in {<<0, 0, 0, 0>>, <<1, 0, 0, 0>>, <<4, 0, 0, 0>>, <<1, 0, 0, 1>>}
      <3> HIDE DEF r
      <3>1. r[3] = 0 /\ Len(r) = 4
        BY <2>1
      <3> QED BY <3>1
    <2>2. CASE r \in {<<4, 0, 1, 0, 2, 0>>, <<4, 0, 1, 0, 1, 0>>, <<4, 0, 1, 0, 1, 1>>}
      <3> HIDE DEF r
      <3>1. r[3] = 1 /\ Len(r) = 6
        BY <2>2
      <3> QED BY <3>1
    <2> QED BY <2>1, <2>2 DEF WrittenRanges
  <1>3. Len(c) = 3 * (type - 2)
    <2>1. type = 2 \/ type = 3
      OBVIOUS
    <2>2. CASE type = 2
      BY <2>2 DEF AckCounts
    <2>3. CASE type = 3
      BY <2>3 DEF AckCounts
    <2> QED BY <2>1, <2>2, <2>3
  <1>4. r \in Seq(0 .. 4) /\ c \in Seq(0 .. 4)
    BY AckFrameIs
  <1> HIDE DEF r, c
  <1>5. /\ integers \in Seq(0 .. 4) /\ Len(integers) = Len(r) + Len(c)
        /\ \A k \in 1 .. Len(r) + Len(c) :
              integers[k] = IF k <= Len(r) THEN r[k] ELSE c[k - Len(r)]
    BY <1>4, ConcatProperties
  <1> HIDE DEF integers
  <1>6. Len(r) \in Nat /\ Len(c) \in Nat /\ Len(r) >= 4
    BY <1>2, <1>4
  <1>7. \A k \in 1 .. Len(r) : integers[k] = r[k]
    BY <1>5, <1>6
  <1>8. integers[3] = r[3]
    BY <1>6, <1>7
  <1>9. /\ integers[3] \in {0, 1}
        /\ Len(integers) = 4 + 2 * integers[3] + 3 * (type - 2)
        /\ \A k \in 1 .. (4 + 2 * integers[3]) : integers[k] = r[k]
    BY <1>2, <1>3, <1>5, <1>7, <1>8
  <1> QED BY <1>5, <1>8, <1>9 DEF integers, r, c

\* An ACK is read as it was written, whatever follows it.
LEMMA AckComesBack ==
  ASSUME NEW S \in SUBSET PacketNumbers, S # {}, NEW type \in {2, 3}, NEW more \in Bytes,
         NEW q, q = Cat(FrameBytes(AckFrame(S, type)), more)
  PROVE  /\ q \in Bytes /\ Length(q) > 0
         /\ Frames!RawFrameIn(q).type = type
         /\ Frames!RawFrameIn(q).integers = WrittenRanges(S) \o AckCounts(type)
  <1> DEFINE integers == WrittenRanges(S) \o AckCounts(type)
             frame == AckFrame(S, type)
             N == Length(integers)
             written == Frames!PartsBytes(frame.integers)
             front == Frames!InWidth(type, 0)
  <1>1. /\ frame.type = type /\ frame.width = 0 /\ frame.data = <<>>
        /\ frame.integers = [k \in 1 .. Len(integers) |-> Frames!Number(integers[k], 0)]
    BY AckFrameIs
  <1>2. /\ integers \in Seq(0 .. 4)
        /\ integers[3] \in {0, 1}
        /\ Len(integers) = 4 + 2 * integers[3] + 3 * (type - 2)
    BY AckSizes
  <1> HIDE DEF integers, frame
  <1>3. integers \in Seq(Writable) /\ integers \in Seq(Nat)
    <2>1. 0 .. 4 \subseteq Writable
      <3> SUFFICES ASSUME NEW n \in 0 .. 4 PROVE n \in Writable
        OBVIOUS
      <3>1. n \in 0 .. 15
        OBVIOUS
      <3> QED BY <3>1, FifteenFits DEF Writable
    <2>2. 0 .. 4 \subseteq Nat
      OBVIOUS
    <2> QED BY <1>2, <2>1, <2>2, WiderSequence
  <1>4. N \in Nat /\ N >= 4 /\ N = 4 + 2 * integers[3] + 3 * (type - 2)
    BY <1>2 DEF Length
  <1>5. PICK t : Tails(t, integers, more) /\ written \in Bytes /\ t[0] = Cat(written, more)
    <2> DEFINE parts == frame.integers
    <2>1. parts = [k \in 1 .. Len(integers) |-> Frames!Number(integers[k], 0)]
      BY <1>1
    <2> HIDE DEF parts
    <2>2. \E t : /\ Tails(t, integers, more)
                 /\ Frames!PartsBytes(parts) \in Bytes
                 /\ t[0] = Cat(Frames!PartsBytes(parts), more)
      BY <1>3, <2>1, TailsExist
    <2> QED BY <2>2 DEF parts
  <1>6. /\ t \in [0 .. N -> Bytes] /\ t[N] = more
        /\ \A k \in 1 .. N : t[k - 1] = Cat(Frames!InWidth(integers[k], 0), t[k])
    BY <1>5 DEF Tails
  <1>7. front \in Bytes /\ \A rest \in Bytes :
           \E length : IsRead(Cat(front, rest), FrameByteValues, type, length, rest)
    <2>1. type \in 0 .. 15
      OBVIOUS
    <2>2. type \in Nat /\ Holds(FrameByteValues, type, 8)
      BY <2>1, FifteenFits
    <2> HIDE DEF front
    <2> QED BY <2>2, WidthTyped DEF front
  <1>8. q = Cat(front, t[0])
    <2>1. Frames!PartsBytes(frame.data) = <<>>
      <3>1. AreParts(<<>>) /\ Length(<<>>) = 0
        BY DEF AreParts, Length
      <3> QED BY <1>1, <3>1, PartsTyped
    <2>2. FrameBytes(frame) = Cat(Cat(front, written), <<>>)
      BY <1>1, <2>1 DEF FrameBytes, Cat
    <2> HIDE DEF front, written
    <2>3. Cat(front, written) \in Bytes
      BY <1>5, <1>7, CatTyped
    <2>4. FrameBytes(frame) = Cat(front, written)
      BY <2>2, <2>3, CatEmpty
    <2>5. Cat(Cat(front, written), more) = Cat(front, Cat(written, more))
      BY <1>5, <1>7, CatMoves
    <2> QED BY <1>5, <2>4, <2>5 DEF frame
  <1> HIDE DEF front, written, N
  <1>9. t[0] \in Bytes /\ t[4] \in Bytes /\ 0 \in 0 .. N /\ 4 \in 0 .. N
    BY <1>4, <1>6
  <1>10. PICK length : IsRead(q, FrameByteValues, type, length, t[0])
    BY <1>7, <1>8, <1>9
  <1>11. /\ q \in Bytes /\ Frames!HasVarInt(q) /\ Frames!VarIntIn(q) = type
         /\ Frames!AfterVarInt(q) = t[0] /\ Length(q) > 0
    BY <1>10, FrameIntegers DEF IsRead, HasInteger
  <1>12. Frames!IntegerCount(type) = 4 /\ type \in Frames!FrameTypes /\ type \in Frames!ACKS
    BY DEF Frames!ACKS, Frames!IntegerCount, Frames!BARE, Frames!PATHS,
           Frames!NEW_TOKEN, Frames!STOP_SENDING, Frames!MAX_STREAM_DATA,
           Frames!STREAM_DATA_BLOCKED, Frames!NEW_CONNECTION_ID,
           Frames!CLOSE_TRANSPORT, Frames!RESET_STREAM, Frames!FrameTypes
  <1> DEFINE m1 == Middle(integers, 0, 4)
             m2 == Middle(integers, 4, N - 4)
             fixed == [values |-> m1, rest |-> t[4]]
             others == [values |-> m2, rest |-> more]
             ranges == Frames!RangeIntegers(type, integers[3], t[4])
  <1>13. Frames!IntegersIn(t[0], 4) = fixed
    <2> DEFINE a == 0
               n == 4
    <2>1. a + n <= Length(integers) /\ a + n = 4 /\ a \in Nat /\ n \in Nat
      BY <1>4 DEF N
    <2> HIDE DEF a, n
    <2>2. Frames!IntegersIn(t[a], n) = [values |-> Middle(integers, a, n), rest |-> t[a + n]]
      BY <1>3, <1>5, <2>1, ReadBetween
    <2>3. Frames!IntegersIn(t[a], n) = [values |-> Middle(integers, a, n), rest |-> t[4]]
      BY <2>1, <2>2
    <2> QED BY <2>3 DEF a, n
  <1>14. ranges = N - 4
    <2> DEFINE c == integers[3]
               l == Length(t[4])
    <2>1. ranges = 2 * (IF c > l THEN l ELSE c) + 3 * (type - 2)
      BY DEF Frames!RangeIntegers, Length
    <2>2. l \in Nat
      BY <1>9, LengthIsNat
    <2>3. c = 1 => l > 0
      <3> SUFFICES ASSUME c = 1 PROVE l > 0
        OBVIOUS
      <3>1. 5 \in 1 .. N /\ 5 \in 0 .. N /\ 5 - 1 = 4
        BY <1>4
      <3> DEFINE x == integers[5]
                 before == t[4]
                 after == t[5]
      <3>2. before = Cat(Frames!InWidth(x, 0), after) /\ after \in Bytes
        BY <1>6, <3>1
      <3>3. x \in Writable
        BY <1>3, <3>1, ElementOfSeq DEF N, Length
      <3>4. x \in Nat /\ Holds(FrameByteValues, x, 8)
        BY <3>3 DEF Writable
      <3> HIDE DEF x, before, after
      <3>5. \E size : IsRead(before, FrameByteValues, x, size, after)
        BY <3>2, <3>4, WidthTyped
      <3>6. Length(before) > 0
        BY <3>5 DEF IsRead, HasInteger
      <3> QED BY <3>6 DEF before
    <2>4. c \in {0, 1} /\ N = 4 + 2 * c + 3 * (type - 2)
      BY <1>2, <1>4
    <2> HIDE DEF c, l, ranges
    <2>5. ~ (c > l)
      BY <2>2, <2>3, <2>4
    <2> QED BY <2>1, <2>4, <2>5
  <1>15. Frames!IntegersIn(t[4], N - 4) = others
    <2>1. N - 4 \in Nat /\ 4 + (N - 4) = N /\ 4 + (N - 4) <= Length(integers)
      BY <1>4 DEF N
    <2>2. Frames!IntegersIn(t[4], N - 4)
             = [values |-> Middle(integers, 4, N - 4), rest |-> t[4 + (N - 4)]]
      BY <1>3, <1>5, <2>1, ReadBetween
    <2> QED BY <1>6, <2>1, <2>2
  <1>16. Len(m1) = 4 /\ m1[3] = integers[3] /\ Len(m2) = N - 4
    BY <1>4 DEF Middle
  <1>17. m1 \o m2 = integers
    <2>1. 4 <= Len(integers) /\ N = Len(integers)
      BY <1>4 DEF N, Length
    <2> QED BY <1>3, <2>1, MiddlesJoin
  <1> HIDE DEF m1, m2, ranges
  <1>18. fixed.values = m1 /\ fixed.rest = t[4] /\ others.values = m2 /\ others.rest = more
    BY Zenon
  <1> HIDE DEF fixed, others
  <1>19. Frames!RawFrameIn(q) = Frames!WithIntegers(q, type, fixed)
    BY <1>11, <1>12, <1>13 DEF Frames!RawFrameIn
  <1>20. Frames!WithIntegers(q, type, fixed) = Frames!WithRanges(q, type, m1, ranges, others)
    <2>1. Frames!RangeIntegers(type, fixed.values[3], fixed.rest) = ranges
      BY <1>16, <1>18 DEF ranges
    <2>2. ~ (Len(fixed.values) < Frames!IntegerCount(type))
      <3>1. Len(fixed.values) = 4
        BY <1>16, <1>18
      <3>2. Frames!IntegerCount(type) = 4
        BY <1>12
      <3> QED BY <3>1, <3>2
    <2>3. Frames!IntegersIn(fixed.rest, ranges) = others
      BY <1>14, <1>15, <1>18
    <2> QED BY <1>12, <1>18, <2>1, <2>2, <2>3 DEF Frames!WithIntegers
  <1>21. Frames!WithRanges(q, type, m1, ranges, others)
            = Frames!WithData(q, type, integers, more)
    <2>1. ~ (Len(others.values) < ranges)
      BY <1>4, <1>14, <1>16, <1>18
    <2> QED BY <1>17, <1>18, <2>1 DEF Frames!WithRanges
  <1>22. /\ Frames!WithData(q, type, integers, more).type = type
         /\ Frames!WithData(q, type, integers, more).integers = integers
    <2>1. ~ Frames!HasSizedData(type) /\ ~ Frames!HasRestAsData(type)
          /\ type # Frames!NEW_CONNECTION_ID /\ type \notin Frames!PATHS
      BY DEF Frames!HasSizedData, Frames!HasRestAsData, Frames!CRYPTO, Frames!NEW_TOKEN,
             Frames!CLOSE_TRANSPORT, Frames!CLOSE_APPLICATION, Frames!STREAMS,
             Frames!NEW_CONNECTION_ID, Frames!PATHS
    <2>2. /\ Frames!HasDataLength(type, more) /\ Frames!LengthWidth(type, more) = 0
          /\ Frames!DataLength(type, more) = 0
      BY <2>1 DEF Frames!HasDataLength, Frames!LengthWidth, Frames!DataLength
    <2>3. ~ (Len(more) < 0 + 0) /\ 0 + 0 = 0
      BY LengthIsNat DEF Length
    <2> DEFINE data == SubSeq(more, 0 + 1, 0 + 0)
               size == Len(q) - Len(more) + (0 + 0)
               r == [type |-> type, integers |-> integers, data |-> data, length |-> size]
    <2>4. Frames!WithData(q, type, integers, more) = r
      BY <2>2, <2>3 DEF Frames!WithData
    <2> HIDE DEF data, size
    <2>5. r.type = type /\ r.integers = integers
      BY Zenon
    <2> QED BY <2>4, <2>5
  <1> QED BY <1>11, <1>19, <1>20, <1>21, <1>22 DEF integers

\* The numbers of each set with a range under the first.
LEMMA WrittenIs ==
  ASSUME NEW S
  PROVE  /\ S = {0, 4} => WrittenRanges(S) = <<4, 0, 1, 0, 2, 0>>
         /\ S = {1, 4} => WrittenRanges(S) = <<4, 0, 1, 0, 1, 0>>
         /\ S = {0, 1, 4} => WrittenRanges(S) = <<4, 0, 1, 0, 1, 1>>
  <1>1. ASSUME S = {0, 4} PROVE WrittenRanges(S) = <<4, 0, 1, 0, 2, 0>>
    BY <1>1 DEF WrittenRanges
  <1>2. ASSUME S = {1, 4} PROVE WrittenRanges(S) = <<4, 0, 1, 0, 1, 0>>
    BY <1>2 DEF WrittenRanges
  <1>3. ASSUME S = {0, 1, 4} PROVE WrittenRanges(S) = <<4, 0, 1, 0, 1, 1>>
    BY <1>3 DEF WrittenRanges
  <1> QED BY <1>1, <1>2, <1>3

LEMMA AppendToOne == \A x, y : Append(<<x>>, y) = <<x, y>>
  <1> SUFFICES ASSUME NEW x, NEW y PROVE Append(<<x>>, y) = <<x, y>>
    OBVIOUS
  <1> DEFINE T == {x, y}
             s == <<x>>
             t == Append(s, y)
             u == <<x, y>>
  <1>1. s \in Seq(T) /\ Len(s) = 1 /\ s[1] = x /\ y \in T
    OBVIOUS
  <1>2. t \in Seq(T) /\ Len(t) = 2 /\ t[1] = s[1] /\ t[2] = y
    BY <1>1, AppendProperties
  <1>3. u \in Seq(T) /\ Len(u) = 2 /\ u[1] = x /\ u[2] = y
    OBVIOUS
  <1>4. \A k \in 1 .. 2 : k = 1 \/ k = 2
    OBVIOUS
  <1> HIDE DEF t, u, s, T
  <1>5. \A k \in 1 .. 2 : t[k] = u[k]
    BY <1>1, <1>2, <1>3, <1>4
  <1>6. t = u
    BY <1>2, <1>3, <1>5, SeqEqual
  <1> QED BY <1>6 DEF t, s, u

\* The ranges of an ACK with one range under the first, or with none.
LEMMA RangesAre ==
  ASSUME NEW integers \in Seq(Nat), Len(integers) >= 4, integers[3] \in {0, 1},
         integers[3] = 1 => Len(integers) >= 6
  PROVE  LET first == [largest |-> integers[1], smallest |-> integers[1] - integers[4]]
             largest == first.smallest - integers[5] - 2
             second == [largest |-> largest, smallest |-> largest - integers[6]]
         IN  Frames!AckRanges(integers)
                = IF integers[3] = 0 THEN <<first>> ELSE <<first, second>>
  <1> DEFINE n == integers[3]
             first == [largest |-> integers[1], smallest |-> integers[1] - integers[4]]
             next(r, k) == r[k].smallest - integers[2 * k + 3] - 2
             item(r, k) == [largest |-> next(r, k), smallest |-> next(r, k) - integers[2 * k + 4]]
             Body(f, k) == IF k = 0 THEN <<first>> ELSE Append(f[k - 1], item(f[k - 1], k))
             upTo == CHOOSE f : f = [k \in 0 .. n |-> Body(f, k)]
             second == item(<<first>>, 1)
             g == [k \in 0 .. n |-> IF k = 0 THEN <<first>> ELSE Append(<<first>>, second)]
  <1>1. Frames!AckRanges(integers) = upTo[n]
    BY DEF Frames!AckRanges
  <1>0. n = 0 \/ n = 1
    OBVIOUS
  <1>2. \A k \in 0 .. n : k = 0 \/ (k = 1 /\ n = 1)
    <2> HIDE DEF n
    <2> QED BY <1>0
  <1>3. 0 \in 0 .. n /\ (n = 1 => 1 \in 0 .. n)
    <2> HIDE DEF n
    <2> QED BY <1>0
  <1>4. g = [k \in 0 .. n |-> Body(g, k)]
    <2>1. ASSUME NEW k \in 0 .. n
          PROVE  (IF k = 0 THEN <<first>> ELSE Append(<<first>>, second)) = Body(g, k)
      <3>1. CASE k = 0
        BY <3>1
      <3>2. CASE k = 1 /\ n = 1
        <4>1. k - 1 = 0 /\ g[0] = <<first>>
          BY <1>3, <3>2
        <4> HIDE DEF g, first
        <4>2. Body(g, k) = Append(g[k - 1], item(g[k - 1], k))
          BY <3>2
        <4>3. g[k - 1] = <<first>> /\ k # 0
          BY <3>2, <4>1
        <4> HIDE DEF item, Body
        <4> QED BY <3>2, <4>2, <4>3
      <3> QED BY <1>2, <3>1, <3>2
    <2> HIDE DEF Body, second, first
    <2> QED BY <2>1, Zenon
  <1>5. upTo = [k \in 0 .. n |-> Body(upTo, k)]
    <2> HIDE DEF Body, g
    <2> QED BY <1>4
  <1>6. \A k \in 0 .. n : upTo[k] = Body(upTo, k)
    <2> HIDE DEF Body, upTo
    <2> QED BY <1>5
  <1> HIDE DEF upTo
  <1>7. upTo[0] = <<first>>
    BY <1>3, <1>6
  <1>8. ASSUME n = 1 PROVE upTo[1] = Append(<<first>>, second)
    <2>1. upTo[1] = Body(upTo, 1)
      BY <1>3, <1>6, <1>8
    <2>2. upTo[1 - 1] = <<first>>
      BY <1>7
    <2> HIDE DEF first, item
    <2>3. Body(upTo, 1) = Append(upTo[1 - 1], item(upTo[1 - 1], 1))
      OBVIOUS
    <2> HIDE DEF Body
    <2> QED BY <2>1, <2>2, <2>3
  <1>9. second = [largest |-> first.smallest - integers[5] - 2,
                  smallest |-> (first.smallest - integers[5] - 2) - integers[6]]
    <2>1. <<first>>[1] = first /\ 2 * 1 + 3 = 5 /\ 2 * 1 + 4 = 6
      OBVIOUS
    <2> HIDE DEF first
    <2> QED BY <2>1
  <1>10. Append(<<first>>, second) = <<first, second>>
    BY AppendToOne, Zenon
  <1>11. upTo[n] = IF n = 0 THEN <<first>> ELSE <<first, second>>
    BY <1>7, <1>8, <1>10
  <1> HIDE DEF second
  <1> QED BY <1>1, <1>9, <1>11

\* The ranges of an ACK hold the numbers it was written for.
LEMMA AckSaysNumbers ==
  ASSUME NEW S \in SUBSET PacketNumbers, S # {}, NEW type \in {2, 3}, NEW frame,
         frame.integers = WrittenRanges(S) \o AckCounts(type)
  PROVE  Acknowledged(frame) = S
  <1> DEFINE integers == frame.integers
             w == WrittenRanges(S)
             first == [largest |-> integers[1], smallest |-> integers[1] - integers[4]]
             l2 == first.smallest - integers[5] - 2
             second == [largest |-> l2, smallest |-> l2 - integers[6]]
             ranges == Frames!AckRanges(integers)
  <1>1. /\ integers \in Seq(0 .. 4)
        /\ integers[3] \in {0, 1}
        /\ Len(integers) = 4 + 2 * integers[3] + 3 * (type - 2)
        /\ \A k \in 1 .. (4 + 2 * integers[3]) : integers[k] = w[k]
        /\ integers[3] = w[3]
    <2> DEFINE all == WrittenRanges(S) \o AckCounts(type)
    <2>1. /\ all \in Seq(0 .. 4)
          /\ all[3] \in {0, 1}
          /\ Len(all) = 4 + 2 * all[3] + 3 * (type - 2)
          /\ \A k \in 1 .. (4 + 2 * all[3]) : all[k] = w[k]
          /\ all[3] = w[3]
      BY AckSizes
    <2> HIDE DEF all, w
    <2>2. integers = all
      BY DEF all
    <2> HIDE DEF integers
    <2> QED BY <2>1, <2>2
  <1>2. integers \in Seq(Nat)
    <2>1. 0 .. 4 \subseteq Nat
      OBVIOUS
    <2> HIDE DEF integers
    <2> QED BY <1>1, <2>1, WiderSequence
  <1> HIDE DEF integers, w
  <1>3. ranges = IF integers[3] = 0 THEN <<first>> ELSE <<first, second>>
    <2>1. Len(integers) >= 4 /\ (integers[3] = 1 => Len(integers) >= 6)
      BY <1>1
    <2> QED BY <1>1, <1>2, <2>1, RangesAre
  <1>4. /\ integers[1] = w[1] /\ integers[4] = w[4]
        /\ w[3] = 1 => integers[5] = w[5] /\ integers[6] = w[6]
    BY <1>1
  <1>5. Acknowledged(frame) = UNION {ranges[k].smallest .. ranges[k].largest : k \in DOMAIN ranges}
    BY DEF Acknowledged, integers
  <1> HIDE DEF ranges
  <1>6. ASSUME w[3] = 0 PROVE Acknowledged(frame) = (w[1] - w[4]) .. w[1]
    <2>1. ranges = <<first>>
      BY <1>1, <1>3, <1>6
    <2>2. first.smallest = w[1] - w[4] /\ first.largest = w[1]
      BY <1>4
    <2> HIDE DEF first
    <2>3. DOMAIN ranges = {1} /\ ranges[1] = first
      BY <2>1
    <2>4. {ranges[k].smallest .. ranges[k].largest : k \in {1}} = {(w[1] - w[4]) .. w[1]}
      BY <2>2, <2>3
    <2> QED BY <1>5, <2>3, <2>4
  <1>7. ASSUME w[3] = 1
        PROVE  Acknowledged(frame) = ((w[1] - w[4]) .. w[1])
                  \cup ((w[1] - w[4] - w[5] - 2 - w[6]) .. (w[1] - w[4] - w[5] - 2))
    <2>1. ranges = <<first, second>>
      BY <1>1, <1>3, <1>7
    <2>2. first.smallest = w[1] - w[4] /\ first.largest = w[1]
      BY <1>4
    <2>3. second.smallest = w[1] - w[4] - w[5] - 2 - w[6]
             /\ second.largest = w[1] - w[4] - w[5] - 2
      BY <1>4, <1>7
    <2> HIDE DEF first, second
    <2>4. DOMAIN ranges = {1, 2} /\ ranges[1] = first /\ ranges[2] = second
      BY <2>1
    <2> DEFINE A == (w[1] - w[4]) .. w[1]
               B == (w[1] - w[4] - w[5] - 2 - w[6]) .. (w[1] - w[4] - w[5] - 2)
    <2>5. ranges[1].smallest .. ranges[1].largest = A /\ ranges[2].smallest .. ranges[2].largest = B
      BY <2>2, <2>3, <2>4
    <2> HIDE DEF A, B
    <2>6. {ranges[k].smallest .. ranges[k].largest : k \in {1, 2}} = {A, B}
      BY <2>5
    <2>7. Acknowledged(frame) = UNION {A, B}
      BY <1>5, <2>4, <2>6
    <2>8. UNION {A, B} = A \cup B
      OBVIOUS
    <2> QED BY <2>7, <2>8 DEF A, B
  <1>8. S \in {{0}, {1}, {4}, {0, 1}, {0, 4}, {1, 4}, {0, 1, 4}}
    BY SetsOfNumbers
  <1>9. 0 .. 0 = {0} /\ 1 .. 1 = {1} /\ 4 .. 4 = {4} /\ 0 .. 1 = {0, 1}
    OBVIOUS
  <1> HIDE DEF first, l2, second
  <1>10. CASE S \in {{0}, {1}, {4}}
    <2>1. PICK n \in {0, 1, 4} : S = {n}
      BY <1>10
    <2>2. w = <<n, 0, 0, 0>>
      BY <2>1 DEF w, WrittenRanges
    <2>3. w[1] = n /\ w[3] = 0 /\ w[4] = 0
      BY <2>2
    <2>4. Acknowledged(frame) = n .. n
      BY <1>6, <2>3
    <2> QED BY <1>9, <2>1, <2>4
  <1>11. CASE S = {0, 1}
    <2>1. w = <<1, 0, 0, 1>>
      BY <1>11 DEF w, WrittenRanges
    <2>2. w[1] = 1 /\ w[3] = 0 /\ w[4] = 1
      BY <2>1
    <2>3. Acknowledged(frame) = 0 .. 1
      BY <1>6, <2>2
    <2> QED BY <1>9, <1>11, <2>3
  <1>12. CASE S = {0, 4}
    <2>1. w = <<4, 0, 1, 0, 2, 0>>
      BY <1>12, WrittenIs DEF w
    <2>2. w[1] = 4 /\ w[3] = 1 /\ w[4] = 0 /\ w[5] = 2 /\ w[6] = 0
      BY <2>1
    <2>3. Acknowledged(frame) = (4 .. 4) \cup (0 .. 0)
      BY <1>7, <2>2
    <2>4. {4} \cup {0} = {0, 4}
      OBVIOUS
    <2> QED BY <1>9, <1>12, <2>3, <2>4
  <1>13. CASE S = {1, 4}
    <2>1. w = <<4, 0, 1, 0, 1, 0>>
      BY <1>13, WrittenIs DEF w
    <2>2. w[1] = 4 /\ w[3] = 1 /\ w[4] = 0 /\ w[5] = 1 /\ w[6] = 0
      BY <2>1
    <2>3. Acknowledged(frame) = (4 .. 4) \cup (1 .. 1)
      BY <1>7, <2>2
    <2>4. {4} \cup {1} = {1, 4}
      OBVIOUS
    <2> QED BY <1>9, <1>13, <2>3, <2>4
  <1>14. CASE S = {0, 1, 4}
    <2>1. w = <<4, 0, 1, 0, 1, 1>>
      BY <1>14, WrittenIs DEF w
    <2>2. w[1] = 4 /\ w[3] = 1 /\ w[4] = 0 /\ w[5] = 1 /\ w[6] = 1
      BY <2>1
    <2>3. Acknowledged(frame) = (4 .. 4) \cup (0 .. 1)
      BY <1>7, <2>2
    <2>4. {4} \cup {0, 1} = {0, 1, 4}
      OBVIOUS
    <2> QED BY <1>9, <1>14, <2>3, <2>4
  <1> QED BY <1>8, <1>10, <1>11, <1>12, <1>13, <1>14

-----------------------------------------------------------------------------
(* An acknowledgement tells of packets that were sent *)

\* What one packet that was taken says of the packets its sender has taken.
TrueAck(e, entry) ==
  LET acked == SentAs(Other(e), entry).acked
  IN  (acked # {} /\ entry.frames # <<>>) =>
         /\ entry.frames[1].type \in Frames!ACKS
         /\ Acknowledged(entry.frames[1]) = acked
         /\ acked \subseteq NumbersSent(e, entry.space)

\* The packet an endpoint took is the one the other sent with that number.
LEMMA SentAsIs ==
  ASSUME PathInvariant, NEW e \in Endpoints, NEW entry \in local[e].read
  PROVE  LET p == SentAs(Other(e), entry)
         IN  /\ p \in PacketsSent(Other(e)) /\ p.space # "None" /\ p.space = entry.space
             /\ entry.frames = Frames!FramesIn(PayloadBytes(p.frames))
  <1>1. entry \in Readable(e)
    <2>1. local[e] \in Known(e)
      BY DEF PathInvariant
    <2>2. IsKnown(e, local[e])
      BY <2>1, KnownIs
    <2> QED BY <2>2 DEF IsKnown
  <1>2. PICK p \in PacketsSent(Other(e)) :
           /\ p.space # "None"
           /\ entry = [space |-> p.space, number |-> p.number,
                       frames |-> Frames!FramesIn(PayloadBytes(p.frames))]
    BY <1>1 DEF Readable
  <1> DEFINE frames == Frames!FramesIn(PayloadBytes(p.frames))
  <1>3. entry.space = p.space /\ entry.number = p.number /\ entry.frames = frames
    <2> HIDE DEF frames
    <2>1. entry = [space |-> p.space, number |-> p.number, frames |-> frames]
      BY <1>2 DEF frames
    <2> QED BY <2>1
  <1>4. Other(e) \in Endpoints
    BY DEF Other, Endpoints
  <1> DEFINE q == SentAs(Other(e), entry)
  <1>5. q \in PacketsSent(Other(e)) /\ q.space = entry.space /\ q.number = entry.number
    BY <1>2, <1>3, Zenon DEF SentAs
  <1>6. q = p
    <2>1. NumbersAreUnique
      BY DEF PathInvariant
    <2> HIDE DEF q, frames
    <2> QED BY <1>2, <1>3, <1>4, <1>5, <2>1 DEF NumbersAreUnique
  <1> HIDE DEF q
  <1> QED BY <1>2, <1>3, <1>6 DEF q

AckWasRead(q, S, type) ==
  /\ q \in Bytes /\ Length(q) > 0
  /\ Frames!RawFrameIn(q).type = type
  /\ Frames!RawFrameIn(q).integers = WrittenRanges(S) \o AckCounts(type)

LEMMA AckWasWritten ==
  \A S \in SUBSET PacketNumbers, type \in {2, 3}, more \in Bytes : S # {} =>
     AckWasRead(Cat(FrameBytes(AckFrame(S, type)), more), S, type)
  BY AckComesBack DEF AckWasRead

\* Of every packet that was taken.
LEMMA AcksAreTrue ==
  ASSUME PathInvariant, NEW e \in Endpoints, NEW entry \in local[e].read
  PROVE  TrueAck(e, entry)
  <1> DEFINE p == SentAs(Other(e), entry)
             q == PayloadBytes(p.frames)
  <1>1. /\ p \in PacketsSent(Other(e)) /\ p.space # "None" /\ p.space = entry.space
        /\ entry.frames = Frames!FramesIn(q)
    BY SentAsIs
  <1>2. Other(e) \in Endpoints /\ Other(Other(e)) = e
    BY DEF Other, Endpoints
  <1> HIDE DEF p, q
  <1> SUFFICES ASSUME p.acked # {}, entry.frames # <<>>
               PROVE  /\ entry.frames[1].type \in Frames!ACKS
                      /\ Acknowledged(entry.frames[1]) = p.acked
                      /\ p.acked \subseteq NumbersSent(e, entry.space)
    BY DEF TrueAck, p
  <1>3. IsPacketSent(Other(e), p)
    <2>1. PacketsAreSent
      BY AllPacketsSent DEF PathInvariant
    <2> QED BY <1>1, <1>2, <2>1 DEF PacketsAreSent
  <1>4. IsAckSent(p)
    BY <1>1, <1>3 DEF IsPacketSent, IsBareSent, IsProtectedSent
  <1>5. PICK type \in {2, 3}, more \in Bytes : q = Cat(FrameBytes(AckFrame(p.acked, type)), more)
    BY <1>4 DEF IsAckSent, q
  <1>6. p.acked \in SUBSET PacketNumbers
    BY <1>4 DEF IsAckSent
  <1> DEFINE S == p.acked
             raw == Frames!RawFrameIn(q)
             first == entry.frames[1]
  <1>7. /\ q \in Bytes /\ Length(q) > 0
        /\ raw.type = type
        /\ raw.integers = WrittenRanges(S) \o AckCounts(type)
    <2>1. AckWasRead(q, S, type)
      <3> HIDE DEF S
      <3>1. S # {} /\ S \in SUBSET PacketNumbers /\ q = Cat(FrameBytes(AckFrame(S, type)), more)
        BY <1>5, <1>6 DEF S
      <3> QED BY <3>1, AckWasWritten
    <2> QED BY <2>1 DEF AckWasRead
  <1>8. first = raw
    BY <1>1, <1>7, FirstFrame
  <1>9. type \in Frames!ACKS
    BY DEF Frames!ACKS
  <1>10. Acknowledged(raw) = S
    <2> HIDE DEF raw
    <2> QED BY <1>6, <1>7, AckSaysNumbers
  <1>11. S \subseteq NumbersSent(e, entry.space)
    <2>1. AcksOfSent
      BY DEF PathInvariant
    <2> QED BY <1>1, <1>2, <2>1 DEF AcksOfSent
  <1> HIDE DEF raw, first
  <1> QED BY <1>7, <1>8, <1>9, <1>10, <1>11 DEF first

\* At both endpoints, whatever was lost, repeated or reordered, the ranges of an ACK frame
\* that was read hold the packet numbers its sender had taken, each of them sent before by
\* the endpoint that reads it.
THEOREM EveryAckTellsOfSent == Spec => []AcknowledgedWereReceived
  <1>1. PathInvariant => AcknowledgedWereReceived
    <2> SUFFICES ASSUME PathInvariant PROVE AcknowledgedWereReceived
      OBVIOUS
    <2>1. \A e \in Endpoints : \A entry \in local[e].read : TrueAck(e, entry)
      BY AcksAreTrue
    <2> QED BY <2>1 DEF AcknowledgedWereReceived, TrueAck
  <1> QED BY <1>1, PathIsInvariant, PTL

===============================================================================

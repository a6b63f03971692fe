------------------------- MODULE QuicDatagrams_proofs -------------------------
(***************************************************************************)
(* What the builders of every layer under QUIC and of its packets write,   *)
(* the parsers read back: datagrams in IPv4 and IPv6 packets in Ethernet   *)
(* frames, integers of variable length, packets of every type, several of  *)
(* them in one datagram, and the protection that users put on and remove.  *)
(***************************************************************************)
EXTENDS QuicPath, SequenceTheorems, WellFoundedInduction, TLAPS

-----------------------------------------------------------------------------
(* Numbers and sequences *)

\* The base of the bytes on the link.
LEMMA LinkBase ==
  /\ ByteValues = 256
  /\ Link!WordValues = 65536
  /\ Link!Byte = 0 .. 255
  /\ Packets!Unit = 64
  <1>1. ByteValues = 256
    BY ByteAssumption
  <1>2. 256 \div 4 = 64 /\ 256 - 1 = 255 /\ 256 * 256 = 65536
    OBVIOUS
  <1> QED
    BY <1>1, <1>2 DEF Link!WordValues, Link!Byte, Packets!Unit

\* Among numbers with a property there is a least.
LEMMA LeastNumber ==
  ASSUME NEW S \in SUBSET Nat, S # {}
  PROVE  \E n \in S : \A m \in S : ~ (m < n)
  <1>1. PICK n \in S : \A m \in S : ~ (<<m, n>> \in OpToRel(<, Nat))
    BY NatLessThanWellFounded, WFMin
  <1>2. ASSUME NEW m \in S PROVE ~ (m < n)
    <2>1. m \in Nat /\ n \in Nat
      OBVIOUS
    <2>2. <<m, n>> \in OpToRel(<, Nat) <=> m < n
      BY <2>1 DEF OpToRel
    <2> QED BY <1>1, <2>2
  <1> QED BY <1>2

\* A function that is defined by recursion exists: its argument comes closer to the
\* arguments that stop, and values are made of values.  What the model defines by LET
\* and recursion over positions is shown to be such a function.
Recurs(f, D, stops, base, next, step) ==
  \A d \in D : f[d] = IF d \in stops THEN base[d] ELSE step[<<d, f[next[d]]>>]

\* A function that is defined by recursion along a rank is there.
LEMMA Recursion ==
  ASSUME NEW V, NEW D, NEW N \in Nat, NEW rank \in [D -> 0 .. N], NEW stops \in SUBSET D,
         NEW base \in [stops -> V], NEW next \in [D \ stops -> D],
         NEW step \in [(D \ stops) \X V -> V],
         \A d \in D \ stops : rank[next[d]] < rank[d]
  PROVE  \E f \in [D -> V] : Recurs(f, D, stops, base, next, step)
  <1> DEFINE W(n) == {d \in D : rank[d] < n}
             without == {n \in 0 .. (N + 1) :
                            ~ \E f \in [W(n) -> V] : Recurs(f, W(n), stops, base, next, step)}
  <1>1. without = {}
    <2>1. SUFFICES ASSUME without # {} PROVE FALSE
      OBVIOUS
    <2>2. PICK n \in without : \A m \in without : ~ (m < n)
      <3>1. without \in SUBSET Nat
        <4>1. without \subseteq 0 .. (N + 1)
          BY Zenon
        <4>2. 0 .. (N + 1) \subseteq Nat
          OBVIOUS
        <4> HIDE DEF without
        <4> QED BY <4>1, <4>2
      <3> HIDE DEF without
      <3> QED BY <2>1, <3>1, LeastNumber
    <2>3. n \in 0 .. (N + 1) /\ ~ \E f \in [W(n) -> V] : Recurs(f, W(n), stops, base, next, step)
      BY <2>2, Zenon
    <2>4. CASE n = 0
      <3>1. W(0) = {}
        OBVIOUS
      <3>2. [d \in W(0) |-> 0] \in [W(0) -> V]
        BY <3>1
      <3>3. Recurs([d \in W(0) |-> 0], W(0), stops, base, next, step)
        BY <3>1 DEF Recurs
      <3> QED BY <2>3, <2>4, <3>2, <3>3
    <2>5. CASE n # 0
      <3>1. n - 1 \in 0 .. (N + 1) /\ n - 1 < n
        BY <2>3, <2>5
      <3>2. n - 1 \notin without
        BY <2>2, <3>1
      <3>3. PICK g \in [W(n - 1) -> V] : Recurs(g, W(n - 1), stops, base, next, step)
        BY <3>1, <3>2, Zenon
      <3> DEFINE f == [d \in W(n) |-> IF d \in stops THEN base[d] ELSE step[<<d, g[next[d]]>>]]
      <3>4. ASSUME NEW d \in W(n), d \notin stops
            PROVE  next[d] \in W(n - 1) /\ next[d] \in W(n)
        <4>1. d \in D /\ rank[d] < n /\ next[d] \in D /\ rank[next[d]] < rank[d]
          BY <3>4
        <4>2. rank[d] \in 0 .. N /\ rank[next[d]] \in 0 .. N
          BY <4>1
        <4> QED BY <2>3, <4>1, <4>2
      <3>5. ASSUME NEW d \in W(n) PROVE f[d] \in V
        <4>1. CASE d \in stops
          BY <4>1
        <4>2. CASE d \notin stops
          <5>1. g[next[d]] \in V /\ d \in D \ stops
            BY <3>4, <4>2
          <5>2. step[<<d, g[next[d]]>>] \in V
            BY <5>1
          <5> QED BY <4>2, <5>2
        <4> QED BY <4>1, <4>2
      <3>6. f \in [W(n) -> V]
        BY <3>5
      <3>7. ASSUME NEW d \in W(n - 1) PROVE f[d] = g[d]
        <4>1. d \in W(n)
          <5>1. d \in D /\ rank[d] < n - 1 /\ rank[d] \in 0 .. N
            OBVIOUS
          <5> QED BY <2>3, <5>1
        <4>2. g[d] = IF d \in stops THEN base[d] ELSE step[<<d, g[next[d]]>>]
          BY <3>3 DEF Recurs
        <4>3. f[d] = IF d \in stops THEN base[d] ELSE step[<<d, g[next[d]]>>]
          BY <4>1
        <4> HIDE DEF f
        <4> QED BY <4>2, <4>3
      <3>8. ASSUME NEW d \in W(n)
            PROVE  f[d] = IF d \in stops THEN base[d] ELSE step[<<d, f[next[d]]>>]
        <4>1. f[d] = IF d \in stops THEN base[d] ELSE step[<<d, g[next[d]]>>]
          OBVIOUS
        <4>2. d \notin stops => f[next[d]] = g[next[d]]
          BY <3>4, <3>7
        <4> HIDE DEF f
        <4> QED BY <4>1, <4>2
      <3>9. Recurs(f, W(n), stops, base, next, step)
        <4> HIDE DEF f
        <4> QED BY <3>8 DEF Recurs
      <3> HIDE DEF f
      <3> QED BY <2>3, <3>6, <3>9
    <2> QED BY <2>4, <2>5
  <1>2. N + 1 \in 0 .. (N + 1) /\ N + 1 \notin without
    <2> HIDE DEF without
    <2> QED BY <1>1
  <1>3. PICK f \in [W(N + 1) -> V] : Recurs(f, W(N + 1), stops, base, next, step)
    BY <1>2, Zenon
  <1>4. W(N + 1) = D
    <2>1. \A d \in D : rank[d] \in 0 .. N
      OBVIOUS
    <2> QED BY <2>1
  <1> QED BY <1>3, <1>4

\* The same for functions that count upwards from zero.
Counts(f, N, start, step) ==
  f[0] = start /\ \A k \in 1 .. N : f[k] = step[<<k, f[k - 1]>>]

\* And one that is defined by counting up.
LEMMA Counting ==
  ASSUME NEW V, NEW N \in Nat, NEW start \in V, NEW step \in [(1 .. N) \X V -> V]
  PROVE  \E f \in [0 .. N -> V] : Counts(f, N, start, step)
  <1> DEFINE D == 0 .. N
             rank == [k \in D |-> k]
             base == [k \in {0} |-> start]
             next == [k \in D \ {0} |-> k - 1]
  <1>1. D \ {0} = 1 .. N /\ {0} \in SUBSET D
    OBVIOUS
  <1>2. rank \in [D -> 0 .. N] /\ base \in [{0} -> V] /\ next \in [D \ {0} -> D]
    BY <1>1
  <1>3. \A k \in D \ {0} : rank[next[k]] < rank[k]
    <2> SUFFICES ASSUME NEW k \in D \ {0} PROVE rank[next[k]] < rank[k]
      OBVIOUS
    <2>1. next[k] = k - 1 /\ k - 1 \in D /\ k \in D
      OBVIOUS
    <2>2. rank[k - 1] = k - 1 /\ rank[k] = k
      BY <2>1
    <2> QED BY <2>1, <2>2
  <1>4. step \in [(D \ {0}) \X V -> V]
    BY <1>1
  <1> HIDE DEF rank, base, next, D
  <1>5. \E f \in [D -> V] : Recurs(f, D, {0}, base, next, step)
    BY <1>1, <1>2, <1>3, <1>4, Recursion
  <1>6. PICK f \in [D -> V] : Recurs(f, D, {0}, base, next, step)
    BY <1>5
  <1>7. \A k \in D : f[k] = IF k \in {0} THEN base[k] ELSE step[<<k, f[next[k]]>>]
    BY <1>6 DEF Recurs
  <1>8. f[0] = start
    <2>1. 0 \in D /\ 0 \in {0} /\ base[0] = start
      BY DEF base, D
    <2> QED BY <1>7, <2>1
  <1>9. \A k \in 1 .. N : f[k] = step[<<k, f[k - 1]>>]
    BY <1>7 DEF next, D
  <1> QED BY <1>6, <1>8, <1>9 DEF D, Counts

\* What holds at zero and is passed on holds up to the end.
LEMMA Upwards ==
  ASSUME NEW N \in Nat, NEW S, 0 \in S, \A k \in 1 .. N : k - 1 \in S => k \in S
  PROVE  \A k \in 0 .. N : k \in S
  <1> DEFINE bad == {k \in 0 .. N : k \notin S}
  <1>1. SUFFICES ASSUME bad # {} PROVE FALSE
    OBVIOUS
  <1>2. PICK n \in bad : \A m \in bad : ~ (m < n)
    <2>1. bad \in SUBSET Nat
      OBVIOUS
    <2> HIDE DEF bad
    <2> QED BY <1>1, <2>1, LeastNumber
  <1>3. n \in 1 .. N /\ n - 1 \in 0 .. N /\ n - 1 < n
    BY <1>2
  <1>4. n - 1 \in S
    BY <1>2, <1>3
  <1> QED BY <1>2, <1>3, <1>4

\* What holds at the end and is passed on backwards holds from the start.
LEMMA Downwards ==
  ASSUME NEW N \in Nat, NEW S, N + 1 \in S, \A k \in 1 .. N : k + 1 \in S => k \in S
  PROVE  \A k \in 1 .. (N + 1) : k \in S
  <1> DEFINE T == {n \in 0 .. N : (N + 1) - n \in S}
  <1>1. 0 \in T
    OBVIOUS
  <1>2. ASSUME NEW n \in 1 .. N, n - 1 \in T PROVE n \in T
    <2>1. (N + 1) - (n - 1) \in S /\ (N + 1) - n \in 1 .. N
          /\ ((N + 1) - n) + 1 = (N + 1) - (n - 1)
      BY <1>2
    <2> QED BY <2>1
  <1>3. \A n \in 0 .. N : n \in T
    <2> HIDE DEF T
    <2> QED BY <1>1, <1>2, Upwards
  <1>4. ASSUME NEW k \in 1 .. (N + 1) PROVE k \in S
    <2>1. (N + 1) - k \in 0 .. N /\ (N + 1) - ((N + 1) - k) = k
      OBVIOUS
    <2> QED BY <1>3, <2>1
  <1> QED BY <1>4

\* What SubSeq cuts out of a sequence.
LEMMA Piece ==
  ASSUME NEW S, NEW q \in Seq(S), NEW a \in Nat, a >= 1, NEW b \in Nat, b <= Len(q), a <= b + 1
  PROVE  /\ SubSeq(q, a, b) \in Seq(S)
         /\ Len(SubSeq(q, a, b)) = b + 1 - a
         /\ \A k \in 1 .. (b + 1 - a) : SubSeq(q, a, b)[k] = q[a + k - 1]
  <1> DEFINE c == SubSeq(q, a, b)
  <1>1. \A i \in a .. b : q[i] \in S
    <2>1. \A i \in a .. b : i \in 1 .. Len(q)
      OBVIOUS
    <2> QED BY <2>1, ElementOfSeq
  <1>2. /\ c \in Seq(S)
        /\ Len(c) = IF a <= b THEN b - a + 1 ELSE 0
        /\ \A k \in 1 .. b - a + 1 : c[k] = q[a + k - 1]
    BY <1>1, SubSeqProperties
  <1> HIDE DEF c
  <1>3. Len(c) = b + 1 - a
    BY <1>2
  <1>4. \A k \in 1 .. (b + 1 - a) : k \in 1 .. b - a + 1
    OBVIOUS
  <1>5. \A k \in 1 .. (b + 1 - a) : c[k] = q[a + k - 1]
    BY <1>2, <1>4
  <1> QED BY <1>2, <1>3, <1>5 DEF c

\* A piece is what its elements are.
LEMMA PieceIs ==
  ASSUME NEW S, NEW q \in Seq(S), NEW part \in Seq(S), NEW a \in Nat,
         a + Len(part) <= Len(q),
         \A k \in 1 .. Len(part) : q[a + k] = part[k]
  PROVE  SubSeq(q, a + 1, a + Len(part)) = part
  <1> DEFINE n == Len(part)
             c == SubSeq(q, a + 1, a + n)
  <1>1. n \in Nat /\ Len(q) \in Nat
    OBVIOUS
  <1> HIDE DEF n
  <1>2. a + 1 \in Nat /\ a + 1 >= 1 /\ a + n \in Nat /\ a + n <= Len(q) /\ a + 1 <= (a + n) + 1
    BY <1>1 DEF n
  <1>3. /\ c \in Seq(S) /\ Len(c) = (a + n) + 1 - (a + 1)
        /\ \A k \in 1 .. ((a + n) + 1 - (a + 1)) : c[k] = q[(a + 1) + k - 1]
    BY <1>2, Piece
  <1> HIDE DEF c
  <1>4. (a + n) + 1 - (a + 1) = n
    BY <1>1
  <1>5. ASSUME NEW k \in 1 .. n PROVE c[k] = part[k]
    <2>1. (a + 1) + k - 1 = a + k /\ k \in 1 .. ((a + n) + 1 - (a + 1))
      BY <1>1
    <2> QED BY <1>3, <2>1 DEF n
  <1>6. c = part
    BY <1>3, <1>4, <1>5, SeqEqual DEF n
  <1> QED BY <1>6 DEF c, n

\* The parts of joined sequences are cut out again.
LEMMA PartsComeBack ==
  ASSUME NEW S, NEW front \in Seq(S), NEW rest \in Seq(S), NEW q, q = front \o rest
  PROVE  /\ q \in Seq(S)
         /\ Len(q) = Len(front) + Len(rest)
         /\ \A k \in 1 .. Len(front) : q[k] = front[k]
         /\ \A k \in 1 .. Len(rest) : q[Len(front) + k] = rest[k]
         /\ SubSeq(q, 1, Len(front)) = front
         /\ SubSeq(q, Len(front) + 1, Len(q)) = rest
  <1> DEFINE m == Len(front)
             n == Len(rest)
  <1>1. m \in Nat /\ n \in Nat
    OBVIOUS
  <1>2. /\ q \in Seq(S) /\ Len(q) = m + n
        /\ \A k \in 1 .. (m + n) : q[k] = IF k <= m THEN front[k] ELSE rest[k - m]
    BY ConcatProperties
  <1>3. \A k \in 1 .. m : q[0 + k] = front[k] /\ q[k] = front[k]
    BY <1>1, <1>2
  <1>4. \A k \in 1 .. n : q[m + k] = rest[k]
    <2> SUFFICES ASSUME NEW k \in 1 .. n PROVE q[m + k] = rest[k]
      OBVIOUS
    <2>1. m + k \in 1 .. (m + n) /\ ~ (m + k <= m) /\ (m + k) - m = k
      BY <1>1
    <2> HIDE DEF m, n
    <2> QED BY <1>2, <2>1
  <1>5. SubSeq(q, 0 + 1, 0 + m) = front
    BY <1>1, <1>2, <1>3, PieceIs
  <1>6. SubSeq(q, m + 1, m + n) = rest
    BY <1>1, <1>2, <1>4, PieceIs
  <1>7. SubSeq(q, 1, m) = front
    BY <1>1, <1>5
  <1> QED BY <1>2, <1>3, <1>4, <1>6, <1>7

\* What is left from a position on, and what is left of that.
LEMMA Remainder ==
  ASSUME NEW S, NEW q \in Seq(S), NEW i \in 1 .. (Len(q) + 1)
  PROVE  /\ SubSeq(q, i, Len(q)) \in Seq(S)
         /\ Len(SubSeq(q, i, Len(q))) = Len(q) + 1 - i
         /\ \A k \in 1 .. (Len(q) + 1 - i) : SubSeq(q, i, Len(q))[k] = q[i + k - 1]
  <1>1. Len(q) \in Nat /\ i \in Nat /\ i >= 1 /\ i <= Len(q) + 1 /\ Len(q) <= Len(q)
    OBVIOUS
  <1> QED BY <1>1, Piece

\* What is left of what is left.
LEMMA RemainderOfRemainder ==
  ASSUME NEW S, NEW q \in Seq(S), NEW i \in 1 .. (Len(q) + 1), NEW r, r = SubSeq(q, i, Len(q)),
         NEW j \in 1 .. (Len(r) + 1)
  PROVE  /\ i + j - 1 \in 1 .. (Len(q) + 1)
         /\ SubSeq(r, j, Len(r)) = SubSeq(q, i + j - 1, Len(q))
  <1>1. Len(q) \in Nat
    OBVIOUS
  <1>2. /\ r \in Seq(S) /\ Len(r) = Len(q) + 1 - i
        /\ \A k \in 1 .. (Len(q) + 1 - i) : r[k] = q[i + k - 1]
    BY Remainder
  <1>3. i + j - 1 \in 1 .. (Len(q) + 1)
    BY <1>1, <1>2
  <1> DEFINE a == SubSeq(r, j, Len(r))
             b == SubSeq(q, i + j - 1, Len(q))
  <1>4. /\ a \in Seq(S) /\ Len(a) = Len(r) + 1 - j
        /\ \A k \in 1 .. (Len(r) + 1 - j) : a[k] = r[j + k - 1]
    BY <1>2, Remainder
  <1>5. /\ b \in Seq(S) /\ Len(b) = Len(q) + 1 - (i + j - 1)
        /\ \A k \in 1 .. (Len(q) + 1 - (i + j - 1)) : b[k] = q[(i + j - 1) + k - 1]
    BY <1>3, Remainder
  <1> HIDE DEF a, b
  <1>6. Len(a) = Len(b)
    BY <1>1, <1>2, <1>4, <1>5
  <1>7. ASSUME NEW k \in 1 .. Len(a) PROVE a[k] = b[k]
    <2>1. /\ k \in 1 .. (Len(r) + 1 - j) /\ k \in 1 .. (Len(q) + 1 - (i + j - 1))
          /\ j + k - 1 \in 1 .. (Len(q) + 1 - i)
          /\ i + (j + k - 1) - 1 = (i + j - 1) + k - 1
      BY <1>1, <1>2, <1>3, <1>4
    <2> QED BY <1>2, <1>4, <1>5, <2>1
  <1>8. a = b
    BY <1>4, <1>5, <1>6, <1>7, SeqEqual
  <1> QED BY <1>3, <1>8 DEF a, b

\* Sequences with one element more in front.
LEMMA Singleton ==
  ASSUME NEW S, NEW x \in S
  PROVE  <<x>> \in Seq(S) /\ Len(<<x>>) = 1 /\ <<x>>[1] = x
  OBVIOUS

-----------------------------------------------------------------------------
(* Words and their sums *)

Bytes == Seq(Link!Byte)
Words == 0 .. (Link!WordValues - 1)

\* How many values a byte and a word have, as far as the sums care.
LEMMA Bases ==
  /\ ByteValues \in Nat /\ ByteValues > 1
  /\ Link!WordValues \in Nat /\ Link!WordValues > 1
  /\ Link!WordValues = ByteValues * ByteValues
  /\ Link!Byte \subseteq Nat
  <1>1. ByteValues \in Nat /\ ByteValues > 1
    BY SMT, ByteAssumption
  <1>2. Link!WordValues = ByteValues * ByteValues
    BY DEF Link!WordValues
  <1>3. ByteValues * ByteValues \in Nat /\ ByteValues * ByteValues > 1
    <2>1. \A n \in Nat : n > 1 => n * n \in Nat /\ n * n > 1
      OBVIOUS
    <2> QED BY <1>1, <2>1
  <1> QED BY <1>1, <1>2, <1>3 DEF Link!Byte

\* A word taken apart into its two bytes.
LEMMA TwoBytesOneWord ==
  ASSUME NEW hi \in Link!Byte, NEW lo \in Link!Byte
  PROVE  /\ hi * ByteValues + lo \in Words
         /\ (hi * ByteValues + lo) % ByteValues = lo
         /\ (hi * ByteValues + lo) \div ByteValues = hi
  <1> DEFINE B == ByteValues
  <1>1. B \in Nat /\ B > 1 /\ Link!WordValues = B * B
    BY Bases
  <1>2. hi \in 0 .. (B - 1) /\ lo \in 0 .. (B - 1)
    BY DEF Link!Byte
  <1> HIDE DEF B
  <1>3. hi * B + lo \in Nat /\ hi * B + lo <= B * B - 1
    <2>1. hi * B <= (B - 1) * B
      BY <1>1, <1>2
    <2>2. (B - 1) * B = B * B - B
      BY <1>1
    <2>3. hi * B \in Nat /\ B * B \in Nat
      BY <1>1, <1>2
    <2> QED BY <1>1, <1>2, <2>1, <2>2, <2>3
  <1>4. (hi * B + lo) % B = lo /\ (hi * B + lo) \div B = hi
    <2>1. \A c \in Int, d \in Nat, q \in Int, r \in Int :
             (c = d * q + r /\ 0 <= r /\ r < d) => c % d = r /\ c \div d = q
      OBVIOUS
    <2>2. hi * B = B * hi
      BY <1>1, <1>2
    <2> QED BY <1>1, <1>2, <1>3, <2>1, <2>2
  <1>5. B * B \in Nat
    BY <1>1
  <1> QED BY <1>1, <1>3, <1>4, <1>5 DEF Words, B

\* A word is written in two bytes, and read again.
LEMMA WordComesBack ==
  ASSUME NEW n \in Words
  PROVE  /\ Link!U16Bytes(n) \in Bytes
         /\ Len(Link!U16Bytes(n)) = 2
         /\ Link!U16Bytes(n)[1] * ByteValues + Link!U16Bytes(n)[2] = n
  <1> DEFINE B == ByteValues
             hi == Link!Low(Link!Rest(n))
             lo == Link!Low(n)
  <1>1. B \in Nat /\ B > 1 /\ Link!WordValues = B * B /\ B * B \in Nat
    BY Bases
  <1>2. n \in Nat /\ n < B * B
    BY <1>1 DEF Words
  <1>3. hi = (n \div B) % B /\ lo = n % B
    BY DEF Link!Low, Link!Rest
  <1> HIDE DEF B, hi, lo
  <1>4. n \div B \in Nat /\ n % B \in Nat /\ n % B < B /\ n = B * (n \div B) + (n % B)
    BY <1>1, <1>2, Z3
  <1> DEFINE d == n \div B
  <1>5. d \in 0 .. (B - 1)
    <2>1. d \in Nat /\ n % B \in Nat /\ n = B * d + (n % B)
      BY <1>4
    <2> DEFINE r == n % B
    <2> HIDE DEF d, r
    <2>2. \A x, y, z \in Nat : y <= z => x * y <= x * z
      OBVIOUS
    <2>3. d >= B => B * B <= B * d
      BY <1>1, <2>1, <2>2
    <2>4. B * d \in Nat /\ r \in Nat /\ n = B * d + r
      BY <1>1, <2>1 DEF r
    <2>5. ~ (d >= B)
      BY <1>1, <1>2, <2>3, <2>4
    <2> QED BY <1>1, <2>1, <2>5
  <1>6. hi = d
    <2> HIDE DEF d
    <2>1. d % B = d
      BY <1>1, <1>5
    <2> QED BY <1>3, <2>1 DEF d
  <1>7. hi \in Link!Byte /\ lo \in Link!Byte
    <2>1. hi \in 0 .. (B - 1) /\ lo \in 0 .. (B - 1)
      <3> HIDE DEF d
      <3> QED BY <1>1, <1>3, <1>4, <1>5, <1>6
    <2> QED BY <2>1 DEF Link!Byte, B
  <1>8. hi * B + lo = n
    BY <1>1, <1>3, <1>4, <1>6
  <1>9. Link!U16Bytes(n) = <<hi, lo>>
    BY DEF Link!U16Bytes, hi, lo
  <1> QED BY <1>7, <1>8, <1>9 DEF Bytes, B

\* The words of a sequence of bytes: an odd byte at the end is the upper half of one.
WordCount(s) == (Len(s) + 1) \div 2
WordAt(s, k) == s[2 * k - 1] * ByteValues + (IF 2 * k <= Len(s) THEN s[2 * k] ELSE 0)

\* Adding in one's complement.
Plus(a, b) ==
  IF a + b < Link!WordValues THEN a + b ELSE (a + b) - (Link!WordValues - 1)

LEMMA ZeroByte == 0 \in Link!Byte /\ 0 \in Words
  BY Bases DEF Link!Byte, Words

LEMMA WordTyped ==
  ASSUME NEW s \in Bytes, NEW k \in 1 .. WordCount(s)
  PROVE  WordAt(s, k) \in Words
  <1>1. Len(s) \in Nat /\ k \in Nat /\ 2 * k - 1 \in 1 .. Len(s)
    BY DEF Bytes, WordCount
  <1>2. s[2 * k - 1] \in Link!Byte
    BY <1>1, ElementOfSeq DEF Bytes
  <1>3. 2 * k <= Len(s) => s[2 * k] \in Link!Byte
    <2>1. 2 * k <= Len(s) => 2 * k \in 1 .. Len(s)
      BY <1>1
    <2> QED BY <2>1, ElementOfSeq DEF Bytes
  <1> QED BY <1>2, <1>3, ZeroByte, TwoBytesOneWord DEF WordAt

\* Folding the carry into a sum of two words is addition of their ones' complements.
LEMMA FoldIsPlus ==
  ASSUME NEW a \in Words, NEW b \in Words
  PROVE  Link!Fold(a + b) = Plus(a, b) /\ Plus(a, b) \in Words
  <1> DEFINE W == Link!WordValues
  <1>1. W \in Nat /\ W > 1
    BY Bases
  <1>2. a \in 0 .. (W - 1) /\ b \in 0 .. (W - 1)
    BY DEF Words
  <1>3. Link!Fold(a + b) = ((a + b) % W) + ((a + b) \div W)
    BY DEF Link!Fold
  <1>4. Plus(a, b) = IF a + b < W THEN a + b ELSE (a + b) - (W - 1)
    BY DEF Plus
  <1> HIDE DEF W
  <1>5. CASE a + b < W
    <2>1. (a + b) % W = a + b /\ (a + b) \div W = 0
      BY <1>1, <1>2, <1>5
    <2> QED BY <1>1, <1>2, <1>3, <1>4, <1>5, <2>1 DEF Words, W
  <1>6. CASE ~ (a + b < W)
    <2>1. (a + b) % W = a + b - W /\ (a + b) \div W = 1
      BY <1>1, <1>2, <1>6
    <2> QED BY <1>1, <1>2, <1>3, <1>4, <1>6, <2>1 DEF Words, W
  <1> QED BY <1>5, <1>6

\* The sums up to every word.
SumsUp(f, s) ==
  /\ f \in [0 .. WordCount(s) -> Words]
  /\ f[0] = 0
  /\ \A k \in 1 .. WordCount(s) : f[k] = Plus(f[k - 1], WordAt(s, k))


\* The checksum loop has its sums.
LEMMA OnesSumSteps ==
  ASSUME NEW s \in Bytes
  PROVE  \E f : SumsUp(f, s) /\ Link!OnesSum(s) = f[WordCount(s)]
  <1> DEFINE N == WordCount(s)
             padded == IF Len(s) % 2 = 0 THEN s ELSE Append(s, 0)
             Body(f, k) == IF k = 0 THEN 0
                           ELSE Link!Fold(f[k - 1] + Link!U16(SubSeq(padded, 2 * k - 1, 2 * k)))
             upTo == CHOOSE f : f = [k \in 0 .. (Len(padded) \div 2) |-> Body(f, k)]
             step == [p \in (1 .. N) \X Words |-> Plus(p[2], WordAt(s, p[1]))]
  <1>1. Len(s) \in Nat /\ N \in Nat
    BY DEF Bytes, WordCount
  <1>2. padded \in Bytes /\ Len(padded) = 2 * N
    <2>1. CASE Len(s) % 2 = 0
      BY <1>1, <2>1 DEF WordCount
    <2>2. CASE Len(s) % 2 # 0
      <3>1. Append(s, 0) \in Bytes /\ Len(Append(s, 0)) = Len(s) + 1
        BY ZeroByte, AppendProperties DEF Bytes
      <3>2. Len(s) + 1 = 2 * ((Len(s) + 1) \div 2)
        BY <1>1, <2>2
      <3> QED BY <2>2, <3>1, <3>2 DEF WordCount
    <2> QED BY <2>1, <2>2
  <1>3. ASSUME NEW k \in 1 .. N
        PROVE  Link!U16(SubSeq(padded, 2 * k - 1, 2 * k)) = WordAt(s, k)
    <2> DEFINE c == SubSeq(padded, 2 * k - 1, 2 * k)
    <2>1. /\ 2 * k - 1 \in Nat /\ 2 * k - 1 >= 1 /\ 2 * k \in Nat /\ 2 * k <= Len(padded)
          /\ 2 * k - 1 <= 2 * k + 1 /\ 2 * k + 1 - (2 * k - 1) = 2
          /\ (2 * k - 1) + 1 - 1 = 2 * k - 1 /\ (2 * k - 1) + 2 - 1 = 2 * k
      BY <1>1, <1>2
    <2>2. \A i \in 1 .. 2 : c[i] = padded[(2 * k - 1) + i - 1]
      <3> HIDE DEF padded
      <3> QED BY <1>2, <2>1, Piece DEF Bytes
    <2>3. c[1] = padded[2 * k - 1] /\ c[2] = padded[2 * k]
      <3>1. 1 \in 1 .. 2 /\ 2 \in 1 .. 2
        OBVIOUS
      <3> HIDE DEF c, padded
      <3> QED BY <2>1, <2>2, <3>1
    <2>4. 2 * k - 1 \in 1 .. Len(s)
      BY <1>1 DEF WordCount
    <2>5. padded[2 * k - 1] = s[2 * k - 1]
      <3>1. CASE Len(s) % 2 = 0
        BY <3>1
      <3>2. CASE Len(s) % 2 # 0
        <4>1. Append(s, 0)[2 * k - 1] = s[2 * k - 1]
          BY <2>4, ZeroByte, AppendProperties DEF Bytes
        <4> QED BY <3>2, <4>1
      <3> QED BY <3>1, <3>2
    <2>6. padded[2 * k] = IF 2 * k <= Len(s) THEN s[2 * k] ELSE 0
      <3>1. CASE Len(s) % 2 = 0
        <4>1. 2 * k <= Len(s)
          BY <1>1, <1>2, <3>1 DEF WordCount
        <4> QED BY <3>1, <4>1
      <3>2. CASE Len(s) % 2 # 0
        <4>1. padded = Append(s, 0)
          BY <3>2
        <4>2. /\ \A i \in 1 .. Len(s) : Append(s, 0)[i] = s[i]
              /\ Append(s, 0)[Len(s) + 1] = 0
          BY ZeroByte, AppendProperties DEF Bytes
        <4>3. CASE 2 * k <= Len(s)
          <5>1. 2 * k \in 1 .. Len(s)
            BY <1>1, <4>3
          <5> QED BY <4>1, <4>2, <4>3, <5>1
        <4>4. CASE ~ (2 * k <= Len(s))
          <5>1. 2 * k = Len(s) + 1
            BY <1>1, <3>2, <4>4 DEF WordCount
          <5> HIDE DEF padded
          <5> QED BY <4>1, <4>2, <4>4, <5>1
        <4> QED BY <4>3, <4>4
      <3> QED BY <3>1, <3>2
    <2>7. Link!U16(c) = c[1] * ByteValues + c[2]
      BY DEF Link!U16
    <2> HIDE DEF c, padded
    <2> QED BY <2>3, <2>5, <2>6, <2>7 DEF WordAt, c
  <1>4. step \in [(1 .. N) \X Words -> Words]
    <2> SUFFICES ASSUME NEW p \in (1 .. N) \X Words
                 PROVE  Plus(p[2], WordAt(s, p[1])) \in Words
      OBVIOUS
    <2>1. p[1] \in 1 .. N /\ p[2] \in Words
      OBVIOUS
    <2>2. WordAt(s, p[1]) \in Words
      BY <2>1, WordTyped
    <2> QED BY <2>1, <2>2, FoldIsPlus
  <1>5. PICK f \in [0 .. N -> Words] :
           f[0] = 0 /\ \A k \in 1 .. N : f[k] = step[<<k, f[k - 1]>>]
    <2> HIDE DEF step, N
    <2>1. 0 \in Words
      BY ZeroByte
    <2>2. \E f \in [0 .. N -> Words] : Counts(f, N, 0, step)
      BY <1>1, <1>4, <2>1, Counting
    <2> QED BY <2>2 DEF Counts
  <1>6. ASSUME NEW k \in 1 .. N PROVE f[k] = Plus(f[k - 1], WordAt(s, k))
    <2>1. k - 1 \in 0 .. N
      BY <1>1
    <2>2. f[k - 1] \in Words
      BY <1>5, <2>1
    <2>3. <<k, f[k - 1]>> \in (1 .. N) \X Words
      BY <2>2
    <2>4. step[<<k, f[k - 1]>>] = Plus(f[k - 1], WordAt(s, k))
      <3> HIDE DEF N
      <3> QED BY <2>3
    <2> QED BY <1>5, <2>4
  <1>7. Len(padded) \div 2 = N
    BY <1>1, <1>2
  <1>8. ASSUME NEW k \in 0 .. N PROVE f[k] = Body(f, k)
    <2>1. CASE k = 0
      BY <1>5, <2>1
    <2>2. CASE k # 0
      <3>1. k \in 1 .. N /\ k - 1 \in 0 .. N
        BY <1>1, <2>2
      <3>2. f[k - 1] \in Words /\ WordAt(s, k) \in Words
        BY <1>5, <3>1, WordTyped
      <3>3. Link!Fold(f[k - 1] + WordAt(s, k)) = f[k]
        BY <1>6, <3>1, <3>2, FoldIsPlus
      <3> HIDE DEF padded
      <3> QED BY <1>3, <2>2, <3>1, <3>3
    <2> QED BY <2>1, <2>2
  <1>9. f = [k \in 0 .. (Len(padded) \div 2) |-> Body(f, k)]
    <2>1. f = [k \in 0 .. N |-> f[k]]
      BY <1>5
    <2> HIDE DEF Body, N, padded
    <2> QED BY <1>7, <1>8, <2>1
  <1>10. upTo = [k \in 0 .. (Len(padded) \div 2) |-> Body(upTo, k)]
    <2> HIDE DEF Body, padded
    <2> QED BY <1>9
  <1>11. \A k \in 0 .. N : upTo[k] = Body(upTo, k)
    <2> HIDE DEF Body, N, padded, upTo
    <2> QED BY <1>7, <1>10
  <1>12. \A k \in 0 .. N : upTo[k] = f[k]
    <2> DEFINE Same == {k \in 0 .. N : upTo[k] = f[k]}
    <2> HIDE DEF upTo, padded
    <2>1. 0 \in Same
      BY <1>1, <1>8, <1>11
    <2>2. ASSUME NEW k \in 1 .. N, k - 1 \in Same PROVE k \in Same
      <3>1. k \in 0 .. N /\ k # 0 /\ upTo[k - 1] = f[k - 1]
        BY <1>1, <2>2
      <3> QED BY <1>8, <1>11, <3>1
    <2>3. \A k \in 0 .. N : k \in Same
      <3> HIDE DEF Same, N
      <3> QED BY <1>1, <2>1, <2>2, Upwards
    <2> QED BY <2>3
  <1>13. Link!OnesSum(s) = upTo[N]
    <2>1. Link!OnesSum(s) = upTo[Len(padded) \div 2]
      BY DEF Link!OnesSum, upTo
    <2> HIDE DEF upTo, padded
    <2> QED BY <1>7, <2>1
  <1> HIDE DEF upTo, N
  <1>14. SumsUp(f, s)
    BY <1>5, <1>6 DEF SumsUp, N
  <1>15. N \in 0 .. N
    BY <1>1
  <1> QED BY <1>12, <1>13, <1>14, <1>15 DEF N

\* A sum is a word.
LEMMA SumIsWord ==
  ASSUME NEW s \in Bytes
  PROVE  Link!OnesSum(s) \in Words
  <1>1. PICK f : SumsUp(f, s) /\ Link!OnesSum(s) = f[WordCount(s)]
    BY OnesSumSteps
  <1>2. WordCount(s) \in 0 .. WordCount(s)
    BY DEF Bytes, WordCount
  <1> QED BY <1>1, <1>2 DEF SumsUp

\* The order in which words are added does not matter.
LEMMA PlusMoves ==
  ASSUME NEW a \in Words, NEW b \in Words, NEW c \in Words
  PROVE  Plus(Plus(a, c), b) = Plus(Plus(a, b), c)
  <1> DEFINE W == Link!WordValues
  <1>1. W \in Nat /\ W > 1
    BY Bases
  <1>2. a \in 0 .. (W - 1) /\ b \in 0 .. (W - 1) /\ c \in 0 .. (W - 1)
    BY DEF Words
  <1>3. \A x, y : Plus(x, y) = IF x + y < W THEN x + y ELSE (x + y) - (W - 1)
    BY DEF Plus
  <1> HIDE DEF W
  <1>4. PICK ab : ab = Plus(a, b)
    OBVIOUS
  <1>5. PICK ac : ac = Plus(a, c)
    OBVIOUS
  <1>6. /\ ab = IF a + b < W THEN a + b ELSE (a + b) - (W - 1)
        /\ ac = IF a + c < W THEN a + c ELSE (a + c) - (W - 1)
    BY <1>3, <1>4, <1>5
  <1>7. ab \in Nat /\ ac \in Nat
    BY <1>1, <1>2, <1>6
  <1>8. (IF ac + b < W THEN ac + b ELSE (ac + b) - (W - 1))
           = (IF ab + c < W THEN ab + c ELSE (ab + c) - (W - 1))
    BY <1>1, <1>2, <1>6, <1>7
  <1> QED BY <1>3, <1>4, <1>5, <1>8

\* Adding nothing, adding what is missing to the greatest word, and adding that one to
\* itself.
LEMMA PlusLimits ==
  ASSUME NEW a \in Words
  PROVE  /\ Plus(a, 0) = a
         /\ Link!Complement(a) \in Words
         /\ Plus(a, Link!Complement(a)) = Link!WordValues - 1
         /\ Link!WordValues - 1 \in Words
         /\ Link!Complement(a) = 0 => Plus(a, Link!WordValues - 1) = Link!WordValues - 1
  BY Bases DEF Plus, Link!Complement, Words

\* What the builders write into the place of the checksum makes the sum whole: the
\* complement of the sum without it, or the greatest word where that would be zero.
THEOREM ChecksumMakesWhole ==
  ASSUME NEW s \in Bytes, NEW t \in Bytes, Len(t) = Len(s),
         NEW j \in 1 .. WordCount(s), 2 * j <= Len(s),
         s[2 * j - 1] = 0, s[2 * j] = 0,
         \A k \in 1 .. Len(s) : k # 2 * j - 1 /\ k # 2 * j => t[k] = s[k],
         NEW c \in Words, WordAt(t, j) = c,
         \/ c = Link!Complement(Link!OnesSum(s))
         \/ c = Link!WordValues - 1 /\ Link!Complement(Link!OnesSum(s)) = 0
  PROVE  Link!IsWhole(t)
  <1> DEFINE N == WordCount(s)
  <1>1. Len(s) \in Nat /\ N \in Nat /\ N = (Len(s) + 1) \div 2 /\ WordCount(t) = N
    BY DEF WordCount, Bytes
  <1>2. PICK f : SumsUp(f, s) /\ Link!OnesSum(s) = f[N]
    BY OnesSumSteps
  <1>3. PICK g : SumsUp(g, t) /\ Link!OnesSum(t) = g[WordCount(t)]
    BY OnesSumSteps
  <1>4. /\ f \in [0 .. N -> Words] /\ f[0] = 0
        /\ \A k \in 1 .. N : f[k] = Plus(f[k - 1], WordAt(s, k))
    BY <1>2 DEF SumsUp
  <1>5. /\ g \in [0 .. N -> Words] /\ g[0] = 0
        /\ \A k \in 1 .. N : g[k] = Plus(g[k - 1], WordAt(t, k))
    BY <1>1, <1>3 DEF SumsUp
  <1>6. WordAt(s, j) = 0
    <2>1. ByteValues \in Nat
      BY Bases
    <2> QED BY <2>1 DEF WordAt
  <1>7. ASSUME NEW k \in 1 .. N, k # j PROVE WordAt(t, k) = WordAt(s, k)
    <2>1. 2 * k - 1 \in 1 .. Len(s) /\ 2 * k - 1 # 2 * j - 1 /\ 2 * k - 1 # 2 * j
      BY <1>1, <1>7
    <2>2. 2 * k <= Len(s) => 2 * k \in 1 .. Len(s) /\ 2 * k # 2 * j - 1 /\ 2 * k # 2 * j
      BY <1>1, <1>7
    <2>3. t[2 * k - 1] = s[2 * k - 1] /\ (2 * k <= Len(s) => t[2 * k] = s[2 * k])
      BY <2>1, <2>2
    <2> QED BY <2>3 DEF WordAt
  <1>8. \A k \in 1 .. N : k - 1 \in 0 .. N /\ k \in 0 .. N /\ k \in Nat
    BY <1>1
  <1>9. \A k \in 1 .. N : WordAt(s, k) \in Words /\ f[k - 1] \in Words /\ g[k - 1] \in Words
    BY <1>4, <1>5, <1>8, WordTyped
  <1>10. \A k \in 0 .. N : g[k] = IF k < j THEN f[k] ELSE Plus(f[k], c)
    <2> DEFINE S == {k \in 0 .. N : g[k] = IF k < j THEN f[k] ELSE Plus(f[k], c)}
    <2>1. 0 \in S
      BY <1>1, <1>4, <1>5
    <2>2. ASSUME NEW k \in 1 .. N, k - 1 \in S PROVE k \in S
      <3>1. /\ g[k - 1] = IF k - 1 < j THEN f[k - 1] ELSE Plus(f[k - 1], c)
            /\ g[k] = Plus(g[k - 1], WordAt(t, k)) /\ f[k] = Plus(f[k - 1], WordAt(s, k))
        BY <1>4, <1>5, <2>2
      <3>2. CASE k < j
        BY <1>7, <1>8, <3>1, <3>2
      <3>3. CASE k = j
        <4>1. f[k] = f[k - 1]
          BY <1>6, <1>9, <3>1, <3>3, PlusLimits
        <4> QED BY <1>8, <3>1, <3>3, <4>1
      <3>4. CASE k > j
        <4>1. g[k] = Plus(Plus(f[k - 1], c), WordAt(s, k))
          BY <1>7, <1>8, <3>1, <3>4
        <4>2. Plus(Plus(f[k - 1], c), WordAt(s, k)) = Plus(f[k], c)
          BY <1>9, <3>1, PlusMoves
        <4> QED BY <1>8, <3>4, <4>1, <4>2
      <3> QED BY <1>8, <3>2, <3>3, <3>4
    <2> HIDE DEF S
    <2>3. \A k \in 0 .. N : k \in S
      BY <1>1, <2>1, <2>2, Upwards
    <2> QED BY <2>3 DEF S
  <1>11. g[N] = Plus(f[N], c)
    <2>1. N \in 0 .. N /\ ~ (N < j)
      BY <1>1
    <2> QED BY <1>10, <2>1
  <1>12. f[N] \in Words
    BY <1>1, <1>4
  <1>13. Plus(f[N], c) = Link!WordValues - 1
    BY <1>2, <1>12, PlusLimits
  <1> QED BY <1>1, <1>3, <1>11, <1>13 DEF Link!IsWhole

-----------------------------------------------------------------------------
(* UDP *)

\* The provers know too much of what Len, SubSeq and the elements of a sequence are; these
\* names keep them from looking.
Length(s) == Len(s)
At(s, k) == s[k]
Cat(front, rest) == front \o rest
Cut(s, first, last) == SubSeq(s, first, last)

\* What joined bytes are.
IsJoined(q, front, rest) ==
  /\ q \in Bytes
  /\ Length(front) \in Nat /\ Length(rest) \in Nat
  /\ Length(q) = Length(front) + Length(rest)
  /\ \A k \in 1 .. Length(front) : At(q, k) = At(front, k)
  /\ \A k \in 1 .. Length(rest) : At(q, Length(front) + k) = At(rest, k)
  /\ Cut(q, 1, Length(front)) = front
  /\ Cut(q, Length(front) + 1, Length(front) + Length(rest)) = rest

\* Joined bytes have the parts where they are expected.
LEMMA Joins ==
  ASSUME NEW front \in Bytes, NEW rest \in Bytes
  PROVE  IsJoined(Cat(front, rest), front, rest)
  <1> DEFINE q == Cat(front, rest)
  <1>1. q = front \o rest
    BY DEF Cat
  <1>2. front \in Seq(Link!Byte) /\ rest \in Seq(Link!Byte)
    BY DEF Bytes
  <1> HIDE DEF q
  <1>3. /\ q \in Seq(Link!Byte)
        /\ Len(q) = Len(front) + Len(rest)
        /\ \A k \in 1 .. Len(front) : q[k] = front[k]
        /\ \A k \in 1 .. Len(rest) : q[Len(front) + k] = rest[k]
        /\ SubSeq(q, 1, Len(front)) = front
        /\ SubSeq(q, Len(front) + 1, Len(q)) = rest
    BY <1>1, <1>2, PartsComeBack
  <1>4. Len(front) \in Nat /\ Len(rest) \in Nat
    BY <1>2
  <1> QED BY <1>3, <1>4 DEF Bytes, Length, Cut, q, At, IsJoined

\* Bytes are equal if they are as many and the same, and a cut has what was there.
LEMMA SameBytes ==
  ASSUME NEW s \in Bytes, NEW t \in Bytes, Length(s) = Length(t),
         \A k \in 1 .. Length(s) : At(s, k) = At(t, k)
  PROVE  s = t
  BY SeqEqual DEF Bytes, Length, At

IsCut(c, q, a, b) ==
  /\ c \in Bytes
  /\ Length(c) = b + 1 - a
  /\ \A k \in 1 .. (b + 1 - a) : At(c, k) = At(q, a + k - 1)

\* A cut has the bytes it was cut around.
LEMMA CutIs ==
  ASSUME NEW q \in Bytes, NEW a \in Nat, NEW b \in Nat, a >= 1, b <= Length(q), a <= b + 1
  PROVE  IsCut(Cut(q, a, b), q, a, b)
  BY Piece DEF Bytes, Length, Cut, At, IsCut

LEMMA ByteIn ==
  ASSUME NEW q \in Bytes, NEW k \in 1 .. Length(q)
  PROVE  At(q, k) \in Link!Byte
  BY ElementOfSeq DEF Bytes, Length, At

LEMMA LengthIsNat ==
  ASSUME NEW q \in Bytes
  PROVE  Length(q) \in Nat
  BY DEF Bytes, Length

\* U16 reads two bytes, the upper one first.
LEMMA AsWord ==
  ASSUME NEW q
  PROVE  Link!U16(q) = At(q, 1) * ByteValues + At(q, 2)
  BY DEF Link!U16, At

\* U16Bytes writes what U16 reads.
LEMMA TwoBytes ==
  ASSUME NEW n \in Words
  PROVE  /\ Link!U16Bytes(n) \in Bytes
         /\ Length(Link!U16Bytes(n)) = 2
         /\ At(Link!U16Bytes(n), 1) * ByteValues + At(Link!U16Bytes(n), 2) = n
  BY WordComesBack DEF Length, At

Size(version) == IF version = 4 THEN 4 ELSE 16

\* What the builders of the four layers are given.
IsGiven(d) ==
  /\ d.version \in {4, 6}
  /\ d.source \in Bytes /\ Length(d.source) = Size(d.version)
  /\ d.destination \in Bytes /\ Length(d.destination) = Size(d.version)
  /\ d.sourcePort \in Words
  /\ d.destinationPort \in Words
  /\ d.payload \in Bytes
  /\ d.checked \in BOOLEAN
  /\ Link!UdpHeaderLength + Length(d.payload) < Link!WordValues

LEMMA SmallBytes ==
  /\ \A n \in 0 .. 96 : n \in Link!Byte
  /\ Link!UDP \in Link!Byte
  /\ {8, 134, 221} \subseteq Link!Byte
  <1>1. Link!Byte = 0 .. 255
    BY LinkBase
  <1> QED BY <1>1, SMT DEF Link!UDP

LEMMA LowTyped ==
  ASSUME NEW n \in Nat
  PROVE  Link!Low(n) \in Link!Byte /\ Link!Rest(n) \in Nat
  <1>1. ByteValues \in Nat /\ ByteValues > 1
    BY Bases
  <1>2. n % ByteValues \in 0 .. (ByteValues - 1)
    BY <1>1
  <1>3. n \div ByteValues \in Nat
    BY <1>1, Z3
  <1> QED BY <1>2, <1>3 DEF Link!Low, Link!Rest, Link!Byte

LEMMA FourBytes ==
  ASSUME NEW n \in Nat
  PROVE  Link!U32Bytes(n) \in Bytes /\ Length(Link!U32Bytes(n)) = 4
  <1> DEFINE a == Link!Low(Link!Rest(Link!Rest(Link!Rest(n))))
             b == Link!Low(Link!Rest(Link!Rest(n)))
             c == Link!Low(Link!Rest(n))
             d == Link!Low(n)
  <1>1. a \in Link!Byte /\ b \in Link!Byte /\ c \in Link!Byte /\ d \in Link!Byte
    BY LowTyped
  <1>2. Link!U32Bytes(n) = <<a, b, c, d>>
    BY DEF Link!U32Bytes
  <1> HIDE DEF a, b, c, d
  <1> QED BY <1>1, <1>2 DEF Bytes, Length

\* The pseudo header has whole words.
LEMMA PseudoHeaderTyped ==
  ASSUME NEW version \in {4, 6}, NEW source \in Bytes, NEW destination \in Bytes,
         Length(source) = Size(version), Length(destination) = Size(version),
         NEW length \in Words
  PROVE  LET p == Link!PseudoHeader(version, source, destination, length)
         IN  p \in Bytes /\ Length(p) \in {12, 40}
  <1> DEFINE p == Link!PseudoHeader(version, source, destination, length)
             both == Cat(source, destination)
  <1>1. both \in Bytes /\ Length(both) = Size(version) + Size(version)
    BY Joins DEF IsJoined
  <1> HIDE DEF both
  <1>2. CASE version = 4
    <2> DEFINE zero == <<0, Link!UDP>>
               last == Link!U16Bytes(length)
    <2>1. zero \in Bytes /\ Length(zero) = 2
      BY SmallBytes, ZeroByte DEF Bytes, Length
    <2>2. last \in Bytes /\ Length(last) = 2
      BY TwoBytes
    <2> HIDE DEF zero, last
    <2>3. Length(both) = 8
      BY <1>1, <1>2 DEF Size
    <2>4. Cat(both, zero) \in Bytes /\ Length(Cat(both, zero)) = 10
      <3>1. IsJoined(Cat(both, zero), both, zero)
        BY <1>1, <2>1, Joins
      <3> QED BY <2>1, <2>3, <3>1 DEF IsJoined
    <2>5. Cat(Cat(both, zero), last) \in Bytes /\ Length(Cat(Cat(both, zero), last)) = 12
      <3>1. IsJoined(Cat(Cat(both, zero), last), Cat(both, zero), last)
        BY <2>2, <2>4, Joins
      <3> QED BY <2>2, <2>4, <3>1 DEF IsJoined
    <2>6. p = Cat(Cat(both, zero), last)
      BY <1>2 DEF Link!PseudoHeader, both, zero, last, Cat
    <2> QED BY <2>5, <2>6
  <1>3. CASE version = 6
    <2> DEFINE zero == <<0, 0, 0, Link!UDP>>
               size == Link!U32Bytes(length)
    <2>1. zero \in Bytes /\ Length(zero) = 4
      BY SmallBytes, ZeroByte DEF Bytes, Length
    <2>2. size \in Bytes /\ Length(size) = 4
      BY FourBytes DEF Words
    <2> HIDE DEF zero, size
    <2>3. Length(both) = 32
      BY <1>1, <1>3 DEF Size
    <2>4. Cat(both, size) \in Bytes /\ Length(Cat(both, size)) = 36
      <3>1. IsJoined(Cat(both, size), both, size)
        BY <1>1, <2>2, Joins
      <3> QED BY <2>2, <2>3, <3>1 DEF IsJoined
    <2>5. Cat(Cat(both, size), zero) \in Bytes /\ Length(Cat(Cat(both, size), zero)) = 40
      <3>1. IsJoined(Cat(Cat(both, size), zero), Cat(both, size), zero)
        BY <2>1, <2>4, Joins
      <3> QED BY <2>1, <2>4, <3>1 DEF IsJoined
    <2>6. p = Cat(Cat(both, size), zero)
      BY <1>3 DEF Link!PseudoHeader, both, zero, size, Cat
    <2> QED BY <2>5, <2>6
  <1> QED BY <1>2, <1>3

\* Four words in front of the rest, one behind the other.
Joined4(a, b, c, d, rest) == Cat(Cat(Cat(Cat(a, b), c), d), rest)

IsJoined4(q, a, b, c, d, rest) ==
  /\ q \in Bytes /\ Length(rest) \in Nat /\ Length(q) = 8 + Length(rest)
  /\ At(q, 1) = At(a, 1) /\ At(q, 2) = At(a, 2)
  /\ At(q, 3) = At(b, 1) /\ At(q, 4) = At(b, 2)
  /\ At(q, 5) = At(c, 1) /\ At(q, 6) = At(c, 2)
  /\ At(q, 7) = At(d, 1) /\ At(q, 8) = At(d, 2)
  /\ \A k \in 1 .. Length(rest) : At(q, 8 + k) = At(rest, k)
  /\ Cut(q, 9, Length(q)) = rest

\* The four words of a UDP header lie where they were written.
LEMMA FourWords ==
  ASSUME NEW a \in Bytes, NEW b \in Bytes, NEW c \in Bytes, NEW d \in Bytes, NEW rest \in Bytes,
         Length(a) = 2, Length(b) = 2, Length(c) = 2, Length(d) = 2,
         NEW q, q = Joined4(a, b, c, d, rest)
  PROVE  IsJoined4(q, a, b, c, d, rest)
  <1> DEFINE ab == Cat(a, b)
             abc == Cat(ab, c)
             abcd == Cat(abc, d)
  <1>1. q = Cat(abcd, rest)
    BY DEF Joined4
  <1> HIDE DEF ab, abc, abcd
  <1>2. /\ ab \in Bytes /\ Length(ab) = 4
        /\ At(ab, 1) = At(a, 1) /\ At(ab, 2) = At(a, 2)
        /\ At(ab, 3) = At(b, 1) /\ At(ab, 4) = At(b, 2)
    <2>1. IsJoined(ab, a, b)
      BY Joins DEF ab
    <2> QED BY <2>1 DEF IsJoined
  <1>3. /\ abc \in Bytes /\ Length(abc) = 6
        /\ At(abc, 1) = At(a, 1) /\ At(abc, 2) = At(a, 2)
        /\ At(abc, 3) = At(b, 1) /\ At(abc, 4) = At(b, 2)
        /\ At(abc, 5) = At(c, 1) /\ At(abc, 6) = At(c, 2)
    <2>1. IsJoined(abc, ab, c)
      BY <1>2, Joins DEF abc
    <2> QED BY <1>2, <2>1 DEF IsJoined
  <1>4. /\ abcd \in Bytes /\ Length(abcd) = 8
        /\ At(abcd, 1) = At(a, 1) /\ At(abcd, 2) = At(a, 2)
        /\ At(abcd, 3) = At(b, 1) /\ At(abcd, 4) = At(b, 2)
        /\ At(abcd, 5) = At(c, 1) /\ At(abcd, 6) = At(c, 2)
        /\ At(abcd, 7) = At(d, 1) /\ At(abcd, 8) = At(d, 2)
    <2>1. IsJoined(abcd, abc, d)
      BY <1>3, Joins DEF abcd
    <2> QED BY <1>3, <2>1 DEF IsJoined
  <1>5. IsJoined(q, abcd, rest)
    BY <1>1, <1>4, Joins
  <1> QED BY <1>4, <1>5 DEF IsJoined, IsJoined4

\* Two bytes that are cut out, read as a word.
LEMMA WordRead ==
  ASSUME NEW q \in Bytes, NEW a \in Nat, a >= 1, NEW b, b = a + 1, b <= Length(q)
  PROVE  /\ Link!U16(Cut(q, a, b)) = At(q, a) * ByteValues + At(q, b)
         /\ Cut(q, a, b) \in Bytes
         /\ Length(Cut(q, a, b)) = 2
         /\ At(Cut(q, a, b), 1) = At(q, a) /\ At(Cut(q, a, b), 2) = At(q, b)
  <1>1. /\ Cut(q, a, b) \in Bytes /\ Length(Cut(q, a, b)) = 2
        /\ \A k \in 1 .. 2 : At(Cut(q, a, b), k) = At(q, a + k - 1)
    <2>1. IsCut(Cut(q, a, b), q, a, b)
      BY CutIs
    <2>2. b + 1 - a = 2
      OBVIOUS
    <2> QED BY <2>1, <2>2 DEF IsCut
  <1>2. At(Cut(q, a, b), 1) = At(q, a) /\ At(Cut(q, a, b), 2) = At(q, b)
    <2>1. 1 \in 1 .. 2 /\ 2 \in 1 .. 2 /\ a + 1 - 1 = a /\ a + 2 - 1 = b
      OBVIOUS
    <2> QED BY <1>1, <2>1
  <1> QED BY <1>1, <1>2, AsWord

\* All of it.
LEMMA CutAll ==
  ASSUME NEW q \in Bytes
  PROVE  Cut(q, 1, Length(q)) = q
  <1>1. Length(q) \in Nat /\ 1 \in Nat /\ 1 <= Length(q) + 1 /\ Length(q) + 1 - 1 = Length(q)
    BY LengthIsNat
  <1>2. /\ Cut(q, 1, Length(q)) \in Bytes
        /\ Length(Cut(q, 1, Length(q))) = Length(q)
        /\ \A k \in 1 .. Length(q) : At(Cut(q, 1, Length(q)), k) = At(q, 1 + k - 1)
    <2>1. IsCut(Cut(q, 1, Length(q)), q, 1, Length(q))
      BY <1>1, CutIs
    <2> QED BY <1>1, <2>1 DEF IsCut
  <1>3. \A k \in 1 .. Length(q) : 1 + k - 1 = k
    BY <1>1
  <1> QED BY <1>2, <1>3, SameBytes

\* A datagram as its header and its payload, whatever the checksum.
WithChecksum(d, checksum) ==
  Joined4(Link!U16Bytes(d.sourcePort), Link!U16Bytes(d.destinationPort),
          Link!U16Bytes(Link!UdpHeaderLength + Length(d.payload)), checksum, d.payload)

\* The fields of a UDP header and the payload are read as they were given, and the
\* checksum changes no other byte.
LEMMA HeaderComesBack ==
  ASSUME NEW d, IsGiven(d), NEW checksum \in Bytes, Length(checksum) = 2,
         NEW u, u = WithChecksum(d, checksum)
  PROVE  /\ u \in Bytes /\ Length(u) = 8 + Length(d.payload)
         /\ Length(d.payload) \in Nat /\ Length(u) \in Words
         /\ Link!U16(u) = d.sourcePort
         /\ Link!U16(Cut(u, 3, Length(u))) = d.destinationPort
         /\ Link!U16(Cut(u, 5, 6)) = Length(u)
         /\ Cut(u, 7, 8) = checksum
         /\ Cut(u, 9, Length(u)) = d.payload
         /\ At(u, 7) = At(checksum, 1) /\ At(u, 8) = At(checksum, 2)
         /\ \A k \in 1 .. Length(u) :
               k # 7 /\ k # 8 =>
                  \A other \in Bytes :
                     Length(other) = 2 => At(WithChecksum(d, other), k) = At(u, k)
  <1> DEFINE a == Link!U16Bytes(d.sourcePort)
             b == Link!U16Bytes(d.destinationPort)
             c == Link!U16Bytes(Link!UdpHeaderLength + Length(d.payload))
  <1>1. /\ d.sourcePort \in Words /\ d.destinationPort \in Words /\ d.payload \in Bytes
        /\ Link!UdpHeaderLength + Length(d.payload) < Link!WordValues
        /\ Link!UdpHeaderLength = 8 /\ Length(d.payload) \in Nat
    BY LengthIsNat DEF IsGiven, Link!UdpHeaderLength
  <1>2. 8 + Length(d.payload) \in Words
    BY <1>1, Bases DEF Words
  <1>3. /\ a \in Bytes /\ Length(a) = 2 /\ At(a, 1) * ByteValues + At(a, 2) = d.sourcePort
        /\ b \in Bytes /\ Length(b) = 2 /\ At(b, 1) * ByteValues + At(b, 2) = d.destinationPort
        /\ c \in Bytes /\ Length(c) = 2
        /\ At(c, 1) * ByteValues + At(c, 2) = 8 + Length(d.payload)
    BY <1>1, <1>2, TwoBytes
  <1>4. \A other : WithChecksum(d, other) = Joined4(a, b, c, other, d.payload)
    BY DEF WithChecksum
  <1> HIDE DEF a, b, c
  <1>5. u = Joined4(a, b, c, checksum, d.payload)
    BY <1>4
  <1>6. /\ u \in Bytes /\ Length(u) = 8 + Length(d.payload)
        /\ At(u, 1) = At(a, 1) /\ At(u, 2) = At(a, 2)
        /\ At(u, 3) = At(b, 1) /\ At(u, 4) = At(b, 2)
        /\ At(u, 5) = At(c, 1) /\ At(u, 6) = At(c, 2)
        /\ At(u, 7) = At(checksum, 1) /\ At(u, 8) = At(checksum, 2)
        /\ \A k \in 1 .. Length(d.payload) : At(u, 8 + k) = At(d.payload, k)
        /\ Cut(u, 9, Length(u)) = d.payload
    <2>1. IsJoined4(u, a, b, c, checksum, d.payload)
      BY <1>1, <1>3, <1>5, FourWords
    <2> QED BY <2>1 DEF IsJoined4
  <1>7. Length(u) \in Nat /\ Length(u) >= 8
    BY <1>1, <1>6
  <1>8. Link!U16(u) = d.sourcePort
    BY <1>3, <1>6, AsWord
  <1>9. Link!U16(Cut(u, 3, Length(u))) = d.destinationPort
    <2>1. \A k \in 1 .. (Length(u) + 1 - 3) : At(Cut(u, 3, Length(u)), k) = At(u, 3 + k - 1)
      <3>1. IsCut(Cut(u, 3, Length(u)), u, 3, Length(u))
        BY <1>6, <1>7, CutIs
      <3> QED BY <3>1 DEF IsCut
    <2>2. 1 \in 1 .. (Length(u) + 1 - 3) /\ 2 \in 1 .. (Length(u) + 1 - 3)
          /\ 3 + 1 - 1 = 3 /\ 3 + 2 - 1 = 4
      BY <1>7
    <2>3. At(Cut(u, 3, Length(u)), 1) = At(u, 3) /\ At(Cut(u, 3, Length(u)), 2) = At(u, 4)
      BY <2>1, <2>2
    <2> QED BY <1>3, <1>6, <2>3, AsWord
  <1>10. Link!U16(Cut(u, 5, 6)) = Length(u)
    <2>1. Link!U16(Cut(u, 5, 6)) = At(u, 5) * ByteValues + At(u, 6)
      BY <1>6, <1>7, WordRead
    <2> QED BY <1>3, <1>6, <2>1
  <1>11. Cut(u, 7, 8) = checksum
    <2>1. /\ Cut(u, 7, 8) \in Bytes /\ Length(Cut(u, 7, 8)) = 2
          /\ At(Cut(u, 7, 8), 1) = At(u, 7) /\ At(Cut(u, 7, 8), 2) = At(u, 8)
      BY <1>6, <1>7, WordRead
    <2>2. \A k \in 1 .. 2 : At(Cut(u, 7, 8), k) = At(checksum, k)
      BY <1>6, <2>1
    <2> QED BY <2>1, <2>2, SameBytes
  <1>12. ASSUME NEW k \in 1 .. Length(u), k # 7, k # 8, NEW other \in Bytes, Length(other) = 2
         PROVE  At(WithChecksum(d, other), k) = At(u, k)
    <2> DEFINE v == WithChecksum(d, other)
    <2>1. v = Joined4(a, b, c, other, d.payload)
      BY <1>4
    <2> HIDE DEF v
    <2>2. /\ At(v, 1) = At(a, 1) /\ At(v, 2) = At(a, 2)
          /\ At(v, 3) = At(b, 1) /\ At(v, 4) = At(b, 2)
          /\ At(v, 5) = At(c, 1) /\ At(v, 6) = At(c, 2)
          /\ \A i \in 1 .. Length(d.payload) : At(v, 8 + i) = At(d.payload, i)
      <3>1. IsJoined4(v, a, b, c, other, d.payload)
        BY <1>1, <1>3, <1>12, <2>1, FourWords
      <3> QED BY <3>1 DEF IsJoined4
    <2>3. CASE k > 8
      <3>1. k - 8 \in 1 .. Length(d.payload) /\ 8 + (k - 8) = k
        BY <1>1, <1>6, <2>3
      <3>2. At(v, 8 + (k - 8)) = At(d.payload, k - 8) /\ At(u, 8 + (k - 8)) = At(d.payload, k - 8)
        BY <1>6, <2>2, <3>1
      <3> QED BY <3>1, <3>2 DEF v
    <2>4. CASE ~ (k > 8)
      <3>1. k = 1 \/ k = 2 \/ k = 3 \/ k = 4 \/ k = 5 \/ k = 6
        BY <1>7, <1>12, <2>4
      <3> QED BY <1>6, <2>2, <3>1 DEF v
    <2> QED BY <2>3, <2>4
  <1> QED BY <1>1, <1>2, <1>6, <1>8, <1>9, <1>10, <1>11, <1>12

\* Bytes that carry the checksum of themselves with a zero in its place are whole, also
\* when a checksum of zero is sent as all ones.
LEMMA WholeWith ==
  ASSUME NEW s \in Bytes, NEW t \in Bytes, Length(t) = Length(s),
         NEW j \in Nat, j >= 1, 2 * j <= Length(s),
         At(s, 2 * j - 1) = 0, At(s, 2 * j) = 0,
         \A k \in 1 .. Length(s) : k # 2 * j - 1 /\ k # 2 * j => At(t, k) = At(s, k),
         NEW c \in Words, At(t, 2 * j - 1) * ByteValues + At(t, 2 * j) = c,
         \/ c = Link!Complement(Link!OnesSum(s))
         \/ c = Link!WordValues - 1 /\ Link!Complement(Link!OnesSum(s)) = 0
  PROVE  Link!IsWhole(t)
  <1>1. Len(t) = Len(s) /\ Len(s) \in Nat /\ 2 * j <= Len(s) /\ j \in 1 .. WordCount(s)
    <2>1. Length(s) \in Nat
      BY LengthIsNat
    <2>2. Len(t) = Len(s) /\ Len(s) \in Nat /\ 2 * j <= Len(s)
      BY <2>1 DEF Length
    <2> QED BY <2>2 DEF WordCount
  <1>2. s[2 * j - 1] = 0 /\ s[2 * j] = 0
    BY DEF At
  <1>3. \A k \in 1 .. Len(s) : k # 2 * j - 1 /\ k # 2 * j => t[k] = s[k]
    BY DEF At, Length
  <1>4. WordAt(t, j) = c
    BY <1>1 DEF WordAt, At
  <1> QED BY <1>1, <1>2, <1>3, <1>4, ChecksumMakesWhole

\* The parser of a datagram, in these terms.
UdpRead(version, source, destination, u) ==
  LET size == Link!U16(Cut(u, 5, 6))
      datagram == Cut(u, 1, size)
      pseudo == Link!PseudoHeader(version, source, destination, Length(datagram))
      undamaged == IF Cut(datagram, 7, 8) = <<0, 0>> THEN version = 4
                   ELSE Link!IsWhole(Cat(pseudo, datagram))
  IN  IF ~ (Length(u) >= 8 /\ size >= 8 /\ Length(u) >= size) THEN Link!Nothing
      ELSE IF ~ undamaged THEN Link!Nothing
      ELSE [version |-> version, source |-> source, destination |-> destination,
            sourcePort |-> Link!U16(datagram),
            destinationPort |-> Link!U16(Cut(datagram, 3, Length(datagram))),
            payload |-> Cut(datagram, 8 + 1, Length(datagram))]

LEMMA UdpInIsRead ==
  ASSUME NEW version, NEW source, NEW destination, NEW u
  PROVE  Link!UdpIn(version, source, destination, u) = UdpRead(version, source, destination, u)
  BY DEF Link!UdpIn, Link!IsUdp, Link!UdpLength, Link!UdpHeaderLength, Link!UdpChecksumIn,
         Link!IsUndamaged, Link!Leading, Link!From, UdpRead, Cut, Cat, Length

\* What a sender's sum over the pseudo header and the datagram becomes.
LEMMA DatagramIsWhole ==
  ASSUME NEW d, IsGiven(d), NEW c \in Words,
         NEW pseudo \in Bytes, Length(pseudo) \in {12, 40},
         LET sum == Link!OnesSum(Cat(pseudo, WithChecksum(d, <<0, 0>>)))
         IN  \/ c = Link!Complement(sum)
             \/ c = Link!WordValues - 1 /\ Link!Complement(sum) = 0
  PROVE  Link!IsWhole(Cat(pseudo, WithChecksum(d, Link!U16Bytes(c))))
  <1> DEFINE zero == <<0, 0>>
             filled == Link!U16Bytes(c)
             x == WithChecksum(d, zero)
             u == WithChecksum(d, filled)
             s == Cat(pseudo, x)
             t == Cat(pseudo, u)
             P == Length(pseudo)
  <1>1. zero \in Bytes /\ Length(zero) = 2 /\ At(zero, 1) = 0 /\ At(zero, 2) = 0
    BY ZeroByte DEF Bytes, Length, At
  <1>2. /\ filled \in Bytes /\ Length(filled) = 2
        /\ At(filled, 1) * ByteValues + At(filled, 2) = c
    BY TwoBytes
  <1> HIDE DEF zero, filled
  <1>3. /\ x \in Bytes /\ Length(d.payload) \in Nat /\ Length(x) = 8 + Length(d.payload)
        /\ At(x, 7) = 0 /\ At(x, 8) = 0
        /\ \A k \in 1 .. Length(x) :
               k # 7 /\ k # 8 =>
                  \A other \in Bytes :
                     Length(other) = 2 => At(WithChecksum(d, other), k) = At(x, k)
    BY <1>1, HeaderComesBack
  <1>4. /\ u \in Bytes /\ Length(u) = 8 + Length(d.payload)
        /\ At(u, 7) = At(filled, 1) /\ At(u, 8) = At(filled, 2)
    BY <1>2, HeaderComesBack
  <1>5. \A k \in 1 .. Length(x) : k # 7 /\ k # 8 => At(u, k) = At(x, k)
    BY <1>2, <1>3
  <1> HIDE DEF x, u
  <1>6. IsJoined(s, pseudo, x) /\ IsJoined(t, pseudo, u)
    BY <1>3, <1>4, Joins
  <1> HIDE DEF s, t
  <1>7. /\ P \in Nat /\ s \in Bytes /\ t \in Bytes
        /\ Length(s) = P + 8 + Length(d.payload) /\ Length(t) = Length(s)
        /\ \A k \in 1 .. P : At(s, k) = At(pseudo, k) /\ At(t, k) = At(pseudo, k)
        /\ \A k \in 1 .. Length(x) : At(s, P + k) = At(x, k) /\ At(t, P + k) = At(u, k)
    BY <1>3, <1>4, <1>6 DEF IsJoined
  <1>8. PICK j \in Nat : j >= 1 /\ 2 * j = P + 8
    <2>1. CASE P = 12
      <3>1. 10 \in Nat /\ 10 >= 1 /\ 2 * 10 = P + 8
        BY <2>1
      <3> QED BY <3>1
    <2>2. CASE P = 40
      <3>1. 24 \in Nat /\ 24 >= 1 /\ 2 * 24 = P + 8
        BY <2>2
      <3> QED BY <3>1
    <2> QED BY <2>1, <2>2
  <1>9. 2 * j - 1 = P + 7
    BY <1>7, <1>8
  <1>10. 2 * j <= Length(s)
    BY <1>3, <1>7, <1>8
  <1>11. 7 \in 1 .. Length(x) /\ 8 \in 1 .. Length(x)
    BY <1>3
  <1>12. At(s, 2 * j - 1) = 0 /\ At(s, 2 * j) = 0
    BY <1>3, <1>7, <1>8, <1>9, <1>11
  <1>13. At(t, 2 * j - 1) * ByteValues + At(t, 2 * j) = c
    BY <1>2, <1>4, <1>7, <1>8, <1>9, <1>11
  <1>14. ASSUME NEW k \in 1 .. Length(s), k # 2 * j - 1, k # 2 * j
         PROVE  At(t, k) = At(s, k)
    <2>1. CASE k <= P
      <3>1. k \in 1 .. P
        BY <1>7, <2>1
      <3> QED BY <1>7, <3>1
    <2>2. CASE ~ (k <= P)
      <3>1. k - P \in 1 .. Length(x) /\ k - P # 7 /\ k - P # 8 /\ P + (k - P) = k
        BY <1>3, <1>7, <1>8, <1>9, <1>14, <2>2
      <3>2. At(s, P + (k - P)) = At(x, k - P) /\ At(t, P + (k - P)) = At(u, k - P)
            /\ At(u, k - P) = At(x, k - P)
        BY <1>5, <1>7, <3>1
      <3> QED BY <3>1, <3>2
    <2> QED BY <2>1, <2>2
  <1>15. \/ c = Link!Complement(Link!OnesSum(s))
         \/ c = Link!WordValues - 1 /\ Link!Complement(Link!OnesSum(s)) = 0
    BY DEF s, x, zero
  <1>16. Link!IsWhole(t)
    BY <1>7, <1>8, <1>10, <1>12, <1>13, <1>14, <1>15, WholeWith
  <1> QED BY <1>16 DEF t, u, filled

\* Addresses, ports and payload come back out of a datagram as they were given.
LEMMA UdpComesBack ==
  ASSUME NEW d, IsGiven(d), d.version = 6 => d.checked
  PROVE  /\ Link!UdpBytes(d) \in Bytes
         /\ Length(Link!UdpBytes(d)) = 8 + Length(d.payload)
         /\ Length(d.payload) \in Nat
         /\ Length(Link!UdpBytes(d)) \in Words
         /\ Link!UdpIn(d.version, d.source, d.destination, Link!UdpBytes(d)) = Delivered(d)
  <1> DEFINE zero == <<0, 0>>
             x == WithChecksum(d, zero)
             c == Link!UdpChecksum(d, x)
             u == Link!UdpBytes(d)
             pseudo == Link!PseudoHeader(d.version, d.source, d.destination, Length(x))
  <1>1. zero \in Bytes /\ Length(zero) = 2 /\ At(zero, 1) = 0 /\ At(zero, 2) = 0
    BY ZeroByte DEF Bytes, Length, At
  <1>2. u = IF d.checked THEN WithChecksum(d, Link!U16Bytes(c)) ELSE x
    BY DEF Link!UdpBytes, WithChecksum, Joined4, Cat, Length
  <1>3. /\ c = IF Link!Complement(Link!OnesSum(Cat(pseudo, x))) = 0 THEN Link!WordValues - 1
               ELSE Link!Complement(Link!OnesSum(Cat(pseudo, x)))
    BY DEF Link!UdpChecksum, Cat, Length
  <1> HIDE DEF c, u
  <1>4. /\ x \in Bytes /\ Length(x) = 8 + Length(d.payload) /\ Length(x) \in Words
    BY <1>1, HeaderComesBack
  <1>5. pseudo \in Bytes /\ Length(pseudo) \in {12, 40}
    <2>1. /\ d.version \in {4, 6} /\ d.source \in Bytes /\ d.destination \in Bytes
          /\ Length(d.source) = Size(d.version) /\ Length(d.destination) = Size(d.version)
      BY DEF IsGiven
    <2> HIDE DEF x
    <2> QED BY <1>4, <2>1, PseudoHeaderTyped
  <1>6. c \in Words /\ c # 0
    <2> HIDE DEF pseudo, x
    <2>1. IsJoined(Cat(pseudo, x), pseudo, x)
      BY <1>4, <1>5, Joins
    <2>2. Cat(pseudo, x) \in Bytes
      BY <2>1 DEF IsJoined
    <2>3. Link!OnesSum(Cat(pseudo, x)) \in Words
      BY <2>2, SumIsWord
    <2>4. Link!Complement(Link!OnesSum(Cat(pseudo, x))) \in Words /\ Link!WordValues - 1 \in Words
      BY <2>3, PlusLimits
    <2>5. Link!WordValues - 1 # 0
      BY Bases
    <2> QED BY <1>3, <2>4, <2>5
  <1> HIDE DEF zero
  <1> DEFINE checksum == IF d.checked THEN Link!U16Bytes(c) ELSE zero
  <1>7. checksum \in Bytes /\ Length(checksum) = 2
    BY <1>1, <1>6, TwoBytes
  <1>8. u = WithChecksum(d, checksum)
    BY <1>2
  <1>9. checksum = zero => ~ d.checked
    <2>1. SUFFICES ASSUME d.checked, checksum = zero PROVE FALSE
      OBVIOUS
    <2>2. At(Link!U16Bytes(c), 1) * ByteValues + At(Link!U16Bytes(c), 2) = c
      BY <1>6, TwoBytes
    <2>3. Link!U16Bytes(c) = zero
      BY <2>1
    <2>4. 0 * ByteValues + 0 = c
      BY <1>1, <2>2, <2>3
    <2> QED BY <1>6, <2>4, Bases
  <1>10. d.checked => Link!IsWhole(Cat(pseudo, u))
    <2>1. SUFFICES ASSUME d.checked PROVE Link!IsWhole(Cat(pseudo, u))
      OBVIOUS
    <2>2. u = WithChecksum(d, Link!U16Bytes(c))
      BY <1>2, <2>1
    <2>3. \/ c = Link!Complement(Link!OnesSum(Cat(pseudo, WithChecksum(d, <<0, 0>>))))
          \/ /\ c = Link!WordValues - 1
             /\ Link!Complement(Link!OnesSum(Cat(pseudo, WithChecksum(d, <<0, 0>>)))) = 0
      BY <1>3 DEF zero
    <2> HIDE DEF pseudo
    <2>4. Link!IsWhole(Cat(pseudo, WithChecksum(d, Link!U16Bytes(c))))
      BY <1>5, <1>6, <2>3, DatagramIsWhole
    <2> QED BY <2>2, <2>4
  <1> HIDE DEF checksum, x
  <1>11. /\ u \in Bytes /\ Length(u) = 8 + Length(d.payload)
         /\ Length(d.payload) \in Nat /\ Length(u) \in Words
         /\ Link!U16(u) = d.sourcePort
         /\ Link!U16(Cut(u, 3, Length(u))) = d.destinationPort
         /\ Link!U16(Cut(u, 5, 6)) = Length(u)
         /\ Cut(u, 7, 8) = checksum
         /\ Cut(u, 9, Length(u)) = d.payload
    BY <1>7, <1>8, HeaderComesBack
  <1>12. Cut(u, 1, Length(u)) = u
    BY <1>11, CutAll
  <1>13. Length(u) = Length(x) /\ Length(u) >= 8 /\ Length(u) \in Nat
    BY <1>4, <1>11
  <1>14. IF Cut(u, 7, 8) = zero THEN d.version = 4
         ELSE Link!IsWhole(Cat(Link!PseudoHeader(d.version, d.source, d.destination,
                                                 Length(u)), u))
    <2>1. CASE checksum = zero
      <3>1. d.version = 4
        BY <1>9, <2>1 DEF IsGiven
      <3> QED BY <1>11, <2>1, <3>1
    <2>2. CASE checksum # zero
      <3>1. d.checked
        BY <2>2 DEF checksum, IsGiven
      <3> QED BY <1>10, <1>11, <1>13, <2>2, <3>1
    <2> QED BY <2>1, <2>2
  <1>15. UdpRead(d.version, d.source, d.destination, u)
            = [version |-> d.version, source |-> d.source, destination |-> d.destination,
               sourcePort |-> d.sourcePort, destinationPort |-> d.destinationPort,
               payload |-> d.payload]
    <2>1. 8 + 1 = 9 /\ Length(u) >= Length(u)
      BY <1>13
    <2> QED BY <1>11, <1>12, <1>13, <1>14, <2>1 DEF UdpRead, zero
  <1>16. Link!UdpIn(d.version, d.source, d.destination, u) = Delivered(d)
    BY <1>15, UdpInIsRead DEF Delivered
  <1> QED BY <1>11, <1>16 DEF u

-----------------------------------------------------------------------------
(* IPv4 *)

\* Bytes found behind a position are what is cut out there.
LEMMA CutFound ==
  ASSUME NEW q \in Bytes, NEW part \in Bytes, NEW a \in Nat, a + Length(part) <= Length(q),
         \A k \in 1 .. Length(part) : At(q, a + k) = At(part, k)
  PROVE  Cut(q, a + 1, a + Length(part)) = part
  BY PieceIs DEF Bytes, Length, At, Cut

\* What the builders of IPv4 are given besides.
IsGiven4(d) ==
  /\ IsGiven(d)
  /\ d.version = 4
  /\ d.fragment \in Words
  /\ d.options \in Bytes /\ Length(d.options) <= 40 /\ Length(d.options) % 4 = 0

Before4(d, total) ==
  Joined4(<<64 + ((Link!Ipv4HeaderLength + Length(d.options)) \div 4), 0>>,
          Link!U16Bytes(total), <<0, 0>>, Link!U16Bytes(d.fragment), <<64, Link!UDP>>)

After4(d) == Cat(Cat(d.source, d.destination), d.options)

Head4(d, total, checksum) == Cat(Cat(Before4(d, total), checksum), After4(d))

IsHead4(h, d, total, checksum) ==
  /\ h \in Bytes /\ Length(h) = 20 + Length(d.options) /\ Length(d.options) \in Nat
  /\ At(h, 1) = 64 + ((20 + Length(d.options)) \div 4)
  /\ At(h, 3) * ByteValues + At(h, 4) = total
  /\ At(h, 7) * ByteValues + At(h, 8) = d.fragment
  /\ At(h, 10) = Link!UDP
  /\ At(h, 11) = At(checksum, 1) /\ At(h, 12) = At(checksum, 2)
  /\ \A k \in 1 .. 4 : At(h, 12 + k) = At(d.source, k)
  /\ \A k \in 1 .. 4 : At(h, 16 + k) = At(d.destination, k)

\* The IPv4 header before its checksum,
LEMMA Before4Is ==
  ASSUME NEW d, IsGiven4(d), NEW total \in Words
  PROVE  LET b == Before4(d, total)
         IN  /\ b \in Bytes /\ Length(b) = 10 /\ Length(d.options) \in Nat
             /\ At(b, 1) = 64 + ((20 + Length(d.options)) \div 4)
             /\ At(b, 3) * ByteValues + At(b, 4) = total
             /\ At(b, 7) * ByteValues + At(b, 8) = d.fragment
             /\ At(b, 10) = Link!UDP
  <1> DEFINE v == 64 + ((20 + Length(d.options)) \div 4)
             first == <<v, 0>>
             zero == <<0, 0>>
             last == <<64, Link!UDP>>
             size == Link!U16Bytes(total)
             fragment == Link!U16Bytes(d.fragment)
             b == Before4(d, total)
  <1>1. Length(d.options) \in Nat /\ Length(d.options) <= 40 /\ d.fragment \in Words
    BY LengthIsNat DEF IsGiven4
  <1>2. v \in 0 .. 96
    BY <1>1
  <1> HIDE DEF v
  <1>3. v \in Link!Byte /\ 64 \in Link!Byte /\ Link!UDP \in Link!Byte /\ 0 \in Link!Byte
    BY <1>2, SmallBytes
  <1>4. /\ first \in Bytes /\ Length(first) = 2 /\ At(first, 1) = v
        /\ zero \in Bytes /\ Length(zero) = 2
        /\ last \in Bytes /\ Length(last) = 2 /\ At(last, 2) = Link!UDP
    BY <1>3 DEF Bytes, Length, At
  <1>5. /\ size \in Bytes /\ Length(size) = 2 /\ At(size, 1) * ByteValues + At(size, 2) = total
        /\ fragment \in Bytes /\ Length(fragment) = 2
        /\ At(fragment, 1) * ByteValues + At(fragment, 2) = d.fragment
    BY <1>1, TwoBytes
  <1>6. b = Joined4(first, size, zero, fragment, last)
    BY DEF Before4, Link!Ipv4HeaderLength, v
  <1> HIDE DEF first, zero, last, size, fragment, b
  <1>7. IsJoined4(b, first, size, zero, fragment, last)
    BY <1>4, <1>5, <1>6, FourWords
  <1>8. At(b, 10) = Link!UDP
    <2>1. 2 \in 1 .. Length(last) /\ 8 + 2 = 10
      BY <1>4
    <2> QED BY <1>4, <1>7, <2>1 DEF IsJoined4
  <1> QED BY <1>1, <1>4, <1>5, <1>7, <1>8 DEF IsJoined4, b, v

\* what is behind it,
LEMMA After4Is ==
  ASSUME NEW d, IsGiven4(d)
  PROVE  LET a == After4(d)
         IN  /\ a \in Bytes /\ Length(a) = 8 + Length(d.options)
             /\ \A k \in 1 .. 4 : At(a, k) = At(d.source, k)
             /\ \A k \in 1 .. 4 : At(a, 4 + k) = At(d.destination, k)
  <1> DEFINE both == Cat(d.source, d.destination)
             a == After4(d)
  <1>1. /\ d.source \in Bytes /\ Length(d.source) = 4
        /\ d.destination \in Bytes /\ Length(d.destination) = 4
        /\ d.options \in Bytes
    BY DEF IsGiven4, IsGiven, Size
  <1>2. IsJoined(both, d.source, d.destination)
    BY <1>1, Joins
  <1>3. /\ both \in Bytes /\ Length(both) = 8
        /\ \A k \in 1 .. 4 : At(both, k) = At(d.source, k)
        /\ \A k \in 1 .. 4 : At(both, 4 + k) = At(d.destination, k)
    BY <1>1, <1>2 DEF IsJoined
  <1>4. a = Cat(both, d.options)
    BY DEF After4
  <1> HIDE DEF a, both
  <1>5. IsJoined(a, both, d.options)
    BY <1>1, <1>3, <1>4, Joins
  <1>6. /\ a \in Bytes /\ Length(a) = 8 + Length(d.options)
        /\ \A k \in 1 .. 8 : At(a, k) = At(both, k)
    BY <1>3, <1>5 DEF IsJoined
  <1> QED BY <1>3, <1>6 DEF a

\* and the header with any checksum.
LEMMA Head4Is ==
  ASSUME NEW d, IsGiven4(d), NEW total \in Words, NEW checksum \in Bytes, Length(checksum) = 2
  PROVE  /\ IsHead4(Head4(d, total, checksum), d, total, checksum)
         /\ \A k \in 1 .. (20 + Length(d.options)) :
               k # 11 /\ k # 12 =>
                  At(Head4(d, total, checksum), k)
                     = IF k <= 10 THEN At(Before4(d, total), k) ELSE At(After4(d), k - 12)
  <1> DEFINE b == Before4(d, total)
             a == After4(d)
             bc == Cat(b, checksum)
             h == Head4(d, total, checksum)
  <1>1. /\ b \in Bytes /\ Length(b) = 10 /\ Length(d.options) \in Nat
        /\ At(b, 1) = 64 + ((20 + Length(d.options)) \div 4)
        /\ At(b, 3) * ByteValues + At(b, 4) = total
        /\ At(b, 7) * ByteValues + At(b, 8) = d.fragment
        /\ At(b, 10) = Link!UDP
    BY Before4Is
  <1>2. /\ a \in Bytes /\ Length(a) = 8 + Length(d.options)
        /\ \A k \in 1 .. 4 : At(a, k) = At(d.source, k)
        /\ \A k \in 1 .. 4 : At(a, 4 + k) = At(d.destination, k)
    BY After4Is
  <1>3. h = Cat(bc, a)
    BY DEF Head4
  <1> HIDE DEF a, b, h
  <1>4. IsJoined(bc, b, checksum)
    BY <1>1, Joins
  <1> HIDE DEF bc
  <1>5. /\ bc \in Bytes /\ Length(bc) = 12
        /\ \A k \in 1 .. 10 : At(bc, k) = At(b, k)
        /\ At(bc, 11) = At(checksum, 1) /\ At(bc, 12) = At(checksum, 2)
    BY <1>1, <1>4 DEF IsJoined
  <1>6. IsJoined(h, bc, a)
    BY <1>2, <1>3, <1>5, Joins
  <1>7. /\ h \in Bytes /\ Length(h) = 20 + Length(d.options)
        /\ \A k \in 1 .. 12 : At(h, k) = At(bc, k)
        /\ \A k \in 1 .. Length(a) : At(h, 12 + k) = At(a, k)
    BY <1>1, <1>2, <1>5, <1>6 DEF IsJoined
  <1>8. /\ At(h, 1) = At(b, 1) /\ At(h, 3) = At(b, 3) /\ At(h, 4) = At(b, 4)
        /\ At(h, 7) = At(b, 7) /\ At(h, 8) = At(b, 8) /\ At(h, 10) = At(b, 10)
        /\ At(h, 11) = At(checksum, 1) /\ At(h, 12) = At(checksum, 2)
    BY <1>5, <1>7
  <1>9. \A k \in 1 .. 4 : At(h, 12 + k) = At(d.source, k)
    <2>1. \A k \in 1 .. 4 : k \in 1 .. Length(a)
      BY <1>1, <1>2
    <2> QED BY <1>2, <1>7, <2>1
  <1>10. \A k \in 1 .. 4 : At(h, 16 + k) = At(d.destination, k)
    <2>1. \A k \in 1 .. 4 : 4 + k \in 1 .. Length(a) /\ 12 + (4 + k) = 16 + k
      BY <1>1, <1>2
    <2> QED BY <1>2, <1>7, <2>1
  <1>11. ASSUME NEW k \in 1 .. (20 + Length(d.options)), k # 11, k # 12
         PROVE  At(h, k) = IF k <= 10 THEN At(b, k) ELSE At(a, k - 12)
    <2>1. CASE k <= 10
      <3>1. k \in 1 .. 10 /\ k \in 1 .. 12
        BY <1>1, <2>1
      <3> QED BY <1>5, <1>7, <2>1, <3>1
    <2>2. CASE ~ (k <= 10)
      <3>1. k - 12 \in 1 .. Length(a) /\ 12 + (k - 12) = k
        BY <1>1, <1>2, <1>11, <2>2
      <3>2. At(h, 12 + (k - 12)) = At(a, k - 12)
        BY <1>7, <3>1
      <3> QED BY <2>2, <3>1, <3>2
    <2> QED BY <2>1, <2>2
  <1>12. IsHead4(h, d, total, checksum)
    BY <1>1, <1>7, <1>8, <1>9, <1>10 DEF IsHead4
  <1> QED BY <1>11, <1>12 DEF h, a, b

\* The header with the checksum that the builder computes over it.
Checked4(d, total) ==
  Head4(d, total, Link!U16Bytes(Link!Complement(Link!OnesSum(Head4(d, total, <<0, 0>>)))))

\* The header that the builder writes is whole.
LEMMA Checked4Is ==
  ASSUME NEW d, IsGiven4(d), NEW total \in Words
  PROVE  /\ \E checksum : IsHead4(Checked4(d, total), d, total, checksum)
         /\ Link!IsWhole(Checked4(d, total))
  <1> DEFINE zero == <<0, 0>>
             s == Head4(d, total, zero)
             c == Link!Complement(Link!OnesSum(s))
             filled == Link!U16Bytes(c)
             t == Head4(d, total, filled)
  <1>1. zero \in Bytes /\ Length(zero) = 2 /\ At(zero, 1) = 0 /\ At(zero, 2) = 0
    BY ZeroByte DEF Bytes, Length, At
  <1> HIDE DEF zero
  <1>2. IsHead4(s, d, total, zero)
    BY <1>1, Head4Is
  <1>3. /\ s \in Bytes /\ Length(s) = 20 + Length(d.options) /\ Length(d.options) \in Nat
        /\ At(s, 11) = 0 /\ At(s, 12) = 0
    BY <1>1, <1>2 DEF IsHead4
  <1>4. c \in Words
    <2> HIDE DEF s
    <2> QED BY <1>3, SumIsWord, PlusLimits
  <1> HIDE DEF c
  <1>5. /\ filled \in Bytes /\ Length(filled) = 2
        /\ At(filled, 1) * ByteValues + At(filled, 2) = c
    BY <1>4, TwoBytes
  <1> HIDE DEF filled
  <1>6. IsHead4(t, d, total, filled)
    BY <1>5, Head4Is
  <1>7. /\ t \in Bytes /\ Length(t) = 20 + Length(d.options)
        /\ At(t, 11) = At(filled, 1) /\ At(t, 12) = At(filled, 2)
    BY <1>6 DEF IsHead4
  <1>8. ASSUME NEW k \in 1 .. Length(s), k # 11, k # 12 PROVE At(t, k) = At(s, k)
    <2>1. k \in 1 .. (20 + Length(d.options))
      BY <1>3
    <2>2. At(s, k) = IF k <= 10 THEN At(Before4(d, total), k) ELSE At(After4(d), k - 12)
      BY <1>1, <1>8, <2>1, Head4Is
    <2>3. At(t, k) = IF k <= 10 THEN At(Before4(d, total), k) ELSE At(After4(d), k - 12)
      BY <1>5, <1>8, <2>1, Head4Is
    <2> QED BY <2>2, <2>3
  <1> HIDE DEF s, t
  <1>9. Link!IsWhole(t)
    <2>1. /\ 6 \in Nat /\ 6 >= 1 /\ 2 * 6 <= Length(s) /\ 2 * 6 - 1 = 11 /\ 2 * 6 = 12
          /\ Length(t) = Length(s)
      BY <1>3, <1>7
    <2>2. At(s, 2 * 6 - 1) = 0 /\ At(s, 2 * 6) = 0
      BY <1>3, <2>1
    <2>3. \A k \in 1 .. Length(s) : k # 2 * 6 - 1 /\ k # 2 * 6 => At(t, k) = At(s, k)
      BY <1>8, <2>1
    <2>4. At(t, 2 * 6 - 1) * ByteValues + At(t, 2 * 6) = c
      BY <1>5, <1>7, <2>1
    <2>5. c = Link!Complement(Link!OnesSum(s))
      BY DEF c
    <2> QED BY <1>3, <1>4, <1>7, <2>1, <2>2, <2>3, <2>4, <2>5, WholeWith
  <1>10. t = Checked4(d, total)
    BY DEF Checked4, t, filled, c, s, zero
  <1> QED BY <1>6, <1>9, <1>10

\* The parser of an IPv4 packet, in these terms.
Ipv4Read(q) ==
  LET header == 4 * (At(q, 1) % 16)
      total == Link!U16(Cut(q, 3, 4))
  IN  IF ~ (/\ Length(q) >= 20
            /\ At(q, 1) \div 16 = 4
            /\ header >= 20
            /\ Length(q) >= header
            /\ total >= header
            /\ Length(q) >= total
            /\ Link!IsWhole(Cut(q, 1, header)))
      THEN Link!Nothing
      ELSE IF \/ At(q, 10) # Link!UDP
              \/ Link!U16(Cut(q, 7, 8)) % (Link!WordValues \div 4) # 0
      THEN Link!Nothing
      ELSE Link!UdpIn(4, Cut(q, 13, 16), Cut(q, 17, 20), Cut(q, header + 1, total))

LEMMA Ipv4InIsRead ==
  ASSUME NEW q
  PROVE  Link!Ipv4In(q) = Ipv4Read(q)
  BY DEF Link!Ipv4In, Link!IsIpv4, Link!Ipv4HeaderLength, Link!Ipv4Header, Link!TotalLength,
         Link!Leading, Link!IsNonAtomicIpv4, Ipv4Read, At, Cut, Length

\* A packet and what follows it on the link.
IsPacket4(q, d, total, h, u, tail) ==
  /\ q \in Bytes
  /\ Length(h) \in Nat /\ Length(tail) \in Nat
  /\ Length(q) = total + Length(tail)
  /\ \A k \in 1 .. Length(h) : At(q, k) = At(h, k)
  /\ Cut(q, 1, Length(h)) = h
  /\ Cut(q, Length(h) + 1, total) = u

\* An IPv4 packet with what may follow it in a frame.
LEMMA Packet4Is ==
  ASSUME NEW d, IsGiven4(d), NEW u \in Bytes, NEW tail \in Bytes, NEW total \in Words,
         NEW h \in Bytes, total = Length(h) + Length(u), NEW q, q = Cat(Cat(h, u), tail)
  PROVE  IsPacket4(q, d, total, h, u, tail)
  <1> DEFINE p == Cat(h, u)
  <1>1. q = Cat(p, tail)
    OBVIOUS
  <1>2. IsJoined(p, h, u)
    BY Joins
  <1> HIDE DEF p
  <1>3. /\ p \in Bytes /\ Length(h) \in Nat /\ Length(u) \in Nat
        /\ Length(p) = Length(h) + Length(u)
        /\ \A k \in 1 .. Length(h) : At(p, k) = At(h, k)
        /\ \A k \in 1 .. Length(u) : At(p, Length(h) + k) = At(u, k)
    BY <1>2 DEF IsJoined
  <1>4. IsJoined(q, p, tail)
    BY <1>1, <1>3, Joins
  <1>5. /\ q \in Bytes /\ Length(tail) \in Nat
        /\ Length(q) = Length(p) + Length(tail)
        /\ \A k \in 1 .. Length(p) : At(q, k) = At(p, k)
    BY <1>4 DEF IsJoined
  <1>6. \A k \in 1 .. Length(h) : At(q, k) = At(h, k)
    BY <1>3, <1>5
  <1>7. \A k \in 1 .. Length(u) : At(q, Length(h) + k) = At(u, k)
    <2>1. \A k \in 1 .. Length(u) : Length(h) + k \in 1 .. Length(p)
      BY <1>3
    <2> QED BY <1>3, <1>5, <2>1
  <1>8. Cut(q, Length(h) + 1, total) = u
    <2>1. Length(h) + Length(u) <= Length(q)
      BY <1>3, <1>5
    <2> QED BY <1>3, <1>5, <1>7, <2>1, CutFound
  <1>9. Cut(q, 1, Length(h)) = h
    <2>1. 0 + Length(h) <= Length(q) /\ 0 \in Nat /\ 0 + 1 = 1 /\ 0 + Length(h) = Length(h)
      BY <1>3, <1>5
    <2>2. \A k \in 1 .. Length(h) : At(q, 0 + k) = At(h, k)
      BY <1>3, <1>6
    <2> HIDE DEF p
    <2>3. Cut(q, 0 + 1, 0 + Length(h)) = h
      BY <1>5, <2>1, <2>2, CutFound
    <2> QED BY <2>1, <2>3
  <1> QED BY <1>3, <1>5, <1>6, <1>8, <1>9 DEF IsPacket4

\* The length of a header is read as it was written.
LEMMA HeaderWords ==
  ASSUME NEW n \in Nat, n <= 40, n % 4 = 0, NEW v, v = 64 + ((20 + n) \div 4)
  PROVE  v \div 16 = 4 /\ 4 * (v % 16) = 20 + n
  OBVIOUS

\* The IPv4 layer hands on the bytes it was given, without padding, or nothing of a
\* fragment.
LEMMA Ipv4ComesBack ==
  ASSUME NEW d, IsGiven4(d), NEW u \in Bytes, NEW tail \in Bytes, NEW total \in Words,
         total = 20 + Length(d.options) + Length(u)
  PROVE  Link!Ipv4In(Cat(Cat(Checked4(d, total), u), tail))
            = IF d.fragment % (Link!WordValues \div 4) # 0 THEN Link!Nothing
              ELSE Link!UdpIn(4, d.source, d.destination, u)
  <1> DEFINE h == Checked4(d, total)
             q == Cat(Cat(h, u), tail)
  <1>1. PICK checksum : IsHead4(h, d, total, checksum)
    BY Checked4Is
  <1>2. Link!IsWhole(h)
    BY Checked4Is
  <1> HIDE DEF h
  <1>3. /\ h \in Bytes /\ Length(h) = 20 + Length(d.options) /\ Length(d.options) \in Nat
        /\ At(h, 1) = 64 + ((20 + Length(d.options)) \div 4)
        /\ At(h, 3) * ByteValues + At(h, 4) = total
        /\ At(h, 7) * ByteValues + At(h, 8) = d.fragment
        /\ At(h, 10) = Link!UDP
        /\ \A k \in 1 .. 4 : At(h, 12 + k) = At(d.source, k)
        /\ \A k \in 1 .. 4 : At(h, 16 + k) = At(d.destination, k)
    BY <1>1 DEF IsHead4
  <1>4. total = Length(h) + Length(u)
    BY <1>3
  <1>5. IsPacket4(q, d, total, h, u, tail)
    BY <1>3, <1>4, Packet4Is
  <1> HIDE DEF q
  <1>6. /\ q \in Bytes /\ Length(tail) \in Nat /\ Length(q) = total + Length(tail)
        /\ \A k \in 1 .. Length(h) : At(q, k) = At(h, k)
        /\ Cut(q, 1, Length(h)) = h
        /\ Cut(q, Length(h) + 1, total) = u
    BY <1>5 DEF IsPacket4
  <1>7. /\ Length(u) \in Nat /\ total \in Nat /\ total >= Length(h) /\ Length(h) >= 20
        /\ Length(q) >= Length(h) /\ Length(q) >= total /\ Length(q) >= 20 /\ Length(q) \in Nat
    BY <1>3, <1>4, <1>6, LengthIsNat DEF Words
  <1>8. \A k \in 1 .. 20 : At(q, k) = At(h, k)
    BY <1>3, <1>6
  <1>9. At(q, 1) \div 16 = 4 /\ 4 * (At(q, 1) % 16) = Length(h)
    <2>1. Length(d.options) <= 40 /\ Length(d.options) % 4 = 0
      BY DEF IsGiven4
    <2>2. At(q, 1) = 64 + ((20 + Length(d.options)) \div 4)
      BY <1>3, <1>8
    <2>3. At(q, 1) \div 16 = 4 /\ 4 * (At(q, 1) % 16) = 20 + Length(d.options)
      BY <1>3, <2>1, <2>2, HeaderWords
    <2> QED BY <1>3, <2>3
  <1>10. Link!U16(Cut(q, 3, 4)) = total
    <2>1. Link!U16(Cut(q, 3, 4)) = At(q, 3) * ByteValues + At(q, 4)
      BY <1>6, <1>7, WordRead
    <2>2. At(q, 3) = At(h, 3) /\ At(q, 4) = At(h, 4)
      BY <1>8
    <2> QED BY <1>3, <2>1, <2>2
  <1>11. Link!U16(Cut(q, 7, 8)) = d.fragment
    <2>1. Link!U16(Cut(q, 7, 8)) = At(q, 7) * ByteValues + At(q, 8)
      BY <1>6, <1>7, WordRead
    <2>2. At(q, 7) = At(h, 7) /\ At(q, 8) = At(h, 8)
      BY <1>8
    <2> QED BY <1>3, <2>1, <2>2
  <1>12. At(q, 10) = Link!UDP
    BY <1>3, <1>8
  <1>13. /\ d.source \in Bytes /\ Length(d.source) = 4
         /\ d.destination \in Bytes /\ Length(d.destination) = 4
    BY DEF IsGiven4, IsGiven, Size
  <1>14. Cut(q, 13, 16) = d.source
    <2>1. \A k \in 1 .. 4 : 12 + k \in 1 .. 20
      OBVIOUS
    <2>2. \A k \in 1 .. Length(d.source) : At(q, 12 + k) = At(d.source, k)
      BY <1>3, <1>8, <1>13, <2>1
    <2>3. 12 \in Nat /\ 12 + Length(d.source) <= Length(q) /\ 12 + 1 = 13
          /\ 12 + Length(d.source) = 16
      BY <1>7, <1>13
    <2>4. Cut(q, 12 + 1, 12 + Length(d.source)) = d.source
      BY <1>6, <1>13, <2>2, <2>3, CutFound
    <2> QED BY <2>3, <2>4
  <1>15. Cut(q, 17, 20) = d.destination
    <2>1. \A k \in 1 .. 4 : 16 + k \in 1 .. 20
      OBVIOUS
    <2>2. \A k \in 1 .. Length(d.destination) : At(q, 16 + k) = At(d.destination, k)
      BY <1>3, <1>8, <1>13, <2>1
    <2>3. 16 \in Nat /\ 16 + Length(d.destination) <= Length(q) /\ 16 + 1 = 17
          /\ 16 + Length(d.destination) = 20
      BY <1>7, <1>13
    <2>4. Cut(q, 16 + 1, 16 + Length(d.destination)) = d.destination
      BY <1>6, <1>13, <2>2, <2>3, CutFound
    <2> QED BY <2>3, <2>4
  <1>16. Ipv4Read(q) = IF d.fragment % (Link!WordValues \div 4) # 0 THEN Link!Nothing
                       ELSE Link!UdpIn(4, d.source, d.destination, u)
    BY <1>2, <1>6, <1>7, <1>9, <1>10, <1>11, <1>12, <1>14, <1>15 DEF Ipv4Read
  <1> QED BY <1>16, Ipv4InIsRead DEF q, h

\* The builder of an IPv4 packet, in these terms.
LEMMA Ipv4BytesIs ==
  ASSUME NEW d, NEW u, NEW total, total = 20 + Length(d.options) + Length(u)
  PROVE  Link!Ipv4Bytes(d, u) = Cat(Checked4(d, total), u)
  BY DEF Link!Ipv4Bytes, Link!Ipv4HeaderLength, Checked4, Head4, Before4, After4, Joined4, Cat, Length

\* Functions that count downwards to a last position exist, too.
CountsDown(f, N, last, step) ==
  f[N + 1] = last /\ \A k \in 1 .. N : f[k] = step[<<k, f[k + 1]>>]

\* A function that is defined by counting down is there.
LEMMA CountingDown ==
  ASSUME NEW V, NEW N \in Nat, NEW last \in V, NEW step \in [(1 .. N) \X V -> V]
  PROVE  \E f \in [1 .. (N + 1) -> V] : CountsDown(f, N, last, step)
  <1> DEFINE D == 1 .. (N + 1)
             rank == [k \in D |-> (N + 1) - k]
             base == [k \in {N + 1} |-> last]
             next == [k \in D \ {N + 1} |-> k + 1]
  <1>1. D \ {N + 1} = 1 .. N /\ {N + 1} \in SUBSET D
    OBVIOUS
  <1>2. rank \in [D -> 0 .. N] /\ base \in [{N + 1} -> V] /\ next \in [D \ {N + 1} -> D]
    BY <1>1
  <1>3. \A k \in D \ {N + 1} : rank[next[k]] < rank[k]
    <2> SUFFICES ASSUME NEW k \in D \ {N + 1} PROVE rank[next[k]] < rank[k]
      OBVIOUS
    <2>1. next[k] = k + 1 /\ k + 1 \in D /\ k \in D
      OBVIOUS
    <2>2. rank[k + 1] = (N + 1) - (k + 1) /\ rank[k] = (N + 1) - k
      BY <2>1
    <2> QED BY <2>1, <2>2
  <1>4. step \in [(D \ {N + 1}) \X V -> V]
    BY <1>1
  <1> HIDE DEF rank, base, next, D
  <1>5. \E f \in [D -> V] : Recurs(f, D, {N + 1}, base, next, step)
    BY <1>1, <1>2, <1>3, <1>4, Recursion
  <1>6. PICK f \in [D -> V] : Recurs(f, D, {N + 1}, base, next, step)
    BY <1>5
  <1>7. \A k \in D : f[k] = IF k \in {N + 1} THEN base[k] ELSE step[<<k, f[next[k]]>>]
    BY <1>6 DEF Recurs
  <1>8. f[N + 1] = last
    <2>1. N + 1 \in D /\ N + 1 \in {N + 1} /\ base[N + 1] = last
      BY DEF base, D
    <2> QED BY <1>7, <2>1
  <1>9. \A k \in 1 .. N : f[k] = step[<<k, f[k + 1]>>]
    BY <1>7 DEF next, D
  <1> QED BY <1>6, <1>8, <1>9 DEF D, CountsDown

-----------------------------------------------------------------------------
(* IPv6 *)

\* Extension headers that name each other, up to UDP.
IsChain(e) ==
  /\ Length(e) \in Nat
  /\ \A k \in 1 .. Length(e) :
        LET x == e[k]
        IN  /\ x.bytes \in Bytes
            /\ x.type \in Link!Skipped
            /\ Link!HasExtension(x.type, x.bytes)
            /\ Length(x.bytes) = Link!ExtensionLength(x.type, x.bytes)
            /\ At(x.bytes, 1) = IF k = Length(e) THEN Link!UDP ELSE e[k + 1].type

FragmentsAt(x) == x.type = Link!FRAGMENT /\ Link!IsNonAtomicIpv6(x.bytes)

\* The extension headers from each position on.
Remain(r, e) ==
  /\ Link!ExtensionBytes(e) = r[1]
  /\ r[Length(e) + 1] = <<>>
  /\ \A k \in 1 .. (Length(e) + 1) : r[k] \in Bytes
  /\ \A k \in 1 .. Length(e) : r[k] = Cat(e[k].bytes, r[k + 1])

\* The bytes of the extension headers from any one on.
LEMMA ExtensionsRemain ==
  ASSUME NEW e, Length(e) \in Nat, \A k \in 1 .. Length(e) : e[k].bytes \in Bytes
  PROVE  \E r : Remain(r, e)
  <1> DEFINE N == Length(e)
             Body(f, k) == IF k > N THEN <<>> ELSE Cat(e[k].bytes, f[k + 1])
             from == CHOOSE f : f = [k \in 1 .. (N + 1) |-> Body(f, k)]
             step == [p \in (1 .. N) \X Bytes |-> Cat(e[p[1]].bytes, p[2])]
  <1>1. Link!ExtensionBytes(e) = from[1]
    BY DEF Link!ExtensionBytes, Cat, Length
  <1>2. step \in [(1 .. N) \X Bytes -> Bytes]
    <2> SUFFICES ASSUME NEW p \in (1 .. N) \X Bytes PROVE Cat(e[p[1]].bytes, p[2]) \in Bytes
      OBVIOUS
    <2>1. p[1] \in 1 .. N /\ p[2] \in Bytes
      OBVIOUS
    <2>2. e[p[1]].bytes \in Bytes
      BY <2>1
    <2>3. IsJoined(Cat(e[p[1]].bytes, p[2]), e[p[1]].bytes, p[2])
      BY <2>1, <2>2, Joins
    <2> QED BY <2>3 DEF IsJoined
  <1>3. <<>> \in Bytes
    BY DEF Bytes
  <1>4. PICK f \in [1 .. (N + 1) -> Bytes] : CountsDown(f, N, <<>>, step)
    <2> HIDE DEF step, N
    <2>1. N \in Nat
      BY DEF N
    <2>2. \E f \in [1 .. (N + 1) -> Bytes] : CountsDown(f, N, <<>>, step)
      BY <1>2, <1>3, <2>1, CountingDown
    <2> QED BY <2>2
  <1>5. f[N + 1] = <<>> /\ \A k \in 1 .. N : f[k] = step[<<k, f[k + 1]>>]
    BY <1>4 DEF CountsDown
  <1>6. ASSUME NEW k \in 1 .. N PROVE f[k] = Cat(e[k].bytes, f[k + 1])
    <2>1. k + 1 \in 1 .. (N + 1)
      OBVIOUS
    <2>2. <<k, f[k + 1]>> \in (1 .. N) \X Bytes
      BY <1>4, <2>1
    <2>3. step[<<k, f[k + 1]>>] = Cat(e[k].bytes, f[k + 1])
      <3> HIDE DEF N
      <3> QED BY <2>2
    <2> QED BY <1>5, <2>3
  <1>7. ASSUME NEW k \in 1 .. (N + 1) PROVE f[k] = Body(f, k)
    <2>1. CASE k = N + 1
      BY <1>5, <2>1
    <2>2. CASE k # N + 1
      <3>1. k \in 1 .. N /\ ~ (k > N)
        BY <2>2
      <3> QED BY <1>6, <3>1
    <2> QED BY <2>1, <2>2
  <1>8. f = [k \in 1 .. (N + 1) |-> Body(f, k)]
    <2>1. f = [k \in 1 .. (N + 1) |-> f[k]]
      BY <1>4
    <2> HIDE DEF Body, N
    <2> QED BY <1>7, <2>1
  <1>9. from = [k \in 1 .. (N + 1) |-> Body(from, k)]
    <2> HIDE DEF Body, N
    <2> QED BY <1>8
  <1>10. \A k \in 1 .. (N + 1) : from[k] = Body(from, k)
    <2> HIDE DEF Body, N, from
    <2> QED BY <1>9
  <1> HIDE DEF from
  <1>11. from[N + 1] = <<>>
    BY <1>10
  <1>12. \A k \in 1 .. N : from[k] = Cat(e[k].bytes, from[k + 1])
    BY <1>10
  <1>13. \A k \in 1 .. (N + 1) : k \in {j \in 1 .. (N + 1) : from[j] \in Bytes}
    <2> DEFINE S == {j \in 1 .. (N + 1) : from[j] \in Bytes}
    <2>1. N + 1 \in S
      BY <1>3, <1>11
    <2>2. ASSUME NEW k \in 1 .. N, k + 1 \in S PROVE k \in S
      <3>1. from[k + 1] \in Bytes /\ e[k].bytes \in Bytes
        BY <2>2
      <3>2. IsJoined(Cat(e[k].bytes, from[k + 1]), e[k].bytes, from[k + 1])
        BY <3>1, Joins
      <3>3. from[k] \in Bytes
        BY <1>12, <3>2 DEF IsJoined
      <3> QED BY <3>3
    <2> HIDE DEF S, N
    <2>3. N \in Nat
      BY DEF N
    <2>4. \A k \in 1 .. (N + 1) : k \in S
      BY <2>1, <2>2, <2>3, Downwards
    <2> QED BY <2>4 DEF S
  <1>14. Remain(from, e)
    BY <1>1, <1>11, <1>12, <1>13 DEF Remain
  <1> QED BY <1>14

\* What a whole extension header at the start of bytes says of its length.
LEMMA ExtensionIsThere ==
  ASSUME NEW type, NEW b \in Bytes, Link!HasExtension(type, b)
  PROVE  /\ Length(b) \in Nat /\ Length(b) >= 2
         /\ Link!ExtensionLength(type, b) \in Nat
         /\ Link!ExtensionLength(type, b) >= 8
         /\ Link!ExtensionLength(type, b) <= Length(b)
  <1>1. Length(b) \in Nat /\ Length(b) >= 2 /\ Link!ExtensionLength(type, b) <= Length(b)
    BY LengthIsNat DEF Link!HasExtension, Length
  <1>2. At(b, 2) \in Nat
    <2>1. 2 \in 1 .. Length(b)
      BY <1>1
    <2>2. At(b, 2) \in Link!Byte
      BY <2>1, ByteIn
    <2> QED BY <2>2, Bases
  <1>3. Link!ExtensionLength(type, b) = IF type = Link!FRAGMENT THEN 8
                                        ELSE IF type = Link!AUTHENTICATION THEN 4 * (At(b, 2) + 2)
                                        ELSE 8 * (At(b, 2) + 1)
    BY DEF Link!ExtensionLength, At
  <1> QED BY <1>1, <1>2, <1>3

\* An extension header is the same with other bytes behind it.
LEMMA SameExtension ==
  ASSUME NEW type, NEW x \in Bytes, NEW b \in Bytes, Link!HasExtension(type, x),
         Length(x) = Link!ExtensionLength(type, x), Length(b) \in Nat, Length(b) >= Length(x),
         \A k \in 1 .. Length(x) : At(b, k) = At(x, k)
  PROVE  /\ Link!HasExtension(type, b)
         /\ Link!ExtensionLength(type, b) = Length(x)
         /\ At(b, 1) = At(x, 1)
         /\ type = Link!FRAGMENT =>
               (Link!IsNonAtomicIpv6(b) <=> Link!IsNonAtomicIpv6(x))
  <1>1. Length(x) \in Nat /\ Length(x) >= 8
    BY ExtensionIsThere
  <1>2. At(b, 1) = At(x, 1) /\ At(b, 2) = At(x, 2) /\ At(b, 3) = At(x, 3) /\ At(b, 4) = At(x, 4)
    BY <1>1
  <1>3. Link!ExtensionLength(type, b) = Link!ExtensionLength(type, x)
    BY <1>2 DEF Link!ExtensionLength, At
  <1>4. Link!HasExtension(type, b)
    BY <1>1, <1>2, <1>3 DEF Link!HasExtension, At, Length
  <1>5. Link!IsNonAtomicIpv6(b) <=> Link!IsNonAtomicIpv6(x)
    BY <1>2 DEF Link!IsNonAtomicIpv6, At
  <1> QED BY <1>2, <1>3, <1>4, <1>5

\* The walk over extension headers as a function of the position and the type there.
Goes(at, payload) ==
  LET bytes == Cut(payload, at[1], Length(payload))
  IN  /\ at[2] # Link!UDP
      /\ Link!HasExtension(at[2], bytes)
      /\ ~ (at[2] = Link!FRAGMENT /\ Link!IsNonAtomicIpv6(bytes))
      /\ At(bytes, 1) \in Link!Resolved

Walks(from, payload) ==
  \A at \in (1 .. (Length(payload) + 1)) \X Link!Resolved :
     from[at] = LET bytes == Cut(payload, at[1], Length(payload))
                IN  IF Goes(at, payload)
                    THEN from[<<at[1] + Link!ExtensionLength(at[2], bytes), At(bytes, 1)>>]
                    ELSE IF at[2] = Link!UDP THEN bytes ELSE <<>>

\* traverse follows one header to the next.
LEMMA UpperLayerWalks ==
  ASSUME NEW payload \in Bytes, NEW nextHeader \in Link!Resolved
  PROVE  \E from : Walks(from, payload) /\ Link!UpperLayer(nextHeader, payload) = from[<<1, nextHeader>>]
  <1> DEFINE N == Length(payload)
             D == (1 .. (N + 1)) \X Link!Resolved
             At1(at) == Cut(payload, at[1], N)
             Body(f, at) ==
               IF at[2] = Link!UDP THEN At1(at)
               ELSE IF ~ Link!HasExtension(at[2], At1(at)) THEN <<>>
               ELSE IF at[2] = Link!FRAGMENT /\ Link!IsNonAtomicIpv6(At1(at)) THEN <<>>
               ELSE IF At(At1(at), 1) \notin Link!Resolved THEN <<>>
               ELSE f[<<at[1] + Link!ExtensionLength(at[2], At1(at)), At(At1(at), 1)>>]
             from == CHOOSE f : f = [at \in D |-> Body(f, at)]
             stops == {at \in D : ~ Goes(at, payload)}
             rank == [at \in D |-> (N + 1) - at[1]]
             base == [at \in stops |-> IF at[2] = Link!UDP THEN At1(at) ELSE <<>>]
             onward(at) == <<at[1] + Link!ExtensionLength(at[2], At1(at)), At(At1(at), 1)>>
             next == [at \in D \ stops |-> onward(at)]
             step == [p \in (D \ stops) \X Bytes |-> p[2]]
  <1>1. Link!UpperLayer(nextHeader, payload) = from[<<1, nextHeader>>]
    BY DEF Link!UpperLayer, Link!From, Cut, Length, At
  <1>2. N \in Nat
    BY LengthIsNat
  <1>3. ASSUME NEW at \in D
        PROVE  at[1] \in 1 .. (N + 1) /\ at[2] \in Link!Resolved /\ At1(at) \in Bytes
               /\ Length(At1(at)) = N + 1 - at[1]
    <2>1. at[1] \in 1 .. (N + 1) /\ at[2] \in Link!Resolved
      OBVIOUS
    <2>2. at[1] \in Nat /\ at[1] >= 1 /\ N <= Length(payload) /\ at[1] <= N + 1
      BY <1>2, <2>1
    <2>3. IsCut(At1(at), payload, at[1], N)
      BY <1>2, <2>2, CutIs
    <2> QED BY <2>1, <2>3 DEF IsCut
  <1>4. ASSUME NEW at \in D, Goes(at, payload)
        PROVE  onward(at) \in D /\ onward(at)[1] > at[1]
    <2>1. /\ at[1] \in 1 .. (N + 1) /\ At1(at) \in Bytes /\ Length(At1(at)) = N + 1 - at[1]
          /\ Link!HasExtension(at[2], At1(at)) /\ At(At1(at), 1) \in Link!Resolved
      BY <1>3, <1>4 DEF Goes
    <2>2. /\ Link!ExtensionLength(at[2], At1(at)) \in Nat
          /\ Link!ExtensionLength(at[2], At1(at)) >= 8
          /\ Link!ExtensionLength(at[2], At1(at)) <= N + 1 - at[1]
      <3> HIDE DEF At1
      <3> QED BY <2>1, ExtensionIsThere
    <2> DEFINE i == at[1] + Link!ExtensionLength(at[2], At1(at))
    <2>3. i \in 1 .. (N + 1) /\ i > at[1]
      <3> HIDE DEF At1, N
      <3> QED BY <1>2, <2>1, <2>2
    <2> HIDE DEF i, At1, N
    <2>4. onward(at) = <<i, At(At1(at), 1)>>
      BY DEF i
    <2> QED BY <2>1, <2>3, <2>4
  <1>5. rank \in [D -> 0 .. N]
    <2> SUFFICES ASSUME NEW at \in D PROVE (N + 1) - at[1] \in 0 .. N
      OBVIOUS
    <2>1. at[1] \in 1 .. (N + 1)
      OBVIOUS
    <2> QED BY <1>2, <2>1
  <1>6. base \in [stops -> Bytes]
    <2>1. <<>> \in Bytes
      BY DEF Bytes
    <2>2. \A at \in stops : (IF at[2] = Link!UDP THEN At1(at) ELSE <<>>) \in Bytes
      BY <1>3, <2>1
    <2> QED BY <2>2
  <1>7. next \in [D \ stops -> D]
    <2>1. \A at \in D \ stops : onward(at) \in D
      BY <1>4
    <2> HIDE DEF onward, D, stops
    <2> QED BY <2>1
  <1>8. step \in [(D \ stops) \X Bytes -> Bytes]
    OBVIOUS
  <1>9. \A at \in D \ stops : rank[next[at]] < rank[at]
    <2> SUFFICES ASSUME NEW at \in D \ stops PROVE rank[next[at]] < rank[at]
      OBVIOUS
    <2>1. at \in D /\ onward(at) \in D /\ onward(at)[1] > at[1] /\ next[at] = onward(at)
      BY <1>4
    <2>2. at[1] \in 1 .. (N + 1) /\ onward(at)[1] \in 1 .. (N + 1)
      <3> HIDE DEF onward
      <3> QED BY <2>1
    <2> HIDE DEF onward, next, At1
    <2>3. rank[at] = (N + 1) - at[1] /\ rank[onward(at)] = (N + 1) - onward(at)[1]
      BY <2>1
    <2> QED BY <1>2, <2>1, <2>2, <2>3
  <1>10. PICK f \in [D -> Bytes] : Recurs(f, D, stops, base, next, step)
    <2>1. stops \in SUBSET D
      OBVIOUS
    <2> HIDE DEF D, stops, base, next, step, rank, N
    <2> QED BY <1>2, <1>5, <1>6, <1>7, <1>8, <1>9, <2>1, Recursion, Zenon
  <1>11. \A at \in D : f[at] = IF at \in stops THEN base[at] ELSE step[<<at, f[next[at]]>>]
    BY <1>10 DEF Recurs
  <1>12. ASSUME NEW at \in D PROVE f[at] = Body(f, at)
    <2>1. CASE at \in stops
      <3>1. f[at] = IF at[2] = Link!UDP THEN At1(at) ELSE <<>>
        BY <1>11, <2>1
      <3>2. ~ Goes(at, payload)
        BY <2>1
      <3> QED BY <3>1, <3>2 DEF Goes
    <2>2. CASE at \notin stops
      <3>1. Goes(at, payload) /\ at \in D \ stops
        BY <2>2
      <3>2. next[at] = onward(at) /\ onward(at) \in D
        BY <1>4, <3>1
      <3>3. f[onward(at)] \in Bytes
        <4> HIDE DEF D, onward
        <4> QED BY <1>10, <3>2
      <3>4. step[<<at, f[onward(at)]>>] = f[onward(at)]
        <4> HIDE DEF D, onward, stops
        <4>1. <<at, f[onward(at)]>> \in (D \ stops) \X Bytes
          BY <3>1, <3>3
        <4> QED BY <4>1
      <3>5. f[at] = f[onward(at)]
        <4> HIDE DEF step, next, onward, D, stops, base
        <4> QED BY <1>11, <2>2, <3>2, <3>4
      <3> QED BY <3>1, <3>5 DEF Goes
    <2> QED BY <2>1, <2>2
  <1>13. f = [at \in D |-> Body(f, at)]
    <2>1. f = [at \in D |-> f[at]]
      BY <1>10
    <2> HIDE DEF Body, D
    <2> QED BY <1>12, <2>1
  <1>14. from = [at \in D |-> Body(from, at)]
    <2> HIDE DEF Body, D
    <2> QED BY <1>13
  <1>15. \A at \in D : from[at] = Body(from, at)
    <2> HIDE DEF Body, D, from
    <2> QED BY <1>14
  <1> HIDE DEF from
  <1>16. Walks(from, payload)
    <2> SUFFICES ASSUME NEW at \in D
                 PROVE  from[at] = IF Goes(at, payload) THEN from[onward(at)]
                                   ELSE IF at[2] = Link!UDP THEN At1(at) ELSE <<>>
      BY DEF Walks
    <2>1. from[at] = Body(from, at)
      BY <1>15
    <2> QED BY <2>1 DEF Goes
  <1> QED BY <1>1, <1>16

\* Joining is associative.
LEMMA CatMoves ==
  ASSUME NEW a \in Bytes, NEW b \in Bytes, NEW c \in Bytes
  PROVE  Cat(Cat(a, b), c) = Cat(a, Cat(b, c))
  <1>1. a \in Seq(Link!Byte) /\ b \in Seq(Link!Byte) /\ c \in Seq(Link!Byte)
    BY DEF Bytes
  <1>2. (a \o b) \o c = a \o (b \o c)
    BY <1>1, ConcatAssociative
  <1> QED BY <1>2 DEF Cat

\* The rest of a rest.
LEMMA CutOfCut ==
  ASSUME NEW q \in Bytes, NEW i \in 1 .. (Length(q) + 1),
         NEW r, r = Cut(q, i, Length(q)),
         NEW front \in Bytes, NEW rest \in Bytes, r = Cat(front, rest)
  PROVE  /\ i + Length(front) \in 1 .. (Length(q) + 1)
         /\ Cut(q, i + Length(front), Length(q)) = rest
  <1>1. IsJoined(r, front, rest)
    BY Joins
  <1>2. /\ Length(front) \in Nat /\ Length(rest) \in Nat /\ Length(q) \in Nat
        /\ Length(r) = Length(front) + Length(rest)
        /\ Cut(r, Length(front) + 1, Length(front) + Length(rest)) = rest
    BY <1>1, LengthIsNat DEF IsJoined
  <1> DEFINE j == Length(front) + 1
  <1>3. j \in 1 .. (Length(r) + 1) /\ i + j - 1 = i + Length(front)
    BY <1>2
  <1>4. q \in Seq(Link!Byte) /\ r = SubSeq(q, i, Len(q)) /\ i \in 1 .. (Len(q) + 1)
        /\ j \in 1 .. (Len(r) + 1)
    BY <1>3 DEF Bytes, Cut, Length
  <1> HIDE DEF j
  <1>5. /\ i + j - 1 \in 1 .. (Len(q) + 1)
        /\ SubSeq(r, j, Len(r)) = SubSeq(q, i + j - 1, Len(q))
    BY <1>4, RemainderOfRemainder
  <1>6. /\ i + j - 1 \in 1 .. (Length(q) + 1)
        /\ Cut(r, j, Length(r)) = Cut(q, i + j - 1, Length(q))
    BY <1>5 DEF Cut, Length
  <1> QED BY <1>2, <1>3, <1>6 DEF j

FragmentsFrom(e, k) == \E j \in k .. Length(e) : FragmentsAt(e[j])

\* traverse finds the upper layer behind a chain, unless it is a part of it only.
THEOREM UpperLayerFound ==
  ASSUME NEW e, IsChain(e), NEW u \in Bytes, NEW payload \in Bytes,
         payload = Cat(Link!ExtensionBytes(e), u),
         NEW nextHeader, nextHeader = IF Length(e) = 0 THEN Link!UDP ELSE e[1].type
  PROVE  Link!UpperLayer(nextHeader, payload) = IF FragmentsFrom(e, 1) THEN <<>> ELSE u
  <1> DEFINE n == Length(payload)
             m == Length(e)
             type(k) == IF k = m + 1 THEN Link!UDP ELSE e[k].type
             result(k) == IF FragmentsFrom(e, k) THEN <<>> ELSE u
  <1>1. m \in Nat /\ n \in Nat
    BY LengthIsNat DEF IsChain
  <1>2. ASSUME NEW k \in 1 .. m
        PROVE  /\ e[k].bytes \in Bytes
               /\ e[k].type \in Link!Skipped
               /\ Link!HasExtension(e[k].type, e[k].bytes)
               /\ Length(e[k].bytes) = Link!ExtensionLength(e[k].type, e[k].bytes)
               /\ At(e[k].bytes, 1) = type(k + 1)
    <2>1. k + 1 = m + 1 <=> k = m
      BY <1>1
    <2>2. At(e[k].bytes, 1) = IF k = m THEN Link!UDP ELSE e[k + 1].type
      BY DEF IsChain
    <2>3. At(e[k].bytes, 1) = type(k + 1)
      BY <2>1, <2>2
    <2> QED BY <2>3 DEF IsChain
  <1>3. ASSUME NEW k \in 1 .. (m + 1) PROVE type(k) \in Link!Resolved
    BY <1>1, <1>2 DEF Link!Resolved
  <1>4. ASSUME NEW k \in 1 .. m PROVE type(k) = e[k].type /\ type(k) # Link!UDP
    <2>1. k # m + 1
      BY <1>1
    <2>2. Link!UDP \notin Link!Skipped
      BY DEF Link!UDP, Link!Skipped, Link!AUTHENTICATION, Link!FRAGMENT
    <2> QED BY <1>2, <2>1, <2>2
  <1>5. type(1) = nextHeader /\ 1 \in 1 .. (m + 1)
    BY <1>1
  <1>6. PICK r : Remain(r, e)
    BY <1>1, <1>2, ExtensionsRemain
  <1>7. /\ Link!ExtensionBytes(e) = r[1] /\ r[m + 1] = <<>>
        /\ \A k \in 1 .. (m + 1) : r[k] \in Bytes
        /\ \A k \in 1 .. m : r[k] = Cat(e[k].bytes, r[k + 1])
    BY <1>6 DEF Remain
  <1>8. PICK from : Walks(from, payload) /\ Link!UpperLayer(nextHeader, payload) = from[<<1, nextHeader>>]
    BY <1>3, <1>5, UpperLayerWalks
  <1>9. ASSUME NEW i \in 1 .. (n + 1), NEW t \in Link!Resolved
        PROVE  from[<<i, t>>] =
                  IF Goes(<<i, t>>, payload)
                  THEN from[<<i + Link!ExtensionLength(t, Cut(payload, i, n)),
                              At(Cut(payload, i, n), 1)>>]
                  ELSE IF t = Link!UDP THEN Cut(payload, i, n) ELSE <<>>
    <2>1. <<i, t>> \in (1 .. (n + 1)) \X Link!Resolved /\ <<i, t>>[1] = i /\ <<i, t>>[2] = t
      OBVIOUS
    <2> QED BY <1>8, <2>1 DEF Walks
  <1>10. ASSUME NEW i \in 1 .. (n + 1), NEW t \in Link!Resolved
         PROVE  Goes(<<i, t>>, payload) <=>
                   /\ t # Link!UDP
                   /\ Link!HasExtension(t, Cut(payload, i, n))
                   /\ ~ (t = Link!FRAGMENT /\ Link!IsNonAtomicIpv6(Cut(payload, i, n)))
                   /\ At(Cut(payload, i, n), 1) \in Link!Resolved
    BY DEF Goes
  <1> HIDE DEF type, n, m
  <1> DEFINE S == {k \in 1 .. (m + 1) :
                      \A i \in 1 .. (n + 1) :
                         Cut(payload, i, n) = Cat(r[k], u) => from[<<i, type(k)>>] = result(k)}
  <1>11. m + 1 \in S
    <2>1. Cat(r[m + 1], u) = u
      <3>1. u = <<>> \o u
        BY DEF Bytes
      <3> QED BY <1>7, <3>1 DEF Cat
    <2>2. result(m + 1) = u
      BY <1>1 DEF FragmentsFrom, m
    <2>3. type(m + 1) = Link!UDP /\ m + 1 \in 1 .. (m + 1)
      BY <1>1 DEF type
    <2>4. ASSUME NEW i \in 1 .. (n + 1), Cut(payload, i, n) = u
          PROVE  from[<<i, type(m + 1)>>] = u
      <3>1. ~ Goes(<<i, Link!UDP>>, payload) /\ Link!UDP \in Link!Resolved
        BY <1>10 DEF Link!Resolved
      <3> QED BY <1>9, <2>3, <2>4, <3>1
    <2> HIDE DEF result
    <2> QED BY <2>1, <2>2, <2>3, <2>4
  <1>12. ASSUME NEW k \in 1 .. m, k + 1 \in S PROVE k \in S
    <2> DEFINE x == e[k].bytes
               t == e[k].type
               rest == Cat(r[k + 1], u)
    <2>1. /\ x \in Bytes /\ t \in Link!Skipped /\ Link!HasExtension(t, x)
          /\ Length(x) = Link!ExtensionLength(t, x) /\ At(x, 1) = type(k + 1)
          /\ t = type(k) /\ t # Link!UDP
      BY <1>2, <1>4
    <2>2. /\ k \in 1 .. (m + 1) /\ k + 1 \in 1 .. (m + 1) /\ r[k + 1] \in Bytes
          /\ type(k + 1) \in Link!Resolved /\ t \in Link!Resolved
      BY <1>1, <1>3, <1>7, <2>1
    <2>3. rest \in Bytes
      <3>1. IsJoined(rest, r[k + 1], u)
        BY <2>2, Joins
      <3> QED BY <3>1 DEF IsJoined
    <2>4. Cat(r[k], u) = Cat(x, rest)
      <3>1. r[k] = Cat(x, r[k + 1])
        BY <1>7
      <3> HIDE DEF x
      <3>2. Cat(Cat(x, r[k + 1]), u) = Cat(x, Cat(r[k + 1], u))
        BY <2>1, <2>2, CatMoves
      <3> QED BY <3>1, <3>2
    <2>5. result(k) = IF FragmentsAt(e[k]) THEN <<>> ELSE result(k + 1)
      <3>1. \A j : j \in k .. m <=> j = k \/ j \in (k + 1) .. m
        BY <1>1
      <3>2. FragmentsFrom(e, k) <=> (FragmentsAt(e[k]) \/ FragmentsFrom(e, k + 1))
        BY <3>1 DEF FragmentsFrom, m
      <3> QED BY <3>2
    <2>6. ASSUME NEW i \in 1 .. (n + 1), Cut(payload, i, n) = Cat(x, rest)
          PROVE  from[<<i, t>>] = result(k)
      <3> DEFINE b == Cut(payload, i, n)
      <3> HIDE DEF x, t, rest, result, S
      <3>1. IsJoined(b, x, rest)
        BY <2>1, <2>3, <2>6, Joins
      <3>2. /\ b \in Bytes /\ Length(b) = Length(x) + Length(rest)
            /\ Length(x) \in Nat /\ Length(rest) \in Nat
            /\ \A j \in 1 .. Length(x) : At(b, j) = At(x, j)
        BY <3>1 DEF IsJoined
      <3>3. Length(b) \in Nat /\ Length(b) >= Length(x)
        BY <3>2
      <3>4. /\ Link!HasExtension(t, b)
            /\ Link!ExtensionLength(t, b) = Length(x)
            /\ At(b, 1) = type(k + 1)
            /\ t = Link!FRAGMENT => (Link!IsNonAtomicIpv6(b) <=> Link!IsNonAtomicIpv6(x))
        BY <2>1, <3>2, <3>3, SameExtension
      <3>5. FragmentsAt(e[k]) <=> t = Link!FRAGMENT /\ Link!IsNonAtomicIpv6(x)
        BY DEF FragmentsAt, t, x
      <3>6. Goes(<<i, t>>, payload) <=> ~ FragmentsAt(e[k])
        BY <1>10, <2>1, <2>2, <3>4, <3>5
      <3>7. CASE FragmentsAt(e[k])
        BY <1>9, <2>1, <2>2, <2>5, <3>6, <3>7
      <3>8. CASE ~ FragmentsAt(e[k])
        <4>1. from[<<i, t>>] = from[<<i + Length(x), type(k + 1)>>]
          BY <1>9, <2>2, <3>4, <3>6, <3>8
        <4>2. /\ i + Length(x) \in 1 .. (n + 1)
              /\ Cut(payload, i + Length(x), n) = rest
          BY <2>1, <2>3, <2>6, CutOfCut DEF n
        <4>3. from[<<i + Length(x), type(k + 1)>>] = result(k + 1)
          BY <1>12, <4>2 DEF S, rest
        <4> QED BY <2>5, <3>8, <4>1, <4>3
      <3> QED BY <3>7, <3>8
    <2> HIDE DEF x, t, rest, result
    <2> QED BY <2>1, <2>2, <2>4, <2>6
  <1>13. \A k \in 1 .. (m + 1) : k \in S
    <2> HIDE DEF S
    <2> QED BY <1>1, <1>11, <1>12, Downwards
  <1>14. 1 \in S
    BY <1>5, <1>13 DEF m, type
  <1>15. Cut(payload, 1, n) = payload /\ 1 \in 1 .. (n + 1)
    BY <1>1, CutAll DEF n
  <1>16. from[<<1, type(1)>>] = result(1)
    <2> HIDE DEF result
    <2> QED BY <1>7, <1>14, <1>15
  <1> QED BY <1>5, <1>8, <1>16 DEF type, m

\* What the builders of IPv6 are given besides.
IsGiven6(d) == IsGiven(d) /\ d.version = 6 /\ IsChain(d.extensions)

NextHeader(d) == IF Length(d.extensions) = 0 THEN Link!UDP ELSE d.extensions[1].type

Head6(d, size) ==
  Cat(Cat(Cat(Cat(<<96, 0, 0, 0>>, Link!U16Bytes(size)), <<NextHeader(d), 64>>), d.source),
      d.destination)

LEMMA NextHeaderIs ==
  ASSUME NEW d, IsGiven6(d)
  PROVE  NextHeader(d) \in Link!Resolved /\ NextHeader(d) \in Link!Byte
  <1>1. NextHeader(d) \in Link!Resolved
    <2>1. Length(d.extensions) \in Nat
      BY DEF IsGiven6, IsChain
    <2>2. CASE Length(d.extensions) = 0
      BY <2>2 DEF NextHeader, Link!Resolved
    <2>3. CASE Length(d.extensions) # 0
      <3>1. 1 \in 1 .. Length(d.extensions)
        BY <2>1, <2>3
      <3> QED BY <2>3, <3>1 DEF IsGiven6, IsChain, NextHeader, Link!Resolved
    <2> QED BY <2>2, <2>3
  <1>2. \A n \in Link!Resolved : n \in 0 .. 96
    BY DEF Link!Resolved, Link!Skipped, Link!UDP, Link!AUTHENTICATION, Link!FRAGMENT
  <1> QED BY <1>1, <1>2, SmallBytes

IsHead6(h, d, size) ==
  /\ h \in Bytes /\ Length(h) = 40
  /\ At(h, 1) = 96
  /\ At(h, 5) * ByteValues + At(h, 6) = size
  /\ At(h, 7) = NextHeader(d)
  /\ \A k \in 1 .. 16 : At(h, 8 + k) = At(d.source, k)
  /\ \A k \in 1 .. 16 : At(h, 24 + k) = At(d.destination, k)

\* The fixed IPv6 header.
LEMMA Head6Is ==
  ASSUME NEW d, IsGiven6(d), NEW size \in Words
  PROVE  IsHead6(Head6(d, size), d, size)
  <1> DEFINE first == <<96, 0, 0, 0>>
             length == Link!U16Bytes(size)
             next == <<NextHeader(d), 64>>
             fl == Cat(first, length)
             fln == Cat(fl, next)
             flns == Cat(fln, d.source)
             h == Head6(d, size)
  <1>1. /\ 96 \in Link!Byte /\ 0 \in Link!Byte /\ 64 \in Link!Byte /\ NextHeader(d) \in Link!Byte
    BY SmallBytes, NextHeaderIs
  <1>2. /\ first \in Bytes /\ Length(first) = 4 /\ At(first, 1) = 96
        /\ next \in Bytes /\ Length(next) = 2 /\ At(next, 1) = NextHeader(d)
    BY <1>1 DEF Bytes, Length, At
  <1>3. /\ length \in Bytes /\ Length(length) = 2
        /\ At(length, 1) * ByteValues + At(length, 2) = size
    BY TwoBytes
  <1>4. /\ d.source \in Bytes /\ Length(d.source) = 16
        /\ d.destination \in Bytes /\ Length(d.destination) = 16
    BY DEF IsGiven6, IsGiven, Size
  <1>5. h = Cat(flns, d.destination)
    BY DEF Head6
  <1> HIDE DEF first, length, next, fl, fln, flns, h
  <1>6. /\ fl \in Bytes /\ Length(fl) = 6 /\ At(fl, 1) = 96
        /\ At(fl, 5) = At(length, 1) /\ At(fl, 6) = At(length, 2)
    <2>1. IsJoined(fl, first, length)
      BY <1>2, <1>3, Joins DEF fl
    <2> QED BY <1>2, <1>3, <2>1 DEF IsJoined
  <1>7. /\ fln \in Bytes /\ Length(fln) = 8 /\ At(fln, 1) = 96
        /\ At(fln, 5) = At(length, 1) /\ At(fln, 6) = At(length, 2)
        /\ At(fln, 7) = NextHeader(d)
    <2>1. IsJoined(fln, fl, next)
      BY <1>2, <1>6, Joins DEF fln
    <2> QED BY <1>2, <1>6, <2>1 DEF IsJoined
  <1>8. /\ flns \in Bytes /\ Length(flns) = 24
        /\ \A k \in 1 .. 8 : At(flns, k) = At(fln, k)
        /\ \A k \in 1 .. 16 : At(flns, 8 + k) = At(d.source, k)
    <2>1. IsJoined(flns, fln, d.source)
      BY <1>4, <1>7, Joins DEF flns
    <2> QED BY <1>4, <1>7, <2>1 DEF IsJoined
  <1>9. /\ h \in Bytes /\ Length(h) = 40
        /\ \A k \in 1 .. 24 : At(h, k) = At(flns, k)
        /\ \A k \in 1 .. 16 : At(h, 24 + k) = At(d.destination, k)
    <2>1. IsJoined(h, flns, d.destination)
      BY <1>4, <1>5, <1>8, Joins
    <2> QED BY <1>4, <1>8, <2>1 DEF IsJoined
  <1>10. \A k \in 1 .. 16 : At(h, 8 + k) = At(d.source, k)
    <2>1. \A k \in 1 .. 16 : 8 + k \in 1 .. 24
      OBVIOUS
    <2> QED BY <1>8, <1>9, <2>1
  <1>11. \A k \in 1 .. 8 : At(h, k) = At(fln, k)
    BY <1>8, <1>9
  <1>12. At(h, 1) = 96 /\ At(h, 5) * ByteValues + At(h, 6) = size /\ At(h, 7) = NextHeader(d)
    BY <1>3, <1>7, <1>11
  <1> QED BY <1>9, <1>10, <1>12 DEF IsHead6, h

\* The parser of an IPv6 packet that says how long it is.
LEMMA Ipv6InIs ==
  ASSUME NEW q, Length(q) >= 40, At(q, 1) \div 16 = 6,
         NEW size \in Nat, size > 0, Link!U16(Cut(q, 5, 6)) = size, Length(q) >= 40 + size
  PROVE  Link!Ipv6In(q) = Link!UdpIn(6, Cut(q, 9, 24), Cut(q, 25, 40),
                                     Link!UpperLayer(At(q, 7), Cut(q, 40 + 1, 40 + size)))
  <1>1. Link!PayloadLength(q) = size /\ size # 0
    BY DEF Link!PayloadLength, Cut
  <1>2. Link!IsIpv6(q)
    BY <1>1 DEF Link!IsIpv6, Link!Ipv6HeaderLength, Length, At
  <1>3. Link!Ipv6Payload(q) = Cut(q, 40 + 1, 40 + size)
    BY <1>1 DEF Link!Ipv6Payload, Link!Ipv6HeaderLength, Cut
  <1> QED BY <1>1, <1>2, <1>3 DEF Link!Ipv6In, At, Cut

\* A piece of the bytes that is also a piece of their head.
LEMMA CutOfHead ==
  ASSUME NEW q \in Bytes, NEW part \in Bytes, NEW a \in Nat, NEW n \in Nat, Length(part) = n,
         a + n <= Length(q), \A k \in 1 .. n : At(q, a + k) = At(part, k)
  PROVE  Cut(q, a + 1, a + n) = part
  BY CutFound

\* The IPv6 layer hands on the upper layer's bytes through every extension header, or
\* nothing of a fragment.
LEMMA Ipv6ComesBack ==
  ASSUME NEW d, IsGiven6(d), NEW u \in Bytes, Length(u) > 0, NEW tail \in Bytes,
         NEW payload \in Bytes, payload = Cat(Link!ExtensionBytes(d.extensions), u),
         NEW size \in Words, size = Length(payload)
  PROVE  Link!Ipv6In(Cat(Cat(Head6(d, size), payload), tail))
            = Link!UdpIn(6, d.source, d.destination,
                         IF FragmentsFrom(d.extensions, 1) THEN <<>> ELSE u)
  <1> DEFINE h == Head6(d, size)
             p == Cat(h, payload)
             q == Cat(p, tail)
  <1>1. IsHead6(h, d, size)
    BY Head6Is
  <1> HIDE DEF h
  <1>2. /\ h \in Bytes /\ Length(h) = 40 /\ At(h, 1) = 96
        /\ At(h, 5) * ByteValues + At(h, 6) = size /\ At(h, 7) = NextHeader(d)
        /\ \A k \in 1 .. 16 : At(h, 8 + k) = At(d.source, k)
        /\ \A k \in 1 .. 16 : At(h, 24 + k) = At(d.destination, k)
    BY <1>1 DEF IsHead6
  <1>3. IsJoined(p, h, payload)
    BY <1>2, Joins
  <1>4. /\ p \in Bytes /\ Length(p) = 40 + size
        /\ \A k \in 1 .. 40 : At(p, k) = At(h, k)
        /\ \A k \in 1 .. size : At(p, 40 + k) = At(payload, k)
    <2> HIDE DEF p
    <2> QED BY <1>2, <1>3 DEF IsJoined
  <1> HIDE DEF p
  <1>5. IsJoined(q, p, tail)
    BY <1>4, Joins
  <1> HIDE DEF q
  <1>6. size \in Nat /\ Length(tail) \in Nat
    BY LengthIsNat DEF Words
  <1>7. /\ q \in Bytes /\ Length(q) = 40 + size + Length(tail)
        /\ \A k \in 1 .. (40 + size) : At(q, k) = At(p, k)
    BY <1>4, <1>5 DEF IsJoined
  <1>8. \A k \in 1 .. 40 : At(q, k) = At(h, k)
    <2>1. \A k \in 1 .. 40 : k \in 1 .. (40 + size)
      BY <1>6
    <2> QED BY <1>4, <1>7, <2>1
  <1>9. Length(q) \in Nat /\ Length(q) >= 40 + size /\ Length(q) >= 40
    BY <1>6, <1>7
  <1>10. At(q, 1) \div 16 = 6
    <2>1. At(q, 1) = 96
      BY <1>2, <1>8
    <2> QED BY <2>1
  <1>11. Link!U16(Cut(q, 5, 6)) = size
    <2>1. Link!U16(Cut(q, 5, 6)) = At(q, 5) * ByteValues + At(q, 6)
      BY <1>7, <1>9, WordRead
    <2>2. At(q, 5) = At(h, 5) /\ At(q, 6) = At(h, 6)
      BY <1>8
    <2> QED BY <1>2, <2>1, <2>2
  <1>12. size > 0
    <2>1. Link!ExtensionBytes(d.extensions) \in Bytes
      <3>1. PICK r : Remain(r, d.extensions)
        BY ExtensionsRemain DEF IsGiven6, IsChain
      <3>2. 1 \in 1 .. (Length(d.extensions) + 1)
        BY DEF IsGiven6, IsChain
      <3> QED BY <3>1, <3>2 DEF Remain
    <2>2. IsJoined(payload, Link!ExtensionBytes(d.extensions), u)
      BY <2>1, Joins
    <2> QED BY <2>2 DEF IsJoined
  <1>13. Cut(q, 40 + 1, 40 + size) = payload
    <2>1. \A k \in 1 .. size : At(q, 40 + k) = At(payload, k)
      <3>1. \A k \in 1 .. size : 40 + k \in 1 .. (40 + size)
        BY <1>6
      <3> QED BY <1>4, <1>7, <3>1
    <2> QED BY <1>6, <1>7, <1>9, <2>1, CutOfHead
  <1>14. /\ d.source \in Bytes /\ Length(d.source) = 16
         /\ d.destination \in Bytes /\ Length(d.destination) = 16
    BY DEF IsGiven6, IsGiven, Size
  <1>15. Cut(q, 9, 24) = d.source
    <2>1. \A k \in 1 .. 16 : 8 + k \in 1 .. 40
      OBVIOUS
    <2>2. \A k \in 1 .. 16 : At(q, 8 + k) = At(d.source, k)
      BY <1>2, <1>8, <2>1
    <2>3. 8 \in Nat /\ 16 \in Nat /\ 8 + 16 <= Length(q) /\ 8 + 1 = 9 /\ 8 + 16 = 24
      BY <1>9
    <2>4. Cut(q, 8 + 1, 8 + 16) = d.source
      BY <1>7, <1>14, <2>2, <2>3, CutOfHead, ZenonT(40)
    <2> QED BY <2>3, <2>4
  <1>16. Cut(q, 25, 40) = d.destination
    <2>1. \A k \in 1 .. 16 : 24 + k \in 1 .. 40
      OBVIOUS
    <2>2. \A k \in 1 .. 16 : At(q, 24 + k) = At(d.destination, k)
      BY <1>2, <1>8, <2>1
    <2>3. 24 \in Nat /\ 16 \in Nat /\ 24 + 16 <= Length(q) /\ 24 + 1 = 25 /\ 24 + 16 = 40
      BY <1>9
    <2>4. Cut(q, 24 + 1, 24 + 16) = d.destination
      BY <1>7, <1>14, <2>2, <2>3, CutOfHead, ZenonT(40)
    <2> QED BY <2>4, SMT
  <1>17. At(q, 7) = NextHeader(d)
    BY <1>2, <1>8
  <1>18. Link!UpperLayer(At(q, 7), payload) = IF FragmentsFrom(d.extensions, 1) THEN <<>> ELSE u
    BY <1>17, UpperLayerFound DEF IsGiven6, NextHeader
  <1>19. Link!Ipv6In(q) = Link!UdpIn(6, Cut(q, 9, 24), Cut(q, 25, 40),
                                     Link!UpperLayer(At(q, 7), Cut(q, 40 + 1, 40 + size)))
    BY <1>6, <1>9, <1>10, <1>11, <1>12, Ipv6InIs
  <1>20. Link!Ipv6In(q) = Link!UdpIn(6, d.source, d.destination,
                                     IF FragmentsFrom(d.extensions, 1) THEN <<>> ELSE u)
    BY <1>13, <1>15, <1>16, <1>18, <1>19
  <1> QED BY <1>20 DEF q, p, h

\* The builder of an IPv6 packet, in these terms.
LEMMA Ipv6BytesIs ==
  ASSUME NEW d, IsGiven6(d), d.extensions = <<>> <=> Length(d.extensions) = 0, NEW u,
         NEW payload, payload = Cat(Link!ExtensionBytes(d.extensions), u)
  PROVE  Link!Ipv6Bytes(d, u) = Cat(Head6(d, Length(payload)), payload)
  BY DEF Link!Ipv6Bytes, Head6, NextHeader, Cat, Length

-----------------------------------------------------------------------------
(* Ethernet, and the way through all layers *)

\* What the builders of all four layers are given, in a scenario without an end.
IsCarried(d) ==
  /\ IsGiven(d)
  /\ d.version = 6 => d.checked
  /\ d.version = 4 => IsGiven4(d)
  /\ d.version = 6 => IsGiven6(d) /\ (d.extensions = <<>> <=> Length(d.extensions) = 0)

IsFragment(d) ==
  IF d.version = 4 THEN d.fragment % (Link!WordValues \div 4) # 0
  ELSE FragmentsFrom(d.extensions, 1)

EtherHead(type) == Cat(Cat(<<2, 0, 0, 0, 0, 1>>, <<2, 0, 0, 0, 0, 2>>), type)

LEMMA EtherHeadIs ==
  ASSUME NEW type \in {Link!IPV4, Link!IPV6}
  PROVE  /\ type \in Bytes /\ Length(type) = 2
         /\ EtherHead(type) \in Bytes /\ Length(EtherHead(type)) = 14
         /\ \A k \in 1 .. 2 : At(EtherHead(type), 12 + k) = At(type, k)
  <1> DEFINE first == <<2, 0, 0, 0, 0, 1>>
             second == <<2, 0, 0, 0, 0, 2>>
             both == Cat(first, second)
             h == EtherHead(type)
  <1>1. 0 \in Link!Byte /\ 1 \in Link!Byte /\ 2 \in Link!Byte
    BY SmallBytes
  <1>2. first \in Bytes /\ Length(first) = 6 /\ second \in Bytes /\ Length(second) = 6
    BY <1>1 DEF Bytes, Length
  <1>3. type \in Bytes /\ Length(type) = 2
    <2>1. 8 \in Link!Byte /\ 134 \in Link!Byte /\ 221 \in Link!Byte /\ 0 \in Link!Byte
      BY SmallBytes, ZeroByte
    <2>2. \A a, b \in Link!Byte : <<a, b>> \in Seq(Link!Byte) /\ Len(<<a, b>>) = 2
      OBVIOUS
    <2>3. Link!IPV4 = <<8, 0>> /\ Link!IPV6 = <<134, 221>>
      BY DEF Link!IPV4, Link!IPV6
    <2>4. CASE type = Link!IPV4
      BY <2>1, <2>2, <2>3, <2>4 DEF Bytes, Length
    <2>5. CASE type = Link!IPV6
      BY <2>1, <2>2, <2>3, <2>5 DEF Bytes, Length
    <2> QED BY <2>4, <2>5
  <1>4. h = Cat(both, type)
    BY DEF EtherHead
  <1> HIDE DEF first, second, both, h
  <1>5. both \in Bytes /\ Length(both) = 12
    <2>1. IsJoined(both, first, second)
      BY <1>2, Joins DEF both
    <2> QED BY <1>2, <2>1 DEF IsJoined
  <1>6. IsJoined(h, both, type)
    BY <1>3, <1>4, <1>5, Joins
  <1>7. h \in Bytes /\ Length(h) = 14 /\ \A k \in 1 .. 2 : At(h, 12 + k) = At(type, k)
    BY <1>3, <1>5, <1>6 DEF IsJoined
  <1> QED BY <1>3, <1>7 DEF h

\* An Ethernet frame is dispatched by its EtherType, padding included.
LEMMA EthernetComesBack ==
  ASSUME NEW type \in {Link!IPV4, Link!IPV6}, NEW packet \in Bytes, NEW tail \in Bytes,
         NEW q, q = Cat(Link!EthernetBytes(type, packet), tail)
  PROVE  /\ Link!EthernetBytes(type, packet) \in Bytes
         /\ Link!Received(q) = IF type = Link!IPV4 THEN Link!Ipv4In(Cat(packet, tail))
                               ELSE Link!Ipv6In(Cat(packet, tail))
  <1> DEFINE h == EtherHead(type)
             more == Cat(packet, tail)
  <1>1. /\ type \in Bytes /\ Length(type) = 2
        /\ h \in Bytes /\ Length(h) = 14
        /\ \A k \in 1 .. 2 : At(h, 12 + k) = At(type, k)
    BY EtherHeadIs
  <1>2. Link!EthernetBytes(type, packet) = Cat(h, packet)
    BY DEF Link!EthernetBytes, EtherHead, Cat
  <1> HIDE DEF h
  <1>3. Cat(h, packet) \in Bytes
    <2>1. IsJoined(Cat(h, packet), h, packet)
      BY <1>1, Joins
    <2> QED BY <2>1 DEF IsJoined
  <1>4. more \in Bytes
    <2>1. IsJoined(more, packet, tail)
      BY Joins
    <2> QED BY <2>1 DEF IsJoined
  <1>5. q = Cat(h, more)
    BY <1>1, <1>2, CatMoves
  <1> HIDE DEF more
  <1>6. IsJoined(q, h, more)
    BY <1>1, <1>4, <1>5, Joins
  <1>7. /\ q \in Bytes /\ Length(q) = 14 + Length(more) /\ Length(more) \in Nat
        /\ \A k \in 1 .. 14 : At(q, k) = At(h, k)
        /\ Cut(q, 14 + 1, 14 + Length(more)) = more
    BY <1>1, <1>6 DEF IsJoined
  <1>8. Length(q) \in Nat /\ Length(q) >= 14
    BY <1>7
  <1>9. Cut(q, 13, 14) = type
    <2>1. \A k \in 1 .. 2 : 12 + k \in 1 .. 14
      OBVIOUS
    <2>2. \A k \in 1 .. 2 : At(q, 12 + k) = At(type, k)
      BY <1>1, <1>7, <2>1
    <2>3. 12 \in Nat /\ 2 \in Nat /\ 12 + 2 <= Length(q) /\ 12 + 1 = 13 /\ 12 + 2 = 14
      BY <1>8
    <2>4. Cut(q, 12 + 1, 12 + 2) = type
      BY <1>1, <1>7, <2>2, <2>3, CutOfHead, ZenonT(40)
    <2> QED BY <2>4, SMT
  <1>10. Link!EthernetPayload(q) = more
    <2>1. Cut(q, 14 + 1, Length(q)) = more
      BY <1>7
    <2> QED BY <2>1 DEF Link!EthernetPayload, Link!EthernetHeaderLength, Link!From, Cut, Length
  <1>11. Link!EtherType(q) = type
    BY <1>9 DEF Link!EtherType, Cut
  <1>12. ~ (Len(q) < Link!EthernetHeaderLength)
    BY <1>8 DEF Length, Link!EthernetHeaderLength
  <1>13. Link!IPV4 # Link!IPV6
    <2>1. Link!IPV4[1] = 8 /\ Link!IPV6[1] = 134
      BY DEF Link!IPV4, Link!IPV6
    <2> QED BY <2>1
  <1>14. Link!Received(q) = IF type = Link!IPV4 THEN Link!Ipv4In(more) ELSE Link!Ipv6In(more)
    BY <1>10, <1>11, <1>12, <1>13 DEF Link!Received
  <1> QED BY <1>2, <1>3, <1>14 DEF more

\* A datagram that the builders took comes out of the parsers as it was, whatever
\* bytes the link has behind it; nothing comes out of a fragment.
THEOREM LinkComesBack ==
  ASSUME NEW d, IsCarried(d), Link!BuildAllowed(d), NEW tail \in Bytes
  PROVE  /\ Link!OnTheLink(d) \in Bytes
         /\ Link!Received(Cat(Link!OnTheLink(d), tail))
               = IF IsFragment(d) THEN Link!Nothing ELSE Delivered(d)
  <1> DEFINE u == Link!UdpBytes(d)
  <1>1. IsGiven(d) /\ d.version \in {4, 6} /\ (d.version = 6 => d.checked)
    BY DEF IsCarried, IsGiven
  <1>2. /\ u \in Bytes /\ Length(u) = 8 + Length(d.payload)
        /\ Length(d.payload) \in Nat
        /\ Link!UdpIn(d.version, d.source, d.destination, u) = Delivered(d)
    BY <1>1, UdpComesBack
  <1>3. CASE d.version = 4
    <2> DEFINE total == 20 + Length(d.options) + Length(u)
               packet == Link!Ipv4Bytes(d, u)
    <2>1. IsGiven4(d)
      BY <1>3 DEF IsCarried
    <2>2. Length(d.options) \in Nat /\ total \in Nat
      BY <1>2, <2>1, LengthIsNat DEF IsGiven4
    <2>3. Link!Ipv4HeaderLength + Len(d.options) + Len(u) < Link!WordValues
      BY <1>3 DEF Link!BuildAllowed
    <2>4. total \in Words
      BY <2>2, <2>3, Bases DEF Words, Link!Ipv4HeaderLength, Length
    <2>5. packet = Cat(Checked4(d, total), u)
      BY Ipv4BytesIs
    <2>6. Checked4(d, total) \in Bytes
      <3> HIDE DEF total
      <3>1. PICK checksum : IsHead4(Checked4(d, total), d, total, checksum)
        BY <2>1, <2>4, Checked4Is
      <3> QED BY <3>1 DEF IsHead4
    <2>7. packet \in Bytes
      <3>1. IsJoined(Cat(Checked4(d, total), u), Checked4(d, total), u)
        BY <1>2, <2>6, Joins
      <3> QED BY <2>5, <3>1 DEF IsJoined
    <2>8. Link!OnTheLink(d) = Link!EthernetBytes(Link!IPV4, packet)
      BY <1>3 DEF Link!OnTheLink
    <2> HIDE DEF packet, u
    <2>9. /\ Link!OnTheLink(d) \in Bytes
          /\ Link!Received(Cat(Link!OnTheLink(d), tail)) = Link!Ipv4In(Cat(packet, tail))
      BY <2>7, <2>8, EthernetComesBack
    <2>10. Link!Ipv4In(Cat(packet, tail))
             = IF d.fragment % (Link!WordValues \div 4) # 0 THEN Link!Nothing
               ELSE Link!UdpIn(4, d.source, d.destination, u)
      BY <1>2, <2>1, <2>4, <2>5, Ipv4ComesBack
    <2> QED BY <1>2, <1>3, <2>9, <2>10 DEF IsFragment
  <1>4. CASE d.version = 6
    <2> DEFINE payload == Cat(Link!ExtensionBytes(d.extensions), u)
               size == Length(payload)
               packet == Link!Ipv6Bytes(d, u)
    <2>1. IsGiven6(d) /\ (d.extensions = <<>> <=> Length(d.extensions) = 0)
      BY <1>4 DEF IsCarried
    <2>2. Link!ExtensionBytes(d.extensions) \in Bytes
      <3>1. PICK r : Remain(r, d.extensions)
        BY <2>1, ExtensionsRemain DEF IsGiven6, IsChain
      <3>2. 1 \in 1 .. (Length(d.extensions) + 1)
        BY <2>1 DEF IsGiven6, IsChain
      <3> QED BY <3>1, <3>2 DEF Remain
    <2>3. /\ payload \in Bytes /\ size \in Nat
          /\ size = Length(Link!ExtensionBytes(d.extensions)) + Length(u)
      <3>1. IsJoined(payload, Link!ExtensionBytes(d.extensions), u)
        BY <1>2, <2>2, Joins
      <3> QED BY <3>1 DEF IsJoined
    <2>4. Len(Link!ExtensionBytes(d.extensions)) + Len(u) < Link!WordValues
      BY <1>4 DEF Link!BuildAllowed
    <2>5. size \in Words
      <3> HIDE DEF payload, u
      <3> QED BY <2>3, <2>4, Bases DEF Words, Length
    <2>6. packet = Cat(Head6(d, size), payload)
      BY <2>1, Ipv6BytesIs
    <2> HIDE DEF payload
    <2>7. Head6(d, size) \in Bytes
      <3>1. IsHead6(Head6(d, size), d, size)
        BY <2>1, <2>5, Head6Is
      <3> QED BY <3>1 DEF IsHead6
    <2>8. packet \in Bytes
      <3>1. IsJoined(Cat(Head6(d, size), payload), Head6(d, size), payload)
        BY <2>3, <2>7, Joins
      <3> QED BY <2>6, <3>1 DEF IsJoined
    <2>9. Link!OnTheLink(d) = Link!EthernetBytes(Link!IPV6, packet)
      BY <1>4 DEF Link!OnTheLink
    <2> HIDE DEF packet, u
    <2>10. /\ Link!OnTheLink(d) \in Bytes
           /\ Link!Received(Cat(Link!OnTheLink(d), tail)) = Link!Ipv6In(Cat(packet, tail))
      <3>1. Link!IPV4 # Link!IPV6
        <4>1. Link!IPV4[1] = 8 /\ Link!IPV6[1] = 134
          BY DEF Link!IPV4, Link!IPV6
        <4> QED BY <4>1
      <3> QED BY <2>8, <2>9, <3>1, EthernetComesBack
    <2>11. Link!Ipv6In(Cat(packet, tail))
             = Link!UdpIn(6, d.source, d.destination,
                          IF FragmentsFrom(d.extensions, 1) THEN <<>> ELSE u)
      <3>1. Length(u) > 0
        BY <1>2
      <3>2. payload = Cat(Link!ExtensionBytes(d.extensions), u)
        BY DEF payload, u
      <3> HIDE DEF size
      <3>3. size = Length(payload)
        BY DEF size
      <3> QED BY <1>2, <2>1, <2>3, <2>5, <2>6, <3>1, <3>2, <3>3, Ipv6ComesBack
    <2>12. Link!UdpIn(6, d.source, d.destination, <<>>) = Link!Nothing
      <3>1. Len(<<>>) = 0
        OBVIOUS
      <3>2. ~ Link!IsUdp(<<>>)
        BY <3>1 DEF Link!IsUdp, Link!UdpHeaderLength
      <3> QED BY <3>2 DEF Link!UdpIn
    <2> QED BY <1>2, <1>4, <2>10, <2>11, <2>12 DEF IsFragment
  <1> QED BY <1>1, <1>3, <1>4 DEF u

-----------------------------------------------------------------------------
(* QUIC's integers.  The link has bytes of ByteValues values and a payload has bytes of *)
(* FrameByteValues; what is true of both is stated for a base.                          *)

Quarter(base) == base \div 4

IsBase(base) ==
  /\ base \in Nat /\ base <= ByteValues
  /\ Quarter(base) \in Nat /\ Quarter(base) > 0
  /\ base = 4 * Quarter(base)

LowOf(base, n) == n % base
RestOf(base, n) == n \div base

Pair(base, n) == <<LowOf(base, RestOf(base, n)), LowOf(base, n)>>
Quad(base, n) ==
  <<LowOf(base, RestOf(base, RestOf(base, RestOf(base, n)))),
    LowOf(base, RestOf(base, RestOf(base, n))), LowOf(base, RestOf(base, n)), LowOf(base, n)>>

PairIn(base, b) == b[1] * base + b[2]
QuadIn(base, b) == (PairIn(base, b) * base + b[3]) * base + b[4]
OctadIn(base, b) ==
  (((QuadIn(base, b) * base + b[5]) * base + b[6]) * base + b[7]) * base + b[8]

Digits(base, value, length) ==
  IF length = 1 THEN <<LowOf(base, value)>>
  ELSE IF length = 2 THEN Pair(base, value)
  ELSE IF length = 4 THEN Quad(base, value)
  ELSE Quad(base, RestOf(base, RestOf(base, RestOf(base, RestOf(base, value)))))
          \o Quad(base, value)

Holds(base, value, length) ==
  /\ value < Quarter(base) \/ length > 1
  /\ RestOf(base, value) < Quarter(base) \/ length > 2
  /\ RestOf(base, RestOf(base, RestOf(base, value))) < Quarter(base) \/ length > 4
  /\ RestOf(base, RestOf(base, RestOf(base, RestOf(base, RestOf(base, RestOf(base,
        RestOf(base, value))))))) < Quarter(base)

Shortest(base, value) ==
  IF Holds(base, value, 1) THEN 1
  ELSE IF Holds(base, value, 2) THEN 2
  ELSE IF Holds(base, value, 4) THEN 4
  ELSE 8

IntegerBytes(base, value, length) ==
  LET bytes == Digits(base, value, length)
  IN  [bytes EXCEPT ![1] = @ + Packets!Prefix(length) * Quarter(base)]

IntegerLength(base, q) ==
  LET prefix == q[1] \div Quarter(base)
  IN  IF prefix = 0 THEN 1 ELSE IF prefix = 1 THEN 2 ELSE IF prefix = 2 THEN 4 ELSE 8

Reading(base, b, length) ==
  IF length = 1 THEN b[1]
  ELSE IF length = 2 THEN PairIn(base, b)
  ELSE IF length = 4 THEN QuadIn(base, b)
  ELSE OctadIn(base, b)

IntegerValue(base, q) ==
  Reading(base, [q EXCEPT ![1] = @ % Quarter(base)], IntegerLength(base, q))

HasInteger(base, q) == Length(q) > 0 /\ IntegerLength(base, q) <= Length(q)
Behind(base, q) == Cut(q, IntegerLength(base, q) + 1, Length(q))

\* The two integers of the model.
LEMMA PacketIntegers ==
  /\ \A value, length : Packets!VarInt(value, length) = IntegerBytes(ByteValues, value, length)
  /\ \A value, length : Packets!Fits(value, length) = Holds(ByteValues, value, length)
  /\ \A value : Packets!Canonical(value)
                   = IntegerBytes(ByteValues, value, Shortest(ByteValues, value))
  /\ \A q : Packets!HasVarInt(q) = HasInteger(ByteValues, q)
  /\ \A q : Packets!VarIntLength(q) = IntegerLength(ByteValues, q)
  /\ \A q : Packets!VarIntIn(q) = IntegerValue(ByteValues, q)
  /\ \A q : Packets!AfterVarInt(q) = Behind(ByteValues, q)
  <1>1. ASSUME NEW value, NEW length
        PROVE  Packets!VarInt(value, length) = IntegerBytes(ByteValues, value, length)
    BY DEF Packets!VarInt, IntegerBytes, Packets!BigEndian, Digits, Packets!U16Bytes, Pair,
           Packets!U32Bytes, Quad, Packets!U64Bytes, Packets!Low, Packets!Rest, LowOf, RestOf,
           Packets!Unit, Quarter
  <1>2. ASSUME NEW value, NEW length
        PROVE  Packets!Fits(value, length) = Holds(ByteValues, value, length)
    BY DEF Packets!Fits, Holds, Packets!Rest, RestOf, Packets!Unit, Quarter
  <1>3. ASSUME NEW value
        PROVE  Packets!Canonical(value)
                  = IntegerBytes(ByteValues, value, Shortest(ByteValues, value))
    BY <1>1, <1>2 DEF Packets!Canonical, Packets!CanonicalLength, Shortest
  <1>4. ASSUME NEW q PROVE Packets!VarIntLength(q) = IntegerLength(ByteValues, q)
    BY DEF Packets!VarIntLength, IntegerLength, Packets!Unit, Quarter
  <1>5. ASSUME NEW q PROVE Packets!HasVarInt(q) = HasInteger(ByteValues, q)
    BY <1>4 DEF Packets!HasVarInt, HasInteger, Length
  <1>6. ASSUME NEW q PROVE Packets!VarIntIn(q) = IntegerValue(ByteValues, q)
    BY <1>4 DEF Packets!VarIntIn, IntegerValue, Reading, Packets!U16, PairIn, Packets!U32,
                QuadIn, Packets!U64, OctadIn, Packets!Unit, Quarter
  <1>7. ASSUME NEW q PROVE Packets!AfterVarInt(q) = Behind(ByteValues, q)
    BY <1>4 DEF Packets!AfterVarInt, Behind, Packets!From, Cut, Length
  <1> QED BY <1>1, <1>2, <1>3, <1>4, <1>5, <1>6, <1>7

\* So are those of a frame.
LEMMA FrameIntegers ==
  /\ \A value, length : Frames!VarInt(value, length)
                           = IntegerBytes(FrameByteValues, value, length)
  /\ \A value, length : Frames!Fits(value, length) = Holds(FrameByteValues, value, length)
  /\ \A value : Frames!Canonical(value)
                   = IntegerBytes(FrameByteValues, value, Shortest(FrameByteValues, value))
  /\ \A q : Frames!HasVarInt(q) = HasInteger(FrameByteValues, q)
  /\ \A q : Frames!VarIntLength(q) = IntegerLength(FrameByteValues, q)
  /\ \A q : Frames!VarIntIn(q) = IntegerValue(FrameByteValues, q)
  /\ \A q : Frames!AfterVarInt(q) = Behind(FrameByteValues, q)
  <1>1. ASSUME NEW value, NEW length
        PROVE  Frames!VarInt(value, length) = IntegerBytes(FrameByteValues, value, length)
    BY DEF Frames!VarInt, IntegerBytes, Frames!BigEndian, Digits, Frames!U16Bytes, Pair,
           Frames!U32Bytes, Quad, Frames!U64Bytes, Frames!Low, Frames!Rest, LowOf, RestOf,
           Frames!Unit, Quarter, Frames!Prefix, Packets!Prefix
  <1>2. ASSUME NEW value, NEW length
        PROVE  Frames!Fits(value, length) = Holds(FrameByteValues, value, length)
    BY DEF Frames!Fits, Holds, Frames!Rest, RestOf, Frames!Unit, Quarter
  <1>3. ASSUME NEW value
        PROVE  Frames!Canonical(value)
                  = IntegerBytes(FrameByteValues, value, Shortest(FrameByteValues, value))
    BY <1>1, <1>2 DEF Frames!Canonical, Frames!CanonicalLength, Shortest
  <1>4. ASSUME NEW q PROVE Frames!VarIntLength(q) = IntegerLength(FrameByteValues, q)
    BY DEF Frames!VarIntLength, IntegerLength, Frames!Unit, Quarter
  <1>5. ASSUME NEW q PROVE Frames!HasVarInt(q) = HasInteger(FrameByteValues, q)
    BY <1>4 DEF Frames!HasVarInt, HasInteger, Length
  <1>6. ASSUME NEW q PROVE Frames!VarIntIn(q) = IntegerValue(FrameByteValues, q)
    BY <1>4 DEF Frames!VarIntIn, IntegerValue, Reading, Frames!U16, PairIn, Frames!U32,
                QuadIn, Frames!U64, OctadIn, Frames!Unit, Quarter
  <1>7. ASSUME NEW q PROVE Frames!AfterVarInt(q) = Behind(FrameByteValues, q)
    BY <1>4 DEF Frames!AfterVarInt, Behind, Frames!From, Cut, Length
  <1> QED BY <1>1, <1>2, <1>3, <1>4, <1>5, <1>6, <1>7

\* Both numbers of values are bases.
LEMMA BothBases ==
  IsBase(ByteValues) /\ IsBase(FrameByteValues)
  <1>1. ByteValues = 4 * (ByteValues \div 4) /\ ByteValues \div 4 \in Nat
        /\ ByteValues \div 4 > 0 /\ ByteValues \in Nat
    BY SMT, ByteAssumption
  <1>2. FrameByteValues = 4 * (FrameByteValues \div 4) /\ FrameByteValues \div 4 \in Nat
        /\ FrameByteValues \div 4 > 0 /\ FrameByteValues \in Nat
    BY SMT, ByteAssumption
  <1>3. FrameByteValues <= ByteValues
    BY ByteAssumption
  <1> QED BY <1>1, <1>2, <1>3 DEF IsBase, Quarter

-----------------------------------------------------------------------------

\* A number is its lowest byte and what is above it.
LEMMA DigitsMakeNumbers ==
  ASSUME NEW base, IsBase(base), NEW n \in Nat
  PROVE  /\ LowOf(base, n) \in 0 .. (base - 1)
         /\ RestOf(base, n) \in Nat
         /\ RestOf(base, n) * base + LowOf(base, n) = n
         /\ n < Quarter(base) => LowOf(base, n) = n
  <1>1. base \in Nat /\ base > 0 /\ base = 4 * Quarter(base) /\ Quarter(base) \in Nat
    BY DEF IsBase
  <1> HIDE DEF Quarter
  <1>2. n % base \in 0 .. (base - 1)
    BY <1>1
  <1>3. n \div base \in Nat /\ (n \div base) * base + (n % base) = n
    BY <1>1, Z3
  <1>4. n < Quarter(base) => n % base = n
    BY <1>1, Z3
  <1> QED BY <1>2, <1>3, <1>4 DEF LowOf, RestOf

\* The two bits in front of a byte below a quarter are found again, and so is the byte.
LEMMA BitsComeBack ==
  ASSUME NEW base, IsBase(base), NEW n \in Nat, n < Quarter(base), NEW p \in 0 .. 3
  PROVE  /\ (n + p * Quarter(base)) \in 0 .. (base - 1)
         /\ (n + p * Quarter(base)) \div Quarter(base) = p
         /\ (n + p * Quarter(base)) % Quarter(base) = n
  <1> DEFINE U == Quarter(base)
  <1>1. U \in Nat /\ U > 0 /\ base = 4 * U
    BY DEF IsBase
  <1>2. n < U
    OBVIOUS
  <1> HIDE DEF U
  <1>3. n + p * U \in Nat /\ n + p * U < 4 * U /\ n + p * U = U * p + n
    <2>1. p = 0 \/ p = 1 \/ p = 2 \/ p = 3
      OBVIOUS
    <2> QED BY <1>1, <1>2, <2>1
  <1>4. \A c \in Int, d \in Nat, q \in Int, r \in Int :
           (c = d * q + r /\ 0 <= r /\ r < d) => c % d = r /\ c \div d = q
    OBVIOUS
  <1>5. (n + p * U) % U = n /\ (n + p * U) \div U = p
    BY <1>1, <1>2, <1>3, <1>4
  <1> QED BY <1>1, <1>3, <1>5 DEF U

LEMMA WiderSequence ==
  ASSUME NEW S, NEW T, S \subseteq T, NEW q \in Seq(S)
  PROVE  q \in Seq(T)
  <1>1. Len(q) \in Nat /\ q \in [1 .. Len(q) -> S]
    BY LenProperties
  <1>2. q = [k \in 1 .. Len(q) |-> q[k]] /\ \A k \in 1 .. Len(q) : q[k] \in T
    BY <1>1
  <1> QED BY <1>1, <1>2

BytesOf(base) == Seq(0 .. (base - 1))

LEMMA BytesOfBase ==
  ASSUME NEW base, IsBase(base)
  PROVE  BytesOf(base) \subseteq Bytes
  <1>1. 0 .. (base - 1) \subseteq Link!Byte
    <2>1. base \in Nat /\ base <= ByteValues /\ ByteValues \in Nat
      BY Bases DEF IsBase
    <2>2. \A B \in Nat : base <= B => 0 .. (base - 1) \subseteq 0 .. (B - 1)
      BY <2>1
    <2>3. 0 .. (base - 1) \subseteq 0 .. (ByteValues - 1)
      BY <2>1, <2>2
    <2> QED BY <2>3 DEF Link!Byte
  <1> HIDE DEF Link!Byte
  <1>2. ASSUME NEW q \in Seq(0 .. (base - 1)) PROVE q \in Bytes
    BY <1>1, WiderSequence DEF Bytes
  <1> QED BY <1>2 DEF BytesOf

\* The bytes of a value that fits leave room for the prefix and make up the value.
LEMMA DigitsComeBack ==
  ASSUME NEW base, IsBase(base), NEW value \in Nat, NEW length \in Packets!Lengths,
         Holds(base, value, length)
  PROVE  /\ Digits(base, value, length) \in BytesOf(base)
         /\ Len(Digits(base, value, length)) = length
         /\ Digits(base, value, length)[1] < Quarter(base)
         /\ Reading(base, Digits(base, value, length), length) = value
  <1> DEFINE r1 == RestOf(base, value)
             r2 == RestOf(base, r1)
             r3 == RestOf(base, r2)
             r4 == RestOf(base, r3)
             r5 == RestOf(base, r4)
             r6 == RestOf(base, r5)
             r7 == RestOf(base, r6)
             l(n) == LowOf(base, n)
             D == 0 .. (base - 1)
             b == Digits(base, value, length)
  <1>0. base \in Nat /\ Quarter(base) \in Nat
    BY DEF IsBase
  <1>1. /\ r1 \in Nat /\ r2 \in Nat /\ r3 \in Nat /\ r4 \in Nat
        /\ r5 \in Nat /\ r6 \in Nat /\ r7 \in Nat
    <2> HIDE DEF r1, r2, r3, r4, r5, r6, r7
    <2>1. r1 \in Nat
      BY DigitsMakeNumbers DEF r1
    <2>2. r2 \in Nat
      BY <2>1, DigitsMakeNumbers DEF r2
    <2>3. r3 \in Nat
      BY <2>2, DigitsMakeNumbers DEF r3
    <2>4. r4 \in Nat
      BY <2>3, DigitsMakeNumbers DEF r4
    <2>5. r5 \in Nat
      BY <2>4, DigitsMakeNumbers DEF r5
    <2>6. r6 \in Nat
      BY <2>5, DigitsMakeNumbers DEF r6
    <2>7. r7 \in Nat
      BY <2>6, DigitsMakeNumbers DEF r7
    <2> QED BY <2>1, <2>2, <2>3, <2>4, <2>5, <2>6, <2>7
  <1>2. /\ l(value) \in D /\ r1 * base + l(value) = value
        /\ l(r1) \in D /\ r2 * base + l(r1) = r1
        /\ l(r2) \in D /\ r3 * base + l(r2) = r2
        /\ l(r3) \in D /\ r4 * base + l(r3) = r3
        /\ l(r4) \in D /\ r5 * base + l(r4) = r4
        /\ l(r5) \in D /\ r6 * base + l(r5) = r5
        /\ l(r6) \in D /\ r7 * base + l(r6) = r6
        /\ l(r7) \in D
    <2> HIDE DEF r1, r2, r3, r4, r5, r6, r7
    <2>1. /\ l(value) \in D /\ r1 * base + l(value) = value
      BY DigitsMakeNumbers DEF r1
    <2>2. l(r1) \in D /\ r2 * base + l(r1) = r1
      BY <1>1, DigitsMakeNumbers DEF r2
    <2>3. l(r2) \in D /\ r3 * base + l(r2) = r2
      BY <1>1, DigitsMakeNumbers DEF r3
    <2>4. l(r3) \in D /\ r4 * base + l(r3) = r3
      BY <1>1, DigitsMakeNumbers DEF r4
    <2>5. l(r4) \in D /\ r5 * base + l(r4) = r4
      BY <1>1, DigitsMakeNumbers DEF r5
    <2>6. l(r5) \in D /\ r6 * base + l(r5) = r5
      BY <1>1, DigitsMakeNumbers DEF r6
    <2>7. l(r6) \in D /\ r7 * base + l(r6) = r6
      BY <1>1, DigitsMakeNumbers DEF r7
    <2>8. l(r7) \in D
      BY <1>1, DigitsMakeNumbers
    <2> HIDE DEF l, D
    <2> QED BY <2>1, <2>2, <2>3, <2>4, <2>5, <2>6, <2>7, <2>8
  <1>3. \A n \in Nat : n < Quarter(base) => l(n) = n
    BY DigitsMakeNumbers
  <1>4. \A n \in D : n \in Nat
    BY <1>0
  <1>5. CASE length = 1
    <2>1. value < Quarter(base)
      BY <1>5 DEF Holds
    <2>2. l(value) = value /\ value \in D
      BY <1>2, <1>3, <2>1
    <2>3. b = <<value>>
      BY <1>5, <2>2 DEF Digits
    <2> HIDE DEF b, D
    <2>4. b \in Seq(D) /\ Len(b) = length /\ b[1] = value
      BY <1>5, <2>2, <2>3
    <2> QED BY <1>5, <2>1, <2>4 DEF Reading, b, D, BytesOf
  <1>6. CASE length = 2
    <2>1. r1 < Quarter(base)
      BY <1>6 DEF Holds
    <2>2. l(r1) = r1 /\ r1 \in D
      BY <1>1, <1>2, <1>3, <2>1
    <2>3. b = <<r1, l(value)>>
      BY <1>6, <2>2 DEF Digits, Pair
    <2> HIDE DEF b, r1, l, D
    <2>4. b \in Seq(D) /\ Len(b) = length /\ b[1] = r1 /\ b[2] = l(value)
      BY <1>2, <1>6, <2>2, <2>3
    <2>5. PairIn(base, b) = value
      BY <1>2, <2>4 DEF PairIn
    <2> QED BY <1>6, <2>1, <2>4, <2>5 DEF Reading, b, D, BytesOf
  <1>7. CASE length = 4
    <2>1. r3 < Quarter(base)
      BY <1>7 DEF Holds
    <2>2. l(r3) = r3 /\ r3 \in D
      BY <1>1, <1>2, <1>3, <2>1
    <2>3. b = <<r3, l(r2), l(r1), l(value)>>
      BY <1>7, <2>2 DEF Digits, Quad
    <2> HIDE DEF b, r1, r2, r3, l, D
    <2>4. /\ b \in Seq(D) /\ Len(b) = length
          /\ b[1] = r3 /\ b[2] = l(r2) /\ b[3] = l(r1) /\ b[4] = l(value)
      BY <1>2, <1>7, <2>2, <2>3
    <2>5. QuadIn(base, b) = value
      <3>1. PairIn(base, b) = r2
        BY <1>2, <2>4 DEF PairIn
      <3> QED BY <1>2, <2>4, <3>1 DEF QuadIn
    <2> QED BY <1>7, <2>1, <2>4, <2>5 DEF Reading, b, D, BytesOf
  <1>8. CASE length = 8
    <2>1. r7 < Quarter(base)
      BY <1>8 DEF Holds
    <2>2. l(r7) = r7 /\ r7 \in D
      BY <1>1, <1>2, <1>3, <2>1
    <2> DEFINE high == <<r7, l(r6), l(r5), l(r4)>>
               low == <<l(r3), l(r2), l(r1), l(value)>>
    <2>3. b = high \o low
      BY <1>8, <2>2 DEF Digits, Quad
    <2> HIDE DEF b, r1, r2, r3, r4, r5, r6, r7, l, D
    <2>4. /\ high \in Seq(D) /\ Len(high) = 4
          /\ high[1] = r7 /\ high[2] = l(r6) /\ high[3] = l(r5) /\ high[4] = l(r4)
      BY <1>2, <2>2
    <2>5. /\ low \in Seq(D) /\ Len(low) = 4
          /\ low[1] = l(r3) /\ low[2] = l(r2) /\ low[3] = l(r1) /\ low[4] = l(value)
      BY <1>2
    <2> HIDE DEF high, low
    <2>6. /\ b \in Seq(D) /\ Len(b) = 8
          /\ \A k \in 1 .. 4 : b[k] = high[k]
          /\ \A k \in 1 .. 4 : b[4 + k] = low[k]
      <3>1. /\ b \in Seq(D) /\ Len(b) = Len(high) + Len(low)
            /\ \A k \in 1 .. Len(high) : b[k] = high[k]
            /\ \A k \in 1 .. Len(low) : b[Len(high) + k] = low[k]
        <4>1. high \in Seq(D) /\ low \in Seq(D)
          BY <2>4, <2>5
        <4> HIDE <2>4, <2>5
        <4> QED BY <2>3, <4>1, PartsComeBack
      <3> QED BY <2>4, <2>5, <3>1
    <2>7. b[1] = high[1] /\ b[2] = high[2] /\ b[3] = high[3] /\ b[4] = high[4]
      <3>1. 1 \in 1 .. 4 /\ 2 \in 1 .. 4 /\ 3 \in 1 .. 4 /\ 4 \in 1 .. 4
        OBVIOUS
      <3> QED BY <2>6, <3>1
    <2>8. b[5] = low[1] /\ b[6] = low[2] /\ b[7] = low[3] /\ b[8] = low[4]
      <3>1. b[4 + 1] = low[1] /\ b[4 + 2] = low[2] /\ b[4 + 3] = low[3] /\ b[4 + 4] = low[4]
        BY <2>6
      <3> QED BY <3>1
    <2>9. OctadIn(base, b) = value
      <3>1. PairIn(base, b) = r6
        BY <1>2, <2>4, <2>7 DEF PairIn
      <3>2. QuadIn(base, b) = r4
        BY <1>2, <2>4, <2>7, <3>1 DEF QuadIn
      <3> QED BY <1>2, <2>5, <2>8, <3>2 DEF OctadIn
    <2>10. Reading(base, b, length) = value
      BY <1>8, <2>9 DEF Reading
    <2>11. b[1] < Quarter(base)
      BY <2>1, <2>4, <2>7
    <2> QED BY <1>8, <2>6, <2>10, <2>11 DEF b, D, BytesOf
  <1> QED BY <1>5, <1>6, <1>7, <1>8 DEF Packets!Lengths

\* An integer's bytes: those of the value, the first one with the prefix.
IsInteger(v, base, value, length) ==
  LET b == Digits(base, value, length)
  IN  /\ v \in BytesOf(base) /\ Length(v) = length
      /\ At(v, 1) \div Quarter(base) = Packets!Prefix(length)
      /\ At(v, 1) % Quarter(base) = At(b, 1)
      /\ \A k \in 2 .. length : At(v, k) = At(b, k)

\* The bytes of an integer of variable length: the first says how many there are.
LEMMA IntegerIs ==
  ASSUME NEW base, IsBase(base), NEW value \in Nat, NEW length \in Packets!Lengths,
         Holds(base, value, length)
  PROVE  IsInteger(IntegerBytes(base, value, length), base, value, length)
  <1> DEFINE b == Digits(base, value, length)
             v == IntegerBytes(base, value, length)
             D == 0 .. (base - 1)
             first == b[1] + Packets!Prefix(length) * Quarter(base)
  <1>1. b \in Seq(D) /\ Len(b) = length /\ b[1] < Quarter(base)
    BY DigitsComeBack DEF BytesOf
  <1>2. Packets!Prefix(length) \in 0 .. 3 /\ length \in Nat /\ length > 0
    BY DEF Packets!Prefix, Packets!Lengths
  <1>3. v = [b EXCEPT ![1] = first]
    BY DEF IntegerBytes
  <1>4. base \in Nat
    BY DEF IsBase
  <1> HIDE DEF b, v, D
  <1>5. b[1] \in Nat
    <2>1. 1 \in 1 .. Len(b)
      BY <1>1, <1>2
    <2>2. b[1] \in D
      BY <1>1, <2>1, ElementOfSeq
    <2> QED BY <1>4, <2>2 DEF D
  <1>6. first \in D /\ first \div Quarter(base) = Packets!Prefix(length)
        /\ first % Quarter(base) = b[1]
    BY <1>1, <1>2, <1>5, BitsComeBack DEF D
  <1> HIDE DEF first
  <1>7. /\ v \in Seq(D) /\ Len(v) = length /\ v[1] = first
        /\ \A k \in 2 .. length : v[k] = b[k]
    BY <1>1, <1>2, <1>3, <1>6, ExceptSeq
  <1> QED BY <1>6, <1>7 DEF v, b, D, IsInteger, BytesOf, Length, At

\* What is read depends on the first bytes alone, the prefix taken off.
LEMMA ReadWithoutBits ==
  ASSUME NEW base, IsBase(base), NEW q \in Bytes, Length(q) > 0, NEW b \in BytesOf(base),
         NEW length \in Packets!Lengths,
         IntegerLength(base, q) = length, length <= Length(q), length = Len(b),
         At(q, 1) % Quarter(base) = b[1],
         \A k \in 2 .. length : At(q, k) = b[k]
  PROVE  IntegerValue(base, q) = Reading(base, b, length)
  <1> DEFINE e == q[1] % Quarter(base)
             u == [q EXCEPT ![1] = e]
  <1>1. q \in Seq(Nat) /\ Len(q) > 0 /\ length <= Len(q)
    <2>1. q \in Seq(Link!Byte) /\ Link!Byte \subseteq Nat
      BY Bases DEF Bytes
    <2>2. q \in Seq(Nat)
      BY <2>1, WiderSequence
    <2> QED BY <2>2 DEF Length
  <1>2. e \in Nat
    <2>1. b \in Seq(0 .. (base - 1)) /\ 1 \in 1 .. Len(b) /\ base \in Nat
      BY DEF BytesOf, Packets!Lengths, IsBase
    <2>2. b[1] \in 0 .. (base - 1)
      BY <2>1, ElementOfSeq
    <2>3. e = b[1]
      BY DEF At
    <2> HIDE DEF e
    <2> QED BY <2>1, <2>2, <2>3
  <1>3. IntegerValue(base, q) = Reading(base, u, length)
    BY DEF IntegerValue
  <1> HIDE DEF e
  <1>4. \A k \in 1 .. Len(q) : u[k] = IF k = 1 THEN e ELSE q[k]
    BY <1>1, <1>2, ExceptSeq
  <1> HIDE DEF u
  <1>5. \A k \in 1 .. length : u[k] = b[k]
    <2> SUFFICES ASSUME NEW k \in 1 .. length PROVE u[k] = b[k]
      OBVIOUS
    <2>1. length \in Nat /\ k \in 1 .. Len(q)
      BY <1>1 DEF Packets!Lengths
    <2>2. CASE k = 1
      BY <1>4, <2>1, <2>2 DEF e, At
    <2>3. CASE k # 1
      <3>1. k \in 2 .. length
        BY <2>1, <2>3
      <3>2. u[k] = q[k] /\ q[k] = b[k]
        BY <1>4, <2>1, <2>3, <3>1 DEF At
      <3> QED BY <3>2
    <2> QED BY <2>2, <2>3
  <1>6. Reading(base, u, length) = Reading(base, b, length)
    <2>1. CASE length = 1
      BY <1>5, <2>1 DEF Reading
    <2>2. CASE length = 2
      BY <1>5, <2>2 DEF Reading, PairIn
    <2>3. CASE length = 4
      BY <1>5, <2>3 DEF Reading, PairIn, QuadIn
    <2>4. CASE length = 8
      <3>1. /\ u[1] = b[1] /\ u[2] = b[2] /\ u[3] = b[3] /\ u[4] = b[4]
            /\ u[5] = b[5] /\ u[6] = b[6] /\ u[7] = b[7] /\ u[8] = b[8]
        BY <1>5, <2>4
      <3> QED BY <2>4, <3>1, Zenon DEF Reading, PairIn, QuadIn, OctadIn
    <2> QED BY <2>1, <2>2, <2>3, <2>4 DEF Packets!Lengths
  <1> QED BY <1>3, <1>6

\* An integer is read as it was written, whatever follows it.
IsRead(q, base, value, length, rest) ==
  /\ q \in Bytes
  /\ Length(q) = length + Length(rest)
  /\ HasInteger(base, q)
  /\ IntegerLength(base, q) = length
  /\ IntegerValue(base, q) = value
  /\ Behind(base, q) = rest

\* An integer written in any width that holds it is read back, whatever follows.
THEOREM IntegerComesBack ==
  ASSUME NEW base, IsBase(base), NEW value \in Nat, NEW length \in Packets!Lengths,
         Holds(base, value, length), NEW rest \in Bytes
  PROVE  /\ IntegerBytes(base, value, length) \in Bytes
         /\ Length(IntegerBytes(base, value, length)) = length
         /\ IsRead(Cat(IntegerBytes(base, value, length), rest), base, value, length, rest)
  <1> DEFINE b == Digits(base, value, length)
             v == IntegerBytes(base, value, length)
             q == Cat(v, rest)
  <1>1. /\ v \in BytesOf(base) /\ Length(v) = length
        /\ At(v, 1) \div Quarter(base) = Packets!Prefix(length)
        /\ At(v, 1) % Quarter(base) = At(b, 1)
        /\ \A k \in 2 .. length : At(v, k) = At(b, k)
    <2>1. IsInteger(v, base, value, length)
      BY IntegerIs
    <2> QED BY <2>1 DEF IsInteger
  <1>2. b \in BytesOf(base) /\ Len(b) = length /\ Reading(base, b, length) = value
    BY DigitsComeBack
  <1>3. length \in Nat /\ length > 0
    BY DEF Packets!Lengths
  <1>4. v \in Bytes
    BY <1>1, BytesOfBase
  <1> HIDE DEF b, v
  <1>5. /\ q \in Bytes /\ Length(rest) \in Nat
        /\ Length(q) = length + Length(rest)
        /\ \A k \in 1 .. length : At(q, k) = At(v, k)
        /\ Cut(q, length + 1, length + Length(rest)) = rest
    <2>1. IsJoined(q, v, rest)
      BY <1>4, Joins
    <2> HIDE DEF q
    <2> QED BY <1>1, <2>1 DEF IsJoined
  <1> HIDE DEF q
  <1>6. At(q, 1) = At(v, 1) /\ Length(q) > 0 /\ length <= Length(q)
    BY <1>3, <1>5
  <1>7. IntegerLength(base, q) = length
    <2>1. q[1] \div Quarter(base) = Packets!Prefix(length)
      BY <1>1, <1>6 DEF At
    <2>2. IntegerLength(base, q)
             = IF Packets!Prefix(length) = 0 THEN 1 ELSE IF Packets!Prefix(length) = 1 THEN 2
               ELSE IF Packets!Prefix(length) = 2 THEN 4 ELSE 8
      BY <2>1 DEF IntegerLength
    <2> QED BY <2>2 DEF Packets!Prefix, Packets!Lengths
  <1>8. \A k \in 2 .. length : At(q, k) = b[k]
    <2> SUFFICES ASSUME NEW k \in 2 .. length PROVE At(q, k) = b[k]
      OBVIOUS
    <2>1. k \in 1 .. length
      BY <1>3
    <2> QED BY <1>1, <1>5, <2>1 DEF At
  <1>9. IntegerValue(base, q) = value
    <2>1. At(q, 1) % Quarter(base) = b[1]
      BY <1>1, <1>6 DEF At
    <2>2. IntegerValue(base, q) = Reading(base, b, length)
      BY <1>2, <1>5, <1>6, <1>7, <1>8, <2>1, ReadWithoutBits
    <2> QED BY <1>2, <2>2
  <1>10. HasInteger(base, q)
    BY <1>6, <1>7 DEF HasInteger
  <1>11. Behind(base, q) = rest
    BY <1>5, <1>7 DEF Behind
  <1> QED BY <1>1, <1>4, <1>5, <1>7, <1>9, <1>10, <1>11 DEF v, q, IsRead

\* The shortest length holds its value, if any does.
LEMMA ShortestHolds ==
  ASSUME NEW base, NEW value, Holds(base, value, 8)
  PROVE  /\ Shortest(base, value) \in Packets!Lengths
         /\ Holds(base, value, Shortest(base, value))
  BY DEF Shortest, Packets!Lengths

\* Any word can be written on the link.
LEMMA WordsFit ==
  ASSUME NEW value \in Nat, value < Link!WordValues
  PROVE  Holds(ByteValues, value, 8)
  <1> DEFINE R(n) == RestOf(ByteValues, n)
  <1>1. IsBase(ByteValues) /\ ByteValues \in Nat /\ ByteValues > 0 /\ Quarter(ByteValues) > 0
        /\ Quarter(ByteValues) \in Nat
    BY BothBases, Bases DEF IsBase
  <1>2. \A n \in Nat : R(n) \in Nat
    BY <1>1, DigitsMakeNumbers
  <1>3. \A n \in Nat : n < ByteValues => R(n) = 0
    <2>1. \A n, B \in Nat : n < B => n \div B = 0
      BY Z3
    <2> QED BY <1>1, <2>1 DEF RestOf
  <1>4. R(value) < ByteValues
    <2>1. R(value) * ByteValues + LowOf(ByteValues, value) = value
          /\ LowOf(ByteValues, value) \in 0 .. (ByteValues - 1) /\ R(value) \in Nat
      BY <1>1, DigitsMakeNumbers
    <2>2. value < ByteValues * ByteValues
      BY Bases
    <2>3. \A r, l, B \in Nat : r * B + l < B * B /\ B > 0 => r < B
      <3> SUFFICES ASSUME NEW r \in Nat, NEW l \in Nat, NEW B \in Nat, B > 0, r >= B
                   PROVE  ~ (r * B + l < B * B)
        OBVIOUS
      <3>1. r * B >= B * B
        OBVIOUS
      <3>2. r * B \in Nat /\ B * B \in Nat
        OBVIOUS
      <3> QED BY <3>1, <3>2
    <2>4. LowOf(ByteValues, value) \in Nat
      BY <1>1, <2>1
    <2> HIDE DEF R
    <2>5. R(value) * ByteValues + LowOf(ByteValues, value) < ByteValues * ByteValues
      BY <2>1, <2>2
    <2> QED BY <1>1, <2>1, <2>3, <2>4, <2>5
  <1>5. R(R(value)) = 0 /\ R(0) = 0
    <2> HIDE DEF R
    <2> QED BY <1>1, <1>2, <1>3, <1>4
  <1>6. R(R(R(R(R(R(R(value))))))) = 0
    <2> HIDE DEF R
    <2> QED BY <1>5
  <1> QED BY <1>1, <1>6 DEF Holds

\* What is behind an integer, and what it is.
LEMMA BehindInteger ==
  ASSUME NEW base, IsBase(base), NEW q \in Bytes, HasInteger(base, q)
  PROVE  /\ IntegerLength(base, q) \in Packets!Lengths
         /\ IntegerLength(base, q) \in 1 .. Length(q)
         /\ IntegerValue(base, q) \in Nat
         /\ Behind(base, q) \in Bytes
         /\ Length(Behind(base, q)) = Length(q) - IntegerLength(base, q)
  <1> DEFINE length == IntegerLength(base, q)
             n == Length(q)
  <1>1. length \in Packets!Lengths
    BY DEF IntegerLength, Packets!Lengths
  <1>2. length \in 1 .. n /\ n \in Nat
    <2>1. n > 0 /\ length <= n /\ n \in Nat
      BY LengthIsNat DEF HasInteger
    <2> HIDE DEF length, n
    <2> QED BY <1>1, <2>1 DEF Packets!Lengths
  <1>3. Behind(base, q) \in Bytes /\ Length(Behind(base, q)) = n - length
    <2>1. Behind(base, q) = Cut(q, length + 1, n)
      BY DEF Behind
    <2> HIDE DEF length
    <2>2. IsCut(Cut(q, length + 1, n), q, length + 1, n)
      BY <1>2, CutIs
    <2> QED BY <1>2, <2>1, <2>2 DEF IsCut
  <1>4. IntegerValue(base, q) \in Nat
    <2> DEFINE u == [q EXCEPT ![1] = @ % Quarter(base)]
    <2>1. q \in Seq(Nat) /\ Len(q) = n
      <3>1. q \in Seq(Link!Byte) /\ Link!Byte \subseteq Nat
        BY Bases DEF Bytes
      <3> QED BY <3>1, WiderSequence DEF Length
    <2>2. q[1] % Quarter(base) \in Nat
      <3>1. q[1] \in Nat
        <4>1. 1 \in 1 .. Len(q)
          BY <1>2, <2>1
        <4> QED BY <2>1, <4>1, ElementOfSeq
      <3>2. Quarter(base) \in Nat /\ Quarter(base) > 0
        BY DEF IsBase
      <3> QED BY <3>1, <3>2
    <2>3. u \in Seq(Nat) /\ Len(u) = n
      <3>1. u = [q EXCEPT ![1] = q[1] % Quarter(base)]
        OBVIOUS
      <3> HIDE DEF u
      <3> QED BY <1>2, <2>1, <2>2, <3>1, ExceptSeq
    <2>4. IntegerValue(base, q) = Reading(base, u, length)
      BY DEF IntegerValue
    <2> HIDE DEF u
    <2>5. \A k \in 1 .. length : u[k] \in Nat
      <3> SUFFICES ASSUME NEW k \in 1 .. length PROVE u[k] \in Nat
        OBVIOUS
      <3>1. k \in 1 .. Len(u)
        BY <1>2, <2>3
      <3> QED BY <2>3, <3>1, ElementOfSeq
    <2>6. base \in Nat
      BY DEF IsBase
    <2> HIDE DEF length
    <2>7. CASE length = 1
      BY <2>4, <2>5, <2>7 DEF Reading
    <2>8. CASE length = 2
      <3>1. u[1] \in Nat /\ u[2] \in Nat
        BY <2>5, <2>8
      <3> QED BY <2>4, <2>6, <2>8, <3>1 DEF Reading, PairIn
    <2>9. CASE length = 4
      <3>1. u[1] \in Nat /\ u[2] \in Nat /\ u[3] \in Nat /\ u[4] \in Nat
        BY <2>5, <2>9
      <3>2. PairIn(base, u) \in Nat
        BY <2>6, <3>1 DEF PairIn
      <3> QED BY <2>4, <2>6, <2>9, <3>1, <3>2 DEF Reading, QuadIn
    <2>10. CASE length = 8
      <3>1. /\ u[1] \in Nat /\ u[2] \in Nat /\ u[3] \in Nat /\ u[4] \in Nat
            /\ u[5] \in Nat /\ u[6] \in Nat /\ u[7] \in Nat /\ u[8] \in Nat
        BY <2>5, <2>10
      <3>2. PairIn(base, u) \in Nat
        BY <2>6, <3>1 DEF PairIn
      <3>3. QuadIn(base, u) \in Nat
        BY <2>6, <3>1, <3>2 DEF QuadIn
      <3>4. (QuadIn(base, u) * base + u[5]) * base + u[6] \in Nat
        BY <2>6, <3>1, <3>3
      <3>5. OctadIn(base, u) \in Nat
        BY <2>6, <3>1, <3>4 DEF OctadIn
      <3> QED BY <2>4, <2>10, <3>5 DEF Reading
    <2> QED BY <1>1, <2>7, <2>8, <2>9, <2>10 DEF Packets!Lengths, length
  <1> QED BY <1>1, <1>2, <1>3, <1>4

-----------------------------------------------------------------------------
(* QUIC packets *)

\* What is cut out behind the front is cut out of the rest.
LEMMA CutBehind ==
  ASSUME NEW front \in Bytes, NEW rest \in Bytes, NEW q, q = Cat(front, rest),
         NEW i \in Nat, NEW j \in Nat, i >= 1, j <= Length(rest), i <= j + 1
  PROVE  Cut(q, Length(front) + i, Length(front) + j) = Cut(rest, i, j)
  <1> DEFINE part == Cut(rest, i, j)
             a == Length(front) + i - 1
             n == j + 1 - i
  <1>1. IsCut(part, rest, i, j)
    BY CutIs
  <1>2. part \in Bytes /\ Length(part) = n /\ \A k \in 1 .. n : At(part, k) = At(rest, i + k - 1)
    BY <1>1 DEF IsCut
  <1> HIDE DEF part
  <1>3. /\ q \in Bytes /\ Length(front) \in Nat /\ Length(rest) \in Nat
        /\ Length(q) = Length(front) + Length(rest)
        /\ \A k \in 1 .. Length(rest) : At(q, Length(front) + k) = At(rest, k)
    <2>1. IsJoined(q, front, rest)
      BY Joins
    <2> QED BY <2>1 DEF IsJoined
  <1>4. a \in Nat /\ n \in Nat /\ a + n <= Length(q) /\ a + 1 = Length(front) + i
        /\ a + n = Length(front) + j
    BY <1>3
  <1>5. \A k \in 1 .. n : At(q, a + k) = At(part, k)
    <2> SUFFICES ASSUME NEW k \in 1 .. n PROVE At(q, a + k) = At(part, k)
      OBVIOUS
    <2>1. i + k - 1 \in 1 .. Length(rest) /\ Length(front) + (i + k - 1) = a + k
      BY <1>3
    <2> HIDE DEF a, n
    <2> QED BY <1>2, <1>3, <2>1
  <1> HIDE DEF a, n
  <1>6. Cut(q, a + 1, a + n) = part
    BY <1>2, <1>3, <1>4, <1>5, CutOfHead
  <1> QED BY <1>4, <1>6 DEF part

\* The pieces of a header with connection IDs are found again in front of anything.
IsHeader(q, first, g, more) ==
  /\ q \in Bytes
  /\ Length(q) = 7 + Length(g.dcid) + Length(g.scid) + Length(more)
  /\ At(q, 1) = first
  /\ Packets!HasLongHeader(q)
  /\ Packets!DcidLength(q) = Length(g.dcid)
  /\ Packets!ScidLength(q) = Length(g.scid)
  /\ Packets!VersionIn(q) = g.version
  /\ Packets!DcidIn(q) = g.dcid
  /\ Packets!ScidIn(q) = g.scid
  /\ Packets!AfterHeader(q) = more

LEMMA OneByte ==
  ASSUME NEW x \in Link!Byte
  PROVE  <<x>> \in Bytes /\ Length(<<x>>) = 1 /\ At(<<x>>, 1) = x
  BY DEF Bytes, Length, At

\* The version and the connection IDs of a long header are read back.
LEMMA LongHeaderComesBack ==
  ASSUME NEW first \in Link!Byte, NEW g, NEW more \in Bytes,
         g.version \in Bytes, Length(g.version) = 4,
         g.dcid \in Bytes, Length(g.dcid) \in Link!Byte,
         g.scid \in Bytes, Length(g.scid) \in Link!Byte
  PROVE  /\ Packets!LongHeaderBytes(first, g) \in Bytes
         /\ IsHeader(Cat(Packets!LongHeaderBytes(first, g), more), first, g, more)
  <1> DEFINE m == Length(g.dcid)
             n == Length(g.scid)
             l == Length(more)
             r5 == Cat(g.scid, more)
             r4 == Cat(<<n>>, r5)
             r3 == Cat(g.dcid, r4)
             r2 == Cat(<<m>>, r3)
             r1 == Cat(g.version, r2)
             q == Cat(<<first>>, r1)
             h1 == Cat(<<first>>, g.version)
             h2 == Cat(h1, <<m>>)
             h3 == Cat(h2, g.dcid)
             h4 == Cat(h3, <<n>>)
             h5 == Cat(h4, g.scid)
  <1>1. m \in Nat /\ n \in Nat /\ l \in Nat
    BY LengthIsNat
  <1>2. /\ <<first>> \in Bytes /\ Length(<<first>>) = 1 /\ At(<<first>>, 1) = first
        /\ <<m>> \in Bytes /\ Length(<<m>>) = 1 /\ At(<<m>>, 1) = m
        /\ <<n>> \in Bytes /\ Length(<<n>>) = 1 /\ At(<<n>>, 1) = n
    BY OneByte
  <1>3. Packets!LongHeaderBytes(first, g) = h5
    BY DEF Packets!LongHeaderBytes, Length, Cat
  <1> HIDE DEF m, n, l, r1, r2, r3, r4, r5, q, h1, h2, h3, h4, h5
  <1>4. IsJoined(r5, g.scid, more) /\ r5 \in Bytes
    <2>1. IsJoined(r5, g.scid, more)
      BY Joins DEF r5
    <2> QED BY <2>1 DEF IsJoined
  <1>5. IsJoined(r4, <<n>>, r5) /\ r4 \in Bytes
    <2>1. IsJoined(r4, <<n>>, r5)
      BY <1>2, <1>4, Joins DEF r4
    <2> QED BY <2>1 DEF IsJoined
  <1>6. IsJoined(r3, g.dcid, r4) /\ r3 \in Bytes
    <2>1. IsJoined(r3, g.dcid, r4)
      BY <1>5, Joins DEF r3
    <2> QED BY <2>1 DEF IsJoined
  <1>7. IsJoined(r2, <<m>>, r3) /\ r2 \in Bytes
    <2>1. IsJoined(r2, <<m>>, r3)
      BY <1>2, <1>6, Joins DEF r2
    <2> QED BY <2>1 DEF IsJoined
  <1>8. IsJoined(r1, g.version, r2) /\ r1 \in Bytes
    <2>1. IsJoined(r1, g.version, r2)
      BY <1>7, Joins DEF r1
    <2> QED BY <2>1 DEF IsJoined
  <1>9. IsJoined(q, <<first>>, r1) /\ q \in Bytes
    <2>1. IsJoined(q, <<first>>, r1)
      BY <1>2, <1>8, Joins DEF q
    <2> QED BY <2>1 DEF IsJoined
  <1>10. /\ h1 \in Bytes /\ h2 \in Bytes /\ h3 \in Bytes /\ h4 \in Bytes /\ h5 \in Bytes
    <2>0. \A a, b \in Bytes : Cat(a, b) \in Bytes
      BY Joins DEF IsJoined
    <2>1. h1 \in Bytes
      BY <1>2, <2>0 DEF h1
    <2>2. h2 \in Bytes
      BY <1>2, <2>0, <2>1 DEF h2
    <2>3. h3 \in Bytes
      BY <2>0, <2>2 DEF h3
    <2>4. h4 \in Bytes
      BY <1>2, <2>0, <2>3 DEF h4
    <2>5. h5 \in Bytes
      BY <2>0, <2>4 DEF h5
    <2> QED BY <2>1, <2>2, <2>3, <2>4, <2>5
  <1>11. Cat(h5, more) = q
    <2>1. Cat(h5, more) = Cat(h4, r5)
      BY <1>10, CatMoves DEF h5, r5
    <2>2. Cat(h4, r5) = Cat(h3, r4)
      BY <1>2, <1>4, <1>10, CatMoves DEF h4, r4
    <2>3. Cat(h3, r4) = Cat(h2, r3)
      BY <1>5, <1>10, CatMoves DEF h3, r3
    <2>4. Cat(h2, r3) = Cat(h1, r2)
      BY <1>2, <1>6, <1>10, CatMoves DEF h2, r2
    <2>5. Cat(h1, r2) = Cat(<<first>>, r1)
      BY <1>2, <1>7, CatMoves DEF h1, r1
    <2> QED BY <2>1, <2>2, <2>3, <2>4, <2>5 DEF q
  <1>12. /\ Length(r5) = n + l /\ Length(r4) = 1 + n + l /\ Length(r3) = m + 1 + n + l
         /\ Length(r2) = 2 + m + n + l /\ Length(r1) = 6 + m + n + l
         /\ Length(q) = 7 + m + n + l
    <2>1. Length(r5) = n + l
      BY <1>4 DEF IsJoined, n, l
    <2>2. Length(r4) = 1 + n + l
      BY <1>1, <1>2, <1>5, <2>1 DEF IsJoined
    <2>3. Length(r3) = m + 1 + n + l
      BY <1>1, <1>6, <2>2 DEF IsJoined, m
    <2>4. Length(r2) = 2 + m + n + l
      BY <1>1, <1>2, <1>7, <2>3 DEF IsJoined
    <2>5. Length(r1) = 6 + m + n + l
      BY <1>1, <1>8, <2>4 DEF IsJoined
    <2>6. Length(q) = 7 + m + n + l
      BY <1>1, <1>2, <1>9, <2>5 DEF IsJoined
    <2> QED BY <2>1, <2>2, <2>3, <2>4, <2>5, <2>6
  <1>13. At(q, 1) = first
    <2>1. 1 \in 1 .. Length(<<first>>)
      BY <1>2
    <2> QED BY <1>2, <1>9, <2>1 DEF IsJoined
  <1>14. At(q, 6) = m
    <2>1. 1 \in 1 .. Length(<<m>>) /\ 1 \in 1 .. Length(r2) /\ 5 \in 1 .. Length(r1)
      BY <1>1, <1>2, <1>12
    <2>2. At(r2, 1) = m
      BY <1>2, <1>7, <2>1 DEF IsJoined
    <2>3. At(r1, 4 + 1) = At(r2, 1)
      BY <1>8, <2>1 DEF IsJoined
    <2>4. At(q, 1 + 5) = At(r1, 5)
      BY <1>2, <1>9, <2>1 DEF IsJoined
    <2>5. 4 + 1 = 5 /\ 1 + 5 = 6
      OBVIOUS
    <2> QED BY <2>2, <2>3, <2>4, <2>5
  <1>15. Cut(q, 2, 5) = g.version
    <2>1. Cut(q, 1 + 1, 1 + 4) = Cut(r1, 1, 4)
      <3>1. 4 <= Length(r1) /\ 1 \in Nat /\ 4 \in Nat /\ 1 >= 1 /\ 1 <= 4 + 1
        BY <1>1, <1>12
      <3>2. Cut(q, Length(<<first>>) + 1, Length(<<first>>) + 4) = Cut(r1, 1, 4)
        BY <1>2, <1>8, <3>1, CutBehind DEF q
      <3> QED BY <1>2, <3>2
    <2>2. Cut(r1, 1, 4) = g.version
      BY <1>8 DEF IsJoined
    <2>3. 1 + 1 = 2 /\ 1 + 4 = 5
      OBVIOUS
    <2> QED BY <2>1, <2>2, <2>3
  \* what is behind the length of the first ID
  <1> DEFINE h == h2
  <1>16. /\ q = Cat(h, r3) /\ h \in Bytes /\ Length(h) = 6
    <2>1. Cat(h2, r3) = Cat(h1, r2)
      BY <1>2, <1>6, <1>10, CatMoves DEF h2, r2
    <2>2. Cat(h1, r2) = Cat(<<first>>, r1)
      BY <1>2, <1>7, CatMoves DEF h1, r1
    <2>3. IsJoined(Cat(h2, r3), h2, r3)
      BY <1>6, <1>10, Joins
    <2>4. Cat(h2, r3) = q
      BY <2>1, <2>2 DEF q
    <2>5. Length(q) = Length(h2) + Length(r3) /\ Length(h2) \in Nat /\ Length(r3) \in Nat
      BY <2>3, <2>4 DEF IsJoined
    <2>6. Length(h2) = 6
      BY <1>1, <1>12, <2>5
    <2> QED BY <1>10, <2>4, <2>6
  <1> HIDE DEF h
  <1>17. /\ \A k \in 1 .. Length(r3) : At(q, 6 + k) = At(r3, k)
    <2>1. IsJoined(q, h, r3)
      BY <1>6, <1>16, Joins
    <2> QED BY <1>16, <2>1 DEF IsJoined
  <1>18. Cut(q, 7, 6 + m) = g.dcid
    <2>1. m <= Length(r3) /\ 1 \in Nat /\ 1 >= 1 /\ 1 <= m + 1
      BY <1>1, <1>12
    <2>2. Cut(q, Length(h) + 1, Length(h) + m) = Cut(r3, 1, m)
      BY <1>1, <1>6, <1>16, <2>1, CutBehind
    <2>3. Cut(r3, 1, m) = g.dcid
      BY <1>6 DEF IsJoined, m
    <2>4. Length(h) + 1 = 7 /\ Length(h) + m = 6 + m
      BY <1>16
    <2> QED BY <2>2, <2>3, <2>4
  <1>19. At(q, 7 + m) = n
    <2>1. 1 \in 1 .. Length(<<n>>) /\ 1 \in 1 .. Length(r4) /\ m + 1 \in 1 .. Length(r3)
          /\ 6 + (m + 1) = 7 + m
      BY <1>1, <1>2, <1>12
    <2>2. At(r4, 1) = n
      BY <1>2, <1>5, <2>1 DEF IsJoined
    <2>3. At(r3, m + 1) = At(r4, 1)
      BY <1>6, <2>1 DEF IsJoined, m
    <2>4. At(q, 6 + (m + 1)) = At(r3, m + 1)
      BY <1>17, <2>1
    <2> QED BY <2>1, <2>2, <2>3, <2>4
  <1>20. Cut(q, 8 + m, 7 + m + n) = g.scid
    <2>1. /\ 1 + n <= Length(r4) /\ 2 \in Nat /\ 2 >= 1 /\ 1 + n \in Nat /\ 2 <= (1 + n) + 1
          /\ m + 2 \in Nat /\ m + (1 + n) \in Nat /\ m + 2 >= 1 /\ m + (1 + n) <= Length(r3)
          /\ m + 2 <= (m + (1 + n)) + 1
          /\ n <= Length(r5) /\ 1 \in Nat /\ 1 >= 1 /\ 1 <= n + 1
          /\ Length(h) + (m + 2) = 8 + m /\ Length(h) + (m + (1 + n)) = 7 + m + n
      BY <1>1, <1>12, <1>16
    <2>2. Cut(q, Length(h) + (m + 2), Length(h) + (m + (1 + n))) = Cut(r3, m + 2, m + (1 + n))
      BY <1>6, <1>16, <2>1, CutBehind
    <2>3. Cut(r3, Length(g.dcid) + 2, Length(g.dcid) + (1 + n)) = Cut(r4, 2, 1 + n)
      BY <1>5, <2>1, CutBehind DEF r3
    <2>4. Cut(r4, Length(<<n>>) + 1, Length(<<n>>) + n) = Cut(r5, 1, n)
      BY <1>1, <1>2, <1>4, <2>1, CutBehind DEF r4
    <2>5. Cut(r5, 1, n) = g.scid
      BY <1>4 DEF IsJoined, n
    <2>6. Length(<<n>>) + 1 = 2 /\ Length(<<n>>) + n = 1 + n
      BY <1>2
    <2> QED BY <2>1, <2>2, <2>3, <2>4, <2>5, <2>6 DEF m
  <1>21. Cut(q, 8 + m + n, Length(q)) = more
    <2> DEFINE i == 1 + n + l
    <2>1. /\ 2 + n \in Nat /\ i \in Nat /\ 2 + n >= 1 /\ i <= Length(r4) /\ 2 + n <= i + 1
          /\ m + (2 + n) \in Nat /\ m + i \in Nat /\ m + (2 + n) >= 1 /\ m + i <= Length(r3)
          /\ m + (2 + n) <= (m + i) + 1
          /\ n + 1 \in Nat /\ n + l \in Nat /\ n + 1 >= 1 /\ n + l <= Length(r5)
          /\ n + 1 <= (n + l) + 1
          /\ Length(h) + (m + (2 + n)) = 8 + m + n /\ Length(h) + (m + i) = Length(q)
      BY <1>1, <1>12, <1>16
    <2>2. Cut(q, Length(h) + (m + (2 + n)), Length(h) + (m + i)) = Cut(r3, m + (2 + n), m + i)
      <3> HIDE DEF i
      <3> QED BY <1>6, <1>16, <2>1, CutBehind
    <2>3. Cut(r3, Length(g.dcid) + (2 + n), Length(g.dcid) + i) = Cut(r4, 2 + n, i)
      <3> HIDE DEF i
      <3> QED BY <1>5, <2>1, CutBehind DEF r3
    <2>4. Cut(r4, Length(<<n>>) + (n + 1), Length(<<n>>) + (n + l)) = Cut(r5, n + 1, n + l)
      BY <1>1, <1>2, <1>4, <2>1, CutBehind DEF r4
    <2>5. Cut(r5, n + 1, n + l) = more
      BY <1>4 DEF IsJoined, n, l
    <2>6. Length(<<n>>) + (n + 1) = 2 + n /\ Length(<<n>>) + (n + l) = i
      BY <1>1, <1>2
    <2> HIDE DEF i
    <2> QED BY <2>1, <2>2, <2>3, <2>4, <2>5, <2>6 DEF m
  <1>22. Packets!DcidLength(q) = m
    BY <1>14 DEF Packets!DcidLength, At
  <1>23. Packets!ScidLength(q) = n
    BY <1>19, <1>22 DEF Packets!ScidLength, At
  <1>24. Packets!HasLongHeader(q)
    <2>1. Len(q) = 7 + m + n + l
      BY <1>12 DEF Length
    <2>2. Len(q) >= 6 /\ Len(q) >= 7 + m /\ Len(q) >= 7 + m + n
      BY <1>1, <2>1
    <2> QED BY <1>22, <1>23, <2>2 DEF Packets!HasLongHeader
  <1>25. /\ Packets!VersionIn(q) = g.version
         /\ Packets!DcidIn(q) = g.dcid
         /\ Packets!ScidIn(q) = g.scid
         /\ Packets!AfterHeader(q) = more
    BY <1>15, <1>18, <1>20, <1>21, <1>22, <1>23
       DEF Packets!VersionIn, Packets!DcidIn, Packets!ScidIn, Packets!AfterHeader,
           Packets!From, Cut, Length
  <1>26. IsHeader(q, first, g, more)
    BY <1>9, <1>12, <1>13, <1>22, <1>23, <1>24, <1>25 DEF IsHeader, m, n, l
  <1> QED BY <1>3, <1>10, <1>11, <1>26

\* What the builders of packets are given.
IsGivenPacket(g) ==
  /\ g.type \in Packets!ProtectedTypes \cup {"Retry", "Short", "VersionNegotiation", "Unknown"}
  /\ g.low \in Nat
  /\ g.version \in Bytes /\ Length(g.version) = 4
  /\ g.dcid \in Bytes /\ Length(g.dcid) <= 20
  /\ g.scid \in Bytes /\ Length(g.scid) <= 20
  /\ g.token \in Bytes /\ Length(g.token) < Link!WordValues
  /\ g.body \in Bytes /\ Length(g.body) < Link!WordValues
  /\ g.widths # <<>> => g.widths[1] \in Packets!Lengths /\ g.widths[2] \in Packets!Lengths
  /\ g.type \notin {"Initial", "Retry"} => g.token = <<>>
  /\ g.type = "Short" => g.scid = <<>>
  /\ g.type = "Unknown" =>
        g.version \notin Packets!Versions \cup {Packets!NEGOTIATION} /\ g.low < 128
  /\ Packets!BuildAllowed(g)

\* A packet that is read as it was given.
IsPacketRead(p, g) ==
  /\ p.type = g.type
  /\ p.first = At(Packets!PacketBytes(g), 1)
  /\ Seen(p) = Seen(g)

LEMMA EmptyBytes == <<>> \in Bytes /\ Length(<<>>) = 0
  BY DEF Bytes, Length

LEMMA CatEmpty ==
  ASSUME NEW q \in Bytes
  PROVE  Cat(q, <<>>) = q /\ Cat(<<>>, q) = q
  BY DEF Bytes, Cat

LEMMA CatTyped ==
  ASSUME NEW p \in Bytes, NEW q \in Bytes
  PROVE  Cat(p, q) \in Bytes /\ Length(Cat(p, q)) = Length(p) + Length(q)
  BY Joins DEF IsJoined

\* A quotient and a remainder are unique.
LEMMA Division ==
  \A c \in Int, d \in Nat, q \in Int, r \in Int :
     (c = d * q + r /\ 0 <= r /\ r < d) => c % d = r /\ c \div d = q
  OBVIOUS

\* The type in the first byte of a long header.
LEMMA TypesComeBack ==
  ASSUME NEW version \in Packets!Versions, NEW type \in Packets!ProtectedTypes \cup {"Retry"}
  PROVE  /\ Packets!RawType(version, type) \in 0 .. 3
         /\ Packets!LongType(version, Packets!RawType(version, type)) = type
         /\ version # Packets!NEGOTIATION
  <1> DEFINE names == Packets!TypeNames(version)
             k == CHOOSE k \in 1 .. 4 : names[k] = type
  <1>1. version = Packets!V1 \/ version = Packets!V2
    BY DEF Packets!Versions
  <1>2. Packets!V1 # Packets!V2 /\ Packets!V1 # Packets!NEGOTIATION
        /\ Packets!V2 # Packets!NEGOTIATION
    <2>1. /\ Packets!V1[1] = 0 /\ Packets!V1[4] = 1 /\ Packets!V2[1] = 107
          /\ Packets!NEGOTIATION[1] = 0 /\ Packets!NEGOTIATION[4] = 0
      BY DEF Packets!V1, Packets!V2, Packets!NEGOTIATION
    <2> QED BY <2>1
  <1>3. \E i \in 1 .. 4 : names[i] = type
    <2>1. type \in {"Initial", "ZeroRtt", "Handshake", "Retry"}
      BY DEF Packets!ProtectedTypes
    <2>2. CASE version = Packets!V1
      <3>1. names = <<"Initial", "ZeroRtt", "Handshake", "Retry">>
        BY <2>2 DEF Packets!TypeNames
      <3> QED BY <2>1, <3>1
    <2>3. CASE version = Packets!V2
      <3>1. names = <<"Retry", "Initial", "ZeroRtt", "Handshake">>
        BY <1>2, <2>3 DEF Packets!TypeNames
      <3> QED BY <2>1, <3>1
    <2> QED BY <1>1, <2>2, <2>3
  <1> HIDE DEF names
  <1>4. k \in 1 .. 4 /\ names[k] = type
    BY <1>3
  <1>5. Packets!RawType(version, type) = k - 1
    BY DEF Packets!RawType, names
  <1> HIDE DEF k
  <1>6. Packets!RawType(version, type) \in 0 .. 3 /\ Packets!RawType(version, type) + 1 = k
    BY <1>4, <1>5
  <1> QED BY <1>1, <1>2, <1>4, <1>6 DEF Packets!LongType, names

\* The type bits of a long header.
LEMMA FirstByte ==
  ASSUME NEW raw \in 0 .. 3, NEW low \in Nat, low < 16, NEW first, first = 192 + 16 * raw + low
  PROVE  /\ first \in 0 .. 255 /\ first >= 128
         /\ (first \div 64) % 2 = 1
         /\ (first \div 16) % 4 = raw
  <1>1. first = 64 * 3 + (16 * raw + low) /\ 0 <= 16 * raw + low /\ 16 * raw + low < 64
        /\ first \in Int /\ 16 * raw + low \in Int
    OBVIOUS
  <1>2. first = 16 * (12 + raw) + low /\ 0 <= low /\ low \in Int /\ 12 + raw \in Int
    OBVIOUS
  <1>3. first \div 64 = 3
    <2>1. 64 \in Nat /\ 3 \in Int
      OBVIOUS
    <2> QED BY <1>1, <2>1, Division
  <1>4. first \div 16 = 12 + raw
    <2>1. 16 \in Nat
      OBVIOUS
    <2> QED BY <1>1, <1>2, <2>1, Division
  <1>5. (12 + raw) % 4 = raw
    <2>1. 12 + raw = 4 * 3 + raw /\ 0 <= raw /\ raw < 4 /\ raw \in Int /\ 4 \in Nat /\ 3 \in Int
      OBVIOUS
    <2> QED BY <1>2, <2>1, Division
  <1>6. 3 % 2 = 1
    OBVIOUS
  <1>7. first \in 0 .. 255 /\ first >= 128
    OBVIOUS
  <1> QED BY <1>3, <1>4, <1>5, <1>6, <1>7

\* Bytes behind their length, in any length that holds it.
IsBlock(q, data, rest) ==
  /\ q \in Bytes
  /\ Packets!HasBlock(q)
  /\ Packets!VarIntIn(q) = Length(data)
  /\ Packets!Block(q) = data
  /\ Packets!AfterBlock(q) = rest

\* Bytes behind their length, in any width that holds it.
LEMMA BlockComesBack ==
  ASSUME NEW data \in Bytes, NEW rest \in Bytes, NEW length \in Packets!Lengths,
         Holds(ByteValues, Length(data), length)
  PROVE  IsBlock(Cat(IntegerBytes(ByteValues, Length(data), length), Cat(data, rest)),
                 data, rest)
  <1> DEFINE more == Cat(data, rest)
             q == Cat(IntegerBytes(ByteValues, Length(data), length), more)
             n == Length(data)
  <1>1. n \in Nat /\ IsBase(ByteValues)
    BY LengthIsNat, BothBases
  <1>2. IsJoined(more, data, rest) /\ more \in Bytes
    <2>1. IsJoined(more, data, rest)
      BY Joins
    <2> QED BY <2>1 DEF IsJoined
  <1> HIDE DEF more, n
  <1>3. IsRead(q, ByteValues, n, length, more)
    BY <1>1, <1>2, IntegerComesBack DEF n
  <1> HIDE DEF q
  <1>4. /\ q \in Bytes /\ Packets!HasVarInt(q) /\ Packets!VarIntIn(q) = n
        /\ Packets!AfterVarInt(q) = more
    BY <1>3, PacketIntegers DEF IsRead
  <1>5. /\ Length(more) = n + Length(rest) /\ Length(rest) \in Nat
        /\ Cut(more, 1, n) = data /\ Cut(more, n + 1, n + Length(rest)) = rest
    BY <1>2 DEF IsJoined, n
  <1>6. Packets!HasBlock(q)
    <2>1. n <= Length(more)
      BY <1>1, <1>5
    <2> QED BY <1>4, <2>1 DEF Packets!HasBlock, Length
  <1>7. Packets!Block(q) = data
    BY <1>4, <1>5 DEF Packets!Block, Packets!Leading, Cut
  <1>8. Packets!AfterBlock(q) = rest
    <2>1. Cut(more, n + 1, Length(more)) = rest
      BY <1>5
    <2> QED BY <1>4, <2>1 DEF Packets!AfterBlock, Packets!From, Cut, Length
  <1> QED BY <1>4, <1>6, <1>7, <1>8 DEF IsBlock, q, n, more

\* The lengths in long headers are written so that they hold.
LEMMA WrittenHolds ==
  ASSUME NEW g, IsGivenPacket(g), g.type \in Packets!ProtectedTypes
  PROVE  /\ \E length \in Packets!Lengths :
               /\ Holds(ByteValues, Length(g.token), length)
               /\ Packets!Written(Len(g.token), g.widths, 1)
                     = IntegerBytes(ByteValues, Length(g.token), length)
         /\ \E length \in Packets!Lengths :
               /\ Holds(ByteValues, Length(g.body), length)
               /\ Packets!Written(Len(g.body), g.widths, 2)
                     = IntegerBytes(ByteValues, Length(g.body), length)
  <1>1. /\ Length(g.token) \in Nat /\ Length(g.token) < Link!WordValues
        /\ Length(g.body) \in Nat /\ Length(g.body) < Link!WordValues
    BY LengthIsNat DEF IsGivenPacket
  <1>2. Packets!WidthsFit(g)
    BY DEF IsGivenPacket, Packets!BuildAllowed
  <1>3. CASE g.widths = <<>>
    <2>1. Holds(ByteValues, Length(g.token), 8) /\ Holds(ByteValues, Length(g.body), 8)
      BY <1>1, WordsFit
    <2>2. /\ Packets!Written(Len(g.token), g.widths, 1)
               = IntegerBytes(ByteValues, Length(g.token),
                              Shortest(ByteValues, Length(g.token)))
          /\ Packets!Written(Len(g.body), g.widths, 2)
               = IntegerBytes(ByteValues, Length(g.body),
                              Shortest(ByteValues, Length(g.body)))
      BY <1>3, PacketIntegers DEF Packets!Written, Length
    <2> QED BY <2>1, <2>2, ShortestHolds
  <1>4. CASE g.widths # <<>>
    <2>1. /\ g.widths[1] \in Packets!Lengths /\ g.widths[2] \in Packets!Lengths
      BY <1>4 DEF IsGivenPacket
    <2>2. /\ Holds(ByteValues, Length(g.token), g.widths[1])
          /\ Holds(ByteValues, Length(g.body), g.widths[2])
      BY <1>2, <1>4, PacketIntegers DEF Packets!WidthsFit, Length
    <2>3. /\ Packets!Written(Len(g.token), g.widths, 1)
               = IntegerBytes(ByteValues, Length(g.token), g.widths[1])
          /\ Packets!Written(Len(g.body), g.widths, 2)
               = IntegerBytes(ByteValues, Length(g.body), g.widths[2])
      BY <1>4, PacketIntegers DEF Packets!Written, Length
    <2> QED BY <2>1, <2>2, <2>3
  <1> QED BY <1>3, <1>4

\* A protected packet is read in front of anything, and its length with it.
LEMMA ProtectedComesBack ==
  ASSUME NEW g, IsGivenPacket(g), g.type \in Packets!ProtectedTypes, NEW rest \in Bytes,
         NEW context
  PROVE  LET b == Packets!PacketBytes(g)
             p == Packets!PacketIn(Cat(b, rest), context)
         IN  /\ b \in Bytes /\ Length(b) > 0
             /\ IsPacketRead(p, g)
             /\ p.length = Length(b)
             /\ At(b, 1) = 192 + 16 * Packets!RawType(g.version, g.type) + g.low
  <1> DEFINE b == Packets!PacketBytes(g)
             q == Cat(b, rest)
             p == Packets!PacketIn(q, context)
             raw == Packets!RawType(g.version, g.type)
             first == 192 + 16 * raw + g.low
             header == Packets!LongHeaderBytes(first, g)
             tokenBytes == IF g.type = "Initial" THEN Packets!TokenBytes(g) ELSE <<>>
             size == Packets!Written(Len(g.body), g.widths, 2)
  <1>1. /\ g.version \in Packets!Versions /\ g.low \in Nat /\ g.low < 16
        /\ Length(g.body) >= 2 /\ Packets!ProtectedTypes = {"Initial", "ZeroRtt", "Handshake"}
        /\ g.body \in Bytes /\ g.token \in Bytes /\ g.dcid \in Bytes /\ g.scid \in Bytes
        /\ g.version \in Bytes /\ Length(g.version) = 4
        /\ Length(g.dcid) <= 20 /\ Length(g.scid) <= 20
    BY DEF IsGivenPacket, Packets!BuildAllowed, Length, Packets!ProtectedTypes
  <1>2. raw \in 0 .. 3 /\ Packets!LongType(g.version, raw) = g.type
        /\ g.version # Packets!NEGOTIATION
    BY <1>1, TypesComeBack
  <1> HIDE DEF raw
  <1>3. /\ first \in 0 .. 255 /\ first >= 128 /\ (first \div 64) % 2 = 1
        /\ (first \div 16) % 4 = raw
    BY <1>1, <1>2, FirstByte
  <1> HIDE DEF first
  <1>4. first \in Link!Byte /\ Length(g.dcid) \in Link!Byte /\ Length(g.scid) \in Link!Byte
    <2>1. Length(g.dcid) \in Nat /\ Length(g.scid) \in Nat
      BY <1>1, LengthIsNat
    <2>2. Length(g.dcid) \in 0 .. 96 /\ Length(g.scid) \in 0 .. 96
      BY <1>1, <2>1
    <2> QED BY <1>3, <2>2, SmallBytes, LinkBase
  <1>5. b = Cat(Cat(Cat(header, tokenBytes), size), g.body)
    BY DEF Packets!PacketBytes, Packets!ProtectedBytes, Cat, raw, first
  <1>6. PICK l2 \in Packets!Lengths :
           /\ Holds(ByteValues, Length(g.body), l2)
           /\ size = IntegerBytes(ByteValues, Length(g.body), l2)
    BY WrittenHolds
  <1>7. PICK l1 \in Packets!Lengths :
           /\ Holds(ByteValues, Length(g.token), l1)
           /\ Packets!Written(Len(g.token), g.widths, 1)
                 = IntegerBytes(ByteValues, Length(g.token), l1)
    BY WrittenHolds
  <1> DEFINE tokenSize == IntegerBytes(ByteValues, Length(g.token), l1)
             tail == Cat(size, Cat(g.body, rest))
             more == Cat(tokenBytes, tail)
  <1>8. size \in Bytes /\ tokenSize \in Bytes
    <2>1. IsBase(ByteValues) /\ Length(g.body) \in Nat /\ Length(g.token) \in Nat
      BY <1>1, LengthIsNat, BothBases
    <2>2. IntegerBytes(ByteValues, Length(g.body), l2) \in Bytes
      BY <1>6, <2>1, EmptyBytes, IntegerComesBack
    <2>3. tokenSize \in Bytes
      BY <1>7, <2>1, EmptyBytes, IntegerComesBack
    <2> QED BY <1>6, <2>2, <2>3
  <1>9. tokenBytes = IF g.type = "Initial" THEN Cat(tokenSize, g.token) ELSE <<>>
    BY <1>7 DEF Packets!TokenBytes, Cat
  <1> HIDE DEF b, q, p, header, tokenBytes, size, tokenSize, tail, more
  <1>10. tokenBytes \in Bytes
    BY <1>1, <1>8, <1>9, CatTyped, EmptyBytes
  <1>11. tail \in Bytes /\ IsBlock(tail, g.body, rest)
    <2>1. IsBlock(Cat(size, Cat(g.body, rest)), g.body, rest)
      BY <1>1, <1>6, BlockComesBack
    <2> QED BY <2>1 DEF IsBlock, tail
  <1>12. more \in Bytes
    BY <1>10, <1>11, CatTyped DEF more
  <1>13. header \in Bytes /\ IsHeader(Cat(header, more), first, g, more)
    BY <1>1, <1>4, <1>12, LongHeaderComesBack DEF header
  <1>14. b \in Bytes /\ q = Cat(header, more)
    <2>1. Cat(header, tokenBytes) \in Bytes
      BY <1>10, <1>13, CatTyped
    <2>2. Cat(Cat(header, tokenBytes), size) \in Bytes
      BY <1>8, <2>1, CatTyped
    <2>3. b \in Bytes
      BY <1>1, <1>5, <2>2, CatTyped
    <2>4. q = Cat(Cat(Cat(header, tokenBytes), size), Cat(g.body, rest))
      BY <1>1, <1>5, <2>2, CatMoves DEF q
    <2>5. Cat(g.body, rest) \in Bytes
      BY <1>1, CatTyped
    <2>6. q = Cat(Cat(header, tokenBytes), tail)
      BY <1>8, <2>1, <2>4, <2>5, CatMoves DEF tail
    <2>7. q = Cat(header, more)
      BY <1>10, <1>11, <1>13, <2>6, CatMoves DEF more
    <2> QED BY <2>3, <2>7
  <1>15. /\ q \in Bytes /\ At(q, 1) = first
         /\ Packets!HasLongHeader(q)
         /\ Packets!DcidLength(q) = Length(g.dcid)
         /\ Packets!ScidLength(q) = Length(g.scid)
         /\ Packets!VersionIn(q) = g.version
         /\ Packets!DcidIn(q) = g.dcid
         /\ Packets!ScidIn(q) = g.scid
         /\ Packets!AfterHeader(q) = more
    BY <1>13, <1>14 DEF IsHeader
  <1>16. At(b, 1) = first /\ Length(b) > 0 /\ Length(q) = Length(b) + Length(rest)
         /\ Length(b) \in Nat /\ Length(rest) \in Nat
    <2>1. IsJoined(q, b, rest)
      BY <1>14, Joins DEF q
    <2>2. Length(q) = 7 + Length(g.dcid) + Length(g.scid) + Length(more)
      BY <1>13, <1>14 DEF IsHeader
    <2>3. Length(b) > 0
      <3>1. IsJoined(b, Cat(Cat(header, tokenBytes), size), g.body)
        <4>1. Cat(header, tokenBytes) \in Bytes
          BY <1>10, <1>13, CatTyped
        <4>2. Cat(Cat(header, tokenBytes), size) \in Bytes
          BY <1>8, <4>1, CatTyped
        <4> QED BY <1>1, <1>5, <4>2, Joins
      <3> QED BY <1>1, <3>1 DEF IsJoined
    <2>4. Length(b) \in Nat /\ 1 \in 1 .. Length(b)
      BY <2>1, <2>3 DEF IsJoined
    <2> QED BY <1>15, <2>1, <2>3, <2>4 DEF IsJoined
  <1> DEFINE behind == IF g.type = "Initial" THEN Packets!AfterBlock(more) ELSE more
             token == IF g.type = "Initial" THEN Packets!Block(more) ELSE <<>>
  <1>17. /\ behind = tail /\ token = g.token
         /\ g.type = "Initial" => Packets!HasBlock(more)
    <2>1. CASE g.type = "Initial"
      <3>1. more = Cat(tokenSize, Cat(g.token, tail))
        BY <1>1, <1>8, <1>9, <1>11, <2>1, CatMoves DEF more
      <3>2. IsBlock(more, g.token, tail)
        BY <1>1, <1>7, <1>11, <3>1, BlockComesBack DEF tokenSize
      <3> QED BY <2>1, <3>2 DEF IsBlock
    <2>2. CASE g.type # "Initial"
      <3>1. more = tail
        BY <1>9, <1>11, <2>2, CatEmpty DEF more
      <3>2. g.token = <<>>
        BY <1>1, <2>2 DEF IsGivenPacket
      <3> QED BY <2>2, <3>1, <3>2
    <2> QED BY <2>1, <2>2
  <1> HIDE DEF behind, token
  <1>18. /\ Packets!HasBlock(tail) /\ Packets!VarIntIn(tail) = Length(g.body)
         /\ Packets!Block(tail) = g.body /\ Packets!AfterBlock(tail) = rest
    BY <1>11 DEF IsBlock
  <1>19. Packets!ProtectedIn(g.type, q)
           = Packets!Packet(g.type, q, token, g.body, Len(q) - Len(rest))
    <2>1. Packets!HasFixedBit(q)
      BY <1>3, <1>15 DEF Packets!HasFixedBit, At
    <2>2. Packets!HasParsedCids(q)
      BY <1>1, <1>15 DEF Packets!HasParsedCids, Packets!MaximumCid
    <2>3. ~ (g.type = "Initial" /\ ~ Packets!HasBlock(Packets!AfterHeader(q)))
      BY <1>15, <1>17
    <2>4. ~ (Packets!VarIntIn(tail) < 2)
      <3>1. Length(g.body) \in Nat
        BY <1>1, LengthIsNat
      <3> QED BY <1>1, <1>18, <3>1
    <2>5. behind = (IF g.type = "Initial" THEN Packets!AfterBlock(Packets!AfterHeader(q))
                    ELSE Packets!AfterHeader(q))
          /\ token = (IF g.type = "Initial" THEN Packets!Block(Packets!AfterHeader(q)) ELSE <<>>)
      BY <1>15 DEF behind, token
    <2> QED BY <1>17, <1>18, <2>1, <2>2, <2>3, <2>4, <2>5 DEF Packets!ProtectedIn
  <1>20. p = Packets!ProtectedIn(g.type, q)
    <2>1. Packets!IsLong(q)
      BY <1>3, <1>15 DEF Packets!IsLong, At
    <2>2. Packets!RawTypeBits(q) = raw
      BY <1>3, <1>15 DEF Packets!RawTypeBits, At
    <2>3. p = Packets!LongIn(q)
      BY <1>15, <2>1 DEF Packets!PacketIn, p
    <2>4. g.type # "Retry" /\ g.type # "Unknown"
      BY <1>1
    <2> QED BY <1>2, <1>15, <2>2, <2>3, <2>4 DEF Packets!LongIn
  <1>21. /\ p.type = g.type /\ p.first = first /\ p.dcid = g.dcid /\ p.scid = g.scid
         /\ p.token = g.token /\ p.body = g.body /\ p.length = Len(q) - Len(rest)
    BY <1>15, <1>17, <1>19, <1>20 DEF Packets!Packet, At
  <1>22. p.length = Length(b)
    <2>1. Length(q) - Length(rest) = Length(b)
      BY <1>16
    <2> QED BY <1>21, <2>1 DEF Length
  <1>23. IsPacketRead(p, g)
    BY <1>16, <1>21 DEF IsPacketRead, Seen, b
  <1> QED BY <1>14, <1>16, <1>22, <1>23 DEF b, p, q, first, raw

\* The packets that take the rest of a datagram.
LEMMA RetryComesBack ==
  ASSUME NEW g, IsGivenPacket(g), g.type = "Retry", NEW context
  PROVE  LET b == Packets!PacketBytes(g)
         IN  /\ b \in Bytes /\ Length(b) > 0
             /\ IsPacketRead(Packets!PacketIn(b, context), g)
  <1> DEFINE b == Packets!PacketBytes(g)
             p == Packets!PacketIn(b, context)
             raw == Packets!RawType(g.version, "Retry")
             first == 192 + 16 * raw + g.low
             header == Packets!LongHeaderBytes(first, g)
             more == Cat(g.token, g.body)
  <1>1. /\ g.version \in Packets!Versions /\ g.low \in Nat /\ g.low < 16
        /\ g.token # <<>> /\ Length(g.body) = 16
        /\ g.body \in Bytes /\ g.token \in Bytes /\ g.dcid \in Bytes /\ g.scid \in Bytes
        /\ g.version \in Bytes /\ Length(g.version) = 4
        /\ Length(g.dcid) <= 20 /\ Length(g.scid) <= 20
    BY DEF IsGivenPacket, Packets!BuildAllowed, Length, Packets!TagLength
  <1>2. raw \in 0 .. 3 /\ Packets!LongType(g.version, raw) = "Retry"
        /\ g.version # Packets!NEGOTIATION
    BY <1>1, TypesComeBack
  <1> HIDE DEF raw
  <1>3. /\ first \in 0 .. 255 /\ first >= 128 /\ (first \div 64) % 2 = 1
        /\ (first \div 16) % 4 = raw
    <2>1. raw \in 0 .. 3 /\ g.low \in Nat /\ g.low < 16
      BY <1>1, <1>2
    <2> QED BY <2>1, FirstByte
  <1> HIDE DEF first
  <1>4. first \in Link!Byte /\ Length(g.dcid) \in Link!Byte /\ Length(g.scid) \in Link!Byte
    <2>1. Length(g.dcid) \in Nat /\ Length(g.scid) \in Nat
      BY <1>1, LengthIsNat
    <2>2. Length(g.dcid) \in 0 .. 96 /\ Length(g.scid) \in 0 .. 96
      <3>1. Length(g.dcid) <= 20 /\ Length(g.scid) <= 20
        BY <1>1
      <3> QED BY <2>1, <3>1
    <2> QED BY <1>3, <2>2, SmallBytes, LinkBase
  <1>5. b = Cat(Cat(header, g.token), g.body)
    <2>1. ~ (g.type \in Packets!ProtectedTypes)
      BY DEF Packets!ProtectedTypes
    <2> QED BY <2>1 DEF Packets!PacketBytes, Packets!RetryBytes, Cat, raw, first
  <1> HIDE DEF b, p, header, more
  <1>6. more \in Bytes /\ IsJoined(more, g.token, g.body)
    BY <1>1, CatTyped, Joins DEF more
  <1>7. header \in Bytes /\ IsHeader(Cat(header, more), first, g, more)
    BY <1>1, <1>4, <1>6, LongHeaderComesBack DEF header
  <1>8. b = Cat(header, more)
    BY <1>1, <1>5, <1>7, CatMoves DEF more
  <1>9. /\ b \in Bytes /\ At(b, 1) = first
        /\ Packets!HasLongHeader(b)
        /\ Packets!DcidLength(b) = Length(g.dcid)
        /\ Packets!ScidLength(b) = Length(g.scid)
        /\ Packets!VersionIn(b) = g.version
        /\ Packets!DcidIn(b) = g.dcid
        /\ Packets!ScidIn(b) = g.scid
        /\ Packets!AfterHeader(b) = more
        /\ Length(b) = 7 + Length(g.dcid) + Length(g.scid) + Length(more)
    BY <1>7, <1>8 DEF IsHeader
  <1>10. /\ Length(more) = Length(g.token) + 16 /\ Length(g.token) \in Nat
         /\ Length(g.token) >= 1
         /\ Cut(more, 1, Length(g.token)) = g.token
         /\ Cut(more, Length(g.token) + 1, Length(more)) = g.body
    <2>1. Length(g.token) \in Nat /\ Length(g.token) # 0
      BY <1>1 DEF Bytes, Length
    <2>2. /\ Length(more) = Length(g.token) + 16
          /\ Cut(more, 1, Length(g.token)) = g.token
          /\ Cut(more, Length(g.token) + 1, Length(g.token) + 16) = g.body
      BY <1>1, <1>6 DEF IsJoined
    <2> QED BY <2>1, <2>2
  <1>11. p = Packets!Packet("Retry", b, g.token, g.body, Len(b))
    <2>1. Packets!IsLong(b)
      BY <1>3, <1>9 DEF Packets!IsLong, At
    <2>2. Packets!RawTypeBits(b) = raw
      BY <1>3, <1>9 DEF Packets!RawTypeBits, At
    <2>3. p = Packets!LongIn(b)
      BY <1>9, <2>1 DEF Packets!PacketIn, p
    <2>4. p = Packets!RetryIn(b)
      BY <1>2, <1>9, <2>2, <2>3 DEF Packets!LongIn
    <2>5. Packets!HasFixedBit(b)
      BY <1>3, <1>9 DEF Packets!HasFixedBit, At
    <2>6. Packets!HasParsedCids(b)
      BY <1>1, <1>9 DEF Packets!HasParsedCids, Packets!MaximumCid
    <2>7. Len(more) - 16 = Length(g.token) /\ Len(more) - 16 + 1 = Length(g.token) + 1
      BY <1>10 DEF Length
    <2>8. ~ (Len(more) - 16 < 1)
      BY <1>10, <2>7
    <2>9. Packets!Leading(more, Len(more) - 16) = g.token
      BY <1>10, <2>7 DEF Packets!Leading, Cut
    <2>10. Packets!Trailing(more, 16) = g.body
      BY <1>10, <2>7 DEF Packets!Trailing, Cut, Length
    <2> QED BY <1>9, <2>4, <2>5, <2>6, <2>8, <2>9, <2>10 DEF Packets!RetryIn, Packets!TagLength
  <1>12. /\ p.type = "Retry" /\ p.first = first /\ p.dcid = g.dcid /\ p.scid = g.scid
         /\ p.token = g.token /\ p.body = g.body
    BY <1>9, <1>11 DEF Packets!Packet, At
  <1>13. Length(b) > 0
    BY <1>1, <1>9, <1>10, LengthIsNat
  <1> QED BY <1>9, <1>12, <1>13 DEF IsPacketRead, Seen, b, p

\* Packets that all versions share come back.
LEMMA InvariantComesBack ==
  ASSUME NEW g, IsGivenPacket(g), g.type \in {"VersionNegotiation", "Unknown"}, NEW context
  PROVE  LET b == Packets!PacketBytes(g)
         IN  /\ b \in Bytes /\ Length(b) > 0
             /\ IsPacketRead(Packets!PacketIn(b, context), g)
  <1> DEFINE b == Packets!PacketBytes(g)
             p == Packets!PacketIn(b, context)
             first == 128 + g.low
             header == Packets!LongHeaderBytes(first, g)
  <1>1. /\ g.low \in Nat /\ g.low < 128 /\ g.token = <<>>
        /\ g.body \in Bytes /\ g.dcid \in Bytes /\ g.scid \in Bytes
        /\ g.version \in Bytes /\ Length(g.version) = 4
        /\ Length(g.dcid) <= 20 /\ Length(g.scid) <= 20
        /\ g.type = "VersionNegotiation" =>
              /\ g.version = Packets!NEGOTIATION /\ g.body # <<>> /\ Len(g.body) % 4 = 0
        /\ g.type = "Unknown" =>
              g.version \notin Packets!Versions /\ g.version # Packets!NEGOTIATION
    BY DEF IsGivenPacket, Packets!BuildAllowed
  <1>2. first \in 0 .. 255 /\ first >= 128
    <2>1. g.low \in Nat /\ g.low < 128
      BY <1>1
    <2> QED BY <2>1
  <1> HIDE DEF first
  <1>3. first \in Link!Byte /\ Length(g.dcid) \in Link!Byte /\ Length(g.scid) \in Link!Byte
    <2>1. Length(g.dcid) \in Nat /\ Length(g.scid) \in Nat
      BY <1>1, LengthIsNat
    <2>2. Length(g.dcid) \in 0 .. 96 /\ Length(g.scid) \in 0 .. 96
      <3>1. Length(g.dcid) <= 20 /\ Length(g.scid) <= 20
        BY <1>1
      <3> QED BY <2>1, <3>1
    <2> QED BY <1>2, <2>2, SmallBytes, LinkBase
  <1>4. b = Cat(header, g.body)
    <2>1. ~ (g.type \in Packets!ProtectedTypes) /\ g.type # "Retry" /\ g.type # "Short"
      BY DEF Packets!ProtectedTypes
    <2> QED BY <2>1 DEF Packets!PacketBytes, Packets!InvariantBytes, Cat, first
  <1> HIDE DEF b, p, header
  <1>5. IsHeader(b, first, g, g.body)
    BY <1>1, <1>3, <1>4, LongHeaderComesBack DEF header
  <1>6. /\ b \in Bytes /\ At(b, 1) = first
        /\ Packets!HasLongHeader(b)
        /\ Packets!VersionIn(b) = g.version
        /\ Packets!DcidIn(b) = g.dcid
        /\ Packets!ScidIn(b) = g.scid
        /\ Packets!AfterHeader(b) = g.body
        /\ Length(b) = 7 + Length(g.dcid) + Length(g.scid) + Length(g.body)
    BY <1>5 DEF IsHeader
  <1>7. p = Packets!LongIn(b)
    <2>1. Packets!IsLong(b)
      BY <1>2, <1>6 DEF Packets!IsLong, At
    <2> QED BY <1>6, <2>1 DEF Packets!PacketIn, p
  <1>8. p = Packets!Packet(g.type, b, <<>>, g.body, Len(b))
    <2>1. CASE g.type = "VersionNegotiation"
      <3>1. p = Packets!VersionNegotiationIn(b)
        BY <1>1, <1>6, <1>7, <2>1 DEF Packets!LongIn
      <3> QED BY <1>1, <1>6, <2>1, <3>1 DEF Packets!VersionNegotiationIn
    <2>2. CASE g.type = "Unknown"
      <3>1. Packets!LongType(Packets!VersionIn(b), Packets!RawTypeBits(b)) = "Unknown"
        BY <1>1, <1>6, <2>2 DEF Packets!LongType
      <3> QED BY <1>1, <1>6, <1>7, <2>2, <3>1 DEF Packets!LongIn
    <2> QED BY <2>1, <2>2
  <1>9. /\ p.type = g.type /\ p.first = first /\ p.dcid = g.dcid /\ p.scid = g.scid
        /\ p.token = g.token /\ p.body = g.body
    BY <1>1, <1>6, <1>8 DEF Packets!Packet, At
  <1>10. Length(b) > 0
    BY <1>1, <1>6, LengthIsNat
  <1> QED BY <1>6, <1>9, <1>10 DEF IsPacketRead, Seen, b, p

\* A short header needs the length of the ID.
LEMMA ShortComesBack ==
  ASSUME NEW g, IsGivenPacket(g), g.type = "Short", NEW context
  PROVE  LET b == Packets!PacketBytes(g)
             p == Packets!PacketIn(b, context)
         IN  /\ b \in Bytes /\ Length(b) > 0
             /\ context = <<Len(g.dcid)>> => IsPacketRead(p, g)
             /\ context = <<>> => p.type = "Error"
             /\ At(b, 1) = 64 + g.low
  <1> DEFINE b == Packets!PacketBytes(g)
             p == Packets!PacketIn(b, context)
             first == 64 + g.low
             m == Length(g.dcid)
             n == Length(g.body)
             header == Cat(<<first>>, g.dcid)
  <1>1. /\ g.low \in Nat /\ g.low < 64 /\ g.token = <<>> /\ g.scid = <<>>
        /\ g.body \in Bytes /\ g.dcid \in Bytes /\ m \in Nat /\ n \in Nat
    BY LengthIsNat DEF IsGivenPacket, Packets!BuildAllowed
  <1>2. first \in 0 .. 255 /\ ~ (first >= 128)
    <2>1. g.low \in Nat /\ g.low < 64
      BY <1>1
    <2> QED BY <2>1
  <1>3. b = Cat(header, g.body)
    <2>1. ~ (g.type \in Packets!ProtectedTypes) /\ g.type # "Retry"
      BY DEF Packets!ProtectedTypes
    <2> QED BY <2>1 DEF Packets!PacketBytes, Packets!ShortBytes, Cat, first
  <1> HIDE DEF b, p, header, first, m, n
  <1>4. first \in Link!Byte
    BY <1>2, LinkBase
  <1>5. <<first>> \in Bytes /\ Length(<<first>>) = 1 /\ At(<<first>>, 1) = first
    BY <1>4, OneByte
  <1>6. IsJoined(header, <<first>>, g.dcid) /\ header \in Bytes
    <2>1. IsJoined(header, <<first>>, g.dcid)
      BY <1>1, <1>5, Joins DEF header
    <2> QED BY <2>1 DEF IsJoined
  <1>7. IsJoined(b, header, g.body) /\ b \in Bytes
    <2>1. IsJoined(b, header, g.body)
      BY <1>1, <1>3, <1>6, Joins
    <2> QED BY <2>1 DEF IsJoined
  <1>8. Length(header) = 1 + m /\ Length(b) = 1 + m + n
    BY <1>1, <1>5, <1>6, <1>7 DEF IsJoined, m, n
  <1>9. At(b, 1) = first
    <2>1. 1 \in 1 .. Length(header) /\ 1 \in 1 .. Length(<<first>>)
      BY <1>1, <1>5, <1>8
    <2> QED BY <1>5, <1>6, <1>7, <2>1 DEF IsJoined
  <1>10. p = Packets!ShortIn(b, context)
    <2>1. ~ Packets!IsLong(b)
      BY <1>2, <1>9 DEF Packets!IsLong, At
    <2> QED BY <2>1 DEF Packets!PacketIn, p
  <1>11. ASSUME context = <<>> PROVE p.type = "Error"
    BY <1>10, <1>11 DEF Packets!ShortIn, Packets!Error
  <1>12. ASSUME context = <<Len(g.dcid)>> PROVE IsPacketRead(p, g)
    <2>1. context[1] = m /\ context # <<>>
      BY <1>12 DEF m, Length
    <2>2. Cut(b, 2, 1 + m) = g.dcid
      <3>1. b = Cat(<<first>>, Cat(g.dcid, g.body))
        BY <1>1, <1>3, <1>5, CatMoves DEF header
      <3>2. IsJoined(Cat(g.dcid, g.body), g.dcid, g.body) /\ Cat(g.dcid, g.body) \in Bytes
        BY <1>1, Joins, CatTyped
      <3>3. m <= Length(Cat(g.dcid, g.body)) /\ 1 \in Nat /\ 1 >= 1 /\ 1 <= m + 1
        BY <1>1, <3>2 DEF IsJoined, m, n
      <3>4. Cut(b, Length(<<first>>) + 1, Length(<<first>>) + m)
              = Cut(Cat(g.dcid, g.body), 1, m)
        BY <1>1, <1>5, <3>1, <3>2, <3>3, CutBehind
      <3>5. Cut(Cat(g.dcid, g.body), 1, m) = g.dcid
        BY <3>2 DEF IsJoined, m
      <3>6. Length(<<first>>) + 1 = 2 /\ Length(<<first>>) + m = 1 + m
        BY <1>1, <1>5
      <3> QED BY <3>4, <3>5, <3>6
    <2>3. Cut(b, 2 + m, Length(b)) = g.body
      <3>1. Cut(b, Length(header) + 1, Length(header) + n) = g.body
        BY <1>7 DEF IsJoined, n
      <3>2. Length(header) + 1 = 2 + m /\ Length(header) + n = Length(b)
        BY <1>1, <1>8
      <3> QED BY <3>1, <3>2
    <2>4. ~ (Len(b) < 1 + m)
      BY <1>1, <1>8 DEF Length
    <2>5. p = [type |-> "Short", first |-> b[1], version |-> <<>>,
               dcid |-> g.dcid, scid |-> <<>>, token |-> <<>>, body |-> g.body,
               length |-> Len(b)]
      BY <1>10, <2>1, <2>2, <2>3, <2>4 DEF Packets!ShortIn, Packets!From, Cut, Length
    <2>6. /\ p.type = "Short" /\ p.first = first /\ p.dcid = g.dcid /\ p.scid = g.scid
          /\ p.token = g.token /\ p.body = g.body
      BY <1>1, <1>9, <2>5 DEF At
    <2> QED BY <1>9, <2>6 DEF IsPacketRead, Seen, b
  <1>13. Length(b) > 0
    BY <1>1, <1>8
  <1> QED BY <1>7, <1>9, <1>11, <1>12, <1>13 DEF b, p, first

\* Any packet, in front of anything if it has a length.
THEOREM PacketComesBack ==
  ASSUME NEW g, IsGivenPacket(g), NEW context, NEW rest \in Bytes,
         g.type \in Packets!ProtectedTypes \/ rest = <<>>
  PROVE  LET b == Packets!PacketBytes(g)
             p == Packets!PacketIn(Cat(b, rest), context)
         IN  /\ b \in Bytes /\ Length(b) > 0
             /\ \/ IsPacketRead(p, g)
                \/ g.type = "Short" /\ context = <<>> /\ p.type = "Error"
                \/ g.type = "Short" /\ context \notin {<<>>, <<Len(g.dcid)>>}
             /\ g.type \in Packets!ProtectedTypes => p.length = Length(b)
  <1> DEFINE b == Packets!PacketBytes(g)
             p == Packets!PacketIn(Cat(b, rest), context)
             q == Packets!PacketIn(b, context)
  <1>1. CASE g.type \in Packets!ProtectedTypes
    BY <1>1, ProtectedComesBack
  <1>2. CASE g.type \notin Packets!ProtectedTypes
    <2>1. /\ b \in Bytes /\ Length(b) > 0
          /\ \/ IsPacketRead(q, g)
             \/ g.type = "Short" /\ context = <<>> /\ q.type = "Error"
             \/ g.type = "Short" /\ context \notin {<<>>, <<Len(g.dcid)>>}
      <3>1. CASE g.type = "Retry"
        BY <3>1, RetryComesBack
      <3>2. CASE g.type \in {"VersionNegotiation", "Unknown"}
        BY <3>2, InvariantComesBack
      <3>3. CASE g.type = "Short"
        BY <3>3, ShortComesBack
      <3> QED BY <1>2, <3>1, <3>2, <3>3 DEF IsGivenPacket
    <2> HIDE DEF b
    <2>2. Cat(b, rest) = b
      BY <1>2, <2>1, CatEmpty
    <2> QED BY <1>2, <2>1, <2>2 DEF b
  <1> QED BY <1>1, <1>2

-----------------------------------------------------------------------------
(* WalksOver over bytes: the packets of a datagram, the frames of a payload *)

\* What holds at the end, and wherever it holds from there on, holds from the start.
LEMMA DownwardsFromAll ==
  ASSUME NEW N \in Nat, NEW S, N + 1 \in S,
         \A k \in 1 .. N : (\A j \in (k + 1) .. (N + 1) : j \in S) => k \in S
  PROVE  \A k \in 1 .. (N + 1) : k \in S
  <1> DEFINE T == {k \in 1 .. (N + 1) : \A j \in k .. (N + 1) : j \in S}
  <1>1. N + 1 \in T
    OBVIOUS
  <1>2. ASSUME NEW k \in 1 .. N, k + 1 \in T PROVE k \in T
    <2>1. \A j \in (k + 1) .. (N + 1) : j \in S
      BY <1>2
    <2>2. k \in S
      BY <2>1
    <2>3. \A j \in k .. (N + 1) : j = k \/ j \in (k + 1) .. (N + 1)
      OBVIOUS
    <2> QED BY <2>1, <2>2, <2>3
  <1>3. \A k \in 1 .. (N + 1) : k \in T
    <2> HIDE DEF T
    <2> QED BY <1>1, <1>2, Downwards
  <1> QED BY <1>3

\* A walk over n places: each has an item, and some go on at a later place.
WalksOver(f, X, n, item, goes, onward) ==
  /\ f \in [1 .. (n + 1) -> Seq(X)]
  /\ \A i \in 1 .. (n + 1) :
        f[i] = IF i > n THEN <<>>
               ELSE IF i \in goes THEN <<item[i]>> \o f[onward[i]] ELSE <<item[i]>>

\* A walk that always goes onward ends.
LEMMA Walking ==
  ASSUME NEW X, NEW n \in Nat, NEW item \in [1 .. n -> X], NEW goes \in SUBSET (1 .. n),
         NEW onward \in [goes -> 1 .. (n + 1)], \A i \in goes : onward[i] > i
  PROVE  \E f : WalksOver(f, X, n, item, goes, onward)
  <1> DEFINE D == 1 .. (n + 1)
             V == Seq(X)
             stops == D \ goes
             rank == [i \in D |-> (n + 1) - i]
             base == [i \in stops |-> IF i > n THEN <<>> ELSE <<item[i]>>]
             step == [p \in (D \ stops) \X V |-> <<item[p[1]]>> \o p[2]]
  <1>1. goes \subseteq D /\ D \ stops = goes /\ stops \in SUBSET D
    <2>1. 1 .. n \subseteq D
      OBVIOUS
    <2> HIDE DEF D
    <2> QED BY <2>1
  <1>2. rank \in [D -> 0 .. n]
    OBVIOUS
  <1>3. base \in [stops -> V]
    <2> SUFFICES ASSUME NEW i \in stops PROVE (IF i > n THEN <<>> ELSE <<item[i]>>) \in V
      OBVIOUS
    <2>1. CASE i > n
      BY <2>1
    <2>2. CASE ~ (i > n)
      <3>1. item[i] \in X
        BY <2>2
      <3> QED BY <2>2, <3>1
    <2> QED BY <2>1, <2>2
  <1>4. step \in [(D \ stops) \X V -> V]
    <2> SUFFICES ASSUME NEW p \in goes \X V PROVE <<item[p[1]]>> \o p[2] \in V
      BY <1>1
    <2>1. p[1] \in goes /\ p[2] \in V
      OBVIOUS
    <2>2. item[p[1]] \in X
      BY <2>1
    <2> HIDE DEF V
    <2>3. <<item[p[1]]>> \in Seq(X) /\ p[2] \in Seq(X)
      BY <2>1, <2>2 DEF V
    <2> QED BY <2>3, ConcatProperties DEF V
  <1>5. onward \in [D \ stops -> D]
    BY <1>1
  <1>6. \A i \in D \ stops : rank[onward[i]] < rank[i]
    <2> SUFFICES ASSUME NEW i \in goes PROVE rank[onward[i]] < rank[i]
      BY <1>1
    <2>1. onward[i] \in D /\ i \in D /\ onward[i] > i
      BY <1>1
    <2>2. rank[onward[i]] = (n + 1) - onward[i] /\ rank[i] = (n + 1) - i
      BY <2>1
    <2> QED BY <2>1, <2>2
  <1>7. PICK f \in [D -> V] : Recurs(f, D, stops, base, onward, step)
    <2> HIDE DEF D, V, stops, base, step, rank
    <2> QED BY <1>1, <1>2, <1>3, <1>4, <1>5, <1>6, Recursion
  <1>8. ASSUME NEW i \in D
        PROVE  f[i] = IF i > n THEN <<>>
                      ELSE IF i \in goes THEN <<item[i]>> \o f[onward[i]] ELSE <<item[i]>>
    <2>1. f[i] = IF i \in stops THEN base[i] ELSE step[<<i, f[onward[i]]>>]
      BY <1>7 DEF Recurs
    <2>2. CASE i \in stops
      <3>1. i \notin goes /\ base[i] = IF i > n THEN <<>> ELSE <<item[i]>>
        BY <2>2
      <3> QED BY <2>1, <2>2, <3>1
    <2>3. CASE i \notin stops
      <3>1. i \in goes /\ ~ (i > n)
        BY <2>3
      <3>2. f[onward[i]] \in V
        <4>1. onward[i] \in D
          BY <3>1
        <4> HIDE DEF V, D
        <4> QED BY <1>7, <4>1
      <3>3. step[<<i, f[onward[i]]>>] = <<item[i]>> \o f[onward[i]]
        <4> HIDE DEF V
        <4> QED BY <1>1, <3>1, <3>2
      <3> HIDE DEF step
      <3> QED BY <2>1, <2>3, <3>1, <3>3
    <2> QED BY <2>2, <2>3
  <1> QED BY <1>7, <1>8 DEF WalksOver

\* A packet that has a length takes some of the bytes, and no more than there are.
LEMMA PacketLength ==
  ASSUME NEW q \in Bytes, Length(q) > 0, NEW context,
         Packets!PacketIn(q, context).type \in Packets!ProtectedTypes
  PROVE  Packets!PacketIn(q, context).length \in 1 .. Length(q)
  <1> DEFINE p == Packets!PacketIn(q, context)
             dl == Packets!DcidLength(q)
             sl == Packets!ScidLength(q)
             header == Packets!AfterHeader(q)
             type == Packets!LongType(Packets!VersionIn(q), Packets!RawTypeBits(q))
             n == Length(q)
  <1>1. Packets!ProtectedTypes = {"Initial", "ZeroRtt", "Handshake"} /\ n \in Nat
    BY LengthIsNat DEF Packets!ProtectedTypes
  <1>2. Packets!IsLong(q) /\ Packets!HasLongHeader(q)
    <2>1. CASE ~ Packets!IsLong(q)
      <3>1. p = Packets!ShortIn(q, context)
        BY <2>1 DEF Packets!PacketIn
      <3>2. p.type \in {"Error", "Short"}
        BY <3>1 DEF Packets!ShortIn, Packets!Error
      <3> QED BY <1>1, <3>2
    <2>2. CASE Packets!IsLong(q) /\ ~ Packets!HasLongHeader(q)
      <3>1. p = Packets!Error
        BY <2>2 DEF Packets!PacketIn
      <3> QED BY <1>1, <3>1 DEF Packets!Error
    <2> QED BY <2>1, <2>2
  <1>3. p = Packets!LongIn(q)
    BY <1>2 DEF Packets!PacketIn
  <1>4. p = Packets!ProtectedIn(type, q)
    <2>1. CASE Packets!VersionIn(q) = Packets!NEGOTIATION
      <3>1. p = Packets!VersionNegotiationIn(q)
        BY <1>3, <2>1 DEF Packets!LongIn
      <3>2. p.type \in {"Error", "VersionNegotiation"}
        BY <3>1 DEF Packets!VersionNegotiationIn, Packets!Error, Packets!Packet
      <3> QED BY <1>1, <3>2
    <2>2. CASE Packets!VersionIn(q) # Packets!NEGOTIATION /\ type = "Retry"
      <3>1. p = Packets!RetryIn(q)
        BY <1>3, <2>2 DEF Packets!LongIn
      <3>2. p.type \in {"Error", "Retry"}
        BY <3>1 DEF Packets!RetryIn, Packets!Error, Packets!Packet
      <3> QED BY <1>1, <3>2
    <2>3. CASE Packets!VersionIn(q) # Packets!NEGOTIATION /\ type # "Retry" /\ type = "Unknown"
      <3>1. p.type = type
        BY <1>3, <2>3 DEF Packets!LongIn, Packets!Packet
      <3> QED BY <1>1, <2>3, <3>1
    <2>4. CASE Packets!VersionIn(q) # Packets!NEGOTIATION /\ type # "Retry" /\ type # "Unknown"
      BY <1>3, <2>4 DEF Packets!LongIn
    <2> QED BY <2>1, <2>2, <2>3, <2>4
  <1>5. dl \in Nat /\ sl \in Nat /\ 7 + dl + sl <= n
    <2>1. Len(q) = n /\ Len(q) >= 6 /\ Len(q) >= 7 + dl /\ Len(q) >= 7 + dl + sl
      BY <1>2 DEF Packets!HasLongHeader, Length
    <2>2. dl \in Nat
      <3>1. 6 \in 1 .. n /\ dl = At(q, 6)
        BY <1>1, <2>1 DEF Packets!DcidLength, At
      <3> QED BY <3>1, ByteIn, Bases
    <2>3. sl \in Nat
      <3>1. sl = At(q, 7 + dl)
        BY DEF Packets!ScidLength, At
      <3> HIDE DEF dl, sl, n
      <3>2. 7 + dl \in 1 .. n
        BY <1>1, <2>1, <2>2
      <3>3. At(q, 7 + dl) \in Link!Byte
        BY <3>2, ByteIn DEF n
      <3> QED BY <3>1, <3>3, Bases
    <2> HIDE DEF dl, sl, n
    <2> QED BY <2>1, <2>2, <2>3
  <1> HIDE DEF p, type
  <1>6. header \in Bytes /\ Length(header) = n - 7 - dl - sl
    <2>1. header = Cut(q, 8 + dl + sl, n)
      BY DEF Packets!AfterHeader, Packets!From, Cut, Length
    <2> HIDE DEF dl, sl, header
    <2>2. /\ 8 + dl + sl \in Nat /\ 8 + dl + sl >= 1 /\ 8 + dl + sl <= n + 1
          /\ n + 1 - (8 + dl + sl) = n - 7 - dl - sl
      BY <1>1, <1>5
    <2>3. IsCut(Cut(q, 8 + dl + sl, n), q, 8 + dl + sl, n)
      BY <1>1, <2>2, CutIs
    <2> QED BY <2>1, <2>2, <2>3 DEF IsCut
  <1>7. ASSUME NEW r \in Bytes, Packets!HasBlock(r)
        PROVE  Packets!AfterBlock(r) \in Bytes /\ Length(Packets!AfterBlock(r)) < Length(r)
    <2> DEFINE t == Packets!AfterVarInt(r)
               v == Packets!VarIntIn(r)
    <2>1. HasInteger(ByteValues, r) /\ v <= Length(t)
      BY <1>7, PacketIntegers DEF Packets!HasBlock, Length
    <2>2. t = Behind(ByteValues, r) /\ v = IntegerValue(ByteValues, r)
      BY PacketIntegers
    <2> HIDE DEF t, v
    <2>3. /\ IntegerLength(ByteValues, r) \in 1 .. Length(r) /\ v \in Nat /\ t \in Bytes
          /\ Length(t) = Length(r) - IntegerLength(ByteValues, r)
      BY <2>1, <2>2, BothBases, BehindInteger
    <2>4. Packets!AfterBlock(r) = Cut(t, v + 1, Length(t))
      BY DEF Packets!AfterBlock, Packets!From, Cut, Length, t, v
    <2>5. Length(t) \in Nat /\ Length(r) \in Nat
      BY <2>3, LengthIsNat
    <2>6. IsCut(Cut(t, v + 1, Length(t)), t, v + 1, Length(t))
      <3>1. v + 1 \in Nat /\ v + 1 >= 1 /\ v + 1 <= Length(t) + 1
        BY <2>1, <2>3, <2>5
      <3> QED BY <2>3, <2>5, <3>1, CutIs
    <2>7. /\ Cut(t, v + 1, Length(t)) \in Bytes
          /\ Length(Cut(t, v + 1, Length(t))) = Length(t) + 1 - (v + 1)
      BY <2>6 DEF IsCut
    <2> QED BY <2>3, <2>4, <2>5, <2>7
  <1> DEFINE rest == IF type = "Initial" THEN Packets!AfterBlock(header) ELSE header
             token == IF type = "Initial" THEN Packets!Block(header) ELSE <<>>
  <1>8. /\ type = "Initial" => Packets!HasBlock(header)
        /\ Packets!HasBlock(rest)
        /\ p = Packets!Packet(type, q, token, Packets!Block(rest),
                              Len(q) - Len(Packets!AfterBlock(rest)))
    <2>1. p # Packets!Error
      <3>1. Packets!Error.type = "Error"
        BY DEF Packets!Error
      <3>2. p.type # "Error"
        BY <1>1 DEF p
      <3> QED BY <3>1, <3>2
    <2> HIDE DEF header
    <2> QED BY <1>4, <2>1 DEF Packets!ProtectedIn, header
  <1> HIDE DEF header, token
  <1>9. rest \in Bytes /\ Length(rest) <= Length(header)
    <2>1. Length(header) \in Nat
      BY <1>6, LengthIsNat
    <2>2. CASE type = "Initial"
      <3>1. Packets!AfterBlock(header) \in Bytes
            /\ Length(Packets!AfterBlock(header)) < Length(header)
        BY <1>6, <1>7, <1>8, <2>2
      <3>2. Length(Packets!AfterBlock(header)) \in Nat
        BY <3>1, LengthIsNat
      <3> QED BY <2>1, <2>2, <3>1, <3>2
    <2>3. CASE type # "Initial"
      BY <1>6, <2>1, <2>3
    <2> QED BY <2>2, <2>3
  <1> HIDE DEF rest
  <1>10. Packets!AfterBlock(rest) \in Bytes /\ Length(Packets!AfterBlock(rest)) < Length(rest)
    BY <1>7, <1>8, <1>9
  <1>11. p.length = n - Length(Packets!AfterBlock(rest))
    BY <1>8 DEF Packets!Packet, Length
  <1>12. Length(Packets!AfterBlock(rest)) \in Nat /\ Length(rest) \in Nat
    BY <1>9, <1>10, LengthIsNat
  <1> HIDE DEF n, dl, sl
  <1>13. n - Length(Packets!AfterBlock(rest)) \in 1 .. n
    BY <1>1, <1>5, <1>6, <1>9, <1>10, <1>12
  <1> QED BY <1>11, <1>13 DEF p, n

\* The walk over a datagram, from each of its bytes.
IsWalk(f, q, context) ==
  /\ Packets!PacketsIn(q, context) = f[1]
  /\ \A i \in 1 .. (Length(q) + 1) :
        LET p == Packets!PacketIn(Cut(q, i, Length(q)), context)
        IN  /\ Len(f[i]) \in Nat
            /\ f[i] = IF i > Length(q) THEN <<>>
                      ELSE IF p.type \in Packets!ProtectedTypes
                      THEN <<p>> \o f[i + p.length] ELSE <<p>>

\* PacketsIn walks over the packets of a datagram.
LEMMA PacketsWalk ==
  ASSUME NEW q \in Bytes, NEW context
  PROVE  /\ \E f : IsWalk(f, q, context)
         /\ Packets!PacketsIn(q, context)
               \in Seq({Packets!PacketIn(Cut(q, i, Length(q)), context) : i \in 1 .. Length(q)})
  <1> DEFINE n == Length(q)
             D == 1 .. (n + 1)
             P(i) == Packets!PacketIn(Cut(q, i, n), context)
             Body(f, i) == IF i > n THEN <<>>
                           ELSE IF P(i).type \in Packets!ProtectedTypes
                           THEN <<P(i)>> \o f[i + P(i).length] ELSE <<P(i)>>
             from == CHOOSE f : f = [i \in D |-> Body(f, i)]
             item == [i \in 1 .. n |-> P(i)]
             X == {P(i) : i \in 1 .. n}
             goes == {i \in 1 .. n : P(i).type \in Packets!ProtectedTypes}
             onward == [i \in goes |-> i + P(i).length]
  <1>1. Packets!PacketsIn(q, context) = from[1]
    BY DEF Packets!PacketsIn, Packets!From, Cut, Length
  <1>2. n \in Nat
    BY LengthIsNat
  <1>3. ASSUME NEW i \in goes PROVE P(i).length \in 1 .. (n + 1 - i)
    <2>1. i \in 1 .. n /\ P(i).type \in Packets!ProtectedTypes
      OBVIOUS
    <2>2. Cut(q, i, n) \in Bytes /\ Length(Cut(q, i, n)) = n + 1 - i
      <3>1. i \in Nat /\ i >= 1 /\ n <= Length(q) /\ i <= n + 1
        BY <1>2, <2>1
      <3>2. IsCut(Cut(q, i, n), q, i, n)
        BY <1>2, <3>1, CutIs
      <3> QED BY <3>2 DEF IsCut
    <2>3. Length(Cut(q, i, n)) > 0
      BY <1>2, <2>1, <2>2
    <2> QED BY <2>1, <2>2, <2>3, PacketLength
  <1>4. onward \in [goes -> D] /\ \A i \in goes : onward[i] > i
    <2> SUFFICES ASSUME NEW i \in goes PROVE i + P(i).length \in D /\ i + P(i).length > i
      OBVIOUS
    <2>1. i \in 1 .. n /\ P(i).length \in 1 .. (n + 1 - i)
      BY <1>3
    <2> HIDE DEF P, n
    <2> QED BY <1>2, <2>1
  <1>5. item \in [1 .. n -> X] /\ goes \in SUBSET (1 .. n)
    OBVIOUS
  <1> HIDE DEF P, X
  <1>6. PICK f \in [D -> Seq(X)] :
           \A i \in D : f[i] = IF i > n THEN <<>>
                               ELSE IF i \in goes THEN <<item[i]>> \o f[onward[i]]
                               ELSE <<item[i]>>
    <2>1. n \in Nat /\ onward \in [goes -> 1 .. (n + 1)] /\ (\A i \in goes : onward[i] > i)
          /\ item \in [1 .. n -> X] /\ goes \in SUBSET (1 .. n)
      BY <1>2, <1>4, <1>5
    <2> HIDE DEF goes, item, onward, n, X
    <2>2. \E f : WalksOver(f, X, n, item, goes, onward)
      BY <2>1, Walking
    <2> QED BY <2>2 DEF WalksOver
  <1>7. ASSUME NEW i \in D PROVE f[i] = Body(f, i)
    <2>1. f[i] = IF i > n THEN <<>>
                 ELSE IF i \in goes THEN <<item[i]>> \o f[onward[i]] ELSE <<item[i]>>
      BY <1>6
    <2>2. CASE i > n
      BY <2>1, <2>2
    <2>3. CASE ~ (i > n)
      <3>1. i \in 1 .. n /\ item[i] = P(i)
        BY <1>2, <2>3
      <3>2. i \in goes => onward[i] = i + P(i).length
        OBVIOUS
      <3>3. i \in goes <=> P(i).type \in Packets!ProtectedTypes
        BY <3>1
      <3> HIDE DEF goes, onward, item
      <3> QED BY <2>1, <2>3, <3>1, <3>2, <3>3
    <2> QED BY <2>2, <2>3
  <1>8. f = [i \in D |-> Body(f, i)]
    <2>1. f = [i \in D |-> f[i]]
      BY <1>6
    <2> HIDE DEF Body, D
    <2> QED BY <1>7, <2>1
  <1>9. from = [i \in D |-> Body(from, i)]
    <2> HIDE DEF Body, D
    <2> QED BY <1>8
  <1>10. \A i \in D : from[i] = Body(from, i)
    <2> HIDE DEF Body, D, from
    <2> QED BY <1>9
  <1>11. \A i \in 1 .. (n + 1) : i \in {j \in D : from[j] \in Seq(X)}
    <2> DEFINE S == {j \in D : from[j] \in Seq(X)}
    <2>1. n + 1 \in S
      <3>1. n + 1 \in D /\ n + 1 > n
        BY <1>2
      <3> HIDE DEF from
      <3>2. from[n + 1] = <<>>
        BY <1>10, <3>1
      <3>3. <<>> \in Seq(X)
        OBVIOUS
      <3> QED BY <3>1, <3>2, <3>3
    <2>2. ASSUME NEW i \in 1 .. n, \A j \in (i + 1) .. (n + 1) : j \in S
          PROVE  i \in S
      <3>1. i \in D /\ ~ (i > n) /\ P(i) \in X
        BY <1>2, <1>5
      <3>2. from[i] = IF i \in goes THEN <<P(i)>> \o from[i + P(i).length] ELSE <<P(i)>>
        <4> HIDE DEF from, D
        <4> QED BY <1>10, <3>1
      <3>3. <<P(i)>> \in Seq(X)
        BY <3>1
      <3>4. CASE i \in goes
        <4>1. i + P(i).length \in (i + 1) .. (n + 1)
          <5>1. P(i).length \in 1 .. (n + 1 - i)
            BY <1>3, <3>4
          <5> HIDE DEF n
          <5> QED BY <1>2, <5>1
        <4>2. from[i + P(i).length] \in Seq(X)
          <5> HIDE DEF from
          <5> QED BY <2>2, <4>1
        <4> HIDE DEF from
        <4>3. <<P(i)>> \o from[i + P(i).length] \in Seq(X)
          <5> HIDE DEF n
          <5> QED BY <3>3, <4>2, ConcatProperties
        <4> HIDE DEF goes
        <4> QED BY <3>1, <3>2, <3>4, <4>3
      <3>5. CASE i \notin goes
        <4> HIDE DEF from, goes
        <4> QED BY <3>1, <3>2, <3>3, <3>5
      <3> QED BY <3>4, <3>5
    <2> HIDE DEF S, n
    <2>3. \A i \in 1 .. (n + 1) : i \in S
      BY <1>2, <2>1, <2>2, DownwardsFromAll
    <2> QED BY <2>3 DEF S
  <1> HIDE DEF from
  <1>12. IsWalk(from, q, context)
    <2> SUFFICES ASSUME NEW i \in D
                 PROVE  Len(from[i]) \in Nat /\ from[i] = Body(from, i)
      BY <1>1 DEF IsWalk, P
    <2> QED BY <1>10, <1>11
  <1>13. from[1] \in Seq(X)
    BY <1>2, <1>11
  <1> QED BY <1>1, <1>12, <1>13 DEF X, P

-----------------------------------------------------------------------------
(* The packets of a datagram with one packet, with two, and with zeros *)

\* A packet that takes all of the bytes is the only one.
LEMMA PacketAlone ==
  ASSUME NEW q \in Bytes, Length(q) > 0, NEW context,
         NEW p, p = Packets!PacketIn(q, context),
         p.type \in Packets!ProtectedTypes => p.length = Length(q)
  PROVE  Packets!PacketsIn(q, context) = <<p>>
  <1> DEFINE n == Length(q)
  <1>1. n \in Nat /\ 1 \in 1 .. (n + 1) /\ n + 1 \in 1 .. (n + 1) /\ ~ (1 > n) /\ n + 1 > n
    BY LengthIsNat
  <1>2. PICK f : IsWalk(f, q, context)
    BY PacketsWalk
  <1>3. Cut(q, 1, Length(q)) = q
    BY CutAll
  <1>4. Packets!PacketsIn(q, context) = f[1]
    BY <1>2 DEF IsWalk
  <1>5. f[1] = IF p.type \in Packets!ProtectedTypes THEN <<p>> \o f[1 + p.length] ELSE <<p>>
    BY <1>1, <1>2, <1>3 DEF IsWalk
  <1>6. f[n + 1] = <<>>
    BY <1>1, <1>2 DEF IsWalk
  <1>7. CASE p.type \in Packets!ProtectedTypes
    <2>1. 1 + p.length = n + 1
      BY <1>1, <1>7
    <2>2. <<p>> \o <<>> = <<p>>
      OBVIOUS
    <2> HIDE DEF n
    <2> QED BY <1>4, <1>5, <1>6, <1>7, <2>1, <2>2
  <1>8. CASE p.type \notin Packets!ProtectedTypes
    BY <1>4, <1>5, <1>8
  <1> QED BY <1>7, <1>8

LEMMA TwoItems ==
  ASSUME NEW x, NEW y
  PROVE  <<x>> \o <<y>> = <<x, y>>
  <1> DEFINE S == {x, y}
             s == <<x>>
             t == <<y>>
             both == <<x, y>>
  <1>1. s \in Seq(S) /\ t \in Seq(S) /\ both \in Seq(S) /\ Len(s) = 1 /\ Len(t) = 1
        /\ Len(both) = 2 /\ s[1] = x /\ t[1] = y /\ both[1] = x /\ both[2] = y
    OBVIOUS
  <1> HIDE DEF s, t, both, S
  <1>2. /\ s \o t \in Seq(S) /\ Len(s \o t) = 2 /\ (s \o t)[1] = x /\ (s \o t)[2] = y
    BY <1>1, ConcatProperties
  <1>3. \A k \in 1 .. Len(both) : (s \o t)[k] = both[k]
    BY <1>1, <1>2
  <1>4. s \o t = both
    BY <1>1, <1>2, <1>3, SeqEqual
  <1> QED BY <1>4 DEF s, t, both

\* A protected packet in front of another, or of zeros, is followed by that one.
LEMMA PacketInFront ==
  ASSUME NEW front \in Bytes, Length(front) > 0, NEW rest \in Bytes, Length(rest) > 0,
         NEW context, NEW q, q = Cat(front, rest),
         NEW first, first = Packets!PacketIn(q, context),
         first.type \in Packets!ProtectedTypes, first.length = Length(front),
         NEW second, second = Packets!PacketIn(rest, context),
         second.type \in Packets!ProtectedTypes => second.length = Length(rest)
  PROVE  Packets!PacketsIn(q, context) = <<first, second>>
  <1> DEFINE m == Length(front)
             k == Length(rest)
             n == Length(q)
  <1>1. /\ q \in Bytes /\ n = m + k /\ m \in Nat /\ k \in Nat
        /\ Cut(q, m + 1, n) = rest
    <2>1. IsJoined(q, front, rest)
      BY Joins
    <2> QED BY <2>1, LengthIsNat DEF IsJoined
  <1> HIDE DEF m, k, n
  <1>2. /\ 1 \in 1 .. (n + 1) /\ m + 1 \in 1 .. (n + 1) /\ n + 1 \in 1 .. (n + 1)
        /\ ~ (1 > n) /\ ~ (m + 1 > n) /\ n + 1 > n
    BY <1>1 DEF m, k
  <1>3. PICK f : IsWalk(f, q, context)
    BY <1>1, PacketsWalk
  <1>4. Cut(q, 1, Length(q)) = q
    BY <1>1, CutAll
  <1>5. Packets!PacketsIn(q, context) = f[1]
    BY <1>3 DEF IsWalk
  <1>6. f[1] = <<first>> \o f[1 + first.length]
    BY <1>2, <1>3, <1>4 DEF IsWalk, n
  <1>7. f[m + 1] = IF second.type \in Packets!ProtectedTypes
                   THEN <<second>> \o f[m + 1 + second.length] ELSE <<second>>
    BY <1>1, <1>2, <1>3 DEF IsWalk, n
  <1>8. f[n + 1] = <<>>
    BY <1>2, <1>3 DEF IsWalk, n
  <1>9. f[m + 1] = <<second>>
    <2>1. CASE second.type \in Packets!ProtectedTypes
      <3>1. m + 1 + second.length = n + 1
        BY <1>1, <2>1 DEF k
      <3>2. <<second>> \o <<>> = <<second>>
        OBVIOUS
      <3> QED BY <1>7, <1>8, <2>1, <3>1, <3>2
    <2>2. CASE second.type \notin Packets!ProtectedTypes
      BY <1>7, <2>2
    <2> QED BY <2>1, <2>2
  <1>10. 1 + first.length = m + 1
    BY <1>1 DEF m
  <1>11. <<first>> \o <<second>> = <<first, second>>
    BY TwoItems
  <1> QED BY <1>5, <1>6, <1>9, <1>10, <1>11

\* Zeros are a short header, and no packet to those who read none.
LEMMA ZerosAreShort ==
  ASSUME NEW q \in Bytes, Length(q) > 0, At(q, 1) = 0, NEW context
  PROVE  Packets!PacketIn(q, context).type \in {"Error", "Short"}
  <1>1. ~ Packets!IsLong(q)
    BY DEF Packets!IsLong, At
  <1>2. Packets!PacketIn(q, context) = Packets!ShortIn(q, context)
    BY <1>1 DEF Packets!PacketIn
  <1> QED BY <1>2 DEF Packets!ShortIn, Packets!Error

\* What a receiver with such a connection ID gets for a given packet.
IsPacketGot(p, g, context) ==
  \/ IsPacketRead(p, g)
  \/ g.type = "Short" /\ context = <<>> /\ p.type = "Error"

\* A datagram of one packet comes back as this packet,
LEMMA OnePacketComesBack ==
  ASSUME NEW g, IsGivenPacket(g), NEW context,
         g.type = "Short" => context \in {<<>>, <<Len(g.dcid)>>}
  PROVE  /\ Packets!PacketBytes(g) \in Bytes
         /\ \E p : /\ Packets!PacketsIn(Packets!PacketBytes(g), context) = <<p>>
                   /\ IsPacketGot(p, g, context)
  <1> DEFINE b == Packets!PacketBytes(g)
             p == Packets!PacketIn(b, context)
  <1>1. /\ b \in Bytes /\ Length(b) > 0
        /\ \/ IsPacketRead(Packets!PacketIn(Cat(b, <<>>), context), g)
           \/ g.type = "Short" /\ context = <<>>
                 /\ Packets!PacketIn(Cat(b, <<>>), context).type = "Error"
           \/ g.type = "Short" /\ context \notin {<<>>, <<Len(g.dcid)>>}
        /\ g.type \in Packets!ProtectedTypes =>
              Packets!PacketIn(Cat(b, <<>>), context).length = Length(b)
    BY EmptyBytes, PacketComesBack
  <1>2. Cat(b, <<>>) = b
    BY <1>1, CatEmpty
  <1>3. IsPacketGot(p, g, context)
    BY <1>1, <1>2 DEF IsPacketGot
  <1>4. p.type \in Packets!ProtectedTypes => p.length = Length(b)
    <2>1. CASE IsPacketRead(p, g)
      BY <1>1, <1>2, <2>1 DEF IsPacketRead
    <2>2. CASE p.type = "Error"
      BY <2>2 DEF Packets!ProtectedTypes
    <2> QED BY <1>3, <2>1, <2>2 DEF IsPacketGot
  <1> HIDE DEF b, p
  <1>5. Packets!PacketsIn(b, context) = <<p>>
    BY <1>1, <1>4, PacketAlone DEF p
  <1> QED BY <1>1, <1>3, <1>5 DEF b

\* one of two packets as both in their order,
LEMMA TwoPacketsComeBack ==
  ASSUME NEW g, IsGivenPacket(g), g.type \in Packets!ProtectedTypes,
         NEW h, IsGivenPacket(h), h.type \in Packets!ProtectedTypes, NEW context
  PROVE  LET q == Cat(Packets!PacketBytes(g), Packets!PacketBytes(h))
         IN  /\ q \in Bytes
             /\ \E p, r : /\ Packets!PacketsIn(q, context) = <<p, r>>
                          /\ IsPacketRead(p, g) /\ IsPacketRead(r, h)
  <1> DEFINE b == Packets!PacketBytes(g)
             c == Packets!PacketBytes(h)
             q == Cat(b, c)
             p == Packets!PacketIn(q, context)
             r == Packets!PacketIn(c, context)
  <1>1. /\ c \in Bytes /\ Length(c) > 0
        /\ IsPacketRead(Packets!PacketIn(Cat(c, <<>>), context), h)
        /\ Packets!PacketIn(Cat(c, <<>>), context).length = Length(c)
    BY EmptyBytes, ProtectedComesBack
  <1>2. Cat(c, <<>>) = c
    BY <1>1, CatEmpty
  <1>3. IsPacketRead(r, h) /\ r.length = Length(c)
    BY <1>1, <1>2
  <1>4. b \in Bytes /\ Length(b) > 0 /\ IsPacketRead(p, g) /\ p.length = Length(b)
    BY <1>1, ProtectedComesBack
  <1> HIDE DEF b, c, p, r
  <1>5. p.type \in Packets!ProtectedTypes
    BY <1>4 DEF IsPacketRead
  <1>6. Packets!PacketsIn(q, context) = <<p, r>>
    <2> HIDE DEF q
    <2> QED BY <1>1, <1>3, <1>4, <1>5, PacketInFront DEF p, r, q
  <1>7. q \in Bytes
    BY <1>1, <1>4, CatTyped
  <1> QED BY <1>3, <1>4, <1>6, <1>7 DEF b, c

\* and one with zeros behind its packet as the packet and one more or an error.
LEMMA PacketAndZerosComeBack ==
  ASSUME NEW g, IsGivenPacket(g), g.type \in Packets!ProtectedTypes, NEW context,
         NEW zeros \in Bytes, Length(zeros) > 0, At(zeros, 1) = 0
  PROVE  LET q == Cat(Packets!PacketBytes(g), zeros)
         IN  /\ q \in Bytes
             /\ \E p, r : /\ Packets!PacketsIn(q, context) = <<p, r>>
                          /\ IsPacketRead(p, g) /\ r.type \in {"Error", "Short"}
  <1> DEFINE b == Packets!PacketBytes(g)
             q == Cat(b, zeros)
             p == Packets!PacketIn(q, context)
             r == Packets!PacketIn(zeros, context)
  <1>1. r.type \in {"Error", "Short"}
    BY ZerosAreShort
  <1>2. r.type \notin Packets!ProtectedTypes
    BY <1>1 DEF Packets!ProtectedTypes
  <1>3. b \in Bytes /\ Length(b) > 0 /\ IsPacketRead(p, g) /\ p.length = Length(b)
    BY ProtectedComesBack
  <1> HIDE DEF b, p, r
  <1>4. p.type \in Packets!ProtectedTypes
    BY <1>3 DEF IsPacketRead
  <1>5. Packets!PacketsIn(q, context) = <<p, r>>
    <2> HIDE DEF q
    <2> QED BY <1>2, <1>3, <1>4, PacketInFront DEF p, r, q
  <1>6. q \in Bytes
    BY <1>3, CatTyped
  <1> QED BY <1>1, <1>3, <1>5, <1>6 DEF b

-----------------------------------------------------------------------------
(* Whatever arrives, what is taken from it is bytes *)

\* Whatever arrives, what comes out of a layer is bytes.
LEMMA UpperLayerTyped ==
  ASSUME NEW payload \in Bytes, NEW nextHeader
  PROVE  Link!UpperLayer(nextHeader, payload) \in Bytes
  <1> DEFINE N == Length(payload)
             D == (1 .. (N + 1)) \X Link!Resolved
             At1(at) == Cut(payload, at[1], N)
             onward(at) == <<at[1] + Link!ExtensionLength(at[2], At1(at)), At(At1(at), 1)>>
  <1>1. N \in Nat /\ <<>> \in Bytes
    BY LengthIsNat, EmptyBytes
  <1>2. CASE nextHeader \notin Link!Resolved
    BY <1>1, <1>2 DEF Link!UpperLayer
  <1>3. CASE nextHeader \in Link!Resolved
    <2>1. PICK f : Walks(f, payload) /\ Link!UpperLayer(nextHeader, payload) = f[<<1, nextHeader>>]
      BY <1>3, UpperLayerWalks
    <2> DEFINE S == {k \in 1 .. (N + 1) : \A type \in Link!Resolved : f[<<k, type>>] \in Bytes}
    <2>2. ASSUME NEW k \in 1 .. (N + 1), NEW type \in Link!Resolved,
                 \A j \in (k + 1) .. (N + 1) : j \in S
          PROVE  f[<<k, type>>] \in Bytes
      <3> DEFINE at == <<k, type>>
                 b == Cut(payload, k, N)
                 i == k + Link!ExtensionLength(type, b)
      <3>1. at \in D /\ at[1] = k /\ at[2] = type
        OBVIOUS
      <3>2. b \in Bytes /\ Length(b) = N + 1 - k
        <4>1. k \in Nat /\ k >= 1 /\ N <= Length(payload) /\ k <= N + 1
          BY <1>1
        <4>2. IsCut(b, payload, k, N)
          BY <1>1, <4>1, CutIs
        <4> QED BY <4>2 DEF IsCut
      <3>3. f[at] = IF Goes(at, payload) THEN f[<<i, At(b, 1)>>]
                    ELSE IF type = Link!UDP THEN b ELSE <<>>
        BY <2>1, <3>1 DEF Walks
      <3>4. CASE Goes(at, payload)
        <4>1. Link!HasExtension(type, b) /\ At(b, 1) \in Link!Resolved
          BY <3>1, <3>4 DEF Goes
        <4> HIDE DEF b, at
        <4>2. /\ Link!ExtensionLength(type, b) \in Nat
              /\ Link!ExtensionLength(type, b) >= 8
              /\ Link!ExtensionLength(type, b) <= Length(b)
          BY <3>2, <4>1, ExtensionIsThere
        <4> HIDE DEF N
        <4>3. i \in (k + 1) .. (N + 1)
          BY <1>1, <3>2, <4>2
        <4> HIDE DEF i
        <4>4. i \in S
          BY <2>2, <4>3
        <4> QED BY <3>3, <3>4, <4>1, <4>4 DEF at
      <3>5. CASE ~ Goes(at, payload)
        BY <1>1, <3>2, <3>3, <3>5
      <3> QED BY <3>4, <3>5
    <2>3. N + 1 \in S
      <3>1. \A j \in (N + 2) .. (N + 1) : j \in S
        BY <1>1
      <3>2. N + 1 \in 1 .. (N + 1) /\ (N + 1) + 1 = N + 2
        BY <1>1
      <3> HIDE DEF N
      <3> QED BY <2>2, <3>1, <3>2
    <2>4. \A k \in 1 .. N : (\A j \in (k + 1) .. (N + 1) : j \in S) => k \in S
      <3> SUFFICES ASSUME NEW k \in 1 .. N, \A j \in (k + 1) .. (N + 1) : j \in S
                   PROVE  k \in S
        OBVIOUS
      <3>1. k \in 1 .. (N + 1)
        BY <1>1
      <3>2. \A type \in Link!Resolved : f[<<k, type>>] \in Bytes
        <4> HIDE DEF S, N
        <4> QED BY <2>2, <3>1
      <3> QED BY <3>1, <3>2
    <2> HIDE DEF S, N
    <2>5. \A k \in 1 .. (N + 1) : k \in S
      BY <1>1, <2>3, <2>4, DownwardsFromAll
    <2>6. 1 \in S
      BY <1>1, <2>5
    <2> QED BY <1>3, <2>1, <2>6 DEF S
  <1> QED BY <1>2, <1>3

LEMMA UdpPayloadTyped ==
  ASSUME NEW version, NEW source, NEW destination, NEW u \in Bytes,
         NEW r, r = Link!UdpIn(version, source, destination, u), r # Link!Nothing
  PROVE  r.payload \in Bytes
  <1> DEFINE size == Link!U16(Cut(u, 5, 6))
             datagram == Cut(u, 1, size)
  <1>1. /\ Length(u) >= 8 /\ size >= 8 /\ Length(u) >= size
        /\ r.payload = Cut(datagram, 8 + 1, Length(datagram))
    BY UdpInIsRead DEF UdpRead
  <1>2. Length(u) \in Nat
    BY LengthIsNat
  <1>3. size \in Nat
    <2>1. 5 \in 1 .. Length(u) /\ 6 \in 1 .. Length(u)
      BY <1>1, <1>2
    <2>2. At(u, 5) \in Nat /\ At(u, 6) \in Nat /\ ByteValues \in Nat
      BY <2>1, ByteIn, Bases
    <2>3. 5 \in Nat /\ 5 >= 1 /\ 6 = 5 + 1 /\ 6 <= Length(u)
      BY <1>1, <1>2
    <2>4. size = At(u, 5) * ByteValues + At(u, 6)
      BY <2>3, WordRead
    <2> QED BY <2>2, <2>4
  <1> HIDE DEF size
  <1>4. datagram \in Bytes /\ Length(datagram) = size
    <2>1. 1 \in Nat /\ 1 >= 1 /\ 1 <= size + 1 /\ size + 1 - 1 = size
      BY <1>3
    <2>2. IsCut(datagram, u, 1, size)
      BY <1>1, <1>3, <2>1, CutIs
    <2> QED BY <2>1, <2>2 DEF IsCut
  <1> HIDE DEF datagram
  <1>5. 8 + 1 \in Nat /\ 8 + 1 >= 1 /\ 8 + 1 <= size + 1 /\ size <= Length(datagram)
    BY <1>1, <1>3, <1>4
  <1>6. IsCut(Cut(datagram, 8 + 1, size), datagram, 8 + 1, size)
    BY <1>3, <1>4, <1>5, CutIs
  <1> QED BY <1>1, <1>4, <1>6 DEF IsCut

LEMMA Ipv4PayloadTyped ==
  ASSUME NEW q \in Bytes, NEW r, r = Link!Ipv4In(q), r # Link!Nothing
  PROVE  r.payload \in Bytes
  <1> DEFINE header == 4 * (At(q, 1) % 16)
             total == Link!U16(Cut(q, 3, 4))
             u == Cut(q, header + 1, total)
  <1>1. /\ Length(q) >= 20 /\ header >= 20 /\ total >= header /\ Length(q) >= total
        /\ r = Link!UdpIn(4, Cut(q, 13, 16), Cut(q, 17, 20), u)
    BY Ipv4InIsRead DEF Ipv4Read
  <1>2. Length(q) \in Nat
    BY LengthIsNat
  <1>3. header \in Nat
    <2>1. 1 \in 1 .. Length(q)
      BY <1>1, <1>2
    <2>2. At(q, 1) \in Nat
      BY <2>1, ByteIn, Bases
    <2> QED BY <2>2
  <1>4. total \in Nat
    <2>1. 3 \in 1 .. Length(q) /\ 4 \in 1 .. Length(q)
      BY <1>1, <1>2
    <2>2. At(q, 3) \in Nat /\ At(q, 4) \in Nat /\ ByteValues \in Nat
      BY <2>1, ByteIn, Bases
    <2>3. 3 \in Nat /\ 3 >= 1 /\ 4 = 3 + 1 /\ 4 <= Length(q)
      BY <1>1, <1>2
    <2>4. total = At(q, 3) * ByteValues + At(q, 4)
      BY <2>3, WordRead
    <2> QED BY <2>2, <2>4
  <1> HIDE DEF header, total
  <1>5. header + 1 \in Nat /\ header + 1 >= 1 /\ header + 1 <= total + 1
    BY <1>1, <1>3, <1>4
  <1>6. u \in Bytes
    <2>1. IsCut(u, q, header + 1, total)
      BY <1>1, <1>4, <1>5, CutIs
    <2> QED BY <2>1 DEF IsCut
  <1> HIDE DEF u
  <1> QED BY <1>1, <1>6, UdpPayloadTyped

LEMMA Ipv6PayloadTyped ==
  ASSUME NEW q \in Bytes, NEW r, r = Link!Ipv6In(q), r # Link!Nothing
  PROVE  r.payload \in Bytes
  <1> DEFINE size == Link!PayloadLength(q)
             p == Link!Ipv6Payload(q)
             u == Link!UpperLayer(At(q, 7), p)
  <1>1. /\ Link!IsIpv6(q)
        /\ r = Link!UdpIn(6, Cut(q, 9, 24), Cut(q, 25, 40), u)
    BY DEF Link!Ipv6In, Cut, At
  <1>2. Length(q) >= 40 /\ Length(q) >= 40 + size
    BY <1>1 DEF Link!IsIpv6, Length, Link!Ipv6HeaderLength
  <1>3. Length(q) \in Nat
    BY LengthIsNat
  <1>4. size \in Nat
    <2>1. 5 \in 1 .. Length(q) /\ 6 \in 1 .. Length(q)
      BY <1>2, <1>3
    <2>2. At(q, 5) \in Nat /\ At(q, 6) \in Nat /\ ByteValues \in Nat
      BY <2>1, ByteIn, Bases
    <2>3. 5 \in Nat /\ 5 >= 1 /\ 6 = 5 + 1 /\ 6 <= Length(q)
      BY <1>2, <1>3
    <2>4. Link!U16(Cut(q, 5, 6)) = At(q, 5) * ByteValues + At(q, 6)
      BY <2>3, WordRead
    <2> QED BY <2>2, <2>4 DEF Link!PayloadLength, Cut
  <1>5. p = IF size = 0 THEN Cut(q, 40 + 1, Length(q)) ELSE Cut(q, 40 + 1, 40 + size)
    BY DEF Link!Ipv6Payload, Link!From, Link!Ipv6HeaderLength, Cut, Length
  <1> HIDE DEF size, p
  <1>6. p \in Bytes
    <2>1. /\ 40 + 1 \in Nat /\ 40 + 1 >= 1 /\ 40 + size \in Nat /\ 40 + size <= Length(q)
          /\ 40 + 1 <= 40 + size + 1 /\ 40 + 1 <= Length(q) + 1
      BY <1>2, <1>3, <1>4
    <2>2. IsCut(Cut(q, 40 + 1, 40 + size), q, 40 + 1, 40 + size)
      BY <2>1, CutIs
    <2>3. IsCut(Cut(q, 40 + 1, Length(q)), q, 40 + 1, Length(q))
      BY <1>3, <2>1, CutIs
    <2> QED BY <1>5, <2>2, <2>3 DEF IsCut
  <1>7. u \in Bytes
    BY <1>6, UpperLayerTyped
  <1> HIDE DEF u
  <1> QED BY <1>1, <1>7, UdpPayloadTyped

\* The payload of whatever bytes the link delivers.
LEMMA PayloadTyped ==
  ASSUME NEW q \in Bytes, NEW r, r = Link!Received(q), r # Link!Nothing
  PROVE  r.payload \in Bytes
  <1> DEFINE packet == Link!EthernetPayload(q)
  <1>1. Length(q) >= 14 /\ (r = Link!Ipv4In(packet) \/ r = Link!Ipv6In(packet))
    BY DEF Link!Received, Link!EthernetHeaderLength, Length
  <1>2. packet = Cut(q, 14 + 1, Length(q))
    BY DEF Link!EthernetPayload, Link!From, Link!EthernetHeaderLength, Cut, Length
  <1>3. packet \in Bytes
    <2>1. Length(q) \in Nat
      BY LengthIsNat
    <2>2. 14 + 1 \in Nat /\ 14 + 1 >= 1 /\ 14 + 1 <= Length(q) + 1 /\ Length(q) <= Length(q)
      BY <1>1, <2>1
    <2>3. IsCut(Cut(q, 14 + 1, Length(q)), q, 14 + 1, Length(q))
      BY <2>1, <2>2, CutIs
    <2> QED BY <1>2, <2>3 DEF IsCut
  <1> HIDE DEF packet
  <1>4. CASE r = Link!Ipv4In(packet)
    BY <1>3, <1>4, Ipv4PayloadTyped
  <1>5. CASE r = Link!Ipv6In(packet)
    BY <1>3, <1>5, Ipv6PayloadTyped
  <1> QED BY <1>1, <1>4, <1>5

-----------------------------------------------------------------------------
(* What is sealed opens to what it was *)

\* The bytes in which a packet number is sent.
NumberBytes == {<<0>>, <<1>>, <<4>>, <<0, 0>>, <<0, 1>>, <<0, 4>>}

MaskedNumber(number) == [k \in DOMAIN number |-> (number[k] + Mask) % ByteValues]

\* The given packet is sealed, with these bytes of a number and this payload.
IsSealed(g, number, payload) ==
  /\ g.low = (Length(number) - 1 + Mask) % ProtectedBits(g.type)
  /\ g.body = Cat(Cat(MaskedNumber(number), payload), <<TAG>>)

\* Masked packet numbers are unmasked again.
LEMMA NumbersMasked ==
  ASSUME NEW number \in NumberBytes
  PROVE  /\ MaskedNumber(number) \in Bytes
         /\ Length(MaskedNumber(number)) = Length(number)
         /\ Length(number) \in {1, 2}
         /\ number \in Bytes
         /\ \A k \in 1 .. Length(number) :
               (At(MaskedNumber(number), k) - Mask) % ByteValues = At(number, k)
  <1>1. ByteValues = 256 /\ Link!Byte = 0 .. 255
    BY LinkBase
  <1>2. ASSUME NEW n \in {0, 1, 4}, NEW m \in {0, 1, 4}, number = <<n>> \/ number = <<n, m>>
        PROVE  /\ MaskedNumber(number) \in Bytes
               /\ Length(MaskedNumber(number)) = Length(number)
               /\ Length(number) \in {1, 2}
               /\ number \in Bytes
               /\ \A k \in 1 .. Length(number) :
                     (At(MaskedNumber(number), k) - Mask) % ByteValues = At(number, k)
    <2>1. /\ \A x \in {0, 1, 4} : /\ (x + 5) % 256 = x + 5
                                  /\ x + 5 \in 0 .. 255 /\ x \in 0 .. 255
                                  /\ (x + 5 - 5) % 256 = x
      OBVIOUS
    <2>2. CASE number = <<n>>
      <3>1. MaskedNumber(number) = <<n + 5>>
        BY <1>1, <2>1, <2>2 DEF MaskedNumber, Mask
      <3>2. n \in Link!Byte /\ n + 5 \in Link!Byte
        BY <1>1, <2>1
      <3>3. \A x \in Link!Byte : <<x>> \in Seq(Link!Byte) /\ Len(<<x>>) = 1
        OBVIOUS
      <3>4. MaskedNumber(number) \in Bytes /\ number \in Bytes
            /\ Length(MaskedNumber(number)) = 1 /\ Length(number) = 1
        BY <2>2, <3>1, <3>2, <3>3 DEF Bytes, Length
      <3>5. At(MaskedNumber(number), 1) = n + 5 /\ At(number, 1) = n
        BY <2>2, <3>1 DEF At
      <3>6. \A k \in 1 .. 1 : (At(MaskedNumber(number), k) - Mask) % ByteValues = At(number, k)
        BY <1>1, <2>1, <3>5 DEF Mask
      <3> QED BY <3>4, <3>6
    <2>3. CASE number = <<n, m>>
      <3>1. MaskedNumber(number) = <<n + 5, m + 5>>
        BY <1>1, <2>1, <2>3 DEF MaskedNumber, Mask
      <3>2. MaskedNumber(number) \in Bytes /\ number \in Bytes
        <4>1. n \in Link!Byte /\ m \in Link!Byte /\ n + 5 \in Link!Byte /\ m + 5 \in Link!Byte
          BY <1>1, <2>1
        <4>2. \A x, y \in Link!Byte : <<x, y>> \in Seq(Link!Byte)
          OBVIOUS
        <4> QED BY <2>3, <3>1, <4>1, <4>2 DEF Bytes
      <3>3. Length(MaskedNumber(number)) = 2 /\ Length(number) = 2
        BY <2>3, <3>1 DEF Length
      <3>4. At(MaskedNumber(number), 1) = n + 5 /\ At(MaskedNumber(number), 2) = m + 5
            /\ At(number, 1) = n /\ At(number, 2) = m
        BY <2>3, <3>1 DEF At
      <3>5. \A k \in 1 .. 2 : (At(MaskedNumber(number), k) - Mask) % ByteValues = At(number, k)
        BY <1>1, <2>1, <3>4 DEF Mask
      <3> QED BY <3>2, <3>3, <3>5
    <2> QED BY <1>2, <2>2, <2>3
  <1>3. \E n, m \in {0, 1, 4} : number = <<n>> \/ number = <<n, m>>
    BY DEF NumberBytes
  <1> QED BY <1>2, <1>3

LEMMA TagTyped == <<TAG>> \in Bytes /\ Length(<<TAG>>) = 1
  <1>1. TAG \in Link!Byte
    BY LinkBase DEF TAG
  <1> QED BY <1>1, OneByte

\* The protected remainder of a packet holds its number, its payload and a tag.
LEMMA SealedBody ==
  ASSUME NEW g, NEW number \in NumberBytes, NEW payload \in Bytes, IsSealed(g, number, payload)
  PROVE  /\ g.body \in Bytes
         /\ Length(g.body) = Length(number) + Length(payload) + 1
         /\ \A k \in 1 .. Length(number) : (At(g.body, k) - Mask) % ByteValues = At(number, k)
         /\ Cut(g.body, Length(number) + 1, Length(g.body) - 1) = payload
         /\ Length(number) \in {1, 2} /\ Length(payload) \in Nat
  <1> DEFINE m == MaskedNumber(number)
             n == Length(number)
             l == Length(payload)
             tag == <<TAG>>
             front == Cat(m, payload)
  <1>1. /\ m \in Bytes /\ Length(m) = n /\ n \in {1, 2}
        /\ \A k \in 1 .. n : (At(m, k) - Mask) % ByteValues = At(number, k)
    BY NumbersMasked
  <1>2. tag \in Bytes /\ Length(tag) = 1
    BY TagTyped
  <1>3. g.body = Cat(front, tag)
    BY DEF IsSealed
  <1> HIDE DEF m, n, l, tag, front
  <1>4. IsJoined(front, m, payload) /\ l \in Nat
    BY <1>1, Joins, LengthIsNat DEF front, l
  <1>5. front \in Bytes /\ Length(front) = n + l
    BY <1>1, <1>4 DEF IsJoined, l
  <1>6. IsJoined(g.body, front, tag)
    BY <1>2, <1>3, <1>5, Joins
  <1>7. g.body \in Bytes /\ Length(g.body) = n + l + 1
    BY <1>2, <1>5, <1>6 DEF IsJoined
  <1>8. \A k \in 1 .. n : At(g.body, k) = At(m, k)
    <2> SUFFICES ASSUME NEW k \in 1 .. n PROVE At(g.body, k) = At(m, k)
      OBVIOUS
    <2>1. k \in 1 .. Length(m) /\ k \in 1 .. Length(front)
      BY <1>1, <1>4, <1>5
    <2> QED BY <1>4, <1>6, <2>1 DEF IsJoined
  <1>9. Cut(g.body, n + 1, n + l) = payload
    <2>1. \A k \in 1 .. l : At(g.body, n + k) = At(payload, k)
      <3> SUFFICES ASSUME NEW k \in 1 .. l PROVE At(g.body, n + k) = At(payload, k)
        OBVIOUS
      <3>1. k \in 1 .. Length(payload) /\ n + k \in 1 .. Length(front) /\ Length(m) = n
        BY <1>1, <1>4, <1>5 DEF l
      <3>2. At(front, n + k) = At(payload, k)
        BY <1>4, <3>1 DEF IsJoined
      <3>3. At(g.body, n + k) = At(front, n + k)
        BY <1>6, <3>1 DEF IsJoined
      <3> QED BY <3>2, <3>3
    <2>2. n \in Nat /\ n + Length(payload) <= Length(g.body)
      BY <1>1, <1>4, <1>7 DEF l
    <2> QED BY <1>7, <2>1, <2>2, CutFound DEF l
  <1>10. Length(g.body) - 1 = n + l
    BY <1>1, <1>4, <1>7
  <1> QED BY <1>1, <1>4, <1>7, <1>8, <1>9, <1>10 DEF n, l

\* The first byte of a packet that is sealed, and the length of the number behind it.
LEMMA FirstUnmasked ==
  ASSUME NEW packet, NEW type, packet.type = type,
         NEW n \in {1, 2}, NEW low, low = (n - 1 + Mask) % ProtectedBits(type),
         \/ type # "Short" /\ \E raw \in 0 .. 3 : packet.first = 192 + 16 * raw + low
         \/ type = "Short" /\ packet.first = 64 + low
  PROVE  /\ Packets!NumberLength(UnprotectedFirst(packet)) = n
         /\ Packets!Preserved(packet, UnprotectedFirst(packet))
               = Packets!Preserved(packet, packet.first)
  <1>1. CASE type # "Short"
    <2>1. PICK raw \in 0 .. 3 : packet.first = 192 + 16 * raw + low
      BY <1>1
    <2>2. ProtectedBits(type) = 16 /\ low = n + 4
      BY <1>1 DEF ProtectedBits, Mask
    <2>3. packet.first \in Nat /\ packet.first % 16 = n + 4 /\ packet.first \div 16 = 12 + raw
      BY <2>1, <2>2
    <2>4. (packet.first - (n + 4)) + (((n + 4) - 5) % 16) = 192 + 16 * raw + (n - 1)
      BY <2>1, <2>2
    <2>5. UnprotectedFirst(packet) = 192 + 16 * raw + (n - 1)
      BY <2>2, <2>3, <2>4 DEF UnprotectedFirst, Mask
    <2>6. /\ ((192 + 16 * raw + (n - 1)) % 4) + 1 = n
          /\ (192 + 16 * raw + (n - 1)) \div 16 = 12 + raw
      OBVIOUS
    <2> QED BY <1>1, <2>3, <2>5, <2>6 DEF Packets!NumberLength, Packets!Preserved
  <1>2. CASE type = "Short"
    <2>1. ProtectedBits(type) = 32 /\ low = n + 4 /\ packet.first = 64 + (n + 4)
      BY <1>2 DEF ProtectedBits, Mask
    <2>2. packet.first \in Nat /\ packet.first % 32 = n + 4 /\ packet.first \div 32 = 2
      BY <2>1
    <2>3. (packet.first - (n + 4)) + (((n + 4) - 5) % 32) = 64 + (n - 1)
      BY <2>1
    <2>4. UnprotectedFirst(packet) = 64 + (n - 1)
      BY <2>1, <2>2, <2>3 DEF UnprotectedFirst, Mask
    <2>5. ((64 + (n - 1)) % 4) + 1 = n /\ (64 + (n - 1)) \div 32 = 2
      OBVIOUS
    <2> QED BY <1>2, <2>2, <2>4, <2>5 DEF Packets!NumberLength, Packets!Preserved
  <1> QED BY <1>1, <1>2

\* The number that the bytes of one stand for.
LEMMA NumberRead ==
  ASSUME NEW n \in {0, 1, 4}
  PROVE  Packets!NumberIn(<<n>>) = n /\ Packets!NumberIn(<<0, n>>) = n
  <1> DEFINE V == Nat
  <1>1. ASSUME NEW s \in Seq(Nat), Len(s) \in {1, 2}
        PROVE  /\ Len(s) = 1 => Packets!NumberIn(s) = s[1]
               /\ Len(s) = 2 => Packets!NumberIn(s) = ByteValues * s[1] + s[2]
    <2> DEFINE N == Len(s)
               Body(f, k) == IF k = 0 THEN 0 ELSE ByteValues * f[k - 1] + s[k]
               upTo == CHOOSE f : f = [k \in 0 .. N |-> Body(f, k)]
               g == [k \in 0 .. N |-> IF k = 0 THEN 0 ELSE IF k = 1 THEN s[1]
                                      ELSE ByteValues * s[1] + s[2]]
    <2>1. Packets!NumberIn(s) = upTo[N]
      BY DEF Packets!NumberIn
    <2>2. g = [k \in 0 .. N |-> Body(g, k)]
      <3> SUFFICES ASSUME NEW k \in 0 .. N PROVE g[k] = Body(g, k)
        OBVIOUS
      <3>1. ByteValues \in Nat /\ s[1] \in Nat
        BY <1>1, Bases
      <3>2. CASE k = 0
        BY <3>2
      <3>3. CASE k = 1
        <4>1. g[0] = 0 /\ g[1] = s[1]
          BY <1>1, <3>3
        <4> QED BY <3>1, <3>3, <4>1
      <3>4. CASE k = 2
        <4>1. N = 2 /\ g[1] = s[1] /\ g[2] = ByteValues * s[1] + s[2]
          BY <1>1, <3>4
        <4> QED BY <3>4, <4>1
      <3>5. k \in {0, 1, 2}
        <4>1. N \in {1, 2}
          BY <1>1
        <4> HIDE DEF N
        <4> QED BY <4>1
      <3> QED BY <3>2, <3>3, <3>4, <3>5
    <2>3. upTo = [k \in 0 .. N |-> Body(upTo, k)]
      <3> HIDE DEF Body, N, g
      <3> QED BY <2>2
    <2>4. \A k \in 0 .. N : upTo[k] = Body(upTo, k)
      <3> HIDE DEF Body, N, upTo
      <3> QED BY <2>3
    <2> HIDE DEF upTo
    <2>5. upTo[0] = 0 /\ upTo[1] = ByteValues * 0 + s[1]
      BY <1>1, <2>4
    <2>6. ByteValues * 0 + s[1] = s[1]
      BY <1>1, Bases
    <2>7. Len(s) = 2 => upTo[2] = ByteValues * s[1] + s[2]
      BY <1>1, <2>4, <2>5, <2>6
    <2> QED BY <1>1, <2>1, <2>5, <2>6, <2>7
  <1>2. /\ <<n>> \in Seq(Nat) /\ Len(<<n>>) = 1 /\ <<n>>[1] = n
        /\ <<0, n>> \in Seq(Nat) /\ Len(<<0, n>>) = 2 /\ <<0, n>>[1] = 0 /\ <<0, n>>[2] = n
    OBVIOUS
  <1>3. Packets!NumberIn(<<n>>) = n
    BY <1>1, <1>2
  <1>4. Packets!NumberIn(<<0, n>>) = ByteValues * 0 + n
    <2> DEFINE s == <<0, n>>
    <2> HIDE DEF s
    <2>1. s \in Seq(Nat) /\ Len(s) = 2 /\ s[1] = 0 /\ s[2] = n
      BY <1>2 DEF s
    <2>2. Len(s) = 2 => Packets!NumberIn(s) = ByteValues * s[1] + s[2]
      BY <1>1, <2>1
    <2>3. Packets!NumberIn(s) = ByteValues * 0 + n
      BY <2>1, <2>2
    <2> QED BY <2>3 DEF s
  <1> QED BY <1>3, <1>4, Bases

\* A copy of what was sealed opens, to its number and its payload.
LEMMA SealedComesBack ==
  ASSUME NEW g, IsGivenPacket(g), g.type \in Packets!ProtectedTypes \cup {"Short"},
         NEW number \in NumberBytes, NEW payload \in Bytes, IsSealed(g, number, payload),
         NEW packet, packet.type = g.type, packet.body = g.body,
         packet.first = Packets!PacketBytes(g)[1]
  PROVE  /\ UnprotectedNumber(packet) = number
         /\ Payload(packet) = payload
         /\ Packets!OverlayAllowed(packet, UnprotectedFirst(packet), UnprotectedNumber(packet))
  <1> DEFINE n == Length(number)
             first == UnprotectedFirst(packet)
             opened == UnprotectedNumber(packet)
  <1>1. /\ n \in {1, 2} /\ g.body \in Bytes /\ Length(payload) \in Nat
        /\ Length(g.body) = n + Length(payload) + 1
        /\ \A k \in 1 .. n : (At(g.body, k) - Mask) % ByteValues = At(number, k)
        /\ Cut(g.body, n + 1, Length(g.body) - 1) = payload
    BY SealedBody
  <1>2. number \in Bytes
    BY NumbersMasked
  <1>3. g.low = (n - 1 + Mask) % ProtectedBits(g.type)
    BY DEF IsSealed
  <1>4. \/ g.type # "Short" /\ \E raw \in 0 .. 3 : packet.first = 192 + 16 * raw + g.low
        \/ g.type = "Short" /\ packet.first = 64 + g.low
    <2>1. CASE g.type \in Packets!ProtectedTypes
      <3>1. At(Packets!PacketBytes(g), 1)
              = 192 + 16 * Packets!RawType(g.version, g.type) + g.low
        BY <2>1, EmptyBytes, ProtectedComesBack
      <3>2. Packets!RawType(g.version, g.type) \in 0 .. 3
        <4>1. g.version \in Packets!Versions
          BY <2>1 DEF IsGivenPacket, Packets!BuildAllowed
        <4> QED BY <2>1, <4>1, TypesComeBack
      <3>3. g.type # "Short"
        BY <2>1 DEF Packets!ProtectedTypes
      <3> QED BY <3>1, <3>2, <3>3 DEF At
    <2>2. CASE g.type = "Short"
      <3>1. At(Packets!PacketBytes(g), 1) = 64 + g.low
        BY <2>2, ShortComesBack
      <3> QED BY <2>2, <3>1 DEF At
    <2> QED BY <2>1, <2>2
  <1> HIDE DEF n
  <1>5. Packets!NumberLength(first) = n
        /\ Packets!Preserved(packet, first) = Packets!Preserved(packet, packet.first)
    BY <1>1, <1>3, <1>4, FirstUnmasked
  <1> HIDE DEF first
  <1>6. opened = [k \in 1 .. n |-> (At(g.body, k) - Mask) % ByteValues]
    BY <1>5 DEF UnprotectedNumber, first, At
  <1>7. opened = number
    <2>1. number = [k \in 1 .. n |-> At(number, k)]
      <3>1. number = [k \in 1 .. Len(number) |-> number[k]]
        BY <1>2 DEF Bytes
      <3> QED BY <3>1 DEF At, n, Length
    <2> HIDE DEF opened
    <2> QED BY <1>1, <1>6, <2>1
  <1>8. Payload(packet) = payload
    BY <1>1, <1>5 DEF Payload, first, Cut, Length
  <1>9. Packets!OverlayAllowed(packet, first, opened)
    <2>1. Len(opened) = n
      BY <1>7 DEF n, Length
    <2>2. Len(packet.body) >= n
      BY <1>1 DEF Length
    <2> HIDE DEF opened
    <2> QED BY <1>5, <2>1, <2>2 DEF Packets!OverlayAllowed
  <1> QED BY <1>7, <1>8, <1>9 DEF first

===============================================================================

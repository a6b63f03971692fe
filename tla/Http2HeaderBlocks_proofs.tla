----------------------- MODULE Http2HeaderBlocks_proofs -----------------------
(***************************************************************************)
(* Proofs about Http2HeaderBlocks, for every base, maximum, set of inputs  *)
(* and number of frames.  In order: numbers are read back from their       *)
(* bytes, frames from theirs, contents from built frames; the bytes on the *)
(* way are those of the frames not yet parsed (BytesInv); the lock holds   *)
(* the stream of the block that the frames taken leave open (LockInv).     *)
(***************************************************************************)
EXTENDS Http2HeaderBlocks, SequenceTheorems, TLAPS

\* A number is its lowest byte and the rest, in base ByteValues.
LEMMA ByteSplit ==
  ASSUME NEW n \in Nat
  PROVE  /\ Low(n) \in Byte
         /\ Rest(n) \in Nat
         /\ n = ByteValues * Rest(n) + Low(n)
  BY ByteAssumption, Z3 DEF Low, Rest, Byte

\* Dropping the lowest byte divides a bound by the base.
LEMMA RestBelow ==
  ASSUME NEW n \in Nat, NEW m \in Nat, n < ByteValues * m
  PROVE  Rest(n) < m
  BY ByteAssumption, Z3 DEF Rest

\* A number of one byte is its lowest byte.
LEMMA LowOfByte ==
  ASSUME NEW n \in Nat, n < ByteValues
  PROVE  Low(n) = n /\ Low(n) \in Byte
  <1>1. Low(n) = n
    BY ByteAssumption DEF Low
  <1> QED BY <1>1, ByteSplit

\* What the solver needs of products that it leaves unexpanded.
LEMMA Distribute ==
  ASSUME NEW a \in Nat, NEW b \in Nat, NEW c \in Nat
  PROVE  /\ a * (b + c) = a * b + a * c
         /\ a * (b * c) = (a * b) * c
         /\ a * b \in Nat
         /\ a * b = b * a
  BY Z3

\* A length of 24 bits is read back from its three bytes.
LEMMA LengthComesBack ==
  ASSUME NEW n \in 0 .. MaximumPayload
  PROVE  /\ LengthBytes(n) \in Seq(Byte)
         /\ Len(LengthBytes(n)) = 3
         /\ LengthIn(LengthBytes(n)) = n
  <1> DEFINE b == ByteValues
             r == Rest(n)
             rr == Rest(r)
  <1>1. b \in Nat /\ n \in Nat
    BY ByteAssumption DEF MaximumPayload
  <1>2. r \in Nat /\ Low(n) \in Byte /\ n = b * r + Low(n)
    BY <1>1, ByteSplit
  <1>3. rr \in Nat /\ Low(r) \in Byte /\ r = b * rr + Low(r)
    BY <1>2, ByteSplit
  <1>4. n < b * (b * b)
    BY <1>1, Distribute DEF MaximumPayload
  <1>5. b * b \in Nat
    BY <1>1, Distribute
  <1>6. r < b * b
    BY <1>1, <1>4, <1>5, RestBelow
  <1>7. rr < b
    BY <1>1, <1>2, <1>6, RestBelow
  <1>8. Low(rr) = rr
    BY <1>1, <1>3, <1>7, LowOfByte
  <1>9. Low(rr) \in Byte
    BY <1>3, ByteSplit
  <1>10. n = rr * (b * b) + Low(r) * b + Low(n)
    <2> HIDE DEF b, r, rr
    <2>1. Low(r) \in Nat /\ Low(n) \in Nat
      BY <1>2, <1>3 DEF Byte
    <2>2. b * rr \in Nat
      BY <1>1, <1>3, Distribute
    <2>3. b * (b * rr + Low(r)) = b * (b * rr) + b * Low(r)
      BY <1>1, <2>1, <2>2, Distribute
    <2>4. b * (b * rr) = (b * b) * rr
      BY <1>1, <1>3, Distribute
    <2>5. (b * b) * rr = rr * (b * b)
      BY <1>3, <1>5, Distribute
    <2>6. b * Low(r) = Low(r) * b
      BY <1>1, <2>1, Distribute
    <2>7. b * r = rr * (b * b) + Low(r) * b
      BY <1>3, <2>3, <2>4, <2>5, <2>6
    <2> QED BY <1>2, <2>7
  <1>11. LengthBytes(n) = <<Low(rr), Low(r), Low(n)>>
    BY DEF LengthBytes
  <1> HIDE DEF b, r, rr
  <1>12. /\ LengthBytes(n) \in Seq(Byte)
         /\ Len(LengthBytes(n)) = 3
    BY <1>2, <1>3, <1>9, <1>11
  <1>13. LengthIn(LengthBytes(n)) = rr * (b * b) + Low(r) * b + Low(n)
    BY <1>8, <1>11 DEF LengthIn, b
  <1> QED BY <1>10, <1>12, <1>13

\* A number of 32 bits is read back from its four bytes.
LEMMA U32ComesBack ==
  ASSUME NEW n \in U32Value
  PROVE  /\ U32Bytes(n) \in Seq(Byte)
         /\ Len(U32Bytes(n)) = 4
         /\ U32(U32Bytes(n)) = n
  <1> DEFINE b == ByteValues
             r == Rest(n)
             rr == Rest(r)
             rrr == Rest(rr)
  <1>1. b \in Nat /\ n \in Nat
    BY ByteAssumption DEF U32Value
  <1>2. r \in Nat /\ Low(n) \in Byte /\ n = b * r + Low(n)
    BY <1>1, ByteSplit
  <1>3. rr \in Nat /\ Low(r) \in Byte /\ r = b * rr + Low(r)
    BY <1>2, ByteSplit
  <1>4. rrr \in Nat /\ Low(rr) \in Byte /\ rr = b * rrr + Low(rr)
    BY <1>3, ByteSplit
  <1>5. b * b \in Nat /\ b * (b * b) \in Nat
    BY <1>1, Distribute
  <1>6. n < b * (b * (b * b))
    BY <1>1, <1>5, Distribute DEF U32Value
  <1>7. rrr < b
    <2> HIDE DEF b, r, rr, rrr
    <2>1. r < b * (b * b)
      BY <1>1, <1>5, <1>6, RestBelow DEF r, b
    <2>2. rr < b * b
      BY <1>2, <1>5, <2>1, RestBelow DEF rr, b
    <2> QED BY <1>1, <1>3, <2>2, RestBelow DEF rrr, b
  <1>8. Low(rrr) = rrr /\ Low(rrr) \in Byte
    BY <1>1, <1>4, <1>7, LowOfByte
  <1>9. U32Bytes(n) = <<Low(rrr), Low(rr), Low(r), Low(n)>>
    BY DEF U32Bytes
  <1> HIDE DEF b, r, rr, rrr
  <1>10. Low(rr) \in Nat /\ Low(r) \in Nat /\ Low(n) \in Nat
    BY <1>2, <1>3, <1>4 DEF Byte
  <1>11. b * rr = rrr * (b * b) + Low(rr) * b
    <2>1. b * rrr \in Nat
      BY <1>1, <1>4, Distribute
    <2>2. b * (b * rrr + Low(rr)) = b * (b * rrr) + b * Low(rr)
      BY <1>1, <1>10, <2>1, Distribute
    <2>3. b * (b * rrr) = (b * b) * rrr
      BY <1>1, <1>4, Distribute
    <2>4. (b * b) * rrr = rrr * (b * b)
      BY <1>4, <1>5, Distribute
    <2>5. b * Low(rr) = Low(rr) * b
      BY <1>1, <1>10, Distribute
    <2> QED BY <1>4, <2>2, <2>3, <2>4, <2>5
  <1>12. b * r = rrr * (b * b * b) + Low(rr) * (b * b) + Low(r) * b
    <2> DEFINE x == rrr * (b * b)
               y == Low(rr) * b
    <2>1. x \in Nat /\ y \in Nat
      BY <1>1, <1>4, <1>5, <1>10, Distribute
    <2>2. b * x = rrr * (b * b * b)
      <3>1. b * x = x * b
        BY <1>1, <2>1, Distribute
      <3>2. rrr * ((b * b) * b) = (rrr * (b * b)) * b
        BY <1>1, <1>4, <1>5, Distribute
      <3> QED BY <3>1, <3>2
    <2>3. b * y = Low(rr) * (b * b)
      <3>1. b * y = y * b
        BY <1>1, <2>1, Distribute
      <3>2. Low(rr) * (b * b) = (Low(rr) * b) * b
        BY <1>1, <1>10, Distribute
      <3> QED BY <3>1, <3>2
    <2>4. b * Low(r) = Low(r) * b
      BY <1>1, <1>10, Distribute
    <2>5. r = (x + y) + Low(r)
      BY <1>3, <1>11
    <2> HIDE DEF x, y
    <2>6. b * ((x + y) + Low(r)) = b * (x + y) + b * Low(r)
      BY <1>1, <1>10, <2>1, Distribute
    <2>7. b * (x + y) = b * x + b * y
      BY <1>1, <2>1, Distribute
    <2> QED BY <2>2, <2>3, <2>4, <2>5, <2>6, <2>7
  <1>13. /\ U32Bytes(n) \in Seq(Byte)
         /\ Len(U32Bytes(n)) = 4
    BY <1>2, <1>3, <1>4, <1>8, <1>9
  <1>14. U32(U32Bytes(n)) = rrr * (b * b * b) + Low(rr) * (b * b) + Low(r) * b + Low(n)
    BY <1>8, <1>9 DEF U32, b
  <1> QED BY <1>2, <1>12, <1>13, <1>14

-----------------------------------------------------------------------------
(* Frames as bytes *)

Frames == [type : Nat, flags : Nat, stream : U32Value, payload : Contents]

\* Bytes and 32-bit numbers are natural numbers.
LEMMA BytesAreBytes == Byte \subseteq Nat /\ U32Value \subseteq Nat
  BY ByteAssumption DEF Byte, U32Value

\* The items of two sequences laid end to end.
LEMMA Joined ==
  ASSUME NEW s \in Seq(Nat), NEW t \in Seq(Nat)
  PROVE  /\ s \o t \in Seq(Nat)
         /\ Len(s \o t) = Len(s) + Len(t)
         /\ \A i \in 1 .. Len(s) : (s \o t)[i] = s[i]
         /\ \A i \in 1 .. Len(t) : (s \o t)[Len(s) + i] = t[i]
  <1>1. /\ s \o t \in Seq(Nat)
        /\ Len(s \o t) = Len(s) + Len(t)
        /\ \A i \in 1 .. Len(s) + Len(t) :
              (s \o t)[i] = IF i <= Len(s) THEN s[i] ELSE t[i - Len(s)]
    BY ConcatProperties
  <1>2. Len(s) \in Nat /\ Len(t) \in Nat
    BY LenProperties
  <1>3. \A i \in 1 .. Len(s) : (s \o t)[i] = s[i]
    BY <1>1, <1>2
  <1>4. ASSUME NEW i \in 1 .. Len(t) PROVE (s \o t)[Len(s) + i] = t[i]
    <2>1. Len(s) + i \in 1 .. Len(s) + Len(t) /\ ~(Len(s) + i <= Len(s))
      BY <1>2
    <2>2. (Len(s) + i) - Len(s) = i
      BY <1>2
    <2> QED BY <1>1, <2>1, <2>2
  <1> QED BY <1>1, <1>3, <1>4

\* A frame's bytes are its header of nine and its payload.
LEMMA BytesOfFrame ==
  ASSUME NEW f \in Frames
  PROVE  /\ Bytes(f) \in Seq(Nat)
         /\ Len(Bytes(f)) = FrameHeaderLength + Len(f.payload)
         /\ \A i \in 1 .. 3 : Bytes(f)[i] = LengthBytes(Len(f.payload))[i]
         /\ Bytes(f)[4] = f.type
         /\ Bytes(f)[5] = f.flags
         /\ \A i \in 1 .. 4 : Bytes(f)[5 + i] = U32Bytes(f.stream)[i]
         /\ \A i \in 1 .. Len(f.payload) : Bytes(f)[9 + i] = f.payload[i]
  <1> DEFINE l == LengthBytes(Len(f.payload))
             m == <<f.type, f.flags>>
             u == U32Bytes(f.stream)
             p == f.payload
             lm == l \o m
             lmu == lm \o u
             all == lmu \o p
  <1>1. /\ f.type \in Nat /\ f.flags \in Nat /\ f.stream \in U32Value
        /\ p \in Seq(Byte) /\ Len(p) \in 0 .. MaximumPayload
    BY DEF Frames, Contents
  <1>2. l \in Seq(Nat) /\ Len(l) = 3
    <2>1. l \in Seq(Byte) /\ Len(l) = 3
      BY <1>1, LengthComesBack
    <2> QED BY <2>1, BytesAreBytes, SeqMonotonic
  <1>3. u \in Seq(Nat) /\ Len(u) = 4
    <2>1. u \in Seq(Byte) /\ Len(u) = 4
      BY <1>1, U32ComesBack
    <2> QED BY <2>1, BytesAreBytes, SeqMonotonic
  <1>4. p \in Seq(Nat) /\ m \in Seq(Nat) /\ Len(m) = 2 /\ m[1] = f.type /\ m[2] = f.flags
    <2>1. p \in Seq(Nat)
      BY <1>1, BytesAreBytes, SeqMonotonic
    <2> QED BY <1>1, <2>1
  <1>5. Bytes(f) = all
    BY DEF Bytes
  <1> HIDE DEF l, m, u, p, lm, lmu, all
  <1>6. /\ lm \in Seq(Nat)
        /\ Len(lm) = Len(l) + Len(m)
        /\ \A i \in 1 .. Len(l) : lm[i] = l[i]
        /\ \A i \in 1 .. Len(m) : lm[Len(l) + i] = m[i]
    BY <1>2, <1>4, Joined DEF lm
  <1>7. /\ lmu \in Seq(Nat)
        /\ Len(lmu) = Len(lm) + Len(u)
        /\ \A i \in 1 .. Len(lm) : lmu[i] = lm[i]
        /\ \A i \in 1 .. Len(u) : lmu[Len(lm) + i] = u[i]
    BY <1>3, <1>6, Joined DEF lmu
  <1>8. /\ all \in Seq(Nat)
        /\ Len(all) = Len(lmu) + Len(p)
        /\ \A i \in 1 .. Len(lmu) : all[i] = lmu[i]
        /\ \A i \in 1 .. Len(p) : all[Len(lmu) + i] = p[i]
    BY <1>4, <1>7, Joined DEF all
  <1>9. Len(lm) = 5 /\ Len(lmu) = 9
    BY <1>2, <1>3, <1>4, <1>6, <1>7
  <1>10. Len(all) = 9 + Len(p) /\ \A i \in 1 .. Len(p) : all[9 + i] = p[i]
    BY <1>8, <1>9
  <1>11. ASSUME NEW i \in 1 .. 3 PROVE all[i] = l[i]
    <2>1. lm[i] = l[i]
      BY <1>2, <1>6
    <2>2. i \in 1 .. 5 /\ i \in 1 .. 9
      OBVIOUS
    <2> QED BY <1>7, <1>8, <1>9, <2>1, <2>2
  <1>12. lm[4] = m[1] /\ lm[5] = m[2]
    <2>1. lm[3 + 1] = m[1] /\ lm[3 + 2] = m[2]
      BY <1>2, <1>4, <1>6
    <2> QED BY <2>1
  <1>13. all[4] = m[1] /\ all[5] = m[2]
    <2>1. lmu[4] = lm[4] /\ lmu[5] = lm[5]
      BY <1>7, <1>9
    <2>2. all[4] = lmu[4] /\ all[5] = lmu[5]
      BY <1>8, <1>9
    <2> QED BY <1>12, <2>1, <2>2
  <1>14. ASSUME NEW i \in 1 .. 4 PROVE all[5 + i] = u[i]
    <2>1. lmu[5 + i] = u[i]
      BY <1>3, <1>7, <1>9
    <2>2. 5 + i \in 1 .. 9
      OBVIOUS
    <2> QED BY <1>8, <1>9, <2>1, <2>2
  <1>15. all \in Seq(Nat)
    BY <1>8
  <1> QED BY <1>4, <1>5, <1>10, <1>11, <1>13, <1>14, <1>15 DEF l, m, u, p, FrameHeaderLength

\* Bytes that begin with those of a frame give its length.
LEMMA LengthInFrame ==
  ASSUME NEW f \in Frames, NEW b \in Seq(Nat), Len(b) >= FrameHeaderLength,
         \A i \in 1 .. 9 : b[i] = Bytes(f)[i]
  PROVE  LengthIn(b) = Len(f.payload)
  <1>1. Len(f.payload) \in 0 .. MaximumPayload
    BY DEF Frames, Contents
  <1>2. /\ b[1] = LengthBytes(Len(f.payload))[1]
        /\ b[2] = LengthBytes(Len(f.payload))[2]
        /\ b[3] = LengthBytes(Len(f.payload))[3]
    BY BytesOfFrame
  <1>3. LengthIn(b) = LengthIn(LengthBytes(Len(f.payload)))
    BY <1>2 DEF LengthIn
  <1> QED BY <1>1, <1>3, LengthComesBack

\* The frame is read back from its own bytes.
LEMMA FrameComesBack ==
  ASSUME NEW f \in Frames, NEW b \in Seq(Nat), Len(b) = Len(Bytes(f)),
         \A i \in 1 .. Len(b) : b[i] = Bytes(f)[i]
  PROVE  FrameIn(b) = f
  <1>1. f.stream \in U32Value /\ f.payload \in Seq(Byte) /\ Len(f.payload) \in Nat
    BY DEF Frames, Contents
  <1>2. Len(b) = 9 + Len(f.payload)
    BY BytesOfFrame DEF FrameHeaderLength
  <1>3. SubSeq(b, 6, 9) = U32Bytes(f.stream)
    <2>1. /\ U32Bytes(f.stream) \in Seq(Byte) /\ Len(U32Bytes(f.stream)) = 4
      BY <1>1, U32ComesBack
    <2>2. /\ SubSeq(b, 6, 9) \in Seq(Nat) /\ Len(SubSeq(b, 6, 9)) = 4
          /\ \A i \in 1 .. 4 : SubSeq(b, 6, 9)[i] = b[6 + i - 1]
      <3>1. \A i \in 6 .. 9 : b[i] \in Nat
        BY <1>1, <1>2, ElementOfSeq
      <3> QED BY <3>1, SubSeqProperties
    <2>3. \A i \in 1 .. 4 : SubSeq(b, 6, 9)[i] = b[5 + i]
      BY <2>2
    <2>4. \A i \in 1 .. 4 : b[5 + i] = U32Bytes(f.stream)[i]
      <3>1. \A i \in 1 .. 4 : Bytes(f)[5 + i] = U32Bytes(f.stream)[i]
        BY BytesOfFrame
      <3>2. \A i \in 1 .. 4 : 5 + i \in 1 .. Len(b)
        BY <1>1, <1>2
      <3> QED BY <3>1, <3>2
    <2>5. U32Bytes(f.stream) \in Seq(Nat)
      BY <2>1, BytesAreBytes, SeqMonotonic
    <2> QED BY <2>1, <2>2, <2>3, <2>4, <2>5, SeqEqual
  <1>4. SubSeq(b, FrameHeaderLength + 1, Len(b)) = f.payload
    <2> DEFINE s == SubSeq(b, 10, Len(b))
    <2>1. s \in Seq(Nat) /\ Len(s) = Len(f.payload)
      BY <1>1, <1>2
    <2>2. \A i \in 1 .. Len(f.payload) : s[i] = b[9 + i]
      BY <1>1, <1>2
    <2>3. \A i \in 1 .. Len(f.payload) : b[9 + i] = f.payload[i]
      <3>1. \A i \in 1 .. Len(f.payload) : Bytes(f)[9 + i] = f.payload[i]
        BY BytesOfFrame
      <3> QED BY <1>1, <1>2, <3>1
    <2> HIDE DEF s
    <2>4. f.payload \in Seq(Nat)
      BY <1>1, BytesAreBytes, SeqMonotonic
    <2>5. \A i \in 1 .. Len(s) : s[i] = f.payload[i]
      BY <2>1, <2>2, <2>3
    <2>6. s = f.payload
      BY <2>1, <2>4, <2>5, SeqEqual
    <2> QED BY <2>6 DEF s, FrameHeaderLength
  <1>5. b[4] = f.type /\ b[5] = f.flags
    <2>1. Bytes(f)[4] = f.type /\ Bytes(f)[5] = f.flags
      BY BytesOfFrame
    <2> QED BY <1>1, <1>2, <2>1
  <1>6. U32(SubSeq(b, 6, 9)) = f.stream
    BY <1>1, <1>3, U32ComesBack
  <1>7. FrameIn(b) = [type |-> f.type, flags |-> f.flags, stream |-> f.stream,
                      payload |-> f.payload]
    BY <1>4, <1>5, <1>6 DEF FrameIn
  <1> QED BY <1>7 DEF Frames

\* Parsing any part of bytes that begin with a frame's either finds that
\* frame, or refuses it for its length, or wants more.
LEMMA ParseFindsFrame ==
  ASSUME NEW f \in Frames, NEW w \in Seq(Nat), NEW maximum \in Nat,
         Len(w) >= Len(Bytes(f)),
         \A i \in 1 .. Len(Bytes(f)) : w[i] = Bytes(f)[i],
         NEW n \in 1 .. Len(w)
  PROVE  LET found == Parse(SubSeq(w, 1, n), maximum)
         IN  /\ found.result = "too large" => Len(f.payload) > maximum
             /\ found.result = "frame" =>
                  /\ Len(f.payload) <= maximum
                  /\ Len(found.bytes) = Len(Bytes(f))
                  /\ FrameIn(found.bytes) = f
  <1> DEFINE b == SubSeq(w, 1, n)
             found == Parse(b, maximum)
             length == Len(f.payload)
  <1> SUFFICES /\ found.result = "too large" => length > maximum
               /\ found.result = "frame" =>
                    /\ length <= maximum
                    /\ Len(found.bytes) = Len(Bytes(f))
                    /\ FrameIn(found.bytes) = f
    OBVIOUS
  <1>1. length \in Nat /\ Len(Bytes(f)) = 9 + length /\ Len(w) \in Nat /\ n \in Nat
    <2>1. length \in Nat
      BY DEF Frames, Contents
    <2>2. Len(Bytes(f)) = 9 + length
      BY BytesOfFrame DEF FrameHeaderLength
    <2> QED BY <2>1, <2>2
  <1>2. b \in Seq(Nat) /\ Len(b) = n /\ \A i \in 1 .. n : b[i] = w[i]
    BY <1>1
  <1> HIDE DEF b, found, length
  <1>3. CASE n < 9
    <2>1. found.result = "incomplete"
      BY <1>2, <1>3 DEF found, Parse, FrameHeaderLength
    <2> QED BY <2>1
  <1>4. CASE n >= 9
    <2>1. ASSUME NEW i \in 1 .. 9 PROVE b[i] = Bytes(f)[i]
      <3>1. i \in 1 .. n /\ i \in 1 .. Len(Bytes(f))
        BY <1>1, <1>4
      <3> QED BY <1>2, <3>1
    <2>2. LengthIn(b) = length
      BY <1>2, <1>4, <2>1, LengthInFrame DEF FrameHeaderLength, length
    <2>3. CASE length > maximum
      <3>1. found.result = "too large"
        BY <1>1, <1>2, <1>4, <2>2, <2>3 DEF found, Parse, FrameHeaderLength
      <3> QED BY <2>3, <3>1
    <2>4. CASE length <= maximum /\ n < 9 + length
      <3>1. found.result = "incomplete"
        BY <1>1, <1>2, <1>4, <2>2, <2>4 DEF found, Parse, FrameHeaderLength
      <3> QED BY <3>1
    <2>5. CASE length <= maximum /\ n >= 9 + length
      <3>1. found.result = "frame" /\ found.bytes = SubSeq(b, 1, 9 + length)
        BY <1>1, <1>2, <1>4, <2>2, <2>5 DEF found, Parse, FrameHeaderLength
      <3>2. /\ SubSeq(b, 1, 9 + length) \in Seq(Nat)
            /\ Len(SubSeq(b, 1, 9 + length)) = 9 + length
            /\ \A i \in 1 .. (9 + length) : SubSeq(b, 1, 9 + length)[i] = b[i]
        BY <1>1, <1>2, <2>5
      <3>3. ASSUME NEW i \in 1 .. (9 + length) PROVE b[i] = Bytes(f)[i]
        <4>1. i \in 1 .. n /\ i \in 1 .. Len(Bytes(f))
          BY <1>1, <2>5
        <4> QED BY <1>2, <4>1
      <3>4. FrameIn(found.bytes) = f
        BY <1>1, <3>1, <3>2, <3>3, FrameComesBack
      <3> QED BY <1>1, <2>5, <3>1, <3>2, <3>4
    <2>6. \/ length > maximum
          \/ length <= maximum /\ n < 9 + length
          \/ length <= maximum /\ n >= 9 + length
      BY <1>1
    <2> QED BY <2>3, <2>4, <2>5, <2>6, Zenon
  <1>5. n < 9 \/ n >= 9
    BY <1>1
  <1> QED BY <1>3, <1>4, <1>5, Zenon

-----------------------------------------------------------------------------
(* What the builders write, the views return *)

\* A sequence found at an offset is what SubSeq cuts out there.
LEMMA CutOut ==
  ASSUME NEW all \in Seq(Nat), NEW t \in Seq(Nat), NEW a \in Nat,
         a + Len(t) <= Len(all),
         \A i \in 1 .. Len(t) : all[a + i] = t[i]
  PROVE  SubSeq(all, a + 1, a + Len(t)) = t
  <1> DEFINE c == SubSeq(all, a + 1, a + Len(t))
  <1>1. Len(t) \in Nat /\ Len(all) \in Nat
    BY LenProperties
  <1>2. \A i \in (a + 1) .. (a + Len(t)) : all[i] \in Nat
    <2>1. \A i \in (a + 1) .. (a + Len(t)) : i \in 1 .. Len(all)
      BY <1>1
    <2> QED BY <2>1, ElementOfSeq
  <1>3. /\ c \in Seq(Nat)
        /\ Len(c) = IF a + 1 <= a + Len(t) THEN (a + Len(t)) - (a + 1) + 1 ELSE 0
        /\ \A i \in 1 .. (a + Len(t)) - (a + 1) + 1 : c[i] = all[(a + 1) + i - 1]
    BY <1>1, <1>2, SubSeqProperties
  <1> HIDE DEF c
  <1>4. Len(c) = Len(t)
    BY <1>1, <1>3
  <1>5. ASSUME NEW i \in 1 .. Len(t) PROVE c[i] = t[i]
    <2>1. i \in 1 .. (a + Len(t)) - (a + 1) + 1 /\ (a + 1) + i - 1 = a + i
      BY <1>1
    <2> QED BY <1>3, <2>1
  <1>6. c = t
    BY <1>3, <1>4, <1>5, SeqEqual
  <1> QED BY <1>6 DEF c

LaidOut(all, s, t, u, z) == all = s \o t \o u \o z

PartsFound(all, s, t, u, z) ==
  /\ all \in Seq(Nat)
  /\ Len(all) = Len(s) + Len(t) + Len(u) + Len(z)
  /\ \A i \in 1 .. Len(s) : all[i] = s[i]
  /\ SubSeq(all, Len(s) + 1, Len(s) + Len(t)) = t
  /\ SubSeq(all, Len(s) + Len(t) + 1, Len(s) + Len(t) + Len(u)) = u

\* Four parts laid end to end are found at their places.
LEMMA FourParts ==
  ASSUME NEW s \in Seq(Nat), NEW t \in Seq(Nat), NEW u \in Seq(Nat), NEW z \in Seq(Nat),
         NEW all, LaidOut(all, s, t, u, z)
  PROVE  PartsFound(all, s, t, u, z)
  <1> DEFINE st == s \o t
             stu == st \o u
             ls == Len(s)
             lt == Len(t)
             lu == Len(u)
  <1>0. ls \in Nat /\ lt \in Nat /\ lu \in Nat /\ Len(z) \in Nat
    BY LenProperties
  <1> SUFFICES /\ all \in Seq(Nat)
               /\ Len(all) = ls + lt + lu + Len(z)
               /\ \A i \in 1 .. ls : all[i] = s[i]
               /\ SubSeq(all, ls + 1, ls + lt) = t
               /\ SubSeq(all, ls + lt + 1, ls + lt + lu) = u
    BY DEF PartsFound
  <1>a. all = stu \o z
    BY DEF LaidOut
  <1> HIDE DEF st, stu
  <1>1. /\ st \in Seq(Nat) /\ Len(st) = ls + lt
        /\ \A i \in 1 .. ls : st[i] = s[i]
        /\ \A i \in 1 .. lt : st[ls + i] = t[i]
    BY Joined DEF st
  <1>2. /\ stu \in Seq(Nat) /\ Len(stu) = Len(st) + lu
        /\ \A i \in 1 .. Len(st) : stu[i] = st[i]
        /\ \A i \in 1 .. lu : stu[Len(st) + i] = u[i]
    BY <1>1, Joined DEF stu
  <1>3. /\ all \in Seq(Nat) /\ Len(all) = Len(stu) + Len(z)
        /\ \A i \in 1 .. Len(stu) : all[i] = stu[i]
    <2>1. /\ stu \o z \in Seq(Nat) /\ Len(stu \o z) = Len(stu) + Len(z)
          /\ \A i \in 1 .. Len(stu) : (stu \o z)[i] = stu[i]
      BY <1>2, Joined, Zenon
    <2> QED BY <1>a, <2>1, Zenon
  <1>4. /\ Len(all) = ls + lt + lu + Len(z)
        /\ Len(stu) = ls + lt + lu /\ Len(st) = ls + lt
    BY <1>0, <1>1, <1>2, <1>3
  <1>5. ASSUME NEW i \in 1 .. ls PROVE all[i] = s[i]
    <2>1. i \in 1 .. Len(st) /\ i \in 1 .. Len(stu)
      BY <1>0, <1>4
    <2> QED BY <1>1, <1>2, <1>3, <2>1
  <1>6. ASSUME NEW i \in 1 .. lt PROVE all[ls + i] = t[i]
    <2>1. ls + i \in 1 .. Len(st) /\ ls + i \in 1 .. Len(stu)
      BY <1>0, <1>4
    <2> QED BY <1>1, <1>2, <1>3, <2>1
  <1>7. ASSUME NEW i \in 1 .. lu PROVE all[(ls + lt) + i] = u[i]
    <2>1. (ls + lt) + i \in 1 .. Len(stu)
      BY <1>0, <1>4
    <2> QED BY <1>1, <1>2, <1>3, <2>1
  <1>8. SubSeq(all, ls + 1, ls + lt) = t
    <2>1. ls + Len(t) <= Len(all)
      BY <1>0, <1>4
    <2>2. \A i \in 1 .. Len(t) : all[ls + i] = t[i]
      BY <1>6
    <2> HIDE DEF ls
    <2> QED BY <1>0, <1>3, <2>1, <2>2, CutOut
  <1>9. SubSeq(all, (ls + lt) + 1, (ls + lt) + lu) = u
    <2> DEFINE a == ls + lt
    <2>1. a \in Nat /\ a + Len(u) <= Len(all)
      BY <1>0, <1>4
    <2>2. \A i \in 1 .. Len(u) : all[a + i] = u[i]
      BY <1>7
    <2> HIDE DEF a
    <2>3. SubSeq(all, a + 1, a + Len(u)) = u
      BY <1>3, <2>1, <2>2, CutOut
    <2> QED BY <2>3 DEF a
  <1> QED BY <1>3, <1>4, <1>5, <1>8, <1>9

Givens == [typed : BOOLEAN, type : 0 .. 255, stream : U32Value, flags : 0 .. 255,
           pad : {<<>>} \cup {<<n>> : n \in Byte}, section : Seq(Byte), data : Seq(Byte)]

\* What the actions hand to the builders, once the builder has let it pass.
WellFormed(given) ==
    /\ given \in Givens
    /\ Len(Build(given).payload) <= MaximumPayload
    /\ given.typed =>
          /\ given.type \in 0 .. 9
          /\ TypedBuildAllowed(given)
          /\ given.pad # <<>> => given.type \in {DATA, HEADERS, PUSH_PROMISE}
          /\ given.type = PUSH_PROMISE => Len(given.section) = 4
          /\ given.type = HEADERS => given.section = <<>> \/ Len(given.section) = 5
          /\ given.type \notin {HEADERS, PUSH_PROMISE} => given.section = <<>>
          /\ given.type = PRIORITY => Len(given.data) = 5
          /\ given.type \in {RST_STREAM, WINDOW_UPDATE} => Len(given.data) = 4
          /\ given.type = PING => Len(given.data) = 8
          /\ given.type = GOAWAY => Len(given.data) >= 8
          /\ given.type \in {PING, GOAWAY, SETTINGS} => given.stream = 0
          /\ given.type = SETTINGS =>
                \E list \in SettingLists :
                    /\ \A k \in DOMAIN list : HasValidIntrinsicValue(list[k])
                    /\ given.data = SettingsPayload(list)

\* The payload of a built frame has its parts at their places.
LEMMA BuiltPayload ==
  ASSUME NEW g \in Givens
  PROVE  LET p == Build(g).payload
             a == Len(g.pad)
             b == Len(g.section)
         IN  /\ p \in Seq(Byte)
             /\ Len(p) = a + b + Len(g.data) + PadLength(g.pad)
             /\ a \in Nat /\ b \in Nat /\ Len(g.data) \in Nat /\ PadLength(g.pad) \in Nat
             /\ g.pad = <<>> => a = 0 /\ PadLength(g.pad) = 0
             /\ g.pad # <<>> => a = 1 /\ p[1] = PadLength(g.pad)
             /\ SubSeq(p, a + 1, a + b) = g.section
             /\ SubSeq(p, a + b + 1, a + b + Len(g.data)) = g.data
  <1> DEFINE zeros == [i \in 1 .. PadLength(g.pad) |-> 0]
             p == g.pad \o g.section \o g.data \o zeros
  <1>1. g.pad \in {<<>>} \cup {<<n>> : n \in Byte} /\ g.section \in Seq(Byte) /\ g.data \in Seq(Byte)
    BY DEF Givens
  <1>2. /\ PadLength(g.pad) \in Nat
        /\ g.pad \in Seq(Byte)
        /\ g.pad = <<>> => Len(g.pad) = 0 /\ PadLength(g.pad) = 0
        /\ g.pad # <<>> => Len(g.pad) = 1 /\ g.pad[1] = PadLength(g.pad)
    <2>1. CASE g.pad = <<>>
      BY <2>1 DEF PadLength
    <2>2. CASE g.pad # <<>>
      <3>1. PICK n \in Byte : g.pad = <<n>>
        BY <1>1, <2>2
      <3> QED BY <2>2, <3>1, BytesAreBytes DEF PadLength
    <2> QED BY <2>1, <2>2
  <1>3. zeros \in Seq(Byte) /\ Len(zeros) = PadLength(g.pad)
    <2>1. 0 \in Byte
      BY ByteAssumption DEF Byte
    <2> QED BY <1>2, <2>1
  <1>4. /\ g.pad \in Seq(Nat) /\ g.section \in Seq(Nat) /\ g.data \in Seq(Nat) /\ zeros \in Seq(Nat)
    BY <1>1, <1>2, <1>3, BytesAreBytes, SeqMonotonic
  <1>5. Build(g).payload = p
    BY DEF Build
  <1>6. p \in Seq(Byte)
    <2> HIDE DEF zeros
    <2>1. g.pad \o g.section \in Seq(Byte)
      BY <1>1, <1>2, ConcatProperties
    <2>2. g.pad \o g.section \o g.data \in Seq(Byte)
      BY <1>1, <2>1, ConcatProperties
    <2> QED BY <1>3, <2>2, ConcatProperties
  <1>7. /\ Len(g.section) \in Nat /\ Len(g.data) \in Nat /\ Len(g.pad) \in Nat
    BY <1>4, LenProperties
  <1> HIDE DEF zeros
  <1>p. LaidOut(p, g.pad, g.section, g.data, zeros)
    BY DEF LaidOut
  <1> HIDE DEF p
  <1>8. /\ Len(p) = Len(g.pad) + Len(g.section) + Len(g.data) + Len(zeros)
        /\ \A i \in 1 .. Len(g.pad) : p[i] = g.pad[i]
        /\ SubSeq(p, Len(g.pad) + 1, Len(g.pad) + Len(g.section)) = g.section
        /\ SubSeq(p, Len(g.pad) + Len(g.section) + 1,
                  Len(g.pad) + Len(g.section) + Len(g.data)) = g.data
    <2>1. PartsFound(p, g.pad, g.section, g.data, zeros)
      BY <1>4, <1>p, FourParts
    <2> QED BY <2>1 DEF PartsFound
  <1>9. g.pad # <<>> => Len(g.pad) = 1 /\ p[1] = PadLength(g.pad)
    <2>1. Len(g.pad) = 1 => 1 \in 1 .. Len(g.pad)
      OBVIOUS
    <2>2. Len(g.pad) = 1 => p[1] = g.pad[1]
      BY <1>8, <2>1
    <2> QED BY <1>2, <2>2
  <1> QED BY <1>2, <1>3, <1>5, <1>6, <1>7, <1>8, <1>9

\* Setting one flag sets it and leaves the others.
LEMMA FlagIsSet ==
  ASSUME NEW x \in 0 .. 255
  PROVE  /\ WithFlag(x, PADDED) \in 0 .. 255
         /\ WithFlag(x, PRIORITY_FLAG) \in 0 .. 255
         /\ HasFlag(WithFlag(x, PADDED), PADDED)
         /\ HasFlag(WithFlag(x, PRIORITY_FLAG), PRIORITY_FLAG)
         /\ HasFlag(WithFlag(x, PADDED), PRIORITY_FLAG) <=> HasFlag(x, PRIORITY_FLAG)
         /\ HasFlag(WithFlag(x, PRIORITY_FLAG), PADDED) <=> HasFlag(x, PADDED)
         /\ HasFlag(WithFlag(x, PADDED), ACK) <=> HasFlag(x, ACK)
  <1>1. CASE HasFlag(x, PADDED)
    BY <1>1 DEF WithFlag, HasFlag, PADDED, PRIORITY_FLAG, ACK
  <1>2. CASE ~HasFlag(x, PADDED)
    BY <1>2 DEF WithFlag, HasFlag, PADDED, PRIORITY_FLAG, ACK
  <1> QED BY <1>1, <1>2

\* The flags of a built frame say which parts its payload has.
LEMMA BuiltFlags ==
  ASSUME NEW g \in Givens, g.typed, WellFormed(g)
  PROVE  /\ Build(g).flags \in 0 .. 255
         /\ g.type \in {DATA, HEADERS, PUSH_PROMISE} =>
               (IsPadded(Build(g)) <=> g.pad # <<>>)
         /\ g.type = HEADERS =>
               (HasFlag(Build(g).flags, PRIORITY_FLAG) <=> g.section # <<>>)
         /\ g.type = SETTINGS => Build(g).flags = g.flags
  <1>1. g.flags \in 0 .. 255
    BY DEF Givens
  <1>2. /\ g.type \in {DATA, HEADERS, PUSH_PROMISE} => ~HasFlag(g.flags, PADDED)
        /\ g.type = HEADERS => ~HasFlag(g.flags, PRIORITY_FLAG)
        /\ g.pad # <<>> => g.type \in {DATA, HEADERS, PUSH_PROMISE}
    BY DEF WellFormed, TypedBuildAllowed, SectionedBuildAllowed
  <1> DEFINE padded == IF g.pad = <<>> THEN g.flags ELSE WithFlag(g.flags, PADDED)
  <1>3. padded \in 0 .. 255
    BY <1>1, FlagIsSet
  <1>4. Build(g).flags = IF g.type = HEADERS /\ g.section # <<>>
                         THEN WithFlag(padded, PRIORITY_FLAG) ELSE padded
    BY DEF Build
  <1>5. /\ g.type \in {DATA, HEADERS, PUSH_PROMISE} => (HasFlag(padded, PADDED) <=> g.pad # <<>>)
        /\ g.type = HEADERS => ~HasFlag(padded, PRIORITY_FLAG)
    BY <1>1, <1>2, FlagIsSet
  <1>6. g.type = SETTINGS => padded = g.flags
    BY <1>2 DEF SETTINGS, DATA, HEADERS, PUSH_PROMISE
  <1>7. /\ WithFlag(padded, PRIORITY_FLAG) \in 0 .. 255
        /\ HasFlag(WithFlag(padded, PRIORITY_FLAG), PRIORITY_FLAG)
        /\ HasFlag(WithFlag(padded, PRIORITY_FLAG), PADDED) <=> HasFlag(padded, PADDED)
    BY <1>3, FlagIsSet
  <1> HIDE DEF padded
  <1>8. Build(g).flags \in 0 .. 255
    BY <1>3, <1>4, <1>7
  <1>9. HasFlag(Build(g).flags, PADDED) <=> HasFlag(padded, PADDED)
    BY <1>4, <1>7
  <1>10. g.type = HEADERS => (HasFlag(Build(g).flags, PRIORITY_FLAG) <=> g.section # <<>>)
    BY <1>4, <1>5, <1>7
  <1>11. g.type = SETTINGS => Build(g).flags = g.flags
    BY <1>4, <1>6 DEF SETTINGS, HEADERS
  <1> QED BY <1>5, <1>8, <1>9, <1>10, <1>11 DEF IsPadded

\* What the views of DATA, HEADERS and PUSH_PROMISE return is what their
\* builder was given.
LEMMA SectionsComeBack ==
  ASSUME NEW g \in Givens, g.typed, WellFormed(g),
         g.type \in {DATA, HEADERS, PUSH_PROMISE}
  PROVE  /\ SectionsAreValid(Build(g))
         /\ DataOf(Build(g)) = g.data
         /\ SectionOf(Build(g)) = g.section
         /\ PaddingLength(Build(g)) = PadLength(g.pad)
  <1> DEFINE f == Build(g)
             a == Len(g.pad)
             b == Len(g.section)
             c == Len(g.data)
             z == PadLength(g.pad)
             p == f.payload
  <1>1. f.type = g.type /\ f.stream = g.stream
    BY DEF Build
  <1>2. /\ Len(p) = a + b + c + z
        /\ a \in Nat /\ b \in Nat /\ c \in Nat /\ z \in Nat
        /\ g.pad = <<>> => a = 0 /\ z = 0
        /\ g.pad # <<>> => a = 1 /\ p[1] = z
        /\ SubSeq(p, a + 1, a + b) = g.section
        /\ SubSeq(p, a + b + 1, a + b + c) = g.data
    BY BuiltPayload
  <1>3. /\ IsPadded(f) <=> g.pad # <<>>
        /\ g.type = HEADERS => (HasFlag(f.flags, PRIORITY_FLAG) <=> g.section # <<>>)
    BY BuiltFlags
  <1>4. /\ Value(g.stream) # 0
        /\ g.type = PUSH_PROMISE => Value(U32(g.section)) # 0
        /\ g.type = PUSH_PROMISE => b = 4
        /\ g.type = HEADERS => g.section = <<>> \/ b = 5
        /\ g.type = DATA => g.section = <<>>
    BY DEF WellFormed, TypedBuildAllowed, SectionedBuildAllowed, StreamAllowed,
           DATA, HEADERS, PUSH_PROMISE
  <1>5. g.section = <<>> => b = 0
    OBVIOUS
  <1> HIDE DEF f, a, b, c, z, p
  <1>6. SectionStart(f) = a /\ PaddingLength(f) = z
    BY <1>2, <1>3 DEF SectionStart, PaddingLength, p
  <1>7. SectionLength(f) = b
    <2>1. CASE g.type = PUSH_PROMISE
      BY <1>1, <1>4, <2>1 DEF SectionLength
    <2>2. CASE g.type = HEADERS
      <3>1. g.section # <<>> => b = 5
        BY <1>4, <2>2
      <3> QED BY <1>1, <1>3, <1>5, <2>2, <3>1 DEF SectionLength, HEADERS, PUSH_PROMISE
    <2>3. CASE g.type = DATA
      BY <1>1, <1>4, <1>5, <2>3 DEF SectionLength, DATA, HEADERS, PUSH_PROMISE
    <2> QED BY <2>1, <2>2, <2>3
  <1>8. DataStart(f) = a + b
    BY <1>6, <1>7 DEF DataStart
  <1>9. DataEnd(f) = a + b + c
    BY <1>2, <1>6 DEF DataEnd, p
  <1>10. SectionOf(f) = g.section
    BY <1>2, <1>6, <1>8 DEF SectionOf, p
  <1>11. DataOf(f) = g.data
    BY <1>2, <1>8, <1>9 DEF DataOf, p
  <1>12. PaddingIsValid(f)
    BY <1>2, <1>3 DEF PaddingIsValid, p
  <1>13. SectionsAreValid(f)
    <2>1. DataEnd(f) - SectionStart(f) >= SectionLength(f)
      BY <1>2, <1>6, <1>7, <1>9
    <2> QED BY <1>1, <1>4, <1>10, <1>12, <2>1 DEF SectionsAreValid
  <1> QED BY <1>6, <1>10, <1>11, <1>13 DEF f, z

Settings == [id : U16, value : U32Value]

\* A setting is read back from its six bytes.
LEMMA SettingOfBytes ==
  ASSUME NEW x \in Settings
  PROVE  LET y == SettingBytes(x)
         IN  /\ y \in Seq(Byte) /\ Len(y) = 6
             /\ y[1] * ByteValues + y[2] = x.id
             /\ \A i \in 1 .. 4 : y[2 + i] = U32Bytes(x.value)[i]
             /\ U32Bytes(x.value) \in Seq(Nat) /\ Len(U32Bytes(x.value)) = 4
             /\ U32(U32Bytes(x.value)) = x.value
  <1> DEFINE u == U32Bytes(x.value)
             h == <<Low(Rest(x.id)), Low(x.id)>>
             y == SettingBytes(x)
  <1>1. x.id \in U16 /\ x.value \in U32Value
    BY DEF Settings
  <1>2. u \in Seq(Byte) /\ Len(u) = 4 /\ U32(u) = x.value
    BY <1>1, U32ComesBack
  <1>3. x.id \in Nat /\ ByteValues \in Nat /\ x.id < ByteValues * ByteValues
    BY <1>1, ByteAssumption, Distribute DEF U16
  <1>4. /\ Rest(x.id) \in Nat /\ Low(x.id) \in Byte
        /\ x.id = ByteValues * Rest(x.id) + Low(x.id)
    BY <1>3, ByteSplit
  <1>5. Rest(x.id) < ByteValues
    BY <1>3, RestBelow
  <1>6. Low(Rest(x.id)) = Rest(x.id) /\ Low(Rest(x.id)) \in Byte
    BY <1>4, <1>5, LowOfByte
  <1>7. Rest(x.id) * ByteValues = ByteValues * Rest(x.id)
    BY <1>3, <1>4, Distribute
  <1>8. h \in Seq(Byte) /\ Len(h) = 2 /\ h[1] = Rest(x.id) /\ h[2] = Low(x.id)
    BY <1>4, <1>6
  <1>9. y = h \o u
    BY DEF SettingBytes
  <1>10. u \in Seq(Nat) /\ h \in Seq(Nat)
    BY <1>2, <1>8, BytesAreBytes, SeqMonotonic
  <1> HIDE DEF u, h, y
  <1>11. y \in Seq(Byte)
    BY <1>2, <1>8, <1>9, ConcatProperties
  <1>12. /\ Len(y) = Len(h) + Len(u)
         /\ \A i \in 1 .. Len(h) : y[i] = h[i]
         /\ \A i \in 1 .. Len(u) : y[Len(h) + i] = u[i]
    BY <1>9, <1>10, Joined
  <1>13. y[1] = Rest(x.id) /\ y[2] = Low(x.id)
    BY <1>8, <1>12
  <1>14. y[1] * ByteValues + y[2] = x.id
    <2>1. y[1] * ByteValues = ByteValues * Rest(x.id)
      BY <1>7, <1>13
    <2> QED BY <1>4, <1>13, <2>1
  <1>15. \A i \in 1 .. 4 : y[2 + i] = u[i]
    BY <1>2, <1>8, <1>12
  <1> QED BY <1>2, <1>8, <1>10, <1>11, <1>12, <1>14, <1>15 DEF u, y

\* The settings are read back from the payload of a SETTINGS frame.
LEMMA SettingsComeBack ==
  ASSUME NEW list \in Seq(Settings)
  PROVE  /\ SettingsPayload(list) \in Seq(Byte)
         /\ Len(SettingsPayload(list)) = 6 * Len(list)
         /\ \A k \in 1 .. Len(list) : SettingAt(SettingsPayload(list), k) = list[k]
  <1> DEFINE p == SettingsPayload(list)
             n == Len(list)
  <1>1. n \in Nat /\ \A k \in 1 .. n : list[k] \in Settings
    BY LenProperties, ElementOfSeq
  <1>2. p = [i \in 1 .. (6 * n) |-> SettingBytes(list[((i - 1) \div 6) + 1])[((i - 1) % 6) + 1]]
    BY DEF SettingsPayload
  <1> HIDE DEF p, n
  <1>3. ASSUME NEW i \in 1 .. (6 * n)
        PROVE  SettingBytes(list[((i - 1) \div 6) + 1])[((i - 1) % 6) + 1] \in Byte
    <2>1. ((i - 1) \div 6) + 1 \in 1 .. n /\ ((i - 1) % 6) + 1 \in 1 .. 6
      BY <1>1
    <2>2. list[((i - 1) \div 6) + 1] \in Settings
      BY <1>1, <2>1
    <2>3. /\ SettingBytes(list[((i - 1) \div 6) + 1]) \in Seq(Byte)
          /\ Len(SettingBytes(list[((i - 1) \div 6) + 1])) = 6
      BY <2>2, SettingOfBytes
    <2> QED BY <2>1, <2>3, ElementOfSeq
  <1>4. 6 * n \in Nat
    BY <1>1
  <1>5. p \in [1 .. (6 * n) -> Byte]
    BY <1>2, <1>3, Zenon
  <1>6. p \in Seq(Byte) /\ Len(p) = 6 * n
    BY <1>4, <1>5
  <1>7. ASSUME NEW k \in 1 .. n, NEW i \in 1 .. 6
        PROVE  6 * k - 6 + i \in 1 .. (6 * n) /\ p[6 * k - 6 + i] = SettingBytes(list[k])[i]
    <2> DEFINE j == 6 * k - 6 + i
    <2>1. j \in 1 .. (6 * n) /\ ((j - 1) \div 6) + 1 = k /\ ((j - 1) % 6) + 1 = i
      BY <1>1
    <2> HIDE DEF j
    <2>2. p[j] = SettingBytes(list[k])[i]
      BY <1>2, <2>1
    <2> QED BY <2>1, <2>2 DEF j
  <1>8. ASSUME NEW k \in 1 .. n PROVE SettingAt(p, k) = list[k]
    <2> DEFINE x == list[k]
               y == SettingBytes(x)
               u == U32Bytes(x.value)
               v == SubSeq(p, 6 * k - 3, 6 * k)
    <2>1. x \in Settings
      BY <1>1
    <2>2. /\ y[1] * ByteValues + y[2] = x.id
          /\ \A i \in 1 .. 4 : y[2 + i] = u[i]
          /\ u \in Seq(Nat) /\ Len(u) = 4
          /\ U32(u) = x.value
      BY <2>1, SettingOfBytes
    <2> HIDE DEF x, y, u, v
    <2>3. ASSUME NEW i \in 1 .. 6 PROVE p[6 * k - 6 + i] = y[i]
      BY <1>7 DEF x, y
    <2>4. p[6 * k - 5] = y[1] /\ p[6 * k - 4] = y[2]
      <3>1. 6 * k - 6 + 1 = 6 * k - 5 /\ 6 * k - 6 + 2 = 6 * k - 4
        OBVIOUS
      <3> QED BY <2>3, <3>1
    <2>5. v = u
      <3> DEFINE at == 6 * k - 4
      <3>1. at \in Nat /\ at + 1 = 6 * k - 3 /\ at + 4 = 6 * k /\ at + 4 <= Len(p)
        BY <1>1, <1>6
      <3>2. ASSUME NEW i \in 1 .. 4 PROVE p[at + i] = u[i]
        <4>1. 2 + i \in 1 .. 6 /\ at + i = 6 * k - 6 + (2 + i)
          OBVIOUS
        <4> QED BY <2>2, <2>3, <4>1
      <3>3. p \in Seq(Nat)
        BY <1>6, BytesAreBytes, SeqMonotonic
      <3> HIDE DEF at
      <3>4. SubSeq(p, at + 1, at + Len(u)) = u
        BY <2>2, <3>1, <3>2, <3>3, CutOut
      <3> QED BY <2>2, <3>1, <3>4 DEF v
    <2>6. SettingAt(p, k) = [id |-> x.id, value |-> x.value]
      BY <2>2, <2>4, <2>5 DEF SettingAt, Setting, v
    <2> QED BY <2>1, <2>6 DEF Settings, x
  <1> QED BY <1>6, <1>8 DEF p, n

\* The view of a frame that a typed builder wrote is accepted.
LEMMA BuiltFramesAreAccepted ==
  ASSUME NEW g \in Givens, g.typed, WellFormed(g)
  PROVE  Accepts(Build(g)) /\ Payload(Build(g)) = g.data
  <1> DEFINE f == Build(g)
             p == f.payload
  <1>1. f.type = g.type /\ f.stream = g.stream /\ g.type \in 0 .. 9
    BY DEF Build, WellFormed
  <1>2. g.type \in {DATA, HEADERS, PUSH_PROMISE} =>
            SectionsAreValid(f) /\ DataOf(f) = g.data
    BY SectionsComeBack
  <1>3. g.type \notin {DATA, HEADERS, PUSH_PROMISE} => p = g.data /\ p \in Seq(Byte)
    <2> HAVE g.type \notin {DATA, HEADERS, PUSH_PROMISE}
    <2>1. g.pad = <<>> /\ g.section = <<>>
      BY DEF WellFormed
    <2>2. p = <<>> \o <<>> \o g.data \o [i \in 1 .. 0 |-> 0]
      BY <2>1 DEF Build, PadLength
    <2>3. g.data \in Seq(Byte)
      BY DEF Givens
    <2>4. [i \in 1 .. 0 |-> 0] = <<>>
      OBVIOUS
    <2> QED BY <2>2, <2>3, <2>4
  <1>4. g.type = SETTINGS => f.flags = g.flags
    BY BuiltFlags
  <1> HIDE DEF f, p
  <1>5. g.type \in {CONTINUATION, PRIORITY, RST_STREAM} => Value(f.stream) # 0
    BY <1>1 DEF WellFormed, TypedBuildAllowed, StreamAllowed
  <1>6. g.type \in {PING, GOAWAY, SETTINGS} => Value(f.stream) = 0
    <2>1. ByteValues \in Nat /\ ByteValues >= 2
      BY ByteAssumption
    <2>2. ReservedBit \in Nat /\ ReservedBit > 0
      <3> DEFINE q == ByteValues * ByteValues * ByteValues * ByteValues
      <3>1. q \in Nat /\ q >= 2
        <4>1. ByteValues * ByteValues \in Nat /\ ByteValues * ByteValues >= 2
          BY <2>1, Z3
        <4>2. /\ ByteValues * ByteValues * ByteValues \in Nat
              /\ ByteValues * ByteValues * ByteValues >= 2
          BY <2>1, <4>1, Z3
        <4> QED BY <2>1, <4>2, Z3
      <3> HIDE DEF q
      <3>2. q \div 2 \in Nat /\ q \div 2 > 0
        BY <3>1
      <3> QED BY <3>2 DEF ReservedBit, q
    <2>3. 0 % ReservedBit = 0
      BY <2>2
    <2> QED BY <1>1, <2>3 DEF WellFormed, Value
  <1>7. /\ g.type = PRIORITY => Len(p) = 5
        /\ g.type = RST_STREAM => Len(p) = 4
        /\ g.type = PING => Len(p) = 8
        /\ g.type = GOAWAY => Len(p) >= 8
        /\ g.type = WINDOW_UPDATE => Len(p) = 4
    BY <1>3 DEF WellFormed, DATA, HEADERS, PUSH_PROMISE, PRIORITY, RST_STREAM, PING,
                GOAWAY, WINDOW_UPDATE
  <1>8. g.type = WINDOW_UPDATE => Value(U32(p)) # 0
    BY <1>3 DEF WellFormed, TypedBuildAllowed, ControlBuildAllowed, StreamAllowed, DATA,
                HEADERS, PUSH_PROMISE, WINDOW_UPDATE
  <1>9. g.type = SETTINGS =>
            /\ HasFlag(f.flags, ACK) => Len(p) = 0
            /\ Len(p) % 6 = 0
            /\ \A k \in 1 .. (Len(p) \div 6) : HasValidIntrinsicValue(SettingAt(p, k))
    <2> HAVE g.type = SETTINGS
    <2>1. p = g.data
      BY <1>3 DEF DATA, HEADERS, PUSH_PROMISE, SETTINGS
    <2>2. HasFlag(f.flags, ACK) => Len(p) = 0
      BY <1>4, <2>1 DEF WellFormed, TypedBuildAllowed, ControlBuildAllowed
    <2>3. PICK list \in SettingLists :
              /\ \A k \in DOMAIN list : HasValidIntrinsicValue(list[k])
              /\ p = SettingsPayload(list)
      BY <2>1 DEF WellFormed
    <2>4. list \in Seq(Settings)
      BY InputsAssumption DEF Settings
    <2>5. Len(p) = 6 * Len(list) /\ Len(list) \in Nat /\ DOMAIN list = 1 .. Len(list)
      BY <2>3, <2>4, SettingsComeBack
    <2>6. Len(p) % 6 = 0 /\ Len(p) \div 6 = Len(list)
      <3> DEFINE m == Len(list)
                 n == Len(p)
      <3>1. m \in Nat /\ n = 6 * m
        BY <2>5
      <3> HIDE DEF m, n
      <3>2. n % 6 = 0 /\ n \div 6 = m
        BY <3>1
      <3> QED BY <3>2 DEF m, n
    <2>7. ASSUME NEW k \in 1 .. Len(list) PROVE HasValidIntrinsicValue(SettingAt(p, k))
      BY <2>3, <2>4, <2>5, SettingsComeBack
    <2> QED BY <2>2, <2>6, <2>7
  <1>10. Accepts(f)
    BY <1>1, <1>2, <1>5, <1>6, <1>7, <1>8, <1>9 DEF Accepts, ControlIsValid, SettingsAreValid, p
  <1>11. Payload(f) = g.data
    BY <1>1, <1>2, <1>3 DEF Payload, p
  <1> QED BY <1>10, <1>11 DEF f

\* What a builder writes is a frame.
LEMMA BuiltFrames ==
  ASSUME NEW g, WellFormed(g)
  PROVE  g \in Givens /\ Build(g) \in Frames
  <1>1. g \in Givens /\ Len(Build(g).payload) <= MaximumPayload
    BY DEF WellFormed
  <1>2. /\ Build(g).type \in Nat /\ Build(g).stream \in U32Value
    <2>1. g.type \in 0 .. 255 /\ g.stream \in U32Value
      BY <1>1 DEF Givens
    <2>2. Build(g).type = g.type /\ Build(g).stream = g.stream
      BY DEF Build
    <2> QED BY <2>1, <2>2
  <1>3. Build(g).flags \in Nat
    <2> DEFINE padded == IF g.pad = <<>> THEN g.flags ELSE WithFlag(g.flags, PADDED)
    <2>1. g.flags \in 0 .. 255
      BY <1>1 DEF Givens
    <2>2. padded \in 0 .. 255
      BY <2>1, FlagIsSet
    <2>3. WithFlag(padded, PRIORITY_FLAG) \in 0 .. 255
      BY <2>2, FlagIsSet
    <2>4. Build(g).flags = IF g.type = HEADERS /\ g.section # <<>>
                           THEN WithFlag(padded, PRIORITY_FLAG) ELSE padded
      BY DEF Build
    <2> HIDE DEF padded
    <2>5. Build(g).flags \in 0 .. 255
      BY <2>2, <2>3, <2>4, Zenon
    <2> QED BY <2>5
  <1>4. Build(g).payload \in Contents
    <2>1. Build(g).payload \in Seq(Byte)
      BY <1>1, BuiltPayload
    <2> QED BY <1>1, <2>1 DEF Contents
  <1>5. Build(g) = [type |-> Build(g).type, stream |-> Build(g).stream,
                    flags |-> Build(g).flags, payload |-> Build(g).payload]
    BY DEF Build
  <1> QED BY <1>1, <1>2, <1>3, <1>4, <1>5 DEF Frames

-----------------------------------------------------------------------------
(* Every frame written is well formed *)

\* What a builder has checked when it writes.
LEMMA Sent ==
  ASSUME NEW g, Send(g)
  PROVE  /\ Write(g)
         /\ Len(Build(g).payload) <= MaximumPayload
         /\ g.typed => TypedBuildAllowed(g)
  BY DEF Send, BuildAllowed, CanWriteEnvelope

\* A function on 1 .. n is a sequence of length n.
LEMMA FunctionIsSequence ==
  ASSUME NEW S, NEW n \in Nat, NEW s \in [1 .. n -> S]
  PROVE  s \in Seq(S) /\ Len(s) = n
  OBVIOUS

\* Bytes laid end to end are bytes.
LEMMA JoinedBytes ==
  ASSUME NEW s \in Seq(Byte), NEW t \in Seq(Byte)
  PROVE  s \o t \in Seq(Byte) /\ Len(s \o t) = Len(s) + Len(t)
  BY ConcatProperties

\* The codes of the frame types differ.
LEMMA TypesDiffer ==
  /\ DATA \notin {HEADERS, PRIORITY, RST_STREAM, SETTINGS, PUSH_PROMISE, PING, GOAWAY,
                  WINDOW_UPDATE, CONTINUATION}
  /\ HEADERS \notin {PRIORITY, RST_STREAM, SETTINGS, PUSH_PROMISE, PING, GOAWAY,
                  WINDOW_UPDATE, CONTINUATION}
  /\ PRIORITY \notin {RST_STREAM, SETTINGS, PUSH_PROMISE, PING, GOAWAY,
                  WINDOW_UPDATE, CONTINUATION}
  /\ RST_STREAM \notin {SETTINGS, PUSH_PROMISE, PING, GOAWAY, WINDOW_UPDATE, CONTINUATION}
  /\ SETTINGS \notin {PUSH_PROMISE, PING, GOAWAY, WINDOW_UPDATE, CONTINUATION}
  /\ PUSH_PROMISE \notin {PING, GOAWAY, WINDOW_UPDATE, CONTINUATION}
  /\ PING \notin {GOAWAY, WINDOW_UPDATE, CONTINUATION}
  /\ GOAWAY \notin {WINDOW_UPDATE, CONTINUATION}
  /\ WINDOW_UPDATE # CONTINUATION
  BY DEF DATA, HEADERS, PRIORITY, RST_STREAM, SETTINGS, PUSH_PROMISE, PING, GOAWAY,
         WINDOW_UPDATE, CONTINUATION

\* The contents handed to builders are bytes of their lengths.
LEMMA PartsOfInputs ==
  /\ \A data \in Fragments \cup RawPayloads : data \in Seq(Byte) /\ Len(data) <= MaximumPayload
  /\ \A quad \in Quads : quad \in Seq(Byte) /\ Len(quad) = 4
  /\ \A priority \in PrioritySections : priority \in Seq(Byte) /\ Len(priority) = 5
  <1>1. \A data \in Fragments \cup RawPayloads : data \in Seq(Byte) /\ Len(data) <= MaximumPayload
    BY InputsAssumption DEF Contents
  <1>2. ASSUME NEW quad \in Quads PROVE quad \in Seq(Byte) /\ Len(quad) = 4
    <2>1. quad \in [1 .. 4 -> Byte]
      BY InputsAssumption
    <2> QED BY <2>1, FunctionIsSequence
  <1>3. ASSUME NEW priority \in PrioritySections PROVE priority \in Seq(Byte) /\ Len(priority) = 5
    <2>1. priority \in [1 .. 5 -> Byte]
      BY InputsAssumption
    <2> QED BY <2>1, FunctionIsSequence
  <1> QED BY <1>1, <1>2, <1>3

\* The builders of connection frames write stream 0 and no padding.
LEMMA NoStream == 0 \in U32Value /\ <<>> \in Seq(Byte)
  <1>1. ByteValues \in Nat /\ ByteValues >= 2
    BY ByteAssumption
  <1>2. ByteValues * ByteValues \in Nat /\ ByteValues * ByteValues >= 2
    BY <1>1, Z3
  <1>3. /\ ByteValues * ByteValues * ByteValues \in Nat
        /\ ByteValues * ByteValues * ByteValues >= 2
    BY <1>1, <1>2, Z3
  <1>4. /\ ByteValues * ByteValues * ByteValues * ByteValues \in Nat
        /\ ByteValues * ByteValues * ByteValues * ByteValues >= 2
    BY <1>1, <1>3, Z3
  <1> QED BY <1>4 DEF U32Value

\* Types whose frames have neither padding nor a section before the data.
LEMMA PlainIsWellFormed ==
  ASSUME NEW type \in {CONTINUATION, PRIORITY, RST_STREAM, WINDOW_UPDATE, PING, GOAWAY},
         NEW stream \in U32Value, NEW flags \in 0 .. 255, NEW data \in Seq(Byte),
         type = PRIORITY => Len(data) = 5,
         type \in {RST_STREAM, WINDOW_UPDATE} => Len(data) = 4,
         type = PING => Len(data) = 8,
         type = GOAWAY => Len(data) >= 8,
         type \in {PING, GOAWAY} => stream = 0,
         Send(Given(TRUE, type, stream, flags, <<>>, <<>>, data))
  PROVE  \E g : WellFormed(g) /\ Write(g)
  <1> DEFINE g == Given(TRUE, type, stream, flags, <<>>, <<>>, data)
  <1>1. type \in 0 .. 255 /\ type \in 0 .. 9 /\ type # SETTINGS /\ type # DATA
        /\ type # HEADERS /\ type # PUSH_PROMISE
    BY DEF CONTINUATION, PRIORITY, RST_STREAM, WINDOW_UPDATE, PING, GOAWAY, SETTINGS,
           DATA, HEADERS, PUSH_PROMISE
  <1>2. /\ g \in Givens
        /\ g.typed = TRUE /\ g.type = type /\ g.stream = stream /\ g.flags = flags
        /\ g.pad = <<>> /\ g.section = <<>> /\ g.data = data
    <2>2. <<>> \in {<<>>} \cup {<<n>> : n \in Byte} /\ TRUE \in BOOLEAN
      OBVIOUS
    <2> QED BY <1>1, <2>2, NoStream DEF Given, Givens
  <1> HIDE DEF g
  <1>3. Send(g)
    BY DEF g
  <1>4. Write(g) /\ Len(Build(g).payload) <= MaximumPayload /\ TypedBuildAllowed(g)
    BY <1>2, <1>3, Sent
  <1>5. WellFormed(g)
    BY <1>1, <1>2, <1>4 DEF WellFormed
  <1> QED BY <1>4, <1>5

\* The builders of DATA, HEADERS and PUSH_PROMISE.
LEMMA SectionedIsWellFormed ==
  ASSUME NEW type \in {DATA, HEADERS, PUSH_PROMISE},
         NEW stream \in Streams, NEW flags \in 0 .. 255, NEW pad \in Pads,
         NEW section \in Seq(Byte), NEW data \in Fragments,
         type = DATA => section = <<>>,
         type = HEADERS => section = <<>> \/ Len(section) = 5,
         type = PUSH_PROMISE => Len(section) = 4,
         Send(Given(TRUE, type, stream, flags, pad, section, data))
  PROVE  \E g : WellFormed(g) /\ Write(g)
  <1> DEFINE g == Given(TRUE, type, stream, flags, pad, section, data)
  <1>1. type \in 0 .. 255 /\ type \in 0 .. 9 /\ type # SETTINGS /\ type # PRIORITY
        /\ type \notin {RST_STREAM, WINDOW_UPDATE} /\ type \notin {PING, GOAWAY, SETTINGS}
    BY DEF CONTINUATION, PRIORITY, RST_STREAM, WINDOW_UPDATE, PING, GOAWAY, SETTINGS,
           DATA, HEADERS, PUSH_PROMISE
  <1>2. /\ g \in Givens
        /\ g.typed = TRUE /\ g.type = type /\ g.stream = stream /\ g.flags = flags
        /\ g.pad = pad /\ g.section = section /\ g.data = data
    <2>1. stream \in U32Value /\ pad \in {<<>>} \cup {<<n>> : n \in Byte} /\ data \in Seq(Byte)
      BY InputsAssumption, PartsOfInputs
    <2> QED BY <1>1, <2>1 DEF Given, Givens
  <1> HIDE DEF g
  <1>3. Send(g)
    BY DEF g
  <1>4. Write(g) /\ Len(Build(g).payload) <= MaximumPayload /\ TypedBuildAllowed(g)
    BY <1>2, <1>3, Sent
  <1>5. WellFormed(g)
    BY <1>1, <1>2, <1>4 DEF WellFormed, DATA, HEADERS, PUSH_PROMISE
  <1> QED BY <1>4, <1>5

LEMMA SettingsAreWellFormed ==
  ASSUME NEW list \in SettingLists, NEW flags \in PlainFlags,
         \A k \in DOMAIN list : HasValidIntrinsicValue(list[k]),
         Send(Given(TRUE, SETTINGS, 0, flags, <<>>, <<>>, SettingsPayload(list)))
  PROVE  \E g : WellFormed(g) /\ Write(g)
  <1> DEFINE g == Given(TRUE, SETTINGS, 0, flags, <<>>, <<>>, SettingsPayload(list))
  <1>1. list \in Seq(Settings)
    BY InputsAssumption DEF Settings
  <1>2. SettingsPayload(list) \in Seq(Byte)
    BY <1>1, SettingsComeBack
  <1>3. SETTINGS \in 0 .. 255 /\ SETTINGS \in 0 .. 9 /\ flags \in 0 .. 255
    BY InputsAssumption DEF SETTINGS
  <1>4. /\ g \in Givens
        /\ g.typed = TRUE /\ g.type = SETTINGS /\ g.stream = 0
        /\ g.pad = <<>> /\ g.section = <<>> /\ g.data = SettingsPayload(list)
    <2>2. <<>> \in {<<>>} \cup {<<n>> : n \in Byte} /\ TRUE \in BOOLEAN
      OBVIOUS
    <2> QED BY <1>2, <1>3, <2>2, NoStream DEF Given, Givens
  <1> HIDE DEF g
  <1>5. Send(g)
    BY DEF g
  <1>6. Write(g) /\ Len(Build(g).payload) <= MaximumPayload /\ TypedBuildAllowed(g)
    BY <1>4, <1>5, Sent
  <1>7. WellFormed(g)
    BY <1>3, <1>4, <1>6 DEF WellFormed, DATA, HEADERS, PUSH_PROMISE, SETTINGS, PRIORITY, PING,
                            GOAWAY, RST_STREAM, WINDOW_UPDATE
  <1> QED BY <1>6, <1>7

LEMMA RawIsWellFormed ==
  ASSUME NEW type \in RawTypes, NEW stream \in U32Value, NEW flags \in RawFlags,
         NEW payload \in RawPayloads,
         Write(Given(FALSE, type, stream, flags, <<>>, <<>>, payload))
  PROVE  \E g : WellFormed(g) /\ Write(g)
  <1> DEFINE g == Given(FALSE, type, stream, flags, <<>>, <<>>, payload)
  <1>1. type \in 0 .. 255 /\ flags \in 0 .. 255
    BY InputsAssumption
  <1>2. payload \in Seq(Byte) /\ Len(payload) <= MaximumPayload
    BY PartsOfInputs
  <1>3. /\ g \in Givens
        /\ g.typed = FALSE /\ g.pad = <<>> /\ g.section = <<>> /\ g.data = payload
    <2>2. <<>> \in {<<>>} \cup {<<n>> : n \in Byte} /\ FALSE \in BOOLEAN
      OBVIOUS
    <2> QED BY <1>1, <1>2, <2>2, NoStream DEF Given, Givens
  <1> HIDE DEF g
  <1>4. Build(g).payload = payload
    <2>1. Build(g).payload = <<>> \o <<>> \o payload \o [i \in 1 .. 0 |-> 0]
      BY <1>3 DEF Build, PadLength
    <2>2. [i \in 1 .. 0 |-> 0] = <<>>
      OBVIOUS
    <2> QED BY <1>2, <2>1, <2>2
  <1>5. WellFormed(g)
    BY <1>2, <1>3, <1>4 DEF WellFormed
  <1> QED BY <1>5 DEF g

Sending == \/ BuildData \/ BuildHeaders \/ BuildPushPromise \/ BuildContinuation
           \/ BuildPriority \/ BuildRstStream \/ BuildWindowUpdate \/ BuildSettings
           \/ BuildPing \/ BuildGoaway \/ BuildRaw \/ ForeignFrame

\* Every builder writes a well-formed frame.
LEMMA SendingIsWellFormed ==
  ASSUME Sending
  PROVE  \E g : WellFormed(g) /\ Write(g)
  <1>0. Streams \subseteq U32Value /\ FlagChoices \subseteq 0 .. 255 /\ PlainFlags \subseteq 0 .. 255
        /\ RawStreams \subseteq U32Value /\ ForeignStreams \subseteq U32Value
    BY InputsAssumption
  <1>1. CASE BuildData
    <2>1. PICK stream \in Streams, flags \in PlainFlags, pad \in Pads, data \in Fragments :
              Send(Given(TRUE, DATA, stream, flags, pad, <<>>, data))
      BY <1>1 DEF BuildData
    <2> QED BY <1>0, <2>1, NoStream, SectionedIsWellFormed, TypesDiffer
  <1>2. CASE BuildHeaders
    <2>1. PICK stream \in Streams, flags \in FlagChoices, pad \in Pads,
               section \in {<<>>} \cup PrioritySections, data \in Fragments :
              Send(Given(TRUE, HEADERS, stream, flags, pad, section, data))
      BY <1>2 DEF BuildHeaders
    <2>2. section \in Seq(Byte) /\ (section = <<>> \/ Len(section) = 5)
      BY NoStream, PartsOfInputs
    <2> QED BY <1>0, <2>1, <2>2, SectionedIsWellFormed, TypesDiffer
  <1>3. CASE BuildPushPromise
    <2>1. PICK stream \in Streams, flags \in FlagChoices, pad \in Pads,
               promised \in Quads, data \in Fragments :
              Send(Given(TRUE, PUSH_PROMISE, stream, flags, pad, promised, data))
      BY <1>3 DEF BuildPushPromise
    <2>2. promised \in Seq(Byte) /\ Len(promised) = 4
      BY PartsOfInputs
    <2> QED BY <1>0, <2>1, <2>2, SectionedIsWellFormed, TypesDiffer
  <1>4. CASE BuildContinuation
    <2>1. PICK stream \in Streams, flags \in FlagChoices, data \in Fragments :
              Send(Given(TRUE, CONTINUATION, stream, flags, <<>>, <<>>, data))
      BY <1>4 DEF BuildContinuation
    <2>2. data \in Seq(Byte)
      BY PartsOfInputs
    <2> QED BY <1>0, <2>1, <2>2, PlainIsWellFormed, TypesDiffer
  <1>5. CASE BuildPriority
    <2>1. PICK stream \in Streams, flags \in PlainFlags, priority \in PrioritySections :
              Send(Given(TRUE, PRIORITY, stream, flags, <<>>, <<>>, priority))
      BY <1>5 DEF BuildPriority
    <2>2. priority \in Seq(Byte) /\ Len(priority) = 5
      BY PartsOfInputs
    <2> QED BY <1>0, <2>1, <2>2, PlainIsWellFormed, TypesDiffer
  <1>6. CASE BuildRstStream
    <2>1. PICK stream \in Streams, flags \in PlainFlags, code \in Quads :
              Send(Given(TRUE, RST_STREAM, stream, flags, <<>>, <<>>, code))
      BY <1>6 DEF BuildRstStream
    <2>2. code \in Seq(Byte) /\ Len(code) = 4
      BY PartsOfInputs
    <2> QED BY <1>0, <2>1, <2>2, PlainIsWellFormed, TypesDiffer
  <1>7. CASE BuildWindowUpdate
    <2>1. PICK stream \in Streams, flags \in PlainFlags, increment \in Quads :
              Send(Given(TRUE, WINDOW_UPDATE, stream, flags, <<>>, <<>>, increment))
      BY <1>7 DEF BuildWindowUpdate
    <2>2. increment \in Seq(Byte) /\ Len(increment) = 4
      BY PartsOfInputs
    <2> QED BY <1>0, <2>1, <2>2, PlainIsWellFormed, TypesDiffer
  <1>8. CASE BuildSettings
    <2>1. PICK list \in SettingLists, flags \in PlainFlags :
              /\ \A k \in DOMAIN list : HasValidIntrinsicValue(list[k])
              /\ Send(Given(TRUE, SETTINGS, 0, flags, <<>>, <<>>, SettingsPayload(list)))
      BY <1>8 DEF BuildSettings
    <2> QED BY <2>1, SettingsAreWellFormed
  <1>9. CASE BuildPing
    <2>1. PICK flags \in PlainFlags, first \in Quads, last \in Quads :
              Send(Given(TRUE, PING, 0, flags, <<>>, <<>>, first \o last))
      BY <1>9 DEF BuildPing
    <2>2. /\ first \in Seq(Byte) /\ Len(first) = 4
          /\ last \in Seq(Byte) /\ Len(last) = 4
      BY PartsOfInputs
    <2>3. first \o last \in Seq(Byte) /\ Len(first \o last) = 8
      <3>1. first \o last \in Seq(Byte) /\ Len(first \o last) = Len(first) + Len(last)
        BY <2>2, JoinedBytes
      <3> QED BY <2>2, <3>1
    <2> QED BY <1>0, <2>1, <2>3, NoStream, PlainIsWellFormed, TypesDiffer
  <1>10. CASE BuildGoaway
    <2>1. PICK flags \in PlainFlags, lastStream \in Quads, code \in Quads,
               debug \in Fragments :
              Send(Given(TRUE, GOAWAY, 0, flags, <<>>, <<>>, lastStream \o code \o debug))
      BY <1>10 DEF BuildGoaway
    <2>2. /\ lastStream \in Seq(Byte) /\ Len(lastStream) = 4
          /\ code \in Seq(Byte) /\ Len(code) = 4
          /\ debug \in Seq(Byte)
      BY PartsOfInputs
    <2>3. lastStream \o code \in Seq(Byte) /\ Len(lastStream \o code) = Len(lastStream) + Len(code)
      BY <2>2, JoinedBytes
    <2>4. Len(debug) \in Nat
      BY <2>2, LenProperties
    <2>5. /\ lastStream \o code \o debug \in Seq(Byte)
          /\ Len(lastStream \o code \o debug) = Len(lastStream \o code) + Len(debug)
      BY <2>2, <2>3, JoinedBytes
    <2>6. Len(lastStream \o code \o debug) >= 8
      BY <2>2, <2>3, <2>4, <2>5
    <2> QED BY <1>0, <2>1, <2>5, <2>6, NoStream, PlainIsWellFormed, TypesDiffer
  <1>11. CASE BuildRaw
    <2>1. PICK type \in RawTypes, stream \in RawStreams, flags \in RawFlags,
               payload \in RawPayloads :
              Send(Given(FALSE, type, stream, flags, <<>>, <<>>, payload))
      BY <1>11 DEF BuildRaw
    <2>2. Write(Given(FALSE, type, stream, flags, <<>>, <<>>, payload))
      BY <2>1, Sent
    <2> QED BY <1>0, <2>2, RawIsWellFormed
  <1>12. CASE ForeignFrame
    <2>1. PICK type \in RawTypes, stream \in ForeignStreams, flags \in RawFlags,
               payload \in RawPayloads :
              Write(Given(FALSE, type, stream, flags, <<>>, <<>>, payload))
      BY <1>12 DEF ForeignFrame
    <2> QED BY <1>0, <2>1, RawIsWellFormed
  <1> QED BY <1>1, <1>2, <1>3, <1>4, <1>5, <1>6, <1>7, <1>8, <1>9, <1>10, <1>11, <1>12 DEF Sending

-----------------------------------------------------------------------------
(* The bytes on the way *)

FrameBytes(s, k) == Bytes(Build(s[k]))

\* The frames of s after the first n stand in w, frame k between off[k - 1]
\* and off[k].
PlacedAt(off, s, n, w) ==
    /\ off \in [Nat -> Int]
    /\ off[n] = 0
    /\ off[Len(s)] = Len(w)
    /\ \A j, k \in n .. Len(s) : j <= k => off[j] <= off[k]
    /\ \A k \in (n + 1) .. Len(s) : off[k] = off[k - 1] + Len(FrameBytes(s, k))
    /\ \A k \in (n + 1) .. Len(s) : \A i \in 1 .. Len(FrameBytes(s, k)) :
          w[off[k - 1] + i] = FrameBytes(s, k)[i]

\* An index moved by an offset stays within its bounds.
LEMMA Within ==
  ASSUME NEW a \in Int, NEW d \in Nat, NEW v \in Nat, NEW l \in Nat, NEW b \in Int,
         d <= a, b = a + v, b <= l, NEW i \in 1 .. v
  PROVE  /\ a + i \in 1 .. l
         /\ (a - d) + i \in 1 .. (l - d)
         /\ d + ((a - d) + i) = a + i
  OBVIOUS

\* The length of what SubSeq leaves after the first d items.
LEMMA LengthOfRest ==
  ASSUME NEW d \in Nat, NEW l \in Nat, d <= l
  PROVE  (IF d + 1 <= l THEN l - (d + 1) + 1 ELSE 0) = l - d
  OBVIOUS

\* Bytes written behind those on the way are the last frame's.
LEMMA PlacedAppend ==
  ASSUME NEW s \in Seq(Givens), NEW n \in Nat, n <= Len(s), NEW w \in Seq(Nat),
         NEW off, PlacedAt(off, s, n, w),
         \A k \in 1 .. Len(s) : WellFormed(s[k]),
         NEW g, WellFormed(g)
  PROVE  \E to : PlacedAt(to, Append(s, g), n, w \o Bytes(Build(g)))
  <1> DEFINE c == Bytes(Build(g))
             m == Len(s)
             x == Append(s, g)
             y == w \o c
             to == [off EXCEPT ![m + 1] = Len(w) + Len(c)]
  <1>1. g \in Givens /\ c \in Seq(Nat) /\ m \in Nat /\ Len(w) \in Nat
    BY BuiltFrames, BytesOfFrame, LenProperties
  <1>2. Len(c) \in Nat
    BY <1>1, LenProperties
  <1>3. Len(x) = m + 1 /\ x[m + 1] = g /\ \A k \in 1 .. m : x[k] = s[k]
    BY <1>1
  <1>4. /\ Len(y) = Len(w) + Len(c)
        /\ \A i \in 1 .. Len(w) : y[i] = w[i]
        /\ \A i \in 1 .. Len(c) : y[Len(w) + i] = c[i]
    <2> HIDE DEF c
    <2> QED BY <1>1, Joined
  <1>5. off \in [Nat -> Int] /\ off[n] = 0 /\ off[m] = Len(w)
    BY DEF PlacedAt
  <1>6. /\ to \in [Nat -> Int] /\ to[m + 1] = Len(w) + Len(c)
        /\ \A k \in 0 .. m : to[k] = off[k]
    <2> HIDE DEF c
    <2> QED BY <1>1, <1>2, <1>5
  <1>7. FrameBytes(x, m + 1) = c /\ \A k \in 1 .. m : FrameBytes(x, k) = FrameBytes(s, k)
    BY <1>3 DEF FrameBytes
  <1>8. ASSUME NEW k \in 1 .. m PROVE Len(FrameBytes(s, k)) \in Nat
    <2>1. FrameBytes(s, k) \in Seq(Nat)
      BY BuiltFrames, BytesOfFrame DEF FrameBytes
    <2> QED BY <2>1, LenProperties
  <1> HIDE DEF c, m, x, y, to
  <1>9. \A j, k \in n .. m : j <= k => off[j] <= off[k]
    BY DEF PlacedAt, m
  <1>10. \A k \in n .. m : off[k] \in Nat /\ off[k] <= Len(w)
    <2>1. n <= m
      BY DEF m
    <2> QED BY <1>1, <1>5, <1>9, <2>1
  <1>11. to[n] = 0 /\ to[Len(x)] = Len(y)
    <2>1. n \in 0 .. m
      BY <1>1 DEF m
    <2> QED BY <1>3, <1>4, <1>5, <1>6, <2>1
  <1>12. ASSUME NEW j \in n .. Len(x), NEW k \in n .. Len(x), j <= k
         PROVE  to[j] <= to[k]
    <2>1. CASE k = m + 1 /\ j = m + 1
      BY <1>1, <1>2, <1>6, <2>1
    <2>2. CASE k = m + 1 /\ j # m + 1
      <3>1. j \in n .. m /\ j \in 0 .. m
        BY <1>1, <1>3, <2>2
      <3>2. to[j] = off[j] /\ off[j] \in Nat /\ off[j] <= Len(w)
        BY <1>6, <1>10, <3>1
      <3> QED BY <1>1, <1>2, <1>6, <2>2, <3>2
    <2>3. CASE k # m + 1
      <3>1. j \in n .. m /\ k \in n .. m /\ j \in 0 .. m /\ k \in 0 .. m
        BY <1>1, <1>3, <1>12, <2>3
      <3> QED BY <1>6, <1>9, <1>12, <3>1
    <2> QED BY <2>1, <2>2, <2>3
  <1>13. ASSUME NEW k \in (n + 1) .. Len(x)
         PROVE  /\ to[k] = to[k - 1] + Len(FrameBytes(x, k))
                /\ \A i \in 1 .. Len(FrameBytes(x, k)) : y[to[k - 1] + i] = FrameBytes(x, k)[i]
    <2>1. CASE k = m + 1
      <3>1. k - 1 = m /\ m \in 0 .. m
        BY <1>1, <2>1
      <3>2. to[k - 1] = Len(w)
        BY <1>5, <1>6, <3>1
      <3> QED BY <1>4, <1>6, <1>7, <2>1, <3>2
    <2>2. CASE k # m + 1
      <3>1. /\ k \in (n + 1) .. m /\ k \in 1 .. m /\ k \in n .. m
            /\ k - 1 \in n .. m /\ k \in 0 .. m /\ k - 1 \in 0 .. m
        BY <1>1, <1>3, <2>2
      <3>2. /\ to[k] = off[k] /\ to[k - 1] = off[k - 1]
            /\ FrameBytes(x, k) = FrameBytes(s, k)
        BY <1>6, <1>7, <3>1
      <3>3. /\ off[k] = off[k - 1] + Len(FrameBytes(s, k))
            /\ \A i \in 1 .. Len(FrameBytes(s, k)) :
                  w[off[k - 1] + i] = FrameBytes(s, k)[i]
        BY <3>1 DEF PlacedAt, m
      <3>4. ASSUME NEW i \in 1 .. Len(FrameBytes(s, k))
            PROVE  y[off[k - 1] + i] = FrameBytes(s, k)[i]
        <4>1. off[k - 1] \in Nat /\ off[k] \in Nat /\ off[k] <= Len(w)
          BY <1>10, <3>1
        <4>2. off[k - 1] + i \in 1 .. Len(w)
          <5> DEFINE v == Len(FrameBytes(s, k))
          <5>1. v \in Nat /\ off[k] = off[k - 1] + v /\ i \in 1 .. v
            BY <1>8, <3>1, <3>3
          <5>2. off[k - 1] \in Int /\ off[k] \in Int /\ 0 \in Nat /\ 0 <= off[k - 1]
            BY <4>1
          <5> HIDE DEF v
          <5> QED BY <1>1, <4>1, <5>1, <5>2, Within
        <4> QED BY <1>4, <3>3, <4>2
      <3> QED BY <3>2, <3>3, <3>4
    <2> QED BY <2>1, <2>2
  <1>14. PlacedAt(to, x, n, y)
    BY <1>6, <1>11, <1>12, <1>13 DEF PlacedAt
  <1> QED BY <1>14 DEF x, y, c

\* The bytes on the way begin with those of the first frame.
LEMMA PlacedFirst ==
  ASSUME NEW s \in Seq(Givens), NEW n \in Nat, n < Len(s), NEW w \in Seq(Nat),
         NEW off, PlacedAt(off, s, n, w),
         \A k \in 1 .. Len(s) : WellFormed(s[k])
  PROVE  /\ Len(FrameBytes(s, n + 1)) \in Nat
         /\ Len(FrameBytes(s, n + 1)) <= Len(w)
         /\ \A i \in 1 .. Len(FrameBytes(s, n + 1)) : w[i] = FrameBytes(s, n + 1)[i]
         /\ off[n + 1] = Len(FrameBytes(s, n + 1))
  <1>1. n + 1 \in (n + 1) .. Len(s) /\ n + 1 \in 1 .. Len(s) /\ n + 1 \in n .. Len(s)
        /\ Len(s) \in n .. Len(s) /\ n + 1 <= Len(s) /\ (n + 1) - 1 = n
    BY LenProperties
  <1>2. Len(FrameBytes(s, n + 1)) \in Nat
    <2>1. FrameBytes(s, n + 1) \in Seq(Nat)
      BY <1>1, BuiltFrames, BytesOfFrame DEF FrameBytes
    <2> QED BY <2>1, LenProperties
  <1>3. /\ off[n] = 0 /\ off[Len(s)] = Len(w)
        /\ off[n + 1] <= off[Len(s)]
        /\ off[n + 1] = off[(n + 1) - 1] + Len(FrameBytes(s, n + 1))
        /\ \A i \in 1 .. Len(FrameBytes(s, n + 1)) :
              w[off[(n + 1) - 1] + i] = FrameBytes(s, n + 1)[i]
    BY <1>1 DEF PlacedAt
  <1>4. off[(n + 1) - 1] = 0
    BY <1>1, <1>3
  <1>5. off[n + 1] = Len(FrameBytes(s, n + 1))
    BY <1>2, <1>3, <1>4
  <1>6. ASSUME NEW i \in 1 .. Len(FrameBytes(s, n + 1))
        PROVE  w[i] = FrameBytes(s, n + 1)[i]
    <2>1. w[0 + i] = FrameBytes(s, n + 1)[i]
      BY <1>3, <1>4
    <2>2. 0 + i = i
      BY <1>2
    <2> QED BY <2>1, <2>2
  <1> QED BY <1>2, <1>3, <1>5, <1>6

\* Without the bytes of the first frame, the others stay placed.
LEMMA PlacedTake ==
  ASSUME NEW s \in Seq(Givens), NEW n \in Nat, n < Len(s), NEW w \in Seq(Nat),
         NEW off, PlacedAt(off, s, n, w),
         \A k \in 1 .. Len(s) : WellFormed(s[k]),
         NEW length, length = Len(FrameBytes(s, n + 1))
  PROVE  /\ SubSeq(w, length + 1, Len(w)) \in Seq(Nat)
         /\ \E to : PlacedAt(to, s, n + 1, SubSeq(w, length + 1, Len(w)))
  <1> DEFINE y == SubSeq(w, length + 1, Len(w))
             to == [k \in Nat |-> off[k] - length]
             m == Len(s)
  <1>1. /\ length \in Nat /\ length <= Len(w) /\ off[n + 1] = length
        /\ Len(w) \in Nat /\ m \in Nat /\ n < m
    BY PlacedFirst, LenProperties
  <1>2. /\ y \in Seq(Nat) /\ Len(y) = Len(w) - length
        /\ \A i \in 1 .. (Len(w) - length) : y[i] = w[length + i]
    <2>1. \A i \in (length + 1) .. Len(w) : w[i] \in Nat
      <3>1. \A i \in (length + 1) .. Len(w) : i \in 1 .. Len(w)
        BY <1>1
      <3> QED BY <3>1, ElementOfSeq
    <2>2. length + 1 \in Int /\ Len(w) \in Int
      BY <1>1
    <2>3. /\ y \in Seq(Nat)
          /\ Len(y) = IF length + 1 <= Len(w) THEN Len(w) - (length + 1) + 1 ELSE 0
          /\ \A i \in 1 .. Len(w) - (length + 1) + 1 : y[i] = w[(length + 1) + i - 1]
      BY <2>1, <2>2, SubSeqProperties
    <2> HIDE DEF y
    <2>4. Len(y) = Len(w) - length
      BY <1>1, <2>3, LengthOfRest
    <2>5. ASSUME NEW i \in 1 .. (Len(w) - length) PROVE y[i] = w[length + i]
      <3>1. i \in 1 .. Len(w) - (length + 1) + 1 /\ (length + 1) + i - 1 = length + i
        BY <1>1
      <3> QED BY <2>3, <3>1
    <2> QED BY <2>3, <2>4, <2>5
  <1>3. off \in [Nat -> Int] /\ off[m] = Len(w)
    BY DEF PlacedAt
  <1>4. to \in [Nat -> Int] /\ \A k \in Nat : to[k] = off[k] - length
    BY <1>1, <1>3
  <1>5. ASSUME NEW k \in 1 .. m PROVE Len(FrameBytes(s, k)) \in Nat
    <2>1. FrameBytes(s, k) \in Seq(Nat)
      BY BuiltFrames, BytesOfFrame DEF FrameBytes
    <2> QED BY <2>1, LenProperties
  <1> HIDE DEF y, to, m
  <1>6. \A j, k \in n .. m : j <= k => off[j] <= off[k]
    BY DEF PlacedAt, m
  <1>7. to[n + 1] = 0 /\ to[m] = Len(y)
    <2>1. n + 1 \in Nat /\ m \in Nat
      BY <1>1
    <2>2. to[n + 1] = off[n + 1] - length /\ to[m] = off[m] - length
      BY <1>4, <2>1
    <2> QED BY <1>1, <1>2, <1>3, <2>2
  <1>8. ASSUME NEW j \in (n + 1) .. m, NEW k \in (n + 1) .. m, j <= k
        PROVE  to[j] <= to[k]
    <2>1. j \in n .. m /\ k \in n .. m /\ j \in Nat /\ k \in Nat
      BY <1>1
    <2>2. off[j] <= off[k] /\ off[j] \in Int /\ off[k] \in Int
      BY <1>3, <1>6, <1>8, <2>1
    <2>3. to[j] = off[j] - length /\ to[k] = off[k] - length
      BY <1>4, <2>1
    <2> QED BY <1>1, <2>2, <2>3
  <1>9. ASSUME NEW k \in ((n + 1) + 1) .. m
        PROVE  /\ to[k] = to[k - 1] + Len(FrameBytes(s, k))
               /\ \A i \in 1 .. Len(FrameBytes(s, k)) : y[to[k - 1] + i] = FrameBytes(s, k)[i]
    <2>1. /\ k \in (n + 1) .. m /\ k \in 1 .. m /\ k \in n .. m /\ k - 1 \in n .. m
          /\ k \in Nat /\ k - 1 \in Nat /\ n + 1 \in n .. m /\ m \in n .. m
          /\ n + 1 <= k - 1 /\ k <= m
      BY <1>1
    <2>2. /\ off[k] = off[k - 1] + Len(FrameBytes(s, k))
          /\ \A i \in 1 .. Len(FrameBytes(s, k)) :
                w[off[k - 1] + i] = FrameBytes(s, k)[i]
      BY <2>1 DEF PlacedAt, m
    <2>3. off[k] \in Int /\ off[k - 1] \in Int /\ off[n + 1] <= off[k - 1] /\ off[k] <= off[m]
      BY <1>3, <1>6, <2>1
    <2>4. to[k] = off[k] - length /\ to[k - 1] = off[k - 1] - length
      BY <1>4, <2>1
    <2>5. to[k] = to[k - 1] + Len(FrameBytes(s, k))
      BY <1>1, <1>5, <2>1, <2>2, <2>3, <2>4
    <2>6. ASSUME NEW i \in 1 .. Len(FrameBytes(s, k))
          PROVE  y[to[k - 1] + i] = FrameBytes(s, k)[i]
      <3>1. /\ to[k - 1] + i \in 1 .. (Len(w) - length)
            /\ length + (to[k - 1] + i) = off[k - 1] + i
        <4> DEFINE v == Len(FrameBytes(s, k))
        <4>1. v \in Nat /\ i \in 1 .. v /\ off[k] = off[k - 1] + v
          BY <1>5, <2>1, <2>2
        <4> HIDE DEF v
        <4>2. off[n + 1] = length /\ off[m] = Len(w)
          BY <1>1, <1>3
        <4>3. length <= off[k - 1] /\ off[k] <= Len(w)
          BY <2>3, <4>2
        <4>4. /\ (off[k - 1] - length) + i \in 1 .. (Len(w) - length)
              /\ length + ((off[k - 1] - length) + i) = off[k - 1] + i
          <5>1. PICK a \in Int : a = off[k - 1]
            BY <2>3
          <5>2. PICK b \in Int : b = off[k]
            BY <2>3
          <5>3. PICK l \in Nat : l = Len(w)
            BY <1>1
          <5>4. length <= a /\ b = a + v /\ b <= l
            BY <4>1, <4>3, <5>1, <5>2, <5>3
          <5>5. (a - length) + i \in 1 .. (l - length) /\ length + ((a - length) + i) = a + i
            BY <1>1, <4>1, <5>4, Within
          <5> QED BY <5>1, <5>3, <5>5
        <4> QED BY <2>4, <4>4
      <3>2. y[to[k - 1] + i] = w[length + (to[k - 1] + i)]
        BY <1>2, <3>1
      <3>3. w[off[k - 1] + i] = FrameBytes(s, k)[i]
        BY <2>2
      <3> QED BY <3>1, <3>2, <3>3
    <2> QED BY <2>5, <2>6
  <1>10. PlacedAt(to, s, n + 1, y)
    BY <1>4, <1>7, <1>8, <1>9 DEF PlacedAt, m
  <1> QED BY <1>2, <1>10 DEF y

-----------------------------------------------------------------------------
(* The receiver takes the frames in the order they were written *)

Outcomes == {"fragment", "unrelated", "malformed", "unexpected", "interleaved", "wrong_stream"}
Taken == [frame : Frames, outcome : Outcomes]

BytesInv ==
    /\ wire \in Seq(Nat)
    /\ sent \in Seq(Givens)
    /\ \A k \in 1 .. Len(sent) : WellFormed(sent[k])
    /\ taken \in Seq(Taken)
    /\ Len(taken) <= Len(sent)
    /\ \A k \in 1 .. Len(taken) :
          /\ taken[k].frame = Build(sent[k])
          /\ Len(taken[k].frame.payload) <= ReceiverMaximum
    /\ \E off : PlacedAt(off, sent, Len(taken), wire)
    /\ stopped => /\ Len(taken) < Len(sent)
                  /\ Len(Build(sent[Len(taken) + 1]).payload) > ReceiverMaximum

NextFrame == Build(sent[Len(taken) + 1])

\* The answers of observe.
LEMMA OutcomeOfObserve ==
  ASSUME NEW frame, NEW lock
  PROVE  Observe(frame, lock).outcome \in Outcomes
  BY DEF Observe, ObserveIdle, ObserveOpen, Seen, Outcomes

\* While bytes are on the way they are those of the next frame and of the
\* frames after it, and parsing them finds that frame or refuses its length.
LEMMA ParsesFindNext ==
  ASSUME BytesInv, NEW found \in Parses
  PROVE  /\ Len(taken) < Len(sent)
         /\ NextFrame \in Frames
         /\ found.result = "too large" => Len(NextFrame.payload) > ReceiverMaximum
         /\ found.result = "frame" =>
              /\ Len(NextFrame.payload) <= ReceiverMaximum
              /\ Len(found.bytes) = Len(Bytes(NextFrame))
              /\ FrameIn(found.bytes) = NextFrame
  <1> DEFINE n == Len(taken)
  <1>1. /\ wire \in Seq(Nat) /\ sent \in Seq(Givens) /\ n \in Nat /\ n <= Len(sent)
        /\ \A k \in 1 .. Len(sent) : WellFormed(sent[k])
        /\ Len(sent) \in Nat /\ Len(wire) \in Nat
    BY LenProperties DEF BytesInv
  <1>2. PICK off : PlacedAt(off, sent, n, wire)
    BY DEF BytesInv
  <1>3. PICK arrived \in 1 .. Len(wire) :
            found = Parse(SubSeq(wire, 1, arrived), ReceiverMaximum)
    BY DEF Parses
  <1> HIDE DEF n
  <1>4. n < Len(sent)
    <2>1. CASE n = Len(sent)
      <3>1. off[n] = 0 /\ off[n] = Len(wire)
        BY <1>2, <2>1 DEF PlacedAt
      <3> QED BY <1>1, <1>3, <3>1
    <2> QED BY <1>1, <2>1
  <1>5. /\ Len(FrameBytes(sent, n + 1)) <= Len(wire)
        /\ \A i \in 1 .. Len(FrameBytes(sent, n + 1)) : wire[i] = FrameBytes(sent, n + 1)[i]
    BY <1>1, <1>2, <1>4, PlacedFirst
  <1>6. NextFrame = Build(sent[n + 1]) /\ FrameBytes(sent, n + 1) = Bytes(NextFrame)
    BY DEF NextFrame, FrameBytes, n
  <1>7. NextFrame \in Frames
    <2>1. WellFormed(sent[n + 1])
      BY <1>1, <1>4
    <2> QED BY <1>6, <2>1, BuiltFrames
  <1>8. Len(Bytes(NextFrame)) \in Nat
    <2>1. Bytes(NextFrame) \in Seq(Nat)
      BY <1>7, BytesOfFrame
    <2> QED BY <2>1, LenProperties
  <1>9. /\ Len(wire) >= Len(Bytes(NextFrame))
        /\ \A i \in 1 .. Len(Bytes(NextFrame)) : wire[i] = Bytes(NextFrame)[i]
    BY <1>1, <1>5, <1>6, <1>8
  <1>10. ReceiverMaximum \in Nat
    BY InputsAssumption
  <1>11. /\ found.result = "too large" => Len(NextFrame.payload) > ReceiverMaximum
         /\ found.result = "frame" =>
              /\ Len(NextFrame.payload) <= ReceiverMaximum
              /\ Len(found.bytes) = Len(Bytes(NextFrame))
              /\ FrameIn(found.bytes) = NextFrame
    BY <1>1, <1>3, <1>7, <1>9, <1>10, ParseFindsFrame
  <1> QED BY <1>4, <1>7, <1>11 DEF n

\* A received frame is the next one written.
LEMMA ReceivedIsNext ==
  ASSUME BytesInv, ReceiveFrame
  PROVE  LET seen == Observe(NextFrame, locked)
         IN  /\ Len(taken) < Len(sent)
             /\ NextFrame \in Frames
             /\ Len(NextFrame.payload) <= ReceiverMaximum
             /\ taken' = Append(taken, [frame |-> NextFrame, outcome |-> seen.outcome])
             /\ locked' = seen.locked
             /\ wire' = SubSeq(wire, Len(Bytes(NextFrame)) + 1, Len(wire))
             /\ ~stopped /\ sent' = sent /\ stopped' = stopped
  <1>1. PICK found \in Parses :
            /\ found.result = "frame"
            /\ taken' = Append(taken, [frame |-> FrameIn(found.bytes),
                                       outcome |-> Observe(FrameIn(found.bytes), locked).outcome])
            /\ locked' = Observe(FrameIn(found.bytes), locked).locked
            /\ wire' = SubSeq(wire, Len(found.bytes) + 1, Len(wire))
    BY DEF ReceiveFrame
  <1>2. /\ Len(taken) < Len(sent) /\ NextFrame \in Frames
        /\ Len(NextFrame.payload) <= ReceiverMaximum
        /\ Len(found.bytes) = Len(Bytes(NextFrame))
        /\ FrameIn(found.bytes) = NextFrame
    BY <1>1, ParsesFindNext
  <1>3. ~stopped /\ sent' = sent /\ stopped' = stopped
    BY DEF ReceiveFrame
  <1> QED BY <1>1, <1>2, <1>3

\* At first nothing is on the way.
LEMMA BytesInit ==
  ASSUME Init
  PROVE  BytesInv
  <1>1. wire = <<>> /\ sent = <<>> /\ taken = <<>> /\ stopped = FALSE
    BY DEF Init
  <1>2. PlacedAt([k \in Nat |-> 0], sent, Len(taken), wire)
    <2>1. Len(sent) = 0 /\ Len(taken) = 0 /\ Len(wire) = 0
      BY <1>1
    <2> QED BY <2>1 DEF PlacedAt
  <1>3. /\ wire \in Seq(Nat) /\ sent \in Seq(Givens) /\ taken \in Seq(Taken)
        /\ Len(sent) = 0 /\ Len(taken) = 0
    BY <1>1
  <1> QED BY <1>1, <1>2, <1>3 DEF BytesInv

\* A builder's step keeps the frames in their places.
LEMMA BytesWrite ==
  ASSUME BytesInv, NEW g, WellFormed(g), Write(g)
  PROVE  BytesInv'
  <1> DEFINE n == Len(taken)
  <1>1. /\ wire \in Seq(Nat) /\ sent \in Seq(Givens) /\ n \in Nat /\ n <= Len(sent)
        /\ \A k \in 1 .. Len(sent) : WellFormed(sent[k])
        /\ taken \in Seq(Taken) /\ Len(sent) \in Nat
    BY LenProperties DEF BytesInv
  <1>2. /\ sent' = Append(sent, g) /\ wire' = wire \o Bytes(Build(g))
        /\ taken' = taken /\ stopped' = stopped
    BY DEF Write
  <1>3. g \in Givens /\ Bytes(Build(g)) \in Seq(Nat)
    BY BuiltFrames, BytesOfFrame
  <1>4. /\ sent' \in Seq(Givens) /\ Len(sent') = Len(sent) + 1
        /\ \A k \in 1 .. Len(sent) : sent'[k] = sent[k]
        /\ sent'[Len(sent) + 1] = g
    BY <1>1, <1>2, <1>3
  <1>5. wire' \in Seq(Nat)
    BY <1>1, <1>2, <1>3, Joined
  <1>6. ASSUME NEW k \in 1 .. Len(sent') PROVE WellFormed(sent'[k])
    <2>1. CASE k = Len(sent) + 1
      BY <1>4, <2>1
    <2>2. CASE k # Len(sent) + 1
      <3>1. k \in 1 .. Len(sent)
        BY <1>1, <1>4, <2>2
      <3> QED BY <1>1, <1>4, <3>1
    <2> QED BY <2>1, <2>2
  <1>7. \E off : PlacedAt(off, sent', n, wire')
    <2>1. PICK off : PlacedAt(off, sent, n, wire)
      BY DEF BytesInv
    <2> HIDE DEF n
    <2>2. \E to : PlacedAt(to, Append(sent, g), n, wire \o Bytes(Build(g)))
      BY <1>1, <2>1, PlacedAppend
    <2> QED BY <1>2, <2>2
  <1>8. ASSUME NEW k \in 1 .. n
        PROVE  /\ taken[k].frame = Build(sent'[k])
               /\ Len(taken[k].frame.payload) <= ReceiverMaximum
    <2>1. k \in 1 .. Len(sent)
      BY <1>1
    <2>2. sent'[k] = sent[k]
      BY <1>4, <2>1
    <2>3. /\ taken[k].frame = Build(sent[k])
          /\ Len(taken[k].frame.payload) <= ReceiverMaximum
      BY DEF BytesInv
    <2> QED BY <2>2, <2>3
  <1>9. stopped => /\ n < Len(sent')
                   /\ Len(Build(sent'[n + 1]).payload) > ReceiverMaximum
    <2> HAVE stopped
    <2>1. n < Len(sent) /\ Len(Build(sent[n + 1]).payload) > ReceiverMaximum
      BY DEF BytesInv
    <2>2. n + 1 \in 1 .. Len(sent) /\ n < Len(sent')
      BY <1>1, <1>4, <2>1
    <2>3. sent'[n + 1] = sent[n + 1]
      BY <1>4, <2>2
    <2> QED BY <2>1, <2>2, <2>3
  <1>10. n <= Len(sent')
    BY <1>1, <1>4
  <1> QED BY <1>1, <1>2, <1>4, <1>5, <1>6, <1>7, <1>8, <1>9, <1>10 DEF BytesInv

\* Receiving takes the first frame away and records it.
LEMMA BytesReceive ==
  ASSUME BytesInv, ReceiveFrame
  PROVE  BytesInv'
  <1> DEFINE n == Len(taken)
             item == [frame |-> NextFrame, outcome |-> Observe(NextFrame, locked).outcome]
             length == Len(Bytes(NextFrame))
  <1>1. /\ wire \in Seq(Nat) /\ sent \in Seq(Givens) /\ n \in Nat
        /\ \A k \in 1 .. Len(sent) : WellFormed(sent[k])
        /\ taken \in Seq(Taken) /\ Len(sent) \in Nat
    BY LenProperties DEF BytesInv
  <1>2. /\ n < Len(sent)
        /\ NextFrame \in Frames
        /\ Len(NextFrame.payload) <= ReceiverMaximum
        /\ taken' = Append(taken, item)
        /\ wire' = SubSeq(wire, length + 1, Len(wire))
        /\ ~stopped /\ sent' = sent /\ stopped' = stopped
    BY ReceivedIsNext
  <1>3. item \in Taken
    BY <1>2, OutcomeOfObserve DEF Taken
  <1>4. item.frame = NextFrame
    OBVIOUS
  <1> HIDE DEF item
  <1>5. /\ taken' \in Seq(Taken) /\ Len(taken') = n + 1
        /\ \A k \in 1 .. n : taken'[k] = taken[k]
        /\ taken'[n + 1] = item
    BY <1>1, <1>2, <1>3
  <1>6. NextFrame = Build(sent[n + 1]) /\ length = Len(FrameBytes(sent, n + 1))
    BY DEF NextFrame, FrameBytes
  <1> HIDE DEF n, length
  <1>7. wire' \in Seq(Nat) /\ \E off : PlacedAt(off, sent', Len(taken'), wire')
    <2>1. PICK off : PlacedAt(off, sent, n, wire)
      BY DEF BytesInv, n
    <2>2. /\ SubSeq(wire, length + 1, Len(wire)) \in Seq(Nat)
          /\ \E to : PlacedAt(to, sent, n + 1, SubSeq(wire, length + 1, Len(wire)))
      BY <1>1, <1>2, <1>6, <2>1, PlacedTake
    <2> QED BY <1>2, <1>5, <2>2
  <1>8. ASSUME NEW k \in 1 .. Len(taken')
        PROVE  /\ taken'[k].frame = Build(sent'[k])
               /\ Len(taken'[k].frame.payload) <= ReceiverMaximum
    <2>1. CASE k = n + 1
      BY <1>2, <1>4, <1>5, <1>6, <2>1
    <2>2. CASE k # n + 1
      <3>1. k \in 1 .. n
        BY <1>1, <1>5, <2>2
      <3>2. /\ taken[k].frame = Build(sent[k])
            /\ Len(taken[k].frame.payload) <= ReceiverMaximum
        BY <3>1 DEF BytesInv, n
      <3> QED BY <1>2, <1>5, <3>1, <3>2
    <2> QED BY <2>1, <2>2
  <1>9. Len(taken') <= Len(sent')
    BY <1>1, <1>2, <1>5
  <1> QED BY <1>1, <1>2, <1>5, <1>7, <1>8, <1>9 DEF BytesInv

\* Giving up happens only at a frame above the maximum.
LEMMA BytesRefuse ==
  ASSUME BytesInv, RefuseLength
  PROVE  BytesInv'
  <1>1. /\ wire' = wire /\ sent' = sent /\ taken' = taken
        /\ \E found \in Parses : found.result = "too large"
    BY DEF RefuseLength
  <1>2. Len(taken) < Len(sent) /\ Len(NextFrame.payload) > ReceiverMaximum
    BY <1>1, ParsesFindNext
  <1> QED BY <1>1, <1>2 DEF BytesInv, NextFrame

\* BytesInv is inductive.
LEMMA BytesStep ==
  ASSUME BytesInv, [Next]_vars
  PROVE  BytesInv'
  <1>1. CASE Sending
    BY <1>1, SendingIsWellFormed, BytesWrite
  <1>2. CASE ReceiveFrame
    BY <1>2, BytesReceive
  <1>3. CASE RefuseLength
    BY <1>3, BytesRefuse
  <1>4. CASE UNCHANGED vars
    BY <1>4 DEF vars, BytesInv
  <1> QED BY <1>1, <1>2, <1>3, <1>4 DEF Next, Sending

\* The inductive invariant gives the property.
LEMMA BytesGiveFrames ==
  ASSUME BytesInv
  PROVE  FramesComeBack
  <1>1. /\ Len(taken) \in Nat /\ Len(sent) \in Nat /\ Len(taken) <= Len(sent)
        /\ DOMAIN taken = 1 .. Len(taken)
    BY LenProperties DEF BytesInv
  <1>2. ASSUME NEW k \in 1 .. Len(taken)
        PROVE  /\ taken[k].frame = Build(sent[k])
               /\ Len(taken[k].frame.payload) <= ReceiverMaximum
               /\ WellFormed(sent[k]) /\ sent[k] \in Givens
    <2>1. k \in 1 .. Len(sent)
      BY <1>1
    <2> QED BY <2>1, BuiltFrames DEF BytesInv
  <1>3. ASSUME NEW k \in 1 .. Len(taken), sent[k].typed
        PROVE  /\ Accepts(taken[k].frame)
               /\ Payload(taken[k].frame) = sent[k].data
               /\ taken[k].frame.type \in {DATA, HEADERS, PUSH_PROMISE} =>
                     /\ SectionOf(taken[k].frame) = sent[k].section
                     /\ PaddingLength(taken[k].frame) = PadLength(sent[k].pad)
    <2>1. Accepts(Build(sent[k])) /\ Payload(Build(sent[k])) = sent[k].data
      BY <1>2, <1>3, BuiltFramesAreAccepted
    <2>2. sent[k].type \in {DATA, HEADERS, PUSH_PROMISE} =>
              /\ SectionOf(Build(sent[k])) = sent[k].section
              /\ PaddingLength(Build(sent[k])) = PadLength(sent[k].pad)
      BY <1>2, <1>3, SectionsComeBack
    <2>3. Build(sent[k]).type = sent[k].type
      BY DEF Build
    <2> QED BY <1>2, <2>1, <2>2, <2>3
  <1>4. stopped => /\ Len(taken) < Len(sent)
                   /\ Len(Build(sent[Len(taken) + 1]).payload) > ReceiverMaximum
    BY DEF BytesInv
  <1> QED BY <1>1, <1>2, <1>3, <1>4 DEF FramesComeBack

\* Whatever the lengths, the splits of the bytes and the maxima, every frame
\* that is parsed is the one the builder wrote, and its view returns what the
\* builder was given.
THEOREM SpecFramesComeBack == Spec => []FramesComeBack
  <1>1. Init => BytesInv
    BY BytesInit
  <1>2. BytesInv /\ [Next]_vars => BytesInv'
    BY BytesStep
  <1>3. BytesInv => FramesComeBack
    BY BytesGiveFrames
  <1> QED BY <1>1, <1>2, <1>3, PTL DEF Spec

-----------------------------------------------------------------------------
(* The lock remembers the open block *)

\* A stream without its reserved bit is a number, and never Idle.
LEMMA ValueIsNat ==
  ASSUME NEW raw \in U32Value
  PROVE  Value(raw) \in Nat /\ Value(raw) # Idle
  <1> DEFINE q == ByteValues * ByteValues * ByteValues * ByteValues
  <1>1. q \in Nat /\ q >= 2
    <2>0. ByteValues \in Nat /\ ByteValues >= 2
      BY ByteAssumption
    <2>1. ByteValues * ByteValues \in Nat /\ ByteValues * ByteValues >= 2
      BY <2>0, Z3
    <2>2. /\ ByteValues * ByteValues * ByteValues \in Nat
          /\ ByteValues * ByteValues * ByteValues >= 2
      BY <2>0, <2>1, Z3
    <2> QED BY <2>0, <2>2, Z3
  <1>2. raw \in Nat
    BY <1>1 DEF U32Value
  <1> HIDE DEF q
  <1>3. q \div 2 \in Nat /\ q \div 2 > 0
    BY <1>1
  <1>4. ReservedBit \in Nat /\ ReservedBit > 0
    BY <1>3 DEF ReservedBit, q
  <1>5. raw % ReservedBit \in Nat
    BY <1>2, <1>4
  <1>6. Idle \notin Nat
    BY DEF Idle
  <1> QED BY <1>5, <1>6 DEF Value

\* What observe answers, and what it leaves locked.
LEMMA ObserveAnswers ==
  ASSUME NEW frame, NEW lock
  PROVE  /\ Observe(frame, lock).outcome = "fragment" <=>
               /\ Accepts(frame)
               /\ \/ frame.type \in {HEADERS, PUSH_PROMISE} /\ lock = Idle
                  \/ /\ frame.type = CONTINUATION
                     /\ lock # Idle /\ Value(frame.stream) = lock
         /\ Observe(frame, lock).outcome = "unrelated" <=>
               /\ frame.type \notin {HEADERS, PUSH_PROMISE, CONTINUATION}
               /\ lock = Idle
         /\ Observe(frame, lock).outcome = "fragment" =>
               Observe(frame, lock).locked =
                  IF HasFlag(frame.flags, END_HEADERS) THEN Idle ELSE Value(frame.stream)
         /\ Observe(frame, lock).outcome # "fragment" => Observe(frame, lock).locked = lock
  <1>1. CASE lock = Idle
    <2>1. Observe(frame, lock) = ObserveIdle(frame)
      BY <1>1 DEF Observe
    <2>2. CASE frame.type \notin {HEADERS, PUSH_PROMISE, CONTINUATION}
      BY <1>1, <2>1, <2>2 DEF ObserveIdle, Seen
    <2>3. CASE frame.type \in {HEADERS, PUSH_PROMISE, CONTINUATION} /\ ~Accepts(frame)
      BY <1>1, <2>1, <2>3 DEF ObserveIdle, Seen
    <2>4. CASE frame.type = CONTINUATION /\ Accepts(frame)
      BY <1>1, <2>1, <2>4, TypesDiffer DEF ObserveIdle, Seen
    <2>5. CASE frame.type \in {HEADERS, PUSH_PROMISE} /\ Accepts(frame)
      BY <1>1, <2>1, <2>5, TypesDiffer DEF ObserveIdle, Seen
    <2> QED BY <2>2, <2>3, <2>4, <2>5
  <1>2. CASE lock # Idle
    <2>1. Observe(frame, lock) = ObserveOpen(frame, lock)
      BY <1>2 DEF Observe
    <2>2. CASE frame.type # CONTINUATION
      BY <1>2, <2>1, <2>2 DEF ObserveOpen, Seen
    <2>3. CASE frame.type = CONTINUATION /\ ~Accepts(frame)
      BY <1>2, <2>1, <2>3 DEF ObserveOpen, Seen
    <2>4. CASE frame.type = CONTINUATION /\ Accepts(frame) /\ Value(frame.stream) # lock
      <3>1. Observe(frame, lock) = Seen("wrong_stream", lock)
        BY <2>1, <2>4 DEF ObserveOpen
      <3>2. /\ Observe(frame, lock).outcome = "wrong_stream"
            /\ Observe(frame, lock).locked = lock
        BY <3>1 DEF Seen
      <3>3. frame.type \in {HEADERS, PUSH_PROMISE, CONTINUATION}
        BY <2>4
      <3> QED BY <1>2, <2>4, <3>2, <3>3
    <2>5. CASE frame.type = CONTINUATION /\ Accepts(frame) /\ Value(frame.stream) = lock
      BY <1>2, <2>1, <2>5, TypesDiffer DEF ObserveOpen, Seen
    <2> QED BY <2>2, <2>3, <2>4, <2>5
  <1> QED BY <1>1, <1>2

LockInv ==
    \A k \in Nat : k = Len(taken) + 1 =>
        /\ Open(k) <=> locked # Idle
        /\ \A stream : OpenOn(stream, k) <=> locked # Idle /\ stream = locked

\* Taking a frame changes nothing about the blocks before it.
LEMMA OpenBefore ==
  ASSUME taken \in Seq(Taken), NEW item \in Taken, taken' = Append(taken, item),
         NEW k \in 1 .. Len(taken) + 1
  PROVE  /\ Open(k)' <=> Open(k)
         /\ \A stream : OpenOn(stream, k)' <=> OpenOn(stream, k)
  <1>1. \A j \in 1 .. (k - 1) : taken'[j] = taken[j]
    <2>1. \A j \in 1 .. (k - 1) : j \in 1 .. Len(taken)
      BY LenProperties
    <2> QED BY <2>1
  <1>2. FragmentsBefore(k)' = FragmentsBefore(k)
    BY <1>1 DEF FragmentsBefore
  <1>3. ASSUME NEW j \in 1 .. (k - 1)
        PROVE  IsLastFragment(j, k)' <=> IsLastFragment(j, k)
    BY <1>2 DEF IsLastFragment
  <1>4. Open(k)' <=> Open(k)
    BY <1>1, <1>3 DEF Open
  <1>5. ASSUME NEW stream
        PROVE  OpenOn(stream, k)' <=> OpenOn(stream, k)
    BY <1>1, <1>3 DEF OpenOn
  <1> QED BY <1>4, <1>5

\* The block that is open after taking a frame.
LEMMA OpenAfter ==
  ASSUME taken \in Seq(Taken), NEW item \in Taken, taken' = Append(taken, item),
         NEW k, k = Len(taken) + 1
  PROVE  /\ item.outcome = "fragment" =>
              /\ Open(k + 1)' <=> ~HasFlag(item.frame.flags, END_HEADERS)
              /\ \A stream : OpenOn(stream, k + 1)' <=>
                    /\ ~HasFlag(item.frame.flags, END_HEADERS)
                    /\ stream = Value(item.frame.stream)
         /\ item.outcome # "fragment" =>
              /\ Open(k + 1)' <=> Open(k)
              /\ \A stream : OpenOn(stream, k + 1)' <=> OpenOn(stream, k)
  <1>1. /\ Len(taken) \in Nat /\ k \in Nat /\ k >= 1 /\ (k + 1) - 1 = k
        /\ taken'[k] = item /\ \A j \in 1 .. (k - 1) : taken'[j] = taken[j]
    <2>1. Len(taken) \in Nat
      BY LenProperties
    <2>2. k \in Nat /\ k >= 1 /\ (k + 1) - 1 = k /\ k - 1 = Len(taken)
      BY <2>1
    <2>3. taken'[k] = item /\ \A j \in 1 .. Len(taken) : taken'[j] = taken[j]
      BY <2>1
    <2> QED BY <2>1, <2>2, <2>3
  <1>2. FragmentsBefore(k + 1)' = {j \in 1 .. k : taken'[j].outcome = "fragment"}
    BY <1>1 DEF FragmentsBefore
  <1>3. CASE item.outcome = "fragment"
    <2>1. k \in FragmentsBefore(k + 1)' /\ \A j \in FragmentsBefore(k + 1)' : j \in 1 .. k
      BY <1>1, <1>2, <1>3
    <2>2. ASSUME NEW j \in 1 .. k
          PROVE  IsLastFragment(j, k + 1)' <=> j = k
      <3>1. IsLastFragment(j, k + 1)' => j = k
        BY <1>1, <2>1 DEF IsLastFragment
      <3>2. j = k => IsLastFragment(j, k + 1)'
        BY <1>1, <2>1 DEF IsLastFragment
      <3> QED BY <3>1, <3>2
    <2>3. k \in 1 .. k
      BY <1>1
    <2>4. Open(k + 1)' <=> ~HasFlag(item.frame.flags, END_HEADERS)
      BY <1>1, <2>2, <2>3 DEF Open
    <2>5. ASSUME NEW stream
          PROVE  OpenOn(stream, k + 1)' <=> /\ ~HasFlag(item.frame.flags, END_HEADERS)
                                            /\ stream = Value(item.frame.stream)
      BY <1>1, <2>2, <2>3 DEF OpenOn
    <2> QED BY <1>3, <2>4, <2>5
  <1>4. CASE item.outcome # "fragment"
    <2>1. FragmentsBefore(k + 1)' = FragmentsBefore(k)
      <3>1. ASSUME NEW j \in FragmentsBefore(k + 1)' PROVE j \in FragmentsBefore(k)
        <4>1. j \in 1 .. k /\ j # k /\ taken'[j].outcome = "fragment"
          BY <1>1, <1>2, <1>4
        <4>2. j \in 1 .. (k - 1)
          BY <1>1, <4>1
        <4> QED BY <1>1, <4>1, <4>2 DEF FragmentsBefore
      <3>2. ASSUME NEW j \in FragmentsBefore(k) PROVE j \in FragmentsBefore(k + 1)'
        <4>1. j \in 1 .. (k - 1) /\ taken[j].outcome = "fragment"
          BY DEF FragmentsBefore
        <4>2. j \in 1 .. k
          BY <1>1, <4>1
        <4> QED BY <1>1, <1>2, <4>1, <4>2
      <3> QED BY <3>1, <3>2
    <2>2. ASSUME NEW j
          PROVE  IsLastFragment(j, k + 1)' <=> IsLastFragment(j, k)
      BY <2>1 DEF IsLastFragment
    <2>3. ASSUME NEW j, IsLastFragment(j, k)
          PROVE  j \in 1 .. (k - 1) /\ j \in 1 .. k
      BY <1>1, <2>3 DEF IsLastFragment, FragmentsBefore
    <2>4. Open(k + 1)' <=> Open(k)
      BY <1>1, <2>2, <2>3 DEF Open
    <2>5. ASSUME NEW stream
          PROVE  OpenOn(stream, k + 1)' <=> OpenOn(stream, k)
      BY <1>1, <2>2, <2>3 DEF OpenOn
    <2> QED BY <1>4, <2>4, <2>5
  <1> QED BY <1>3, <1>4

\* What is received, said of the last item of taken'.
LEMMA ReceivedItem ==
  ASSUME BytesInv, ReceiveFrame
  PROVE  \E item \in Taken :
            /\ item = [frame |-> NextFrame, outcome |-> Observe(NextFrame, locked).outcome]
            /\ taken' = Append(taken, item)
            /\ taken \in Seq(Taken) /\ Len(taken) \in Nat
            /\ taken' \in Seq(Taken)
            /\ Len(taken') = Len(taken) + 1
            /\ DOMAIN taken' = 1 .. (Len(taken) + 1)
            /\ taken'[Len(taken) + 1] = item
            /\ \A k \in 1 .. Len(taken) : taken'[k] = taken[k]
            /\ locked' = Observe(NextFrame, locked).locked
            /\ sent' = sent
            /\ NextFrame \in Frames
            /\ Value(NextFrame.stream) \in Nat /\ Value(NextFrame.stream) # Idle
  <1> DEFINE item == [frame |-> NextFrame, outcome |-> Observe(NextFrame, locked).outcome]
  <1>1. /\ NextFrame \in Frames
        /\ taken' = Append(taken, item)
        /\ locked' = Observe(NextFrame, locked).locked
        /\ sent' = sent
    BY ReceivedIsNext
  <1>2. item \in Taken
    BY <1>1, OutcomeOfObserve DEF Taken
  <1>3. taken \in Seq(Taken) /\ Len(taken) \in Nat
    BY LenProperties DEF BytesInv
  <1>4. Value(NextFrame.stream) \in Nat /\ Value(NextFrame.stream) # Idle
    <2>1. NextFrame.stream \in U32Value
      BY <1>1 DEF Frames
    <2> QED BY <2>1, ValueIsNat
  <1> HIDE DEF item
  <1>5. /\ taken' \in Seq(Taken)
        /\ Len(taken') = Len(taken) + 1
        /\ DOMAIN taken' = 1 .. (Len(taken) + 1)
        /\ taken'[Len(taken) + 1] = item
        /\ \A k \in 1 .. Len(taken) : taken'[k] = taken[k]
    BY <1>1, <1>2, <1>3
  <1> QED BY <1>1, <1>2, <1>3, <1>4, <1>5 DEF item

\* After observe the lock holds the stream of the open block.
LEMMA LockReceive ==
  ASSUME BytesInv, LockInv, ReceiveFrame
  PROVE  LockInv'
  <1> DEFINE f == NextFrame
  <1>1. PICK item \in Taken :
            /\ item = [frame |-> f, outcome |-> Observe(f, locked).outcome]
            /\ taken' = Append(taken, item)
            /\ taken \in Seq(Taken) /\ Len(taken) \in Nat
            /\ Len(taken') = Len(taken) + 1
            /\ locked' = Observe(f, locked).locked
            /\ Value(f.stream) # Idle
    BY ReceivedItem
  <1>2. item.frame = f /\ item.outcome = Observe(f, locked).outcome
    BY <1>1
  <1> SUFFICES ASSUME NEW l \in Nat, l = Len(taken') + 1
               PROVE  /\ Open(l)' <=> locked' # Idle
                      /\ \A stream : OpenOn(stream, l)' <=> locked' # Idle /\ stream = locked'
    BY DEF LockInv
  <1>3. PICK k \in Nat : k = Len(taken) + 1 /\ l = k + 1
    BY <1>1
  <1>4. /\ Open(k) <=> locked # Idle
        /\ \A stream : OpenOn(stream, k) <=> locked # Idle /\ stream = locked
    BY <1>3 DEF LockInv
  <1> HIDE DEF f
  <1>5. CASE item.outcome = "fragment"
    <2>1. /\ Open(k + 1)' <=> ~HasFlag(item.frame.flags, END_HEADERS)
          /\ \A stream : OpenOn(stream, k + 1)' <=>
                /\ ~HasFlag(item.frame.flags, END_HEADERS)
                /\ stream = Value(item.frame.stream)
      BY <1>1, <1>3, <1>5, OpenAfter
    <2>2. /\ Open(l)' <=> ~HasFlag(f.flags, END_HEADERS)
          /\ \A stream : OpenOn(stream, l)' <=>
                ~HasFlag(f.flags, END_HEADERS) /\ stream = Value(f.stream)
      BY <1>2, <1>3, <2>1
    <2>3. locked' = IF HasFlag(f.flags, END_HEADERS) THEN Idle ELSE Value(f.stream)
      BY <1>1, <1>2, <1>5, ObserveAnswers
    <2>4. locked' # Idle <=> ~HasFlag(f.flags, END_HEADERS)
      BY <1>1, <2>3
    <2>5. locked' # Idle => locked' = Value(f.stream)
      BY <2>3
    <2> QED BY <2>2, <2>4, <2>5
  <1>6. CASE item.outcome # "fragment"
    <2>1. /\ Open(k + 1)' <=> Open(k)
          /\ \A stream : OpenOn(stream, k + 1)' <=> OpenOn(stream, k)
      BY <1>1, <1>3, <1>6, OpenAfter
    <2>2. locked' = locked
      BY <1>1, <1>2, <1>6, ObserveAnswers
    <2> QED BY <1>3, <1>4, <2>1, <2>2
  <1> QED BY <1>5, <1>6

\* Writing and giving up leave the lock and the blocks alone.
LEMMA LockSame ==
  ASSUME LockInv, taken' = taken, locked' = locked
  PROVE  LockInv'
  <1> SUFFICES ASSUME NEW k \in Nat, k = Len(taken') + 1
               PROVE  /\ Open(k)' <=> locked' # Idle
                      /\ \A stream : OpenOn(stream, k)' <=> locked' # Idle /\ stream = locked'
    BY DEF LockInv
  <1>1. Open(k)' <=> Open(k)
    BY DEF Open, IsLastFragment, FragmentsBefore
  <1>2. ASSUME NEW stream
        PROVE  OpenOn(stream, k)' <=> OpenOn(stream, k)
    BY DEF OpenOn, IsLastFragment, FragmentsBefore
  <1>3. /\ Open(k) <=> locked # Idle
        /\ \A stream : OpenOn(stream, k) <=> locked # Idle /\ stream = locked
    BY DEF LockInv
  <1> QED BY <1>1, <1>2, <1>3

Legal(k) ==
    /\ taken[k].outcome = "fragment" <=>
          /\ Accepts(taken[k].frame)
          /\ \/ taken[k].frame.type \in {HEADERS, PUSH_PROMISE} /\ ~Open(k)
             \/ /\ taken[k].frame.type = CONTINUATION
                /\ OpenOn(Value(taken[k].frame.stream), k)
    /\ taken[k].outcome = "unrelated" <=>
          /\ taken[k].frame.type \notin {HEADERS, PUSH_PROMISE, CONTINUATION}
          /\ ~Open(k)

\* The frame just taken was taken as a fragment exactly if it is one.
LEMMA LegalReceive ==
  ASSUME BytesInv, LockInv, FragmentsExactlyLegal, ReceiveFrame
  PROVE  FragmentsExactlyLegal'
  <1> DEFINE f == NextFrame
  <1>1. PICK item \in Taken :
            /\ item = [frame |-> f, outcome |-> Observe(f, locked).outcome]
            /\ taken' = Append(taken, item)
            /\ taken \in Seq(Taken) /\ Len(taken) \in Nat
            /\ DOMAIN taken' = 1 .. (Len(taken) + 1)
            /\ taken'[Len(taken) + 1] = item
            /\ \A k \in 1 .. Len(taken) : taken'[k] = taken[k]
    BY ReceivedItem
  <1>2. item.frame = f /\ item.outcome = Observe(f, locked).outcome
    BY <1>1
  <1>3. SUFFICES ASSUME NEW k \in 1 .. (Len(taken) + 1)
                 PROVE  Legal(k)'
    BY <1>1 DEF FragmentsExactlyLegal, Legal
  <1>4. /\ Open(k)' <=> Open(k)
        /\ \A stream : OpenOn(stream, k)' <=> OpenOn(stream, k)
    BY <1>1, OpenBefore
  <1> HIDE DEF f
  <1>5. CASE k = Len(taken) + 1
    <2>1. /\ Open(k) <=> locked # Idle
          /\ \A stream : OpenOn(stream, k) <=> locked # Idle /\ stream = locked
      BY <1>1, <1>5 DEF LockInv
    <2>2. taken'[k].frame = f /\ taken'[k].outcome = Observe(f, locked).outcome
      BY <1>1, <1>2, <1>5
    <2>3. OpenOn(Value(taken[k].frame.stream), k)' <=> locked # Idle /\ Value(f.stream) = locked
      <3>1. PICK v : v = Value(f.stream)
        OBVIOUS
      <3>2. OpenOn(Value(taken[k].frame.stream), k)' <=> OpenOn(v, k)'
        BY <2>2, <3>1 DEF OpenOn
      <3>3. OpenOn(v, k)' <=> OpenOn(v, k)
        BY <1>4
      <3> QED BY <2>1, <3>1, <3>2, <3>3
    <2>4. taken'[k].outcome = "fragment" <=>
              /\ Accepts(f)
              /\ \/ f.type \in {HEADERS, PUSH_PROMISE} /\ ~Open(k)'
                 \/ f.type = CONTINUATION /\ locked # Idle /\ Value(f.stream) = locked
      BY <1>4, <2>1, <2>2, ObserveAnswers
    <2>5. taken'[k].outcome = "unrelated" <=>
              f.type \notin {HEADERS, PUSH_PROMISE, CONTINUATION} /\ ~Open(k)'
      BY <1>4, <2>1, <2>2, ObserveAnswers
    <2> QED BY <2>2, <2>3, <2>4, <2>5 DEF Legal
  <1>6. CASE k # Len(taken) + 1
    <2>1. k \in 1 .. Len(taken) /\ DOMAIN taken = 1 .. Len(taken)
      BY <1>1, <1>6, LenProperties
    <2>2. Legal(k)
      BY <2>1 DEF FragmentsExactlyLegal, Legal
    <2>3. taken'[k] = taken[k]
      BY <1>1, <2>1
    <2>4. OpenOn(Value(taken[k].frame.stream), k)' <=> OpenOn(Value(taken[k].frame.stream), k)
      <3>1. PICK v : v = Value(taken[k].frame.stream)
        OBVIOUS
      <3>2. OpenOn(Value(taken[k].frame.stream), k)' <=> OpenOn(v, k)'
        BY <2>3, <3>1 DEF OpenOn
      <3>3. OpenOn(v, k)' <=> OpenOn(v, k)
        BY <1>4
      <3> QED BY <3>1, <3>2, <3>3
    <2> QED BY <1>4, <2>2, <2>3, <2>4 DEF Legal
  <1> QED BY <1>5, <1>6

-----------------------------------------------------------------------------
(* Whole blocks *)

\* The builders' own flags leave END_HEADERS as it was given.
LEMMA EndHeadersKept ==
  ASSUME NEW g \in Givens
  PROVE  HasFlag(Build(g).flags, END_HEADERS) <=> HasFlag(g.flags, END_HEADERS)
  <1> DEFINE padded == IF g.pad = <<>> THEN g.flags ELSE WithFlag(g.flags, PADDED)
  <1>1. ASSUME NEW x \in 0 .. 255
        PROVE  /\ HasFlag(WithFlag(x, PADDED), END_HEADERS) <=> HasFlag(x, END_HEADERS)
               /\ HasFlag(WithFlag(x, PRIORITY_FLAG), END_HEADERS) <=> HasFlag(x, END_HEADERS)
    <2>1. CASE HasFlag(x, PADDED)
      BY <2>1 DEF WithFlag, HasFlag, PADDED, PRIORITY_FLAG, END_HEADERS
    <2>2. CASE ~HasFlag(x, PADDED)
      BY <2>2 DEF WithFlag, HasFlag, PADDED, PRIORITY_FLAG, END_HEADERS
    <2> QED BY <2>1, <2>2
  <1>2. g.flags \in 0 .. 255
    BY DEF Givens
  <1>3. padded \in 0 .. 255
    BY <1>2, FlagIsSet
  <1>4. Build(g).flags = IF g.type = HEADERS /\ g.section # <<>>
                         THEN WithFlag(padded, PRIORITY_FLAG) ELSE padded
    BY DEF Build
  <1>5. HasFlag(padded, END_HEADERS) <=> HasFlag(g.flags, END_HEADERS)
    BY <1>1, <1>2
  <1> HIDE DEF padded
  <1>6. HasFlag(WithFlag(padded, PRIORITY_FLAG), END_HEADERS) <=> HasFlag(padded, END_HEADERS)
    BY <1>1, <1>3
  <1> QED BY <1>4, <1>5, <1>6

\* Frames j to k are a header block as far as it has been written.
PartialBlock(j, k) ==
    /\ j <= k
    /\ sent[j].type \in {HEADERS, PUSH_PROMISE}
    /\ \A i \in j .. k :
          /\ sent[i].typed
          /\ sent[i].stream = sent[j].stream
          /\ i > j => sent[i].type = CONTINUATION
          /\ HasFlag(sent[i].flags, END_HEADERS) => i = k

Followed(j, k) ==
    /\ \A i \in j .. k : taken[i].outcome = "fragment"
    /\ HasFlag(sent[k].flags, END_HEADERS) => ~Open(k + 1)
    /\ ~HasFlag(sent[k].flags, END_HEADERS) =>
          \A stream : stream = Value(sent[j].stream) => OpenOn(stream, k + 1)

WholeInv ==
    \A j, k \in Nat :
        1 <= j /\ k <= Len(taken) /\ PartialBlock(j, k) /\ ~Open(j) => Followed(j, k)

\* Writing more frames changes no block among those taken.
LEMMA WholeSame ==
  ASSUME WholeInv, taken' = taken, Len(taken) \in Nat,
         \A i \in 1 .. Len(taken) : sent'[i] = sent[i]
  PROVE  WholeInv'
  <1> SUFFICES ASSUME NEW j \in Nat, NEW k \in Nat, 1 <= j, k <= Len(taken),
                      PartialBlock(j, k)', ~Open(j)'
               PROVE  Followed(j, k)'
    BY DEF WholeInv
  <1>1. ASSUME NEW l
        PROVE  /\ Open(l)' <=> Open(l)
               /\ \A stream : OpenOn(stream, l)' <=> OpenOn(stream, l)
    BY DEF Open, OpenOn, IsLastFragment, FragmentsBefore
  <1>2. j <= k
    BY DEF PartialBlock
  <1>3. sent'[j] = sent[j] /\ sent'[k] = sent[k] /\ \A i \in j .. k : sent'[i] = sent[i]
    <2>1. j \in 1 .. Len(taken) /\ k \in 1 .. Len(taken)
          /\ \A i \in j .. k : i \in 1 .. Len(taken)
      BY <1>2
    <2> QED BY <2>1
  <1>4. PartialBlock(j, k)
    BY <1>3 DEF PartialBlock
  <1>5. Followed(j, k)
    BY <1>1, <1>4 DEF WholeInv
  <1> QED BY <1>1, <1>3, <1>5 DEF Followed

\* A block stays taken fragment by fragment up to its latest frame.
LEMMA WholeReceive ==
  ASSUME BytesInv, LockInv, WholeInv, ReceiveFrame
  PROVE  WholeInv'
  <1> DEFINE f == NextFrame
  <1>1. PICK item \in Taken :
            /\ item = [frame |-> f, outcome |-> Observe(f, locked).outcome]
            /\ taken' = Append(taken, item)
            /\ taken \in Seq(Taken) /\ Len(taken) \in Nat
            /\ Len(taken') = Len(taken) + 1
            /\ taken'[Len(taken) + 1] = item
            /\ \A k \in 1 .. Len(taken) : taken'[k] = taken[k]
            /\ sent' = sent
    BY ReceivedItem
  <1>2. item.frame = f /\ item.outcome = Observe(f, locked).outcome
    BY <1>1
  <1> SUFFICES ASSUME NEW j \in Nat, NEW k \in Nat, 1 <= j, k <= Len(taken'),
                      PartialBlock(j, k)', ~Open(j)'
               PROVE  Followed(j, k)'
    BY DEF WholeInv
  <1>3. PartialBlock(j, k) /\ j <= k
    BY <1>1 DEF PartialBlock
  <1>4. ~Open(j)
    <2>1. j \in 1 .. Len(taken) + 1
      BY <1>1, <1>3
    <2> QED BY <1>1, <2>1, OpenBefore
  <1>5. CASE k <= Len(taken)
    <2>1. Followed(j, k)
      BY <1>3, <1>4, <1>5 DEF WholeInv
    <2>2. \A i \in j .. k : taken'[i] = taken[i]
      <3>1. \A i \in j .. k : i \in 1 .. Len(taken)
        BY <1>1, <1>5
      <3> QED BY <1>1, <3>1
    <2>3. k + 1 \in 1 .. Len(taken) + 1
      BY <1>1, <1>5
    <2>4. /\ Open(k + 1)' <=> Open(k + 1)
          /\ \A stream : OpenOn(stream, k + 1)' <=> OpenOn(stream, k + 1)
      BY <1>1, <2>3, OpenBefore
    <2> QED BY <1>1, <2>1, <2>2, <2>4 DEF Followed
  <1>6. CASE k = Len(taken) + 1
    <2> DEFINE g == sent[k]
    <2>1. f = Build(g)
      BY <1>6 DEF NextFrame
    <2>2. WellFormed(g) /\ g \in Givens
      <3>1. Len(taken) < Len(sent) /\ Len(sent) \in Nat
        BY ReceivedIsNext, LenProperties DEF BytesInv
      <3>2. k \in 1 .. Len(sent)
        BY <1>1, <1>6, <3>1
      <3> QED BY <3>2, BuiltFrames DEF BytesInv
    <2>3. /\ g.typed /\ g.stream = sent[j].stream
          /\ j < k => g.type = CONTINUATION
          /\ sent[j].type \in {HEADERS, PUSH_PROMISE}
      BY <1>3 DEF PartialBlock
    <2> HIDE DEF g
    <2>4. /\ Accepts(f) /\ f.type = g.type /\ f.stream = g.stream
          /\ HasFlag(f.flags, END_HEADERS) <=> HasFlag(g.flags, END_HEADERS)
      <3>1. Accepts(Build(g))
        BY <2>2, <2>3, BuiltFramesAreAccepted
      <3>2. Build(g).type = g.type /\ Build(g).stream = g.stream
        BY DEF Build
      <3>3. HasFlag(Build(g).flags, END_HEADERS) <=> HasFlag(g.flags, END_HEADERS)
        BY <2>2, EndHeadersKept
      <3> QED BY <2>1, <3>1, <3>2, <3>3
    <2> HIDE DEF f
    <2>5. /\ Open(k) <=> locked # Idle
          /\ \A stream : OpenOn(stream, k) <=> locked # Idle /\ stream = locked
      BY <1>6 DEF LockInv
    <2>6. item.outcome = "fragment" /\ \A i \in j .. (k - 1) : taken[i].outcome = "fragment"
      <3>1. CASE j = k
        <4>1. f.type \in {HEADERS, PUSH_PROMISE} /\ locked = Idle
          BY <1>4, <2>3, <2>4, <2>5, <3>1 DEF g
        <4>2. item.outcome = "fragment"
          BY <1>2, <2>4, <4>1, ObserveAnswers
        <4> QED BY <3>1, <4>2
      <3>2. CASE j < k
        <4>1. k - 1 \in Nat /\ k - 1 <= Len(taken) /\ j <= k - 1 /\ (k - 1) + 1 = k
              /\ \A i \in j .. (k - 1) : i \in j .. k /\ i # k
          BY <1>1, <1>6, <3>2
        <4>2. PartialBlock(j, k - 1) /\ ~HasFlag(sent[k - 1].flags, END_HEADERS)
          <5>1. k - 1 \in j .. (k - 1)
            BY <4>1
          <5> QED BY <1>3, <4>1, <5>1 DEF PartialBlock
        <4>3. Followed(j, k - 1)
          BY <1>4, <4>1, <4>2 DEF WholeInv
        <4>4. \A stream : stream = Value(sent[j].stream) => OpenOn(stream, k)
          BY <4>1, <4>2, <4>3 DEF Followed
        <4>5. locked # Idle /\ Value(sent[j].stream) = locked
          BY <2>5, <4>4
        <4>6. f.type = CONTINUATION /\ Value(f.stream) = locked
          BY <2>3, <2>4, <3>2, <4>5
        <4>7. item.outcome = "fragment"
          BY <1>2, <2>4, <4>5, <4>6, ObserveAnswers
        <4> QED BY <4>3, <4>7 DEF Followed
      <3> QED BY <1>3, <3>1, <3>2
    <2>7. \A i \in j .. k : taken'[i].outcome = "fragment"
      <3>1. ASSUME NEW i \in j .. k PROVE taken'[i].outcome = "fragment"
        <4>1. CASE i = k
          BY <1>1, <1>6, <2>6, <4>1
        <4>2. CASE i # k
          <5>1. i \in j .. (k - 1) /\ i \in 1 .. Len(taken)
            BY <1>1, <1>6, <4>2
          <5> QED BY <1>1, <2>6, <5>1
        <4> QED BY <4>1, <4>2
      <3> QED BY <3>1
    <2>8. /\ Open(k + 1)' <=> ~HasFlag(item.frame.flags, END_HEADERS)
          /\ \A stream : OpenOn(stream, k + 1)' <=>
                /\ ~HasFlag(item.frame.flags, END_HEADERS)
                /\ stream = Value(item.frame.stream)
      BY <1>1, <1>6, <2>6, OpenAfter
    <2>9. item.frame = f
      BY <1>2 DEF f
    <2>10. /\ sent' = sent
           /\ HasFlag(item.frame.flags, END_HEADERS) <=> HasFlag(sent[k].flags, END_HEADERS)
           /\ Value(item.frame.stream) = Value(sent[j].stream)
      BY <1>1, <2>3, <2>4, <2>9 DEF g
    <2> QED BY <2>7, <2>8, <2>10 DEF Followed
  <1> QED BY <1>1, <1>5, <1>6

BlocksInv == BytesInv /\ LockInv /\ WholeInv /\ FragmentsExactlyLegal

\* Without frames there are no blocks.
LEMMA BlocksInit ==
  ASSUME Init
  PROVE  BlocksInv
  <1>1. taken = <<>> /\ Len(taken) = 0 /\ DOMAIN taken = {} /\ locked = Idle
    BY DEF Init
  <1>2. LockInv
    <2>1. ASSUME NEW k \in Nat, k = Len(taken) + 1
          PROVE  ~Open(k) /\ \A stream : ~OpenOn(stream, k)
      <3>1. k = 1
        BY <1>1, <2>1
      <3> QED BY <3>1 DEF Open, OpenOn
    <2> QED BY <1>1, <2>1 DEF LockInv
  <1>3. WholeInv
    <2>1. ASSUME NEW j \in Nat, NEW k \in Nat, 1 <= j, k <= Len(taken), PartialBlock(j, k)
          PROVE  FALSE
      BY <1>1, <2>1 DEF PartialBlock
    <2> QED BY <2>1 DEF WholeInv
  <1>4. FragmentsExactlyLegal
    BY <1>1 DEF FragmentsExactlyLegal
  <1> QED BY <1>2, <1>3, <1>4, BytesInit DEF BlocksInv

\* FragmentsExactlyLegal is about the frames taken only.
LEMMA LegalSame ==
  ASSUME FragmentsExactlyLegal, taken' = taken
  PROVE  FragmentsExactlyLegal'
  BY DEF FragmentsExactlyLegal, Open, OpenOn, IsLastFragment, FragmentsBefore

\* BlocksInv is inductive.
LEMMA BlocksStep ==
  ASSUME BlocksInv, [Next]_vars
  PROVE  BlocksInv'
  <1>1. BytesInv /\ LockInv /\ WholeInv /\ FragmentsExactlyLegal
    BY DEF BlocksInv
  <1>2. BytesInv'
    BY <1>1, BytesStep
  <1>3. Len(taken) \in Nat /\ Len(sent) \in Nat /\ Len(taken) <= Len(sent)
        /\ sent \in Seq(Givens)
    BY <1>1, LenProperties DEF BytesInv
  <1>4. CASE ReceiveFrame
    BY <1>1, <1>2, <1>4, LockReceive, LegalReceive, WholeReceive DEF BlocksInv
  <1>5. CASE Sending
    <2>1. PICK g : WellFormed(g) /\ Write(g)
      BY <1>5, SendingIsWellFormed
    <2>2. taken' = taken /\ locked' = locked /\ sent' = Append(sent, g)
      BY <2>1 DEF Write
    <2>3. \A i \in 1 .. Len(taken) : sent'[i] = sent[i]
      <3>1. \A i \in 1 .. Len(taken) : i \in 1 .. Len(sent)
        BY <1>3
      <3>2. \A i \in 1 .. Len(sent) : Append(sent, g)[i] = sent[i]
        BY <1>3
      <3> QED BY <2>2, <3>1, <3>2
    <2> QED BY <1>1, <1>2, <1>3, <2>2, <2>3, LockSame, LegalSame, WholeSame DEF BlocksInv
  <1>6. CASE RefuseLength \/ UNCHANGED vars
    <2>1. taken' = taken /\ locked' = locked /\ sent' = sent
      BY <1>6 DEF RefuseLength, vars
    <2> QED BY <1>1, <1>2, <1>3, <2>1, LockSame, LegalSame, WholeSame DEF BlocksInv
  <1> QED BY <1>4, <1>5, <1>6 DEF Next, Sending

\* A whole block is one followed up to the frame that ends it.
LEMMA BlocksGiveWhole ==
  ASSUME BlocksInv
  PROVE  WholeBlocksAreTaken
  <1>1. DOMAIN taken = 1 .. Len(taken) /\ Len(taken) \in Nat
    BY LenProperties DEF BlocksInv, BytesInv
  <1> SUFFICES ASSUME NEW j \in 1 .. Len(taken), NEW k \in 1 .. Len(taken),
                      OneBlock(j, k), ~Open(j)
               PROVE  /\ \A i \in j .. k : taken[i].outcome = "fragment"
                      /\ ~Open(k + 1)
                      /\ k = Len(taken) => locked = Idle
    BY <1>1 DEF WholeBlocksAreTaken
  <1>2. PartialBlock(j, k)
    BY DEF OneBlock, PartialBlock
  <1>3. HasFlag(sent[k].flags, END_HEADERS)
    <2>1. k \in j .. k
      BY DEF OneBlock
    <2> QED BY <2>1 DEF OneBlock
  <1>4. Followed(j, k)
    <2>1. j \in Nat /\ k \in Nat /\ 1 <= j /\ k <= Len(taken)
      BY <1>1
    <2> QED BY <1>2, <2>1 DEF BlocksInv, WholeInv
  <1>5. (\A i \in j .. k : taken[i].outcome = "fragment") /\ ~Open(k + 1)
    BY <1>3, <1>4 DEF Followed
  <1>6. k = Len(taken) => locked = Idle
    <2> HAVE k = Len(taken)
    <2>1. k + 1 \in Nat /\ k + 1 = Len(taken) + 1
      BY <1>1
    <2> QED BY <1>5, <2>1 DEF BlocksInv, LockInv
  <1> QED BY <1>5, <1>6

\* The lock always holds the stream of the block that the frames taken so far
\* leave open, so a frame is taken as a fragment exactly when it may be.
THEOREM SpecFragmentsExactlyLegal == Spec => []FragmentsExactlyLegal
  <1>1. Init => BlocksInv
    BY BlocksInit
  <1>2. BlocksInv /\ [Next]_vars => BlocksInv'
    BY BlocksStep
  <1>3. BlocksInv => FragmentsExactlyLegal
    BY DEF BlocksInv
  <1> QED BY <1>1, <1>2, <1>3, PTL DEF Spec

\* A block the builders wrote frame after frame is taken whole, whatever came
\* before it, and leaves the receiver ready for the next one.
THEOREM SpecWholeBlocksAreTaken == Spec => []WholeBlocksAreTaken
  <1>1. Init => BlocksInv
    BY BlocksInit
  <1>2. BlocksInv /\ [Next]_vars => BlocksInv'
    BY BlocksStep
  <1>3. BlocksInv => WholeBlocksAreTaken
    BY BlocksGiveWhole
  <1> QED BY <1>1, <1>2, <1>3, PTL DEF Spec
=============================================================================

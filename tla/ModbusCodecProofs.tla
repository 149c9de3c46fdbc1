------------------------- MODULE ModbusCodecProofs -------------------------
(***************************************************************************)
(* Proofs about ModbusCodec, for tables of any size and any calls.         *)
(***************************************************************************)
EXTENDS ModbusCodec, SequenceTheorems, WellFoundedInduction, TLAPS

-----------------------------------------------------------------------------
\* Induction

\* A set of numbers that is not empty has a least one.
LEMMA LeastNat ==
  ASSUME NEW T, T \subseteq Nat, T # {}
  PROVE  \E x \in T : \A y \in T : ~(y < x)
<1>. DEFINE R == OpToRel(<, Nat)
<1>1. IsWellFoundedOn(R, Nat)
  BY NatLessThanWellFounded, Zenon
<1>2. \A x, y \in Nat : y < x => <<y, x>> \in R
  BY DEF OpToRel
<1>. HIDE DEF R
<1>3. \E x \in T : \A y \in T : ~(<<y, x>> \in R)
  BY <1>1, WFMin, Zenon
<1>. QED
  BY <1>2, <1>3

-----------------------------------------------------------------------------
\* Bits

\* A word is a natural number below 65536.
LEMMA WordRange ==
  \A w : w \in Word16 <=> w \in Nat /\ w < 65536
<1>1. WORD_MAX \in Int /\ WORD_MAX + 1 = 65536
  BY DEF WORD_MAX
<1>2. ASSUME NEW w \in Word16
      PROVE  w \in Nat /\ w < 65536
  BY <1>1 DEF Word16
<1>3. ASSUME NEW w \in Nat, w < 65536
      PROVE  w \in Word16
  BY <1>1, <1>3 DEF Word16
<1>. QED
  BY <1>2, <1>3

\* Taking the lowest bit off a word (Bit, OfBits).
LEMMA Halves ==
  \A x \in 0 .. 1, y \in Nat : (x + 2 * y) % 2 = x /\ (x + 2 * y) \div 2 = y
  OBVIOUS

\* A shift by one bit more is a shift by one bit after the others (Bit).
LEMMA Shifts ==
  ASSUME NEW w \in Nat
  PROVE  /\ \A b \in 1 .. 16 : w \div Weight[b] \in Nat
         /\ w \div Weight[1] = w
         /\ \A b \in 1 .. 15 : w \div Weight[b + 1] = (w \div Weight[b]) \div 2
<1>1. w \div 1 \in Nat /\ w \div 1 = w
  OBVIOUS
<1>2. w \div 2 \in Nat /\ w \div 2 = (w \div 1) \div 2
  OBVIOUS
<1>3. w \div 4 \in Nat /\ w \div 4 = (w \div 2) \div 2
  OBVIOUS
<1>4. w \div 8 \in Nat /\ w \div 8 = (w \div 4) \div 2
  OBVIOUS
<1>5. w \div 16 \in Nat /\ w \div 16 = (w \div 8) \div 2
  OBVIOUS
<1>6. w \div 32 \in Nat /\ w \div 32 = (w \div 16) \div 2
  OBVIOUS
<1>7. w \div 64 \in Nat /\ w \div 64 = (w \div 32) \div 2
  OBVIOUS
<1>8. w \div 128 \in Nat /\ w \div 128 = (w \div 64) \div 2
  OBVIOUS
<1>9. w \div 256 \in Nat /\ w \div 256 = (w \div 128) \div 2
  OBVIOUS
<1>10. w \div 512 \in Nat /\ w \div 512 = (w \div 256) \div 2
  OBVIOUS
<1>11. w \div 1024 \in Nat /\ w \div 1024 = (w \div 512) \div 2
  OBVIOUS
<1>12. w \div 2048 \in Nat /\ w \div 2048 = (w \div 1024) \div 2
  OBVIOUS
<1>13. w \div 4096 \in Nat /\ w \div 4096 = (w \div 2048) \div 2
  OBVIOUS
<1>14. w \div 8192 \in Nat /\ w \div 8192 = (w \div 4096) \div 2
  OBVIOUS
<1>15. w \div 16384 \in Nat /\ w \div 16384 = (w \div 8192) \div 2
  OBVIOUS
<1>16. w \div 32768 \in Nat /\ w \div 32768 = (w \div 16384) \div 2
  OBVIOUS
<1>. QED
  BY <1>1, <1>2, <1>3, <1>4, <1>5, <1>6, <1>7, <1>8, <1>9, <1>10, <1>11, <1>12, <1>13, <1>14, <1>15, <1>16 DEF Weight

\* What is left of a word made of bits after 0, 1, ... 16 shifts (OfBits).
LEMMA Horner ==
  ASSUME NEW f \in [0 .. 15 -> 0 .. 1]
  PROVE  \E y : /\ \A b \in 1 .. 17 : y[b] \in Nat
                /\ \A b \in 1 .. 16 : y[b] = f[b - 1] + 2 * y[b + 1]
                /\ y[17] = 0
                /\ y[1] = OfBits(f)
<1>. DEFINE y16 == 0
            y15 == f[15] + 2 * y16
            y14 == f[14] + 2 * y15
            y13 == f[13] + 2 * y14
            y12 == f[12] + 2 * y13
            y11 == f[11] + 2 * y12
            y10 == f[10] + 2 * y11
            y9 == f[9] + 2 * y10
            y8 == f[8] + 2 * y9
            y7 == f[7] + 2 * y8
            y6 == f[6] + 2 * y7
            y5 == f[5] + 2 * y6
            y4 == f[4] + 2 * y5
            y3 == f[3] + 2 * y4
            y2 == f[2] + 2 * y3
            y1 == f[1] + 2 * y2
            y0 == f[0] + 2 * y1
            y == <<y0, y1, y2, y3, y4, y5, y6, y7, y8, y9, y10, y11, y12, y13, y14, y15, y16>>
<1>1. \A b \in 0 .. 15 : f[b] \in 0 .. 1
  OBVIOUS
<1>2. OfBits(f) = y0
  BY <1>1 DEF OfBits
<1>3. y15 \in Nat /\ y15 = f[15] + 2 * y16
  BY <1>1
<1>. HIDE DEF y15
<1>4. y14 \in Nat /\ y14 = f[14] + 2 * y15
  BY <1>1, <1>3
<1>. HIDE DEF y14
<1>5. y13 \in Nat /\ y13 = f[13] + 2 * y14
  BY <1>1, <1>4
<1>. HIDE DEF y13
<1>6. y12 \in Nat /\ y12 = f[12] + 2 * y13
  BY <1>1, <1>5
<1>. HIDE DEF y12
<1>7. y11 \in Nat /\ y11 = f[11] + 2 * y12
  BY <1>1, <1>6
<1>. HIDE DEF y11
<1>8. y10 \in Nat /\ y10 = f[10] + 2 * y11
  BY <1>1, <1>7
<1>. HIDE DEF y10
<1>9. y9 \in Nat /\ y9 = f[9] + 2 * y10
  BY <1>1, <1>8
<1>. HIDE DEF y9
<1>10. y8 \in Nat /\ y8 = f[8] + 2 * y9
  BY <1>1, <1>9
<1>. HIDE DEF y8
<1>11. y7 \in Nat /\ y7 = f[7] + 2 * y8
  BY <1>1, <1>10
<1>. HIDE DEF y7
<1>12. y6 \in Nat /\ y6 = f[6] + 2 * y7
  BY <1>1, <1>11
<1>. HIDE DEF y6
<1>13. y5 \in Nat /\ y5 = f[5] + 2 * y6
  BY <1>1, <1>12
<1>. HIDE DEF y5
<1>14. y4 \in Nat /\ y4 = f[4] + 2 * y5
  BY <1>1, <1>13
<1>. HIDE DEF y4
<1>15. y3 \in Nat /\ y3 = f[3] + 2 * y4
  BY <1>1, <1>14
<1>. HIDE DEF y3
<1>16. y2 \in Nat /\ y2 = f[2] + 2 * y3
  BY <1>1, <1>15
<1>. HIDE DEF y2
<1>17. y1 \in Nat /\ y1 = f[1] + 2 * y2
  BY <1>1, <1>16
<1>. HIDE DEF y1
<1>18. y0 \in Nat /\ y0 = f[0] + 2 * y1
  BY <1>1, <1>17
<1>. HIDE DEF y0
<1>19. /\ \A b \in 1 .. 17 : y[b] \in Nat
       /\ \A b \in 1 .. 16 : y[b] = f[b - 1] + 2 * y[b + 1]
       /\ y[17] = 0
  BY <1>3, <1>4, <1>5, <1>6, <1>7, <1>8, <1>9, <1>10, <1>11, <1>12, <1>13, <1>14, <1>15, <1>16, <1>17, <1>18
<1>20. y[1] = OfBits(f)
  BY <1>2
<1>. HIDE DEF y
<1>. QED
  BY <1>19, <1>20

\* How large a word is of which little or nothing is left after a shift (OfBits).
LEMMA FromShift ==
  \A x \in Nat :
    /\ x \div 32768 \in 0 .. 1 => x \in Word16
    /\ x \div 256 = 0 => x \in Byte
<1>1. ASSUME NEW x \in Nat, x \div 32768 \in 0 .. 1
      PROVE  x \in Word16
  <2>1. x < 65536
    BY <1>1
  <2>. QED
    BY <2>1, WordRange
<1>2. ASSUME NEW x \in Nat, x \div 256 = 0
      PROVE  x \in Byte
  <2>1. x < 256
    BY <1>2
  <2>. QED
    BY <2>1 DEF Byte
<1>. QED
  BY <1>1, <1>2

\* A word made of bits has these bits, and is a byte if the upper ones are 0
\* (OfBits, Bit).
LEMMA OfBitsFacts ==
  ASSUME NEW f \in [0 .. 15 -> 0 .. 1]
  PROVE  /\ OfBits(f) \in Word16
         /\ (\A b \in 8 .. 15 : f[b] = 0) => OfBits(f) \in Byte
         /\ \A b \in 0 .. 15 : Bit(OfBits(f), b) = f[b]
<1>. DEFINE w == OfBits(f)
<1>1. \A b \in 0 .. 15 : f[b] \in 0 .. 1
  OBVIOUS
<1>2. PICK y :
        /\ \A b \in 1 .. 17 : y[b] \in Nat
        /\ \A b \in 1 .. 16 : y[b] = f[b - 1] + 2 * y[b + 1]
        /\ y[17] = 0
        /\ y[1] = w
  BY Horner, Zenon
<1>. HIDE DEF w
<1>3. ASSUME NEW b \in 1 .. 16
      PROVE  y[b] % 2 = f[b - 1] /\ y[b] \div 2 = y[b + 1]
  <2>0. b - 1 \in 0 .. 15 /\ b + 1 \in 1 .. 17
    OBVIOUS
  <2>1. f[b - 1] \in 0 .. 1 /\ y[b + 1] \in Nat /\ y[b] = f[b - 1] + 2 * y[b + 1]
    BY <1>1, <1>2, <2>0, Zenon
  <2>. QED
    BY <2>1, Halves, Zenon
<1>0. w \in Nat
  BY <1>2
<1>4. w \div Weight[1] = y[1]
  BY <1>0, <1>2, Shifts
<1>5. w \div Weight[2] = y[2]
  BY <1>0, <1>4, <1>3, Shifts
<1>6. w \div Weight[3] = y[3]
  BY <1>0, <1>5, <1>3, Shifts
<1>7. w \div Weight[4] = y[4]
  BY <1>0, <1>6, <1>3, Shifts
<1>8. w \div Weight[5] = y[5]
  BY <1>0, <1>7, <1>3, Shifts
<1>9. w \div Weight[6] = y[6]
  BY <1>0, <1>8, <1>3, Shifts
<1>10. w \div Weight[7] = y[7]
  BY <1>0, <1>9, <1>3, Shifts
<1>11. w \div Weight[8] = y[8]
  BY <1>0, <1>10, <1>3, Shifts
<1>12. w \div Weight[9] = y[9]
  BY <1>0, <1>11, <1>3, Shifts
<1>13. w \div Weight[10] = y[10]
  BY <1>0, <1>12, <1>3, Shifts
<1>14. w \div Weight[11] = y[11]
  BY <1>0, <1>13, <1>3, Shifts
<1>15. w \div Weight[12] = y[12]
  BY <1>0, <1>14, <1>3, Shifts
<1>16. w \div Weight[13] = y[13]
  BY <1>0, <1>15, <1>3, Shifts
<1>17. w \div Weight[14] = y[14]
  BY <1>0, <1>16, <1>3, Shifts
<1>18. w \div Weight[15] = y[15]
  BY <1>0, <1>17, <1>3, Shifts
<1>19. w \div Weight[16] = y[16]
  BY <1>0, <1>18, <1>3, Shifts
<1>20. ASSUME NEW b \in 1 .. 16
      PROVE  w \div Weight[b] = y[b]
  BY <1>4, <1>5, <1>6, <1>7, <1>8, <1>9, <1>10, <1>11, <1>12, <1>13, <1>14, <1>15, <1>16, <1>17, <1>18, <1>19
<1>21. ASSUME NEW b \in 0 .. 15
      PROVE  Bit(w, b) = f[b]
  BY <1>3, <1>20 DEF Bit
<1>22. w \in Word16
  <2>1. y[16] = f[15] + 2 * y[17]
    BY <1>2
  <2>2. y[16] \in 0 .. 1
    BY <1>1, <1>2, <2>1
  <2>3. w \div 32768 \in 0 .. 1
    BY <1>19, <2>2 DEF Weight
  <2>. QED
    BY <1>0, <2>3, FromShift
<1>23. ASSUME \A b \in 8 .. 15 : f[b] = 0
      PROVE  w \in Byte
  <2>1. y[16] = 0
    BY <1>2, <1>23
  <2>2. y[15] = 0
    BY <1>2, <1>23, <2>1
  <2>3. y[14] = 0
    BY <1>2, <1>23, <2>2
  <2>4. y[13] = 0
    BY <1>2, <1>23, <2>3
  <2>5. y[12] = 0
    BY <1>2, <1>23, <2>4
  <2>6. y[11] = 0
    BY <1>2, <1>23, <2>5
  <2>7. y[10] = 0
    BY <1>2, <1>23, <2>6
  <2>8. y[9] = 0
    BY <1>2, <1>23, <2>7
  <2>9. w \div 256 = 0
    BY <1>12, <2>8 DEF Weight
  <2>. QED
    BY <1>0, <2>9, FromShift
<1>. QED
  BY <1>21, <1>22, <1>23 DEF w

-----------------------------------------------------------------------------
\* Bytes

\* The two bytes of a word make the word (Bytes, WordAt).
LEMMA BytesFacts ==
  ASSUME NEW w \in Word16
  PROVE  /\ w \div 256 \in Byte
         /\ w % 256 \in Byte
         /\ 256 * (w \div 256) + (w % 256) = w
<1>1. w \in Nat /\ w < 65536
  BY WordRange
<1>. QED
  BY <1>1 DEF Byte

LEMMA WordOfBytes ==
  ASSUME NEW x \in Byte, NEW y \in Byte
  PROVE  256 * x + y \in Word16
<1>1. 256 * x + y \in Nat /\ 256 * x + y < 65536
  BY DEF Byte
<1>. QED
  BY <1>1, WordRange

\* What begins as p begins.
LEMMA ConcatFacts ==
  ASSUME NEW S, NEW p \in Seq(S), NEW d \in Seq(S)
  PROVE  /\ p \o d \in Seq(S)
         /\ Len(p \o d) = Len(p) + Len(d)
         /\ \A i \in 1 .. Len(p) : (p \o d)[i] = p[i]
         /\ \A i \in 1 .. Len(d) : (p \o d)[Len(p) + i] = d[i]
         /\ \A m \in 1 .. Len(p) + 1, n \in 0 .. Len(p) :
              SubSeq(p \o d, m, n) = SubSeq(p, m, n)
         /\ SubSeq(p \o d, Len(p) + 1, Len(p) + Len(d)) = d
         /\ SubSeq(p \o d, 1, Len(p)) = p
  OBVIOUS

\* The bytes of words, and the words of these bytes (BytesOf, WordsAt).
LEMMA BytesOfFacts ==
  ASSUME NEW words \in Seq(Word16)
  PROVE  /\ BytesOf(words) \in Seq(Byte)
         /\ Len(BytesOf(words)) = 2 * Len(words)
         /\ \A k \in 1 .. Len(words) :
              /\ BytesOf(words)[2 * k - 1] \in Byte
              /\ BytesOf(words)[2 * k] \in Byte
              /\ 256 * BytesOf(words)[2 * k - 1] + BytesOf(words)[2 * k] = words[k]
<1>. DEFINE n == 2 * Len(words)
<1>1. Len(words) \in Nat /\ \A k \in 1 .. Len(words) : words[k] \in Word16
  BY ElementOfSeq
<1>2. ASSUME NEW i \in 1 .. n
      PROVE  /\ i % 2 = 1 => i \div 2 + 1 \in 1 .. Len(words)
             /\ i % 2 # 1 => i \div 2 \in 1 .. Len(words)
  BY <1>1
<1>3. ASSUME NEW i \in 1 .. n
      PROVE  BytesOf(words)[i] \in Byte
  BY <1>1, <1>2, BytesFacts DEF BytesOf
<1>4. BytesOf(words) = [i \in 1 .. n |-> BytesOf(words)[i]]
  BY DEF BytesOf
<1>5. BytesOf(words) \in Seq(Byte) /\ Len(BytesOf(words)) = n
  BY <1>1, <1>3, <1>4
<1>6. ASSUME NEW k \in 1 .. Len(words)
      PROVE  /\ BytesOf(words)[2 * k - 1] = words[k] \div 256
             /\ BytesOf(words)[2 * k] = words[k] % 256
  <2>1. /\ 2 * k - 1 \in 1 .. n /\ (2 * k - 1) % 2 = 1 /\ (2 * k - 1) \div 2 + 1 = k
        /\ 2 * k \in 1 .. n /\ (2 * k) % 2 # 1 /\ (2 * k) \div 2 = k
    BY <1>1
  <2>. QED
    BY <2>1 DEF BytesOf
<1>. QED
  BY <1>1, <1>5, <1>6, BytesFacts

-----------------------------------------------------------------------------
\* Packed bits, and the operators of C on words

LEMMA BitRange ==
  ASSUME NEW w \in Nat, NEW b \in 0 .. 15
  PROVE  Bit(w, b) \in 0 .. 1
<1>0. b + 1 \in 1 .. 16
  OBVIOUS
<1>1. w \div Weight[b + 1] \in Nat
  BY <1>0, Shifts, Zenon
<1>. DEFINE x == w \div Weight[b + 1]
<1>. HIDE DEF x
<1>2. x \in Nat => x % 2 \in 0 .. 1
  OBVIOUS
<1>. QED
  BY <1>1, <1>2, Zenon DEF Bit, x

\* Packed bits are found where they are looked for (Packed, BitOf).
LEMMA PackedFacts ==
  ASSUME NEW src \in Seq(0 .. 1)
  PROVE  /\ Packed(src) \in Seq(Byte)
         /\ Len(Packed(src)) = BitBytes(Len(src))
         /\ \A k \in 0 .. Len(src) - 1 : BitOf(Packed(src), k) = src[k + 1]
<1>. DEFINE n == Len(src)
            m == BitBytes(n)
            bits(i) == [b \in 0 .. 15 |->
                          IF b < 8 /\ 8 * (i - 1) + b < n THEN src[8 * (i - 1) + b + 1] ELSE 0]
<1>1. n \in Nat /\ \A k \in 1 .. n : src[k] \in 0 .. 1
  BY ElementOfSeq
<1>2. m \in Nat /\ \A k \in 0 .. n - 1 : k \div 8 + 1 \in 1 .. m
  BY <1>1 DEF BitBytes
<1>3. ASSUME NEW i \in 1 .. m
      PROVE  /\ bits(i) \in [0 .. 15 -> 0 .. 1]
             /\ \A b \in 8 .. 15 : bits(i)[b] = 0
  BY <1>1, <1>2
<1>4. Packed(src) = [i \in 1 .. m |-> OfBits(bits(i))]
  BY Zenon DEF Packed
<1>. HIDE DEF bits, m
<1>5. ASSUME NEW i \in 1 .. m
      PROVE  /\ OfBits(bits(i)) \in Byte
             /\ \A b \in 0 .. 15 : Bit(OfBits(bits(i)), b) = bits(i)[b]
  BY <1>3, OfBitsFacts, Zenon
<1>6. Packed(src) \in Seq(Byte) /\ Len(Packed(src)) = m
  BY <1>2, <1>4, <1>5
<1>7. ASSUME NEW k \in 0 .. n - 1
      PROVE  BitOf(Packed(src), k) = src[k + 1]
  <2>. DEFINE i == k \div 8 + 1
              b == k % 8
  <2>1. i \in 1 .. m /\ b \in 0 .. 15 /\ b < 8 /\ 8 * (i - 1) + b = k
    BY <1>1, <1>2
  <2>2. BitOf(Packed(src), k) = Bit(Packed(src)[i], b)
    BY Zenon DEF BitOf
  <2>3. bits(i)[b] = src[k + 1]
    <3>1. bits(i)[b] = IF b < 8 /\ 8 * (i - 1) + b < n THEN src[8 * (i - 1) + b + 1] ELSE 0
      BY <2>1, Zenon DEF bits
    <3>2. 8 * (i - 1) + b < n
      BY <1>1, <2>1
    <3>. HIDE DEF i, b
    <3>. QED
      BY <2>1, <3>1, <3>2
  <2>. HIDE DEF i, b
  <2>. QED
    BY <1>4, <1>5, <2>1, <2>2, <2>3, Zenon
<1>. QED
  BY <1>6, <1>7, Zenon DEF m

LEMMA AndOrFacts ==
  ASSUME NEW v \in Word16, NEW w \in Word16
  PROVE  /\ And(v, w) \in Word16 /\ Or(v, w) \in Word16
         /\ \A b \in 0 .. 15 :
              /\ Bit(And(v, w), b) = IF Bit(v, b) = 1 THEN Bit(w, b) ELSE 0
              /\ Bit(Or(v, w), b) = IF Bit(v, b) = 1 THEN 1 ELSE Bit(w, b)
<1>. DEFINE f == [b \in 0 .. 15 |-> IF Bit(v, b) = 1 THEN Bit(w, b) ELSE 0]
            g == [b \in 0 .. 15 |-> IF Bit(v, b) = 1 THEN 1 ELSE Bit(w, b)]
<1>1. v \in Nat /\ w \in Nat
  BY WordRange
<1>2. f \in [0 .. 15 -> 0 .. 1] /\ g \in [0 .. 15 -> 0 .. 1]
  BY <1>1, BitRange
<1>3. And(v, w) = OfBits(f) /\ Or(v, w) = OfBits(g)
  BY Zenon DEF And, Or
<1>4. \A b \in 0 .. 15 :
        /\ f[b] = IF Bit(v, b) = 1 THEN Bit(w, b) ELSE 0
        /\ g[b] = IF Bit(v, b) = 1 THEN 1 ELSE Bit(w, b)
  BY Zenon
<1>. HIDE DEF f, g
<1>. QED
  BY <1>2, <1>3, <1>4, OfBitsFacts, Zenon

\* The complement of a word has the other bits (Not).
LEMMA NotFacts ==
  ASSUME NEW w \in Word16
  PROVE  /\ Not(w) \in Word16
         /\ \A b \in 0 .. 15 : Bit(Not(w), b) = 1 - Bit(w, b)
<1>. DEFINE v == 65535 - w
<1>0. w \in Nat /\ w < 65536
  BY WordRange
<1>1. Not(w) = v /\ v \in Nat /\ v < 65536
  BY <1>0 DEF Not, WORD_MAX
<1>2. (v \div 1) % 2 = 1 - ((w \div 1) % 2)
  BY <1>0
<1>3. (v \div 2) % 2 = 1 - ((w \div 2) % 2)
  BY <1>0
<1>4. (v \div 4) % 2 = 1 - ((w \div 4) % 2)
  BY <1>0
<1>5. (v \div 8) % 2 = 1 - ((w \div 8) % 2)
  BY <1>0
<1>6. (v \div 16) % 2 = 1 - ((w \div 16) % 2)
  BY <1>0
<1>7. (v \div 32) % 2 = 1 - ((w \div 32) % 2)
  BY <1>0
<1>8. (v \div 64) % 2 = 1 - ((w \div 64) % 2)
  BY <1>0
<1>9. (v \div 128) % 2 = 1 - ((w \div 128) % 2)
  BY <1>0
<1>10. (v \div 256) % 2 = 1 - ((w \div 256) % 2)
  BY <1>0
<1>11. (v \div 512) % 2 = 1 - ((w \div 512) % 2)
  BY <1>0
<1>12. (v \div 1024) % 2 = 1 - ((w \div 1024) % 2)
  BY <1>0
<1>13. (v \div 2048) % 2 = 1 - ((w \div 2048) % 2)
  BY <1>0
<1>14. (v \div 4096) % 2 = 1 - ((w \div 4096) % 2)
  BY <1>0
<1>15. (v \div 8192) % 2 = 1 - ((w \div 8192) % 2)
  BY <1>0
<1>16. (v \div 16384) % 2 = 1 - ((w \div 16384) % 2)
  BY <1>0
<1>17. (v \div 32768) % 2 = 1 - ((w \div 32768) % 2)
  BY <1>0
<1>. HIDE DEF v
<1>18. ASSUME NEW b \in 0 .. 15
      PROVE  Bit(v, b) = 1 - Bit(w, b)
  BY <1>2, <1>3, <1>4, <1>5, <1>6, <1>7, <1>8, <1>9, <1>10, <1>11, <1>12, <1>13, <1>14, <1>15, <1>16, <1>17 DEF Bit, Weight
<1>. QED
  BY <1>1, <1>18, WordRange

-----------------------------------------------------------------------------
\* The loop of response_io_status

\* The state of the loop of bits_in_bytes before it, and after a bit more.
Start == [rsp |-> <<>>, one_byte |-> 0, shift |-> 0]

After(s, bit) ==
  LET one_byte == s.one_byte + bit * Weight[s.shift + 1]
  IN  IF s.shift = 7
        THEN [rsp |-> Append(s.rsp, one_byte), one_byte |-> 0, shift |-> 0]
        ELSE [rsp |-> s.rsp, one_byte |-> one_byte, shift |-> s.shift + 1]

\* States that begin and go on like those of the loop are those of the loop.
LEMMA LoopIs ==
  ASSUME NEW address, NEW nb \in Nat, NEW h,
         h = [k \in 0 .. nb |-> IF k = 0 THEN Start
                                ELSE After(h[k - 1], tab_bits[address + k - 1])]
  PROVE  bits_in_bytes(address, nb) = h[nb]
<1>. DEFINE Loop(f) ==
       f = [k \in 0 .. nb |-> IF k = 0 THEN Start
                              ELSE After(f[k - 1], tab_bits[address + k - 1])]
            stored == CHOOSE f : Loop(f)
<1>1. bits_in_bytes(address, nb) = stored[nb]
  BY Zenon DEF bits_in_bytes, Start, After
<1>2. Loop(stored)
  BY Zenon
<1>. HIDE DEF stored
<1>3. ASSUME NEW k \in 0 .. nb
      PROVE  /\ stored[k] = IF k = 0 THEN Start
                            ELSE After(stored[k - 1], tab_bits[address + k - 1])
             /\ h[k] = IF k = 0 THEN Start ELSE After(h[k - 1], tab_bits[address + k - 1])
  BY <1>2, Zenon
<1>4. ASSUME NEW k \in 0 .. nb, stored[k] # h[k]
      PROVE  FALSE
  <2>. DEFINE T == {j \in 0 .. nb : stored[j] # h[j]}
  <2>1. k \in T /\ T \subseteq Nat
    BY <1>4
  <2>2. PICK x \in T : \A y \in T : ~(y < x)
    BY <2>1, LeastNat, Zenon
  <2>3. CASE x = 0
    BY <1>3, <2>2, <2>3
  <2>4. CASE x # 0
    <3>1. x \in 0 .. nb /\ x - 1 \in 0 .. nb /\ x - 1 < x
      BY <2>2, <2>4
    <3>2. stored[x - 1] = h[x - 1]
      BY <2>2, <3>1, Zenon
    <3>3. stored[x] = h[x]
      BY <1>3, <2>4, <3>1, <3>2, Zenon
    <3>. QED
      BY <2>2, <3>3
  <2>. QED
    BY <2>3, <2>4
<1>5. nb \in 0 .. nb
  OBVIOUS
<1>. QED
  BY <1>1, <1>4, <1>5, Zenon

\* A byte is made of its eight bits (OfBits).
LEMMA ByteSum ==
  ASSUME NEW f \in [0 .. 15 -> 0 .. 1], \A b \in 8 .. 15 : f[b] = 0
  PROVE  OfBits(f) = f[0] + 2 * (f[1] + 2 * (f[2] + 2 * (f[3] + 2 * (f[4]
                       + 2 * (f[5] + 2 * (f[6] + 2 * f[7]))))))
<1>1. f[7] \in Int
  OBVIOUS
<1>2. /\ f[8] = 0 /\ f[9] = 0 /\ f[10] = 0 /\ f[11] = 0
      /\ f[12] = 0 /\ f[13] = 0 /\ f[14] = 0 /\ f[15] = 0
  OBVIOUS
<1>3. f[8] + 2 * (f[9] + 2 * (f[10] + 2 * (f[11] + 2 * (f[12]
        + 2 * (f[13] + 2 * (f[14] + 2 * f[15])))))) = 0
  BY <1>2
<1>. DEFINE rest == f[8] + 2 * (f[9] + 2 * (f[10] + 2 * (f[11] + 2 * (f[12]
                      + 2 * (f[13] + 2 * (f[14] + 2 * f[15]))))))
<1>4. OfBits(f) = f[0] + 2 * (f[1] + 2 * (f[2] + 2 * (f[3] + 2 * (f[4]
                    + 2 * (f[5] + 2 * (f[6] + 2 * (f[7] + 2 * rest)))))))
  BY Zenon DEF OfBits
<1>. HIDE DEF rest
<1>5. rest = 0
  BY <1>3 DEF rest
<1>6. f[7] + 2 * rest = f[7]
  BY <1>1, <1>5
<1>. QED
  BY <1>4, <1>6, Zenon

\* A bit beyond the others of a byte adds its weight.
LEMMA BitAdded ==
  ASSUME NEW s \in 0 .. 7, NEW f \in [0 .. 15 -> 0 .. 1], NEW g \in [0 .. 15 -> 0 .. 1],
         \A b \in s .. 15 : f[b] = 0,
         \A b \in 0 .. 15 : b # s => g[b] = f[b]
  PROVE  OfBits(g) = OfBits(f) + g[s] * Weight[s + 1]
<1>1. \A b \in 8 .. 15 : f[b] = 0 /\ g[b] = 0
  OBVIOUS
<1>2. /\ OfBits(f) = f[0] + 2 * (f[1] + 2 * (f[2] + 2 * (f[3] + 2 * (f[4]
                       + 2 * (f[5] + 2 * (f[6] + 2 * f[7]))))))
      /\ OfBits(g) = g[0] + 2 * (g[1] + 2 * (g[2] + 2 * (g[3] + 2 * (g[4]
                       + 2 * (g[5] + 2 * (g[6] + 2 * g[7]))))))
  BY <1>1, ByteSum
<1>. DEFINE F == f[3] + 2 * (f[4] + 2 * (f[5] + 2 * (f[6] + 2 * f[7])))
            G == g[3] + 2 * (g[4] + 2 * (g[5] + 2 * (g[6] + 2 * g[7])))
<1>3. /\ OfBits(f) = f[0] + 2 * (f[1] + 2 * (f[2] + 2 * F))
      /\ OfBits(g) = g[0] + 2 * (g[1] + 2 * (g[2] + 2 * G))
  BY <1>2, Zenon
<1>4. \A b \in 0 .. 7 : f[b] \in Int /\ g[b] \in Int
  OBVIOUS
<1>4a. F \in Int /\ G \in Int
  BY <1>4
<1>5. s < 3 => F = 0 /\ G = 0
  OBVIOUS
<1>6. CASE s = 3
  <2>1. G = F + g[3]
    BY <1>6
  <2>2. g[0] = f[0] /\ g[1] = f[1] /\ g[2] = f[2]
    BY <1>6
  <2>3. Weight[s + 1] = 8
    BY <1>6 DEF Weight
  <2>. HIDE DEF F, G
  <2>. QED
    BY <1>3, <1>4, <1>4a, <1>6, <2>1, <2>2, <2>3
<1>7. CASE s = 4
  <2>1. G = F + 2 * g[4]
    BY <1>7
  <2>2. g[0] = f[0] /\ g[1] = f[1] /\ g[2] = f[2]
    BY <1>7
  <2>3. Weight[s + 1] = 16
    BY <1>7 DEF Weight
  <2>. HIDE DEF F, G
  <2>. QED
    BY <1>3, <1>4, <1>4a, <1>7, <2>1, <2>2, <2>3
<1>8. CASE s = 5
  <2>1. G = F + 4 * g[5]
    BY <1>8
  <2>2. g[0] = f[0] /\ g[1] = f[1] /\ g[2] = f[2]
    BY <1>8
  <2>3. Weight[s + 1] = 32
    BY <1>8 DEF Weight
  <2>. HIDE DEF F, G
  <2>. QED
    BY <1>3, <1>4, <1>4a, <1>8, <2>1, <2>2, <2>3
<1>9. CASE s = 6
  <2>1. G = F + 8 * g[6]
    BY <1>9
  <2>2. g[0] = f[0] /\ g[1] = f[1] /\ g[2] = f[2]
    BY <1>9
  <2>3. Weight[s + 1] = 64
    BY <1>9 DEF Weight
  <2>. HIDE DEF F, G
  <2>. QED
    BY <1>3, <1>4, <1>4a, <1>9, <2>1, <2>2, <2>3
<1>10. CASE s = 7
  <2>1. G = F + 16 * g[7]
    BY <1>10
  <2>2. g[0] = f[0] /\ g[1] = f[1] /\ g[2] = f[2]
    BY <1>10
  <2>3. Weight[s + 1] = 128
    BY <1>10 DEF Weight
  <2>. HIDE DEF F, G
  <2>. QED
    BY <1>3, <1>4, <1>4a, <1>10, <2>1, <2>2, <2>3
<1>. HIDE DEF F, G
<1>11. CASE s = 0
  BY <1>3, <1>4, <1>4a, <1>5, <1>11 DEF Weight
<1>12. CASE s = 1
  BY <1>3, <1>4, <1>4a, <1>5, <1>12 DEF Weight
<1>13. CASE s = 2
  BY <1>3, <1>4, <1>4a, <1>5, <1>13 DEF Weight
<1>. QED
  BY <1>6, <1>7, <1>8, <1>9, <1>10, <1>11, <1>12, <1>13

\* What the loop stores is what Packed says: bit by bit and in closed form (Packed).
LEMMA LoopPacks ==
  ASSUME NEW address, NEW nb \in Nat,
         \A k \in 1 .. nb : tab_bits[address + k - 1] \in 0 .. 1
  PROVE  response_io_status(address, nb) = Packed([k \in 1 .. nb |-> tab_bits[address + k - 1]])
<1>. DEFINE v(j) == tab_bits[address + (j + 1) - 1]
            full(i) == [b \in 0 .. 15 |-> IF b < 8 THEN v(8 * (i - 1) + b) ELSE 0]
            part(k) == [b \in 0 .. 15 |-> IF b < k % 8 THEN v(8 * (k \div 8) + b) ELSE 0]
            bytes(k) == [i \in 1 .. k \div 8 |-> OfBits(full(i))]
            state(k) == [rsp |-> bytes(k), one_byte |-> OfBits(part(k)), shift |-> k % 8]
            h == [k \in 0 .. nb |-> state(k)]
<1>1. ASSUME NEW j \in Nat, j < nb
      PROVE  v(j) \in 0 .. 1
  <2>1. j + 1 \in 1 .. nb
    BY <1>1
  <2>. QED
    BY <2>1, Zenon
<1>2. ASSUME NEW k \in 1 .. nb
      PROVE  tab_bits[address + k - 1] = v(k - 1)
  <2>1. (k - 1) + 1 = k
    OBVIOUS
  <2>. QED
    BY <2>1, Zenon
<1>. HIDE DEF v
<1>3. state(0) = Start
  <2>1. bytes(0) = <<>>
    OBVIOUS
  <2>2. part(0) = [b \in 0 .. 15 |-> 0]
    OBVIOUS
  <2>3. OfBits([b \in 0 .. 15 |-> 0]) = 0
    BY DEF OfBits
  <2>. HIDE DEF bytes, part
  <2>. QED
    BY <2>1, <2>2, <2>3 DEF Start
<1>4. ASSUME NEW k \in 0 .. nb - 1
      PROVE  After(state(k), v(k)) = state(k + 1)
  <2>. DEFINE s == k % 8
              q == k \div 8
  <2>1. /\ s \in 0 .. 7 /\ q \in Nat /\ k = 8 * q + s
        /\ s < 7 => (k + 1) % 8 = s + 1 /\ (k + 1) \div 8 = q
        /\ s = 7 => (k + 1) % 8 = 0 /\ (k + 1) \div 8 = q + 1
    OBVIOUS
  <2>. DEFINE g == [b \in 0 .. 15 |-> IF b < s + 1 THEN v(8 * q + b) ELSE 0]
  <2>. HIDE DEF s, q
  <2>2. part(k) = [b \in 0 .. 15 |-> IF b < s THEN v(8 * q + b) ELSE 0]
    BY Zenon DEF s, q
  <2>3. /\ part(k) \in [0 .. 15 -> 0 .. 1] /\ g \in [0 .. 15 -> 0 .. 1]
        /\ \A b \in s .. 15 : part(k)[b] = 0
        /\ \A b \in 0 .. 15 : b # s => g[b] = part(k)[b]
        /\ g[s] = v(k)
    BY <1>1, <2>1, <2>2
  <2>. HIDE DEF part, g
  <2>4. OfBits(g) = OfBits(part(k)) + v(k) * Weight[s + 1]
    BY <2>1, <2>3, BitAdded
  <2>5. CASE s < 7
    <3>1. part(k + 1) = g
      BY <2>1, <2>5 DEF part, g
    <3>2. bytes(k + 1) = bytes(k)
      BY <2>1, <2>5 DEF q
    <3>3. state(k + 1) = [rsp |-> bytes(k), one_byte |-> OfBits(g), shift |-> s + 1]
      BY <2>1, <2>5, <3>1, <3>2, Zenon
    <3>4. state(k) = [rsp |-> bytes(k), one_byte |-> OfBits(part(k)), shift |-> s]
      BY Zenon DEF s
    <3>. HIDE DEF state, bytes
    <3>. QED
      BY <2>1, <2>4, <2>5, <3>3, <3>4 DEF After
  <2>6. CASE s = 7
    <3>1. OfBits(part(k + 1)) = 0
      <4>1. part(k + 1) = [b \in 0 .. 15 |-> 0]
        BY <2>1, <2>6 DEF part
      <4>2. OfBits([b \in 0 .. 15 |-> 0]) = 0
        BY DEF OfBits
      <4>. QED
        BY <4>1, <4>2, Zenon
    <3>2. g = full(q + 1)
      BY <2>1, <2>6 DEF g
    <3>3. bytes(k + 1) = Append(bytes(k), OfBits(g))
      <4>. HIDE DEF full
      <4>. QED
        BY <2>1, <2>6, <3>2 DEF q
    <3>4. state(k + 1) = [rsp |-> Append(bytes(k), OfBits(g)), one_byte |-> 0, shift |-> 0]
      BY <2>1, <2>6, <3>1, <3>3, Zenon
    <3>5. state(k) = [rsp |-> bytes(k), one_byte |-> OfBits(part(k)), shift |-> s]
      BY Zenon DEF s
    <3>. HIDE DEF state, bytes
    <3>. QED
      <4>1. /\ state(k).rsp = bytes(k) /\ state(k).shift = 7
            /\ state(k).one_byte + v(k) * Weight[state(k).shift + 1] = OfBits(g)
        BY <2>4, <2>6, <3>5
      <4>. QED
        BY <3>4, <4>1, Zenon DEF After
  <2>. QED
    BY <2>1, <2>5, <2>6
<1>5. bits_in_bytes(address, nb) = state(nb)
  <2>1. ASSUME NEW k \in 0 .. nb
        PROVE  state(k) = IF k = 0 THEN Start ELSE After(state(k - 1), tab_bits[address + k - 1])
    <3>. HIDE DEF state
    <3>1. CASE k = 0
      BY <1>3, <3>1
    <3>2. CASE k # 0
      <4>1. k \in 1 .. nb /\ k - 1 \in 0 .. nb - 1 /\ (k - 1) + 1 = k
        BY <3>2
      <4>. QED
        BY <1>2, <1>4, <3>2, <4>1, Zenon
    <3>. QED
      BY <3>1, <3>2
  <2>. HIDE DEF state
  <2>2. ASSUME NEW k \in 0 .. nb
        PROVE  h[k] = IF k = 0 THEN Start ELSE After(h[k - 1], tab_bits[address + k - 1])
    BY <2>1
  <2>3. h = [k \in 0 .. nb |-> h[k]]
    OBVIOUS
  <2>4. h = [k \in 0 .. nb |-> IF k = 0 THEN Start
                               ELSE After(h[k - 1], tab_bits[address + k - 1])]
    <3>. HIDE DEF h
    <3>. QED
      BY <2>2, <2>3
  <2>5. h[nb] = state(nb)
    OBVIOUS
  <2>. HIDE DEF h
  <2>. QED
    BY <2>4, <2>5, LoopIs, Zenon
<1>. DEFINE src == [k \in 1 .. nb |-> tab_bits[address + k - 1]]
            bits(i) == [b \in 0 .. 15 |->
                          IF b < 8 /\ 8 * (i - 1) + b < nb THEN src[8 * (i - 1) + b + 1] ELSE 0]
            s == nb % 8
            q == nb \div 8
<1>6. Packed(src) = [i \in 1 .. BitBytes(nb) |-> OfBits(bits(i))]
  <2>1. Len(src) = nb
    OBVIOUS
  <2>. HIDE DEF src
  <2>. QED
    BY <2>1, Zenon DEF Packed
<1>7. \A j \in 1 .. nb : src[j] = v(j - 1)
  BY <1>2
<1>. HIDE DEF src
<1>8. /\ s \in 0 .. 7 /\ q \in Nat /\ nb = 8 * q + s
      /\ BitBytes(nb) = IF s = 0 THEN q ELSE q + 1
  BY DEF BitBytes
<1>. HIDE DEF s, q
<1>9. ASSUME NEW i \in 1 .. q
      PROVE  bits(i) = full(i)
  <2>1. ASSUME NEW b \in 0 .. 15
        PROVE  (IF b < 8 /\ 8 * (i - 1) + b < nb THEN src[8 * (i - 1) + b + 1] ELSE 0)
                 = IF b < 8 THEN v(8 * (i - 1) + b) ELSE 0
    <3>1. CASE b < 8
      <4>1. 8 * (i - 1) + b < nb /\ 8 * (i - 1) + b + 1 \in 1 .. nb
        BY <1>8, <3>1
      <4>2. src[8 * (i - 1) + b + 1] = v(8 * (i - 1) + b + 1 - 1)
        BY <1>7, <4>1
      <4>3. 8 * (i - 1) + b + 1 - 1 = 8 * (i - 1) + b
        BY <1>8
      <4>. QED
        BY <3>1, <4>1, <4>2, <4>3, Zenon
    <3>. QED
      BY <3>1, Zenon
  <2>. QED
    BY <2>1, Zenon
<1>10. s # 0 => bits(q + 1) = part(nb)
  <2>1. ASSUME NEW b \in 0 .. 15
        PROVE  (IF b < 8 /\ 8 * ((q + 1) - 1) + b < nb THEN src[8 * ((q + 1) - 1) + b + 1] ELSE 0)
                 = IF b < s THEN v(8 * q + b) ELSE 0
    <3>1. 8 * ((q + 1) - 1) = 8 * q /\ (b < s <=> b < 8 /\ 8 * q + b < nb)
      BY <1>8
    <3>2. CASE b < s
      <4>1. 8 * q + b + 1 \in 1 .. nb /\ 8 * q + b + 1 - 1 = 8 * q + b
        BY <1>8, <3>2
      <4>2. src[8 * q + b + 1] = v(8 * q + b + 1 - 1)
        BY <1>7, <1>8, <4>1
      <4>. QED
        BY <3>1, <3>2, <4>1, <4>2, Zenon
    <3>. QED
      BY <3>1, <3>2, Zenon
  <2>. QED
    BY <2>1, Zenon DEF s, q
<1>11. bytes(nb) = [i \in 1 .. q |-> OfBits(full(i))] /\ state(nb).rsp = bytes(nb)
       /\ state(nb).one_byte = OfBits(part(nb)) /\ state(nb).shift = s
  BY DEF q, s
<1>. HIDE DEF state, bytes, part, full, bits
<1>12. response_io_status(address, nb) =
         IF s # 0 THEN Append(bytes(nb), OfBits(part(nb))) ELSE bytes(nb)
  BY <1>5, <1>11, Zenon DEF response_io_status
<1>13. s = 0 => response_io_status(address, nb) = Packed(src)
  BY <1>6, <1>8, <1>9, <1>11, <1>12
<1>14. s # 0 => response_io_status(address, nb) = Packed(src)
  BY <1>6, <1>8, <1>9, <1>10, <1>11, <1>12
<1>. QED
  BY <1>13, <1>14 DEF src

-----------------------------------------------------------------------------
\* The checksum

\* The tables hold a byte for every byte.
LEMMA TableBytes ==
  ASSUME NEW i \in Byte
  PROVE  table_crc_hi[i + 1] \in Byte /\ table_crc_lo[i + 1] \in Byte
<1>1. i + 1 \in 1 .. 256
  BY DEF Byte
<1>2. table_crc_hi[i + 1] \in Byte
  BY <1>1 DEF table_crc_hi, Byte
<1>3. table_crc_lo[i + 1] \in Byte
  BY <1>1 DEF table_crc_lo, Byte
<1>. QED
  BY <1>2, <1>3

\* Words have the bits of their exclusive or, bytes a byte (Xor).
LEMMA XorFacts ==
  ASSUME NEW v \in Word16, NEW w \in Word16
  PROVE  /\ Xor(v, w) \in Word16
         /\ \A b \in 0 .. 15 : Bit(Xor(v, w), b) = IF Bit(v, b) = Bit(w, b) THEN 0 ELSE 1
         /\ v \in Byte /\ w \in Byte => Xor(v, w) \in Byte
<1>. DEFINE f == [b \in 0 .. 15 |-> IF Bit(v, b) = Bit(w, b) THEN 0 ELSE 1]
<1>1. f \in [0 .. 15 -> 0 .. 1]
  OBVIOUS
<1>2. Xor(v, w) = OfBits(f)
  BY Zenon DEF Xor
<1>3. \A b \in 0 .. 15 : f[b] = IF Bit(v, b) = Bit(w, b) THEN 0 ELSE 1
  BY Zenon
<1>4. v \in Byte /\ w \in Byte => \A b \in 8 .. 15 : f[b] = 0
  <2>1. ASSUME NEW x \in Byte, NEW b \in 8 .. 15
        PROVE  Bit(x, b) = 0
    <3>1. b + 1 \in 9 .. 16 /\ x \in 0 .. 255
      BY DEF Byte
    <3>2. x \div Weight[b + 1] = 0
      BY <3>1 DEF Weight
    <3>. QED
      BY <3>2 DEF Bit
  <2>. QED
    BY <2>1
<1>. HIDE DEF f
<1>. QED
  BY <1>1, <1>2, <1>3, <1>4, OfBitsFacts, Zenon

\* A checksum under way, and what a byte makes of it (crc16_step).
Crc == [hi : Byte, lo : Byte]

LEMMA StepIsCrc ==
  ASSUME NEW crc \in Crc, NEW b \in Byte
  PROVE  crc16_step(crc, b) \in Crc
<1>. DEFINE i == Xor(crc.hi, b)
<1>1. crc.hi \in Byte /\ crc.lo \in Byte
  BY DEF Crc
<1>2. \A x \in Byte : x \in Word16
  BY WordRange DEF Byte
<1>3. i \in Byte
  BY <1>1, <1>2, XorFacts, Zenon
<1>. HIDE DEF i
<1>4. table_crc_hi[i + 1] \in Byte /\ table_crc_lo[i + 1] \in Byte
  BY <1>3, TableBytes, Zenon
<1>5. Xor(crc.lo, table_crc_hi[i + 1]) \in Byte
  BY <1>1, <1>2, <1>4, XorFacts, Zenon
<1>6. crc16_step(crc, b) = [hi |-> Xor(crc.lo, table_crc_hi[i + 1]), lo |-> table_crc_lo[i + 1]]
  BY Zenon DEF crc16_step, i
<1>. QED
  BY <1>4, <1>5, <1>6 DEF Crc

\* The checksums after 0, 1, ... bytes of a message.
Checks(msg, n, f) ==
  f = [k \in 0 .. n |-> IF k = 0 THEN [hi |-> 255, lo |-> 255]
                        ELSE crc16_step(f[k - 1], msg[k])]

LEMMA ChecksExist ==
  ASSUME NEW msg \in Seq(Byte), NEW n \in 0 .. Len(msg)
  PROVE  \E f \in [0 .. n -> Crc] : Checks(msg, n, f)
<1>. DEFINE Has(m) == \E f \in [0 .. m -> Crc] : Checks(msg, m, f)
            T == {m \in 0 .. Len(msg) : ~Has(m)}
<1>1. Len(msg) \in Nat /\ \A k \in 1 .. Len(msg) : msg[k] \in Byte
  BY ElementOfSeq
<1>2. Has(0)
  <2>. DEFINE f == [k \in 0 .. 0 |-> [hi |-> 255, lo |-> 255]]
  <2>1. f \in [0 .. 0 -> Crc]
    BY DEF Crc, Byte
  <2>2. Checks(msg, 0, f)
    BY DEF Checks
  <2>. QED
    BY <2>1, <2>2
<1>3. ASSUME NEW m \in 0 .. Len(msg) - 1, Has(m)
      PROVE  Has(m + 1)
  <2>1. PICK f \in [0 .. m -> Crc] : Checks(msg, m, f)
    BY <1>3, Zenon
  <2>. DEFINE g == [k \in 0 .. m + 1 |-> IF k <= m THEN f[k] ELSE crc16_step(f[m], msg[m + 1])]
  <2>2. crc16_step(f[m], msg[m + 1]) \in Crc
    BY <1>1, StepIsCrc
  <2>3. g \in [0 .. m + 1 -> Crc]
    BY <2>2
  <2>4. \A k \in 0 .. m : f[k] = IF k = 0 THEN [hi |-> 255, lo |-> 255]
                                 ELSE crc16_step(f[k - 1], msg[k])
    BY <2>1, Zenon DEF Checks
  <2>5. ASSUME NEW k \in 0 .. m + 1
        PROVE  g[k] = IF k = 0 THEN [hi |-> 255, lo |-> 255] ELSE crc16_step(g[k - 1], msg[k])
    <3>1. CASE k <= m
      <4>1. k \in 0 .. m /\ g[k] = f[k] /\ (k # 0 => g[k - 1] = f[k - 1])
        BY <3>1
      <4>. QED
        BY <2>4, <4>1, Zenon
    <3>2. CASE ~(k <= m)
      <4>1. k = m + 1 /\ k # 0 /\ k - 1 = m /\ g[m] = f[m] /\ g[k] = crc16_step(f[m], msg[m + 1])
        BY <3>2
      <4>. QED
        BY <4>1, Zenon
    <3>. QED
      BY <3>1, <3>2, Zenon
  <2>6. Checks(msg, m + 1, g)
    <3>1. g = [k \in 0 .. m + 1 |-> g[k]]
      OBVIOUS
    <3>. HIDE DEF g
    <3>. QED
      BY <2>5, <3>1 DEF Checks
  <2>. QED
    BY <2>3, <2>6, Zenon
<1>. HIDE DEF Has
<1>4. ASSUME ~Has(n)
      PROVE  FALSE
  <2>1. n \in T /\ T \subseteq Nat
    BY <1>4
  <2>2. PICK x \in T : \A y \in T : ~(y < x)
    BY <2>1, LeastNat, Zenon
  <2>3. x # 0
    BY <1>2, <2>2
  <2>4. x - 1 \in 0 .. Len(msg) - 1 /\ x - 1 < x /\ (x - 1) + 1 = x /\ x - 1 \in 0 .. Len(msg)
    BY <1>1, <2>2, <2>3
  <2>5. Has(x - 1)
    BY <2>2, <2>4, Zenon
  <2>6. Has(x)
    BY <1>3, <2>4, <2>5, Zenon
  <2>. QED
    BY <2>2, <2>6
<1>. QED
  BY <1>4, Zenon DEF Has

LEMMA ChecksAreBytes ==
  ASSUME NEW msg \in Seq(Byte), NEW f, Checks(msg, Len(msg), f), NEW n \in 0 .. Len(msg)
  PROVE  f[n] \in Crc
<1>1. Len(msg) \in Nat /\ \A k \in 1 .. Len(msg) : msg[k] \in Byte
  BY ElementOfSeq
<1>2. \A k \in 0 .. Len(msg) : f[k] = IF k = 0 THEN [hi |-> 255, lo |-> 255]
                                       ELSE crc16_step(f[k - 1], msg[k])
  BY Zenon DEF Checks
<1>3. ASSUME f[n] \notin Crc
      PROVE  FALSE
  <2>. DEFINE T == {m \in 0 .. Len(msg) : f[m] \notin Crc}
  <2>1. n \in T /\ T \subseteq Nat
    BY <1>3
  <2>2. PICK x \in T : \A y \in T : ~(y < x)
    BY <2>1, LeastNat, Zenon
  <2>3. [hi |-> 255, lo |-> 255] \in Crc
    BY DEF Crc, Byte
  <2>4. x # 0
    BY <1>2, <2>2, <2>3, Zenon
  <2>5. x \in 0 .. Len(msg) /\ x - 1 \in 0 .. Len(msg) /\ x - 1 < x /\ x \in 1 .. Len(msg)
    BY <1>1, <2>2, <2>4
  <2>6. f[x - 1] \in Crc
    BY <2>2, <2>5, Zenon
  <2>7. crc16_step(f[x - 1], msg[x]) \in Crc
    BY <1>1, <2>5, <2>6, StepIsCrc, Zenon
  <2>. QED
    BY <1>2, <2>2, <2>4, <2>5, <2>7, Zenon
<1>. QED
  BY <1>3, Zenon

\* A checksum is two bytes (crc16).
LEMMA CrcIsBytes ==
  ASSUME NEW msg \in Seq(Byte)
  PROVE  crc16(msg) \in Seq(Byte) /\ Len(crc16(msg)) = 2
<1>. DEFINE n == Len(msg)
            f == CHOOSE f : Checks(msg, n, f)
<1>1. n \in 0 .. n /\ n \in 0 .. Len(msg)
  BY ElementOfSeq
<1>2. Checks(msg, n, f)
  <2>1. \E g : Checks(msg, n, g)
    BY <1>1, ChecksExist, Zenon
  <2>. QED
    BY <2>1, Zenon
<1>3. crc16_of(msg) = f[n]
  BY Zenon DEF crc16_of, Checks
<1>. HIDE DEF f
<1>4. f[n] \in Crc
  BY <1>1, <1>2, ChecksAreBytes, Zenon
<1>5. crc16(msg) = <<f[n].hi, f[n].lo>>
  BY <1>3, Zenon DEF crc16
<1>6. f[n].hi \in Byte /\ f[n].lo \in Byte
  BY <1>4 DEF Crc
<1>. QED
  BY <1>5, <1>6

\* So a message that is sent is bytes (send_msg_pre).
LEMMA SentIsBytes ==
  ASSUME NEW body \in Seq(Byte)
  PROVE  send_msg_pre(body) \in Seq(Byte)
BY CrcIsBytes DEF send_msg_pre

-----------------------------------------------------------------------------
\* The tables of the library and the loop of the host

\* The sum of two bits.
Flip(x, y) == IF x = y THEN 0 ELSE 1

\* A word is a bit and the rest.
LEMMA LowestBit ==
  ASSUME NEW x \in Nat
  PROVE  x % 2 \in 0 .. 1 /\ x \div 2 \in Nat /\ x = (x % 2) + 2 * (x \div 2)
  OBVIOUS

\* Words with the same bits are the same (Bit).
LEMMA SameBits ==
  ASSUME NEW v \in Word16, NEW w \in Word16,
         \A b \in 0 .. 15 : Bit(v, b) = Bit(w, b)
  PROVE  v = w
<1>1. v \in Nat /\ v < 65536 /\ w \in Nat /\ w < 65536
  BY WordRange
<1>2. /\ v \div 65536 = 0 /\ w \div 65536 = 0
      /\ (v \div 32768) \div 2 = 0 /\ (w \div 32768) \div 2 = 0
  BY <1>1
<1>3. v \div 32768 = w \div 32768
  <2>1. (v \div 32768) % 2 = (w \div 32768) % 2
    <3>1. Bit(v, 15) = Bit(w, 15)
      OBVIOUS
    <3>. QED
      BY <3>1 DEF Bit, Weight
  <2>2. /\ v \div 32768 \in Nat /\ w \div 32768 \in Nat
        /\ (v \div 32768) \div 2 = (w \div 32768) \div 2
    BY <1>1, <1>2
  <2>. QED
    BY <2>1, <2>2, LowestBit
<1>4. v \div 16384 = w \div 16384
  <2>1. (v \div 16384) % 2 = (w \div 16384) % 2
    <3>1. Bit(v, 14) = Bit(w, 14)
      OBVIOUS
    <3>. QED
      BY <3>1 DEF Bit, Weight
  <2>2. /\ v \div 16384 \in Nat /\ w \div 16384 \in Nat
        /\ (v \div 16384) \div 2 = (w \div 16384) \div 2
    BY <1>1, <1>3
  <2>. QED
    BY <2>1, <2>2, LowestBit
<1>5. v \div 8192 = w \div 8192
  <2>1. (v \div 8192) % 2 = (w \div 8192) % 2
    <3>1. Bit(v, 13) = Bit(w, 13)
      OBVIOUS
    <3>. QED
      BY <3>1 DEF Bit, Weight
  <2>2. /\ v \div 8192 \in Nat /\ w \div 8192 \in Nat
        /\ (v \div 8192) \div 2 = (w \div 8192) \div 2
    BY <1>1, <1>4
  <2>. QED
    BY <2>1, <2>2, LowestBit
<1>6. v \div 4096 = w \div 4096
  <2>1. (v \div 4096) % 2 = (w \div 4096) % 2
    <3>1. Bit(v, 12) = Bit(w, 12)
      OBVIOUS
    <3>. QED
      BY <3>1 DEF Bit, Weight
  <2>2. /\ v \div 4096 \in Nat /\ w \div 4096 \in Nat
        /\ (v \div 4096) \div 2 = (w \div 4096) \div 2
    BY <1>1, <1>5
  <2>. QED
    BY <2>1, <2>2, LowestBit
<1>7. v \div 2048 = w \div 2048
  <2>1. (v \div 2048) % 2 = (w \div 2048) % 2
    <3>1. Bit(v, 11) = Bit(w, 11)
      OBVIOUS
    <3>. QED
      BY <3>1 DEF Bit, Weight
  <2>2. /\ v \div 2048 \in Nat /\ w \div 2048 \in Nat
        /\ (v \div 2048) \div 2 = (w \div 2048) \div 2
    BY <1>1, <1>6
  <2>. QED
    BY <2>1, <2>2, LowestBit
<1>8. v \div 1024 = w \div 1024
  <2>1. (v \div 1024) % 2 = (w \div 1024) % 2
    <3>1. Bit(v, 10) = Bit(w, 10)
      OBVIOUS
    <3>. QED
      BY <3>1 DEF Bit, Weight
  <2>2. /\ v \div 1024 \in Nat /\ w \div 1024 \in Nat
        /\ (v \div 1024) \div 2 = (w \div 1024) \div 2
    BY <1>1, <1>7
  <2>. QED
    BY <2>1, <2>2, LowestBit
<1>9. v \div 512 = w \div 512
  <2>1. (v \div 512) % 2 = (w \div 512) % 2
    <3>1. Bit(v, 9) = Bit(w, 9)
      OBVIOUS
    <3>. QED
      BY <3>1 DEF Bit, Weight
  <2>2. /\ v \div 512 \in Nat /\ w \div 512 \in Nat
        /\ (v \div 512) \div 2 = (w \div 512) \div 2
    BY <1>1, <1>8
  <2>. QED
    BY <2>1, <2>2, LowestBit
<1>10. v \div 256 = w \div 256
  <2>1. (v \div 256) % 2 = (w \div 256) % 2
    <3>1. Bit(v, 8) = Bit(w, 8)
      OBVIOUS
    <3>. QED
      BY <3>1 DEF Bit, Weight
  <2>2. /\ v \div 256 \in Nat /\ w \div 256 \in Nat
        /\ (v \div 256) \div 2 = (w \div 256) \div 2
    BY <1>1, <1>9
  <2>. QED
    BY <2>1, <2>2, LowestBit
<1>11. v \div 128 = w \div 128
  <2>1. (v \div 128) % 2 = (w \div 128) % 2
    <3>1. Bit(v, 7) = Bit(w, 7)
      OBVIOUS
    <3>. QED
      BY <3>1 DEF Bit, Weight
  <2>2. /\ v \div 128 \in Nat /\ w \div 128 \in Nat
        /\ (v \div 128) \div 2 = (w \div 128) \div 2
    BY <1>1, <1>10
  <2>. QED
    BY <2>1, <2>2, LowestBit
<1>12. v \div 64 = w \div 64
  <2>1. (v \div 64) % 2 = (w \div 64) % 2
    <3>1. Bit(v, 6) = Bit(w, 6)
      OBVIOUS
    <3>. QED
      BY <3>1 DEF Bit, Weight
  <2>2. /\ v \div 64 \in Nat /\ w \div 64 \in Nat
        /\ (v \div 64) \div 2 = (w \div 64) \div 2
    BY <1>1, <1>11
  <2>. QED
    BY <2>1, <2>2, LowestBit
<1>13. v \div 32 = w \div 32
  <2>1. (v \div 32) % 2 = (w \div 32) % 2
    <3>1. Bit(v, 5) = Bit(w, 5)
      OBVIOUS
    <3>. QED
      BY <3>1 DEF Bit, Weight
  <2>2. /\ v \div 32 \in Nat /\ w \div 32 \in Nat
        /\ (v \div 32) \div 2 = (w \div 32) \div 2
    BY <1>1, <1>12
  <2>. QED
    BY <2>1, <2>2, LowestBit
<1>14. v \div 16 = w \div 16
  <2>1. (v \div 16) % 2 = (w \div 16) % 2
    <3>1. Bit(v, 4) = Bit(w, 4)
      OBVIOUS
    <3>. QED
      BY <3>1 DEF Bit, Weight
  <2>2. /\ v \div 16 \in Nat /\ w \div 16 \in Nat
        /\ (v \div 16) \div 2 = (w \div 16) \div 2
    BY <1>1, <1>13
  <2>. QED
    BY <2>1, <2>2, LowestBit
<1>15. v \div 8 = w \div 8
  <2>1. (v \div 8) % 2 = (w \div 8) % 2
    <3>1. Bit(v, 3) = Bit(w, 3)
      OBVIOUS
    <3>. QED
      BY <3>1 DEF Bit, Weight
  <2>2. /\ v \div 8 \in Nat /\ w \div 8 \in Nat
        /\ (v \div 8) \div 2 = (w \div 8) \div 2
    BY <1>1, <1>14
  <2>. QED
    BY <2>1, <2>2, LowestBit
<1>16. v \div 4 = w \div 4
  <2>1. (v \div 4) % 2 = (w \div 4) % 2
    <3>1. Bit(v, 2) = Bit(w, 2)
      OBVIOUS
    <3>. QED
      BY <3>1 DEF Bit, Weight
  <2>2. /\ v \div 4 \in Nat /\ w \div 4 \in Nat
        /\ (v \div 4) \div 2 = (w \div 4) \div 2
    BY <1>1, <1>15
  <2>. QED
    BY <2>1, <2>2, LowestBit
<1>17. v \div 2 = w \div 2
  <2>1. (v \div 2) % 2 = (w \div 2) % 2
    <3>1. Bit(v, 1) = Bit(w, 1)
      OBVIOUS
    <3>. QED
      BY <3>1 DEF Bit, Weight
  <2>2. /\ v \div 2 \in Nat /\ w \div 2 \in Nat
        /\ (v \div 2) \div 2 = (w \div 2) \div 2
    BY <1>1, <1>16
  <2>. QED
    BY <2>1, <2>2, LowestBit
<1>18. v \div 1 = w \div 1
  <2>1. (v \div 1) % 2 = (w \div 1) % 2
    <3>1. Bit(v, 0) = Bit(w, 0)
      OBVIOUS
    <3>. QED
      BY <3>1 DEF Bit, Weight
  <2>2. /\ v \div 1 \in Nat /\ w \div 1 \in Nat
        /\ (v \div 1) \div 2 = (w \div 1) \div 2
    BY <1>1, <1>17
  <2>. QED
    BY <2>1, <2>2, LowestBit
<1>. QED
  BY <1>1, <1>18

\* The bits of a word of two bytes, and of a byte (Bit).
LEMMA BitsOfBytes ==
  ASSUME NEW h \in Byte, NEW l \in Byte
  PROVE  /\ \A b \in 0 .. 7 : Bit(256 * h + l, b) = Bit(l, b)
         /\ \A b \in 8 .. 15 : Bit(256 * h + l, b) = Bit(h, b - 8)
         /\ \A b \in 8 .. 15 : Bit(l, b) = 0
<1>. DEFINE w == 256 * h + l
<1>1. h \in Nat /\ l \in Nat /\ l < 256 /\ w \in Nat /\ w = 256 * h + l
  BY DEF Byte
<1>2. (w \div 1) % 2 = (l \div 1) % 2
  BY <1>1
<1>3. (w \div 2) % 2 = (l \div 2) % 2
  BY <1>1
<1>4. (w \div 4) % 2 = (l \div 4) % 2
  BY <1>1
<1>5. (w \div 8) % 2 = (l \div 8) % 2
  BY <1>1
<1>6. (w \div 16) % 2 = (l \div 16) % 2
  BY <1>1
<1>7. (w \div 32) % 2 = (l \div 32) % 2
  BY <1>1
<1>8. (w \div 64) % 2 = (l \div 64) % 2
  BY <1>1
<1>9. (w \div 128) % 2 = (l \div 128) % 2
  BY <1>1
<1>10. w \div 256 = h \div 1 /\ l \div 256 = 0
  BY <1>1
<1>11. w \div 512 = h \div 2 /\ l \div 512 = 0
  BY <1>1
<1>12. w \div 1024 = h \div 4 /\ l \div 1024 = 0
  BY <1>1
<1>13. w \div 2048 = h \div 8 /\ l \div 2048 = 0
  BY <1>1
<1>14. w \div 4096 = h \div 16 /\ l \div 4096 = 0
  BY <1>1
<1>15. w \div 8192 = h \div 32 /\ l \div 8192 = 0
  BY <1>1
<1>16. w \div 16384 = h \div 64 /\ l \div 16384 = 0
  BY <1>1
<1>17. w \div 32768 = h \div 128 /\ l \div 32768 = 0
  BY <1>1
<1>. HIDE DEF w
<1>18. \A b \in 0 .. 7 : Bit(w, b) = Bit(l, b)
  BY <1>2, <1>3, <1>4, <1>5, <1>6, <1>7, <1>8, <1>9 DEF Bit, Weight
<1>19. \A b \in 8 .. 15 : Bit(w, b) = Bit(h, b - 8)
  BY <1>10, <1>11, <1>12, <1>13, <1>14, <1>15, <1>16, <1>17 DEF Bit, Weight
<1>20. \A b \in 8 .. 15 : Bit(l, b) = 0
  BY <1>10, <1>11, <1>12, <1>13, <1>14, <1>15, <1>16, <1>17 DEF Bit, Weight
<1>. QED
  BY <1>18, <1>19, <1>20 DEF w

LEMMA BitIsBit ==
  ASSUME NEW w \in Word16, NEW b \in 0 .. 15
  PROVE  Bit(w, b) \in 0 .. 1
<1>1. w \in Nat
  BY WordRange
<1>2. b + 1 \in 1 .. 16
  OBVIOUS
<1>3. w \div Weight[b + 1] \in Nat
  BY <1>1, <1>2, Shifts
<1>. QED
  BY <1>3, LowestBit, Zenon DEF Bit

\* The bits of POLY: the first, the fourteenth and the last.
LEMMA PolyBits ==
  /\ POLY \in Word16
  /\ \A b \in 0 .. 15 : Bit(POLY, b) = IF b \in {0, 13, 15} THEN 1 ELSE 0
<1>1. POLY \in Word16
  BY WordRange DEF POLY
<1>2. \A b \in 0 .. 15 : Bit(POLY, b) = IF b \in {0, 13, 15} THEN 1 ELSE 0
  BY DEF POLY, Bit, Weight
<1>. QED
  BY <1>1, <1>2

\* One bit of the host's loop moves all bits down by one and sends the lowest one
\* to three places (crc_bit).
LEMMA CrcBit ==
  ASSUME NEW v \in Word16
  PROVE  /\ crc_bit(v) \in Word16
         /\ \A b \in 0 .. 15 :
              Bit(crc_bit(v), b) =
                IF b = 15 THEN Bit(v, 0)
                ELSE IF b \in {0, 13} THEN Flip(Bit(v, b + 1), Bit(v, 0))
                ELSE Bit(v, b + 1)
<1>. DEFINE u == v \div 2
<1>1. v \in Nat /\ v < 65536 /\ u \in Nat /\ u < 32768
  BY WordRange
<1>2. u \in Word16
  BY <1>1, WordRange
<1>3. ASSUME NEW b \in 0 .. 14
      PROVE  Bit(u, b) = Bit(v, b + 1)
  <2>1. u \div 1 = v \div 2
    BY <1>1
  <2>2. u \div 2 = v \div 4
    BY <1>1
  <2>3. u \div 4 = v \div 8
    BY <1>1
  <2>4. u \div 8 = v \div 16
    BY <1>1
  <2>5. u \div 16 = v \div 32
    BY <1>1
  <2>6. u \div 32 = v \div 64
    BY <1>1
  <2>7. u \div 64 = v \div 128
    BY <1>1
  <2>8. u \div 128 = v \div 256
    BY <1>1
  <2>9. u \div 256 = v \div 512
    BY <1>1
  <2>10. u \div 512 = v \div 1024
    BY <1>1
  <2>11. u \div 1024 = v \div 2048
    BY <1>1
  <2>12. u \div 2048 = v \div 4096
    BY <1>1
  <2>13. u \div 4096 = v \div 8192
    BY <1>1
  <2>14. u \div 8192 = v \div 16384
    BY <1>1
  <2>15. u \div 16384 = v \div 32768
    BY <1>1
  <2>. HIDE DEF u
  <2>. QED
    BY <2>1, <2>2, <2>3, <2>4, <2>5, <2>6, <2>7, <2>8, <2>9, <2>10, <2>11, <2>12, <2>13, <2>14, <2>15 DEF Bit, Weight
<1>4. Bit(u, 15) = 0
  <2>1. u \div 32768 = 0
    BY <1>1
  <2>. QED
    BY <2>1 DEF Bit, Weight
<1>5. Bit(v, 0) = v % 2
  BY <1>1 DEF Bit, Weight
<1>6. v % 2 \in 0 .. 1
  BY <1>1
<1>7. \A b \in 0 .. 15 : Bit(v, b) \in 0 .. 1
  BY BitIsBit, Zenon
<1>. HIDE DEF u
<1>8. CASE v % 2 = 1
  <2>1. crc_bit(v) = Xor(u, POLY)
    BY <1>8 DEF crc_bit, u
  <2>2. /\ crc_bit(v) \in Word16
        /\ \A b \in 0 .. 15 : Bit(crc_bit(v), b) = IF Bit(u, b) = Bit(POLY, b) THEN 0 ELSE 1
    <3>1. /\ Xor(u, POLY) \in Word16
          /\ \A b \in 0 .. 15 : Bit(Xor(u, POLY), b) = IF Bit(u, b) = Bit(POLY, b) THEN 0 ELSE 1
      <4>1. u \in Word16 /\ POLY \in Word16
        BY <1>2, PolyBits, Zenon
      <4>. QED
        BY <4>1, XorFacts, Zenon
    <3>. QED
      BY <2>1, <3>1, Zenon
  <2>3. ASSUME NEW b \in 0 .. 15
        PROVE  Bit(crc_bit(v), b) =
                 IF b = 15 THEN Bit(v, 0)
                 ELSE IF b \in {0, 13} THEN Flip(Bit(v, b + 1), Bit(v, 0))
                 ELSE Bit(v, b + 1)
    <3>1. CASE b = 15
      BY <3>1, <2>2, <1>4, <1>5, <1>8, PolyBits
    <3>2. CASE b \in {0, 13}
      BY <3>2, <2>2, <1>3, <1>5, <1>8, PolyBits DEF Flip
    <3>3. CASE b \notin {0, 13, 15}
      <4>1. b \in 0 .. 14 /\ Bit(POLY, b) = 0 /\ Bit(v, b + 1) \in 0 .. 1
        BY <3>3, <1>7, PolyBits
      <4>2. Bit(crc_bit(v), b) = IF Bit(v, b + 1) = 0 THEN 0 ELSE 1
        BY <4>1, <2>2, <1>3, Zenon
      <4>. QED
        BY <3>3, <4>1, <4>2
    <3>. QED
      BY <3>1, <3>2, <3>3
  <2>. QED
    BY <2>2, <2>3
<1>9. CASE v % 2 = 0
  <2>1. crc_bit(v) = u
    BY <1>9 DEF crc_bit, u
  <2>2. ASSUME NEW b \in 0 .. 15
        PROVE  Bit(u, b) =
                 IF b = 15 THEN Bit(v, 0)
                 ELSE IF b \in {0, 13} THEN Flip(Bit(v, b + 1), Bit(v, 0))
                 ELSE Bit(v, b + 1)
    <3>1. CASE b = 15
      BY <3>1, <1>4, <1>5, <1>9
    <3>2. CASE b # 15
      <4>1. b \in 0 .. 14 /\ Bit(v, b + 1) \in 0 .. 1 /\ Bit(u, b) = Bit(v, b + 1)
        BY <3>2, <1>3, <1>7
      <4>2. Flip(Bit(v, b + 1), Bit(v, 0)) = Bit(v, b + 1)
        BY <4>1, <1>5, <1>9 DEF Flip
      <4>. QED
        BY <3>2, <4>1, <4>2, Zenon
    <3>. QED
      BY <3>1, <3>2
  <2>. QED
    BY <1>2, <2>1, <2>2
<1>. QED
  BY <1>6, <1>8, <1>9

\* The bits that leave a word of the host's loop in its eight rounds: the sums
\* of its first bits.
Left(v) ==
  LET o0 == Bit(v, 0)
      o1 == Flip(Bit(v, 1), o0)
      o2 == Flip(Bit(v, 2), o1)
      o3 == Flip(Bit(v, 3), o2)
      o4 == Flip(Bit(v, 4), o3)
      o5 == Flip(Bit(v, 5), o4)
      o6 == Flip(Bit(v, 6), o5)
      o7 == Flip(Bit(v, 7), o6)
  IN  <<o0, o1, o2, o3, o4, o5, o6, o7>>

\* Eight rounds move the upper byte down and put in its place, and in three places
\* of the lower one, what has left (crc_byte).
LEMMA CrcByte ==
  ASSUME NEW v \in Word16
  PROVE  LET w == crc_byte[v]
             o == Left(v)
         IN  /\ w \in Word16
             /\ Bit(w, 0) = Flip(Bit(v, 8), o[8])
             /\ \A b \in 1 .. 5 : Bit(w, b) = Bit(v, b + 8)
             /\ Bit(w, 6) = Flip(Bit(v, 14), o[1])
             /\ Bit(w, 7) = Flip(Bit(v, 15), o[2])
             /\ \A b \in 8 .. 13 : Bit(w, b) = Flip(o[b - 7], o[b - 5])
             /\ Bit(w, 14) = o[7]
             /\ Bit(w, 15) = o[8]
<1>. DEFINE v1 == crc_bit(v)
            v2 == crc_bit(v1)
            v3 == crc_bit(v2)
            v4 == crc_bit(v3)
            v5 == crc_bit(v4)
            v6 == crc_bit(v5)
            v7 == crc_bit(v6)
            v8 == crc_bit(v7)
            o0 == Bit(v, 0)
            o1 == Flip(Bit(v, 1), o0)
            o2 == Flip(Bit(v, 2), o1)
            o3 == Flip(Bit(v, 3), o2)
            o4 == Flip(Bit(v, 4), o3)
            o5 == Flip(Bit(v, 5), o4)
            o6 == Flip(Bit(v, 6), o5)
            o7 == Flip(Bit(v, 7), o6)
            after == [j \in 0 .. 8 |->
                        <<v, v1, v2, v3, v4, v5, v6, v7, v8>>[j + 1]]
<1>1. crc_byte[v] = v8
  <2>. DEFINE Rounds(f) == f = [j \in 0 .. 8 |-> IF j = 0 THEN v ELSE crc_bit(f[j - 1])]
              f == CHOOSE f : Rounds(f)
  <2>1. Rounds(after)
    <3>1. \A j \in 0 .. 8 : after[j] = IF j = 0 THEN v ELSE crc_bit(after[j - 1])
      OBVIOUS
    <3>2. after = [j \in 0 .. 8 |-> after[j]]
      OBVIOUS
    <3>. HIDE DEF after
    <3>. QED
      BY <3>1, <3>2
  <2>. HIDE DEF after
  <2>2. Rounds(f)
    BY <2>1, Zenon
  <2>3. crc_byte[v] = f[8]
    BY Zenon DEF crc_byte
  <2>. HIDE DEF f
  <2>4. f[0] = v /\ \A j \in 1 .. 8 : f[j] = crc_bit(f[j - 1])
    BY <2>2
  <2>5. f[1] = v1 /\ f[2] = v2 /\ f[3] = v3 /\ f[4] = v4
    BY <2>4
  <2>. HIDE DEF v4
  <2>6. f[5] = v5 /\ f[6] = v6 /\ f[7] = v7 /\ f[8] = v8
    BY <2>4, <2>5
  <2>. QED
    BY <2>3, <2>6
<1>. HIDE DEF after
<1>2. /\ v1 \in Word16
      /\ Bit(v1, 0) = o1
      /\ Bit(v1, 1) = Bit(v, 2)
      /\ Bit(v1, 2) = Bit(v, 3)
      /\ Bit(v1, 3) = Bit(v, 4)
      /\ Bit(v1, 4) = Bit(v, 5)
      /\ Bit(v1, 5) = Bit(v, 6)
      /\ Bit(v1, 6) = Bit(v, 7)
      /\ Bit(v1, 7) = Bit(v, 8)
      /\ Bit(v1, 8) = Bit(v, 9)
      /\ Bit(v1, 9) = Bit(v, 10)
      /\ Bit(v1, 10) = Bit(v, 11)
      /\ Bit(v1, 11) = Bit(v, 12)
      /\ Bit(v1, 12) = Bit(v, 13)
      /\ Bit(v1, 13) = Flip(Bit(v, 14), o0)
      /\ Bit(v1, 14) = Bit(v, 15)
      /\ Bit(v1, 15) = o0
  <2>1. /\ v1 \in Word16
        /\ \A b \in 0 .. 15 :
             Bit(v1, b) =
               IF b = 15 THEN Bit(v, 0)
               ELSE IF b \in {0, 13} THEN Flip(Bit(v, b + 1), Bit(v, 0))
               ELSE Bit(v, b + 1)
    BY CrcBit, Zenon
  <2>. HIDE DEF v1
  <2>. QED
    BY <2>1
<1>. HIDE DEF v1
<1>3. /\ v2 \in Word16
      /\ Bit(v2, 0) = o2
      /\ Bit(v2, 1) = Bit(v, 3)
      /\ Bit(v2, 2) = Bit(v, 4)
      /\ Bit(v2, 3) = Bit(v, 5)
      /\ Bit(v2, 4) = Bit(v, 6)
      /\ Bit(v2, 5) = Bit(v, 7)
      /\ Bit(v2, 6) = Bit(v, 8)
      /\ Bit(v2, 7) = Bit(v, 9)
      /\ Bit(v2, 8) = Bit(v, 10)
      /\ Bit(v2, 9) = Bit(v, 11)
      /\ Bit(v2, 10) = Bit(v, 12)
      /\ Bit(v2, 11) = Bit(v, 13)
      /\ Bit(v2, 12) = Flip(Bit(v, 14), o0)
      /\ Bit(v2, 13) = Flip(Bit(v, 15), o1)
      /\ Bit(v2, 14) = o0
      /\ Bit(v2, 15) = o1
  <2>1. /\ v2 \in Word16
        /\ \A b \in 0 .. 15 :
             Bit(v2, b) =
               IF b = 15 THEN Bit(v1, 0)
               ELSE IF b \in {0, 13} THEN Flip(Bit(v1, b + 1), Bit(v1, 0))
               ELSE Bit(v1, b + 1)
    BY <1>2, CrcBit, Zenon
  <2>. HIDE DEF v2
  <2>. QED
    BY <2>1, <1>2
<1>. HIDE DEF v2
<1>4. /\ v3 \in Word16
      /\ Bit(v3, 0) = o3
      /\ Bit(v3, 1) = Bit(v, 4)
      /\ Bit(v3, 2) = Bit(v, 5)
      /\ Bit(v3, 3) = Bit(v, 6)
      /\ Bit(v3, 4) = Bit(v, 7)
      /\ Bit(v3, 5) = Bit(v, 8)
      /\ Bit(v3, 6) = Bit(v, 9)
      /\ Bit(v3, 7) = Bit(v, 10)
      /\ Bit(v3, 8) = Bit(v, 11)
      /\ Bit(v3, 9) = Bit(v, 12)
      /\ Bit(v3, 10) = Bit(v, 13)
      /\ Bit(v3, 11) = Flip(Bit(v, 14), o0)
      /\ Bit(v3, 12) = Flip(Bit(v, 15), o1)
      /\ Bit(v3, 13) = Flip(o0, o2)
      /\ Bit(v3, 14) = o1
      /\ Bit(v3, 15) = o2
  <2>1. /\ v3 \in Word16
        /\ \A b \in 0 .. 15 :
             Bit(v3, b) =
               IF b = 15 THEN Bit(v2, 0)
               ELSE IF b \in {0, 13} THEN Flip(Bit(v2, b + 1), Bit(v2, 0))
               ELSE Bit(v2, b + 1)
    BY <1>3, CrcBit, Zenon
  <2>. HIDE DEF v3
  <2>. QED
    BY <2>1, <1>3
<1>. HIDE DEF v3
<1>5. /\ v4 \in Word16
      /\ Bit(v4, 0) = o4
      /\ Bit(v4, 1) = Bit(v, 5)
      /\ Bit(v4, 2) = Bit(v, 6)
      /\ Bit(v4, 3) = Bit(v, 7)
      /\ Bit(v4, 4) = Bit(v, 8)
      /\ Bit(v4, 5) = Bit(v, 9)
      /\ Bit(v4, 6) = Bit(v, 10)
      /\ Bit(v4, 7) = Bit(v, 11)
      /\ Bit(v4, 8) = Bit(v, 12)
      /\ Bit(v4, 9) = Bit(v, 13)
      /\ Bit(v4, 10) = Flip(Bit(v, 14), o0)
      /\ Bit(v4, 11) = Flip(Bit(v, 15), o1)
      /\ Bit(v4, 12) = Flip(o0, o2)
      /\ Bit(v4, 13) = Flip(o1, o3)
      /\ Bit(v4, 14) = o2
      /\ Bit(v4, 15) = o3
  <2>1. /\ v4 \in Word16
        /\ \A b \in 0 .. 15 :
             Bit(v4, b) =
               IF b = 15 THEN Bit(v3, 0)
               ELSE IF b \in {0, 13} THEN Flip(Bit(v3, b + 1), Bit(v3, 0))
               ELSE Bit(v3, b + 1)
    BY <1>4, CrcBit, Zenon
  <2>. HIDE DEF v4
  <2>. QED
    BY <2>1, <1>4
<1>. HIDE DEF v4
<1>6. /\ v5 \in Word16
      /\ Bit(v5, 0) = o5
      /\ Bit(v5, 1) = Bit(v, 6)
      /\ Bit(v5, 2) = Bit(v, 7)
      /\ Bit(v5, 3) = Bit(v, 8)
      /\ Bit(v5, 4) = Bit(v, 9)
      /\ Bit(v5, 5) = Bit(v, 10)
      /\ Bit(v5, 6) = Bit(v, 11)
      /\ Bit(v5, 7) = Bit(v, 12)
      /\ Bit(v5, 8) = Bit(v, 13)
      /\ Bit(v5, 9) = Flip(Bit(v, 14), o0)
      /\ Bit(v5, 10) = Flip(Bit(v, 15), o1)
      /\ Bit(v5, 11) = Flip(o0, o2)
      /\ Bit(v5, 12) = Flip(o1, o3)
      /\ Bit(v5, 13) = Flip(o2, o4)
      /\ Bit(v5, 14) = o3
      /\ Bit(v5, 15) = o4
  <2>1. /\ v5 \in Word16
        /\ \A b \in 0 .. 15 :
             Bit(v5, b) =
               IF b = 15 THEN Bit(v4, 0)
               ELSE IF b \in {0, 13} THEN Flip(Bit(v4, b + 1), Bit(v4, 0))
               ELSE Bit(v4, b + 1)
    BY <1>5, CrcBit, Zenon
  <2>. HIDE DEF v5
  <2>. QED
    BY <2>1, <1>5
<1>. HIDE DEF v5
<1>7. /\ v6 \in Word16
      /\ Bit(v6, 0) = o6
      /\ Bit(v6, 1) = Bit(v, 7)
      /\ Bit(v6, 2) = Bit(v, 8)
      /\ Bit(v6, 3) = Bit(v, 9)
      /\ Bit(v6, 4) = Bit(v, 10)
      /\ Bit(v6, 5) = Bit(v, 11)
      /\ Bit(v6, 6) = Bit(v, 12)
      /\ Bit(v6, 7) = Bit(v, 13)
      /\ Bit(v6, 8) = Flip(Bit(v, 14), o0)
      /\ Bit(v6, 9) = Flip(Bit(v, 15), o1)
      /\ Bit(v6, 10) = Flip(o0, o2)
      /\ Bit(v6, 11) = Flip(o1, o3)
      /\ Bit(v6, 12) = Flip(o2, o4)
      /\ Bit(v6, 13) = Flip(o3, o5)
      /\ Bit(v6, 14) = o4
      /\ Bit(v6, 15) = o5
  <2>1. /\ v6 \in Word16
        /\ \A b \in 0 .. 15 :
             Bit(v6, b) =
               IF b = 15 THEN Bit(v5, 0)
               ELSE IF b \in {0, 13} THEN Flip(Bit(v5, b + 1), Bit(v5, 0))
               ELSE Bit(v5, b + 1)
    BY <1>6, CrcBit, Zenon
  <2>. HIDE DEF v6
  <2>. QED
    BY <2>1, <1>6
<1>. HIDE DEF v6
<1>8. /\ v7 \in Word16
      /\ Bit(v7, 0) = o7
      /\ Bit(v7, 1) = Bit(v, 8)
      /\ Bit(v7, 2) = Bit(v, 9)
      /\ Bit(v7, 3) = Bit(v, 10)
      /\ Bit(v7, 4) = Bit(v, 11)
      /\ Bit(v7, 5) = Bit(v, 12)
      /\ Bit(v7, 6) = Bit(v, 13)
      /\ Bit(v7, 7) = Flip(Bit(v, 14), o0)
      /\ Bit(v7, 8) = Flip(Bit(v, 15), o1)
      /\ Bit(v7, 9) = Flip(o0, o2)
      /\ Bit(v7, 10) = Flip(o1, o3)
      /\ Bit(v7, 11) = Flip(o2, o4)
      /\ Bit(v7, 12) = Flip(o3, o5)
      /\ Bit(v7, 13) = Flip(o4, o6)
      /\ Bit(v7, 14) = o5
      /\ Bit(v7, 15) = o6
  <2>1. /\ v7 \in Word16
        /\ \A b \in 0 .. 15 :
             Bit(v7, b) =
               IF b = 15 THEN Bit(v6, 0)
               ELSE IF b \in {0, 13} THEN Flip(Bit(v6, b + 1), Bit(v6, 0))
               ELSE Bit(v6, b + 1)
    BY <1>7, CrcBit, Zenon
  <2>. HIDE DEF v7
  <2>. QED
    BY <2>1, <1>7
<1>. HIDE DEF v7
<1>9. /\ v8 \in Word16
      /\ Bit(v8, 0) = Flip(Bit(v, 8), o7)
      /\ Bit(v8, 1) = Bit(v, 9)
      /\ Bit(v8, 2) = Bit(v, 10)
      /\ Bit(v8, 3) = Bit(v, 11)
      /\ Bit(v8, 4) = Bit(v, 12)
      /\ Bit(v8, 5) = Bit(v, 13)
      /\ Bit(v8, 6) = Flip(Bit(v, 14), o0)
      /\ Bit(v8, 7) = Flip(Bit(v, 15), o1)
      /\ Bit(v8, 8) = Flip(o0, o2)
      /\ Bit(v8, 9) = Flip(o1, o3)
      /\ Bit(v8, 10) = Flip(o2, o4)
      /\ Bit(v8, 11) = Flip(o3, o5)
      /\ Bit(v8, 12) = Flip(o4, o6)
      /\ Bit(v8, 13) = Flip(o5, o7)
      /\ Bit(v8, 14) = o6
      /\ Bit(v8, 15) = o7
  <2>1. /\ v8 \in Word16
        /\ \A b \in 0 .. 15 :
             Bit(v8, b) =
               IF b = 15 THEN Bit(v7, 0)
               ELSE IF b \in {0, 13} THEN Flip(Bit(v7, b + 1), Bit(v7, 0))
               ELSE Bit(v7, b + 1)
    BY <1>8, CrcBit, Zenon
  <2>. HIDE DEF v8
  <2>. QED
    BY <2>1, <1>8
<1>. HIDE DEF v8
<1>10. Left(v) = <<o0, o1, o2, o3, o4, o5, o6, o7>>
  BY Zenon DEF Left
<1>. HIDE DEF o0, o1, o2, o3, o4, o5, o6, o7
<1>. QED
  BY <1>1, <1>9, <1>10

\* What the tables hold for a byte: what its eight rounds send to the lower and to the
\* upper byte (table_crc_hi, table_crc_lo).
LEMMA TableBits ==
  ASSUME NEW i \in Byte
  PROVE  LET hi == table_crc_hi[i + 1]
             lo == table_crc_lo[i + 1]
             o == Left(i)
         IN  /\ Bit(hi, 0) = o[8] /\ Bit(hi, 6) = o[1] /\ Bit(hi, 7) = o[2]
             /\ \A b \in 1 .. 5 : Bit(hi, b) = 0
             /\ \A b \in 0 .. 5 : Bit(lo, b) = Flip(o[b + 1], o[b + 3])
             /\ Bit(lo, 6) = o[7] /\ Bit(lo, 7) = o[8]
  BY SMTT(60) DEF Byte, Left, Flip, Bit, Weight, table_crc_hi, table_crc_lo

\* The word of the host that a checksum of the library stands for.
WordOf(crc) == 256 * crc.lo + crc.hi

\* The bits of two bytes in a word, and of a byte.
Halved(h, l) ==
  /\ \A b \in 0 .. 7 : Bit(256 * h + l, b) = Bit(l, b)
  /\ \A b \in 8 .. 15 : Bit(256 * h + l, b) = Bit(h, b - 8)
  /\ \A b \in 8 .. 15 : Bit(l, b) = 0

LEMMA HalvedBytes == \A h, l \in Byte : Halved(h, l)
<1>. SUFFICES ASSUME NEW h \in Byte, NEW l \in Byte
              PROVE  Halved(h, l)
  BY Zenon
<1>. QED
  BY BitsOfBytes, Zenon DEF Halved

\* A byte makes the same of both (crc16_step, crc_byte).
LEMMA SameStep ==
  ASSUME NEW crc \in Crc, NEW byte \in Byte
  PROVE  /\ WordOf(crc) \in Word16
         /\ Xor(WordOf(crc), byte) \in Word16
         /\ crc_byte[Xor(WordOf(crc), byte)] = WordOf(crc16_step(crc, byte))
<1>. DEFINE hi == crc.hi
            lo == crc.lo
            i == Xor(hi, byte)
            v == Xor(256 * lo + hi, byte)
            th == table_crc_hi[i + 1]
            tl == table_crc_lo[i + 1]
            nh == Xor(lo, th)
            w == crc_byte[v]
            o == Left(v)
<1>1. hi \in Byte /\ lo \in Byte
  BY DEF Crc
<1>2. \A x \in Byte : x \in Word16
  BY WordRange DEF Byte
<1>3. 256 * lo + hi \in Word16
  BY <1>1, WordOfBytes
<1>4. /\ i \in Byte
      /\ \A b \in 0 .. 15 : Bit(i, b) = IF Bit(hi, b) = Bit(byte, b) THEN 0 ELSE 1
  BY <1>1, <1>2, XorFacts, Zenon
<1>5. /\ v \in Word16
      /\ \A b \in 0 .. 15 :
           Bit(v, b) = IF Bit(256 * lo + hi, b) = Bit(byte, b) THEN 0 ELSE 1
  <2>. DEFINE x == 256 * lo + hi
  <2>1. x \in Word16 /\ byte \in Word16
    BY <1>2, <1>3
  <2>. HIDE DEF x
  <2>2. /\ Xor(x, byte) \in Word16
        /\ \A b \in 0 .. 15 : Bit(Xor(x, byte), b) = IF Bit(x, b) = Bit(byte, b) THEN 0 ELSE 1
    BY <2>1, XorFacts, Zenon
  <2>. QED
    BY <2>2 DEF x
<1>6. th \in Byte /\ tl \in Byte
  BY <1>4, TableBytes, Zenon
<1>7. /\ nh \in Byte
      /\ \A b \in 0 .. 15 : Bit(nh, b) = IF Bit(lo, b) = Bit(th, b) THEN 0 ELSE 1
  BY <1>1, <1>2, <1>6, XorFacts, Zenon
<1>8. WordOf(crc) = 256 * lo + hi /\ WordOf(crc16_step(crc, byte)) = 256 * tl + nh
  BY DEF WordOf, crc16_step
<1>9. /\ \A b \in 0 .. 7 : Bit(256 * lo + hi, b) = Bit(hi, b)
      /\ \A b \in 8 .. 15 : Bit(256 * lo + hi, b) = Bit(lo, b - 8)
      /\ \A b \in 8 .. 15 : Bit(byte, b) = 0
  <2>1. Halved(lo, hi) /\ Halved(byte, byte)
    BY <1>1, HalvedBytes, Zenon
  <2>. QED
    BY <2>1, Zenon DEF Halved
<1>10. /\ \A b \in 0 .. 7 : Bit(256 * tl + nh, b) = Bit(nh, b)
       /\ \A b \in 8 .. 15 : Bit(256 * tl + nh, b) = Bit(tl, b - 8)
  <2>1. Halved(tl, nh)
    BY <1>6, <1>7, HalvedBytes, Zenon
  <2>. QED
    BY <2>1, Zenon DEF Halved
<1>11. 256 * tl + nh \in Word16
  BY <1>6, <1>7, WordOfBytes
<1>12. /\ w \in Word16
       /\ Bit(w, 0) = Flip(Bit(v, 8), o[8])
       /\ \A b \in 1 .. 5 : Bit(w, b) = Bit(v, b + 8)
       /\ Bit(w, 6) = Flip(Bit(v, 14), o[1])
       /\ Bit(w, 7) = Flip(Bit(v, 15), o[2])
       /\ \A b \in 8 .. 13 : Bit(w, b) = Flip(o[b - 7], o[b - 5])
       /\ Bit(w, 14) = o[7]
       /\ Bit(w, 15) = o[8]
  BY <1>5, CrcByte, Zenon
<1>13. /\ Bit(th, 0) = Left(i)[8] /\ Bit(th, 6) = Left(i)[1] /\ Bit(th, 7) = Left(i)[2]
       /\ \A b \in 1 .. 5 : Bit(th, b) = 0
       /\ \A b \in 0 .. 5 : Bit(tl, b) = Flip(Left(i)[b + 1], Left(i)[b + 3])
       /\ Bit(tl, 6) = Left(i)[7] /\ Bit(tl, 7) = Left(i)[8]
  BY <1>4, TableBits, Zenon
<1>14. \A b \in 0 .. 7 : Bit(lo, b) \in 0 .. 1
  BY <1>1, <1>2, BitIsBit
<1>. HIDE DEF hi, lo, i, v, th, tl, nh, w
<1>15. \A b \in 0 .. 7 : Bit(v, b) = Bit(i, b)
  BY <1>4, <1>5, <1>9
<1>16. \A b \in 8 .. 15 : Bit(v, b) = Bit(lo, b - 8)
  BY <1>5, <1>9, <1>14
<1>17. Left(i) = o
  BY <1>15 DEF Left
<1>. HIDE DEF o
<1>18. \A b \in 0 .. 7 : Bit(nh, b) = Flip(Bit(lo, b), Bit(th, b))
  BY <1>7 DEF Flip
<1>19. \A b \in 0 .. 7 : Bit(w, b) = Bit(256 * tl + nh, b)
  <2>1. \A b \in 0 .. 7 : Bit(v, b + 8) = Bit(lo, b)
    BY <1>16
  <2>2. \A b \in 1 .. 5 : Bit(nh, b) = Bit(lo, b)
    BY <1>13, <1>14, <1>18 DEF Flip
  <2>3. Bit(nh, 0) = Bit(w, 0) /\ Bit(nh, 6) = Bit(w, 6) /\ Bit(nh, 7) = Bit(w, 7)
    BY <2>1, <1>12, <1>13, <1>17, <1>18
  <2>4. \A b \in 1 .. 5 : Bit(w, b) = Bit(lo, b)
    BY <2>1, <1>12
  <2>5. \A b \in 0 .. 7 : b = 0 \/ b \in 1 .. 5 \/ b = 6 \/ b = 7
    OBVIOUS
  <2>. QED
    BY <2>2, <2>3, <2>4, <2>5, <1>10
<1>20. \A b \in 8 .. 15 : Bit(w, b) = Bit(256 * tl + nh, b)
  BY <1>10, <1>12, <1>13, <1>17
<1>21. w = 256 * tl + nh
  <2>1. \A b \in 0 .. 15 : Bit(w, b) = Bit(256 * tl + nh, b)
    BY <1>19, <1>20
  <2>. QED
    BY <2>1, <1>11, <1>12, SameBits, Zenon
<1>. QED
  BY <1>3, <1>5, <1>8, <1>21 DEF v, w

\* The words of the host after 0, 1, ... bytes of a message.
HostChecks(msg, n, f) ==
  f = [i \in 0 .. n |-> IF i = 0 THEN WORD_MAX ELSE crc_byte[Xor(f[i - 1], msg[i])]]

LEMMA HostFollows ==
  ASSUME NEW msg \in Seq(Byte), NEW f, Checks(msg, Len(msg), f), NEW k \in 0 .. Len(msg)
  PROVE  WordOf(f[k]) =
           IF k = 0 THEN WORD_MAX ELSE crc_byte[Xor(WordOf(f[k - 1]), msg[k])]
<1>1. Len(msg) \in Nat /\ \A i \in 1 .. Len(msg) : msg[i] \in Byte
  BY ElementOfSeq
<1>2. f[k] = IF k = 0 THEN [hi |-> 255, lo |-> 255] ELSE crc16_step(f[k - 1], msg[k])
  BY Zenon DEF Checks
<1>3. CASE k = 0
  BY <1>2, <1>3 DEF WordOf, WORD_MAX
<1>4. CASE k # 0
  <2>1. k - 1 \in 0 .. Len(msg) /\ k \in 1 .. Len(msg)
    BY <1>1, <1>4
  <2>2. f[k - 1] \in Crc /\ msg[k] \in Byte
    BY <1>1, <2>1, ChecksAreBytes, Zenon
  <2>3. crc_byte[Xor(WordOf(f[k - 1]), msg[k])] = WordOf(crc16_step(f[k - 1], msg[k]))
    BY <2>2, SameStep, Zenon
  <2>. QED
    BY <1>2, <1>4, <2>3, Zenon
<1>. QED
  BY <1>3, <1>4, Zenon

LEMMA HostChecksExist ==
  ASSUME NEW msg \in Seq(Byte), NEW f, Checks(msg, Len(msg), f)
  PROVE  \E h : HostChecks(msg, Len(msg), h)
<1>. DEFINE n == Len(msg)
            g == [k \in 0 .. n |-> WordOf(f[k])]
<1>1. n \in Nat
  BY ElementOfSeq
<1>2. ASSUME NEW k \in 0 .. n
      PROVE  g[k] = IF k = 0 THEN WORD_MAX ELSE crc_byte[Xor(g[k - 1], msg[k])]
  <2>1. WordOf(f[k]) = IF k = 0 THEN WORD_MAX ELSE crc_byte[Xor(WordOf(f[k - 1]), msg[k])]
    BY HostFollows, Zenon
  <2>2. g[k] = WordOf(f[k]) /\ (k # 0 => g[k - 1] = WordOf(f[k - 1]))
    BY <1>1
  <2>. HIDE DEF g
  <2>. QED
    BY <2>1, <2>2, Zenon
<1>3. g = [k \in 0 .. n |-> g[k]]
  OBVIOUS
<1>. HIDE DEF g
<1>4. HostChecks(msg, n, g)
  BY <1>2, <1>3 DEF HostChecks
<1>. QED
  BY <1>4, Zenon

LEMMA HostIsSame ==
  ASSUME NEW msg \in Seq(Byte), NEW f, Checks(msg, Len(msg), f),
         NEW h, HostChecks(msg, Len(msg), h), NEW n \in 0 .. Len(msg)
  PROVE  h[n] = WordOf(f[n])
<1>. DEFINE T == {m \in 0 .. Len(msg) : h[m] # WordOf(f[m])}
<1>1. Len(msg) \in Nat
  BY ElementOfSeq
<1>2. \A k \in 0 .. Len(msg) :
        h[k] = IF k = 0 THEN WORD_MAX ELSE crc_byte[Xor(h[k - 1], msg[k])]
  BY Zenon DEF HostChecks
<1>3. \A k \in 0 .. Len(msg) :
        WordOf(f[k]) = IF k = 0 THEN WORD_MAX ELSE crc_byte[Xor(WordOf(f[k - 1]), msg[k])]
  BY HostFollows, Zenon
<1>4. ASSUME h[n] # WordOf(f[n])
      PROVE  FALSE
  <2>1. n \in T /\ T \subseteq Nat
    BY <1>4
  <2>2. PICK x \in T : \A y \in T : ~(y < x)
    BY <2>1, LeastNat, Zenon
  <2>3. x \in 0 .. Len(msg) /\ h[x] # WordOf(f[x])
    BY <2>2
  <2>4. x # 0
    BY <1>2, <1>3, <2>3, Zenon
  <2>5. x - 1 \in 0 .. Len(msg) /\ x - 1 < x
    BY <1>1, <2>3, <2>4
  <2>6. h[x - 1] = WordOf(f[x - 1])
    BY <2>2, <2>5
  <2>. QED
    BY <1>2, <1>3, <2>3, <2>4, <2>6, Zenon
<1>. QED
  BY <1>4, Zenon

\* The host and the library compute the same two bytes for every message (host_crc16,
\* crc16).
LEMMA SameChecksum ==
  ASSUME NEW msg \in Seq(Byte)
  PROVE  host_crc16(msg) = crc16(msg)
<1>. DEFINE n == Len(msg)
            f == CHOOSE f : Checks(msg, n, f)
            h == CHOOSE h : HostChecks(msg, n, h)
<1>1. n \in 0 .. n /\ n \in 0 .. Len(msg)
  BY ElementOfSeq
<1>2. Checks(msg, n, f)
  <2>1. \E x : Checks(msg, n, x)
    BY <1>1, ChecksExist, Zenon
  <2>. QED
    BY <2>1, Zenon
<1>3. crc16_of(msg) = f[n]
  BY Zenon DEF crc16_of, Checks
<1>4. host_crc16_of(msg) = h[n]
  BY Zenon DEF host_crc16_of, HostChecks
<1>. HIDE DEF f
<1>5. HostChecks(msg, n, h)
  <2>1. \E x : HostChecks(msg, n, x)
    BY <1>2, HostChecksExist, Zenon
  <2>. QED
    BY <2>1, Zenon
<1>. HIDE DEF h
<1>6. h[n] = WordOf(f[n])
  BY <1>1, <1>2, <1>5, HostIsSame, Zenon
<1>7. f[n] \in Crc
  BY <1>1, <1>2, ChecksAreBytes, Zenon
<1>. HIDE DEF n
<1>8. f[n].hi \in Byte /\ f[n].lo \in Byte
  BY <1>7 DEF Crc
<1>9. \A x, y \in Byte : (256 * y + x) % 256 = x /\ (256 * y + x) \div 256 = y
  BY DEF Byte
<1>10. WordOf(f[n]) % 256 = f[n].hi /\ WordOf(f[n]) \div 256 = f[n].lo
  BY <1>8, <1>9 DEF WordOf
<1>11. host_crc16(msg) = <<h[n] % 256, h[n] \div 256>> /\ crc16(msg) = <<f[n].hi, f[n].lo>>
  BY <1>3, <1>4, Zenon DEF host_crc16, crc16
<1>. QED
  BY <1>6, <1>10, <1>11, Zenon


-----------------------------------------------------------------------------
\* What the checksum detects

\* A sum with one word tells two others apart (Xor).
LEMMA XorTells ==
  ASSUME NEW u \in Word16, NEW v \in Word16, NEW w \in Word16,
         Xor(u, w) = Xor(v, w) \/ Xor(w, u) = Xor(w, v)
  PROVE  u = v
<1>1. /\ \A b \in 0 .. 15 : Bit(Xor(u, w), b) = IF Bit(u, b) = Bit(w, b) THEN 0 ELSE 1
      /\ \A b \in 0 .. 15 : Bit(Xor(v, w), b) = IF Bit(v, b) = Bit(w, b) THEN 0 ELSE 1
      /\ \A b \in 0 .. 15 : Bit(Xor(w, u), b) = IF Bit(w, b) = Bit(u, b) THEN 0 ELSE 1
      /\ \A b \in 0 .. 15 : Bit(Xor(w, v), b) = IF Bit(w, b) = Bit(v, b) THEN 0 ELSE 1
  BY XorFacts, Zenon
<1>2. ASSUME NEW b \in 0 .. 15
      PROVE  Bit(u, b) = Bit(v, b)
  <2>1. Bit(u, b) \in 0 .. 1 /\ Bit(v, b) \in 0 .. 1 /\ Bit(w, b) \in 0 .. 1
    BY BitIsBit, Zenon
  <2>. QED
    BY <1>1, <2>1
<1>. QED
  BY <1>2, SameBits, Zenon

\* A byte is changed by every sum but that with 0 (Xor).
LEMMA XorChanges ==
  ASSUME NEW x \in Byte, NEW m \in Byte, m # 0
  PROVE  Xor(x, m) \in Byte /\ Xor(x, m) # x
<1>1. x \in Word16 /\ m \in Word16 /\ 0 \in Word16
  BY WordRange DEF Byte
<1>2. /\ Xor(x, m) \in Byte
      /\ \A b \in 0 .. 15 : Bit(Xor(x, m), b) = IF Bit(x, b) = Bit(m, b) THEN 0 ELSE 1
  BY <1>1, XorFacts, Zenon
<1>3. ASSUME Xor(x, m) = x
      PROVE  FALSE
  <2>1. \A b \in 0 .. 15 : Bit(0, b) = 0
    BY DEF Bit, Weight
  <2>2. ASSUME NEW b \in 0 .. 15
        PROVE  Bit(m, b) = Bit(0, b)
    <3>1. Bit(x, b) \in 0 .. 1 /\ Bit(m, b) \in 0 .. 1
      BY <1>1, BitIsBit, Zenon
    <3>2. Bit(x, b) = IF Bit(x, b) = Bit(m, b) THEN 0 ELSE 1
      BY <1>2, <1>3, Zenon
    <3>. QED
      BY <2>1, <3>1, <3>2
  <2>. QED
    BY <1>1, <2>2, SameBits, Zenon
<1>. QED
  BY <1>2, <1>3, Zenon

\* What has left a byte, and so what the second table holds for it, tells it from
\* the others (Left, table_crc_lo).
LEMMA TableTells ==
  ASSUME NEW i \in Byte, NEW j \in Byte, table_crc_lo[i + 1] = table_crc_lo[j + 1]
  PROVE  i = j
<1>. DEFINE o == Left(i)
            p == Left(j)
            lo == table_crc_lo[i + 1]
<1>1. i \in Word16 /\ j \in Word16
  BY WordRange DEF Byte
<1>2. \A b \in 0 .. 7 : Bit(i, b) \in 0 .. 1 /\ Bit(j, b) \in 0 .. 1
  BY <1>1, BitIsBit
<1>3. /\ \A k \in 1 .. 8 : o[k] \in 0 .. 1 /\ p[k] \in 0 .. 1
      /\ Bit(i, 0) = o[1] /\ Bit(j, 0) = p[1]
      /\ \A k \in 1 .. 7 : o[k + 1] = Flip(Bit(i, k), o[k]) /\ p[k + 1] = Flip(Bit(j, k), p[k])
  BY <1>2 DEF Left, Flip
<1>4. /\ \A b \in 0 .. 5 : Bit(lo, b) = Flip(o[b + 1], o[b + 3]) /\ Bit(lo, b) = Flip(p[b + 1], p[b + 3])
      /\ Bit(lo, 6) = o[7] /\ Bit(lo, 7) = o[8]
      /\ Bit(lo, 6) = p[7] /\ Bit(lo, 7) = p[8]
  BY TableBits, Zenon
<1>. HIDE DEF o, p, lo
<1>5. o[8] = p[8] /\ o[7] = p[7]
  BY <1>4
<1>6. o[6] = p[6] /\ o[5] = p[5]
  BY <1>3, <1>4, <1>5 DEF Flip
<1>7. o[4] = p[4] /\ o[3] = p[3]
  BY <1>3, <1>4, <1>6 DEF Flip
<1>8. o[2] = p[2] /\ o[1] = p[1]
  BY <1>3, <1>4, <1>7 DEF Flip
<1>9. \A k \in 1 .. 8 : o[k] = p[k]
  BY <1>5, <1>6, <1>7, <1>8
<1>10. ASSUME NEW b \in 0 .. 15
       PROVE  Bit(i, b) = Bit(j, b)
  <2>1. CASE b = 0
    BY <1>3, <1>9, <2>1
  <2>2. CASE b \in 1 .. 7
    BY <1>2, <1>3, <1>9, <2>2 DEF Flip
  <2>3. CASE b \in 8 .. 15
    <3>1. \A x \in Byte : \A c \in 8 .. 15 : Bit(x, c) = 0
      BY HalvedBytes, Zenon DEF Halved
    <3>. QED
      BY <2>3, <3>1
  <2>. QED
    BY <2>1, <2>2, <2>3
<1>. QED
  BY <1>1, <1>10, SameBits, Zenon

\* Of two checksums and a byte, or of a checksum and two bytes, the step makes different
\* checksums (crc16_step).
LEMMA StepTells ==
  ASSUME NEW x \in Crc, NEW y \in Crc, NEW b \in Byte, NEW c \in Byte,
         crc16_step(x, b) = crc16_step(y, c)
  PROVE  (x = y => b = c) /\ (b = c => x = y)
<1>. DEFINE i == Xor(x.hi, b)
            j == Xor(y.hi, c)
            s == table_crc_hi[i + 1]
            t == table_crc_hi[j + 1]
<1>1. x.hi \in Byte /\ x.lo \in Byte /\ y.hi \in Byte /\ y.lo \in Byte
  BY DEF Crc
<1>2. \A v \in Byte : v \in Word16
  BY WordRange DEF Byte
<1>3. i \in Byte /\ j \in Byte
  BY <1>1, <1>2, XorFacts, Zenon
<1>4. s \in Byte /\ t \in Byte
  BY <1>3, TableBytes, Zenon
<1>5. table_crc_lo[i + 1] = table_crc_lo[j + 1] /\ Xor(x.lo, s) = Xor(y.lo, t)
  <2>1. /\ crc16_step(x, b).lo = table_crc_lo[i + 1] /\ crc16_step(y, c).lo = table_crc_lo[j + 1]
        /\ crc16_step(x, b).hi = Xor(x.lo, s) /\ crc16_step(y, c).hi = Xor(y.lo, t)
    BY DEF crc16_step
  <2>. QED
    BY <2>1
<1>. HIDE DEF s, t
<1>6. i = j
  BY <1>3, <1>5, TableTells, Zenon
<1>7. s = t
  BY <1>6 DEF s, t
<1>8. x.lo = y.lo
  BY <1>1, <1>2, <1>4, <1>5, <1>7, XorTells, Zenon
<1>9. x = y => b = c
  BY <1>2, <1>1, <1>6, XorTells, Zenon
<1>10. b = c => x.hi = y.hi
  BY <1>2, <1>1, <1>6, XorTells, Zenon
<1>11. x.hi = y.hi => x = y
  BY <1>8 DEF Crc
<1>. QED
  BY <1>9, <1>10, <1>11, Zenon

\* Checksums that are the same stay so with the same byte; they part with another, and
\* never meet again.
LEMMA StepKeeps ==
  ASSUME NEW x \in Crc, NEW y \in Crc, NEW b \in Byte, NEW c \in Byte
  PROVE  /\ x = y /\ b = c => crc16_step(x, b) = crc16_step(y, c)
         /\ x = y /\ b # c => crc16_step(x, b) # crc16_step(y, c)
         /\ x # y /\ b = c => crc16_step(x, b) # crc16_step(y, c)
<1>1. x = y /\ b = c => crc16_step(x, b) = crc16_step(y, c)
  BY Zenon
<1>2. CASE crc16_step(x, b) = crc16_step(y, c)
  <2>1. (x = y => b = c) /\ (b = c => x = y)
    BY <1>2, StepTells
  <2>. QED
    BY <1>1, <2>1
<1>3. CASE crc16_step(x, b) # crc16_step(y, c)
  BY <1>1, <1>3
<1>. QED
  BY <1>2, <1>3, Zenon

\* Messages that differ in one byte only.
OneByteOff(s, t) ==
  /\ s \in Seq(Byte) /\ t \in Seq(Byte) /\ Len(s) = Len(t)
  /\ \E i \in 1 .. Len(t) : s[i] # t[i] /\ \A j \in 1 .. Len(t) : j # i => s[j] = t[j]

\* They have different checksums (crc16), whichever byte it is and however long they are.
LEMMA ChecksTell ==
  ASSUME NEW s \in Seq(Byte), NEW t \in Seq(Byte), Len(s) = Len(t),
         NEW f, Checks(s, Len(s), f), NEW g, Checks(t, Len(t), g),
         NEW i \in 1 .. Len(t), s[i] # t[i],
         \A j \in 1 .. Len(t) : j # i => s[j] = t[j],
         NEW n \in 0 .. Len(t)
  PROVE  f[n] = g[n] <=> n < i
<1>. DEFINE T == {m \in 0 .. Len(t) : ~(f[m] = g[m] <=> m < i)}
<1>1. /\ Len(t) \in Nat /\ i \in Nat
      /\ \A k \in 1 .. Len(t) : s[k] \in Byte /\ t[k] \in Byte
  BY ElementOfSeq
<1>2. \A k \in 0 .. Len(t) : f[k] \in Crc /\ g[k] \in Crc
  BY ChecksAreBytes, Zenon
<1>3. \A k \in 0 .. Len(t) :
        /\ f[k] = IF k = 0 THEN [hi |-> 255, lo |-> 255] ELSE crc16_step(f[k - 1], s[k])
        /\ g[k] = IF k = 0 THEN [hi |-> 255, lo |-> 255] ELSE crc16_step(g[k - 1], t[k])
  BY Zenon DEF Checks
<1>4. ASSUME ~(f[n] = g[n] <=> n < i)
      PROVE  FALSE
  <2>1. n \in T /\ T \subseteq Nat
    BY <1>4
  <2>2. PICK m \in T : \A k \in T : ~(k < m)
    BY <2>1, LeastNat, Zenon
  <2>3. m \in 0 .. Len(t) /\ ~(f[m] = g[m] <=> m < i)
    BY <2>2
  <2>4. m # 0
    <3>1. 0 < i /\ 0 \in 0 .. Len(t)
      BY <1>1
    <3>2. f[0] = g[0]
      BY <1>3, <3>1, Zenon
    <3>. QED
      BY <2>3, <3>1, <3>2
  <2>5. m - 1 \in 0 .. Len(t) /\ m - 1 < m /\ m \in 1 .. Len(t)
    BY <1>1, <2>3, <2>4
  <2>6. f[m - 1] = g[m - 1] <=> m - 1 < i
    BY <2>2, <2>5
  <2>7. f[m] = crc16_step(f[m - 1], s[m]) /\ g[m] = crc16_step(g[m - 1], t[m])
    BY <1>3, <2>3, <2>4, Zenon
  <2>8. /\ f[m - 1] \in Crc /\ g[m - 1] \in Crc
        /\ s[m] \in Byte /\ t[m] \in Byte
    BY <1>1, <1>2, <2>5
  <2>. HIDE DEF T
  <2>9. s[m] = t[m] <=> m # i
    BY <2>5
  <2>10. m - 1 < i <=> m < i \/ m = i
    BY <1>1, <2>5
  <2>11. m < i => m # i
    BY <1>1
  <2>. QED
    BY <2>3, <2>6, <2>7, <2>8, <2>9, <2>10, <2>11, StepKeeps
<1>. QED
  BY <1>4, Zenon

LEMMA CrcTells ==
  ASSUME NEW s, NEW t, OneByteOff(s, t)
  PROVE  crc16(s) # crc16(t)
<1>. DEFINE n == Len(t)
            f == CHOOSE f : Checks(s, Len(s), f)
            g == CHOOSE g : Checks(t, Len(t), g)
<1>1. s \in Seq(Byte) /\ t \in Seq(Byte) /\ Len(s) = n
  BY Zenon DEF OneByteOff
<1>2. n \in 0 .. n /\ n \in Nat
  BY <1>1, ElementOfSeq
<1>3. Checks(s, Len(s), f) /\ Checks(t, Len(t), g)
  <2>1. (\E x : Checks(s, Len(s), x)) /\ (\E x : Checks(t, Len(t), x))
    BY <1>1, <1>2, ChecksExist, Zenon
  <2>. QED
    BY <2>1, Zenon
<1>4. crc16_of(s) = f[n] /\ crc16_of(t) = g[n]
  <2>1. crc16_of(s) = f[Len(s)] /\ crc16_of(t) = g[Len(t)]
    BY Zenon DEF crc16_of, Checks
  <2>. QED
    BY <1>1, <2>1, Zenon
<1>. HIDE DEF f, g
<1>5. f[n] \in Crc /\ g[n] \in Crc
  BY <1>1, <1>2, <1>3, ChecksAreBytes, Zenon
<1>6. f[n] # g[n]
  <2>1. PICK i \in 1 .. n : s[i] # t[i] /\ \A j \in 1 .. n : j # i => s[j] = t[j]
    BY Zenon DEF OneByteOff
  <2>2. ~(n < i)
    BY <1>2, <2>1
  <2>3. s[i] # t[i] /\ \A j \in 1 .. Len(t) : j # i => s[j] = t[j]
    BY <2>1
  <2>4. f[n] = g[n] <=> n < i
    BY <1>1, <1>2, <1>3, <2>3, ChecksTell
  <2>. QED
    BY <2>2, <2>4
<1>7. crc16(s) = <<f[n].hi, f[n].lo>> /\ crc16(t) = <<g[n].hi, g[n].lo>>
  BY <1>4, Zenon DEF crc16
<1>8. f[n].hi # g[n].hi \/ f[n].lo # g[n].lo
  BY <1>5, <1>6 DEF Crc
<1>. QED
  BY <1>7, <1>8

-----------------------------------------------------------------------------
\* Frames

\* The checksum is two bytes, whatever they are (crc16).
LEMMA CrcIsPair ==
  ASSUME NEW msg
  PROVE  \E x, y : crc16(msg) = <<x, y>>
  BY Zenon DEF crc16

\* A message that is sent is its body and a checksum of it (send_msg_pre).
LEMMA SentFacts ==
  ASSUME NEW body \in Seq(Byte)
  PROVE  LET msg == send_msg_pre(body)
             n == Len(body)
         IN  /\ Len(msg) = n + 2
             /\ \A i \in 1 .. n : msg[i] = body[i]
             /\ \A i \in 1 .. n + 1, k \in 0 .. n : SubSeq(msg, i, k) = SubSeq(body, i, k)
             /\ SubSeq(msg, 1, n) = body
             /\ SubSeq(msg, 1, n + 2) = msg
             /\ crc16(body) = <<msg[n + 1], msg[n + 2]>>
             /\ msg # <<>>
<1>. PICK x, y : crc16(body) = <<x, y>>
  BY CrcIsPair, Zenon
<1>. DEFINE S == Byte \cup {x, y}
            crc == <<x, y>>
            msg == send_msg_pre(body)
            n == Len(body)
<1>1. body \in Seq(S) /\ n \in Nat
  BY ElementOfSeq
<1>2. crc \in Seq(S) /\ Len(crc) = 2 /\ crc[1] = x /\ crc[2] = y
  OBVIOUS
<1>3. msg = body \o crc
  BY DEF send_msg_pre
<1>. HIDE DEF S, crc, msg
<1>4. /\ msg \in Seq(S) /\ Len(msg) = n + 2
      /\ \A i \in 1 .. n : msg[i] = body[i]
      /\ \A i \in 1 .. n + 1, k \in 0 .. n : SubSeq(msg, i, k) = SubSeq(body, i, k)
      /\ SubSeq(msg, 1, n) = body
      /\ msg[n + 1] = x /\ msg[n + 2] = y
  BY <1>1, <1>2, <1>3, ConcatFacts
<1>5. SubSeq(msg, 1, n + 2) = msg
  BY <1>1, <1>4
<1>. QED
  BY <1>1, <1>4, <1>5 DEF crc, msg

\* What the receiving side takes for a whole message to the slave.
Framed(body, type) ==
  LET meta == compute_meta_length_after_function(body[2], type)
  IN  /\ body \in Seq(Byte)
      /\ Len(body) <= 254
      /\ body[1] = Slave
      /\ meta \in Nat
      /\ 2 + meta <= Len(body)
      /\ FramedLength(body[2], body[2 + meta], type) = Len(body) + 2

\* Such a message is received as it was sent (_modbus_receive_msg, check_integrity).
LEMMA ReceivedWhole ==
  ASSUME NEW body, NEW type, Framed(body, type), line = send_msg_pre(body)
  PROVE  Received(type) = line /\ line # <<>>
<1>. DEFINE n == Len(body)
            meta == compute_meta_length_after_function(body[2], type)
<1>1. /\ body \in Seq(Byte) /\ n \in Nat /\ n <= 254 /\ body[1] = Slave
      /\ meta \in Nat /\ 2 + meta <= n
      /\ FramedLength(body[2], body[2 + meta], type) = n + 2
  BY DEF Framed
<1>2. /\ Len(line) = n + 2
      /\ line[1] = body[1] /\ line[2] = body[2] /\ line[2 + meta] = body[2 + meta]
      /\ SubSeq(line, 1, n) = body
      /\ SubSeq(line, 1, n + 2) = line
      /\ crc16(body) = <<line[n + 1], line[n + 2]>>
      /\ line # <<>>
  <2>. DEFINE msg == send_msg_pre(body)
  <2>1. /\ Len(msg) = n + 2
        /\ \A i \in 1 .. n : msg[i] = body[i]
        /\ SubSeq(msg, 1, n) = body
        /\ SubSeq(msg, 1, n + 2) = msg
        /\ crc16(body) = <<msg[n + 1], msg[n + 2]>>
        /\ msg # <<>>
    BY <1>1, SentFacts, Zenon
  <2>. HIDE DEF msg, meta
  <2>2. 1 \in 1 .. n /\ 2 \in 1 .. n /\ 2 + meta \in 1 .. n
    BY <1>1
  <2>. QED
    BY <2>1, <2>2, Zenon DEF msg
<1>. HIDE DEF meta
<1>3. compute_meta_length_after_function(line[2], type) = meta
  BY <1>2, Zenon DEF meta
<1>4. FramedLength(line[2], line[2 + meta], type) = n + 2
  BY <1>1, <1>2, Zenon
<1>5. Backend.maxAdu = 256
  BY CodecAssumption DEF Rtu
<1>6. (n + 2) - 2 = n /\ (n + 2) - 1 = n + 1 /\ n + 2 <= 256 /\ n + 2 >= 2 + meta
  BY <1>1
<1>. DEFINE Taken(m, len) ==
       IF /\ Len(line) >= 2 + m
          /\ len <= Backend.maxAdu
          /\ Len(line) >= len
          /\ SubSeq(line, 1, len)[1] \in {Slave, 0}
          /\ crc16(SubSeq(SubSeq(line, 1, len), 1, len - 2))
               = <<SubSeq(line, 1, len)[len - 1], SubSeq(line, 1, len)[len]>>
         THEN SubSeq(line, 1, len) ELSE <<>>
<1>7. Received(type) = Taken(meta, n + 2)
  BY <1>3, <1>4, Zenon DEF Received
<1>8. Len(line) >= n + 2
  BY <1>1, <1>2
<1>9. Taken(meta, n + 2) = line
  BY <1>1, <1>2, <1>5, <1>6, <1>8, Zenon
<1>. QED
  BY <1>2, <1>7, <1>9, Zenon

\* A message one byte of which is not what was sent is not taken for a message, if the
\* bytes that say where it ends are (check_integrity).
LEMMA DamagedDropped ==
  ASSUME NEW body, NEW type, Framed(body, type), OneByteOff(line, send_msg_pre(body)),
         line[2] = body[2],
         LET count == 2 + compute_meta_length_after_function(body[2], type)
         IN  line[count] = body[count]
  PROVE  Received(type) = <<>>
<1>. DEFINE n == Len(body)
            meta == compute_meta_length_after_function(body[2], type)
            msg == send_msg_pre(body)
            start == SubSeq(line, 1, n)
<1>1. /\ body \in Seq(Byte) /\ n \in Nat /\ n <= 254 /\ body[1] = Slave
      /\ meta \in Nat /\ 2 + meta <= n
      /\ FramedLength(body[2], body[2 + meta], type) = n + 2
  BY DEF Framed
<1>2. /\ Len(msg) = n + 2
      /\ \A i \in 1 .. n : msg[i] = body[i]
      /\ crc16(body) = <<msg[n + 1], msg[n + 2]>>
  BY <1>1, SentFacts, Zenon
<1>3. /\ line \in Seq(Byte) /\ Len(line) = n + 2
  BY <1>2, Zenon DEF OneByteOff
<1>4. PICK i \in 1 .. n + 2 :
        line[i] # msg[i] /\ \A j \in 1 .. n + 2 : j # i => line[j] = msg[j]
  BY <1>2, Zenon DEF OneByteOff
<1>5. /\ start \in Seq(Byte) /\ Len(start) = n
      /\ \A j \in 1 .. n : start[j] = line[j]
      /\ SubSeq(line, 1, n + 2) = line
  BY <1>1, <1>3
<1>6. compute_meta_length_after_function(line[2], type) = meta
  BY Zenon
<1>7. FramedLength(line[2], line[2 + meta], type) = n + 2
  BY <1>1, Zenon
<1>. HIDE DEF meta, msg, start
<1>8. crc16(start) # <<line[n + 1], line[n + 2]>>
  <2>1. CASE i \in 1 .. n
    <3>1. start[i] # body[i] /\ \A j \in 1 .. n : j # i => start[j] = body[j]
      BY <1>1, <1>2, <1>4, <1>5, <2>1
    <3>2. OneByteOff(start, body)
      BY <1>1, <1>5, <2>1, <3>1 DEF OneByteOff
    <3>3. crc16(start) # crc16(body)
      BY <3>2, CrcTells, Zenon
    <3>4. line[n + 1] = msg[n + 1] /\ line[n + 2] = msg[n + 2]
      BY <1>1, <1>4, <2>1
    <3>. QED
      BY <1>2, <3>3, <3>4, Zenon
  <2>2. CASE i \notin 1 .. n
    <3>1. \A j \in 1 .. n : start[j] = body[j]
      BY <1>1, <1>2, <1>4, <1>5, <2>2
    <3>2. start = body
      BY <1>1, <1>5, <3>1
    <3>3. line[n + 1] # msg[n + 1] \/ line[n + 2] # msg[n + 2]
      BY <1>1, <1>4, <2>2
    <3>. QED
      BY <1>2, <3>2, <3>3
  <2>. QED
    BY <2>1, <2>2, Zenon
<1>. DEFINE Taken(m, len) ==
       IF /\ Len(line) >= 2 + m
          /\ len <= Backend.maxAdu
          /\ Len(line) >= len
          /\ SubSeq(line, 1, len)[1] \in {Slave, 0}
          /\ crc16(SubSeq(SubSeq(line, 1, len), 1, len - 2))
               = <<SubSeq(line, 1, len)[len - 1], SubSeq(line, 1, len)[len]>>
         THEN SubSeq(line, 1, len) ELSE <<>>
<1>9. Received(type) = Taken(meta, n + 2)
  BY <1>6, <1>7, Zenon DEF Received
<1>10. (n + 2) - 2 = n /\ (n + 2) - 1 = n + 1
  BY <1>1
<1>11. Taken(meta, n + 2) = <<>>
  BY <1>5, <1>8, <1>10, Zenon DEF start
<1>. QED
  BY <1>9, <1>11, Zenon

-----------------------------------------------------------------------------
\* Requests

\* From here on the codes of the functions are numbers.
USE DEF READ_COILS, READ_DISCRETE_INPUTS, READ_HOLDING_REGISTERS, READ_INPUT_REGISTERS,
        WRITE_SINGLE_COIL, WRITE_SINGLE_REGISTER, READ_EXCEPTION_STATUS, WRITE_MULTIPLE_COILS,
        WRITE_MULTIPLE_REGISTERS, REPORT_SLAVE_ID, MASK_WRITE_REGISTER, WRITE_AND_READ_REGISTERS,
        EXCEPTION_BIT

\* The first six bytes of a request (build_request_basis).
LEMMA BasisFacts ==
  ASSUME NEW fn \in Byte, NEW addr \in Word16, NEW nb \in Word16
  PROVE  LET body == build_request_basis_bytes(fn, addr, nb)
         IN  /\ body \in Seq(Byte) /\ Len(body) = 6
             /\ body[1] = Slave /\ body[2] = fn
             /\ WordAt(body, 3) = addr /\ WordAt(body, 5) = nb
<1>. DEFINE a1 == addr \div 256
            a2 == addr % 256
            n1 == nb \div 256
            n2 == nb % 256
            body == build_request_basis_bytes(fn, addr, nb)
<1>1. /\ a1 \in Byte /\ a2 \in Byte /\ 256 * a1 + a2 = addr
      /\ n1 \in Byte /\ n2 \in Byte /\ 256 * n1 + n2 = nb
  BY BytesFacts, Zenon
<1>2. Slave \in Byte
  BY CodecAssumption DEF Byte
<1>3. body = <<Slave, fn>> \o <<a1, a2>> \o <<n1, n2>>
  BY DEF build_request_basis_bytes, Bytes
<1>. HIDE DEF a1, a2, n1, n2, body
<1>4. /\ <<Slave, fn>> \in Seq(Byte) /\ <<a1, a2>> \in Seq(Byte) /\ <<n1, n2>> \in Seq(Byte)
      /\ Len(<<Slave, fn>>) = 2 /\ Len(<<a1, a2>>) = 2 /\ Len(<<n1, n2>>) = 2
  BY <1>1, <1>2
<1>5. PICK p : p = <<Slave, fn>> \o <<a1, a2>>
  OBVIOUS
<1>6. /\ p \in Seq(Byte) /\ Len(p) = 4
      /\ p[1] = Slave /\ p[2] = fn /\ p[3] = a1 /\ p[4] = a2
  BY <1>4, <1>5, ConcatFacts
<1>7. /\ body \in Seq(Byte) /\ Len(body) = 6
      /\ body[1] = Slave /\ body[2] = fn /\ body[3] = a1 /\ body[4] = a2
      /\ body[5] = n1 /\ body[6] = n2
  BY <1>3, <1>4, <1>5, <1>6, ConcatFacts
<1>. QED
  BY <1>1, <1>7 DEF WordAt, body

\* The body of the request of a call (RequestBytes).
RequestBody(c) ==
  CASE c.fn \in ReadBitFunctions \cup ReadRegisterFunctions -> read_request(c)
    [] c.fn \in WriteSingleFunctions -> write_single(c)
    [] c.fn = WRITE_MULTIPLE_COILS -> modbus_write_bits(c)
    [] c.fn = WRITE_MULTIPLE_REGISTERS -> modbus_write_registers(c)
    [] c.fn = MASK_WRITE_REGISTER -> modbus_mask_write_register(c)
    [] c.fn = REPORT_SLAVE_ID -> modbus_report_slave_id(c)
    [] c.fn = WRITE_AND_READ_REGISTERS -> modbus_write_and_read_registers(c)

LEMMA RequestIs ==
  ASSUME NEW c
  PROVE  RequestBytes(c) = send_msg_pre(RequestBody(c))
  BY Zenon DEF RequestBytes, RequestBody

LEMMA BodyIs ==
  ASSUME NEW c
  PROVE  /\ c.fn \in {READ_COILS, READ_HOLDING_REGISTERS} => RequestBody(c) = read_request(c)
         /\ c.fn \in {WRITE_SINGLE_COIL, WRITE_SINGLE_REGISTER} => RequestBody(c) = write_single(c)
         /\ c.fn = WRITE_MULTIPLE_COILS => RequestBody(c) = modbus_write_bits(c)
         /\ c.fn = WRITE_MULTIPLE_REGISTERS => RequestBody(c) = modbus_write_registers(c)
         /\ c.fn = MASK_WRITE_REGISTER => RequestBody(c) = modbus_mask_write_register(c)
         /\ c.fn = REPORT_SLAVE_ID => RequestBody(c) = modbus_report_slave_id(c)
         /\ c.fn = WRITE_AND_READ_REGISTERS => RequestBody(c) = modbus_write_and_read_registers(c)
  BY DEF RequestBody, ReadBitFunctions, ReadRegisterFunctions, WriteSingleFunctions

\* How much the server reads after the function, and how long it takes a request to be.
LEMMA IndicationLengths ==
  ASSUME NEW fn, NEW count \in Nat
  PROVE  /\ fn \in {READ_COILS, READ_HOLDING_REGISTERS, WRITE_SINGLE_COIL, WRITE_SINGLE_REGISTER} =>
              /\ compute_meta_length_after_function(fn, "indication") = 4
              /\ FramedLength(fn, count, "indication") = 8
         /\ fn \in {WRITE_MULTIPLE_COILS, WRITE_MULTIPLE_REGISTERS} =>
              /\ compute_meta_length_after_function(fn, "indication") = 5
              /\ FramedLength(fn, count, "indication") = 9 + count
         /\ fn = MASK_WRITE_REGISTER =>
              /\ compute_meta_length_after_function(fn, "indication") = 6
              /\ FramedLength(fn, count, "indication") = 10
         /\ fn = WRITE_AND_READ_REGISTERS =>
              /\ compute_meta_length_after_function(fn, "indication") = 9
              /\ FramedLength(fn, count, "indication") = 13 + count
         /\ fn = REPORT_SLAVE_ID =>
              /\ compute_meta_length_after_function(fn, "indication") = 0
              /\ FramedLength(fn, count, "indication") = 4
  BY CodecAssumption DEF compute_meta_length_after_function, FramedLength,
    compute_data_length_after_meta, Rtu, WriteMultipleFunctions

LEMMA ByteOf ==
  ASSUME NEW body \in Seq(Byte), NEW i \in 1 .. Len(body)
  PROVE  body[i] \in Byte /\ body[i] \in Nat
<1>1. body[i] \in Byte
  BY ElementOfSeq
<1>2. \A b \in Byte : b \in Nat
  BY DEF Byte
<1>. QED
  BY <1>1, <1>2, Zenon

\* modbus_read_bits, modbus_read_registers
ReadCall(c) ==
  /\ c.fn \in {READ_COILS, READ_HOLDING_REGISTERS}
  /\ c.addr \in Word16 /\ c.nb \in Nat
  /\ c.fn = READ_COILS => c.nb <= MAX_READ_BITS
  /\ c.fn = READ_HOLDING_REGISTERS => c.nb <= MAX_READ_REGISTERS

LEMMA ReadRequest ==
  ASSUME NEW c, ReadCall(c)
  PROVE  LET body == RequestBody(c)
         IN  /\ Framed(body, "indication") /\ Len(body) = 6
             /\ body[2] = c.fn /\ WordAt(body, 3) = c.addr /\ WordAt(body, 5) = c.nb
<1>. DEFINE body == RequestBody(c)
<1>1. c.fn \in Byte /\ c.addr \in Word16 /\ c.nb \in Word16
  BY WordRange DEF ReadCall, Byte, MAX_READ_BITS, MAX_READ_REGISTERS
<1>2. body = build_request_basis_bytes(c.fn, c.addr, c.nb)
  BY BodyIs DEF ReadCall, read_request
<1>. HIDE DEF body
<1>3. /\ body \in Seq(Byte) /\ Len(body) = 6 /\ body[1] = Slave /\ body[2] = c.fn
      /\ WordAt(body, 3) = c.addr /\ WordAt(body, 5) = c.nb
  BY <1>1, <1>2, BasisFacts
<1>4. body[6] \in Nat
  <2>1. 6 \in 1 .. Len(body)
    BY <1>3
  <2>. QED
    BY <1>3, <2>1, ByteOf, Zenon
<1>5. /\ compute_meta_length_after_function(c.fn, "indication") = 4
      /\ FramedLength(c.fn, body[6], "indication") = 8
  BY <1>4, IndicationLengths DEF ReadCall
<1>6. Framed(body, "indication")
  BY <1>3, <1>5 DEF Framed
<1>. QED
  BY <1>3, <1>6 DEF body

\* modbus_write_bit, modbus_write_register
SingleCall(c) ==
  /\ c.fn \in {WRITE_SINGLE_COIL, WRITE_SINGLE_REGISTER}
  /\ c.addr \in Word16 /\ c.value \in Word16

\* The value on the line: on is 0xFF00.
OnLine(c) ==
  IF c.fn = WRITE_SINGLE_COIL THEN (IF c.value # 0 THEN 65280 ELSE 0) ELSE c.value

LEMMA SingleRequest ==
  ASSUME NEW c, SingleCall(c)
  PROVE  LET body == RequestBody(c)
         IN  /\ Framed(body, "indication") /\ Len(body) = 6
             /\ body[2] = c.fn /\ WordAt(body, 3) = c.addr /\ WordAt(body, 5) = OnLine(c)
<1>. DEFINE body == RequestBody(c)
<1>1. c.fn \in Byte /\ c.addr \in Word16 /\ OnLine(c) \in Word16
  BY WordRange DEF SingleCall, Byte, OnLine
<1>2. body = build_request_basis_bytes(c.fn, c.addr, OnLine(c))
  BY BodyIs DEF SingleCall, write_single, OnLine
<1>. HIDE DEF body
<1>3. /\ body \in Seq(Byte) /\ Len(body) = 6 /\ body[1] = Slave /\ body[2] = c.fn
      /\ WordAt(body, 3) = c.addr /\ WordAt(body, 5) = OnLine(c)
  BY <1>1, <1>2, BasisFacts
<1>4. body[6] \in Nat
  <2>1. 6 \in 1 .. Len(body)
    BY <1>3
  <2>. QED
    BY <1>3, <2>1, ByteOf, Zenon
<1>5. /\ compute_meta_length_after_function(c.fn, "indication") = 4
      /\ FramedLength(c.fn, body[6], "indication") = 8
  BY <1>4, IndicationLengths DEF SingleCall
<1>6. Framed(body, "indication")
  BY <1>3, <1>5 DEF Framed
<1>. QED
  BY <1>3, <1>6 DEF body

\* A message that ends in a count and as many bytes.
IsCounted(body, p, m, data) ==
  /\ body \in Seq(Byte) /\ Len(body) = Len(p) + 1 + m
  /\ \A i \in 1 .. Len(p) : body[i] = p[i]
  /\ body[Len(p) + 1] = m
  /\ \A j \in 1 .. m : body[Len(p) + 1 + j] = data[j]
  /\ SubSeq(body, Len(p) + 2, Len(p) + 1 + m) = data
  /\ SubSeq(body, 1, Len(p)) = p

LEMMA Counted ==
  ASSUME NEW p \in Seq(Byte), NEW m \in Byte, NEW data \in Seq(Byte), Len(data) = m
  PROVE  IsCounted(p \o <<m>> \o data, p, m, data)
<1>. DEFINE k == Len(p)
            body == p \o <<m>> \o data
<1>1. k \in Nat /\ m \in Nat /\ <<m>> \in Seq(Byte) /\ Len(<<m>>) = 1 /\ <<m>>[1] = m
  BY DEF Byte
<1>2. body \in Seq(Byte) /\ Len(body) = k + 1 + m
  BY <1>1
<1>3. \A i \in 1 .. k : body[i] = p[i]
  BY <1>1
<1>4. body[k + 1] = m
  BY <1>1
<1>5. \A j \in 1 .. m : body[k + 1 + j] = data[j]
  BY <1>1
<1>6. SubSeq(body, k + 2, k + 1 + m) = data
  BY <1>1, <1>2, <1>5
<1>7. SubSeq(body, 1, k) = p
  BY <1>1, <1>2, <1>3
<1>. QED
  BY <1>2, <1>3, <1>4, <1>5, <1>6, <1>7 DEF IsCounted

\* The bytes that bits take.
LEMMA BitBytesFacts ==
  ASSUME NEW n \in Nat
  PROVE  /\ BitBytes(n) \in Nat
         /\ n <= 1968 => BitBytes(n) <= 246
         /\ n <= 2000 => BitBytes(n) <= 250
<1>1. PICK q \in Nat, r \in 0 .. 7 : n = 8 * q + r
  <2>1. n \div 8 \in Nat /\ n % 8 \in 0 .. 7 /\ n = 8 * (n \div 8) + (n % 8)
    OBVIOUS
  <2>. QED
    BY <2>1
<1>2. n \div 8 = q /\ n % 8 = r
  BY <1>1
<1>. QED
  BY <1>1, <1>2 DEF BitBytes

\* modbus_write_bits
BitsCall(c) ==
  /\ c.fn = WRITE_MULTIPLE_COILS
  /\ c.addr \in Word16 /\ c.values \in Seq(0 .. 1) /\ Len(c.values) <= MAX_WRITE_BITS

LEMMA BitsRequest ==
  ASSUME NEW c, BitsCall(c)
  PROVE  LET body == RequestBody(c)
         IN  /\ Framed(body, "indication")
             /\ body[2] = c.fn /\ WordAt(body, 3) = c.addr /\ WordAt(body, 5) = Len(c.values)
             /\ 7 <= Len(body)
             /\ SubSeq(body, 8, Len(body)) = Packed(c.values)
<1>. DEFINE body == RequestBody(c)
            n == Len(c.values)
            m == BitBytes(n)
            data == Packed(c.values)
            basis == build_request_basis_bytes(c.fn, c.addr, n)
<1>0. c.values \in Seq(0 .. 1)
  BY DEF BitsCall
<1>1. n \in Nat /\ n <= 1968 /\ c.fn = 15
  BY DEF BitsCall, MAX_WRITE_BITS
<1>. HIDE DEF n
<1>2. m \in Nat /\ m <= 246 /\ m \in Byte
  <2>1. m \in Nat /\ m <= 246
    BY <1>1, BitBytesFacts
  <2>. HIDE DEF m
  <2>. QED
    BY <2>1 DEF Byte
<1>3. c.fn \in Byte /\ c.addr \in Word16 /\ n \in Word16
  BY <1>1, WordRange DEF BitsCall, Byte
<1>4. data \in Seq(Byte) /\ Len(data) = m
  BY <1>0, PackedFacts, Zenon DEF n
<1>5. body = basis \o <<m>> \o data
  BY BodyIs DEF BitsCall, modbus_write_bits, n
<1>. HIDE DEF body, basis, data, m, n
<1>6. /\ basis \in Seq(Byte) /\ Len(basis) = 6 /\ basis[1] = Slave /\ basis[2] = c.fn
      /\ WordAt(basis, 3) = c.addr /\ WordAt(basis, 5) = n
  BY <1>3, BasisFacts DEF basis
<1>7. /\ body \in Seq(Byte) /\ Len(body) = 7 + m
      /\ \A i \in 1 .. 6 : body[i] = basis[i]
      /\ body[7] = m
      /\ SubSeq(body, 8, 7 + m) = data
  <2>1. IsCounted(body, basis, m, data)
    BY <1>2, <1>4, <1>5, <1>6, Counted, Zenon
  <2>. QED
    BY <1>2, <1>6, <2>1 DEF IsCounted
<1>8. /\ body[1] = Slave /\ body[2] = c.fn
      /\ WordAt(body, 3) = c.addr /\ WordAt(body, 5) = n
  BY <1>6, <1>7 DEF WordAt
<1>9. /\ compute_meta_length_after_function(c.fn, "indication") = 5
      /\ FramedLength(c.fn, m, "indication") = 9 + m
  BY <1>1, <1>2, IndicationLengths
<1>10. Framed(body, "indication")
  BY <1>2, <1>7, <1>8, <1>9 DEF Framed
<1>. QED
  BY <1>2, <1>7, <1>8, <1>10 DEF body, n, data

\* modbus_write_registers
RegistersCall(c) ==
  /\ c.fn = WRITE_MULTIPLE_REGISTERS
  /\ c.addr \in Word16 /\ c.values \in Seq(Word16) /\ Len(c.values) <= MAX_WRITE_REGISTERS

LEMMA RegistersRequest ==
  ASSUME NEW c, RegistersCall(c)
  PROVE  LET body == RequestBody(c)
         IN  /\ Framed(body, "indication")
             /\ body[2] = c.fn /\ WordAt(body, 3) = c.addr /\ WordAt(body, 5) = Len(c.values)
             /\ Len(body) = 7 + 2 * Len(c.values)
             /\ \A k \in 1 .. Len(c.values) : WordAt(body, 8 + 2 * (k - 1)) = c.values[k]
<1>. DEFINE body == RequestBody(c)
            n == Len(c.values)
            data == BytesOf(c.values)
            basis == build_request_basis_bytes(c.fn, c.addr, n)
<1>0. c.values \in Seq(Word16)
  BY DEF RegistersCall
<1>1. n \in Nat /\ n <= 123 /\ c.fn = 16
  BY DEF RegistersCall, MAX_WRITE_REGISTERS
<1>. HIDE DEF n
<1>2. 2 * n \in Byte
  BY <1>1 DEF Byte
<1>3. c.fn \in Byte /\ c.addr \in Word16 /\ n \in Word16
  BY <1>1, WordRange DEF RegistersCall, Byte
<1>4. /\ data \in Seq(Byte) /\ Len(data) = 2 * n
      /\ \A k \in 1 .. n : 256 * data[2 * k - 1] + data[2 * k] = c.values[k]
  BY <1>0, BytesOfFacts, Zenon DEF n
<1>5. body = basis \o <<2 * n>> \o data
  BY BodyIs DEF RegistersCall, modbus_write_registers, n
<1>. HIDE DEF body, basis, data, n
<1>6. /\ basis \in Seq(Byte) /\ Len(basis) = 6 /\ basis[1] = Slave /\ basis[2] = c.fn
      /\ WordAt(basis, 3) = c.addr /\ WordAt(basis, 5) = n
  BY <1>3, BasisFacts DEF basis
<1>7. /\ body \in Seq(Byte) /\ Len(body) = 7 + 2 * n
      /\ \A i \in 1 .. 6 : body[i] = basis[i]
      /\ body[7] = 2 * n
      /\ \A j \in 1 .. 2 * n : body[7 + j] = data[j]
  <2>1. IsCounted(body, basis, 2 * n, data)
    BY <1>2, <1>4, <1>5, <1>6, Counted, Zenon
  <2>. QED
    BY <1>1, <1>6, <2>1 DEF IsCounted
<1>8. /\ body[1] = Slave /\ body[2] = c.fn
      /\ WordAt(body, 3) = c.addr /\ WordAt(body, 5) = n
  BY <1>6, <1>7 DEF WordAt
<1>9. /\ compute_meta_length_after_function(c.fn, "indication") = 5
      /\ FramedLength(c.fn, 2 * n, "indication") = 9 + 2 * n
  BY <1>1, IndicationLengths
<1>10. Framed(body, "indication")
  BY <1>1, <1>7, <1>8, <1>9 DEF Framed
<1>11. ASSUME NEW k \in 1 .. n
       PROVE  WordAt(body, 8 + 2 * (k - 1)) = c.values[k]
  <2>1. /\ 2 * k - 1 \in 1 .. 2 * n /\ 2 * k \in 1 .. 2 * n
        /\ 8 + 2 * (k - 1) = 7 + (2 * k - 1) /\ 8 + 2 * (k - 1) + 1 = 7 + 2 * k
    BY <1>1
  <2>. QED
    BY <1>4, <1>7, <2>1 DEF WordAt
<1>. QED
  BY <1>1, <1>7, <1>8, <1>10, <1>11 DEF body, n

\* A message that goes on with two words.
HasWords(body, p, v, w) ==
  /\ body \in Seq(Byte) /\ Len(body) = Len(p) + 4
  /\ \A i \in 1 .. Len(p) : body[i] = p[i]
  /\ WordAt(body, Len(p) + 1) = v
  /\ WordAt(body, Len(p) + 3) = w

LEMMA TwoWords ==
  ASSUME NEW p \in Seq(Byte), NEW v \in Word16, NEW w \in Word16
  PROVE  HasWords(p \o Bytes(v) \o Bytes(w), p, v, w)
<1>. DEFINE v1 == v \div 256
            v2 == v % 256
            w1 == w \div 256
            w2 == w % 256
            body == p \o Bytes(v) \o Bytes(w)
<1>1. /\ v1 \in Byte /\ v2 \in Byte /\ 256 * v1 + v2 = v
      /\ w1 \in Byte /\ w2 \in Byte /\ 256 * w1 + w2 = w
  BY BytesFacts, Zenon
<1>2. body = p \o <<v1, v2>> \o <<w1, w2>>
  BY DEF Bytes
<1>. HIDE DEF v1, v2, w1, w2, body
<1>3. /\ body \in Seq(Byte) /\ Len(body) = Len(p) + 4
      /\ \A i \in 1 .. Len(p) : body[i] = p[i]
  BY <1>1, <1>2
<1>4. /\ body[Len(p) + 1] = v1 /\ body[Len(p) + 2] = v2
      /\ body[Len(p) + 3] = w1 /\ body[Len(p) + 4] = w2
  BY <1>1, <1>2
<1>5. Len(p) \in Nat
  OBVIOUS
<1>6. Len(p) + 1 + 1 = Len(p) + 2 /\ Len(p) + 3 + 1 = Len(p) + 4
  BY <1>5
<1>7. WordAt(body, Len(p) + 1) = v /\ WordAt(body, Len(p) + 3) = w
  BY <1>1, <1>4, <1>6 DEF WordAt
<1>8. HasWords(body, p, v, w)
  BY <1>3, <1>7, Zenon DEF HasWords
<1>. QED
  BY <1>8 DEF body

\* The beginning of a message (SubSeq).
LEMMA Beginning ==
  ASSUME NEW S, NEW s \in Seq(S), NEW k \in Nat, k <= Len(s)
  PROVE  /\ SubSeq(s, 1, k) \in Seq(S) /\ Len(SubSeq(s, 1, k)) = k
         /\ \A i \in 1 .. k : SubSeq(s, 1, k)[i] = s[i]
  OBVIOUS

\* modbus_mask_write_register
MaskCall(c) ==
  /\ c.fn = MASK_WRITE_REGISTER
  /\ c.addr \in Word16 /\ c.and_mask \in Word16 /\ c.or_mask \in Word16

LEMMA MaskRequest ==
  ASSUME NEW c, MaskCall(c)
  PROVE  LET body == RequestBody(c)
         IN  /\ Framed(body, "indication") /\ Len(body) = 8
             /\ body[2] = c.fn /\ WordAt(body, 3) = c.addr
             /\ WordAt(body, 5) = c.and_mask /\ WordAt(body, 7) = c.or_mask
<1>. DEFINE body == RequestBody(c)
            basis == build_request_basis_bytes(c.fn, c.addr, 0)
            p == SubSeq(basis, 1, 4)
<1>1. c.fn \in Byte /\ c.addr \in Word16 /\ 0 \in Word16 /\ c.fn = 22
  BY WordRange DEF MaskCall, Byte
<1>2. body = p \o Bytes(c.and_mask) \o Bytes(c.or_mask)
  BY BodyIs DEF MaskCall, modbus_mask_write_register
<1>. HIDE DEF body, basis
<1>3. /\ basis \in Seq(Byte) /\ Len(basis) = 6 /\ basis[1] = Slave /\ basis[2] = c.fn
      /\ WordAt(basis, 3) = c.addr
  BY <1>1, BasisFacts DEF basis
<1>0. p \in Seq(Byte) /\ Len(p) = 4 /\ \A i \in 1 .. 4 : p[i] = basis[i]
  BY <1>3, Beginning
<1>. HIDE DEF p
<1>4. p[1] = Slave /\ p[2] = c.fn /\ WordAt(p, 3) = c.addr
  BY <1>0, <1>3 DEF WordAt
<1>5. /\ body \in Seq(Byte) /\ Len(body) = 8
      /\ \A i \in 1 .. 4 : body[i] = p[i]
      /\ WordAt(body, 5) = c.and_mask /\ WordAt(body, 7) = c.or_mask
  <2>1. HasWords(body, p, c.and_mask, c.or_mask)
    BY <1>0, <1>2, TwoWords, Zenon DEF MaskCall
  <2>. QED
    BY <1>0, <2>1 DEF HasWords
<1>6. body[1] = Slave /\ body[2] = c.fn /\ WordAt(body, 3) = c.addr
  BY <1>4, <1>5 DEF WordAt
<1>7. body[8] \in Nat
  <2>1. 8 \in 1 .. Len(body)
    BY <1>5
  <2>. QED
    BY <1>5, <2>1, ByteOf, Zenon
<1>8. /\ compute_meta_length_after_function(c.fn, "indication") = 6
      /\ FramedLength(c.fn, body[8], "indication") = 10
  BY <1>1, <1>7, IndicationLengths
<1>9. Framed(body, "indication")
  BY <1>5, <1>6, <1>8 DEF Framed
<1>. QED
  BY <1>5, <1>6, <1>9 DEF body

\* modbus_report_slave_id
LEMMA ReportRequest ==
  ASSUME NEW c, c.fn = REPORT_SLAVE_ID
  PROVE  LET body == RequestBody(c)
         IN  Framed(body, "indication") /\ Len(body) = 2 /\ body[2] = c.fn
<1>. DEFINE body == RequestBody(c)
            basis == build_request_basis_bytes(c.fn, 0, 0)
<1>1. c.fn \in Byte /\ 0 \in Word16
  BY WordRange DEF Byte
<1>2. body = SubSeq(basis, 1, 2)
  BY BodyIs DEF modbus_report_slave_id
<1>. HIDE DEF body, basis
<1>3. basis \in Seq(Byte) /\ Len(basis) = 6 /\ basis[1] = Slave /\ basis[2] = c.fn
  BY <1>1, BasisFacts DEF basis
<1>4. body \in Seq(Byte) /\ Len(body) = 2 /\ body[1] = Slave /\ body[2] = c.fn
  <2>1. 2 \in Nat /\ 2 <= Len(basis)
    BY <1>3
  <2>2. body \in Seq(Byte) /\ Len(body) = 2 /\ \A i \in 1 .. 2 : body[i] = basis[i]
    BY <1>2, <1>3, <2>1, Beginning, Zenon
  <2>. QED
    BY <1>3, <2>2
<1>5. /\ compute_meta_length_after_function(c.fn, "indication") = 0
      /\ FramedLength(c.fn, c.fn, "indication") = 4
  BY IndicationLengths
<1>6. Framed(body, "indication")
  BY <1>4, <1>5 DEF Framed
<1>. QED
  BY <1>4, <1>6 DEF body

\* modbus_write_and_read_registers
WriteReadCall(c) ==
  /\ c.fn = WRITE_AND_READ_REGISTERS
  /\ c.addr \in Word16 /\ c.nb \in Nat /\ c.nb <= MAX_WR_READ_REGISTERS
  /\ c.write_addr \in Word16
  /\ c.values \in Seq(Word16) /\ Len(c.values) <= MAX_WR_WRITE_REGISTERS

LEMMA WriteReadRequest ==
  ASSUME NEW c, WriteReadCall(c)
  PROVE  LET body == RequestBody(c)
         IN  /\ Framed(body, "indication")
             /\ body[2] = c.fn /\ WordAt(body, 3) = c.addr /\ WordAt(body, 5) = c.nb
             /\ WordAt(body, 7) = c.write_addr /\ WordAt(body, 9) = Len(c.values)
             /\ body[11] = 2 * Len(c.values)
             /\ Len(body) = 11 + 2 * Len(c.values)
             /\ \A k \in 1 .. Len(c.values) : WordAt(body, 12 + 2 * (k - 1)) = c.values[k]
<1>. DEFINE body == RequestBody(c)
            n == Len(c.values)
            data == BytesOf(c.values)
            basis == build_request_basis_bytes(c.fn, c.addr, c.nb)
            p == basis \o Bytes(c.write_addr) \o Bytes(n)
<1>0. c.values \in Seq(Word16)
  BY DEF WriteReadCall
<1>1. n \in Nat /\ n <= 121 /\ c.fn = 23
  BY DEF WriteReadCall, MAX_WR_WRITE_REGISTERS
<1>. HIDE DEF n
<1>2. 2 * n \in Byte
  BY <1>1 DEF Byte
<1>3. c.fn \in Byte /\ c.addr \in Word16 /\ c.nb \in Word16 /\ c.write_addr \in Word16 /\ n \in Word16
  BY <1>1, WordRange DEF WriteReadCall, Byte, MAX_WR_READ_REGISTERS
<1>4. /\ data \in Seq(Byte) /\ Len(data) = 2 * n
      /\ \A k \in 1 .. n : 256 * data[2 * k - 1] + data[2 * k] = c.values[k]
  BY <1>0, BytesOfFacts, Zenon DEF n
<1>5. body = p \o <<2 * n>> \o data
  BY BodyIs DEF WriteReadCall, modbus_write_and_read_registers, n
<1>13. basis = build_request_basis_bytes(c.fn, c.addr, c.nb)
  OBVIOUS
<1>. HIDE DEF body, basis, data
<1>6. /\ basis \in Seq(Byte) /\ Len(basis) = 6 /\ basis[1] = Slave /\ basis[2] = c.fn
      /\ WordAt(basis, 3) = c.addr /\ WordAt(basis, 5) = c.nb
  BY <1>3, <1>13, BasisFacts
<1>7. /\ p \in Seq(Byte) /\ Len(p) = 10
      /\ \A i \in 1 .. 6 : p[i] = basis[i]
      /\ WordAt(p, 7) = c.write_addr /\ WordAt(p, 9) = n
  <2>1. HasWords(p, basis, c.write_addr, n)
    BY <1>3, <1>6, TwoWords, Zenon
  <2>. HIDE DEF p
  <2>. QED
    BY <1>6, <2>1 DEF HasWords
<1>. HIDE DEF p
<1>8. /\ body \in Seq(Byte) /\ Len(body) = 11 + 2 * n
      /\ \A i \in 1 .. 10 : body[i] = p[i]
      /\ body[11] = 2 * n
      /\ \A j \in 1 .. 2 * n : body[11 + j] = data[j]
  <2>1. IsCounted(body, p, 2 * n, data)
    BY <1>2, <1>4, <1>5, <1>7, Counted, Zenon
  <2>. QED
    BY <1>1, <1>7, <2>1 DEF IsCounted
<1>9. /\ body[1] = Slave /\ body[2] = c.fn
      /\ WordAt(body, 3) = c.addr /\ WordAt(body, 5) = c.nb
      /\ WordAt(body, 7) = c.write_addr /\ WordAt(body, 9) = n
  BY <1>6, <1>7, <1>8 DEF WordAt
<1>10. /\ compute_meta_length_after_function(c.fn, "indication") = 9
       /\ FramedLength(c.fn, 2 * n, "indication") = 13 + 2 * n
  BY <1>1, IndicationLengths
<1>11. Framed(body, "indication")
  BY <1>1, <1>8, <1>9, <1>10 DEF Framed
<1>12. ASSUME NEW k \in 1 .. n
       PROVE  WordAt(body, 12 + 2 * (k - 1)) = c.values[k]
  <2>1. /\ 2 * k - 1 \in 1 .. 2 * n /\ 2 * k \in 1 .. 2 * n
        /\ 12 + 2 * (k - 1) = 11 + (2 * k - 1) /\ 12 + 2 * (k - 1) + 1 = 11 + 2 * k
    BY <1>1
  <2>. QED
    BY <1>4, <1>8, <2>1 DEF WordAt
<1>. QED
  BY <1>1, <1>8, <1>9, <1>11, <1>12 DEF body, n

-----------------------------------------------------------------------------
\* What a call deserves

\* A message that is this body and a checksum.
Carries(msg, body) ==
  /\ body \in Seq(Byte) /\ 2 <= Len(body)
  /\ Len(msg) = Len(body) + 2 /\ Len(msg) - 2 = Len(body)
  /\ msg[1] = Slave /\ msg[2] = body[2]
  /\ \A i \in 1 .. Len(body) : msg[i] = body[i]
  /\ \A i \in 1 .. Len(body) - 1 : WordAt(msg, i) = WordAt(body, i)
  /\ \A i \in 1 .. Len(body) + 1, k \in 0 .. Len(body) : SubSeq(msg, i, k) = SubSeq(body, i, k)
  /\ SubSeq(msg, 1, Len(msg) - 2) = body

\* What one side reads is what the other wrote (send_msg_pre).
LEMMA Carried ==
  ASSUME NEW body \in Seq(Byte), 2 <= Len(body), body[1] = Slave,
         NEW msg, msg = send_msg_pre(body)
  PROVE  Carries(msg, body)
<1>. DEFINE n == Len(body)
<1>1. n \in Nat
  OBVIOUS
<1>2. /\ Len(msg) = n + 2
      /\ \A i \in 1 .. n : msg[i] = body[i]
      /\ \A i \in 1 .. n + 1, k \in 0 .. n : SubSeq(msg, i, k) = SubSeq(body, i, k)
      /\ SubSeq(msg, 1, n) = body
  <2>. DEFINE sent == send_msg_pre(body)
  <2>1. /\ Len(sent) = n + 2
        /\ \A i \in 1 .. n : sent[i] = body[i]
        /\ \A i \in 1 .. n + 1, k \in 0 .. n : SubSeq(sent, i, k) = SubSeq(body, i, k)
        /\ SubSeq(sent, 1, n) = body
    BY SentFacts, Zenon
  <2>. QED
    BY <2>1, Zenon
<1>3. Len(msg) - 2 = n
  BY <1>1, <1>2
<1>4. ASSUME NEW i \in 1 .. n - 1
      PROVE  WordAt(msg, i) = WordAt(body, i)
  <2>1. i \in 1 .. n /\ i + 1 \in 1 .. n
    BY <1>1
  <2>. QED
    BY <1>2, <2>1, Zenon DEF WordAt
<1>5. 1 \in 1 .. n /\ 2 \in 1 .. n
  BY <1>1
<1>6. msg[1] = Slave /\ msg[2] = body[2]
  BY <1>2, <1>5, Zenon
<1>. QED
  BY <1>2, <1>3, <1>4, <1>6, Zenon DEF Carries

\* The exception for nb values from an address on (response_exception).
SpanCode(nb, address, size) ==
  IF nb < 1 THEN ILLEGAL_DATA_VALUE
  ELSE IF address + nb > size THEN ILLEGAL_DATA_ADDRESS
  ELSE 0

LEMMA RefusalIs ==
  ASSUME NEW nb \in Nat, NEW max \in Nat, nb <= max, NEW address, NEW size
  PROVE  Refusal(nb, max, address, size) = SpanCode(nb, address, size)
  BY DEF Refusal, SpanCode

LEMMA SpanCodeIs ==
  ASSUME NEW nb \in Nat, NEW address \in Nat, NEW size \in Nat
  PROVE  LET s == address .. address + nb - 1
             code == SpanCode(nb, address, size)
         IN  /\ s = {} <=> code = 3
             /\ s # {} => (~(s \subseteq 0 .. size - 1) <=> code = 2)
             /\ code \in {0, 2, 3}
             /\ code = 0 => 1 <= nb /\ address + nb <= size
<1>. DEFINE s == address .. address + nb - 1
            code == SpanCode(nb, address, size)
<1>1. CASE nb < 1
  BY <1>1 DEF SpanCode, ILLEGAL_DATA_VALUE
<1>2. CASE ~(nb < 1) /\ address + nb > size
  <2>1. address \in s /\ address + nb - 1 \in s /\ address + nb - 1 \notin 0 .. size - 1
    BY <1>2
  <2>2. code = 2
    BY <1>2 DEF SpanCode, ILLEGAL_DATA_ADDRESS
  <2>. QED
    BY <2>1, <2>2
<1>3. CASE ~(nb < 1) /\ ~(address + nb > size)
  <2>1. address \in s /\ s \subseteq 0 .. size - 1
    BY <1>3
  <2>2. code = 0 /\ 1 <= nb /\ address + nb <= size
    BY <1>3 DEF SpanCode
  <2>. QED
    BY <2>1, <2>2
<1>. QED
  BY <1>1, <1>2, <1>3

\* The table a call is for has this many values.
SizeOf(c) == IF c.fn \in OnBits THEN NbBits ELSE NbRegisters

LEMMA SizeIsNat ==
  ASSUME NEW c
  PROVE  SizeOf(c) \in Nat
  BY CodecAssumption DEF SizeOf

\* What a call that touches one span deserves (Deserved).
LEMMA OneSpan ==
  ASSUME NEW c, NEW nb \in Nat, NEW address \in Nat,
         Spans(c) = {address .. address + nb - 1}
  PROVE  Deserved(c) = SpanCode(nb, address, SizeOf(c))
<1>. DEFINE s == address .. address + nb - 1
            code == SpanCode(nb, address, SizeOf(c))
<1>1. /\ s = {} <=> code = 3
      /\ s # {} => (~(s \subseteq 0 .. SizeOf(c) - 1) <=> code = 2)
      /\ code \in {0, 2, 3}
  BY SizeIsNat, SpanCodeIs, Zenon
<1>2. Deserved(c) = IF s = {} THEN 3
                    ELSE IF ~(s \subseteq 0 .. SizeOf(c) - 1) THEN 2 ELSE 0
  <2>1. Spans(c) = {s}
    OBVIOUS
  <2>. HIDE DEF s
  <2>. QED
    BY <2>1 DEF Deserved, SizeOf, ILLEGAL_DATA_VALUE, ILLEGAL_DATA_ADDRESS
<1>. HIDE DEF s, code
<1>. QED
  BY <1>1, <1>2 DEF code

\* What each kind of call deserves (Deserved).
LEMMA ReadDeserved ==
  ASSUME NEW c, ReadCall(c)
  PROVE  Deserved(c) = SpanCode(c.nb, c.addr, SizeOf(c))
<1>1. c.nb \in Nat /\ c.addr \in Nat /\ c.fn \in {1, 3}
  BY WordRange DEF ReadCall
<1>2. Spans(c) = {c.addr .. c.addr + c.nb - 1}
  BY <1>1 DEF Spans, Stores, Reads, WriteSingleFunctions, WriteMultipleFunctions
<1>. QED
  BY <1>1, <1>2, OneSpan

LEMMA SingleDeserved ==
  ASSUME NEW c, SingleCall(c)
  PROVE  Deserved(c) = SpanCode(1, c.addr, SizeOf(c))
<1>1. c.addr \in Nat /\ c.fn \in {5, 6}
  BY WordRange DEF SingleCall
<1>2. StoredAt(c) = c.addr /\ Len(StoredValues(c)) = 1
  BY <1>1 DEF StoredAt, StoredValues, Stores, WriteSingleFunctions, WriteMultipleFunctions
<1>3. Spans(c) = {c.addr .. c.addr + 1 - 1}
  BY <1>1, <1>2 DEF Spans, Stores, Reads, WriteSingleFunctions, WriteMultipleFunctions
<1>. QED
  BY <1>1, <1>3, OneSpan

LEMMA MultipleDeserved ==
  ASSUME NEW c, BitsCall(c) \/ RegistersCall(c)
  PROVE  Deserved(c) = SpanCode(Len(c.values), c.addr, SizeOf(c))
<1>1. c.addr \in Nat /\ c.fn \in {15, 16} /\ Len(c.values) \in Nat
  BY WordRange DEF BitsCall, RegistersCall
<1>2. StoredAt(c) = c.addr /\ StoredValues(c) = c.values
  BY <1>1 DEF StoredAt, StoredValues, Stores, WriteSingleFunctions, WriteMultipleFunctions
<1>3. Spans(c) = {c.addr .. c.addr + Len(c.values) - 1}
  BY <1>1, <1>2 DEF Spans, Stores, Reads, WriteSingleFunctions, WriteMultipleFunctions
<1>. QED
  BY <1>1, <1>3, OneSpan

LEMMA MaskDeserved ==
  ASSUME NEW c, MaskCall(c)
  PROVE  Deserved(c) = SpanCode(1, c.addr, NbRegisters)
<1>1. c.addr \in Nat /\ c.fn = 22
  BY WordRange DEF MaskCall
<1>2. Spans(c) = {{c.addr}}
  BY <1>1 DEF Spans, Stores, Reads, WriteSingleFunctions, WriteMultipleFunctions
<1>3. {c.addr} = c.addr .. c.addr + 1 - 1
  BY <1>1
<1>4. SizeOf(c) = NbRegisters
  BY <1>1 DEF SizeOf, OnBits
<1>. QED
  BY <1>1, <1>2, <1>3, <1>4, OneSpan

LEMMA ReportDeserved ==
  ASSUME NEW c, c.fn = REPORT_SLAVE_ID
  PROVE  Deserved(c) = 0
<1>1. Spans(c) = {}
  BY DEF Spans, Stores, Reads, WriteSingleFunctions, WriteMultipleFunctions
<1>. QED
  BY <1>1 DEF Deserved

LEMMA WriteReadDeserved ==
  ASSUME NEW c, WriteReadCall(c)
  PROVE  LET read == SpanCode(c.nb, c.addr, NbRegisters)
             written == SpanCode(Len(c.values), c.write_addr, NbRegisters)
         IN  Deserved(c) = IF 3 \in {read, written} THEN 3
                           ELSE IF 2 \in {read, written} THEN 2 ELSE 0
<1>. DEFINE read == SpanCode(c.nb, c.addr, NbRegisters)
            written == SpanCode(Len(c.values), c.write_addr, NbRegisters)
            r == c.addr .. c.addr + c.nb - 1
            w == c.write_addr .. c.write_addr + Len(c.values) - 1
<1>1. /\ c.addr \in Nat /\ c.write_addr \in Nat /\ c.nb \in Nat /\ Len(c.values) \in Nat
      /\ c.fn = 23 /\ NbRegisters \in Nat
  BY WordRange, CodecAssumption DEF WriteReadCall
<1>2. StoredAt(c) = c.write_addr /\ StoredValues(c) = c.values
  BY <1>1 DEF StoredAt, StoredValues, Stores, WriteSingleFunctions, WriteMultipleFunctions
<1>3. Spans(c) = {r, w}
  BY <1>1, <1>2 DEF Spans, Stores, Reads, WriteSingleFunctions, WriteMultipleFunctions
<1>4. /\ r = {} <=> read = 3
      /\ r # {} => (~(r \subseteq 0 .. NbRegisters - 1) <=> read = 2)
      /\ read \in {0, 2, 3}
  BY <1>1, SpanCodeIs, Zenon
<1>5. /\ w = {} <=> written = 3
      /\ w # {} => (~(w \subseteq 0 .. NbRegisters - 1) <=> written = 2)
      /\ written \in {0, 2, 3}
  BY <1>1, SpanCodeIs, Zenon
<1>6. c.fn \notin OnBits
  BY <1>1 DEF OnBits
<1>. HIDE DEF r, w, read, written
<1>7. Deserved(c) = IF {} \in {r, w} THEN 3
                    ELSE IF \E s \in {r, w} : ~(s \subseteq 0 .. NbRegisters - 1) THEN 2 ELSE 0
  BY <1>3, <1>6 DEF Deserved, ILLEGAL_DATA_VALUE, ILLEGAL_DATA_ADDRESS
<1>8. Deserved(c) = IF 3 \in {read, written} THEN 3
                    ELSE IF 2 \in {read, written} THEN 2 ELSE 0
  BY <1>4, <1>5, <1>7
<1>. QED
  BY <1>8 DEF read, written

-----------------------------------------------------------------------------
\* What executing a call means

\* A call stores nothing in the table it is not for.
LEMMA NotForBits ==
  ASSUME NEW c, c.fn \notin OnBits, NEW old
  PROVE  Executed(c, TRUE, old, old)
  BY DEF Executed

LEMMA NotForRegisters ==
  ASSUME NEW c, c.fn \in OnBits, NEW old
  PROVE  Executed(c, FALSE, old, old)
  BY DEF Executed

\* A call that stores nothing leaves the tables alone.
LEMMA StoresNothing ==
  ASSUME NEW c, c.fn \notin Stores, c.fn # MASK_WRITE_REGISTER, NEW onBits, NEW old
  PROVE  Executed(c, onBits, old, old)
<1>1. StoredValues(c) = <<>>
  BY Zenon DEF StoredValues
<1>2. DOMAIN StoredValues(c) = {}
  BY <1>1
<1>. QED
  BY <1>2, Zenon DEF Executed

\* A call whose values stand at their addresses is executed.
LEMMA StoresItsValues ==
  ASSUME NEW c, c.fn # MASK_WRITE_REGISTER, NEW onBits, NEW old, NEW new,
         \A a \in DOMAIN old :
           new[a] = IF a - StoredAt(c) + 1 \in DOMAIN StoredValues(c)
                      THEN StoredValues(c)[a - StoredAt(c) + 1] ELSE old[a],
         (c.fn \in OnBits) = onBits
  PROVE  Executed(c, onBits, old, new)
  BY Zenon DEF Executed

-----------------------------------------------------------------------------
\* The server

TablesOK ==
  /\ tab_bits \in [0 .. NbBits - 1 -> 0 .. 1]
  /\ tab_registers \in [0 .. NbRegisters - 1 -> Word16]

\* The body of the answer a call is given, by tables that were served it.
AnswerBody(c) ==
  IF Deserved(c) # 0 THEN <<Slave, c.fn + EXCEPTION_BIT, Deserved(c)>>
  ELSE IF c.fn = READ_COILS THEN <<Slave, c.fn, BitBytes(c.nb)>> \o Packed(ReadValues(c))
  ELSE IF c.fn \in Reads THEN <<Slave, c.fn, 2 * c.nb>> \o BytesOf(ReadValues(c))
  ELSE IF c.fn = REPORT_SLAVE_ID THEN <<Slave, c.fn, Len(slave_id)>> \o slave_id
  ELSE IF c.fn \in WriteMultipleFunctions THEN SubSeq(RequestBody(c), 1, 6)
  ELSE RequestBody(c)

\* A call that has been served: executed if it deserves to be, and answered.
Served(c) ==
  /\ TablesOK'
  /\ IF Deserved(c) # 0 THEN UNCHANGED <<tab_bits, tab_registers>>
     ELSE /\ Executed(c, TRUE, tab_bits, tab_bits')
          /\ Executed(c, FALSE, tab_registers, tab_registers')
  /\ line' = send_msg_pre(AnswerBody(c)')

\* A request is served by the branch of its function (modbus_reply).
LEMMA Dispatch ==
  ASSUME NEW msg, modbus_reply(msg)
  PROVE  LET address == WordAt(msg, 3)
         IN  /\ msg[2] = READ_COILS => reply_read_bits(msg, address)
             /\ msg[2] = READ_HOLDING_REGISTERS => reply_read_registers(msg, address)
             /\ msg[2] = WRITE_SINGLE_COIL => reply_write_bit(msg, address)
             /\ msg[2] = WRITE_SINGLE_REGISTER => reply_write_register(msg, address)
             /\ msg[2] = WRITE_MULTIPLE_COILS => reply_write_bits(msg, address)
             /\ msg[2] = WRITE_MULTIPLE_REGISTERS => reply_write_registers(msg, address)
             /\ msg[2] = MASK_WRITE_REGISTER => reply_mask_write_register(msg, address)
             /\ msg[2] = WRITE_AND_READ_REGISTERS => reply_write_and_read_registers(msg, address)
             /\ msg[2] = REPORT_SLAVE_ID => reply_report_slave_id(msg)
<1>. DEFINE address == WordAt(msg, 3)
<1>. HIDE DEF address
<1>1. reply_read_bits(msg, address) => msg[2] = READ_COILS
  BY Zenon DEF reply_read_bits
<1>2. reply_read_registers(msg, address) => msg[2] = READ_HOLDING_REGISTERS
  BY Zenon DEF reply_read_registers
<1>3. reply_write_bit(msg, address) => msg[2] = WRITE_SINGLE_COIL
  BY DEF reply_write_bit
<1>4. reply_write_register(msg, address) => msg[2] = WRITE_SINGLE_REGISTER
  BY Zenon DEF reply_write_register
<1>5. reply_write_bits(msg, address) => msg[2] = WRITE_MULTIPLE_COILS
  BY Zenon DEF reply_write_bits
<1>6. reply_write_registers(msg, address) => msg[2] = WRITE_MULTIPLE_REGISTERS
  BY Zenon DEF reply_write_registers
<1>7. reply_mask_write_register(msg, address) => msg[2] = MASK_WRITE_REGISTER
  BY Zenon DEF reply_mask_write_register
<1>8. reply_write_and_read_registers(msg, address) => msg[2] = WRITE_AND_READ_REGISTERS
  BY Zenon DEF reply_write_and_read_registers
<1>9. reply_report_slave_id(msg) => msg[2] = REPORT_SLAVE_ID
  BY Zenon DEF reply_report_slave_id
<1>10. \/ reply_read_bits(msg, address)
       \/ reply_read_registers(msg, address)
       \/ reply_write_bit(msg, address)
       \/ reply_write_register(msg, address)
       \/ reply_write_bits(msg, address)
       \/ reply_write_registers(msg, address)
       \/ reply_mask_write_register(msg, address)
       \/ reply_write_and_read_registers(msg, address)
       \/ reply_report_slave_id(msg)
  BY Zenon DEF modbus_reply, address
<1>. QED
  BY <1>1, <1>2, <1>3, <1>4, <1>5, <1>6, <1>7, <1>8, <1>9, <1>10 DEF address

\* A call that is refused is served by an exception (response_exception).
LEMMA RefusedIsServed ==
  ASSUME NEW c, NEW msg, NEW code, TablesOK,
         msg[1] = Slave, msg[2] = c.fn, code = Deserved(c), response_exception(msg, code)
  PROVE  Served(c)
<1>1. code # 0 /\ UNCHANGED <<tab_bits, tab_registers>>
  BY Zenon DEF response_exception
<1>2. line' = send_msg_pre(<<Slave, c.fn + EXCEPTION_BIT, code>>)
  BY Zenon DEF response_exception, Reply
<1>3. TablesOK'
  BY <1>1, Zenon DEF TablesOK
<1>4. AnswerBody(c)' = <<Slave, c.fn + EXCEPTION_BIT, code>>
  BY <1>1, Zenon DEF AnswerBody
<1>. QED
  BY <1>1, <1>2, <1>3, <1>4, Zenon DEF Served

\* So is a framed message (Framed), as a request on the line is.
LEMMA FramedIsCarried ==
  ASSUME NEW body, NEW type, Framed(body, type), NEW msg, msg = send_msg_pre(body)
  PROVE  Carries(msg, body)
<1>1. /\ body \in Seq(Byte) /\ body[1] = Slave
      /\ compute_meta_length_after_function(body[2], type) \in Nat
      /\ 2 + compute_meta_length_after_function(body[2], type) <= Len(body)
  BY Zenon DEF Framed
<1>2. 2 <= Len(body)
  BY <1>1
<1>. QED
  BY <1>1, <1>2, Carried, Zenon

LEMMA OnTheLine ==
  ASSUME NEW c, NEW msg, msg = RequestBytes(c), Framed(RequestBody(c), "indication")
  PROVE  Carries(msg, RequestBody(c))
<1>1. msg = send_msg_pre(RequestBody(c))
  BY RequestIs, Zenon
<1>. QED
  BY <1>1, FramedIsCarried, Zenon

\* What was read fits the tables (response_io_status).
LEMMA ReadInTable ==
  ASSUME NEW c, TablesOK, Deserved(c) = 0
  PROVE  /\ ReadCall(c) /\ c.fn = READ_COILS => ReadValues(c) \in Seq(0 .. 1)
         /\ ReadCall(c) /\ c.fn = READ_HOLDING_REGISTERS => ReadValues(c) \in Seq(Word16)
         /\ WriteReadCall(c) => ReadValues(c) \in Seq(Word16)
         /\ ReadCall(c) \/ WriteReadCall(c) => Len(ReadValues(c)) = c.nb /\ c.nb \in Nat
<1>1. ASSUME ReadCall(c) \/ WriteReadCall(c)
      PROVE  /\ c.nb \in Nat /\ c.addr \in Nat
             /\ Len(ReadValues(c)) = c.nb
  <2>1. c.nb \in Nat /\ c.addr \in Nat
    BY <1>1, WordRange DEF ReadCall, WriteReadCall
  <2>. QED
    BY <2>1 DEF ReadValues
<1>2. ASSUME NEW size \in Nat, NEW nb \in Nat, NEW address \in Nat, SpanCode(nb, address, size) = 0,
             NEW k \in 1 .. nb
      PROVE  address + k - 1 \in 0 .. size - 1
  <2>1. address + nb <= size
    BY <1>2, SpanCodeIs
  <2>. QED
    BY <2>1
<1>3. NbBits \in Nat /\ NbRegisters \in Nat
  BY CodecAssumption
<1>4. ASSUME ReadCall(c), c.fn = READ_COILS
      PROVE  ReadValues(c) \in Seq(0 .. 1)
  <2>1. SpanCode(c.nb, c.addr, NbBits) = 0
    BY <1>4, ReadDeserved DEF SizeOf, OnBits
  <2>2. \A k \in 1 .. c.nb : c.addr + k - 1 \in 0 .. NbBits - 1
    BY <1>1, <1>2, <1>3, <1>4, <2>1
  <2>3. \A k \in 1 .. c.nb : tab_bits[c.addr + k - 1] \in 0 .. 1
    BY <2>2 DEF TablesOK
  <2>4. ReadValues(c) = [k \in 1 .. c.nb |-> tab_bits[c.addr + k - 1]]
    BY <1>4 DEF ReadValues
  <2>. QED
    BY <1>1, <1>4, <2>3, <2>4
<1>5. ASSUME (ReadCall(c) /\ c.fn = READ_HOLDING_REGISTERS) \/ WriteReadCall(c)
      PROVE  ReadValues(c) \in Seq(Word16)
  <2>1. SpanCode(c.nb, c.addr, NbRegisters) = 0
    <3>1. CASE ReadCall(c) /\ c.fn = READ_HOLDING_REGISTERS
      BY <3>1, ReadDeserved DEF SizeOf, OnBits
    <3>2. CASE WriteReadCall(c)
      <4>. DEFINE r == SpanCode(c.nb, c.addr, NbRegisters)
                  w == SpanCode(Len(c.values), c.write_addr, NbRegisters)
      <4>1. 0 = IF 3 \in {r, w} THEN 3 ELSE IF 2 \in {r, w} THEN 2 ELSE 0
        BY <3>2, WriteReadDeserved
      <4>2. r \in {0, 2, 3}
        BY <1>1, <1>3, <3>2, SpanCodeIs
      <4>. HIDE DEF r, w
      <4>3. r = 0
        BY <4>1, <4>2
      <4>. QED
        BY <4>3 DEF r
    <3>. QED
      BY <1>5, <3>1, <3>2
  <2>2. \A k \in 1 .. c.nb : c.addr + k - 1 \in 0 .. NbRegisters - 1
    BY <1>1, <1>2, <1>3, <1>5, <2>1
  <2>3. \A k \in 1 .. c.nb : tab_registers[c.addr + k - 1] \in Word16
    BY <2>2 DEF TablesOK
  <2>4. ReadValues(c) = [k \in 1 .. c.nb |-> tab_registers[c.addr + k - 1]]
    BY <1>5 DEF ReadValues, WriteReadCall
  <2>. QED
    BY <1>1, <1>5, <2>3, <2>4
<1>. QED
  BY <1>1, <1>4, <1>5

\* reply_read_bits (modbus_reply, response_io_status)
LEMMA ServesReadBits ==
  ASSUME NEW c, ReadCall(c), c.fn = READ_COILS, TablesOK,
         NEW msg, msg = RequestBytes(c), modbus_reply(msg)
  PROVE  Served(c)
<1>. DEFINE body == RequestBody(c)
            code == Refusal(c.nb, MAX_READ_BITS, c.addr, NbBits)
<1>1. /\ Framed(body, "indication") /\ Len(body) = 6
      /\ body[2] = c.fn /\ WordAt(body, 3) = c.addr /\ WordAt(body, 5) = c.nb
  BY ReadRequest, Zenon
<1>2. /\ msg[1] = Slave /\ msg[2] = c.fn
      /\ WordAt(msg, 3) = c.addr /\ WordAt(msg, 5) = c.nb
  <2>1. Carries(msg, body)
    BY <1>1, OnTheLine, Zenon
  <2>. HIDE DEF body
  <2>. QED
    BY <1>1, <2>1 DEF Carries
<1>. HIDE DEF body
<1>3. reply_read_bits(msg, c.addr)
  BY <1>2, Dispatch
<1>4. code = Deserved(c)
  <2>1. SizeOf(c) = NbBits /\ c.nb \in Nat /\ c.nb <= MAX_READ_BITS /\ MAX_READ_BITS \in Nat
    BY DEF SizeOf, OnBits, ReadCall, MAX_READ_BITS
  <2>2. Deserved(c) = SpanCode(c.nb, c.addr, NbBits)
    BY <2>1, ReadDeserved
  <2>3. code = SpanCode(c.nb, c.addr, NbBits)
    BY <2>1, RefusalIs
  <2>. QED
    BY <2>2, <2>3, Zenon
<1>5. \/ response_exception(msg, code)
      \/ /\ code = 0
         /\ Reply(<<msg[1], msg[2], BitBytes(c.nb)>> \o response_io_status(c.addr, c.nb))
         /\ UNCHANGED <<tab_bits, tab_registers>>
  BY <1>2, <1>3, Zenon DEF reply_read_bits
<1>. HIDE DEF code
<1>6. CASE response_exception(msg, code)
  BY <1>2, <1>4, <1>6, RefusedIsServed, Zenon
<1>7. ASSUME code = 0,
             Reply(<<msg[1], msg[2], BitBytes(c.nb)>> \o response_io_status(c.addr, c.nb)),
             UNCHANGED <<tab_bits, tab_registers>>
      PROVE  Served(c)
  <2>1. ReadValues(c)' = [k \in 1 .. c.nb |-> tab_bits[c.addr + k - 1]]
    BY <1>7 DEF ReadValues
  <2>2. AnswerBody(c)' = <<Slave, c.fn, BitBytes(c.nb)>> \o Packed(ReadValues(c)')
    BY <1>4, <1>7, Zenon DEF AnswerBody
  <2>3. response_io_status(c.addr, c.nb) = Packed([k \in 1 .. c.nb |-> tab_bits[c.addr + k - 1]])
    <3>1. ReadValues(c) \in Seq(0 .. 1) /\ Len(ReadValues(c)) = c.nb /\ c.nb \in Nat
      BY <1>4, <1>7, ReadInTable, Zenon
    <3>2. ReadValues(c) = [k \in 1 .. c.nb |-> tab_bits[c.addr + k - 1]]
      BY DEF ReadValues
    <3>3. \A k \in 1 .. c.nb : tab_bits[c.addr + k - 1] \in 0 .. 1
      BY <3>1, <3>2
    <3>. QED
      BY <3>1, <3>3, LoopPacks, Zenon
  <2>4. line' = send_msg_pre(AnswerBody(c)')
    BY <1>2, <1>7, <2>1, <2>2, <2>3, Zenon DEF Reply
  <2>5. TablesOK'
    BY <1>7, Zenon DEF TablesOK
  <2>6. c.fn \notin Stores /\ c.fn # MASK_WRITE_REGISTER
    BY DEF Stores, WriteSingleFunctions, WriteMultipleFunctions
  <2>. QED
    BY <1>4, <1>7, <2>4, <2>5, <2>6, StoresNothing, Zenon DEF Served
<1>. QED
  BY <1>5, <1>6, <1>7, Zenon

\* reply_read_registers (modbus_reply, response_io_status)
LEMMA ServesReadRegisters ==
  ASSUME NEW c, ReadCall(c), c.fn = READ_HOLDING_REGISTERS, TablesOK,
         NEW msg, msg = RequestBytes(c), modbus_reply(msg)
  PROVE  Served(c)
<1>. DEFINE body == RequestBody(c)
            code == Refusal(c.nb, MAX_READ_REGISTERS, c.addr, NbRegisters)
            rsp == <<msg[1], msg[2], 2 * c.nb>> \o BytesOf(RegistersAt(tab_registers, c.addr, c.nb))
<1>1. /\ Framed(body, "indication") /\ Len(body) = 6
      /\ body[2] = c.fn /\ WordAt(body, 3) = c.addr /\ WordAt(body, 5) = c.nb
  BY ReadRequest, Zenon
<1>2. /\ msg[1] = Slave /\ msg[2] = c.fn
      /\ WordAt(msg, 3) = c.addr /\ WordAt(msg, 5) = c.nb
  <2>1. Carries(msg, body)
    BY <1>1, OnTheLine, Zenon
  <2>. HIDE DEF body
  <2>. QED
    BY <1>1, <2>1 DEF Carries
<1>. HIDE DEF body
<1>3. reply_read_registers(msg, c.addr)
  BY <1>2, Dispatch
<1>4. code = Deserved(c)
  <2>1. /\ SizeOf(c) = NbRegisters
        /\ c.nb \in Nat /\ c.nb <= MAX_READ_REGISTERS /\ MAX_READ_REGISTERS \in Nat
    BY DEF SizeOf, OnBits, ReadCall, MAX_READ_REGISTERS
  <2>2. Deserved(c) = SpanCode(c.nb, c.addr, NbRegisters)
    BY <2>1, ReadDeserved
  <2>3. code = SpanCode(c.nb, c.addr, NbRegisters)
    BY <2>1, RefusalIs
  <2>. QED
    BY <2>2, <2>3, Zenon
<1>5. \/ response_exception(msg, code)
      \/ code = 0 /\ Reply(rsp) /\ UNCHANGED <<tab_bits, tab_registers>>
  BY <1>2, <1>3, Zenon DEF reply_read_registers
<1>. HIDE DEF code
<1>6. CASE response_exception(msg, code)
  BY <1>2, <1>4, <1>6, RefusedIsServed, Zenon
<1>7. ASSUME code = 0, Reply(rsp), UNCHANGED <<tab_bits, tab_registers>>
      PROVE  Served(c)
  <2>1. ReadValues(c)' = RegistersAt(tab_registers, c.addr, c.nb)
    BY <1>7 DEF ReadValues, RegistersAt
  <2>2. c.fn # READ_COILS /\ c.fn \in Reads
    BY DEF Reads
  <2>3. AnswerBody(c)' = <<Slave, c.fn, 2 * c.nb>> \o BytesOf(ReadValues(c)')
    BY <1>4, <1>7, <2>2, Zenon DEF AnswerBody
  <2>4. line' = send_msg_pre(AnswerBody(c)')
    BY <1>2, <1>7, <2>1, <2>3, Zenon DEF Reply
  <2>5. TablesOK'
    BY <1>7, Zenon DEF TablesOK
  <2>6. c.fn \notin Stores /\ c.fn # MASK_WRITE_REGISTER
    BY DEF Stores, WriteSingleFunctions, WriteMultipleFunctions
  <2>. QED
    BY <1>4, <1>7, <2>4, <2>5, <2>6, StoresNothing, Zenon DEF Served
<1>. QED
  BY <1>5, <1>6, <1>7, Zenon

\* reply_write_bit (modbus_reply)
LEMMA ServesWriteBit ==
  ASSUME NEW c, SingleCall(c), c.fn = WRITE_SINGLE_COIL, TablesOK,
         NEW msg, msg = RequestBytes(c), modbus_reply(msg)
  PROVE  Served(c)
<1>. DEFINE body == RequestBody(c)
            held == Refusal(1, 1, c.addr, NbBits)
            data == WordAt(msg, 5)
            code == IF held = 0 /\ data \notin {0, 65280} THEN ILLEGAL_DATA_VALUE ELSE held
            bit == IF c.value = 0 THEN 0 ELSE 1
            echo == SubSeq(msg, 1, Len(msg) - 2)
<1>1. /\ Framed(body, "indication") /\ Len(body) = 6
      /\ body[2] = c.fn /\ WordAt(body, 3) = c.addr /\ WordAt(body, 5) = OnLine(c)
  BY SingleRequest, Zenon
<1>2. /\ msg[1] = Slave /\ msg[2] = c.fn /\ echo = body
      /\ WordAt(msg, 3) = c.addr /\ data = OnLine(c)
  <2>1. Carries(msg, body)
    BY <1>1, OnTheLine, Zenon
  <2>. HIDE DEF body
  <2>. QED
    BY <1>1, <2>1 DEF Carries
<1>. HIDE DEF body
<1>3. reply_write_bit(msg, c.addr)
  BY <1>2, Dispatch
<1>4. code = Deserved(c) /\ Deserved(c) = SpanCode(1, c.addr, NbBits)
  <2>1. SizeOf(c) = NbBits
    BY DEF SizeOf, OnBits
  <2>2. Deserved(c) = SpanCode(1, c.addr, NbBits)
    BY <2>1, SingleDeserved
  <2>3. held = SpanCode(1, c.addr, NbBits)
    BY RefusalIs
  <2>4. data \in {0, 65280}
    BY <1>2 DEF OnLine
  <2>. QED
    BY <2>2, <2>3, <2>4
<1>5. \/ response_exception(msg, code)
      \/ /\ code = 0
         /\ tab_bits' = [tab_bits EXCEPT ![c.addr] = bit]
         /\ Reply(echo)
         /\ UNCHANGED tab_registers
  <2>1. (IF data # 0 THEN 1 ELSE 0) = bit
    BY <1>2 DEF OnLine
  <2>. HIDE DEF bit
  <2>. QED
    BY <1>3, <2>1 DEF reply_write_bit
<1>. HIDE DEF code, echo, data
<1>6. CASE response_exception(msg, code)
  BY <1>2, <1>4, <1>6, RefusedIsServed, Zenon
<1>7. ASSUME code = 0, tab_bits' = [tab_bits EXCEPT ![c.addr] = bit], Reply(echo),
             UNCHANGED tab_registers
      PROVE  Served(c)
  <2>1. c.addr \in Nat /\ bit \in 0 .. 1
    BY WordRange DEF SingleCall
  <2>2. TablesOK'
    BY <1>7, <2>1 DEF TablesOK
  <2>3. StoredAt(c) = c.addr /\ StoredValues(c) = <<bit>>
    BY DEF StoredAt, StoredValues, Stores, WriteSingleFunctions
  <2>. HIDE DEF bit
  <2>4. \A a \in DOMAIN tab_bits :
          tab_bits'[a] = IF a - StoredAt(c) + 1 \in DOMAIN StoredValues(c)
                           THEN StoredValues(c)[a - StoredAt(c) + 1] ELSE tab_bits[a]
    <3>1. \A a \in DOMAIN tab_bits : a \in Int
      BY DEF TablesOK
    <3>2. DOMAIN <<bit>> = 1 .. 1 /\ <<bit>>[1] = bit
      OBVIOUS
    <3>3. ASSUME NEW a \in DOMAIN tab_bits
          PROVE  tab_bits'[a] = IF a - c.addr + 1 \in 1 .. 1 THEN bit ELSE tab_bits[a]
      BY <1>7, <2>1, <3>1
    <3>. QED
      BY <2>1, <2>3, <3>1, <3>2, <3>3
  <2>5. Executed(c, TRUE, tab_bits, tab_bits')
    <3>1. (c.fn \in OnBits) = TRUE /\ c.fn # MASK_WRITE_REGISTER
      BY DEF OnBits
    <3>. QED
      BY <2>4, <3>1, StoresItsValues, Zenon
  <2>6. Executed(c, FALSE, tab_registers, tab_registers')
    <3>1. c.fn \in OnBits
      BY DEF OnBits
    <3>. QED
      BY <1>7, <3>1, NotForRegisters, Zenon
  <2>7. AnswerBody(c)' = body
    <3>1. /\ c.fn # READ_COILS /\ c.fn \notin Reads /\ c.fn # REPORT_SLAVE_ID
          /\ c.fn \notin WriteMultipleFunctions
      BY DEF Reads, WriteMultipleFunctions
    <3>. QED
      BY <1>4, <1>7, <3>1, Zenon DEF AnswerBody, body
  <2>8. line' = send_msg_pre(AnswerBody(c)')
    BY <1>2, <1>7, <2>7, Zenon DEF Reply
  <2>. QED
    BY <1>4, <1>7, <2>2, <2>5, <2>6, <2>8, Zenon DEF Served
<1>. QED
  BY <1>5, <1>6, <1>7, Zenon

\* reply_write_register (modbus_reply)
LEMMA ServesWriteRegister ==
  ASSUME NEW c, SingleCall(c), c.fn = WRITE_SINGLE_REGISTER, TablesOK,
         NEW msg, msg = RequestBytes(c), modbus_reply(msg)
  PROVE  Served(c)
<1>. DEFINE body == RequestBody(c)
            code == Refusal(1, 1, c.addr, NbRegisters)
            echo == SubSeq(msg, 1, Len(msg) - 2)
<1>1. /\ Framed(body, "indication") /\ Len(body) = 6
      /\ body[2] = c.fn /\ WordAt(body, 3) = c.addr /\ WordAt(body, 5) = OnLine(c)
  BY SingleRequest, Zenon
<1>2. /\ msg[1] = Slave /\ msg[2] = c.fn /\ echo = body
      /\ WordAt(msg, 3) = c.addr /\ WordAt(msg, 5) = c.value
  <2>1. Carries(msg, body)
    BY <1>1, OnTheLine, Zenon
  <2>. HIDE DEF body
  <2>. QED
    BY <1>1, <2>1 DEF Carries, OnLine
<1>. HIDE DEF body
<1>3. reply_write_register(msg, c.addr)
  BY <1>2, Dispatch
<1>4. code = Deserved(c)
  <2>1. SizeOf(c) = NbRegisters
    BY DEF SizeOf, OnBits
  <2>2. Deserved(c) = SpanCode(1, c.addr, NbRegisters)
    BY <2>1, SingleDeserved
  <2>3. code = SpanCode(1, c.addr, NbRegisters)
    BY RefusalIs
  <2>. QED
    BY <2>2, <2>3
<1>5. \/ response_exception(msg, code)
      \/ /\ code = 0
         /\ tab_registers' = [tab_registers EXCEPT ![c.addr] = c.value]
         /\ Reply(echo)
         /\ UNCHANGED tab_bits
  BY <1>2, <1>3, Zenon DEF reply_write_register
<1>. HIDE DEF code, echo
<1>6. CASE response_exception(msg, code)
  BY <1>2, <1>4, <1>6, RefusedIsServed, Zenon
<1>7. ASSUME code = 0, tab_registers' = [tab_registers EXCEPT ![c.addr] = c.value], Reply(echo),
             UNCHANGED tab_bits
      PROVE  Served(c)
  <2>1. c.addr \in Nat /\ c.value \in Word16
    BY WordRange DEF SingleCall
  <2>2. TablesOK'
    BY <1>7, <2>1 DEF TablesOK
  <2>3. StoredAt(c) = c.addr /\ StoredValues(c) = <<c.value>>
    BY DEF StoredAt, StoredValues, Stores, WriteSingleFunctions
  <2>4. \A a \in DOMAIN tab_registers :
          tab_registers'[a] = IF a - StoredAt(c) + 1 \in DOMAIN StoredValues(c)
                                THEN StoredValues(c)[a - StoredAt(c) + 1] ELSE tab_registers[a]
    <3>1. \A a \in DOMAIN tab_registers : a \in Int
      BY DEF TablesOK
    <3>2. DOMAIN <<c.value>> = 1 .. 1 /\ <<c.value>>[1] = c.value
      OBVIOUS
    <3>3. ASSUME NEW a \in DOMAIN tab_registers
          PROVE  tab_registers'[a] = IF a - c.addr + 1 \in 1 .. 1 THEN c.value ELSE tab_registers[a]
      BY <1>7, <2>1, <3>1
    <3>. QED
      BY <2>1, <2>3, <3>1, <3>2, <3>3
  <2>5. Executed(c, FALSE, tab_registers, tab_registers')
    <3>1. (c.fn \in OnBits) = FALSE /\ c.fn # MASK_WRITE_REGISTER
      BY DEF OnBits
    <3>. QED
      BY <2>4, <3>1, StoresItsValues, Zenon
  <2>6. Executed(c, TRUE, tab_bits, tab_bits')
    <3>1. c.fn \notin OnBits
      BY DEF OnBits
    <3>. QED
      BY <1>7, <3>1, NotForBits, Zenon
  <2>7. AnswerBody(c)' = body
    <3>1. /\ c.fn # READ_COILS /\ c.fn \notin Reads /\ c.fn # REPORT_SLAVE_ID
          /\ c.fn \notin WriteMultipleFunctions
      BY DEF Reads, WriteMultipleFunctions
    <3>. QED
      BY <1>4, <1>7, <3>1, Zenon DEF AnswerBody, body
  <2>8. line' = send_msg_pre(AnswerBody(c)')
    BY <1>2, <1>7, <2>7, Zenon DEF Reply
  <2>. QED
    BY <1>4, <1>7, <2>2, <2>5, <2>6, <2>8, Zenon DEF Served
<1>. QED
  BY <1>5, <1>6, <1>7, Zenon

\* reply_write_bits (modbus_reply, modbus_set_bits_from_bytes)
LEMMA ServesWriteBits ==
  ASSUME NEW c, BitsCall(c), TablesOK, NEW msg, msg = RequestBytes(c), modbus_reply(msg)
  PROVE  Served(c)
<1>. DEFINE body == RequestBody(c)
            n == Len(c.values)
            code == Refusal(n, MAX_WRITE_BITS, c.addr, NbBits)
            bytes == SubSeq(msg, 8, Len(msg) - 2)
            echo == SubSeq(msg, 1, 6)
            new == modbus_set_bits_from_bytes(c.addr, n, bytes)
<1>0. /\ c.fn = WRITE_MULTIPLE_COILS /\ c.addr \in Nat
      /\ n \in Nat /\ n <= MAX_WRITE_BITS /\ MAX_WRITE_BITS \in Nat
      /\ c.values \in Seq(0 .. 1)
  BY WordRange DEF BitsCall, MAX_WRITE_BITS
<1>1. /\ Framed(body, "indication") /\ 7 <= Len(body)
      /\ body[2] = c.fn /\ WordAt(body, 3) = c.addr /\ WordAt(body, 5) = n
      /\ SubSeq(body, 8, Len(body)) = Packed(c.values)
  BY BitsRequest, Zenon
<1>2. /\ msg[1] = Slave /\ msg[2] = c.fn
      /\ WordAt(msg, 3) = c.addr /\ WordAt(msg, 5) = n
      /\ bytes = Packed(c.values) /\ echo = SubSeq(body, 1, 6)
  <2>1. Carries(msg, body)
    BY <1>1, OnTheLine, Zenon
  <2>. HIDE DEF body
  <2>2. Len(body) \in Nat /\ 3 \in 1 .. Len(body) - 1 /\ 5 \in 1 .. Len(body) - 1
    BY <1>1, <2>1 DEF Carries
  <2>3. /\ 8 \in 1 .. Len(body) + 1 /\ Len(body) \in 0 .. Len(body)
        /\ 1 \in 1 .. Len(body) + 1 /\ 6 \in 0 .. Len(body)
    BY <1>1, <2>2
  <2>4. bytes = SubSeq(body, 8, Len(body)) /\ echo = SubSeq(body, 1, 6)
    BY <2>1, <2>3 DEF Carries
  <2>. QED
    BY <1>1, <2>1, <2>2, <2>4 DEF Carries
<1>. HIDE DEF body
<1>3. reply_write_bits(msg, c.addr)
  BY <1>0, <1>2, Dispatch
<1>4. code = Deserved(c) /\ code = SpanCode(n, c.addr, NbBits)
  <2>1. SizeOf(c) = NbBits
    BY <1>0 DEF SizeOf, OnBits
  <2>2. Deserved(c) = SpanCode(n, c.addr, NbBits)
    BY <2>1, MultipleDeserved
  <2>3. code = SpanCode(n, c.addr, NbBits)
    BY <1>0, RefusalIs
  <2>. QED
    BY <2>2, <2>3
<1>5. \/ response_exception(msg, code)
      \/ code = 0 /\ tab_bits' = new /\ Reply(echo) /\ UNCHANGED tab_registers
  BY <1>2, <1>3, Zenon DEF reply_write_bits
<1>. HIDE DEF code, echo, bytes, n, new
<1>6. CASE response_exception(msg, code)
  BY <1>2, <1>4, <1>6, RefusedIsServed, Zenon
<1>7. ASSUME code = 0, tab_bits' = new, Reply(echo), UNCHANGED tab_registers
      PROVE  Served(c)
  <2>1. \A k \in 0 .. n - 1 : BitOf(bytes, k) = c.values[k + 1] /\ c.values[k + 1] \in 0 .. 1
    <3>1. \A k \in 0 .. n - 1 : BitOf(bytes, k) = c.values[k + 1]
      BY <1>0, <1>2, PackedFacts, Zenon DEF n
    <3>2. ASSUME NEW k \in 0 .. n - 1
          PROVE  c.values[k + 1] \in 0 .. 1
      <4>1. k + 1 \in 1 .. Len(c.values)
        BY <1>0 DEF n
      <4>. QED
        BY <1>0, <4>1, ElementOfSeq, Zenon
    <3>. QED
      BY <3>1, <3>2
  <2>2. /\ new = [a \in DOMAIN tab_bits |-> new[a]]
        /\ \A a \in DOMAIN tab_bits :
             new[a] = IF a - c.addr \in 0 .. n - 1 THEN c.values[a - c.addr + 1] ELSE tab_bits[a]
    <3>1. new = [a \in DOMAIN tab_bits |->
                   IF a - c.addr \in 0 .. n - 1 THEN BitOf(bytes, a - c.addr) ELSE tab_bits[a]]
      BY Zenon DEF new, modbus_set_bits_from_bytes
    <3>. QED
      BY <2>1, <3>1
  <2>3. TablesOK'
    <3>1. ASSUME NEW a \in DOMAIN tab_bits
          PROVE  new[a] \in 0 .. 1
      <4>1. CASE a - c.addr \in 0 .. n - 1
        BY <2>1, <2>2, <4>1
      <4>2. CASE a - c.addr \notin 0 .. n - 1
        BY <2>2, <4>2 DEF TablesOK
      <4>. QED
        BY <4>1, <4>2, Zenon
    <3>. QED
      BY <1>7, <2>2, <3>1 DEF TablesOK
  <2>4. StoredAt(c) = c.addr /\ StoredValues(c) = c.values
    BY <1>0 DEF StoredAt, StoredValues, Stores, WriteSingleFunctions, WriteMultipleFunctions
  <2>5. \A a \in DOMAIN tab_bits :
          tab_bits'[a] = IF a - StoredAt(c) + 1 \in DOMAIN StoredValues(c)
                           THEN StoredValues(c)[a - StoredAt(c) + 1] ELSE tab_bits[a]
    <3>1. \A a \in DOMAIN tab_bits : a \in Int
      BY DEF TablesOK
    <3>2. DOMAIN c.values = 1 .. n
      BY <1>0 DEF n
    <3>3. ASSUME NEW a \in Int
          PROVE  a - c.addr + 1 \in 1 .. n <=> a - c.addr \in 0 .. n - 1
      <4>1. \A x \in Int, m \in Nat : x + 1 \in 1 .. m <=> x \in 0 .. m - 1
        OBVIOUS
      <4>2. a - c.addr \in Int /\ n \in Nat
        BY <1>0
      <4>. QED
        BY <4>1, <4>2, Zenon
    <3>. QED
      BY <1>7, <2>2, <2>4, <3>1, <3>2, <3>3
  <2>6. Executed(c, TRUE, tab_bits, tab_bits')
    <3>1. (c.fn \in OnBits) = TRUE /\ c.fn # MASK_WRITE_REGISTER
      BY <1>0 DEF OnBits
    <3>. QED
      BY <2>5, <3>1, StoresItsValues, Zenon
  <2>7. Executed(c, FALSE, tab_registers, tab_registers')
    <3>1. c.fn \in OnBits
      BY <1>0 DEF OnBits
    <3>. QED
      BY <1>7, <3>1, NotForRegisters, Zenon
  <2>8. AnswerBody(c)' = SubSeq(body, 1, 6)
    <3>1. /\ c.fn # READ_COILS /\ c.fn \notin Reads /\ c.fn # REPORT_SLAVE_ID
          /\ c.fn \in WriteMultipleFunctions
      BY <1>0 DEF Reads, WriteMultipleFunctions
    <3>. QED
      BY <1>4, <1>7, <3>1, Zenon DEF AnswerBody, body
  <2>9. line' = send_msg_pre(AnswerBody(c)')
    BY <1>2, <1>7, <2>8, Zenon DEF Reply
  <2>. QED
    BY <1>4, <1>7, <2>3, <2>6, <2>7, <2>9, Zenon DEF Served
<1>. QED
  BY <1>5, <1>6, <1>7, Zenon

\* The words of a message are the values that went into it, and stand at their
\* addresses when they are stored (WordsAt, RegistersWith).
LEMMA WordsTaken ==
  ASSUME NEW msg, NEW i \in Nat, NEW values \in Seq(Word16),
         \A k \in 1 .. Len(values) : WordAt(msg, i + 2 * (k - 1)) = values[k]
  PROVE  WordsAt(msg, i, Len(values)) = values
<1>1. WordsAt(msg, i, Len(values)) = [k \in 1 .. Len(values) |-> values[k]]
  BY DEF WordsAt
<1>. QED
  BY <1>1

LEMMA WordsStored ==
  ASSUME TablesOK, NEW c, NEW words \in Seq(Word16), StoredValues(c) = words, StoredAt(c) \in Nat,
         c.fn # MASK_WRITE_REGISTER, c.fn \notin OnBits,
         tab_registers' = RegistersWith(StoredAt(c), words), UNCHANGED tab_bits
  PROVE  /\ TablesOK'
         /\ Executed(c, TRUE, tab_bits, tab_bits')
         /\ Executed(c, FALSE, tab_registers, tab_registers')
<1>. DEFINE new == RegistersWith(StoredAt(c), words)
<1>1. \A a \in DOMAIN tab_registers : a \in Int
  BY DEF TablesOK
<1>2. \A k \in DOMAIN words : words[k] \in Word16
  OBVIOUS
<1>3. /\ new = [a \in DOMAIN tab_registers |-> new[a]]
      /\ \A a \in DOMAIN tab_registers :
           new[a] = IF a - StoredAt(c) + 1 \in DOMAIN words
                      THEN words[a - StoredAt(c) + 1] ELSE tab_registers[a]
  BY Zenon DEF RegistersWith
<1>. HIDE DEF new
<1>4. \A a \in DOMAIN tab_registers : new[a] \in Word16
  BY <1>2, <1>3 DEF TablesOK
<1>5. TablesOK'
  BY <1>3, <1>4 DEF TablesOK, new
<1>6. Executed(c, TRUE, tab_bits, tab_bits')
  BY NotForBits, Zenon
<1>7. Executed(c, FALSE, tab_registers, tab_registers')
  <2>1. (c.fn \in OnBits) = FALSE
    BY DEF OnBits
  <2>2. \A a \in DOMAIN tab_registers :
          tab_registers'[a] = IF a - StoredAt(c) + 1 \in DOMAIN StoredValues(c)
                                THEN StoredValues(c)[a - StoredAt(c) + 1] ELSE tab_registers[a]
    BY <1>3, Zenon DEF new
  <2>. QED
    BY <2>1, <2>2, StoresItsValues, Zenon
<1>. QED
  BY <1>5, <1>6, <1>7

\* reply_write_registers (modbus_reply)
LEMMA ServesWriteRegisters ==
  ASSUME NEW c, RegistersCall(c), TablesOK, NEW msg, msg = RequestBytes(c), modbus_reply(msg)
  PROVE  Served(c)
<1>. DEFINE body == RequestBody(c)
            n == Len(c.values)
            code == Refusal(n, MAX_WRITE_REGISTERS, c.addr, NbRegisters)
            words == WordsAt(msg, 8, n)
            echo == SubSeq(msg, 1, 6)
            new == RegistersWith(c.addr, words)
<1>0. /\ c.fn = WRITE_MULTIPLE_REGISTERS /\ c.addr \in Nat
      /\ n \in Nat /\ n <= MAX_WRITE_REGISTERS /\ MAX_WRITE_REGISTERS \in Nat
      /\ c.values \in Seq(Word16)
  BY WordRange DEF RegistersCall, MAX_WRITE_REGISTERS
<1>1. /\ Framed(body, "indication") /\ Len(body) = 7 + 2 * n
      /\ body[2] = c.fn /\ WordAt(body, 3) = c.addr /\ WordAt(body, 5) = n
      /\ \A k \in 1 .. n : WordAt(body, 8 + 2 * (k - 1)) = c.values[k]
  BY RegistersRequest, Zenon
<1>2. /\ msg[1] = Slave /\ msg[2] = c.fn
      /\ WordAt(msg, 3) = c.addr /\ WordAt(msg, 5) = n
      /\ \A k \in 1 .. n : WordAt(msg, 8 + 2 * (k - 1)) = c.values[k]
      /\ echo = SubSeq(body, 1, 6)
  <2>1. Carries(msg, body)
    BY <1>1, OnTheLine, Zenon
  <2>. HIDE DEF body, n
  <2>2. /\ 3 \in 1 .. Len(body) - 1 /\ 5 \in 1 .. Len(body) - 1
        /\ 1 \in 1 .. Len(body) + 1 /\ 6 \in 0 .. Len(body)
    BY <1>0, <1>1
  <2>3. echo = SubSeq(body, 1, 6)
    BY <2>1, <2>2 DEF Carries
  <2>4. ASSUME NEW k \in 1 .. n
        PROVE  WordAt(msg, 8 + 2 * (k - 1)) = c.values[k]
    <3>1. 8 + 2 * (k - 1) \in 1 .. Len(body) - 1
      BY <1>0, <1>1
    <3>. QED
      BY <1>1, <2>1, <3>1 DEF Carries
  <2>. QED
    BY <1>1, <2>1, <2>2, <2>3, <2>4 DEF Carries
<1>. HIDE DEF body
<1>3. reply_write_registers(msg, c.addr)
  BY <1>0, <1>2, Dispatch
<1>4. code = Deserved(c)
  <2>1. SizeOf(c) = NbRegisters
    BY <1>0 DEF SizeOf, OnBits
  <2>2. Deserved(c) = SpanCode(n, c.addr, NbRegisters)
    BY <2>1, MultipleDeserved
  <2>3. code = SpanCode(n, c.addr, NbRegisters)
    BY <1>0, RefusalIs
  <2>. QED
    BY <2>2, <2>3
<1>5. \/ response_exception(msg, code)
      \/ code = 0 /\ tab_registers' = new /\ Reply(echo) /\ UNCHANGED tab_bits
  BY <1>2, <1>3, Zenon DEF reply_write_registers
<1>6. words = c.values
  BY <1>0, <1>2, WordsTaken
<1>. HIDE DEF code, echo, words, n
<1>7. CASE response_exception(msg, code)
  BY <1>2, <1>4, <1>7, RefusedIsServed, Zenon
<1>8. ASSUME code = 0, tab_registers' = new, Reply(echo), UNCHANGED tab_bits
      PROVE  Served(c)
  <2>1. StoredAt(c) = c.addr /\ StoredValues(c) = c.values
    BY <1>0 DEF StoredAt, StoredValues, Stores, WriteSingleFunctions, WriteMultipleFunctions
  <2>2. c.fn # MASK_WRITE_REGISTER /\ c.fn \notin OnBits
    BY <1>0 DEF OnBits
  <2>3. /\ TablesOK'
        /\ Executed(c, TRUE, tab_bits, tab_bits')
        /\ Executed(c, FALSE, tab_registers, tab_registers')
    BY <1>0, <1>6, <1>8, <2>1, <2>2, WordsStored, Zenon
  <2>4. AnswerBody(c)' = SubSeq(body, 1, 6)
    <3>1. /\ c.fn # READ_COILS /\ c.fn \notin Reads /\ c.fn # REPORT_SLAVE_ID
          /\ c.fn \in WriteMultipleFunctions
      BY <1>0 DEF Reads, WriteMultipleFunctions
    <3>. QED
      BY <1>4, <1>8, <3>1, Zenon DEF AnswerBody, body
  <2>5. line' = send_msg_pre(AnswerBody(c)')
    BY <1>2, <1>8, <2>4, Zenon DEF Reply
  <2>. QED
    BY <1>4, <1>8, <2>3, <2>5, Zenon DEF Served
<1>. QED
  BY <1>5, <1>7, <1>8, Zenon

\* reply_report_slave_id (modbus_reply)
LEMMA ServesReport ==
  ASSUME NEW c, c.fn = REPORT_SLAVE_ID, TablesOK,
         NEW msg, msg = RequestBytes(c), modbus_reply(msg)
  PROVE  Served(c)
<1>. DEFINE body == RequestBody(c)
<1>1. Framed(body, "indication") /\ Len(body) = 2 /\ body[2] = c.fn
  BY ReportRequest, Zenon
<1>2. msg[1] = Slave /\ msg[2] = c.fn
  <2>1. Carries(msg, body)
    BY <1>1, OnTheLine, Zenon
  <2>. QED
    BY <1>1, <2>1, Zenon DEF Carries
<1>3. reply_report_slave_id(msg)
  BY <1>2, Dispatch
<1>4. /\ line' = send_msg_pre(<<Slave, c.fn, Len(slave_id)>> \o slave_id)
      /\ UNCHANGED <<tab_bits, tab_registers>>
  BY <1>2, <1>3, Zenon DEF reply_report_slave_id, Reply
<1>5. /\ Deserved(c) = 0 /\ c.fn # READ_COILS /\ c.fn \notin Reads
      /\ c.fn \notin Stores /\ c.fn # MASK_WRITE_REGISTER
  BY ReportDeserved DEF Reads, Stores, WriteSingleFunctions, WriteMultipleFunctions
<1>6. AnswerBody(c)' = <<Slave, c.fn, Len(slave_id)>> \o slave_id
  BY <1>5, Zenon DEF AnswerBody
<1>7. TablesOK'
  BY <1>4, Zenon DEF TablesOK
<1>. QED
  BY <1>4, <1>5, <1>6, <1>7, StoresNothing, Zenon DEF Served

\* reply_mask_write_register (modbus_reply)
LEMMA MaskedBits ==
  ASSUME NEW old \in Word16, NEW and_mask \in Word16, NEW or_mask \in Word16
  PROVE  LET new == Or(And(old, and_mask), And(or_mask, Not(and_mask)))
         IN  /\ new \in Word16
             /\ \A b \in 0 .. 15 :
                  Bit(new, b) = IF Bit(and_mask, b) = 1 THEN Bit(old, b) ELSE Bit(or_mask, b)
<1>. DEFINE not == Not(and_mask)
            x == And(old, and_mask)
            y == And(or_mask, not)
            new == Or(x, y)
<1>1. not \in Word16 /\ \A b \in 0 .. 15 : Bit(not, b) = 1 - Bit(and_mask, b)
  BY NotFacts, Zenon
<1>. HIDE DEF not
<1>2. /\ x \in Word16
      /\ \A b \in 0 .. 15 : Bit(x, b) = IF Bit(old, b) = 1 THEN Bit(and_mask, b) ELSE 0
  BY AndOrFacts, Zenon
<1>3. /\ y \in Word16
      /\ \A b \in 0 .. 15 : Bit(y, b) = IF Bit(or_mask, b) = 1 THEN Bit(not, b) ELSE 0
  BY <1>1, AndOrFacts, Zenon
<1>. HIDE DEF x, y
<1>4. /\ new \in Word16
      /\ \A b \in 0 .. 15 : Bit(new, b) = IF Bit(x, b) = 1 THEN 1 ELSE Bit(y, b)
  <2>1. x \in Word16 /\ y \in Word16
    BY <1>2, <1>3, Zenon
  <2>. QED
    BY <2>1, AndOrFacts
<1>. HIDE DEF new
<1>5. ASSUME NEW b \in 0 .. 15
      PROVE  Bit(new, b) = IF Bit(and_mask, b) = 1 THEN Bit(old, b) ELSE Bit(or_mask, b)
  <2>1. Bit(and_mask, b) \in 0 .. 1 /\ Bit(old, b) \in 0 .. 1 /\ Bit(or_mask, b) \in 0 .. 1
    BY WordRange, BitRange
  <2>. QED
    BY <1>1, <1>2, <1>3, <1>4, <2>1
<1>. QED
  BY <1>4, <1>5 DEF new, x, y, not

LEMMA ServesMask ==
  ASSUME NEW c, MaskCall(c), TablesOK, NEW msg, msg = RequestBytes(c), modbus_reply(msg)
  PROVE  Served(c)
<1>. DEFINE body == RequestBody(c)
            code == Refusal(1, 1, c.addr, NbRegisters)
            echo == SubSeq(msg, 1, Len(msg) - 2)
            masked(old) == Or(And(old, c.and_mask), And(c.or_mask, Not(c.and_mask)))
            new == [tab_registers EXCEPT ![c.addr] = masked(@)]
<1>0. /\ c.fn = MASK_WRITE_REGISTER /\ c.addr \in Nat
      /\ c.and_mask \in Word16 /\ c.or_mask \in Word16
  BY WordRange DEF MaskCall
<1>1. /\ Framed(body, "indication") /\ Len(body) = 8
      /\ body[2] = c.fn /\ WordAt(body, 3) = c.addr
      /\ WordAt(body, 5) = c.and_mask /\ WordAt(body, 7) = c.or_mask
  BY MaskRequest, Zenon
<1>2. /\ msg[1] = Slave /\ msg[2] = c.fn /\ echo = body
      /\ WordAt(msg, 3) = c.addr
      /\ WordAt(msg, 5) = c.and_mask /\ WordAt(msg, 7) = c.or_mask
  <2>1. Carries(msg, body)
    BY <1>1, OnTheLine, Zenon
  <2>. HIDE DEF body
  <2>. QED
    BY <1>1, <2>1 DEF Carries
<1>. HIDE DEF body
<1>3. reply_mask_write_register(msg, c.addr)
  BY <1>0, <1>2, Dispatch
<1>4. code = Deserved(c) /\ code = SpanCode(1, c.addr, NbRegisters)
  <2>1. Deserved(c) = SpanCode(1, c.addr, NbRegisters)
    BY MaskDeserved
  <2>2. code = SpanCode(1, c.addr, NbRegisters)
    BY RefusalIs
  <2>. QED
    BY <2>1, <2>2
<1>5. \/ response_exception(msg, code)
      \/ code = 0 /\ tab_registers' = new /\ Reply(echo) /\ UNCHANGED tab_bits
  BY <1>2, <1>3, Zenon DEF reply_mask_write_register
<1>. HIDE DEF code, echo
<1>6. CASE response_exception(msg, code)
  BY <1>2, <1>4, <1>6, RefusedIsServed, Zenon
<1>7. ASSUME code = 0, tab_registers' = new, Reply(echo), UNCHANGED tab_bits
      PROVE  Served(c)
  <2>1. c.addr \in 0 .. NbRegisters - 1
    <3>1. NbRegisters \in Nat
      BY CodecAssumption
    <3>2. 1 \in Nat /\ c.addr + 1 <= NbRegisters
      BY <1>0, <1>4, <1>7, <3>1, SpanCodeIs
    <3>. QED
      BY <1>0, <3>1, <3>2
  <2>2. tab_registers[c.addr] \in Word16
    BY <2>1 DEF TablesOK
  <2>3. /\ masked(tab_registers[c.addr]) \in Word16
        /\ \A b \in 0 .. 15 :
             Bit(masked(tab_registers[c.addr]), b) =
               IF Bit(c.and_mask, b) = 1 THEN Bit(tab_registers[c.addr], b) ELSE Bit(c.or_mask, b)
    BY <1>0, <2>2, MaskedBits, Zenon
  <2>4. /\ DOMAIN tab_registers = 0 .. NbRegisters - 1
        /\ tab_registers' = [tab_registers EXCEPT ![c.addr] = masked(tab_registers[c.addr])]
    BY <1>7 DEF TablesOK
  <2>. HIDE DEF masked, new
  <2>5. TablesOK'
    BY <1>7, <2>1, <2>3, <2>4 DEF TablesOK
  <2>6. Executed(c, TRUE, tab_bits, tab_bits')
    <3>1. c.fn \notin OnBits
      BY <1>0 DEF OnBits
    <3>. QED
      BY <1>7, <3>1, NotForBits, Zenon
  <2>7. Executed(c, FALSE, tab_registers, tab_registers')
    <3>1. DOMAIN StoredValues(c) = {}
      <4>1. StoredValues(c) = <<>>
        BY <1>0 DEF StoredValues, Stores, WriteSingleFunctions, WriteMultipleFunctions
      <4>. QED
        BY <4>1
    <3>2. (c.fn \in OnBits) = FALSE
      BY <1>0 DEF OnBits
    <3>3. tab_registers'[c.addr] = masked(tab_registers[c.addr])
      BY <2>1, <2>4
    <3>4. \A a \in DOMAIN tab_registers : a # c.addr => tab_registers'[a] = tab_registers[a]
      BY <2>4
    <3>. QED
      BY <1>0, <2>3, <3>1, <3>2, <3>3, <3>4, Zenon DEF Executed
  <2>8. AnswerBody(c)' = body
    <3>1. /\ c.fn # READ_COILS /\ c.fn \notin Reads /\ c.fn # REPORT_SLAVE_ID
          /\ c.fn \notin WriteMultipleFunctions
      BY <1>0 DEF Reads, WriteMultipleFunctions
    <3>. QED
      BY <1>4, <1>7, <3>1, Zenon DEF AnswerBody, body
  <2>9. line' = send_msg_pre(AnswerBody(c)')
    BY <1>2, <1>7, <2>8, Zenon DEF Reply
  <2>. QED
    BY <1>4, <1>7, <2>5, <2>6, <2>7, <2>9, Zenon DEF Served
<1>. QED
  BY <1>5, <1>6, <1>7, Zenon

\* reply_write_and_read_registers (modbus_reply)
LEMMA ServesWriteRead ==
  ASSUME NEW c, WriteReadCall(c), TablesOK, NEW msg, msg = RequestBytes(c), modbus_reply(msg)
  PROVE  Served(c)
<1>. DEFINE body == RequestBody(c)
            n == Len(c.values)
            read == Refusal(c.nb, MAX_WR_READ_REGISTERS, c.addr, NbRegisters)
            written == Refusal(n, MAX_WR_WRITE_REGISTERS, c.write_addr, NbRegisters)
            code == IF ILLEGAL_DATA_VALUE \in {read, written} \/ msg[11] # 2 * n
                      THEN ILLEGAL_DATA_VALUE
                    ELSE IF ILLEGAL_DATA_ADDRESS \in {read, written} THEN ILLEGAL_DATA_ADDRESS
                    ELSE 0
            words == WordsAt(msg, 12, n)
            new == RegistersWith(c.write_addr, words)
            rsp == <<Slave, c.fn, 2 * c.nb>> \o BytesOf(RegistersAt(tab_registers', c.addr, c.nb))
<1>0. /\ c.fn = WRITE_AND_READ_REGISTERS /\ c.addr \in Nat /\ c.write_addr \in Nat
      /\ c.nb \in Nat /\ c.nb <= MAX_WR_READ_REGISTERS /\ MAX_WR_READ_REGISTERS \in Nat
      /\ n \in Nat /\ n <= MAX_WR_WRITE_REGISTERS /\ MAX_WR_WRITE_REGISTERS \in Nat
      /\ c.values \in Seq(Word16)
  BY WordRange DEF WriteReadCall, MAX_WR_READ_REGISTERS, MAX_WR_WRITE_REGISTERS
<1>1. /\ Framed(body, "indication")
      /\ body[2] = c.fn /\ WordAt(body, 3) = c.addr /\ WordAt(body, 5) = c.nb
      /\ WordAt(body, 7) = c.write_addr /\ WordAt(body, 9) = n
      /\ body[11] = 2 * n
      /\ Len(body) = 11 + 2 * n
      /\ \A k \in 1 .. n : WordAt(body, 12 + 2 * (k - 1)) = c.values[k]
  BY WriteReadRequest, Zenon
<1>2. /\ msg[1] = Slave /\ msg[2] = c.fn
      /\ WordAt(msg, 3) = c.addr /\ WordAt(msg, 5) = c.nb
      /\ WordAt(msg, 7) = c.write_addr /\ WordAt(msg, 9) = n
      /\ msg[11] = 2 * n
      /\ \A k \in 1 .. n : WordAt(msg, 12 + 2 * (k - 1)) = c.values[k]
  <2>1. Carries(msg, body)
    BY <1>1, OnTheLine, Zenon
  <2>. HIDE DEF body, n
  <2>2. /\ 3 \in 1 .. Len(body) - 1 /\ 5 \in 1 .. Len(body) - 1
        /\ 7 \in 1 .. Len(body) - 1 /\ 9 \in 1 .. Len(body) - 1
        /\ 11 \in 1 .. Len(body)
    BY <1>0, <1>1
  <2>3. ASSUME NEW k \in 1 .. n
        PROVE  WordAt(msg, 12 + 2 * (k - 1)) = c.values[k]
    <3>1. 12 + 2 * (k - 1) \in 1 .. Len(body) - 1
      BY <1>0, <1>1
    <3>. QED
      BY <1>1, <2>1, <3>1 DEF Carries
  <2>. QED
    BY <1>1, <2>1, <2>2, <2>3 DEF Carries
<1>. HIDE DEF body
<1>3. reply_write_and_read_registers(msg, c.addr)
  BY <1>0, <1>2, Dispatch
<1>4. code = Deserved(c)
  <2>. DEFINE r == SpanCode(c.nb, c.addr, NbRegisters)
              w == SpanCode(n, c.write_addr, NbRegisters)
  <2>1. Deserved(c) = IF 3 \in {r, w} THEN 3 ELSE IF 2 \in {r, w} THEN 2 ELSE 0
    BY WriteReadDeserved, Zenon
  <2>2. read = r
    BY <1>0, RefusalIs
  <2>3. written = w
    BY <1>0, RefusalIs
  <2>. HIDE DEF r, w, read, written
  <2>. QED
    BY <1>2, <2>1, <2>2, <2>3 DEF ILLEGAL_DATA_VALUE, ILLEGAL_DATA_ADDRESS
<1>5. \/ response_exception(msg, code)
      \/ code = 0 /\ tab_registers' = new /\ Reply(rsp) /\ UNCHANGED tab_bits
  <2>. HIDE DEF n
  <2>. QED
    BY <1>2, <1>3, Zenon DEF reply_write_and_read_registers
<1>6. words = c.values
  BY <1>0, <1>2, WordsTaken
<1>. HIDE DEF code, words, n, read, written
<1>7. CASE response_exception(msg, code)
  BY <1>2, <1>4, <1>7, RefusedIsServed, Zenon
<1>8. ASSUME code = 0, tab_registers' = new, Reply(rsp), UNCHANGED tab_bits
      PROVE  Served(c)
  <2>1. StoredAt(c) = c.write_addr /\ StoredValues(c) = c.values
    BY <1>0 DEF StoredAt, StoredValues, Stores, WriteSingleFunctions, WriteMultipleFunctions
  <2>2. c.fn # MASK_WRITE_REGISTER /\ c.fn \notin OnBits
    BY <1>0 DEF OnBits
  <2>3. /\ TablesOK'
        /\ Executed(c, TRUE, tab_bits, tab_bits')
        /\ Executed(c, FALSE, tab_registers, tab_registers')
    BY <1>0, <1>6, <1>8, <2>1, <2>2, WordsStored, Zenon
  <2>4. ReadValues(c)' = RegistersAt(tab_registers', c.addr, c.nb)
    BY <1>0 DEF ReadValues, RegistersAt
  <2>5. AnswerBody(c)' = <<Slave, c.fn, 2 * c.nb>> \o BytesOf(ReadValues(c)')
    <3>1. c.fn # READ_COILS /\ c.fn \in Reads
      BY <1>0 DEF Reads
    <3>. QED
      BY <1>4, <1>8, <3>1, Zenon DEF AnswerBody
  <2>6. line' = send_msg_pre(AnswerBody(c)')
    BY <1>8, <2>4, <2>5, Zenon DEF Reply
  <2>. QED
    BY <1>4, <1>8, <2>3, <2>6, Zenon DEF Served
<1>. QED
  BY <1>5, <1>7, <1>8, Zenon

\* What a client function sends is one of these calls (modbus.c), by its limits.
LEMMA KindsOfCalls ==
  ASSUME NEW c \in Calls, Legal(Quantities(c))
  PROVE  \/ ReadCall(c) \/ SingleCall(c) \/ BitsCall(c) \/ RegistersCall(c)
         \/ MaskCall(c) \/ WriteReadCall(c)
         \/ c.fn = REPORT_SLAVE_ID /\ c.max_dest \in Nat
<1>1. Argued(c)
  BY CodecAssumption
<1>. DEFINE q == Quantities(c)
<1>2. /\ q.fn = c.fn
      /\ c.fn \in Reads => q.nb = c.nb
      /\ c.fn \in WritesMany /\ c.fn \notin Reads => q.nb = Len(c.values)
      /\ c.fn = WRITE_AND_READ_REGISTERS => q.nbWrite = Len(c.values)
  BY Zenon DEF Quantities
<1>3. Legal(q)
  OBVIOUS
<1>. HIDE DEF q
<1>4. /\ c.fn = READ_COILS => c.nb <= MAX_READ_BITS
      /\ c.fn = READ_HOLDING_REGISTERS => c.nb <= MAX_READ_REGISTERS
      /\ c.fn = WRITE_MULTIPLE_COILS => Len(c.values) <= MAX_WRITE_BITS
      /\ c.fn = WRITE_MULTIPLE_REGISTERS => Len(c.values) <= MAX_WRITE_REGISTERS
      /\ c.fn = WRITE_AND_READ_REGISTERS =>
           Len(c.values) <= MAX_WR_WRITE_REGISTERS /\ c.nb <= MAX_WR_READ_REGISTERS
  BY <1>2, <1>3 DEF Legal, Reads, WritesMany, WriteMultipleFunctions, ReadBitFunctions,
    ReadRegisterFunctions
<1>. QED
  BY <1>1, <1>4 DEF Argued, ReadCall, SingleCall, BitsCall, RegistersCall, MaskCall, WriteReadCall,
    WriteSingleFunctions

\* A call that the client sends.
SentCall(c) == c \in Calls /\ Legal(Quantities(c))

\* What the client writes, the server takes for one message (_modbus_receive_msg).
LEMMA RequestIsFramed ==
  ASSUME NEW c, SentCall(c)
  PROVE  Framed(RequestBody(c), "indication") /\ RequestBody(c)[2] = c.fn
<1>1. CASE ReadCall(c)
  BY <1>1, ReadRequest, Zenon
<1>2. CASE SingleCall(c)
  BY <1>2, SingleRequest, Zenon
<1>3. CASE BitsCall(c)
  BY <1>3, BitsRequest, Zenon
<1>4. CASE RegistersCall(c)
  BY <1>4, RegistersRequest, Zenon
<1>5. CASE MaskCall(c)
  BY <1>5, MaskRequest, Zenon
<1>6. CASE WriteReadCall(c)
  BY <1>6, WriteReadRequest, Zenon
<1>7. CASE c.fn = REPORT_SLAVE_ID
  BY <1>7, ReportRequest, Zenon
<1>. QED
  BY <1>1, <1>2, <1>3, <1>4, <1>5, <1>6, <1>7, KindsOfCalls, Zenon DEF SentCall

\* Whatever is called, the server executes and answers it (modbus_reply).
LEMMA ServesAll ==
  ASSUME NEW c, SentCall(c), TablesOK, modbus_reply(RequestBytes(c))
  PROVE  Served(c)
<1>1. CASE ReadCall(c)
  <2>1. c.fn = READ_COILS \/ c.fn = READ_HOLDING_REGISTERS
    BY <1>1 DEF ReadCall
  <2>. QED
    BY <1>1, <2>1, ServesReadBits, ServesReadRegisters, Zenon
<1>2. CASE SingleCall(c)
  <2>1. c.fn = WRITE_SINGLE_COIL \/ c.fn = WRITE_SINGLE_REGISTER
    BY <1>2 DEF SingleCall
  <2>. QED
    BY <1>2, <2>1, ServesWriteBit, ServesWriteRegister, Zenon
<1>3. CASE BitsCall(c)
  BY <1>3, ServesWriteBits, Zenon
<1>4. CASE RegistersCall(c)
  BY <1>4, ServesWriteRegisters, Zenon
<1>5. CASE MaskCall(c)
  BY <1>5, ServesMask, Zenon
<1>6. CASE WriteReadCall(c)
  BY <1>6, ServesWriteRead, Zenon
<1>7. CASE c.fn = REPORT_SLAVE_ID
  BY <1>7, ServesReport, Zenon
<1>. QED
  BY <1>1, <1>2, <1>3, <1>4, <1>5, <1>6, <1>7, KindsOfCalls, Zenon DEF SentCall

LEMMA ServeStep ==
  ASSUME NEW c, SentCall(c), TablesOK, line = RequestBytes(c), Serve
  PROVE  Served(c)
<1>1. line = send_msg_pre(RequestBody(c))
  BY RequestIs, Zenon
<1>2. Received("indication") = line /\ line # <<>>
  BY <1>1, RequestIsFramed, ReceivedWhole, Zenon
<1>3. modbus_reply(RequestBytes(c))
  BY <1>2, Zenon DEF Serve
<1>. QED
  BY <1>3, ServesAll, Zenon

-----------------------------------------------------------------------------
\* The client

\* How much the client reads after the function, and how long it takes an answer
\* to be, and has it be.
LEMMA ConfirmationLengths ==
  ASSUME NEW fn \in Nat, NEW count \in Nat
  PROVE  /\ fn \in {READ_COILS, READ_HOLDING_REGISTERS, REPORT_SLAVE_ID, WRITE_AND_READ_REGISTERS} =>
              /\ compute_meta_length_after_function(fn, "confirmation") = 1
              /\ FramedLength(fn, count, "confirmation") = 5 + count
         /\ fn \in {WRITE_SINGLE_COIL, WRITE_SINGLE_REGISTER, WRITE_MULTIPLE_COILS,
                    WRITE_MULTIPLE_REGISTERS} =>
              /\ compute_meta_length_after_function(fn, "confirmation") = 4
              /\ FramedLength(fn, count, "confirmation") = 8
         /\ fn = MASK_WRITE_REGISTER =>
              /\ compute_meta_length_after_function(fn, "confirmation") = 6
              /\ FramedLength(fn, count, "confirmation") = 10
         /\ fn >= EXCEPTION_BIT =>
              /\ compute_meta_length_after_function(fn, "confirmation") = 1
              /\ FramedLength(fn, count, "confirmation") = 5
  BY CodecAssumption DEF compute_meta_length_after_function, FramedLength,
    compute_data_length_after_meta, Rtu, WriteSingleFunctions, WriteMultipleFunctions

LEMMA ResponseLengths ==
  ASSUME NEW fn, NEW nb \in Nat
  PROVE  LET length == compute_response_length_from_request([fn |-> fn, nb |-> nb])
         IN  /\ fn = READ_COILS => length = 5 + BitBytes(nb)
             /\ fn \in {READ_HOLDING_REGISTERS, WRITE_AND_READ_REGISTERS} => length = 5 + 2 * nb
             /\ fn \in {WRITE_SINGLE_COIL, WRITE_SINGLE_REGISTER, WRITE_MULTIPLE_COILS,
                        WRITE_MULTIPLE_REGISTERS} => length = 8
             /\ fn = MASK_WRITE_REGISTER => length = 10
<1>1. BitBytes(nb) \in Nat
  BY BitBytesFacts
<1>. QED
  BY <1>1, CodecAssumption DEF compute_response_length_from_request, Rtu, ReadBitFunctions,
    ReadRegisterFunctions

\* Functions whose answer holds no values.
WritesOnly ==
  {WRITE_SINGLE_COIL, WRITE_SINGLE_REGISTER, WRITE_MULTIPLE_COILS, WRITE_MULTIPLE_REGISTERS,
   MASK_WRITE_REGISTER}

\* What a client function makes of an answer (check_confirmation and after it).
LEMMA ResultIs ==
  ASSUME NEW rsp
  PROVE  /\ rsp[2] \in Nat /\ rsp[2] >= 128 /\ Len(rsp) = 5 /\ request[2] = rsp[2] - 128 =>
              Result(rsp) = Exception(rsp[3])
         /\ rsp[2] = READ_COILS /\ check_confirmation(rsp) =>
              Result(rsp) = Values(Unpacked(SubSeq(rsp, 4, Len(rsp) - 2), call.nb))
         /\ rsp[2] \in {READ_HOLDING_REGISTERS, WRITE_AND_READ_REGISTERS} /\ check_confirmation(rsp) =>
              Result(rsp) = Values(WordsAt(rsp, 4, rsp[3] \div 2))
         /\ rsp[2] = REPORT_SLAVE_ID /\ check_confirmation(rsp) =>
              Result(rsp) = Values(SubSeq(rsp, 4, 3 + Shorter(rsp[3], call.max_dest)))
         /\ rsp[2] \in WritesOnly /\ check_confirmation(rsp) => Result(rsp) = Written
<1>1. ExceptionLength + 2 = 5
  BY CodecAssumption DEF ExceptionLength, build_response_basis, Rtu
<1>2. ASSUME rsp[2] \in Nat, rsp[2] >= 128, Len(rsp) = 5, request[2] = rsp[2] - 128
      PROVE  Result(rsp) = Exception(rsp[3])
  BY <1>1, <1>2 DEF Result
<1>3. ASSUME rsp[2] \in Nat, rsp[2] < 128, check_confirmation(rsp)
      PROVE  Result(rsp) =
               IF rsp[2] = READ_COILS
                 THEN Values(Unpacked(SubSeq(rsp, 4, Len(rsp) - 2), call.nb))
               ELSE IF rsp[2] = REPORT_SLAVE_ID
                 THEN Values(SubSeq(rsp, 4, 3 + Shorter(rsp[3], call.max_dest)))
               ELSE IF rsp[2] \in Reads THEN Values(WordsAt(rsp, 4, rsp[3] \div 2))
               ELSE Written
  BY <1>3 DEF Result
<1>. QED
  BY <1>2, <1>3 DEF Reads, WritesOnly

\* What a call is to return, by the tables of the server (as in Returned).
Due(c) ==
  IF Deserved(c) # 0 THEN Exception(Deserved(c))
  ELSE IF c.fn \in Reads THEN Values(ReadValues(c))
  ELSE IF c.fn = REPORT_SLAVE_ID
    THEN Values(SubSeq(slave_id, 1, Shorter(Len(slave_id), c.max_dest)))
  ELSE Written

\* The client receives the answer on the line, and returns what is due.
Confirmed(c) ==
  /\ Framed(AnswerBody(c), "confirmation")
  /\ Received("confirmation") = line /\ line # <<>> /\ Carries(line, AnswerBody(c))
  /\ Result(line) = Due(c)

\* The client has sent a call and has its answer on the line.
Answered(c) ==
  /\ SentCall(c) /\ call = c /\ TablesOK
  /\ request = RequestBytes(c)
  /\ line = send_msg_pre(AnswerBody(c))

\* An answer that is framed is received, and is its body and a checksum.
LEMMA AnswerTaken ==
  ASSUME NEW c, Answered(c), Framed(AnswerBody(c), "confirmation")
  PROVE  /\ Received("confirmation") = line /\ line # <<>>
         /\ Carries(line, AnswerBody(c))
<1>. DEFINE body == AnswerBody(c)
<1>1. line = send_msg_pre(body)
  BY Zenon DEF Answered
<1>2. Received("confirmation") = line /\ line # <<>>
  BY <1>1, ReceivedWhole, Zenon
<1>3. Carries(line, body)
  BY <1>1, FramedIsCarried, Zenon
<1>. QED
  BY <1>2, <1>3, Zenon

\* What the client still has of its request.
LEMMA RequestKept ==
  ASSUME NEW c, Answered(c)
  PROVE  Carries(request, RequestBody(c)) /\ request[2] = c.fn
<1>1. Framed(RequestBody(c), "indication") /\ RequestBody(c)[2] = c.fn
  BY RequestIsFramed, Zenon DEF Answered
<1>2. Carries(request, RequestBody(c))
  BY <1>1, OnTheLine, Zenon DEF Answered
<1>. QED
  BY <1>1, <1>2, Zenon DEF Carries

\* A function, the number of bytes that follow, and these.
HasData(body, fn, data) ==
  /\ body \in Seq(Byte) /\ Len(body) = 3 + Len(data)
  /\ body[1] = Slave /\ body[2] = fn /\ body[3] = Len(data)
  /\ \A j \in 1 .. Len(data) : body[3 + j] = data[j]
  /\ SubSeq(body, 4, 3 + Len(data)) = data

LEMMA WithData ==
  ASSUME NEW fn \in Byte, NEW data \in Seq(Byte), Len(data) \in Byte
  PROVE  HasData(<<Slave, fn, Len(data)>> \o data, fn, data)
<1>. DEFINE m == Len(data)
            p == <<Slave, fn, m>>
            body == p \o data
<1>1. Slave \in Byte /\ m \in Nat
  BY CodecAssumption DEF Byte
<1>2. p \in Seq(Byte) /\ Len(p) = 3 /\ p[1] = Slave /\ p[2] = fn /\ p[3] = m
  BY <1>1
<1>. HIDE DEF p
<1>3. /\ body \in Seq(Byte) /\ Len(body) = 3 + m
      /\ \A i \in 1 .. 3 : body[i] = p[i]
      /\ \A j \in 1 .. m : body[3 + j] = data[j]
  <2>1. /\ body \in Seq(Byte) /\ Len(body) = Len(p) + m
        /\ \A i \in 1 .. Len(p) : body[i] = p[i]
        /\ \A j \in 1 .. m : body[Len(p) + j] = data[j]
    <3>1. p \in Seq(Byte)
      BY <1>2, Zenon
    <3>2. \A d \in Seq(Byte) :
            /\ p \o d \in Seq(Byte) /\ Len(p \o d) = Len(p) + Len(d)
            /\ \A i \in 1 .. Len(p) : (p \o d)[i] = p[i]
            /\ \A i \in 1 .. Len(d) : (p \o d)[Len(p) + i] = d[i]
      BY <3>1
    <3>. QED
      BY <3>2, Zenon
  <2>. HIDE DEF body
  <2>. QED
    BY <1>2, <2>1
<1>. HIDE DEF body
<1>4. SubSeq(body, 4, 3 + m) = data
  BY <1>1, <1>3
<1>5. body[1] = Slave /\ body[2] = fn /\ body[3] = m
  BY <1>2, <1>3
<1>6. HasData(body, fn, data)
  BY <1>3, <1>4, <1>5 DEF HasData
<1>. QED
  BY <1>6 DEF body, p

\* An answer to a request of its function, as long as that asks, and for as many
\* values, is confirmed (check_confirmation).
LEMMA ChecksOut ==
  ASSUME NEW rsp, NEW fn, NEW nb, rsp[2] = fn, request[2] = fn, WordAt(request, 5) = nb,
         \/ fn = REPORT_SLAVE_ID
         \/ Len(rsp) = compute_response_length_from_request([fn |-> fn, nb |-> nb]),
         RequestValues(fn) = ResponseValues(fn, rsp)
  PROVE  check_confirmation(rsp)
  BY DEF check_confirmation

LEMMA AnswersReadBits ==
  ASSUME NEW c, Answered(c), Deserved(c) = 0, ReadCall(c), c.fn = READ_COILS
  PROVE  Confirmed(c)
<1>. DEFINE values == ReadValues(c)
            data == Packed(values)
            m == Len(data)
            body == AnswerBody(c)
<1>1. values \in Seq(0 .. 1) /\ Len(values) = c.nb /\ c.nb \in Nat /\ c.nb <= 2000
  BY ReadInTable DEF Answered, ReadCall, MAX_READ_BITS
<1>2. /\ data \in Seq(Byte) /\ m = BitBytes(c.nb)
      /\ \A k \in 0 .. c.nb - 1 : BitOf(data, k) = values[k + 1]
  BY <1>1, PackedFacts
<1>3. m \in Nat /\ m <= 250
  <2>1. BitBytes(c.nb) \in Nat /\ BitBytes(c.nb) <= 250
    <3>1. PICK n \in Nat : n = c.nb /\ n <= 2000
      BY <1>1
    <3>2. BitBytes(n) \in Nat /\ BitBytes(n) <= 250
      BY <3>1, BitBytesFacts
    <3>. QED
      BY <3>1, <3>2
  <2>. HIDE DEF m
  <2>. QED
    BY <1>2, <2>1
<1>4. body = <<Slave, c.fn, m>> \o data
  BY <1>2, Zenon DEF AnswerBody
<1>. HIDE DEF m, body, data, values
<1>5. m \in Byte /\ c.fn \in Byte
  BY <1>3 DEF Byte
<1>6. HasData(body, c.fn, data)
  BY <1>2, <1>4, <1>5, WithData, Zenon DEF m
<1>7. /\ body \in Seq(Byte) /\ Len(body) = 3 + m
      /\ body[1] = Slave /\ body[2] = c.fn /\ body[3] = m
      /\ SubSeq(body, 4, 3 + m) = data
  BY <1>6, Zenon DEF HasData, m
<1>8. /\ compute_meta_length_after_function(c.fn, "confirmation") = 1
      /\ FramedLength(c.fn, m, "confirmation") = 5 + m
  BY <1>3, ConfirmationLengths
<1>9. Framed(body, "confirmation")
  BY <1>3, <1>7, <1>8 DEF Framed
<1>10. /\ Received("confirmation") = line /\ line # <<>> /\ Carries(line, body)
       /\ Framed(body, "confirmation")
  BY <1>9, AnswerTaken, Zenon DEF body
<1>11. /\ line[2] = c.fn /\ line[3] = m /\ Len(line) = 5 + m
       /\ SubSeq(line, 4, Len(line) - 2) = data
  BY <1>3, <1>7, <1>10 DEF Carries
<1>12. request[2] = c.fn /\ WordAt(request, 5) = c.nb
  <2>1. Carries(request, RequestBody(c)) /\ request[2] = c.fn
    BY RequestKept, Zenon
  <2>2. Len(RequestBody(c)) = 6 /\ WordAt(RequestBody(c), 5) = c.nb
    BY ReadRequest, Zenon
  <2>. QED
    BY <2>1, <2>2 DEF Carries
<1>13. check_confirmation(line)
  <2>1. Len(line) = compute_response_length_from_request([fn |-> c.fn, nb |-> c.nb])
    BY <1>1, <1>2, <1>11, ResponseLengths DEF m
  <2>2. RequestValues(c.fn) = ResponseValues(c.fn, line)
    BY <1>2, <1>11, <1>12 DEF RequestValues, ResponseValues, ReadBitFunctions
  <2>. QED
    BY <1>11, <1>12, <2>1, <2>2, ChecksOut, Zenon
<1>14. Result(line) = Values(Unpacked(data, c.nb))
  <2>1. call = c
    BY Zenon DEF Answered
  <2>2. line[2] = READ_COILS
    BY <1>11
  <2>3. Result(line) = Values(Unpacked(SubSeq(line, 4, Len(line) - 2), call.nb))
    BY <1>13, <2>2, ResultIs, Zenon
  <2>. QED
    BY <1>11, <2>1, <2>3, Zenon
<1>15. Unpacked(data, c.nb) = values
  <2>1. values = [k \in 1 .. c.nb |-> values[k]]
    BY <1>1
  <2>2. \A k \in 1 .. c.nb : BitOf(data, k - 1) = values[k]
    BY <1>1, <1>2
  <2>. QED
    BY <2>1, <2>2 DEF Unpacked
<1>16. Due(c) = Values(values)
  <2>1. c.fn \in Reads
    BY DEF Reads
  <2>. QED
    BY <2>1, Zenon DEF Due, values
<1>. QED
  BY <1>10, <1>14, <1>15, <1>16, Zenon DEF Confirmed, body

\* The words of an answer are the values that went into it.
LEMMA WordsRead ==
  ASSUME NEW values \in Seq(Word16), NEW body, NEW fn, HasData(body, fn, BytesOf(values)),
         NEW msg, Carries(msg, body)
  PROVE  WordsAt(msg, 4, Len(values)) = values
<1>. DEFINE data == BytesOf(values)
            n == Len(values)
<1>1. /\ Len(data) = 2 * n /\ n \in Nat
      /\ \A k \in 1 .. n : 256 * data[2 * k - 1] + data[2 * k] = values[k]
  BY BytesOfFacts
<1>. HIDE DEF data
<1>2. Len(body) = 3 + 2 * n /\ \A j \in 1 .. 2 * n : body[3 + j] = data[j]
  BY <1>1 DEF HasData, data
<1>3. ASSUME NEW k \in 1 .. n
      PROVE  WordAt(msg, 4 + 2 * (k - 1)) = values[k]
  <2>1. /\ 2 * k - 1 \in 1 .. 2 * n /\ 2 * k \in 1 .. 2 * n
        /\ 4 + 2 * (k - 1) = 3 + (2 * k - 1) /\ 4 + 2 * (k - 1) + 1 = 3 + 2 * k
        /\ 4 + 2 * (k - 1) \in 1 .. Len(body) - 1
    BY <1>1, <1>2
  <2>2. WordAt(body, 4 + 2 * (k - 1)) = values[k]
    BY <1>1, <1>2, <2>1 DEF WordAt
  <2>. QED
    BY <2>1, <2>2 DEF Carries
<1>. QED
  BY <1>3, WordsTaken

\* Reading registers, with or without writing some first.
LEMMA AnswersReadRegisters ==
  ASSUME NEW c, Answered(c), Deserved(c) = 0,
         (ReadCall(c) /\ c.fn = READ_HOLDING_REGISTERS) \/ WriteReadCall(c)
  PROVE  Confirmed(c)
<1>. DEFINE values == ReadValues(c)
            data == BytesOf(values)
            m == Len(data)
            body == AnswerBody(c)
<1>0. c.fn = 3 \/ c.fn = 23
  BY DEF WriteReadCall
<1>1. values \in Seq(Word16) /\ Len(values) = c.nb /\ c.nb \in Nat /\ c.nb <= 125
  BY ReadInTable DEF Answered, ReadCall, WriteReadCall, MAX_READ_REGISTERS, MAX_WR_READ_REGISTERS
<1>2. data \in Seq(Byte) /\ m = 2 * c.nb
  BY <1>1, BytesOfFacts
<1>3. m \in Nat /\ m <= 250
  BY <1>1, <1>2
<1>4. body = <<Slave, c.fn, m>> \o data
  <2>1. c.fn # READ_COILS /\ c.fn \in Reads
    BY <1>0 DEF Reads
  <2>. QED
    BY <1>2, <2>1, Zenon DEF AnswerBody
<1>. HIDE DEF m, body, data, values
<1>5. m \in Byte /\ c.fn \in Byte
  BY <1>0, <1>3 DEF Byte
<1>6. HasData(body, c.fn, data)
  BY <1>2, <1>4, <1>5, WithData, Zenon DEF m
<1>7. /\ body \in Seq(Byte) /\ Len(body) = 3 + m
      /\ body[1] = Slave /\ body[2] = c.fn /\ body[3] = m
  BY <1>6, Zenon DEF HasData, m
<1>8. /\ compute_meta_length_after_function(c.fn, "confirmation") = 1
      /\ FramedLength(c.fn, m, "confirmation") = 5 + m
  BY <1>0, <1>3, ConfirmationLengths
<1>9. Framed(body, "confirmation")
  BY <1>3, <1>7, <1>8 DEF Framed
<1>10. /\ Received("confirmation") = line /\ line # <<>> /\ Carries(line, body)
       /\ Framed(body, "confirmation")
  BY <1>9, AnswerTaken, Zenon DEF body
<1>11. line[2] = c.fn /\ line[3] = m /\ Len(line) = 5 + m
  BY <1>3, <1>7, <1>10 DEF Carries
<1>12. request[2] = c.fn /\ WordAt(request, 5) = c.nb
  <2>1. Carries(request, RequestBody(c)) /\ request[2] = c.fn
    BY RequestKept, Zenon
  <2>2. Len(RequestBody(c)) \in Nat /\ Len(RequestBody(c)) >= 6 /\ WordAt(RequestBody(c), 5) = c.nb
    <3>1. CASE ReadCall(c)
      <4>1. Len(RequestBody(c)) = 6 /\ WordAt(RequestBody(c), 5) = c.nb
        BY <3>1, ReadRequest, Zenon
      <4>. QED
        BY <4>1
    <3>2. CASE WriteReadCall(c)
      BY <3>2, WriteReadRequest DEF WriteReadCall
    <3>. QED
      BY <3>1, <3>2
  <2>. QED
    BY <2>1, <2>2 DEF Carries
<1>13. check_confirmation(line)
  <2>1. Len(line) = compute_response_length_from_request([fn |-> c.fn, nb |-> c.nb])
    BY <1>0, <1>1, <1>2, <1>11, ResponseLengths
  <2>2. m \div 2 = c.nb
    BY <1>1, <1>2
  <2>3. RequestValues(c.fn) = ResponseValues(c.fn, line)
    BY <1>0, <1>11, <1>12, <2>2 DEF RequestValues, ResponseValues, ReadBitFunctions,
      ReadRegisterFunctions, WritesMany, WriteMultipleFunctions
  <2>. QED
    BY <1>11, <1>12, <2>1, <2>3, ChecksOut, Zenon
<1>14. Result(line) = Values(WordsAt(line, 4, c.nb))
  <2>1. m \div 2 = c.nb
    BY <1>1, <1>2
  <2>. QED
    BY <1>0, <1>11, <1>13, <2>1, ResultIs DEF Reads
<1>15. WordsAt(line, 4, c.nb) = values
  BY <1>1, <1>6, <1>10, WordsRead, Zenon DEF data
<1>16. Due(c) = Values(values)
  <2>1. c.fn \in Reads
    BY <1>0 DEF Reads
  <2>. QED
    BY <2>1, Zenon DEF Due, values
<1>. QED
  BY <1>10, <1>14, <1>15, <1>16, Zenon DEF Confirmed, body

\* The echo of a request (modbus_write_bit, modbus_write_register and
\* modbus_mask_write_register).
LEMMA AnswersEcho ==
  ASSUME NEW c, Answered(c), Deserved(c) = 0, SingleCall(c) \/ MaskCall(c)
  PROVE  Confirmed(c)
<1>. DEFINE body == RequestBody(c)
            length == IF SingleCall(c) THEN 6 ELSE 8
<1>0. \/ c.fn \in {5, 6} /\ SingleCall(c)
      \/ c.fn = 22 /\ ~SingleCall(c) /\ MaskCall(c)
  BY DEF SingleCall, MaskCall
<1>1. AnswerBody(c) = body
  <2>1. /\ c.fn # READ_COILS /\ c.fn \notin Reads /\ c.fn # REPORT_SLAVE_ID
        /\ c.fn \notin WriteMultipleFunctions
    BY <1>0 DEF Reads, WriteMultipleFunctions
  <2>. QED
    BY <2>1, Zenon DEF AnswerBody
<1>2. Framed(body, "indication") /\ body[2] = c.fn
  BY RequestIsFramed, Zenon DEF Answered
<1>3. Len(body) = length
  <2>1. CASE SingleCall(c)
    <3>1. Len(body) = 6
      BY <2>1, SingleRequest, Zenon
    <3>. QED
      BY <2>1, <3>1, Zenon
  <2>2. CASE ~SingleCall(c) /\ MaskCall(c)
    <3>1. Len(body) = 8
      BY <2>2, MaskRequest, Zenon
    <3>. QED
      BY <2>2, <3>1, Zenon
  <2>. QED
    BY <1>0, <2>1, <2>2, Zenon
<1>4. body \in Seq(Byte) /\ body[1] = Slave
  BY <1>2, Zenon DEF Framed
<1>. HIDE DEF body
<1>5. length \in Nat /\ length \in {6, 8} /\ (length = 6 <=> SingleCall(c))
  OBVIOUS
<1>. HIDE DEF length
<1>6. body[length] \in Nat
  <2>1. length \in 1 .. Len(body)
    BY <1>3, <1>5
  <2>. QED
    BY <1>4, <2>1, ByteOf, Zenon
<1>7. /\ compute_meta_length_after_function(c.fn, "confirmation") = length - 2
      /\ FramedLength(c.fn, body[length], "confirmation") = length + 2
  BY <1>0, <1>5, <1>6, ConfirmationLengths
<1>8. Framed(body, "confirmation")
  <2>1. 2 + (length - 2) = length
    BY <1>5
  <2>. QED
    BY <1>2, <1>3, <1>4, <1>5, <1>7, <2>1 DEF Framed
<1>9. /\ Received("confirmation") = line /\ line # <<>> /\ Carries(line, body)
      /\ Framed(body, "confirmation")
  BY <1>1, <1>8, AnswerTaken, Zenon
<1>10. line[2] = c.fn /\ Len(line) = length + 2
  BY <1>2, <1>3, <1>9, Zenon DEF Carries
<1>11. check_confirmation(line)
  <2>1. request[2] = c.fn /\ Carries(request, body)
    BY RequestKept, Zenon DEF body
  <2>2. PICK nb \in Nat : nb = WordAt(request, 5)
    <3>1. WordAt(request, 5) = WordAt(body, 5)
      <4>1. 5 \in 1 .. Len(body) - 1
        BY <1>3, <1>5
      <4>. QED
        BY <2>1, <4>1, Zenon DEF Carries
    <3>2. 5 \in 1 .. Len(body) /\ 6 \in 1 .. Len(body)
      BY <1>3, <1>5
    <3>3. body[5] \in Nat /\ body[6] \in Nat
      BY <1>4, <3>2, ByteOf, Zenon
    <3>4. WordAt(body, 5) \in Nat
      BY <3>3 DEF WordAt
    <3>. QED
      BY <3>1, <3>4
  <2>3. Len(line) = compute_response_length_from_request([fn |-> c.fn, nb |-> nb])
    BY <1>0, <1>5, <1>10, ResponseLengths
  <2>4. RequestValues(c.fn) = ResponseValues(c.fn, line)
    BY <1>0 DEF RequestValues, ResponseValues, ReadBitFunctions, ReadRegisterFunctions,
      WritesMany, WriteMultipleFunctions
  <2>. QED
    BY <1>10, <2>1, <2>2, <2>3, <2>4, ChecksOut, Zenon
<1>12. Result(line) = Written
  <2>1. line[2] \in WritesOnly
    BY <1>0, <1>10 DEF WritesOnly
  <2>. QED
    BY <1>11, <2>1, ResultIs, Zenon
<1>13. Due(c) = Written
  <2>1. c.fn \notin Reads /\ c.fn # REPORT_SLAVE_ID
    BY <1>0 DEF Reads
  <2>. QED
    BY <2>1, Zenon DEF Due
<1>. QED
  BY <1>1, <1>9, <1>12, <1>13, Zenon DEF Confirmed

\* Address and quantity of what was written (modbus_write_bits,
\* modbus_write_registers).
LEMMA AnswersMultiple ==
  ASSUME NEW c, Answered(c), Deserved(c) = 0, BitsCall(c) \/ RegistersCall(c)
  PROVE  Confirmed(c)
<1>. DEFINE sent == RequestBody(c)
            body == AnswerBody(c)
            nb == Len(c.values)
<1>0. c.fn \in {15, 16} /\ nb \in Nat
  BY DEF BitsCall, RegistersCall
<1>1. body = SubSeq(sent, 1, 6)
  <2>1. /\ c.fn # READ_COILS /\ c.fn \notin Reads /\ c.fn # REPORT_SLAVE_ID
        /\ c.fn \in WriteMultipleFunctions
    BY <1>0 DEF Reads, WriteMultipleFunctions
  <2>. QED
    BY <2>1, Zenon DEF AnswerBody
<1>2. Framed(sent, "indication") /\ sent[2] = c.fn
  BY RequestIsFramed, Zenon DEF Answered
<1>3. 7 <= Len(sent) /\ WordAt(sent, 5) = nb
  <2>1. CASE BitsCall(c)
    <3>1. 7 <= Len(sent) /\ WordAt(sent, 5) = nb
      BY <2>1, BitsRequest, Zenon
    <3>. QED
      BY <3>1
  <2>2. CASE RegistersCall(c)
    <3>1. Len(sent) = 7 + 2 * nb /\ WordAt(sent, 5) = nb
      BY <2>2, RegistersRequest, Zenon
    <3>. HIDE DEF sent, nb
    <3>. QED
      BY <1>0, <3>1
  <2>. QED
    BY <2>1, <2>2, Zenon
<1>4. sent \in Seq(Byte) /\ sent[1] = Slave
  BY <1>2, Zenon DEF Framed
<1>. HIDE DEF sent, body, nb
<1>5. body \in Seq(Byte) /\ Len(body) = 6 /\ \A i \in 1 .. 6 : body[i] = sent[i]
  <2>1. 6 \in Nat /\ 6 <= Len(sent)
    BY <1>3, <1>4
  <2>. QED
    BY <1>1, <1>4, <2>1, Beginning, Zenon
<1>6. body[1] = Slave /\ body[2] = c.fn /\ WordAt(body, 5) = nb
  BY <1>2, <1>3, <1>4, <1>5 DEF WordAt
<1>7. body[6] \in Nat
  <2>1. 6 \in 1 .. Len(body)
    BY <1>5
  <2>. QED
    BY <1>5, <2>1, ByteOf, Zenon
<1>8. /\ compute_meta_length_after_function(c.fn, "confirmation") = 4
      /\ FramedLength(c.fn, body[6], "confirmation") = 8
  BY <1>0, <1>7, ConfirmationLengths
<1>9. Framed(body, "confirmation")
  BY <1>5, <1>6, <1>8 DEF Framed
<1>10. /\ Received("confirmation") = line /\ line # <<>> /\ Carries(line, body)
       /\ Framed(body, "confirmation")
  BY <1>9, AnswerTaken, Zenon DEF body
<1>11. line[2] = c.fn /\ Len(line) = 8 /\ WordAt(line, 5) = nb
  BY <1>5, <1>6, <1>10 DEF Carries
<1>12. request[2] = c.fn /\ WordAt(request, 5) = nb
  <2>1. Carries(request, sent) /\ request[2] = c.fn
    BY RequestKept, Zenon DEF sent
  <2>. QED
    BY <1>3, <1>4, <2>1 DEF Carries
<1>13. check_confirmation(line)
  <2>1. Len(line) = compute_response_length_from_request([fn |-> c.fn, nb |-> nb])
    BY <1>0, <1>11, ResponseLengths
  <2>2. RequestValues(c.fn) = ResponseValues(c.fn, line)
    BY <1>0, <1>11, <1>12 DEF RequestValues, ResponseValues, ReadBitFunctions,
      ReadRegisterFunctions, WritesMany, WriteMultipleFunctions
  <2>. QED
    BY <1>11, <1>12, <2>1, <2>2, ChecksOut, Zenon
<1>14. Result(line) = Written
  <2>1. line[2] \in WritesOnly
    BY <1>0, <1>11 DEF WritesOnly
  <2>. QED
    BY <1>13, <2>1, ResultIs, Zenon
<1>15. Due(c) = Written
  <2>1. c.fn \notin Reads /\ c.fn # REPORT_SLAVE_ID
    BY <1>0 DEF Reads
  <2>. QED
    BY <2>1, Zenon DEF Due
<1>. QED
  BY <1>10, <1>14, <1>15, Zenon DEF Confirmed, body

\* modbus_report_slave_id
LEMMA AnswersReport ==
  ASSUME NEW c, Answered(c), Deserved(c) = 0, c.fn = REPORT_SLAVE_ID, c.max_dest \in Nat
  PROVE  Confirmed(c)
<1>. DEFINE body == AnswerBody(c)
            m == Len(slave_id)
            k == Shorter(m, c.max_dest)
<1>1. slave_id \in Seq(Byte) /\ m = 10 /\ m \in Byte /\ c.fn \in Byte
  BY DEF slave_id, Byte
<1>2. body = <<Slave, c.fn, m>> \o slave_id
  <2>1. c.fn # READ_COILS /\ c.fn \notin Reads
    BY DEF Reads
  <2>. QED
    BY <2>1, Zenon DEF AnswerBody
<1>. HIDE DEF body
<1>3. HasData(body, c.fn, slave_id)
  BY <1>1, <1>2, WithData, Zenon
<1>4. /\ body \in Seq(Byte) /\ Len(body) = 13
      /\ body[1] = Slave /\ body[2] = c.fn /\ body[3] = 10
      /\ \A j \in 1 .. 10 : body[3 + j] = slave_id[j]
  BY <1>1, <1>3 DEF HasData
<1>5. /\ compute_meta_length_after_function(c.fn, "confirmation") = 1
      /\ FramedLength(c.fn, 10, "confirmation") = 15
  BY ConfirmationLengths
<1>6. Framed(body, "confirmation")
  BY <1>4, <1>5 DEF Framed
<1>7. /\ Received("confirmation") = line /\ line # <<>> /\ Carries(line, body)
      /\ Framed(body, "confirmation")
  BY <1>6, AnswerTaken, Zenon DEF body
<1>8. line[2] = c.fn /\ line[3] = 10
  BY <1>4, <1>7 DEF Carries
<1>9. check_confirmation(line)
  <2>1. request[2] = c.fn
    BY RequestKept, Zenon
  <2>2. RequestValues(c.fn) = ResponseValues(c.fn, line)
    BY DEF RequestValues, ResponseValues, ReadBitFunctions,
      ReadRegisterFunctions, WritesMany, WriteMultipleFunctions
  <2>. QED
    BY <1>8, <2>1, <2>2, ChecksOut, Zenon
<1>10. Result(line) = Values(SubSeq(line, 4, 3 + k))
  <2>1. call = c
    BY Zenon DEF Answered
  <2>. QED
    BY <1>1, <1>8, <1>9, <2>1, ResultIs, Zenon
<1>11. SubSeq(line, 4, 3 + k) = SubSeq(slave_id, 1, k)
  <2>1. k \in 0 .. 10
    <3>1. \A x \in Nat : (IF 10 < x THEN 10 ELSE x) \in 0 .. 10
      OBVIOUS
    <3>2. k = IF 10 < c.max_dest THEN 10 ELSE c.max_dest
      BY <1>1, Zenon DEF Shorter
    <3>. QED
      BY <3>1, <3>2, Zenon
  <2>. HIDE DEF k
  <2>2. SubSeq(line, 4, 3 + k) = SubSeq(body, 4, 3 + k)
    <3>1. 4 \in 1 .. Len(body) + 1 /\ 3 + k \in 0 .. Len(body)
      BY <1>4, <2>1
    <3>. QED
      BY <1>7, <3>1 DEF Carries
  <2>3. SubSeq(body, 4, 3 + k) = SubSeq(slave_id, 1, k)
    <3>1. SubSeq(body, 4, 13) = slave_id
      BY <1>1, <1>3 DEF HasData
    <3>2. 4 + 1 - 1 = 4 /\ 4 + k - 1 = 3 + k
      BY <2>1
    <3>3. SubSeq(SubSeq(body, 4, 13), 1, k) = SubSeq(body, 4 + 1 - 1, 4 + k - 1)
      BY <1>4, <2>1, SubSeqOfSubSeq
    <3>. QED
      BY <3>1, <3>2, <3>3
  <2>. QED
    BY <2>2, <2>3, Zenon
<1>12. Due(c) = Values(SubSeq(slave_id, 1, k))
  <2>1. c.fn \notin Reads
    BY DEF Reads
  <2>. QED
    BY <2>1, Zenon DEF Due
<1>. QED
  BY <1>7, <1>10, <1>11, <1>12, Zenon DEF Confirmed, body

\* Whatever is refused (response_exception).
LEMMA AnswersException ==
  ASSUME NEW c, Answered(c), Deserved(c) # 0
  PROVE  Confirmed(c)
<1>. DEFINE body == AnswerBody(c)
            code == Deserved(c)
            fn == c.fn + 128
<1>0. c.fn \in {1, 3, 5, 6, 15, 16, 17, 22, 23}
  BY KindsOfCalls DEF Answered, SentCall, ReadCall, SingleCall, BitsCall, RegistersCall, MaskCall,
    WriteReadCall
<1>1. code \in {2, 3}
  BY DEF Deserved, ILLEGAL_DATA_VALUE, ILLEGAL_DATA_ADDRESS
<1>2. body = <<Slave, fn, code>>
  BY Zenon DEF AnswerBody
<1>. HIDE DEF body, code
<1>3. Slave \in Byte /\ fn \in Byte /\ code \in Byte /\ fn >= 128 /\ fn \in Nat /\ fn - 128 = c.fn
  BY <1>0, <1>1, CodecAssumption DEF Byte
<1>. HIDE DEF fn
<1>4. /\ body \in Seq(Byte) /\ Len(body) = 3
      /\ body[1] = Slave /\ body[2] = fn /\ body[3] = code
  BY <1>2, <1>3
<1>5. /\ compute_meta_length_after_function(fn, "confirmation") = 1
      /\ FramedLength(fn, code, "confirmation") = 5
  BY <1>1, <1>3, ConfirmationLengths
<1>6. Framed(body, "confirmation")
  BY <1>4, <1>5 DEF Framed
<1>7. /\ Received("confirmation") = line /\ line # <<>> /\ Carries(line, body)
      /\ Framed(body, "confirmation")
  BY <1>6, AnswerTaken, Zenon DEF body
<1>8. line[2] = fn /\ line[3] = code /\ Len(line) = 5
  BY <1>4, <1>7 DEF Carries
<1>9. request[2] = line[2] - 128
  BY <1>3, <1>8, RequestKept
<1>10. Result(line) = Exception(code)
  BY <1>3, <1>8, <1>9, ResultIs
<1>11. Due(c) = Exception(code)
  BY Zenon DEF Due, code
<1>. QED
  BY <1>7, <1>10, <1>11, Zenon DEF Confirmed, body

LEMMA ConfirmsAll ==
  ASSUME NEW c, Answered(c)
  PROVE  Confirmed(c)
<1>1. CASE Deserved(c) # 0
  BY <1>1, AnswersException, Zenon
<1>2. CASE Deserved(c) = 0
  <2>1. CASE ReadCall(c)
    <3>1. c.fn = READ_COILS \/ c.fn = READ_HOLDING_REGISTERS
      BY <2>1 DEF ReadCall
    <3>. QED
      BY <1>2, <2>1, <3>1, AnswersReadBits, AnswersReadRegisters, Zenon
  <2>2. CASE SingleCall(c) \/ MaskCall(c)
    BY <1>2, <2>2, AnswersEcho, Zenon
  <2>3. CASE BitsCall(c) \/ RegistersCall(c)
    BY <1>2, <2>3, AnswersMultiple, Zenon
  <2>4. CASE WriteReadCall(c)
    BY <1>2, <2>4, AnswersReadRegisters, Zenon
  <2>5. CASE c.fn = REPORT_SLAVE_ID /\ c.max_dest \in Nat
    BY <1>2, <2>5, AnswersReport, Zenon
  <2>. QED
    BY <2>1, <2>2, <2>3, <2>4, <2>5, KindsOfCalls, Zenon DEF Answered, SentCall
<1>. QED
  BY <1>1, <1>2, Zenon

-----------------------------------------------------------------------------
\* The invariant

\* The request of c is on its way, and whole unless it was damaged.
Asked(c) ==
  /\ SentCall(c) /\ call = c /\ request = RequestBytes(c)
  /\ ~damaged => line = RequestBytes(c)

\* Its answer is.
Replied(c) ==
  /\ SentCall(c) /\ call = c /\ request = RequestBytes(c)
  /\ ~damaged => line = send_msg_pre(AnswerBody(c))

\* c has returned.
Finished(c) ==
  /\ call = c
  /\ result = IF damaged \/ ~Legal(Quantities(c)) THEN Failed ELSE Due(c)

\* What there is of a call between its steps.
Inv ==
  /\ TablesOK
  /\ turn \in {"server", "client", "nobody"}
  /\ damaged \in BOOLEAN
  /\ turn = "server" => \E c \in Calls : Asked(c)
  /\ turn = "client" => \E c \in Calls : Replied(c)
  /\ turn = "nobody" /\ calls > 0 => \E c \in Calls : Finished(c)

\* It holds of the tables as modbus_mapping_new leaves them.
LEMMA InvInit == Init => Inv
<1>. SUFFICES ASSUME Init PROVE Inv
  OBVIOUS
<1>1. TablesOK
  BY WordRange DEF Init, TablesOK
<1>2. turn = "nobody" /\ calls = 0 /\ damaged = FALSE
  BY Zenon DEF Init
<1>3. ~(calls > 0)
  BY <1>2
<1>. QED
  BY <1>1, <1>2, <1>3 DEF Inv

\* A call is begun, or refused for what it asks.
LEMMA InvMakeCall ==
  ASSUME Inv, NEW c \in Calls, MakeCall(c)
  PROVE  Inv'
<1>1. TablesOK'
  BY Zenon DEF Inv, MakeCall, TablesOK
<1>2. CASE Legal(Quantities(c))
  <2>1. /\ turn' = "server" /\ damaged' = FALSE /\ call' = c
        /\ request' = RequestBytes(c) /\ line' = RequestBytes(c)
    BY <1>2, Zenon DEF MakeCall
  <2>2. Asked(c)'
    BY <1>2, <2>1, Zenon DEF Asked, SentCall
  <2>. QED
    BY <1>1, <2>1, <2>2 DEF Inv
<1>3. CASE ~Legal(Quantities(c))
  <2>1. turn' = "nobody" /\ damaged' = FALSE /\ call' = c /\ result' = Failed
    BY <1>3, Zenon DEF MakeCall
  <2>2. Finished(c)'
    BY <1>3, <2>1, Zenon DEF Finished
  <2>. QED
    BY <1>1, <2>1, <2>2 DEF Inv
<1>. QED
  BY <1>2, <1>3, Zenon

\* What the server does for the call of a request on its way, damaged or not.
LEMMA ServeFacts ==
  ASSUME Inv, DamageDetected, Serve, NEW c, Asked(c)
  PROVE  /\ TablesOK'
         /\ IF damaged \/ Deserved(c) # 0
              THEN UNCHANGED <<tab_bits, tab_registers>>
              ELSE /\ Executed(c, TRUE, tab_bits, tab_bits')
                   /\ Executed(c, FALSE, tab_registers, tab_registers')
         /\ Replied(c)'
<1>0. /\ turn = "server"
      /\ UNCHANGED <<call, request, damaged>>
  BY Zenon DEF Serve
<1>1. CASE damaged
  <2>1. UNCHANGED <<tab_bits, tab_registers>>
    <3>1. CASE line = <<>>
      <4>1. Received("indication") = <<>>
        <5>1. Len(line) = 0
          BY <3>1
        <5>. QED
          BY <5>1 DEF Received
      <4>. QED
        BY <4>1, Zenon DEF Serve
    <3>2. CASE line # <<>>
      <4>1. Received("indication") = <<>>
        BY <1>0, <1>1, <3>2, Zenon DEF DamageDetected
      <4>. QED
        BY <4>1, Zenon DEF Serve
    <3>. QED
      BY <3>1, <3>2, Zenon
  <2>2. TablesOK'
    BY <2>1, Zenon DEF Inv, TablesOK
  <2>3. Replied(c)'
    BY <1>0, <1>1, Zenon DEF Asked, Replied
  <2>. QED
    BY <1>1, <2>1, <2>2, <2>3, Zenon
<1>2. CASE ~damaged
  <2>1. Served(c)
    BY <1>2, ServeStep, Zenon DEF Asked, Inv
  <2>2. Replied(c)'
    BY <1>0, <2>1, Zenon DEF Asked, Replied, Served
  <2>. QED
    BY <1>2, <2>1, <2>2, Zenon DEF Served
<1>. QED
  BY <1>1, <1>2, Zenon

LEMMA InvServe ==
  ASSUME Inv, DamageDetected, Serve
  PROVE  Inv'
<1>1. PICK c \in Calls : Asked(c)
  BY Zenon DEF Inv, Serve
<1>2. TablesOK' /\ Replied(c)'
  BY <1>1, ServeFacts, Zenon
<1>3. turn' = "client" /\ damaged' = damaged
  BY Zenon DEF Serve
<1>. QED
  BY <1>2, <1>3 DEF Inv

\* The client returns what is due, or that the call failed.
LEMMA ConfirmFacts ==
  ASSUME Inv, DamageDetected, Confirm
  PROVE  \E c \in Calls : Finished(c)' /\ result' \in {Failed, Due(c)}
<1>1. PICK c \in Calls : Replied(c)
  BY Zenon DEF Inv, Confirm
<1>2. /\ turn = "client"
      /\ UNCHANGED <<tab_bits, tab_registers, call, damaged>>
      /\ result' = IF line = <<>> THEN Failed
                   ELSE IF Received("confirmation") = <<>> THEN Failed
                   ELSE Result(Received("confirmation"))
  BY Zenon DEF Confirm
<1>3. CASE damaged
  <2>1. line # <<>> => Received("confirmation") = <<>>
    BY <1>2, <1>3 DEF DamageDetected
  <2>2. result' = Failed
    BY <1>2, <2>1, Zenon
  <2>3. Finished(c)'
    BY <1>1, <1>2, <1>3, <2>2, Zenon DEF Replied, Finished
  <2>. QED
    BY <2>2, <2>3
<1>4. CASE ~damaged
  <2>1. Answered(c)
    BY <1>1, <1>4, Zenon DEF Replied, Answered, Inv
  <2>2. result' = Due(c)
    BY <1>2, <2>1, ConfirmsAll, Zenon DEF Confirmed
  <2>3. Due(c)' = Due(c)
    BY <1>2, Zenon DEF Due, ReadValues
  <2>4. Finished(c)'
    BY <1>1, <1>2, <1>4, <2>2, <2>3, Zenon DEF Replied, Finished, SentCall
  <2>. QED
    BY <2>2, <2>4
<1>. QED
  BY <1>3, <1>4, Zenon

LEMMA InvConfirm ==
  ASSUME Inv, DamageDetected, Confirm
  PROVE  Inv'
<1>1. PICK c \in Calls : Finished(c)'
  BY ConfirmFacts, Zenon
<1>2. turn' = "nobody" /\ UNCHANGED <<tab_bits, tab_registers, damaged>>
  BY Zenon DEF Confirm
<1>3. TablesOK'
  BY <1>2, Zenon DEF Inv, TablesOK
<1>. QED
  BY <1>1, <1>2, <1>3 DEF Inv

\* Nothing is said of a message that was damaged.
LEMMA InvDamage ==
  ASSUME Inv, Damage
  PROVE  Inv'
<1>1. /\ turn # "nobody" /\ turn' = turn /\ damaged' = TRUE
      /\ UNCHANGED <<tab_bits, tab_registers, call, request>>
  BY Zenon DEF Damage
<1>2. TablesOK'
  BY <1>1, Zenon DEF Inv, TablesOK
<1>3. turn = "server" => \E c \in Calls : Asked(c)'
  BY <1>1, Zenon DEF Inv, Asked
<1>4. turn = "client" => \E c \in Calls : Replied(c)'
  BY <1>1, Zenon DEF Inv, Replied
<1>. QED
  BY <1>1, <1>2, <1>3, <1>4 DEF Inv

LEMMA InvStep == Inv /\ DamageDetected /\ [Next]_vars => Inv'
<1>. SUFFICES ASSUME Inv, DamageDetected, [Next]_vars
              PROVE  Inv'
  OBVIOUS
<1>1. ASSUME NEW c \in Calls, MakeCall(c)
      PROVE  Inv'
  BY <1>1, InvMakeCall, Zenon
<1>2. CASE Serve
  BY <1>2, InvServe, Zenon
<1>3. CASE Confirm
  BY <1>3, InvConfirm, Zenon
<1>4. CASE Damage
  BY <1>4, InvDamage, Zenon
<1>5. CASE UNCHANGED vars
  BY <1>5, Zenon DEF vars, Inv, TablesOK, Asked, Replied, Finished, AnswerBody, Due, ReadValues
<1>. QED
  BY <1>1, <1>2, <1>3, <1>4, <1>5, Zenon DEF Next

-----------------------------------------------------------------------------
\* Damage

\* What the sender of the message under way wrote, and what the other side takes it for.
SentBody == IF turn = "server" THEN RequestBody(call) ELSE AnswerBody(call)
Kind == IF turn = "server" THEN "indication" ELSE "confirmation"

\* The one hypothesis of the theorems: a message is not taken for one if the damaged byte
\* is the function or the count, from which the receiving side computes where it ends.
\* Whether the checksum is found wrong there depends on the bytes; on a line that damages
\* nothing it holds (UndamagedCorrect).
FramingDetected ==
  LET count == 2 + compute_meta_length_after_function(SentBody[2], Kind)
  IN  damaged /\ line # <<>> /\ (line[2] # SentBody[2] \/ line[count] # SentBody[count]) =>
        Received(Kind) = <<>>

\* A damaged message is one byte off what was sent.
Off ==
  damaged /\ line # <<>> =>
    Framed(SentBody, Kind) /\ OneByteOff(line, send_msg_pre(SentBody))

LEMMA OffInit == Init => Off
BY Zenon DEF Init, Off

\* The damage, and all it does.
LEMMA OffDamage ==
  ASSUME Inv, Damage
  PROVE  Off'
<1>1. /\ turn # "nobody" /\ ~damaged
      /\ UNCHANGED <<tab_bits, tab_registers, call, turn>>
  BY Zenon DEF Damage
<1>2. PICK i \in DOMAIN line, m \in Masks : line' = [line EXCEPT ![i] = Xor(line[i], m)]
  BY Zenon DEF Damage
<1>3. Framed(SentBody, Kind) /\ line = send_msg_pre(SentBody)
  <2>1. CASE turn = "server"
    <3>1. PICK c \in Calls : Asked(c)
      BY <2>1, Zenon DEF Inv
    <3>2. SentCall(c) /\ c = call /\ line = send_msg_pre(RequestBody(c))
      BY <1>1, <3>1, RequestIs, Zenon DEF Asked
    <3>3. Framed(RequestBody(c), "indication")
      BY <3>2, RequestIsFramed, Zenon
    <3>. QED
      BY <2>1, <3>2, <3>3, Zenon DEF SentBody, Kind
  <2>2. CASE turn # "server"
    <3>1. PICK c \in Calls : Replied(c)
      BY <1>1, <2>2, Zenon DEF Inv
    <3>2. Answered(c) /\ c = call /\ line = send_msg_pre(AnswerBody(c))
      BY <1>1, <3>1, Zenon DEF Inv, Replied, Answered
    <3>3. Framed(AnswerBody(c), "confirmation")
      BY <3>2, ConfirmsAll, Zenon DEF Confirmed
    <3>. QED
      BY <2>2, <3>2, <3>3, Zenon DEF SentBody, Kind
  <2>. QED
    BY <2>1, <2>2, Zenon
<1>4. line \in Seq(Byte)
  BY <1>3, SentIsBytes, Zenon DEF Framed
<1>5. i \in 1 .. Len(line) /\ line[i] \in Byte /\ m \in Byte /\ m # 0
  <2>1. i \in 1 .. Len(line) /\ line[i] \in Byte
    BY <1>2, <1>4
  <2>2. m \in 1 .. 255
    BY <1>2, CodecAssumption, Zenon
  <2>3. m \in Byte /\ m # 0
    BY <2>2 DEF Byte
  <2>. QED
    BY <2>1, <2>3, Zenon
<1>6. Xor(line[i], m) \in Byte /\ Xor(line[i], m) # line[i]
  BY <1>5, XorChanges, Zenon
<1>7. /\ line' \in Seq(Byte) /\ Len(line') = Len(line)
      /\ line'[i] # line[i] /\ \A j \in 1 .. Len(line) : j # i => line'[j] = line[j]
  BY <1>2, <1>4, <1>5, <1>6
<1>8. OneByteOff(line', line)
  BY <1>4, <1>5, <1>7, Zenon DEF OneByteOff
<1>9. SentBody' = SentBody /\ Kind' = Kind
  BY <1>1, Zenon DEF SentBody, Kind, AnswerBody, ReadValues
<1>. QED
  BY <1>3, <1>8, <1>9, Zenon DEF Off

LEMMA OffStep == Inv /\ Off /\ DamageDetected /\ [Next]_vars => Off'
<1>. SUFFICES ASSUME Inv, Off, DamageDetected, [Next]_vars
              PROVE  Off'
  OBVIOUS
<1>1. ASSUME NEW c \in Calls, MakeCall(c)
      PROVE  Off'
  <2>1. damaged' = FALSE
    BY <1>1, Zenon DEF MakeCall
  <2>. QED
    BY <2>1, Zenon DEF Off
<1>2. CASE Serve
  <2>1. turn = "server" /\ damaged' = damaged
    BY <1>2, Zenon DEF Serve
  <2>2. CASE damaged
    <3>1. Received("indication") = <<>>
      <4>1. line = <<>> => Len(line) = 0
        OBVIOUS
      <4>2. line = <<>> => Received("indication") = <<>>
        BY <4>1 DEF Received
      <4>. QED
        BY <2>1, <2>2, <4>2, Zenon DEF DamageDetected
    <3>2. line' = <<>>
      BY <1>2, <3>1, Zenon DEF Serve
    <3>. QED
      BY <3>2, Zenon DEF Off
  <2>3. CASE ~damaged
    BY <2>1, <2>3, Zenon DEF Off
  <2>. QED
    BY <2>2, <2>3, Zenon
<1>3. CASE Confirm
  <2>1. line' = <<>>
    BY <1>3, Zenon DEF Confirm
  <2>. QED
    BY <2>1, Zenon DEF Off
<1>4. CASE Damage
  BY <1>4, OffDamage, Zenon
<1>5. CASE UNCHANGED vars
  <2>1. UNCHANGED <<tab_bits, tab_registers, call, turn, damaged, line>>
    BY <1>5, Zenon DEF vars
  <2>2. SentBody' = SentBody /\ Kind' = Kind
    BY <2>1, Zenon DEF SentBody, Kind, AnswerBody, ReadValues
  <2>. QED
    BY <2>1, <2>2, Zenon DEF Off
<1>. QED
  BY <1>1, <1>2, <1>3, <1>4, <1>5, Zenon DEF Next

LEMMA OffDetected == Off /\ FramingDetected => DamageDetected
<1>. SUFFICES ASSUME Off, FramingDetected, damaged, line # <<>>
              PROVE  Received(Kind) = <<>>
  BY Zenon DEF DamageDetected, Kind
<1>. DEFINE count == 2 + compute_meta_length_after_function(SentBody[2], Kind)
<1>1. CASE line[2] # SentBody[2] \/ line[count] # SentBody[count]
  BY <1>1, Zenon DEF FramingDetected
<1>2. CASE line[2] = SentBody[2] /\ line[count] = SentBody[count]
  <2>1. Framed(SentBody, Kind) /\ OneByteOff(line, send_msg_pre(SentBody))
    BY Zenon DEF Off
  <2>. QED
    BY <1>2, <2>1, DamagedDropped, Zenon
<1>. QED
  BY <1>1, <1>2, Zenon

\* The checksum detects every damage of one byte that leaves the function and the count
\* as they were, whatever the message, the byte and the bits (DamageDetected): what is
\* assumed of the others is FramingDetected.
THEOREM DamageDetectedCorrect == Spec /\ []FramingDetected => []DamageDetected
<1>1. Init => Inv /\ Off
  BY InvInit, OffInit, Zenon
<1>2. Inv /\ Off /\ FramingDetected /\ [Next]_vars => (Inv /\ Off)'
  BY InvStep, OffStep, OffDetected, Zenon
<1>3. Off /\ FramingDetected => DamageDetected
  BY OffDetected
<1>. QED
  BY <1>1, <1>2, <1>3, PTL DEF Spec

-----------------------------------------------------------------------------
\* Types

\* What TypeOK says beside the tables.
RestOK ==
  /\ line \in Seq(Byte) /\ request \in Seq(Byte)
  /\ calls \in 0 .. MaxCalls
  /\ call \in Calls \cup {NoCall}
  /\ result.kind \in {"failed", "exception", "values", "written"}

LEMMA TypesTogether == Inv /\ RestOK => TypeOK
BY Zenon DEF Inv, RestOK, TypeOK, TablesOK

\* What the client functions return is of one of the four kinds.
LEMMA KindOfResult ==
  ASSUME NEW c
  PROVE  /\ Failed.kind \in {"failed", "exception", "values", "written"}
         /\ Due(c).kind \in {"failed", "exception", "values", "written"}
BY DEF Failed, Due, Exception, Values, Written

LEMMA RestInit == Init => RestOK
<1>. SUFFICES ASSUME Init PROVE RestOK
  OBVIOUS
<1>1. line = <<>> /\ request = <<>> /\ calls = 0 /\ call = NoCall /\ result = Failed
  BY Zenon DEF Init
<1>. QED
  BY <1>1, KindOfResult, CodecAssumption DEF RestOK

LEMMA RestMakeCall ==
  ASSUME RestOK, NEW c \in Calls, MakeCall(c)
  PROVE  RestOK'
<1>1. calls < MaxCalls /\ calls' = calls + 1 /\ call' = c /\ result' = Failed
  BY Zenon DEF MakeCall
<1>2. CASE Legal(Quantities(c))
  <2>1. request' = RequestBytes(c) /\ line' = RequestBytes(c)
    BY <1>2, Zenon DEF MakeCall
  <2>2. RequestBody(c) \in Seq(Byte)
    BY <1>2, RequestIsFramed, Zenon DEF SentCall, Framed
  <2>3. RequestBytes(c) \in Seq(Byte)
    BY <2>2, RequestIs, SentIsBytes, Zenon
  <2>. QED
    BY <1>1, <2>1, <2>3, KindOfResult, CodecAssumption DEF RestOK
<1>3. CASE ~Legal(Quantities(c))
  <2>1. UNCHANGED <<request, line>>
    BY <1>3, Zenon DEF MakeCall
  <2>. QED
    BY <1>1, <2>1, KindOfResult, CodecAssumption DEF RestOK
<1>. QED
  BY <1>2, <1>3

\* So is every answer.
AnswersAreBytes == \A c : Answered(c) => AnswerBody(c) \in Seq(Byte)

LEMMA AnswerIsBytes == AnswersAreBytes
BY ConfirmsAll, Zenon DEF AnswersAreBytes, Confirmed, Carries

\* The answer is bytes as the client finds it, or there is none.
LEMMA RestServe ==
  ASSUME Inv, RestOK, DamageDetected, Serve
  PROVE  RestOK'
<1>1. UNCHANGED <<calls, call, request, damaged, result>> /\ turn = "server"
  BY Zenon DEF Serve
<1>2. PICK c \in Calls : Asked(c)
  BY <1>1, Zenon DEF Inv
<1>3. line' \in Seq(Byte)
  <2>1. CASE damaged
    <3>1. Received("indication") = <<>>
      <4>1. line = <<>> => Len(line) = 0
        OBVIOUS
      <4>2. line = <<>> => Received("indication") = <<>>
        BY <4>1 DEF Received
      <4>. QED
        BY <1>1, <2>1, <4>2, Zenon DEF DamageDetected
    <3>2. line' = <<>>
      BY <3>1, Zenon DEF Serve
    <3>. QED
      BY <3>2
  <2>2. CASE ~damaged
    <3>1. Inv' /\ Replied(c)'
      BY <1>2, ServeFacts, InvServe, Zenon
    <3>2. Answered(c)'
      BY <1>1, <2>2, <3>1, Zenon DEF Inv, Replied, Answered
    <3>3. AnswerBody(c)' \in Seq(Byte)
      <4>1. AnswersAreBytes'
        BY AnswerIsBytes, PTL
      <4>. QED
        BY <3>2, <4>1, Zenon DEF AnswersAreBytes
    <3>4. line' = send_msg_pre(AnswerBody(c)')
      BY <1>1, <2>2, <3>1, Zenon DEF Replied
    <3>. QED
      BY <3>3, <3>4, SentIsBytes, Zenon
  <2>. QED
    BY <2>1, <2>2
<1>. QED
  BY <1>1, <1>3, Zenon DEF RestOK

LEMMA RestConfirm ==
  ASSUME Inv, RestOK, DamageDetected, Confirm
  PROVE  RestOK'
<1>1. UNCHANGED <<calls, call, request>> /\ line' = <<>>
  BY Zenon DEF Confirm
<1>2. result'.kind \in {"failed", "exception", "values", "written"}
  BY ConfirmFacts, KindOfResult, Zenon
<1>3. line' \in Seq(Byte)
  BY <1>1
<1>. QED
  BY <1>1, <1>2, <1>3, Zenon DEF RestOK

LEMMA RestDamage ==
  ASSUME RestOK, Damage
  PROVE  RestOK'
<1>1. UNCHANGED <<calls, call, request, result>>
  BY Zenon DEF Damage
<1>2. PICK i \in DOMAIN line, m \in Masks : line' = [line EXCEPT ![i] = Xor(line[i], m)]
  BY Zenon DEF Damage
<1>3. line \in Seq(Byte) /\ i \in 1 .. Len(line)
  BY <1>2 DEF RestOK
<1>4. \A b \in Byte : b \in Word16
  BY WordRange DEF Byte
<1>5. line[i] \in Byte /\ m \in Byte
  BY <1>2, <1>3, CodecAssumption DEF Byte
<1>6. Xor(line[i], m) \in Byte
  BY <1>4, <1>5, XorFacts, Zenon
<1>7. line' \in Seq(Byte)
  BY <1>2, <1>3, <1>6
<1>. QED
  BY <1>1, <1>7, Zenon DEF RestOK

LEMMA RestStep == Inv /\ RestOK /\ DamageDetected /\ [Next]_vars => RestOK'
<1>. SUFFICES ASSUME Inv, RestOK, DamageDetected, [Next]_vars
              PROVE  RestOK'
  OBVIOUS
<1>1. ASSUME NEW c \in Calls, MakeCall(c)
      PROVE  RestOK'
  BY <1>1, RestMakeCall, Zenon
<1>2. CASE Serve
  BY <1>2, RestServe, Zenon
<1>3. CASE Confirm
  BY <1>3, RestConfirm, Zenon
<1>4. CASE Damage
  BY <1>4, RestDamage, Zenon
<1>5. CASE UNCHANGED vars
  BY <1>5, Zenon DEF vars, RestOK
<1>. QED
  BY <1>1, <1>2, <1>3, <1>4, <1>5, Zenon DEF Next

-----------------------------------------------------------------------------
\* What the runs check

\* The types the run checks (TypeOK): coils are 0 or 1, registers are words, and
\* only bytes are ever on the line, whatever checksums the messages get (crc16) and
\* whichever bits of them are damaged.
THEOREM TypeCorrect == Spec /\ []FramingDetected => []TypeOK
<1>. QED
  BY DamageDetectedCorrect, InvInit, InvStep, RestInit, RestStep, TypesTogether, PTL DEF Spec

\* A call that has returned has returned what Returned says.
LEMMA InvReturned == Inv => Returned
<1>. SUFFICES ASSUME Inv, turn = "nobody", calls > 0
              PROVE  result =
                       IF damaged \/ ~Legal(Quantities(call)) THEN Failed ELSE Due(call)
  BY Zenon DEF Returned, Due
<1>1. PICK c \in Calls : Finished(c)
  BY Zenon DEF Inv
<1>. QED
  BY <1>1, Zenon DEF Finished

\* Every call of every client, in every order and for tables of any size, returns
\* what the server's tables hold, that it was written, who the server is, or the
\* exception it deserves; it fails if a byte of its messages was damaged or it
\* asked too much (Returned: the request builders, check_integrity, modbus_reply,
\* check_confirmation, read_io_status and read_registers, composed).
THEOREM ReturnedCorrect == Spec /\ []FramingDetected => []Returned
<1>. QED
  BY DamageDetectedCorrect, InvInit, InvStep, InvReturned, PTL DEF Spec

\* What one step of the server does, from the invariant.
LEMMA ServeStepAsCalled ==
  ASSUME Inv, DamageDetected, [Next]_vars, turn = "server", turn' = "client"
  PROVE  IF damaged \/ Deserved(call) # 0
           THEN UNCHANGED <<tab_bits, tab_registers>>
           ELSE /\ Executed(call, TRUE, tab_bits, tab_bits')
                /\ Executed(call, FALSE, tab_registers, tab_registers')
<1>1. Serve
  <2>1. ~(turn = "nobody") /\ ~(turn = "client") /\ ~(turn' = turn)
    OBVIOUS
  <2>2. ~Confirm /\ ~Damage /\ \A c \in Calls : ~MakeCall(c)
    BY <2>1, Zenon DEF Confirm, Damage, MakeCall
  <2>3. ~(UNCHANGED vars)
    BY <2>1, Zenon DEF vars
  <2>. QED
    BY <2>2, <2>3, Zenon DEF Next
<1>2. PICK c \in Calls : Asked(c)
  BY Zenon DEF Inv
<1>3. call = c
  BY <1>2, Zenon DEF Asked
<1>. QED
  BY <1>1, <1>2, <1>3, ServeFacts, Zenon

\* The server executes every call as the client meant it, at its addresses and no
\* others, and nothing of a refused or damaged one (ServedAsCalled: the packing of
\* bits and registers, the checksum, _modbus_receive_msg and modbus_reply).
THEOREM ServedAsCalledCorrect == Spec /\ []FramingDetected => ServedAsCalled
<1>1. Inv /\ DamageDetected /\ [Next]_vars =>
        [(turn = "server" /\ turn' = "client") =>
           IF damaged \/ Deserved(call) # 0
             THEN UNCHANGED <<tab_bits, tab_registers>>
             ELSE /\ Executed(call, TRUE, tab_bits, tab_bits')
                  /\ Executed(call, FALSE, tab_registers, tab_registers')]_vars
  BY ServeStepAsCalled, Zenon
<1>. QED
  BY <1>1, DamageDetectedCorrect, InvInit, InvStep, PTL DEF Spec, ServedAsCalled

-----------------------------------------------------------------------------
\* Floats in two registers

\* The word of a high and a low byte.
Pair(h, l) == 256 * h + l

LEMMA PairFacts ==
  ASSUME NEW h \in Byte, NEW l \in Byte
  PROVE  /\ Pair(h, l) % 256 = l
         /\ Pair(h, l) \div 256 = h
         /\ bswap_16(Pair(h, l)) = Pair(l, h)
<1>1. Pair(h, l) % 256 = l /\ Pair(h, l) \div 256 = h
  BY DEF Pair, Byte
<1>. QED
  BY <1>1 DEF bswap_16, Pair

LEMMA PairOf ==
  ASSUME NEW w \in Word16
  PROVE  \E h \in Byte, l \in Byte : w = Pair(h, l)
BY BytesFacts DEF Pair

\* Two words in memory and on the line, and the swaps of their bytes.
FloatRules(a, b, c, d) ==
  /\ InMemory(<<Pair(a, b), Pair(c, d)>>) = <<d, c, b, a>>
  /\ FromMemory(<<d, c, b, a>>) = <<Pair(a, b), Pair(c, d)>>
  /\ bswap_32(<<Pair(a, b), Pair(c, d)>>) = <<Pair(d, c), Pair(b, a)>>
  /\ bswap_16(Pair(a, b)) = Pair(b, a)
  /\ bswap_16(Pair(c, d)) = Pair(d, c)
  /\ BytesOf(<<Pair(a, b), Pair(c, d)>>) = <<a, b, c, d>>

LEMMA FloatFacts ==
  ASSUME NEW a \in Byte, NEW b \in Byte, NEW c \in Byte, NEW d \in Byte
  PROVE  FloatRules(a, b, c, d)
<1>1. /\ Pair(a, b) % 256 = b /\ Pair(a, b) \div 256 = a
      /\ Pair(c, d) % 256 = d /\ Pair(c, d) \div 256 = c
  BY PairFacts
<1>2. bswap_16(Pair(a, b)) = Pair(b, a) /\ bswap_16(Pair(c, d)) = Pair(d, c)
  BY PairFacts
<1>3. InMemory(<<Pair(a, b), Pair(c, d)>>) = <<d, c, b, a>>
  BY <1>1 DEF InMemory
<1>4. FromMemory(<<d, c, b, a>>) = <<Pair(a, b), Pair(c, d)>>
  BY DEF FromMemory, Pair
<1>5. bswap_32(<<Pair(a, b), Pair(c, d)>>) = <<Pair(d, c), Pair(b, a)>>
  BY <1>2 DEF bswap_32
<1>6. BytesOf(<<Pair(a, b), Pair(c, d)>>) = <<a, b, c, d>>
  BY <1>1 DEF BytesOf
<1>. QED
  BY <1>2, <1>3, <1>4, <1>5, <1>6 DEF FloatRules

\* Two words read and stored as a float of each order.
ReadAndStored(src, a, b, c, d) ==
  /\ modbus_get_float_abcd(src) = <<a, b, c, d>>
  /\ modbus_get_float_dcba(src) = <<d, c, b, a>>
  /\ modbus_get_float_badc(src) = <<b, a, d, c>>
  /\ modbus_get_float_cdab(src) = <<c, d, a, b>>
  /\ modbus_get_float(src) = <<b, a, d, c>>
  /\ modbus_set_float_abcd(<<a, b, c, d>>) = src
  /\ modbus_set_float_dcba(<<d, c, b, a>>) = src
  /\ modbus_set_float_badc(<<b, a, d, c>>) = src
  /\ modbus_set_float_cdab(<<c, d, a, b>>) = src
  /\ modbus_set_float(<<b, a, d, c>>) = src
  /\ BytesOf(src) = <<a, b, c, d>>

LEMMA FloatOrders ==
  ASSUME NEW a \in Byte, NEW b \in Byte, NEW c \in Byte, NEW d \in Byte,
         NEW src, src = <<Pair(a, b), Pair(c, d)>>
  PROVE  ReadAndStored(src, a, b, c, d)
<1>1. /\ FloatRules(a, b, c, d) /\ FloatRules(d, c, b, a)
      /\ FloatRules(b, a, d, c) /\ FloatRules(c, d, a, b)
  BY FloatFacts
<1>2. BytesOf(src) = <<a, b, c, d>>
  BY <1>1 DEF FloatRules
<1>3. modbus_get_float_abcd(src) = <<a, b, c, d>> /\ modbus_set_float_abcd(<<a, b, c, d>>) = src
  BY <1>1 DEF FloatRules, modbus_get_float_abcd, modbus_set_float_abcd, ntohl, htonl
<1>4. modbus_get_float_dcba(src) = <<d, c, b, a>> /\ modbus_set_float_dcba(<<d, c, b, a>>) = src
  BY <1>1 DEF FloatRules, modbus_get_float_dcba, modbus_set_float_dcba, ntohl, htonl
<1>5. modbus_get_float_badc(src) = <<b, a, d, c>> /\ modbus_set_float_badc(<<b, a, d, c>>) = src
  BY <1>1 DEF FloatRules, modbus_get_float_badc, modbus_set_float_badc, ntohl, htonl
<1>6. modbus_get_float_cdab(src) = <<c, d, a, b>> /\ modbus_set_float_cdab(<<c, d, a, b>>) = src
  BY <1>1 DEF FloatRules, modbus_get_float_cdab, modbus_set_float_cdab, ntohl, htonl
<1>7. modbus_get_float(src) = <<b, a, d, c>> /\ modbus_set_float(<<b, a, d, c>>) = src
  BY <1>1 DEF FloatRules, modbus_get_float, modbus_set_float
<1>. QED
  BY <1>2, <1>3, <1>4, <1>5, <1>6, <1>7 DEF ReadAndStored

\* So whatever words the registers hold.
LEMMA TablesFloats == TablesOK => FloatsKept
<1>. SUFFICES ASSUME TablesOK, NEW n \in 0 .. NbRegisters - 2
              PROVE  LET src == RegistersAt(tab_registers, n, 2)
                         abcd == modbus_get_float_abcd(src)
                         dcba == modbus_get_float_dcba(src)
                         badc == modbus_get_float_badc(src)
                         cdab == modbus_get_float_cdab(src)
                         old == modbus_get_float(src)
                     IN  /\ Kept(src, "abcd", abcd, modbus_set_float_abcd(abcd))
                         /\ Kept(src, "dcba", dcba, modbus_set_float_dcba(dcba))
                         /\ Kept(src, "badc", badc, modbus_set_float_badc(badc))
                         /\ Kept(src, "cdab", cdab, modbus_set_float_cdab(cdab))
                         /\ Kept(src, "badc", old, modbus_set_float(old))
  BY Zenon DEF FloatsKept
<1>. DEFINE src == RegistersAt(tab_registers, n, 2)
<1>1. /\ NbRegisters \in Nat
      /\ tab_registers \in [0 .. NbRegisters - 1 -> Word16]
  BY CodecAssumption, Zenon DEF TablesOK
<1>2. tab_registers[n] \in Word16 /\ tab_registers[n + 1] \in Word16
  <2>1. n \in 0 .. NbRegisters - 1 /\ n + 1 \in 0 .. NbRegisters - 1
    BY <1>1
  <2>. QED
    BY <1>1, <2>1, Zenon
<1>3. PICK a \in Byte, b \in Byte : tab_registers[n] = Pair(a, b)
  BY <1>2, PairOf, Zenon
<1>4. PICK c \in Byte, d \in Byte : tab_registers[n + 1] = Pair(c, d)
  BY <1>2, PairOf, Zenon
<1>5. src = <<Pair(a, b), Pair(c, d)>>
  <2>1. n + 1 - 1 = n /\ n + 2 - 1 = n + 1
    BY <1>1
  <2>2. src = <<tab_registers[n], tab_registers[n + 1]>>
    BY <2>1 DEF RegistersAt
  <2>. QED
    BY <2>2, <1>3, <1>4, Zenon
<1>. HIDE DEF src
<1>6. ReadAndStored(src, a, b, c, d)
  BY <1>5, FloatOrders, Zenon
<1>7. /\ modbus_get_float_abcd(src) = <<a, b, c, d>>
      /\ modbus_get_float_dcba(src) = <<d, c, b, a>>
      /\ modbus_get_float_badc(src) = <<b, a, d, c>>
      /\ modbus_get_float_cdab(src) = <<c, d, a, b>>
      /\ modbus_get_float(src) = <<b, a, d, c>>
      /\ modbus_set_float_abcd(<<a, b, c, d>>) = src
      /\ modbus_set_float_dcba(<<d, c, b, a>>) = src
      /\ modbus_set_float_badc(<<b, a, d, c>>) = src
      /\ modbus_set_float_cdab(<<c, d, a, b>>) = src
      /\ modbus_set_float(<<b, a, d, c>>) = src
      /\ BytesOf(src) = <<a, b, c, d>>
  BY <1>6 DEF ReadAndStored
<1>8. Kept(src, "abcd", <<a, b, c, d>>, src)
  BY <1>7 DEF Kept, Letters
<1>9. Kept(src, "dcba", <<d, c, b, a>>, src)
  BY <1>7 DEF Kept, Letters
<1>10. Kept(src, "badc", <<b, a, d, c>>, src)
  BY <1>7 DEF Kept, Letters
<1>11. Kept(src, "cdab", <<c, d, a, b>>, src)
  BY <1>7 DEF Kept, Letters
<1>. QED
  BY <1>7, <1>8, <1>9, <1>10, <1>11, Zenon DEF src

\* In whatever registers the calls leave, a float of any of the byte orders is on
\* the line as its function is named and is restored by storing it (FloatsKept:
\* the modbus_get_float and modbus_set_float functions of modbus-data.c).
THEOREM FloatsKeptCorrect == Spec /\ []FramingDetected => []FloatsKept
<1>1. Inv => FloatsKept
  BY TablesFloats, Zenon DEF Inv
<1>. QED
  BY <1>1, DamageDetectedCorrect, InvInit, InvStep, PTL DEF Spec

-----------------------------------------------------------------------------
\* Host and library

\* What the library appends to a message is what the host computes of it (send_msg_pre,
\* host_crc16).
LEMMA SentAgrees ==
  ASSUME NEW body \in Seq(Byte)
  PROVE  LET msg == send_msg_pre(body)
         IN  host_crc16(SubSeq(msg, 1, Len(msg) - 2)) = SubSeq(msg, Len(msg) - 1, Len(msg))
<1>. DEFINE d == crc16(body)
            msg == body \o d
            n == Len(body)
<1>1. d \in Seq(Byte) /\ Len(d) = 2
  BY CrcIsBytes, Zenon
<1>2. n \in Nat
  BY ElementOfSeq
<1>3. host_crc16(body) = d
  BY SameChecksum, Zenon
<1>4. send_msg_pre(body) = msg
  BY Zenon DEF send_msg_pre
<1>. HIDE DEF d
<1>5. /\ Len(msg) = n + Len(d)
      /\ SubSeq(msg, n + 1, n + Len(d)) = d
      /\ SubSeq(msg, 1, n) = body
  <2>1. \A p, q \in Seq(Byte) :
          /\ Len(p \o q) = Len(p) + Len(q)
          /\ SubSeq(p \o q, Len(p) + 1, Len(p) + Len(q)) = q
          /\ SubSeq(p \o q, 1, Len(p)) = p
    OBVIOUS
  <2>. QED
    BY <1>1, <2>1
<1>. HIDE DEF msg, n
<1>6. Len(msg) - 2 = n /\ Len(msg) - 1 = n + 1 /\ Len(msg) = n + 2 /\ n + Len(d) = n + 2
  BY <1>1, <1>2, <1>5
<1>7. SubSeq(msg, 1, Len(msg) - 2) = body /\ SubSeq(msg, Len(msg) - 1, Len(msg)) = d
  BY <1>5, <1>6
<1>. QED
  BY <1>3, <1>4, <1>7

\* Between calls the line is silent.
Silent == turn = "nobody" => line = <<>>

LEMMA SilentInit == Init => Silent
BY Zenon DEF Init, Silent

LEMMA SilentStep == Silent /\ [Next]_vars => Silent'
<1>. SUFFICES ASSUME Silent, [Next]_vars
              PROVE  Silent'
  OBVIOUS
<1>1. ASSUME NEW c \in Calls, MakeCall(c)
      PROVE  Silent'
  <2>1. CASE Legal(Quantities(c))
    BY <1>1, <2>1 DEF MakeCall, Silent
  <2>2. CASE ~Legal(Quantities(c))
    BY <1>1, <2>2, Zenon DEF MakeCall, Silent
  <2>. QED
    BY <2>1, <2>2, Zenon
<1>2. CASE Serve
  <2>1. turn' = "client"
    BY <1>2, Zenon DEF Serve
  <2>. QED
    BY <2>1 DEF Silent
<1>3. CASE Confirm
  BY <1>3, Zenon DEF Confirm, Silent
<1>4. CASE Damage
  BY <1>4, Zenon DEF Damage, Silent
<1>5. CASE UNCHANGED vars
  BY <1>5, Zenon DEF vars, Silent
<1>. QED
  BY <1>1, <1>2, <1>3, <1>4, <1>5, Zenon DEF Next

LEMMA InvChecks == Inv /\ Silent => ChecksumsAgree
<1>. SUFFICES ASSUME Inv, Silent, line # <<>>, ~damaged
              PROVE  host_crc16(SubSeq(line, 1, Len(line) - 2)) = SubSeq(line, Len(line) - 1, Len(line))
  BY Zenon DEF ChecksumsAgree
<1>1. turn = "server" \/ turn = "client"
  BY DEF Inv, Silent
<1>2. CASE turn = "server"
  <2>1. PICK c \in Calls : Asked(c)
    BY <1>2, Zenon DEF Inv
  <2>2. SentCall(c) /\ line = send_msg_pre(RequestBody(c))
    BY <2>1, RequestIs, Zenon DEF Asked
  <2>3. RequestBody(c) \in Seq(Byte)
    BY <2>2, RequestIsFramed, Zenon DEF Framed
  <2>. QED
    BY <2>2, <2>3, SentAgrees, Zenon
<1>3. CASE turn = "client"
  <2>1. PICK c \in Calls : Replied(c)
    BY <1>3, Zenon DEF Inv
  <2>2. Answered(c) /\ line = send_msg_pre(AnswerBody(c))
    BY <2>1, Zenon DEF Inv, Replied, Answered
  <2>3. AnswerBody(c) \in Seq(Byte)
    BY <2>2, AnswerIsBytes, Zenon DEF AnswersAreBytes
  <2>. QED
    BY <2>2, <2>3, SentAgrees, Zenon
<1>. QED
  BY <1>1, <1>2, <1>3, Zenon

\* The checksum of every message on the line, computed by the library with its two
\* tables, is the one the host computes bit by bit (ChecksumsAgree): whatever is asked
\* and answered, and for messages of any length.
THEOREM ChecksumsAgreeCorrect == Spec /\ []FramingDetected => []ChecksumsAgree
<1>. QED
  BY DamageDetectedCorrect, InvInit, InvStep, SilentInit, SilentStep, InvChecks, PTL DEF Spec

\* On a line that damages nothing all of them hold, with no hypothesis on the checksum:
\* there is nothing it has to detect.
THEOREM UndamagedCorrect ==
  Spec /\ []~damaged =>
    /\ []TypeOK /\ []Returned /\ ServedAsCalled
    /\ []FloatsKept /\ []DamageDetected /\ []ChecksumsAgree
<1>1. ~damaged => FramingDetected
  BY Zenon DEF FramingDetected
<1>. QED
  BY <1>1, TypeCorrect, ReturnedCorrect, ServedAsCalledCorrect, FloatsKeptCorrect,
     DamageDetectedCorrect, ChecksumsAgreeCorrect, PTL

=============================================================================

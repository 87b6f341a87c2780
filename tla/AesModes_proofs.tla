-------------------------- MODULE AesModes_proofs --------------------------
(***************************************************************************)
(* Proofs about what is enciphered in pieces, AesModes: that a mode puts   *)
(* out what it makes of the whole message, for every size of bytes, blocks *)
(* and buffers, every cipher that can be undone, every message and every   *)
(* way to cut it into calls.                                               *)
(*                                                                         *)
(* Each mode is a chain of blocks, and a context that was passed so many   *)
(* bytes stands at a place of a block of that chain.  In cbc the iv is the *)
(* cipher block before it; in the feedback modes and inside a block, the   *)
(* bytes of the new block up to that place and those of the enciphered one *)
(* from there on; in the counter mode, the counter of the block, which is  *)
(* a number in places of one byte, so that carrying into the bytes before  *)
(* those that are full is adding one.  A call goes from a place to the     *)
(* place as many bytes behind, by the rest of a block, by whole blocks or  *)
(* buffers of them, and by the beginning of the next; deciphering comes    *)
(* back because a byte that is xored twice is itself.                      *)
(***************************************************************************)
EXTENDS AesModes, HashStream_proofs

-----------------------------------------------------------------------------
(* Bytes, twice xored.                                                      *)

XorByte(a, b) == XorWords(ByteBits, a, b)

LEMMA ByteSizes ==
  /\ ByteBits \in Nat /\ ByteBits > 0 /\ ByteBits <= WordBits /\ ByteBits \in 0 .. WordBits
  /\ 2 ^ ByteBits \in Nat \ {0} /\ \A x \in Byte : x \in Nat
<1>1. ByteBits \in Nat /\ ByteBits > 0 /\ ByteBits <= WordBits /\ WordBits \in Nat
  BY Sizes, ByteAssumption
<1> QED BY <1>1, Sizes DEF Byte

LEMMA XorOfBits ==
  ASSUME NEW u \in 0 .. 1, NEW v \in 0 .. 1
  PROVE  XorWords(WordBits, u, v) = (u + v) % 2
<1>1. 1 \in Nat /\ 1 <= WordBits /\ 0 \in 0 .. WordBits - 1 /\ 0 + 1 = 1
  BY ByteSizes, Sizes
<1>2. 2 ^ 1 = 2 /\ 2 ^ 0 = 1 /\ u \in Nat /\ v \in Nat
  OBVIOUS
<1>3. u \in 0 .. 2 ^ 1 - 1 /\ v \in 0 .. 2 ^ 1 - 1
  BY <1>2
<1>4. XorWords(WordBits, u, v) = XorWords(1, u, v)
  BY ONLY <1>1, <1>3, XorShort
<1>5. XorWords(0 + 1, u, v) = XorWords(0, u, v) + 2 ^ 0 * XorBit(u, v, 0) /\ XorWords(0, u, v) = 0
  BY ONLY <1>1, <1>2, XorStep
<1>6. XorBit(u, v, 0) = (u + v) % 2
  <2>1. Bit(u, 0) = u /\ Bit(v, 0) = v
    BY <1>2 DEF Bit
  <2> QED BY <2>1 DEF XorBit
<1>7. (u + v) % 2 \in Nat
  OBVIOUS
<1> QED BY <1>1, <1>2, <1>4, <1>5, <1>6, <1>7

LEMMA BitOfXor ==
  ASSUME NEW a \in Byte, NEW b \in Byte, NEW i \in 0 .. ByteBits - 1
  PROVE  Bit(XorByte(a, b), i) = (Bit(a, i) + Bit(b, i)) % 2
<1>1. i \in Nat /\ 1 \in Nat /\ i + 1 <= WordBits /\ a \in Nat /\ b \in Nat /\ 2 ^ 1 = 2
  <2>1. i \in Nat /\ i + 1 <= WordBits /\ 1 \in Nat
    BY ByteSizes, Sizes
  <2>2. a \in Nat /\ b \in Nat
    BY ByteSizes
  <2>3. 2 ^ 1 = 2
    OBVIOUS
  <2> QED BY ONLY <2>1, <2>2, <2>3
<1>2. XorByte(a, b) = XorWords(WordBits, a, b)
  <2>1. ByteBits \in Nat /\ ByteBits <= WordBits /\ a \in 0 .. 2 ^ ByteBits - 1 /\ b \in 0 .. 2 ^ ByteBits - 1
    BY ByteSizes DEF Byte
  <2> QED BY ONLY <2>1, XorShort DEF XorByte
<1>3. (XorWords(WordBits, a, b) \div 2 ^ i) % 2 ^ 1
        = XorWords(WordBits, (a \div 2 ^ i) % 2 ^ 1, (b \div 2 ^ i) % 2 ^ 1)
  <2> DEFINE n == 1
  <2>1. i \in Nat /\ n \in Nat /\ i + n <= WordBits /\ a \in Nat /\ b \in Nat
    BY ONLY <1>1
  <2> HIDE DEF n
  <2>2. (XorWords(WordBits, a, b) \div 2 ^ i) % 2 ^ n
          = XorWords(WordBits, (a \div 2 ^ i) % 2 ^ n, (b \div 2 ^ i) % 2 ^ n)
    BY ONLY <2>1, PartOfXor
  <2> QED BY ONLY <2>2 DEF n
<1>4. Bit(XorByte(a, b), i) = XorWords(WordBits, Bit(a, i), Bit(b, i))
  BY ONLY <1>1, <1>2, <1>3 DEF Bit
<1>5. Bit(a, i) \in 0 .. 1 /\ Bit(b, i) \in 0 .. 1
  <2>1. i \in 0 .. 2 * WordBits
    BY <1>1, ByteSizes, Sizes
  <2> QED BY <1>1, <2>1, BitIs
<1> QED BY ONLY <1>4, <1>5, XorOfBits

LEMMA XorByteIs ==
  ASSUME NEW a \in Byte, NEW b \in Byte
  PROVE  XorByte(a, b) \in Byte
<1> DEFINE r == 2 ^ ByteBits
           x == XorByte(a, b)
<1>1. a \in Nat /\ b \in Nat /\ ByteBits \in 0 .. WordBits /\ r \in Nat
  BY ByteSizes
<1>2. x \in Nat /\ x < r
  BY ONLY <1>1, XorStep, XorBound DEF XorByte
<1> HIDE DEF r, x
<1>3. x \in 0 .. r - 1
  BY ONLY <1>1, <1>2
<1> QED BY <1>3 DEF r, x, Byte

LEMMA XorTwice ==
  ASSUME NEW a \in Byte, NEW b \in Byte
  PROVE  XorByte(XorByte(a, b), b) = a
<1> DEFINE x == XorByte(a, b)
           n == ByteBits
           S == {k \in Nat : k <= n => XorWords(k, x, b) = a % 2 ^ k}
<1>1. /\ a \in Nat /\ b \in Nat /\ x \in Nat /\ n \in Nat /\ n <= WordBits
      /\ a \in 0 .. 2 ^ n - 1 /\ 2 ^ n \in Nat
  BY ByteSizes, XorByteIs DEF Byte
<1>2. ASSUME NEW i \in 0 .. n - 1 PROVE XorBit(x, b, i) = Bit(a, i) /\ Bit(a, i) \in 0 .. 1
  <2>1. Bit(x, i) = (Bit(a, i) + Bit(b, i)) % 2
    BY BitOfXor
  <2>2. i \in 0 .. 2 * WordBits
    BY <1>1, ByteSizes, Sizes
  <2> DEFINE u == Bit(a, i)
             v == Bit(b, i)
  <2>3. u \in 0 .. 1 /\ v \in 0 .. 1
    BY <1>1, <2>2, BitIs
  <2> HIDE DEF u, v, x
  <2>4. (((u + v) % 2) + v) % 2 = u
    BY <2>3
  <2> QED BY <2>1, <2>3, <2>4 DEF XorBit, u, v
<1> HIDE DEF x
<1>3. 0 \in S
  <2>1. XorWords(0, x, b) = 0 /\ 2 ^ 0 = 1 /\ a % 1 = 0
    BY <1>1, XorStep
  <2> QED BY <2>1
<1>4. ASSUME NEW k \in Nat, k \in S PROVE k + 1 \in S
  <2> SUFFICES ASSUME k + 1 <= n PROVE XorWords(k + 1, x, b) = a % 2 ^ (k + 1)
    OBVIOUS
  <2>1. k \in 0 .. n - 1 /\ k \in 0 .. WordBits - 1 /\ 1 \in Nat /\ k + 1 <= WordBits /\ k <= n
    BY <1>1, ByteSizes, Sizes
  <2> DEFINE p == 2 ^ k
             y == Bit(a, k)
  <2>2. XorWords(k + 1, x, b) = XorWords(k, x, b) + p * XorBit(x, b, k)
    BY <1>1, <2>1, XorStep
  <2>3. XorBit(x, b, k) = y /\ y \in 0 .. 1 /\ y = (a \div p) % 2
    BY <1>2, <2>1 DEF Bit
  <2>4. XorWords(k, x, b) = a % p
    BY <1>4, <2>1
  <2>5. p \in Nat \ {0} /\ 2 ^ (k + 1) = p * 2
    <3>1. 2 ^ k \in Nat \ {0} /\ 2 ^ (k + 1) = 2 ^ k * 2 ^ 1
      BY ONLY <2>1, k \in Nat, WordPowers
    <3>2. 2 ^ 1 = 2
      OBVIOUS
    <3> QED BY <3>1, <3>2
  <2> HIDE DEF p, y
  <2> DEFINE m == a % (2 * p)
  <2>6. m \div p = y /\ m % p = a % p
    <3>1. p \in Nat /\ p > 0 /\ 2 \in Nat /\ 2 > 0
      BY <2>5
    <3> DEFINE two == 2
    <3>2. two \in Nat /\ two > 0
      OBVIOUS
    <3> HIDE DEF two
    <3>3. (a % (two * p)) \div p = (a \div p) % two /\ (a % (two * p)) % p = a % p
      <4>1. a \in Nat
        BY <1>1
      <4> QED BY ONLY <3>1, <3>2, <4>1, QuotientOfRest
    <3> QED BY ONLY <2>3, <3>3 DEF two, m
  <2>7. m \in Nat
    <3>1. 2 * p \in Nat /\ 2 * p > 0
      BY <2>5
    <3> QED BY <1>1, <3>1, QuotientOf
  <2> HIDE DEF m
  <2>8. m = (m \div p) * p + (m % p)
    BY <2>5, <2>7, QuotientOf
  <2>9. m = p * y + (a % p)
    <3>1. y * p = p * y
      BY <2>3, <2>5
    <3> QED BY ONLY <2>6, <2>8, <3>1
  <2>10. m = a % 2 ^ (k + 1)
    <3>1. 2 ^ (k + 1) = 2 * p
      BY <2>5
    <3> QED BY <3>1 DEF m
  <2> DEFINE t == a % p
             z == p * y
  <2>11. z \in Nat /\ t \in Nat
    BY <1>1, <2>3, <2>5
  <2>12. XorWords(k + 1, x, b) = t + z /\ m = z + t
    BY ONLY <2>2, <2>3, <2>4, <2>9
  <2> HIDE DEF t, z
  <2> QED BY ONLY <2>10, <2>11, <2>12
<1> HIDE DEF S
<1>5. n \in S
  BY <1>1, <1>3, <1>4, SetInduction
<1>6. XorWords(n, x, b) = a % 2 ^ n
  BY <1>1, <1>5 DEF S
<1>7. a % 2 ^ n = a
  <2> DEFINE r == 2 ^ n
  <2>1. r \in Nat /\ a \in 0 .. r - 1
    BY <1>1
  <2> HIDE DEF r
  <2>2. 0 * r + a = a /\ 0 \in Int
    BY <2>1
  <2>3. (0 * r + a) % r = a
    BY ONLY <2>1, <2>2, QuotientIs
  <2>4. a % r = a
    BY ONLY <2>2, <2>3
  <2> QED BY <2>4 DEF r
<1> QED BY <1>6, <1>7 DEF XorByte, x

-----------------------------------------------------------------------------
(* The counter.                                                             *)

ByteRange == 2 ^ ByteBits
Place256(k) == 2 ^ (ByteBits * k)

LEMMA PlacesAre ==
  /\ Place256(0) = 1 /\ ByteRange \in Nat /\ ByteRange > 0
  /\ \A k \in 0 .. BlockBytes - 1 : Place256(k + 1) = Place256(k) * ByteRange
  /\ \A k \in 0 .. BlockBytes : Place256(k) \in Nat /\ Place256(k) > 0
<1>1. Place256(0) = 1
  <2>1. ByteBits * 0 = 0 /\ 2 ^ 0 = 1
    BY ByteAssumption
  <2> QED BY <2>1 DEF Place256
<1>2. ByteRange \in Nat /\ ByteRange > 0 /\ BlockBytes \in Nat
  BY ByteSizes, ModesAssumption DEF ByteRange
<1>3. \A k \in 0 .. BlockBytes - 1 : Place256(k + 1) = Place256(k) * ByteRange
  BY CounterAssumption DEF Place256, ByteRange
<1> DEFINE S == {k \in Nat : k <= BlockBytes => Place256(k) \in Nat /\ Place256(k) > 0}
<1>4. 0 \in S
  BY <1>1
<1>5. ASSUME NEW k \in Nat, k \in S PROVE k + 1 \in S
  <2> SUFFICES ASSUME k + 1 <= BlockBytes PROVE Place256(k + 1) \in Nat /\ Place256(k + 1) > 0
    OBVIOUS
  <2>1. k \in 0 .. BlockBytes - 1 /\ k <= BlockBytes
    BY <1>2
  <2> DEFINE p == Place256(k)
             r == ByteRange
  <2>2. p \in Nat /\ p > 0 /\ r \in Nat /\ r > 0 /\ Place256(k + 1) = p * r
    BY <1>2, <1>3, <1>5, <2>1
  <2> HIDE DEF p, r
  <2>3. p * r \in Nat /\ p * r > 0
    BY <2>2
  <2> QED BY <2>2, <2>3
<1> HIDE DEF S
<1>6. \A k \in Nat : k \in S
  BY <1>4, <1>5, SetInduction
<1> QED BY <1>1, <1>2, <1>3, <1>6 DEF S

\* A digit of a number, counted from the lowest.
DigitOf(n, k) == (n \div Place256(k)) % ByteRange

LEMMA CounterIs ==
  ASSUME NEW n \in Nat
  PROVE  /\ BigEndian(FirstIv) + n \in Nat
         /\ CounterBlock(n) \in CipherBlocks
         /\ \A j \in 1 .. BlockBytes :
              CounterBlock(n)[j] = DigitOf(BigEndian(FirstIv) + n, BlockBytes - j)
<1> DEFINE v == BigEndian(FirstIv)
           m == v + n
<1>1. FirstIv \in Seq(Nat) /\ BlockBytes \in Nat
  <2>1. FirstIv \in [1 .. BlockBytes -> Byte] /\ BlockBytes \in Nat
    BY ModesAssumption DEF CipherBlocks
  <2>2. \A x \in Byte : x \in Nat
    BY ByteSizes
  <2> QED BY <2>1, <2>2
<1>2. v \in Nat
  BY <1>1, EndianIs
<1> HIDE DEF v
<1>3. m \in Nat
  BY <1>2
<1>4. CounterBlock(n) = [j \in 1 .. BlockBytes |-> DigitOf(m, BlockBytes - j)]
  BY DEF CounterBlock, DigitOf, Place256, ByteRange, v
<1> HIDE DEF m
<1>5. ASSUME NEW j \in 1 .. BlockBytes PROVE DigitOf(m, BlockBytes - j) \in Byte
  <2> DEFINE p == Place256(BlockBytes - j)
             r == ByteRange
             q == m \div p
  <2>1. p \in Nat /\ p > 0 /\ r \in Nat /\ r > 0
    <3>1. BlockBytes - j \in 0 .. BlockBytes
      BY <1>1
    <3> QED BY <3>1, PlacesAre
  <2> HIDE DEF p, r
  <2>2. q \in Nat
    BY <1>3, <2>1, QuotientOf
  <2> HIDE DEF q
  <2>3. q % r \in 0 .. r - 1
    BY <2>1, <2>2
  <2> QED BY <2>3 DEF DigitOf, q, p, r, Byte, ByteRange
<1> QED BY <1>3, <1>4, <1>5 DEF m, v, CipherBlocks

LEMMA CounterBegins == CounterBlock(0) = FirstIv
<1> DEFINE s == FirstIv
           B == BlockBytes
           r == ByteRange
<1>1. s \in [1 .. B -> Byte] /\ B \in Nat /\ s \in Seq(Nat) /\ Len(s) = B
  <2>1. FirstIv \in [1 .. BlockBytes -> Byte] /\ BlockBytes \in Nat
    BY ModesAssumption DEF CipherBlocks
  <2>2. \A x \in Byte : x \in Nat
    BY ByteSizes
  <2> QED BY <2>1, <2>2
<1> HIDE DEF s
<1>2. PICK value : BigValue(s, value) /\ BigEndian(s) = value[Len(s)]
  BY <1>1, BigValueExists
<1>3. r \in Nat /\ r > 0
  BY PlacesAre
<1>4. /\ value[0] = 0
      /\ \A m \in 0 .. B - 1 : value[m + 1] = value[m] * r + s[m + 1] /\ s[m + 1] \in 0 .. r - 1
  <2>1. value = [n \in 0 .. B |-> IF n = 0 THEN 0 ELSE value[n - 1] * r + s[n]]
    BY ONLY <1>1, <1>2 DEF BigValue, ByteRange
  <2>2. value[0] = 0
    <3>1. 0 \in 0 .. B
      BY <1>1
    <3> QED BY ONLY <2>1, <3>1
  <2>3. ASSUME NEW m \in 0 .. B - 1
        PROVE  value[m + 1] = value[m] * r + s[m + 1] /\ s[m + 1] \in 0 .. r - 1
    <3>1. m + 1 \in 0 .. B /\ m + 1 # 0 /\ (m + 1) - 1 = m /\ m + 1 \in 1 .. B
      BY <1>1
    <3>2. value[m + 1] = value[(m + 1) - 1] * r + s[m + 1]
      BY ONLY <2>1, <3>1
    <3> QED BY <1>1, <3>1, <3>2 DEF Byte, ByteRange
  <2> QED BY <2>2, <2>3
<1> HIDE DEF r, B
<1> DEFINE Read(m) == value[m] \in Nat /\ \A j \in 1 .. m : (value[m] \div Place256(m - j)) % r = s[j]
           S == {m \in Nat : m <= B => Read(m)}
<1>5. 0 \in S
  BY <1>4
<1>6. ASSUME NEW m \in Nat, m \in S PROVE m + 1 \in S
  <2> SUFFICES ASSUME m + 1 <= B PROVE Read(m + 1)
    OBVIOUS
  <2>1. m \in 0 .. B - 1 /\ m <= B
    BY <1>1
  <2> DEFINE x == value[m]
             y == s[m + 1]
             z == value[m + 1]
  <2>2. x \in Nat /\ y \in 0 .. r - 1 /\ z = x * r + y
    BY <1>4, <1>6, <2>1
  <2>3. \A j \in 1 .. m : (x \div Place256(m - j)) % r = s[j]
    BY <1>6, <2>1
  <2> HIDE DEF x, z
  <2>4. z \in Nat /\ z \div r = x /\ z % r = y
    <3>1. y \in Nat /\ x * r \in Nat
      BY <1>3, <2>2
    <3>2. (x * r + y) \div r = x /\ (x * r + y) % r = y
      <4> HIDE DEF y
      <4>1. x \in Int
        BY <2>2
      <4> QED BY ONLY <1>3, <2>2, <4>1, QuotientIs
    <3> HIDE DEF y
    <3> QED BY <2>2, <3>1, <3>2
  <2>5. ASSUME NEW j \in 1 .. m + 1 PROVE (z \div Place256((m + 1) - j)) % r = s[j]
    <3>1. CASE j = m + 1
      <4>1. (m + 1) - j = 0 /\ z \div 1 = z
        BY <2>4, <3>1
      <4> QED BY <2>4, <3>1, <4>1, PlacesAre
    <3>2. CASE j # m + 1
      <4> DEFINE k == m - j
                 p == Place256(k)
      <4>1. j \in 1 .. m /\ k \in 0 .. B - 1 /\ (m + 1) - j = k + 1
        BY <1>1, <2>1, <3>2
      <4>2. p \in Nat /\ p > 0 /\ Place256((m + 1) - j) = p * r
        <5>1. k \in 0 .. B
          BY <1>1, <4>1
        <5> HIDE DEF k
        <5> QED BY <4>1, <5>1, PlacesAre DEF B, r
      <4>3. (x \div p) % r = s[j]
        BY <2>3, <4>1
      <4> HIDE DEF k, p
      <4>4. (z \div r) \div p = z \div (r * p) /\ r * p = p * r
        BY <1>3, <2>4, <4>2, QuotientTwice
      <4> QED BY ONLY <2>4, <4>2, <4>3, <4>4
    <3> QED BY <3>1, <3>2
  <2> QED BY <2>4, <2>5 DEF z
<1> HIDE DEF S
<1>7. \A m \in Nat : m \in S
  BY <1>5, <1>6, SetInduction
<1>8. Read(B)
  BY <1>1, <1>7 DEF S
<1> DEFINE w == BigEndian(s)
<1>9. w + 0 = w /\ w = value[B]
  BY <1>1, <1>2, <1>8
<1>10. ASSUME NEW j \in 1 .. B PROVE CounterBlock(0)[j] = s[j]
  <2>1. CounterBlock(0)[j] = DigitOf(w + 0, B - j)
    BY CounterIs DEF s, B
  <2> QED BY <1>8, <1>9, <2>1 DEF DigitOf, r
<1>11. CounterBlock(0) \in [1 .. B -> Byte]
  BY CounterIs DEF CipherBlocks, B
<1> QED BY <1>1, <1>10, <1>11 DEF s

\* The lowest k digits are all the highest one.
LEMMA FullDigits ==
  ASSUME NEW n \in Nat, NEW k \in 0 .. BlockBytes
  PROVE  (\A j \in 0 .. k - 1 : DigitOf(n, j) = ByteRange - 1)
           <=> n % Place256(k) = Place256(k) - 1
<1> DEFINE r == ByteRange
           Full(m) == \A j \in 0 .. m - 1 : DigitOf(n, j) = r - 1
           Rest(m) == n % Place256(m) = Place256(m) - 1
           S == {m \in Nat : m <= BlockBytes => (Full(m) <=> Rest(m))}
<1>1. 0 \in S
  <2>1. n % 1 = 0
    OBVIOUS
  <2> QED BY <2>1, PlacesAre
<1>2. ASSUME NEW m \in Nat, m \in S PROVE m + 1 \in S
  <2> SUFFICES ASSUME m + 1 <= BlockBytes PROVE Full(m + 1) <=> Rest(m + 1)
    OBVIOUS
  <2>1. m \in 0 .. BlockBytes - 1 /\ m \in 0 .. BlockBytes /\ m <= BlockBytes
    BY ModesAssumption
  <2>2. Full(m) <=> Rest(m)
    BY <1>2, <2>1
  <2>3. Full(m + 1) <=> Full(m) /\ DigitOf(n, m) = r - 1
    <3> HIDE DEF r
    <3> QED BY <2>1
  <2> DEFINE p == Place256(m)
             d == DigitOf(n, m)
             t == n % p
             y == n % (r * p)
  <2>4. p \in Nat /\ p > 0 /\ r \in Nat /\ r > 0 /\ Place256(m + 1) = p * r
    BY <2>1, PlacesAre
  <2>5. d = (n \div p) % r
    BY DEF DigitOf
  <2> HIDE DEF p, r, d
  <2>6. y \div p = d /\ y % p = t
    BY <2>4, <2>5, QuotientOfRest
  <2>7. t \in 0 .. p - 1 /\ d \in 0 .. r - 1 /\ y \in Nat
    <3>1. n \div p \in Nat
      BY <2>4, QuotientOf
    <3>2. d \in 0 .. r - 1
      BY <2>4, <2>5, <3>1, QuotientOf
    <3>3. r * p \in Nat /\ r * p > 0
      BY <2>4
    <3> QED BY <2>4, <3>2, <3>3, QuotientOf
  <2> HIDE DEF t, y
  <2>8. y = d * p + t
    BY <2>4, <2>6, <2>7, QuotientOf
  <2>9. y = p * r - 1 <=> t = p - 1 /\ d = r - 1
    <3>1. CASE d = r - 1
      <4>1. d * p = p * r - p /\ p * r \in Nat
        BY <2>4, <3>1
      <4> QED BY <2>4, <2>7, <2>8, <3>1, <4>1
    <3>2. CASE d # r - 1
      <4>1. (d + 1) * p <= (r - 1) * p
        <5>1. d + 1 <= r - 1
          BY <2>4, <2>7, <3>2
        <5> QED BY <2>4, <2>7, <5>1, SMTT(30)
      <4>2. (d + 1) * p = d * p + p /\ (r - 1) * p = p * r - p /\ d * p \in Nat /\ p * r \in Nat
        BY <2>4, <2>7
      <4> QED BY <2>4, <2>7, <2>8, <3>2, <4>1, <4>2
    <3> QED BY <3>1, <3>2
  <2>10. Rest(m) <=> t = p - 1
    BY DEF t, p
  <2>11. Rest(m + 1) <=> y = p * r - 1
    <3>1. r * p = p * r
      BY <2>4
    <3> QED BY <2>4, <3>1 DEF y
  <2> HIDE DEF Full, Rest
  <2> QED BY ONLY <2>2, <2>3, <2>9, <2>10, <2>11 DEF d
<1> HIDE DEF S
<1>3. \A m \in Nat : m \in S
  BY <1>1, <1>2, SetInduction
<1> QED BY <1>3, ModesAssumption DEF S

\* The code's increment is one more.
LEMMA CounterSteps ==
  ASSUME NEW n \in Nat
  PROVE  ctr_cbuf_inc(CounterBlock(n)) = CounterBlock(n + 1)
<1> DEFINE c == CounterBlock(n)
           e == CounterBlock(n + 1)
           m == BigEndian(FirstIv) + n
           r == ByteRange
           B == BlockBytes
           inc == [i \in 1 .. B |-> IF \A j \in i + 1 .. B : c[j] = 2 ^ ByteBits - 1
                                    THEN (c[i] + 1) % 2 ^ ByteBits ELSE c[i]]
<1>1. m \in Nat /\ c \in CipherBlocks /\ \A j \in 1 .. B : c[j] = DigitOf(m, B - j)
  BY CounterIs
<1>2. /\ m + 1 \in Nat /\ e \in CipherBlocks
      /\ \A j \in 1 .. B : e[j] = DigitOf(m + 1, B - j)
  <2>1. n + 1 \in Nat /\ BigEndian(FirstIv) + (n + 1) \in Nat
    BY CounterIs
  <2>2. BigEndian(FirstIv) \in Nat
    <3>1. FirstIv \in [1 .. BlockBytes -> Byte] /\ BlockBytes \in Nat
      BY ModesAssumption DEF CipherBlocks
    <3>2. \A x \in Byte : x \in Nat
      BY ByteSizes
    <3>3. FirstIv \in Seq(Nat)
      BY <3>1, <3>2
    <3> QED BY <3>3, EndianIs
  <2>3. BigEndian(FirstIv) + (n + 1) = m + 1
    BY <2>2
  <2> DEFINE o == n + 1
  <2>4. CounterBlock(o) \in CipherBlocks /\ \A j \in 1 .. B : CounterBlock(o)[j] = DigitOf(BigEndian(FirstIv) + o, B - j)
    <3> HIDE DEF o
    <3> QED BY <2>1, CounterIs DEF o
  <2> QED BY <1>1, <2>3, <2>4
<1> HIDE DEF c, e, m
<1>3. ASSUME NEW i \in 1 .. B PROVE inc[i] = e[i] /\ inc[i] \in Byte
  <2> DEFINE k == B - i
             p == Place256(k)
             q == m \div p
             t == m % p
  <2>1. B \in Nat /\ k \in 0 .. B /\ p \in Nat /\ p > 0 /\ r \in Nat /\ r > 0
    <3>1. B \in Nat /\ k \in 0 .. B
      BY ModesAssumption
    <3> HIDE DEF k
    <3> QED BY <3>1, PlacesAre
  <2>2. q \in Nat /\ t \in 0 .. p - 1 /\ m = q * p + t
    <3> HIDE DEF p
    <3> QED BY <1>1, <2>1, QuotientOf
  <2>3. (\A j \in i + 1 .. B : c[j] = r - 1) <=> t = p - 1
    <3>1. (\A j \in 0 .. k - 1 : DigitOf(m, j) = r - 1) <=> t = p - 1
      <4> HIDE DEF k
      <4> QED BY <1>1, <2>1, FullDigits
    <3>2. ASSUME \A j \in 0 .. k - 1 : DigitOf(m, j) = r - 1, NEW j \in i + 1 .. B
          PROVE  c[j] = r - 1
      <4>1. B - j \in 0 .. k - 1 /\ j \in 1 .. B
        BY <2>1
      <4> QED BY <1>1, <3>2, <4>1
    <3>3. ASSUME \A j \in i + 1 .. B : c[j] = r - 1, NEW j \in 0 .. k - 1
          PROVE  DigitOf(m, j) = r - 1
      <4>1. B - j \in i + 1 .. B /\ B - (B - j) = j /\ B - j \in 1 .. B
        BY <2>1
      <4> QED BY <1>1, <3>3, <4>1
    <3> QED BY <3>1, <3>2, <3>3
  <2>4. c[i] = q % r /\ e[i] = ((m + 1) \div p) % r
    BY <1>1, <1>2 DEF DigitOf
  <2>5. c[i] \in Byte /\ e[i] \in Byte
    BY <1>1, <1>2 DEF CipherBlocks
  <2>6. inc[i] = IF t = p - 1 THEN (c[i] + 1) % r ELSE c[i]
    BY <2>3 DEF ByteRange
  <2> HIDE DEF p, q, t, r, inc, k
  <2>7. CASE t = p - 1
    <3>1. m + 1 = (q + 1) * p + 0
      <4> DEFINE y == q * p
      <4>1. (q + 1) * p = y + 1 * p /\ 1 * p = p /\ y \in Int
        BY <2>1, <2>2, Distribute
      <4>2. m = y + t
        BY ONLY <2>1, <2>2
      <4> HIDE DEF y
      <4> QED BY <2>1, <2>2, <2>7, <4>1, <4>2
    <3>2. (m + 1) \div p = q + 1
      <4> DEFINE u == q + 1
                 z == 0
      <4>1. u \in Int /\ z \in 0 .. p - 1
        BY <2>1, <2>2
      <4>2. m + 1 = u * p + z
        BY <3>1
      <4> HIDE DEF u, z
      <4>3. (u * p + z) \div p = u
        BY ONLY <2>1, <4>1, QuotientIs
      <4> QED BY ONLY <4>2, <4>3 DEF u
    <3>3. (q + 1) % r = ((q % r) + 1) % r
      <4> DEFINE u == 1
      <4>1. u \in Nat
        OBVIOUS
      <4> HIDE DEF u
      <4>2. (q + u) % r = ((q % r) + u) % r
        <5>1. q \in Nat /\ r \in Nat /\ r > 0
          BY <2>1, <2>2
        <5> QED BY ONLY <4>1, <5>1, QuotientSum
      <4> QED BY <4>2 DEF u
    <3>4. inc[i] = (c[i] + 1) % r
      BY <2>6, <2>7
    <3> QED BY ONLY <2>4, <2>5, <3>2, <3>3, <3>4
  <2>8. CASE t # p - 1
    <3>1. m + 1 = q * p + (t + 1) /\ t + 1 \in 0 .. p - 1 /\ q \in Int
      <4>1. q * p \in Nat
        BY <2>1, <2>2
      <4> QED BY <2>1, <2>2, <2>8, <4>1
    <3>2. (m + 1) \div p = q
      <4> DEFINE z == t + 1
      <4>1. m + 1 = q * p + z /\ z \in 0 .. p - 1
        BY <3>1
      <4> HIDE DEF z
      <4>2. (q * p + z) \div p = q
        BY ONLY <2>1, <3>1, <4>1, QuotientIs
      <4> QED BY ONLY <4>1, <4>2
    <3>3. inc[i] = c[i]
      BY <2>6, <2>8
    <3> QED BY ONLY <2>4, <2>5, <3>2, <3>3
  <2> QED BY <2>7, <2>8
<1>4. e \in [1 .. B -> Byte] /\ B \in Nat
  BY <1>2, ModesAssumption DEF CipherBlocks
<1>5. inc = e
  <2>1. inc = [i \in 1 .. B |-> inc[i]]
    OBVIOUS
  <2> HIDE DEF inc
  <2> QED BY <1>3, <1>4, <2>1
<1>6. ctr_cbuf_inc(c) = Evaluated(inc)
  BY DEF ctr_cbuf_inc
<1>7. e \in Seq(Byte)
  BY <1>4
<1> HIDE DEF inc
<1>8. Evaluated(e) = e
  BY <1>7, EvaluatedIs
<1> QED BY ONLY <1>5, <1>6, <1>8 DEF c, e

-----------------------------------------------------------------------------
(* Sequences of bytes, and what they are of a longer one.                   *)

\* The order of the two does not matter.
LEMMA XorOrder ==
  ASSUME NEW a \in Byte, NEW b \in Byte
  PROVE  XorByte(a, b) = XorByte(b, a)
<1> DEFINE n == ByteBits
           S == {k \in Nat : k <= n => XorWords(k, a, b) = XorWords(k, b, a)}
<1>1. a \in Nat /\ b \in Nat /\ n \in Nat /\ n <= WordBits /\ WordBits \in Nat
  BY ByteSizes, Sizes
<1>2. ASSUME NEW i \in 0 .. n - 1 PROVE XorBit(a, b, i) = XorBit(b, a, i)
  <2> DEFINE u == Bit(a, i)
             v == Bit(b, i)
  <2>1. u \in 0 .. 1 /\ v \in 0 .. 1
    <3>1. i \in 0 .. 2 * WordBits
      BY <1>1
    <3> QED BY <1>1, <3>1, BitIs
  <2> HIDE DEF u, v
  <2>2. (u + v) % 2 = (v + u) % 2
    <3>1. u + v = v + u
      BY <2>1
    <3> QED BY <3>1
  <2> QED BY <2>2 DEF XorBit, u, v
<1>3. 0 \in S
  BY <1>1, XorStep
<1>4. ASSUME NEW k \in Nat, k \in S PROVE k + 1 \in S
  <2> SUFFICES ASSUME k + 1 <= n PROVE XorWords(k + 1, a, b) = XorWords(k + 1, b, a)
    OBVIOUS
  <2>1. k \in 0 .. n - 1 /\ k \in 0 .. WordBits - 1 /\ k <= n
    BY <1>1
  <2>2. /\ XorWords(k + 1, a, b) = XorWords(k, a, b) + 2 ^ k * XorBit(a, b, k)
        /\ XorWords(k + 1, b, a) = XorWords(k, b, a) + 2 ^ k * XorBit(b, a, k)
    BY <1>1, <2>1, XorStep
  <2>3. XorWords(k, a, b) = XorWords(k, b, a)
    BY <1>4, <2>1
  <2>4. XorBit(a, b, k) = XorBit(b, a, k)
    BY <1>2, <2>1
  <2> QED BY ONLY <2>2, <2>3, <2>4
<1> HIDE DEF S
<1>5. \A k \in Nat : k \in S
  BY <1>3, <1>4, SetInduction
<1> QED BY <1>1, <1>5 DEF S, XorByte

LEMMA XorBytesIs ==
  ASSUME NEW a \in Seq(Byte), NEW b, \A i \in 1 .. Len(a) : b[i] \in Byte
  PROVE  /\ XorBytes(a, b) \in Seq(Byte) /\ Len(XorBytes(a, b)) = Len(a)
         /\ \A i \in 1 .. Len(a) : XorBytes(a, b)[i] = XorByte(a[i], b[i])
<1> DEFINE n == Len(a)
           s == [i \in 1 .. n |-> XorByte(a[i], b[i])]
<1>1. n \in Nat /\ \A i \in 1 .. n : a[i] \in Byte /\ XorByte(a[i], b[i]) \in Byte
  BY XorByteIs
<1>2. XorBytes(a, b) = Evaluated(s)
  BY DEF XorBytes, XorByte
<1> HIDE DEF n
<1>3. s \in Seq(Byte) /\ Len(s) = n /\ \A i \in 1 .. n : s[i] = XorByte(a[i], b[i])
  BY <1>1
<1> HIDE DEF s
<1>4. Evaluated(s) = s
  BY <1>3, EvaluatedIs
<1> QED BY ONLY <1>2, <1>3, <1>4 DEF n

LEMMA BlockAsSequence ==
  /\ BlockBytes \in Nat /\ BlockBytes > 0
  /\ \A b \in CipherBlocks :
       b \in Seq(Byte) /\ Len(b) = BlockBytes /\ \A i \in 1 .. BlockBytes : b[i] \in Byte
  /\ \A s \in Seq(Byte) : Len(s) = BlockBytes => s \in CipherBlocks
<1>1. BlockBytes \in Nat /\ BlockBytes > 0
  BY ModesAssumption
<1>2. ASSUME NEW b \in CipherBlocks
      PROVE  b \in Seq(Byte) /\ Len(b) = BlockBytes /\ \A i \in 1 .. BlockBytes : b[i] \in Byte
  <2>1. b \in [1 .. BlockBytes -> Byte]
    BY DEF CipherBlocks
  <2> QED BY <1>1, <2>1
<1>3. ASSUME NEW s \in Seq(Byte), Len(s) = BlockBytes PROVE s \in CipherBlocks
  <2>1. s \in [1 .. Len(s) -> Byte]
    OBVIOUS
  <2> QED BY <1>3, <2>1 DEF CipherBlocks
<1> QED BY <1>1, <1>2, <1>3

\* u is the m bytes of D behind the first n.
Follows(u, D, n, m) ==
  u \in Seq(Byte) /\ Len(u) = m /\ \A i \in 1 .. m : u[i] = D[n + i]

LEMMA FollowsPart ==
  ASSUME NEW u, NEW D, NEW n \in Nat, NEW m \in Nat, Follows(u, D, n, m),
         NEW i \in Nat, NEW j \in Nat, i + j <= m
  PROVE  Follows(SubSeq(u, i + 1, i + j), D, n + i, j)
<1> DEFINE v == SubSeq(u, i + 1, i + j)
<1>1. u \in Seq(Byte) /\ Len(u) = m /\ \A x \in 1 .. m : u[x] = D[n + x]
  BY DEF Follows
<1>2. i + 1 \in 1 .. m + 1 /\ i + j \in i .. m
  OBVIOUS
<1>3. v \in Seq(Byte) /\ Len(v) = j /\ \A x \in 1 .. j : v[x] = u[i + x]
  <2>1. Len(v) = j
    BY <1>1, <1>2
  <2>2. \A x \in 1 .. j : v[x] = u[i + x] /\ i + x \in 1 .. m
    BY <1>1, <1>2
  <2>3. v \in Seq(Byte)
    BY <1>1, <1>2
  <2> QED BY <2>1, <2>2, <2>3
<1> HIDE DEF v
<1>4. ASSUME NEW x \in 1 .. j PROVE v[x] = D[(n + i) + x]
  <2>1. i + x \in 1 .. m /\ n + (i + x) = (n + i) + x
    OBVIOUS
  <2>2. v[x] = u[i + x] /\ u[i + x] = D[n + (i + x)]
    BY <1>1, <1>3, <2>1
  <2> QED BY ONLY <2>1, <2>2
<1> QED BY <1>3, <1>4 DEF Follows, v

LEMMA FollowsMore ==
  ASSUME NEW u, NEW v, NEW D, NEW n \in Nat, NEW m \in Nat, NEW l \in Nat,
         Follows(u, D, n, m), Follows(v, D, n + m, l)
  PROVE  Follows(u \o v, D, n, m + l)
<1>1. /\ u \in Seq(Byte) /\ Len(u) = m /\ \A i \in 1 .. m : u[i] = D[n + i]
      /\ v \in Seq(Byte) /\ Len(v) = l /\ \A i \in 1 .. l : v[i] = D[(n + m) + i]
  BY DEF Follows
<1> DEFINE w == u \o v
<1>2. w \in Seq(Byte) /\ Len(w) = m + l
  <2>1. w \in Seq(Byte) /\ Len(w) = Len(u) + Len(v)
    BY ONLY <1>1, ConcatProperties
  <2> QED BY ONLY <1>1, <2>1
<1>3. \A i \in 1 .. m : w[i] = u[i]
  BY <1>1
<1>4. ASSUME NEW i \in 1 .. l PROVE w[m + i] = v[i]
  <2> DEFINE x == m + i
  <2>1. x \in Nat /\ x > m /\ x <= m + l /\ x - m = i
    BY ONLY m \in Nat, l \in Nat, i \in 1 .. l
  <2> HIDE DEF x
  <2>2. w[x] = v[x - m]
    <3>1. /\ u \in Seq(Byte) /\ Len(u) = m /\ v \in Seq(Byte) /\ Len(v) = l
      BY ONLY <1>1
    <3>2. x \in 1 .. Len(u) + Len(v) /\ ~(x <= Len(u)) /\ x - Len(u) = x - m
      BY ONLY <2>1, <3>1, m \in Nat, l \in Nat
    <3>3. w[x] = IF x <= Len(u) THEN u[x] ELSE v[x - Len(u)]
      BY ONLY <3>1, <3>2, ConcatProperties
    <3> QED BY ONLY <3>2, <3>3
  <2> QED BY ONLY <2>1, <2>2 DEF x
<1> HIDE DEF w
<1>5. ASSUME NEW i \in 1 .. m + l PROVE w[i] = D[n + i]
  <2>1. CASE i <= m
    BY <1>1, <1>3, <2>1
  <2>2. CASE i > m
    <3> DEFINE j == i - m
    <3>1. j \in 1 .. l /\ m + j = i /\ (n + m) + j = n + i
      BY <2>2
    <3> HIDE DEF j
    <3>2. w[m + j] = v[j] /\ v[j] = D[(n + m) + j]
      BY <1>1, <1>4, <3>1
    <3> QED BY ONLY <3>1, <3>2
  <2> QED BY <2>1, <2>2
<1> QED BY <1>2, <1>5 DEF Follows, w

LEMMA FollowsOnce ==
  ASSUME NEW u, NEW v, NEW D, NEW n \in Nat, NEW m \in Nat,
         Follows(u, D, n, m), Follows(v, D, n, m)
  PROVE  u = v
<1>1. /\ u \in Seq(Byte) /\ Len(u) = m /\ \A i \in 1 .. m : u[i] = D[n + i]
      /\ v \in Seq(Byte) /\ Len(v) = m /\ \A i \in 1 .. m : v[i] = D[n + i]
  BY DEF Follows
<1>2. \A i \in 1 .. m : u[i] = v[i]
  BY <1>1
<1> QED BY <1>1, <1>2

LEMMA FollowsItself ==
  ASSUME NEW D \in Seq(Byte)
  PROVE  /\ Follows(D, D, 0, Len(D)) /\ Follows(<<>>, D, 0, 0)
         /\ \A n \in 0 .. Len(D) : Follows(SubSeq(D, 1, n), D, 0, n)
<1>1. Len(D) \in Nat /\ \A i \in 1 .. Len(D) : D[i] = D[0 + i]
  OBVIOUS
<1>2. Follows(D, D, 0, Len(D))
  BY <1>1 DEF Follows
<1>3. Follows(<<>>, D, 0, 0)
  BY DEF Follows
<1>4. ASSUME NEW n \in 0 .. Len(D) PROVE Follows(SubSeq(D, 1, n), D, 0, n)
  <2> DEFINE zero == 0
             m == Len(D)
  <2>1. Follows(D, D, zero, m) /\ zero \in Nat /\ m \in Nat /\ n \in Nat /\ zero + n <= m
    BY <1>1, <1>2
  <2>2. zero + 1 = 1 /\ zero + n = n /\ zero + zero = zero
    OBVIOUS
  <2> HIDE DEF zero, m
  <2>3. Follows(SubSeq(D, zero + 1, zero + n), D, zero + zero, n)
    BY ONLY <2>1, FollowsPart
  <2> QED BY ONLY <2>2, <2>3 DEF zero
<1> QED BY <1>2, <1>3, <1>4

-----------------------------------------------------------------------------
(* What a mode makes of the message, block by block.                        *)

Kinds == {"ecb", "cbc", "cfb", "ofb", "ctr"}
LastBlock(kind) == (Size(kind) + BlockBytes - 1) \div BlockBytes

\* What block j gives, behind what came before.
Unit(kind, j, before) ==
  IF kind = "ofb" THEN XorBytes(PlainBlock(j), CipherBlock(kind, j, before))
                  ELSE CipherBlock(kind, j, before)
FirstLink == [before |-> FirstIv, text |-> <<>>]
NextLink(kind, j, link) ==
  [before |-> CipherBlock(kind, j, link.before), text |-> link.text \o Unit(kind, j, link.before)]

LinksAre(f, kind, n) ==
  f = [j \in 0 .. n |-> IF j = 0 THEN FirstLink ELSE NextLink(kind, j, f[j - 1])]
Links(kind) == CHOOSE f : LinksAre(f, kind, LastBlock(kind))
Before(kind, j) == Links(kind)[j].before

LEMMA LinksExist ==
  ASSUME NEW kind, NEW n \in Nat
  PROVE  \E f : LinksAre(f, kind, n)
<1> DEFINE S == {k \in Nat : \E f : LinksAre(f, kind, k)}
<1>1. 0 \in S
  <2> DEFINE g == [j \in 0 .. 0 |-> FirstLink]
  <2>1. ASSUME NEW j \in 0 .. 0 PROVE FirstLink = IF j = 0 THEN FirstLink ELSE NextLink(kind, j, g[j - 1])
    OBVIOUS
  <2>2. LinksAre(g, kind, 0)
    BY <2>1 DEF LinksAre
  <2> QED BY <2>2
<1>2. ASSUME NEW k \in Nat, k \in S PROVE k + 1 \in S
  <2>1. PICK f : LinksAre(f, kind, k)
    BY <1>2
  <2> DEFINE value(j) == IF j = 0 THEN FirstLink ELSE NextLink(kind, j, f[j - 1])
             g == [j \in 0 .. k + 1 |-> value(j)]
  <2>2. f = [j \in 0 .. k |-> value(j)]
    BY ONLY <2>1 DEF LinksAre
  <2>3. ASSUME NEW j \in 0 .. k PROVE g[j] = f[j]
    <3>1. j \in 0 .. k + 1
      OBVIOUS
    <3> HIDE DEF value
    <3>2. f[j] = value(j) /\ g[j] = value(j)
      BY ONLY <2>2, <3>1, j \in 0 .. k DEF g
    <3> QED BY <3>2
  <2>4. ASSUME NEW j \in 0 .. k + 1
        PROVE  value(j) = IF j = 0 THEN FirstLink ELSE NextLink(kind, j, g[j - 1])
    <3>1. CASE j = 0
      BY ONLY <3>1
    <3>2. CASE j # 0
      <4>1. j - 1 \in 0 .. k
        BY <3>2
      <4>2. g[j - 1] = f[j - 1]
        <5> HIDE DEF g
        <5> QED BY <2>3, <4>1
      <4> HIDE DEF g
      <4> QED BY ONLY <4>2 DEF value
    <3> QED BY ONLY <3>1, <3>2
  <2>5. g = [j \in 0 .. k + 1 |-> IF j = 0 THEN FirstLink ELSE NextLink(kind, j, g[j - 1])]
    <3> DEFINE other(j) == IF j = 0 THEN FirstLink ELSE NextLink(kind, j, g[j - 1])
    <3>1. ASSUME NEW j \in 0 .. k + 1 PROVE value(j) = other(j)
      BY <2>4
    <3>2. g = [j \in 0 .. k + 1 |-> value(j)]
      OBVIOUS
    <3> HIDE DEF value, other, g
    <3>3. [j \in 0 .. k + 1 |-> value(j)] = [j \in 0 .. k + 1 |-> other(j)]
      BY <3>1
    <3> QED BY ONLY <3>2, <3>3 DEF other
  <2> HIDE DEF g
  <2>6. LinksAre(g, kind, k + 1)
    BY ONLY <2>5 DEF LinksAre
  <2> QED BY <2>6
<1> HIDE DEF S
<1>3. \A k \in Nat : k \in S
  BY <1>1, <1>2, SetInduction
<1> QED BY <1>3 DEF S

LEMMA QuotientBound ==
  ASSUME NEW n \in Nat, NEW k \in Nat, NEW b \in Nat, b > 0
  PROVE  k <= n \div b <=> k * b <= n
<1> DEFINE q == n \div b
           r == n % b
<1>1. q \in Nat /\ r \in 0 .. b - 1 /\ n = q * b + r
  BY QuotientOf
<1> HIDE DEF q, r
<1> DEFINE x == q * b
           y == k * b
<1>2. CASE k <= q
  <2>1. y <= x
    <3>1. (q - k) * b >= 0 /\ (q - k) * b = q * b - k * b /\ q * b \in Int /\ k * b \in Int
      BY <1>1, <1>2, Distribute
    <3> QED BY <3>1
  <2>2. x \in Int /\ y \in Int
    BY <1>1, Distribute
  <2> HIDE DEF x, y
  <2>3. y <= n
    BY <1>1, <2>1, <2>2 DEF x
  <2> QED BY <1>2, <2>3 DEF q, y
<1>3. CASE ~(k <= q)
  <2>1. y >= x + b
    <3> DEFINE d == k - q - 1
    <3>1. d \in Nat /\ k = (q + 1) + d
      BY <1>1, <1>3
    <3>2. d * b >= 0 /\ d * b \in Int
      BY <3>1, Distribute
    <3>3. ((q + 1) + d) * b = (q + 1) * b + d * b /\ (q + 1) * b = q * b + 1 * b /\ 1 * b = b
          /\ q * b \in Int
      <4> HIDE DEF d
      <4> QED BY <1>1, <3>1, Distribute
    <3> HIDE DEF d
    <3>4. y = (x + b) + d * b
      BY ONLY <3>1, <3>3
    <3>5. x \in Int /\ d * b \in Int /\ d * b >= 0
      BY ONLY <3>2, <3>3
    <3> HIDE DEF x, y
    <3> QED BY <3>4, <3>5
  <2>2. x \in Int /\ y \in Int
    BY <1>1, Distribute
  <2> HIDE DEF x, y
  <2>3. ~(y <= n)
    BY <1>1, <2>1, <2>2 DEF x
  <2> QED BY <1>3, <2>3 DEF q, y
<1> QED BY <1>2, <1>3

LEMMA SizeIs ==
  ASSUME NEW kind
  PROVE  /\ Len(PlainText) \in Nat /\ Size(kind) \in Nat /\ Size(kind) <= Len(PlainText)
         /\ kind \in {"ecb", "cbc"} => Size(kind) % BlockBytes = 0
         /\ kind \notin {"ecb", "cbc"} => Size(kind) = Len(PlainText)
<1> DEFINE t == Len(PlainText)
           b == BlockBytes
           q == t \div b
           r == t % b
<1>1. t \in Nat /\ b \in Nat /\ b > 0
  BY ModesAssumption
<1> HIDE DEF t, b
<1>2. q \in Nat /\ r \in 0 .. b - 1 /\ t = q * b + r
  BY <1>1, QuotientOf
<1>3. t - r = q * b + 0 /\ t - r \in Nat /\ 0 \in 0 .. b - 1
  <2>1. q * b \in Int /\ q * b >= 0
    BY <1>1, <1>2, Distribute
  <2> HIDE DEF q, r
  <2> QED BY <1>1, <1>2, <2>1
<1>4. (t - r) % b = 0
  <2> DEFINE z == 0
  <2>1. z \in 0 .. b - 1 /\ q \in Int /\ t - r = q * b + z
    BY <1>2, <1>3
  <2> HIDE DEF z, q, r
  <2>2. (q * b + z) % b = z
    BY ONLY <1>1, <2>1, QuotientIs
  <2> QED BY ONLY <2>1, <2>2 DEF z
<1>5. Size(kind) = IF kind \in {"ecb", "cbc"} THEN t - r ELSE t
  BY DEF Size, t, b
<1>6. t - r <= t
  <2> HIDE DEF r
  <2> QED BY <1>1, <1>2
<1> HIDE DEF r
<1> QED BY <1>1, <1>3, <1>4, <1>5, <1>6 DEF t, b

\* Rounded up.
LEMMA QuotientUp ==
  ASSUME NEW s \in Nat, NEW b \in Nat, b > 0, NEW k \in Nat
  PROVE  /\ (s + b - 1) \div b \in Nat
         /\ k < (s + b - 1) \div b <=> k * b < s
<1> DEFINE n == s + b - 1
           x == k * b
<1>1. n \in Nat /\ k + 1 \in Nat
  OBVIOUS
<1>2. n \div b \in Nat
  <2> HIDE DEF n
  <2> QED BY <1>1, QuotientOf
<1>3. k + 1 <= n \div b <=> (k + 1) * b <= n
  <2> DEFINE u == k + 1
  <2>1. u \in Nat
    OBVIOUS
  <2> HIDE DEF u, n
  <2>2. u <= n \div b <=> u * b <= n
    BY <1>1, <2>1, QuotientBound
  <2> QED BY <2>2 DEF u
<1>4. (k + 1) * b = x + b /\ x \in Int
  <2>1. (k + 1) * b = x + 1 * b /\ 1 * b = b /\ x \in Int
    BY Distribute
  <2> QED BY ONLY <2>1
<1> HIDE DEF x
<1>5. (k + 1) * b <= n <=> x < s
  BY <1>4
<1>6. k + 1 <= n \div b <=> k < n \div b
  <2> DEFINE z == n \div b
  <2> HIDE DEF z
  <2>1. z \in Nat
    BY <1>2 DEF z
  <2> QED BY <2>1 DEF z
<1> QED BY <1>2, <1>3, <1>5, <1>6 DEF x

LEMMA LastIs ==
  ASSUME NEW kind, NEW k \in Nat
  PROVE  /\ LastBlock(kind) \in Nat
         /\ k < LastBlock(kind) <=> k * BlockBytes < Size(kind)
<1> DEFINE b == BlockBytes
           s == Size(kind)
<1>1. s \in Nat /\ b \in Nat /\ b > 0
  BY SizeIs, BlockAsSequence
<1>2. LastBlock(kind) = (s + b - 1) \div b
  BY DEF LastBlock
<1> HIDE DEF s, b
<1>3. (s + b - 1) \div b \in Nat /\ (k < (s + b - 1) \div b <=> k * b < s)
  BY <1>1, QuotientUp
<1> QED BY ONLY <1>2, <1>3 DEF s, b

LEMMA LinksStep ==
  ASSUME NEW kind
  PROVE  /\ Links(kind)[0] = FirstLink
         /\ \A j \in 0 .. LastBlock(kind) - 1 :
              Links(kind)[j + 1] = NextLink(kind, j + 1, Links(kind)[j])
         /\ Ciphertext(kind) = Links(kind)[LastBlock(kind)].text
<1> DEFINE n == LastBlock(kind)
           f == Links(kind)
<1>1. n \in Nat
  <2>1. 0 \in Nat
    OBVIOUS
  <2> QED BY <2>1, LastIs
<1>2. LinksAre(f, kind, n)
  <2> HIDE DEF n
  <2>1. \E g : LinksAre(g, kind, n)
    BY <1>1, LinksExist
  <2> QED BY <2>1 DEF Links, n
<1>3. Ciphertext(kind) = f[n].text
  BY DEF Ciphertext, Links, LinksAre, NextLink, FirstLink, Unit, LastBlock
<1> HIDE DEF f, n
<1>4. f = [j \in 0 .. n |-> IF j = 0 THEN FirstLink ELSE NextLink(kind, j, f[j - 1])]
  BY ONLY <1>2 DEF LinksAre
<1>5. f[0] = FirstLink
  <2>1. 0 \in 0 .. n
    BY <1>1
  <2> QED BY ONLY <1>4, <2>1
<1>6. ASSUME NEW j \in 0 .. n - 1 PROVE f[j + 1] = NextLink(kind, j + 1, f[j])
  <2>1. j + 1 \in 0 .. n /\ j + 1 # 0 /\ (j + 1) - 1 = j
    BY <1>1
  <2>2. f[j + 1] = NextLink(kind, j + 1, f[(j + 1) - 1])
    BY ONLY <1>4, <2>1
  <2> QED BY ONLY <2>1, <2>2
<1> QED BY <1>3, <1>5, <1>6 DEF f, n

\* The bytes of block k + 1 of s bytes.
Span(k, s) == Least((k + 1) * BlockBytes, s) - k * BlockBytes

LEMMA SpanIs ==
  ASSUME NEW s \in Nat, NEW k \in Nat, k * BlockBytes < s
  PROVE  /\ k * BlockBytes \in Nat /\ (k + 1) * BlockBytes = k * BlockBytes + BlockBytes
         /\ Span(k, s) \in 1 .. BlockBytes /\ k * BlockBytes + Span(k, s) <= s
         /\ k * BlockBytes + Span(k, s) = Least((k + 1) * BlockBytes, s)
         /\ k * BlockBytes + BlockBytes <= s => Span(k, s) = BlockBytes
         /\ s % BlockBytes = 0 => Span(k, s) = BlockBytes /\ k * BlockBytes + BlockBytes <= s
<1> DEFINE b == BlockBytes
           x == k * b
           y == (k + 1) * b
           q == s \div b
<1>1. b \in Nat /\ b > 0
  BY BlockAsSequence
<1> HIDE DEF b
<1>2. x \in Nat /\ y = x + b
  <2>1. x \in Int /\ x >= 0 /\ y = x + 1 * b /\ 1 * b = b
    BY <1>1, Distribute
  <2> HIDE DEF x, y
  <2> QED BY <2>1
<1>3. Span(k, s) = (IF y < s THEN y ELSE s) - x
  BY DEF Span, Least, x, y, b
<1>4. x < s
  BY DEF x, b
<1>5. q \in Nat /\ s = q * b + (s % b)
  BY <1>1, QuotientOf
<1>6. ASSUME s % b = 0 PROVE x + b <= s
  <2>1. q * b \in Int /\ s = q * b
    <3>1. q * b \in Int
      BY <1>1, <1>5, Distribute
    <3> HIDE DEF q
    <3> QED BY <1>5, <1>6, <3>1
  <2>2. CASE q <= k
    <3> DEFINE d == k - q
               z == d * b
    <3>1. d \in Int /\ d >= 0 /\ d * b >= 0 /\ d * b = k * b - q * b /\ d * b \in Int /\ k * b \in Int
      BY <1>1, <1>5, <2>2, Distribute
    <3>2. x >= s
      <4> HIDE DEF d, q
      <4> QED BY <2>1, <3>1
    <3> HIDE DEF x
    <3> QED BY <1>2, <1>4, <3>2
  <2>3. CASE ~(q <= k)
    <3> DEFINE u == k + 1
    <3>1. u \in Nat /\ u <= q
      BY <1>5, <2>3
    <3> HIDE DEF u
    <3>2. u * b <= s
      <4>1. u <= s \div b <=> u * b <= s
        BY <1>1, <3>1, QuotientBound
      <4> QED BY <3>1, <4>1
    <3> QED BY <1>2, <3>2 DEF u
  <2> QED BY <2>2, <2>3
<1>7. Least(y, s) = IF y < s THEN y ELSE s
  BY DEF Least
<1> HIDE DEF x, y
<1>8. /\ Span(k, s) \in 1 .. b /\ x + Span(k, s) <= s /\ x + Span(k, s) = Least(y, s)
      /\ x + b <= s => Span(k, s) = b
  BY <1>1, <1>2, <1>3, <1>4, <1>7
<1> QED BY <1>2, <1>6, <1>8 DEF x, y, b

LEMMA PlainIs ==
  ASSUME NEW k \in Nat, k * BlockBytes < Len(PlainText)
  PROVE  Follows(PlainBlock(k + 1), PlainText, k * BlockBytes, Span(k, Len(PlainText)))
<1> DEFINE t == Len(PlainText)
           x == k * BlockBytes
           m == Span(k, t)
           zero == 0
<1>1. t \in Nat /\ zero \in Nat
  BY SizeIs
<1>2. x \in Nat /\ m \in Nat /\ x + m <= t /\ x + m = Least((k + 1) * BlockBytes, t)
  <2> HIDE DEF t
  <2>1. k * BlockBytes < t
    BY DEF t
  <2> QED BY <1>1, <2>1, SpanIs
<1>3. PlainBlock(k + 1) = SubSeq(PlainText, x + 1, x + m)
  <2>1. (k + 1) - 1 = k
    OBVIOUS
  <2>2. PlainBlock(k + 1) = SubSeq(PlainText, ((k + 1) - 1) * BlockBytes + 1, Least((k + 1) * BlockBytes, t))
    BY DEF PlainBlock
  <2> HIDE DEF t, m
  <2> QED BY ONLY <1>2, <2>1, <2>2 DEF x
<1>4. Follows(PlainText, PlainText, zero, t)
  BY ModesAssumption, FollowsItself
<1>5. zero + x = x
  BY <1>2
<1> HIDE DEF zero, t, x, m
<1>6. Follows(SubSeq(PlainText, x + 1, x + m), PlainText, zero + x, m)
  BY ONLY <1>1, <1>2, <1>4, FollowsPart
<1> QED BY ONLY <1>3, <1>5, <1>6 DEF t, x, m

LEMMA XorWithBlock ==
  ASSUME NEW s \in Seq(Byte), Len(s) <= BlockBytes, NEW b \in CipherBlocks
  PROVE  /\ XorBytes(s, b) \in Seq(Byte) /\ Len(XorBytes(s, b)) = Len(s)
         /\ \A i \in 1 .. Len(s) : XorBytes(s, b)[i] = XorByte(s[i], b[i])
         /\ Len(s) = BlockBytes => XorBytes(s, b) \in CipherBlocks
<1>1. \A i \in 1 .. Len(s) : b[i] \in Byte
  BY BlockAsSequence
<1>2. /\ XorBytes(s, b) \in Seq(Byte) /\ Len(XorBytes(s, b)) = Len(s)
      /\ \A i \in 1 .. Len(s) : XorBytes(s, b)[i] = XorByte(s[i], b[i])
  BY <1>1, XorBytesIs
<1> QED BY <1>2, BlockAsSequence

\* What is xored with block k + 1 of the text, where a mode does so.
PadOf(kind, k, before) == IF kind = "ctr" THEN Encipher(CounterBlock(k)) ELSE Encipher(before)

LEMMA CipherPadIs ==
  ASSUME NEW kind, NEW k \in Nat, NEW before \in CipherBlocks
  PROVE  PadOf(kind, k, before) \in CipherBlocks
<1>1. CounterBlock(k) \in CipherBlocks
  BY CounterIs
<1>2. Encipher(before) \in CipherBlocks
  BY CipherAssumption, Zenon
<1>3. Encipher(CounterBlock(k)) \in CipherBlocks
  BY <1>1, CipherAssumption, Zenon
<1>4. CASE kind = "ctr"
  <2>1. PadOf(kind, k, before) = Encipher(CounterBlock(k))
    BY <1>4 DEF PadOf
  <2> QED BY ONLY <1>3, <2>1
<1>5. CASE kind # "ctr"
  <2>1. PadOf(kind, k, before) = Encipher(before)
    BY <1>5 DEF PadOf
  <2> QED BY ONLY <1>2, <2>1
<1> QED BY <1>4, <1>5

LEMMA UnitIs ==
  ASSUME NEW kind \in Kinds, NEW k \in Nat, k * BlockBytes < Size(kind), NEW before \in CipherBlocks
  PROVE  /\ Unit(kind, k + 1, before) \in Seq(Byte)
         /\ Len(Unit(kind, k + 1, before)) = Span(k, Size(kind))
         /\ k * BlockBytes + BlockBytes <= Size(kind) => CipherBlock(kind, k + 1, before) \in CipherBlocks
         /\ kind \in {"cfb", "ofb", "ctr"} =>
              \A i \in 1 .. Span(k, Size(kind)) :
                Unit(kind, k + 1, before)[i]
                  = XorByte(PlainText[k * BlockBytes + i], PadOf(kind, k, before)[i])
<1> DEFINE p == PlainBlock(k + 1)
           x == k * BlockBytes
           n == Size(kind)
           t == Len(PlainText)
           m == Span(k, n)
           pad == PadOf(kind, k, before)
           c == CipherBlock(kind, k + 1, before)
           u == Unit(kind, k + 1, before)
<1>1. /\ n \in Nat /\ t \in Nat /\ n <= t
      /\ kind \in {"ecb", "cbc"} => n % BlockBytes = 0
      /\ kind \notin {"ecb", "cbc"} => n = t
  BY SizeIs
<1>2. x < n /\ x < t
  <2>1. x < n /\ x \in Int
    BY BlockAsSequence
  <2> HIDE DEF x, n, t
  <2> QED BY <1>1, <2>1
<1>3. /\ m \in 1 .. BlockBytes /\ x \in Nat
      /\ x + BlockBytes <= n => m = BlockBytes
      /\ n % BlockBytes = 0 => m = BlockBytes /\ x + BlockBytes <= n
  <2> HIDE DEF n
  <2> QED BY <1>1, <1>2, SpanIs
<1>4. Follows(p, PlainText, x, Span(k, t))
  <2>1. k * BlockBytes < Len(PlainText)
    BY <1>2
  <2> QED BY <2>1, PlainIs
<1>5. Span(k, t) = m
  <2>1. CASE n = t
    BY <2>1
  <2>2. CASE n # t
    <3>1. m = BlockBytes /\ x + BlockBytes <= t
      <4>1. m = BlockBytes /\ x + BlockBytes <= n /\ BlockBytes \in Nat
        BY <1>1, <1>3, <2>2, BlockAsSequence
      <4> HIDE DEF x, n, t, m
      <4> QED BY <1>1, <1>3, <4>1
    <3>2. Span(k, t) = BlockBytes
      <4> HIDE DEF t
      <4> QED BY <1>1, <1>2, <3>1, SpanIs
    <3> QED BY <3>1, <3>2
  <2> QED BY <2>1, <2>2
<1>6. pad \in CipherBlocks /\ Encipher(before) \in CipherBlocks
  <2>1. pad \in CipherBlocks
    BY CipherPadIs
  <2>2. Encipher(before) \in CipherBlocks
    BY CipherAssumption, Zenon
  <2> QED BY <2>1, <2>2
<1> HIDE DEF x, n, t, m, pad
<1>7. p \in Seq(Byte) /\ Len(p) = m /\ \A i \in 1 .. m : p[i] = PlainText[x + i]
  BY <1>4, <1>5 DEF Follows
<1>8. Len(p) <= BlockBytes
  BY <1>3, <1>7
<1>9. kind = "ecb" => c = Encipher(p) /\ u = c
  BY DEF CipherBlock, Unit
<1>10. kind = "cbc" => c = Encipher(XorBytes(p, before)) /\ u = c
  BY DEF CipherBlock, Unit
<1>11. kind = "cfb" => c = XorBytes(p, pad) /\ u = c
  BY DEF CipherBlock, Unit, PadOf, pad
<1>12. kind = "ofb" => c = pad /\ u = XorBytes(p, pad)
  BY DEF CipherBlock, Unit, PadOf, pad
<1>13. kind = "ctr" => c = XorBytes(p, pad) /\ u = c
  <2>1. (k + 1) - 1 = k
    OBVIOUS
  <2> QED BY <2>1 DEF CipherBlock, Unit, PadOf, pad
<1> HIDE DEF p, c, u
<1>14. CASE kind \in {"ecb", "cbc"}
  <2>1. m = BlockBytes /\ p \in CipherBlocks
    BY <1>1, <1>3, <1>7, <1>14, BlockAsSequence
  <2>2. XorBytes(p, before) \in CipherBlocks
    BY <1>7, <1>8, <2>1, XorWithBlock
  <2>3. c \in CipherBlocks /\ u = c
    BY <1>9, <1>10, <1>14, <2>1, <2>2, CipherAssumption
  <2>4. u \in Seq(Byte) /\ Len(u) = m
    BY <2>1, <2>3, BlockAsSequence
  <2> QED BY <1>14, <2>3, <2>4 DEF c, u, m, n, x
<1>15. CASE kind \in {"cfb", "ofb", "ctr"}
  <2> DEFINE w == XorBytes(p, pad)
  <2>1. /\ w \in Seq(Byte) /\ Len(w) = m
        /\ \A i \in 1 .. m : w[i] = XorByte(p[i], pad[i])
        /\ m = BlockBytes => w \in CipherBlocks
    BY <1>6, <1>7, <1>8, XorWithBlock
  <2> HIDE DEF w
  <2>2. u = w /\ c \in {w, pad}
    BY <1>11, <1>12, <1>13, <1>15 DEF w
  <2>3. x + BlockBytes <= n => c \in CipherBlocks
    BY <1>3, <1>6, <2>1, <2>2
  <2>4. \A i \in 1 .. m : u[i] = XorByte(PlainText[x + i], pad[i])
    BY <1>7, <2>1, <2>2
  <2>5. u \in Seq(Byte) /\ Len(u) = m
    BY <2>1, <2>2
  <2> QED BY <2>3, <2>4, <2>5 DEF c, u, m, n, x, pad
<1> QED BY <1>14, <1>15 DEF Kinds

\* The units are put behind one another.
UnitsIn(text, kind, j) ==
  \A k \in Nat : k < j =>
    \A i \in 1 .. Span(k, Size(kind)) :
      text[k * BlockBytes + i] = Unit(kind, k + 1, Before(kind, k))[i]
LinkIs(kind, j) ==
  /\ Links(kind)[j].text \in Seq(Byte)
  /\ Len(Links(kind)[j].text) = Least(j * BlockBytes, Size(kind))
  /\ j * BlockBytes <= Size(kind) => Before(kind, j) \in CipherBlocks
  /\ UnitsIn(Links(kind)[j].text, kind, j)

LEMMA LinkBegins ==
  ASSUME NEW kind
  PROVE  LinkIs(kind, 0)
<1>1. Links(kind)[0] = FirstLink
  BY LinksStep
<1>2. Links(kind)[0].text = <<>> /\ Before(kind, 0) = FirstIv
  BY <1>1 DEF FirstLink, Before
<1>3. Least(0 * BlockBytes, Size(kind)) = 0
  <2>1. 0 * BlockBytes = 0 /\ Size(kind) \in Nat
    BY SizeIs, BlockAsSequence
  <2> QED BY <2>1 DEF Least
<1>4. FirstIv \in CipherBlocks
  BY ModesAssumption
<1>5. UnitsIn(<<>>, kind, 0)
  BY DEF UnitsIn
<1> QED BY <1>2, <1>3, <1>4, <1>5 DEF LinkIs

LEMMA LinkStep ==
  ASSUME NEW kind \in Kinds, NEW j \in Nat, j < LastBlock(kind), LinkIs(kind, j)
  PROVE  LinkIs(kind, j + 1)
<1> DEFINE n == Size(kind)
           b == BlockBytes
           x == j * b
           y == (j + 1) * b
           m == Span(j, n)
           before == Before(kind, j)
           u == Unit(kind, j + 1, before)
           s == Links(kind)[j].text
           t == Links(kind)[j + 1].text
<1>1. x < n
  BY LastIs
<1>2. n \in Nat /\ b \in Nat /\ b > 0
  BY SizeIs, BlockAsSequence
<1>3. /\ x \in Nat /\ y = x + b /\ m \in 1 .. b /\ x + m <= n
      /\ x + m = Least(y, n)
  <2> HIDE DEF n
  <2> QED BY <1>1, <1>2, SpanIs
<1>4. Links(kind)[j + 1] = NextLink(kind, j + 1, Links(kind)[j])
  <2>1. j \in 0 .. LastBlock(kind) - 1
    <3>1. LastBlock(kind) \in Nat
      BY LastIs
    <3> QED BY <3>1
  <2> QED BY <2>1, LinksStep
<1>5. Before(kind, j + 1) = CipherBlock(kind, j + 1, before) /\ t = s \o u
  <2> DEFINE link == Links(kind)[j]
             next == Links(kind)[j + 1]
  <2>1. next = [before |-> CipherBlock(kind, j + 1, link.before),
                text |-> link.text \o Unit(kind, j + 1, link.before)]
    BY <1>4 DEF NextLink
  <2> HIDE DEF link, next
  <2>2. /\ next.before = CipherBlock(kind, j + 1, link.before)
        /\ next.text = link.text \o Unit(kind, j + 1, link.before)
    BY ONLY <2>1
  <2> QED BY <2>2 DEF Before, link, next
<1>6. s \in Seq(Byte) /\ Len(s) = x /\ before \in CipherBlocks /\ UnitsIn(s, kind, j)
  <2>1. s \in Seq(Byte) /\ Len(s) = Least(x, n) /\ UnitsIn(s, kind, j)
    BY DEF LinkIs
  <2>2. Least(x, n) = x
    BY <1>1 DEF Least
  <2>3. x <= n => before \in CipherBlocks
    BY DEF LinkIs
  <2>4. x <= n
    <3> HIDE DEF x, n
    <3> QED BY <1>1, <1>2, <1>3
  <2> QED BY ONLY <2>1, <2>2, <2>3, <2>4
<1>7. /\ u \in Seq(Byte) /\ Len(u) = m
      /\ x + b <= n => CipherBlock(kind, j + 1, before) \in CipherBlocks
  <2>1. j * BlockBytes < Size(kind)
    BY <1>1
  <2> HIDE DEF before
  <2> QED BY <1>6, <2>1, UnitIs
<1> HIDE DEF n, b, x, y, m, before, u, s, t
<1>8. t \in Seq(Byte) /\ Len(t) = x + m
  <2>1. (s \o u) \in Seq(Byte) /\ Len(s \o u) = Len(s) + Len(u)
    BY ONLY <1>6, <1>7, ConcatProperties
  <2> QED BY ONLY <1>5, <1>6, <1>7, <2>1
<1>9. /\ \A i \in 1 .. x : t[i] = s[i]
      /\ \A i \in 1 .. m : t[x + i] = u[i]
  <2>1. \A i \in 1 .. Len(s) + Len(u) : (s \o u)[i] = IF i <= Len(s) THEN s[i] ELSE u[i - Len(s)]
    BY ONLY <1>6, <1>7, ConcatProperties
  <2>2. \A i \in 1 .. x + m : t[i] = IF i <= x THEN s[i] ELSE u[i - x]
    BY ONLY <1>5, <1>6, <1>7, <2>1
  <2>3. ASSUME NEW i \in 1 .. x PROVE t[i] = s[i]
    BY <1>3, <2>2
  <2>4. ASSUME NEW i \in 1 .. m PROVE t[x + i] = u[i]
    <3>1. x + i \in 1 .. x + m /\ ~(x + i <= x) /\ (x + i) - x = i
      BY <1>3
    <3> QED BY ONLY <2>2, <3>1
  <2> QED BY <2>3, <2>4
<1>10. ASSUME NEW k \in Nat, k < j + 1, NEW i \in 1 .. Span(k, n)
       PROVE  t[k * b + i] = Unit(kind, k + 1, Before(kind, k))[i]
  <2>1. CASE k = j
    BY <1>9, <2>1 DEF x, m, u, before
  <2>2. CASE k # j
    <3>1. k < j
      BY <1>10, <2>2
    <3> DEFINE z == k * b
               d == (j - k) - 1
               w == d * b
    <3>2. z \in Nat /\ z + b <= x
      <4>1. d \in Int /\ d >= 0 /\ j = (k + 1) + d
        BY <3>1
      <4>2. z \in Int /\ z >= 0 /\ w \in Int /\ w >= 0
        BY <1>2, <4>1, Distribute
      <4>3. ((k + 1) + d) * b = (k + 1) * b + w /\ (k + 1) * b = z + 1 * b /\ 1 * b = b
        <5> HIDE DEF d
        <5> QED BY <1>2, <4>1, Distribute
      <4>4. x = (z + b) + w
        BY ONLY <4>1, <4>3 DEF x
      <4> HIDE DEF z, w, d
      <4> QED BY <1>2, <4>2, <4>4
    <3> HIDE DEF z, w
    <3>3. z < n
      BY <1>1, <1>2, <1>3, <3>2
    <3>4. Span(k, n) \in 1 .. b
      <4>1. k * BlockBytes < n
        BY <3>3 DEF z, b
      <4> QED BY <1>2, <4>1, SpanIs DEF b
    <3>5. z + i \in 1 .. x
      BY <1>2, <1>3, <3>2, <3>4
    <3>6. s[z + i] = Unit(kind, k + 1, Before(kind, k))[i]
      BY <1>6, <3>1 DEF UnitsIn, z, b, n
    <3> QED BY <1>9, <3>5, <3>6 DEF z
  <2> QED BY <2>1, <2>2
<1>11. UnitsIn(t, kind, j + 1)
  BY <1>10 DEF UnitsIn, n, b
<1>12. (j + 1) * BlockBytes <= Size(kind) => Before(kind, j + 1) \in CipherBlocks
  BY <1>3, <1>5, <1>7 DEF y, b, n
<1>13. Len(t) = Least((j + 1) * BlockBytes, Size(kind))
  BY <1>3, <1>8 DEF y, b, n
<1> QED BY <1>8, <1>11, <1>12, <1>13 DEF LinkIs, t

LEMMA LinksAreSo ==
  ASSUME NEW kind \in Kinds, NEW j \in Nat, j <= LastBlock(kind)
  PROVE  LinkIs(kind, j)
<1> DEFINE S == {k \in Nat : k <= LastBlock(kind) => LinkIs(kind, k)}
<1>1. 0 \in S
  BY LinkBegins
<1>2. ASSUME NEW k \in Nat, k \in S PROVE k + 1 \in S
  <2> SUFFICES ASSUME k + 1 <= LastBlock(kind) PROVE LinkIs(kind, k + 1)
    OBVIOUS
  <2>1. LastBlock(kind) \in Nat
    BY LastIs
  <2>2. k < LastBlock(kind) /\ k <= LastBlock(kind)
    BY <2>1
  <2> QED BY <1>2, <2>2, LinkStep
<1> HIDE DEF S
<1>3. \A k \in Nat : k \in S
  BY <1>1, <1>2, SetInduction
<1> QED BY <1>3 DEF S

\* What the blocks of the ciphertext are.
LEMMA CiphertextIs ==
  ASSUME NEW kind \in Kinds
  PROVE  /\ Ciphertext(kind) \in Seq(Byte) /\ Len(Ciphertext(kind)) = Size(kind)
         /\ Before(kind, 0) = FirstIv
         /\ \A k \in Nat : k * BlockBytes <= Size(kind) => Before(kind, k) \in CipherBlocks
         /\ \A k \in Nat : k * BlockBytes < Size(kind) =>
              /\ Before(kind, k + 1) = CipherBlock(kind, k + 1, Before(kind, k))
              /\ \A i \in 1 .. Span(k, Size(kind)) :
                   Ciphertext(kind)[k * BlockBytes + i] = Unit(kind, k + 1, Before(kind, k))[i]
<1> DEFINE n == Size(kind)
           b == BlockBytes
           last == LastBlock(kind)
           c == Ciphertext(kind)
           x == last * b
<1>1. n \in Nat /\ b \in Nat /\ b > 0
  BY SizeIs, BlockAsSequence
<1>2. last \in Nat /\ \A k \in Nat : k < last <=> k * BlockBytes < Size(kind)
  <2>1. 0 \in Nat
    OBVIOUS
  <2>2. last \in Nat
    BY <2>1, LastIs
  <2> QED BY <2>2, LastIs
<1>3. c = Links(kind)[last].text
  BY LinksStep
<1>4. LinkIs(kind, last)
  <2>1. last <= last
    BY <1>2
  <2> HIDE DEF last
  <2> QED BY <1>2, <2>1, LinksAreSo DEF last
<1>5. Before(kind, 0) = FirstIv
  BY LinksStep DEF Before, FirstLink
<1>6. Least(x, n) = n
  <2>1. ~(last < last) /\ x \in Int
    BY <1>1, <1>2, Distribute
  <2>2. ~(x < n)
    BY <1>2, <2>1
  <2> QED BY <2>2 DEF Least
<1>7. c \in Seq(Byte) /\ Len(c) = n /\ UnitsIn(c, kind, last)
  BY <1>3, <1>4, <1>6 DEF LinkIs
<1>8. ASSUME NEW k \in Nat, k * BlockBytes <= Size(kind)
      PROVE  Before(kind, k) \in CipherBlocks
  <2>1. k <= last
    <3>1. CASE k = 0
      BY <1>2, <3>1
    <3>2. CASE k # 0
      <4> DEFINE l == k - 1
                 z == l * b
      <4>1. l \in Nat /\ k = l + 1
        BY <3>2
      <4>2. (l + 1) * b = z + 1 * b /\ 1 * b = b /\ z \in Int
        <5> HIDE DEF l
        <5> QED BY <1>1, <4>1, Distribute
      <4>3. z + b <= n
        BY ONLY <1>8, <4>1, <4>2
      <4> HIDE DEF z, n
      <4>4. z < n
        BY <1>1, <4>2, <4>3
      <4>5. l < last
        BY <1>2, <4>1, <4>4 DEF z, n
      <4> QED BY <1>2, <4>1, <4>5
    <3> QED BY <3>1, <3>2
  <2>2. LinkIs(kind, k)
    BY <2>1, LinksAreSo
  <2> QED BY <1>8, <2>2 DEF LinkIs
<1>9. ASSUME NEW k \in Nat, k * BlockBytes < Size(kind)
      PROVE  /\ Before(kind, k + 1) = CipherBlock(kind, k + 1, Before(kind, k))
             /\ \A i \in 1 .. Span(k, Size(kind)) :
                  c[k * BlockBytes + i] = Unit(kind, k + 1, Before(kind, k))[i]
  <2>1. k < last /\ k \in 0 .. last - 1
    BY <1>2, <1>9
  <2>2. Links(kind)[k + 1] = NextLink(kind, k + 1, Links(kind)[k])
    BY <2>1, LinksStep
  <2>3. Before(kind, k + 1) = CipherBlock(kind, k + 1, Before(kind, k))
    BY <2>2 DEF NextLink, Before
  <2> QED BY <1>7, <2>1, <2>3 DEF UnitsIn
<1> QED BY <1>5, <1>7, <1>8, <1>9

-----------------------------------------------------------------------------
(* The modes of whole blocks.                                               *)

CipherContexts ==
  [mode : Modes, iv : CipherBlocks, pos : Nat, passed : Nat, out : Seq(Byte), ok : BOOLEAN]

\* A call changes no more than this.
SameCall(e, d) == e \in CipherContexts /\ e.mode = d.mode /\ e.passed = d.passed

LEMMA KindIs ==
  ASSUME NEW mode \in Modes
  PROVE  /\ Kind(mode) \in Kinds
         /\ Kind(mode) \in {"ecb", "cbc"} <=>
              mode \in {"ecb_encrypt", "ecb_decrypt", "cbc_encrypt", "cbc_decrypt"}
         /\ Kind(mode) \in {"cfb", "ofb"} <=> mode \in {"cfb_encrypt", "cfb_decrypt", "ofb_crypt"}
         /\ Kind(mode) = "ctr" <=> mode = "ctr_crypt"
  BY DEF Modes, Kind, Kinds

LEMMA DueIs ==
  ASSUME NEW mode \in Modes
  PROVE  /\ Due(mode) \in Seq(Byte) /\ Size(Kind(mode)) <= Len(Due(mode))
         /\ Passed(mode) \in Seq(Byte) /\ Size(Kind(mode)) <= Len(Passed(mode))
         /\ Size(Kind(mode)) \in Nat
<1> DEFINE kind == Kind(mode)
           n == Size(kind)
           t == Len(PlainText)
<1>1. kind \in Kinds
  BY KindIs
<1>2. n \in Nat /\ t \in Nat /\ n <= t /\ PlainText \in Seq(Byte)
  BY SizeIs, ModesAssumption
<1>3. Ciphertext(kind) \in Seq(Byte) /\ Len(Ciphertext(kind)) = n
  <2> HIDE DEF kind
  <2> QED BY <1>1, CiphertextIs
<1>4. \/ Due(mode) = PlainText /\ Passed(mode) = Ciphertext(kind)
      \/ Due(mode) = Ciphertext(kind) /\ Passed(mode) = PlainText
  BY DEF Due, Passed
<1> HIDE DEF n, t, kind
<1>5. Len(Ciphertext(kind)) <= n /\ n <= Len(Ciphertext(kind)) /\ n <= Len(PlainText)
  BY <1>2, <1>3 DEF t
<1> QED BY <1>2, <1>3, <1>4, <1>5 DEF n, kind

LEMMA XorBack ==
  ASSUME NEW p \in CipherBlocks, NEW b \in CipherBlocks
  PROVE  /\ XorBytes(p, b) \in CipherBlocks /\ XorBytes(XorBytes(p, b), b) = p
         /\ XorBytes(b, p) = XorBytes(p, b)
<1>1. /\ p \in Seq(Byte) /\ b \in Seq(Byte) /\ Len(p) = BlockBytes /\ Len(b) = BlockBytes
      /\ \A i \in 1 .. BlockBytes : p[i] \in Byte /\ b[i] \in Byte
      /\ Len(p) <= BlockBytes /\ Len(b) <= BlockBytes
  BY BlockAsSequence
<1> DEFINE x == XorBytes(p, b)
           y == XorBytes(b, p)
           z == XorBytes(x, b)
<1>2. x \in CipherBlocks /\ \A i \in 1 .. BlockBytes : x[i] = XorByte(p[i], b[i])
  BY <1>1, XorWithBlock
<1>3. y \in CipherBlocks /\ \A i \in 1 .. BlockBytes : y[i] = XorByte(b[i], p[i])
  BY <1>1, XorWithBlock
<1>4. x \in Seq(Byte) /\ Len(x) = BlockBytes /\ Len(x) <= BlockBytes
  <2> HIDE DEF x
  <2> QED BY <1>1, <1>2, BlockAsSequence
<1>5. z \in CipherBlocks /\ \A i \in 1 .. BlockBytes : z[i] = XorByte(x[i], b[i])
  <2> HIDE DEF x
  <2> QED BY <1>4, XorWithBlock
<1> HIDE DEF x, y, z
<1>6. \A i \in 1 .. BlockBytes : z[i] = p[i]
  BY <1>1, <1>2, <1>5, XorTwice
<1>7. \A i \in 1 .. BlockBytes : y[i] = x[i]
  BY <1>1, <1>2, <1>3, XorOrder
<1>8. ASSUME NEW s \in CipherBlocks, NEW t \in CipherBlocks, \A i \in 1 .. BlockBytes : s[i] = t[i]
      PROVE  s = t
  <2> DEFINE w == BlockBytes
  <2>1. s \in [1 .. w -> Byte] /\ t \in [1 .. w -> Byte] /\ \A i \in 1 .. w : s[i] = t[i]
    BY <1>8 DEF CipherBlocks
  <2> HIDE DEF w
  <2>2. s = [i \in 1 .. w |-> s[i]] /\ t = [i \in 1 .. w |-> t[i]]
    BY ONLY <2>1
  <2>3. [i \in 1 .. w |-> s[i]] = [i \in 1 .. w |-> t[i]]
    BY ONLY <2>1
  <2> QED BY ONLY <2>2, <2>3
<1>9. z = p /\ y = x
  BY <1>2, <1>3, <1>5, <1>6, <1>7, <1>8
<1> QED BY <1>2, <1>9 DEF x, y, z

\* A block of the message that is enciphered whole.
EncipheredBlock(kind, k, p, c) ==
  /\ k * BlockBytes + BlockBytes <= Size(kind)
  /\ p \in CipherBlocks /\ Follows(p, PlainText, k * BlockBytes, BlockBytes)
  /\ c \in CipherBlocks /\ Follows(c, Ciphertext(kind), k * BlockBytes, BlockBytes)
  /\ Before(kind, k) \in CipherBlocks
  /\ kind = "ecb" => c = Encipher(p)
  /\ kind = "cbc" => c = Encipher(XorBytes(p, Before(kind, k))) /\ Before(kind, k + 1) = c

LEMMA BlocksEnciphered ==
  ASSUME NEW kind \in {"ecb", "cbc"}, NEW k \in Nat, k * BlockBytes < Size(kind)
  PROVE  EncipheredBlock(kind, k, PlainBlock(k + 1), CipherBlock(kind, k + 1, Before(kind, k)))
<1> DEFINE n == Size(kind)
           b == BlockBytes
           x == k * b
           before == Before(kind, k)
           p == PlainBlock(k + 1)
           c == CipherBlock(kind, k + 1, before)
           t == Len(PlainText)
<1>1. n \in Nat /\ n % BlockBytes = 0 /\ t \in Nat /\ n <= t /\ b \in Nat /\ b > 0 /\ kind \in Kinds
  BY SizeIs, BlockAsSequence DEF Kinds
<1>2. x \in Nat /\ Span(k, n) = b /\ x + b <= n
  <2>1. k * BlockBytes < n
    OBVIOUS
  <2> HIDE DEF n
  <2> QED BY <1>1, <2>1, SpanIs
<1>3. before \in CipherBlocks
  <2>1. k * BlockBytes <= Size(kind)
    <3> HIDE DEF x, n
    <3>1. x <= n
      BY <1>1, <1>2
    <3> QED BY <3>1 DEF x, n
  <2> QED BY <1>1, <2>1, CiphertextIs
<1>4. /\ Before(kind, k + 1) = c
      /\ \A i \in 1 .. b : Ciphertext(kind)[x + i] = Unit(kind, k + 1, before)[i]
  BY <1>1, <1>2, CiphertextIs
<1>5. Unit(kind, k + 1, before) = c /\ c \in CipherBlocks
  <2>1. c \in CipherBlocks
    <3> HIDE DEF before
    <3> QED BY <1>1, <1>2, <1>3, UnitIs
  <2>2. kind # "ofb"
    OBVIOUS
  <2> QED BY <2>1, <2>2 DEF Unit
<1>6. Follows(c, Ciphertext(kind), x, b)
  <2>1. c \in Seq(Byte) /\ Len(c) = b
    <3> HIDE DEF c
    <3> QED BY <1>5, BlockAsSequence
  <2>2. \A i \in 1 .. b : c[i] = Ciphertext(kind)[x + i]
    <3> HIDE DEF c, x, b, before
    <3> QED BY <1>4, <1>5
  <2> QED BY ONLY <2>1, <2>2 DEF Follows
<1>7. Follows(p, PlainText, x, b) /\ p \in CipherBlocks
  <2>1. x < t
    <3> HIDE DEF x, n, t
    <3> QED BY <1>1, <1>2
  <2>2. Follows(p, PlainText, x, Span(k, t))
    BY <2>1, PlainIs
  <2>3. Span(k, t) = b
    <3>1. x + b <= t /\ k * BlockBytes < t
      <4> HIDE DEF n, t
      <4>1. x + b <= t
        <5> HIDE DEF x
        <5> QED BY <1>1, <1>2
      <4> QED BY <2>1, <4>1
    <3> HIDE DEF t
    <3> QED BY <1>1, <3>1, SpanIs
  <2>4. p \in Seq(Byte) /\ Len(p) = b
    BY <2>2, <2>3 DEF Follows
  <2> HIDE DEF p
  <2> QED BY <2>2, <2>3, <2>4, BlockAsSequence
<1>8. kind = "ecb" => c = Encipher(p)
  BY DEF CipherBlock
<1>9. kind = "cbc" => c = Encipher(XorBytes(p, before))
  BY DEF CipherBlock
<1> HIDE DEF p, c
<1>10. EncipheredBlock(kind, k, p, c)
  BY <1>2, <1>3, <1>4, <1>5, <1>6, <1>7, <1>8, <1>9 DEF EncipheredBlock
<1> QED BY <1>10 DEF p, c

BlockModes == {"ecb_encrypt", "ecb_decrypt", "cbc_encrypt", "cbc_decrypt"}
BlockHolds(mode, d, k) ==
  /\ d \in CipherContexts /\ k * BlockBytes <= Size(Kind(mode))
  /\ Follows(d.out, Due(mode), 0, k * BlockBytes)
  /\ Kind(mode) = "cbc" => d.iv = Before("cbc", k)

\* A context with another iv and more output.
Changed(e, d, iv, pos, u) ==
  /\ e \in CipherContexts /\ e.mode = d.mode /\ e.passed = d.passed
  /\ e.iv = iv /\ e.pos = pos /\ e.out = d.out \o u

LEMMA ContextChanges ==
  ASSUME NEW d \in CipherContexts, NEW iv \in CipherBlocks, NEW pos \in Nat, NEW u \in Seq(Byte)
  PROVE  /\ Changed([d EXCEPT !.out = @ \o u], d, d.iv, d.pos, u)
         /\ Changed([d EXCEPT !.iv = iv, !.out = @ \o u], d, iv, d.pos, u)
         /\ Changed([d EXCEPT !.pos = pos, !.out = @ \o u], d, d.iv, pos, u)
         /\ Changed([d EXCEPT !.iv = iv, !.pos = pos, !.out = @ \o u], d, iv, pos, u)
<1> DEFINE o == d.out \o u
<1>1. d.out \in Seq(Byte) /\ d.iv \in CipherBlocks /\ d.pos \in Nat
  BY DEF CipherContexts
<1>2. o \in Seq(Byte)
  BY <1>1, ConcatProperties
<1> HIDE DEF o
<1>3. Changed([d EXCEPT !.out = o], d, d.iv, d.pos, u)
  BY <1>1, <1>2 DEF CipherContexts, Changed, o
<1>4. Changed([d EXCEPT !.iv = iv, !.out = o], d, iv, d.pos, u)
  BY <1>1, <1>2 DEF CipherContexts, Changed, o
<1>5. Changed([d EXCEPT !.pos = pos, !.out = o], d, d.iv, pos, u)
  BY <1>1, <1>2 DEF CipherContexts, Changed, o
<1>6. Changed([d EXCEPT !.iv = iv, !.pos = pos, !.out = o], d, iv, pos, u)
  BY <1>1, <1>2 DEF CipherContexts, Changed, o
<1> QED BY <1>3, <1>4, <1>5, <1>6 DEF o

LEMMA BlockStep ==
  ASSUME NEW mode \in BlockModes, NEW k \in Nat,
         k * BlockBytes + BlockBytes <= Size(Kind(mode)),
         NEW d, BlockHolds(mode, d, k),
         NEW b, Follows(b, Passed(mode), k * BlockBytes, BlockBytes)
  PROVE  BlockHolds(mode, OneBlock(mode, d, b), k + 1) /\ SameCall(OneBlock(mode, d, b), d)
         /\ OneBlock(mode, d, b).pos = d.pos
<1> DEFINE kind == Kind(mode)
           n == Size(kind)
           w == BlockBytes
           x == k * w
           e == OneBlock(mode, d, b)
           before == Before(kind, k)
<1>1. n \in Nat /\ w \in Nat /\ w > 0 /\ x \in Nat /\ (k + 1) * w = x + w
  <2>1. n \in Nat /\ w \in Nat /\ w > 0
    BY SizeIs, BlockAsSequence
  <2>2. x \in Int /\ x >= 0 /\ (k + 1) * w = x + 1 * w /\ 1 * w = w
    BY <2>1, Distribute
  <2> HIDE DEF x, n, w
  <2> QED BY <2>1, <2>2
<1>2. kind \in {"ecb", "cbc"} /\ kind = (IF mode \in {"ecb_encrypt", "ecb_decrypt"} THEN "ecb" ELSE "cbc")
  BY DEF BlockModes, Kind
<1>3. PICK p, c : EncipheredBlock(kind, k, p, c)
  <2>1. k * BlockBytes < Size(kind)
    <3>1. x + w <= n
      OBVIOUS
    <3> HIDE DEF x, n, w
    <3>2. x < n
      BY <1>1, <3>1
    <3> QED BY <3>2 DEF x, n, w
  <2> HIDE DEF kind
  <2> QED BY <1>2, <2>1, BlocksEnciphered
<1>4. /\ p \in CipherBlocks /\ Follows(p, PlainText, x, w)
      /\ c \in CipherBlocks /\ Follows(c, Ciphertext(kind), x, w)
      /\ before \in CipherBlocks
      /\ kind = "ecb" => c = Encipher(p)
      /\ kind = "cbc" => c = Encipher(XorBytes(p, before)) /\ Before(kind, k + 1) = c
  BY <1>3 DEF EncipheredBlock
<1>5. /\ d \in CipherContexts /\ Follows(d.out, Due(mode), 0, x)
      /\ kind = "cbc" => d.iv = before
  BY DEF BlockHolds
<1>6. /\ mode \in {"ecb_encrypt", "cbc_encrypt"} => b = p /\ Due(mode) = Ciphertext(kind)
      /\ mode \in {"ecb_decrypt", "cbc_decrypt"} => b = c /\ Due(mode) = PlainText
  <2>1. mode \in {"ecb_encrypt", "cbc_encrypt"} => Passed(mode) = PlainText /\ Due(mode) = Ciphertext(kind)
    BY DEF Passed, Due, Deciphers
  <2>2. mode \in {"ecb_decrypt", "cbc_decrypt"} => Passed(mode) = Ciphertext(kind) /\ Due(mode) = PlainText
    BY DEF Passed, Due, Deciphers
  <2>3. Follows(b, Passed(mode), x, w)
    OBVIOUS
  <2> HIDE DEF kind, x, w
  <2>4. ASSUME NEW D, Follows(b, D, x, w), NEW v, Follows(v, D, x, w) PROVE b = v
    BY <1>1, <2>4, FollowsOnce
  <2> QED BY <1>4, <2>1, <2>2, <2>3, <2>4
<1>7. /\ p \in Seq(Byte) /\ c \in Seq(Byte)
      /\ XorBytes(p, before) \in CipherBlocks /\ XorBytes(XorBytes(p, before), before) = p
      /\ XorBytes(before, p) = XorBytes(p, before)
  <2>1. p \in Seq(Byte) /\ c \in Seq(Byte)
    BY <1>4, BlockAsSequence
  <2> HIDE DEF before
  <2> QED BY <1>4, <2>1, XorBack
<1>8. Decipher(Encipher(p)) = p /\ Decipher(Encipher(XorBytes(p, before))) = XorBytes(p, before)
  <2> DEFINE y == XorBytes(p, before)
  <2>1. y \in CipherBlocks
    BY <1>7
  <2> HIDE DEF y
  <2>2. Decipher(Encipher(p)) = p
    BY <1>4, CipherAssumption, Zenon
  <2>3. Decipher(Encipher(y)) = y
    BY <2>1, CipherAssumption, Zenon
  <2> QED BY <2>2, <2>3 DEF y
<1> HIDE DEF kind, n, w, x, before
<1>9. \E iv, u : /\ Changed(e, d, iv, d.pos, u) /\ u \in Seq(Byte) /\ Follows(u, Due(mode), x, w)
                 /\ kind = "cbc" => iv = Before(kind, k + 1)
  <2>1. CASE mode = "ecb_encrypt"
    <3>1. e = [d EXCEPT !.out = @ \o c] /\ kind = "ecb"
      BY <1>2, <1>4, <1>6, <2>1 DEF OneBlock, ecb_encrypt
    <3> HIDE DEF e
    <3>2. Changed(e, d, d.iv, d.pos, c)
      <4>1. Changed([d EXCEPT !.out = @ \o c], d, d.iv, d.pos, c)
        BY <1>4, <1>5, <1>7, ContextChanges
      <4> QED BY ONLY <3>1, <4>1
    <3> QED BY <1>4, <1>6, <1>7, <2>1, <3>1, <3>2
  <2>2. CASE mode = "ecb_decrypt"
    <3>1. e = [d EXCEPT !.out = @ \o p] /\ kind = "ecb"
      BY <1>2, <1>4, <1>6, <1>8, <2>2 DEF OneBlock, ecb_decrypt
    <3> HIDE DEF e
    <3>2. Changed(e, d, d.iv, d.pos, p)
      <4>1. Changed([d EXCEPT !.out = @ \o p], d, d.iv, d.pos, p)
        BY <1>4, <1>5, <1>7, ContextChanges
      <4> QED BY ONLY <3>1, <4>1
    <3> QED BY <1>4, <1>6, <1>7, <2>2, <3>1, <3>2
  <2>3. CASE mode = "cbc_encrypt"
    <3>1. e = [d EXCEPT !.iv = c, !.out = @ \o c] /\ kind = "cbc"
      BY <1>2, <1>4, <1>5, <1>6, <1>7, <2>3 DEF OneBlock, cbc_encrypt
    <3> HIDE DEF e
    <3>2. Changed(e, d, c, d.pos, c)
      <4>1. Changed([d EXCEPT !.iv = c, !.out = @ \o c], d, c, d.pos, c)
        BY <1>4, <1>5, <1>7, ContextChanges
      <4> QED BY ONLY <3>1, <4>1
    <3> QED BY <1>4, <1>6, <1>7, <2>3, <3>1, <3>2
  <2>4. CASE mode = "cbc_decrypt"
    <3>1. e = [d EXCEPT !.iv = c, !.out = @ \o p] /\ kind = "cbc"
      BY <1>2, <1>4, <1>5, <1>6, <1>7, <1>8, <2>4 DEF OneBlock, cbc_decrypt
    <3> HIDE DEF e
    <3>2. Changed(e, d, c, d.pos, p)
      <4>1. Changed([d EXCEPT !.iv = c, !.out = @ \o p], d, c, d.pos, p)
        BY <1>4, <1>5, <1>7, ContextChanges
      <4> QED BY ONLY <3>1, <4>1
    <3> QED BY <1>4, <1>6, <1>7, <2>4, <3>1, <3>2
  <2> QED BY <2>1, <2>2, <2>3, <2>4 DEF BlockModes
<1> HIDE DEF e
<1>10. PICK iv, u : /\ Changed(e, d, iv, d.pos, u) /\ u \in Seq(Byte) /\ Follows(u, Due(mode), x, w)
                    /\ kind = "cbc" => iv = Before(kind, k + 1)
  BY <1>9
<1>11. Follows(e.out, Due(mode), 0, x + w)
  <2> DEFINE zero == 0
             o == d.out
  <2>1. zero \in Nat /\ zero + x = x /\ Follows(o, Due(mode), zero, x)
    BY <1>1, <1>5
  <2> HIDE DEF zero, o
  <2>2. Follows(u, Due(mode), zero + x, w)
    BY ONLY <1>10, <2>1
  <2>3. Follows(o \o u, Due(mode), zero, x + w)
    BY ONLY <1>1, <2>1, <2>2, FollowsMore
  <2>4. e.out = o \o u
    BY <1>10 DEF Changed, o
  <2> QED BY ONLY <2>3, <2>4 DEF zero
<1>12. (k + 1) * BlockBytes <= Size(Kind(mode))
  BY <1>1 DEF w, x, n, kind
<1>13. BlockHolds(mode, e, k + 1) /\ SameCall(e, d) /\ e.pos = d.pos
  <2>1. e \in CipherContexts /\ e.mode = d.mode /\ e.passed = d.passed /\ e.iv = iv /\ e.pos = d.pos
    BY <1>10 DEF Changed
  <2>2. Follows(e.out, Due(mode), 0, (k + 1) * BlockBytes)
    BY ONLY <1>1, <1>11 DEF w
  <2>3. Kind(mode) = "cbc" => e.iv = Before("cbc", k + 1)
    BY <1>10, <2>1 DEF kind
  <2> QED BY <1>12, <2>1, <2>2, <2>3 DEF BlockHolds, SameCall
<1> QED BY <1>13 DEF e

\* The loop over whole blocks.
LoopIs(f, mode, c, bytes, n) ==
  f = [j \in 0 .. n |-> IF j = 0 THEN c ELSE OneBlock(mode, f[j - 1], BlockIn(bytes, j))]

LEMMA LoopExists ==
  ASSUME NEW mode, NEW c, NEW bytes, NEW n \in Nat
  PROVE  \E f : LoopIs(f, mode, c, bytes, n)
<1> DEFINE S == {k \in Nat : \E f : LoopIs(f, mode, c, bytes, k)}
<1>1. 0 \in S
  <2> DEFINE g == [j \in 0 .. 0 |-> c]
  <2>1. ASSUME NEW j \in 0 .. 0 PROVE c = IF j = 0 THEN c ELSE OneBlock(mode, g[j - 1], BlockIn(bytes, j))
    OBVIOUS
  <2>2. LoopIs(g, mode, c, bytes, 0)
    BY <2>1 DEF LoopIs
  <2> QED BY <2>2
<1>2. ASSUME NEW k \in Nat, k \in S PROVE k + 1 \in S
  <2>1. PICK f : LoopIs(f, mode, c, bytes, k)
    BY <1>2
  <2> DEFINE value(j) == IF j = 0 THEN c ELSE OneBlock(mode, f[j - 1], BlockIn(bytes, j))
             g == [j \in 0 .. k + 1 |-> value(j)]
  <2>2. f = [j \in 0 .. k |-> value(j)]
    BY ONLY <2>1 DEF LoopIs
  <2>3. ASSUME NEW j \in 0 .. k PROVE g[j] = f[j]
    <3>1. j \in 0 .. k + 1
      OBVIOUS
    <3> HIDE DEF value
    <3>2. f[j] = value(j) /\ g[j] = value(j)
      BY ONLY <2>2, <3>1, j \in 0 .. k DEF g
    <3> QED BY <3>2
  <2>4. ASSUME NEW j \in 0 .. k + 1
        PROVE  value(j) = IF j = 0 THEN c ELSE OneBlock(mode, g[j - 1], BlockIn(bytes, j))
    <3>1. CASE j = 0
      BY ONLY <3>1
    <3>2. CASE j # 0
      <4>1. j - 1 \in 0 .. k
        BY <3>2
      <4>2. g[j - 1] = f[j - 1]
        <5> HIDE DEF g
        <5> QED BY <2>3, <4>1
      <4> HIDE DEF g
      <4> QED BY ONLY <4>2 DEF value
    <3> QED BY ONLY <3>1, <3>2
  <2>5. g = [j \in 0 .. k + 1 |-> IF j = 0 THEN c ELSE OneBlock(mode, g[j - 1], BlockIn(bytes, j))]
    <3> DEFINE other(j) == IF j = 0 THEN c ELSE OneBlock(mode, g[j - 1], BlockIn(bytes, j))
    <3>1. ASSUME NEW j \in 0 .. k + 1 PROVE value(j) = other(j)
      BY <2>4
    <3>2. g = [j \in 0 .. k + 1 |-> value(j)]
      OBVIOUS
    <3> HIDE DEF value, other, g
    <3>3. [j \in 0 .. k + 1 |-> value(j)] = [j \in 0 .. k + 1 |-> other(j)]
      BY <3>1
    <3> QED BY ONLY <3>2, <3>3 DEF other
  <2> HIDE DEF g
  <2>6. LoopIs(g, mode, c, bytes, k + 1)
    BY ONLY <2>5 DEF LoopIs
  <2> QED BY <2>6
<1> HIDE DEF S
<1>3. \A k \in Nat : k \in S
  BY <1>1, <1>2, SetInduction
<1> QED BY <1>3 DEF S

LoopSteps(f, mode, c, bytes, n) ==
  /\ f[0] = c
  /\ \A j \in Nat : j < n => f[j + 1] = OneBlock(mode, f[j], BlockIn(bytes, j + 1))

LEMMA WholeBlocksStep ==
  ASSUME NEW mode, NEW c, NEW bytes, NEW n \in Nat, n = Len(bytes) \div BlockBytes
  PROVE  \E f : LoopSteps(f, mode, c, bytes, n) /\ WholeBlocks(mode, c, bytes) = f[n]
<1> DEFINE f == CHOOSE f : LoopIs(f, mode, c, bytes, n)
<1>1. LoopIs(f, mode, c, bytes, n)
  BY LoopExists
<1>2. WholeBlocks(mode, c, bytes) = f[n]
  BY DEF WholeBlocks, LoopIs
<1> HIDE DEF f
<1>3. f = [j \in 0 .. n |-> IF j = 0 THEN c ELSE OneBlock(mode, f[j - 1], BlockIn(bytes, j))]
  BY ONLY <1>1 DEF LoopIs
<1>4. f[0] = c
  <2>1. 0 \in 0 .. n
    BY ONLY n \in Nat
  <2> QED BY ONLY <1>3, <2>1
<1>5. ASSUME NEW j \in Nat, j < n PROVE f[j + 1] = OneBlock(mode, f[j], BlockIn(bytes, j + 1))
  <2>1. j + 1 \in 0 .. n /\ j + 1 # 0 /\ (j + 1) - 1 = j
    BY ONLY n \in Nat, j \in Nat, j < n
  <2>2. f[j + 1] = OneBlock(mode, f[(j + 1) - 1], BlockIn(bytes, j + 1))
    BY ONLY <1>3, <2>1
  <2> QED BY ONLY <2>1, <2>2
<1>6. LoopSteps(f, mode, c, bytes, n)
  BY ONLY <1>4, <1>5 DEF LoopSteps
<1> QED BY ONLY <1>2, <1>6

LEMMA BlockInIs ==
  ASSUME NEW bytes, NEW D, NEW at \in Nat, NEW len \in Nat, Follows(bytes, D, at, len),
         NEW j \in Nat, j < len \div BlockBytes
  PROVE  /\ j * BlockBytes \in Nat /\ j * BlockBytes + BlockBytes <= len
         /\ Follows(BlockIn(bytes, j + 1), D, at + j * BlockBytes, BlockBytes)
<1> DEFINE w == BlockBytes
           x == j * w
<1>1. w \in Nat /\ w > 0
  BY BlockAsSequence
<1>2. x \in Nat /\ (j + 1) * w = x + w
  <2>1. x \in Int /\ x >= 0 /\ (j + 1) * w = x + 1 * w /\ 1 * w = w
    BY <1>1, Distribute
  <2> HIDE DEF x, w
  <2> QED BY <1>1, <2>1
<1>3. x + w <= len
  <2> DEFINE u == j + 1
  <2>1. u \in Nat /\ u <= len \div w
    <3>1. len \div w \in Nat
      BY <1>1, QuotientOf
    <3> HIDE DEF w
    <3> QED BY <3>1 DEF w
  <2> HIDE DEF u, w
  <2>2. u * w <= len
    BY <1>1, <2>1, QuotientBound
  <2> QED BY <1>2, <2>2 DEF u
<1>4. BlockIn(bytes, j + 1) = SubSeq(bytes, x + 1, x + w)
  <2>1. BlockIn(bytes, j + 1) = SubSeq(bytes, ((j + 1) - 1) * w + 1, (j + 1) * w)
    BY DEF BlockIn
  <2>2. (j + 1) - 1 = j
    OBVIOUS
  <2> QED BY ONLY <1>2, <2>1, <2>2 DEF x
<1> HIDE DEF x, w
<1>5. Follows(SubSeq(bytes, x + 1, x + w), D, at + x, w)
  BY <1>1, <1>2, <1>3, FollowsPart
<1> QED BY <1>2, <1>3, <1>4, <1>5 DEF x, w

LEMMA BlocksHold ==
  ASSUME NEW mode \in BlockModes, NEW k \in Nat, NEW c, BlockHolds(mode, c, k), NEW n \in Nat,
         NEW bytes, Follows(bytes, Passed(mode), k * BlockBytes, n * BlockBytes),
         (k + n) * BlockBytes <= Size(Kind(mode))
  PROVE  /\ BlockHolds(mode, WholeBlocks(mode, c, bytes), k + n)
         /\ SameCall(WholeBlocks(mode, c, bytes), c) /\ WholeBlocks(mode, c, bytes).pos = c.pos
<1> DEFINE w == BlockBytes
           at == k * w
           len == n * w
           size == Size(Kind(mode))
<1>1. w \in Nat /\ w > 0 /\ at \in Nat /\ len \in Nat /\ (k + n) * w = at + len /\ size \in Nat
  <2>1. w \in Nat /\ w > 0 /\ size \in Nat
    BY BlockAsSequence, SizeIs
  <2>2. at \in Int /\ at >= 0 /\ len \in Int /\ len >= 0 /\ (k + n) * w = at + len
    BY <2>1, Distribute
  <2> HIDE DEF at, len, w, size
  <2> QED BY <2>1, <2>2
<1>2. len \div w = n
  <2> DEFINE z == 0
  <2>1. z \in 0 .. w - 1 /\ n \in Int /\ n * w + z = n * w
    BY <1>1
  <2> HIDE DEF w, z
  <2>2. (n * w + z) \div w = n
    BY ONLY <1>1, <2>1, QuotientIs
  <2> QED BY ONLY <2>1, <2>2 DEF len
<1>3. Follows(bytes, Passed(mode), at, len) /\ Len(bytes) = len
  BY DEF Follows
<1>4. PICK f : LoopSteps(f, mode, c, bytes, n) /\ WholeBlocks(mode, c, bytes) = f[n]
  <2>1. n = Len(bytes) \div BlockBytes
    BY ONLY <1>2, <1>3 DEF w
  <2> QED BY ONLY <2>1, n \in Nat, WholeBlocksStep
<1>5. f[0] = c /\ \A j \in Nat : j < n => f[j + 1] = OneBlock(mode, f[j], BlockIn(bytes, j + 1))
  BY ONLY <1>4 DEF LoopSteps
<1> DEFINE Good(j) == BlockHolds(mode, f[j], k + j) /\ SameCall(f[j], c) /\ f[j].pos = c.pos
           S == {j \in Nat : j <= n => Good(j)}
<1>6. 0 \in S
  <2>1. k + 0 = k /\ c \in CipherContexts
    BY DEF BlockHolds
  <2> QED BY <1>5, <2>1 DEF SameCall
<1>7. ASSUME NEW j \in Nat, j \in S PROVE j + 1 \in S
  <2> SUFFICES ASSUME j + 1 <= n PROVE Good(j + 1)
    OBVIOUS
  <2>1. j < n /\ j <= n
    OBVIOUS
  <2> DEFINE d == f[j]
             l == k + j
             b == BlockIn(bytes, j + 1)
             x == j * w
  <2>2. BlockHolds(mode, d, l) /\ SameCall(d, c) /\ d.pos = c.pos
    BY <1>7, <2>1
  <2>3. l \in Nat /\ l + 1 = k + (j + 1)
    OBVIOUS
  <2>4. x \in Nat /\ x + w <= len /\ Follows(b, Passed(mode), at + x, w)
    <3>1. j < len \div BlockBytes
      BY ONLY <1>2, <2>1 DEF w
    <3> DEFINE D == Passed(mode)
    <3>2. Follows(bytes, D, at, len) /\ at \in Nat /\ len \in Nat
      BY <1>1, <1>3
    <3> HIDE DEF at, len, b, D, x, w
    <3>3. /\ j * BlockBytes \in Nat /\ j * BlockBytes + BlockBytes <= len
          /\ Follows(BlockIn(bytes, j + 1), D, at + j * BlockBytes, BlockBytes)
      BY ONLY <3>1, <3>2, j \in Nat, BlockInIs
    <3> QED BY <3>3 DEF b, D, x, w
  <2>5. l * w = at + x /\ l * w + w <= size
    <3>1. l * w = at + x
      BY <1>1, Distribute
    <3> HIDE DEF at, x, len, l, w, size
    <3>2. at + len <= size
      BY <1>1 DEF w, size
    <3> QED BY <1>1, <2>4, <3>1, <3>2
  <2>6. f[j + 1] = OneBlock(mode, d, b)
    BY <1>5, <2>1
  <2> DEFINE e == OneBlock(mode, d, b)
  <2> HIDE DEF d, l, b, x, at, len
  <2>7. BlockHolds(mode, e, l + 1) /\ SameCall(e, d) /\ e.pos = d.pos
    <3>1. l * BlockBytes + BlockBytes <= Size(Kind(mode)) /\ Follows(b, Passed(mode), l * BlockBytes, BlockBytes)
      BY ONLY <2>4, <2>5 DEF w, size
    <3> QED BY <2>2, <2>3, <3>1, BlockStep
  <2> HIDE DEF e
  <2>8. SameCall(e, c) /\ e.pos = c.pos
    BY <2>2, <2>7 DEF SameCall
  <2> QED BY ONLY <2>3, <2>6, <2>7, <2>8 DEF e
<1> HIDE DEF S
<1>8. n \in S
  BY <1>6, <1>7, SetInduction
<1>9. Good(n)
  BY <1>8 DEF S
<1> QED BY <1>4, <1>9

-----------------------------------------------------------------------------
(* The feedback modes.                                                      *)

FeedModes == {"cfb_encrypt", "cfb_decrypt", "ofb_crypt"}

\* What stays in the iv of block k + 1.
KeptByte(kind, k, i) ==
  IF kind = "cfb" THEN Ciphertext(kind)[k * BlockBytes + i] ELSE Encipher(Before(kind, k))[i]

LEMMA FeedBytes ==
  ASSUME NEW kind \in {"cfb", "ofb"}, NEW k \in Nat, k * BlockBytes < Len(PlainText)
  PROVE  /\ Encipher(Before(kind, k)) \in CipherBlocks
         /\ \A i \in 1 .. BlockBytes : k * BlockBytes + i <= Len(PlainText) =>
              /\ PlainText[k * BlockBytes + i] \in Byte
              /\ Ciphertext(kind)[k * BlockBytes + i]
                   = XorByte(PlainText[k * BlockBytes + i], Encipher(Before(kind, k))[i])
         /\ k * BlockBytes + BlockBytes <= Len(PlainText) =>
              /\ Before(kind, k + 1) \in CipherBlocks
              /\ \A i \in 1 .. BlockBytes : Before(kind, k + 1)[i] = KeptByte(kind, k, i)
<1> DEFINE b == BlockBytes
           t == Len(PlainText)
           x == k * b
           m == Span(k, t)
           before == Before(kind, k)
           pad == Encipher(before)
           u == Unit(kind, k + 1, before)
           c == Ciphertext(kind)
<1>1. /\ t \in Nat /\ Size(kind) = t /\ b \in Nat /\ b > 0 /\ kind \in Kinds
      /\ PlainText \in Seq(Byte)
  BY SizeIs, BlockAsSequence, ModesAssumption DEF Kinds
<1>2. x < t
  OBVIOUS
<1>3. x \in Nat /\ m \in 1 .. b /\ x + m = Least((k + 1) * b, t) /\ (k + 1) * b = x + b
  <2>1. k * BlockBytes < t
    OBVIOUS
  <2> HIDE DEF t
  <2> QED BY <1>1, <2>1, SpanIs
<1>4. k * BlockBytes <= Size(kind) /\ k * BlockBytes < Size(kind)
  <2> HIDE DEF x, t
  <2>1. x <= t
    BY <1>1, <1>2, <1>3
  <2> QED BY <1>1, <1>2, <2>1 DEF x
<1>5. /\ before \in CipherBlocks
      /\ Before(kind, k + 1) = CipherBlock(kind, k + 1, before)
      /\ \A i \in 1 .. m : c[x + i] = u[i]
  <2>1. /\ Before(kind, k) \in CipherBlocks
        /\ Before(kind, k + 1) = CipherBlock(kind, k + 1, Before(kind, k))
        /\ \A i \in 1 .. Span(k, Size(kind)) :
             Ciphertext(kind)[k * BlockBytes + i] = Unit(kind, k + 1, Before(kind, k))[i]
    BY <1>1, <1>4, CiphertextIs
  <2> QED BY <1>1, <2>1
<1>6. pad \in CipherBlocks
  <2> HIDE DEF before
  <2> QED BY <1>5, CipherAssumption, Zenon
<1>7. /\ x + b <= t => CipherBlock(kind, k + 1, before) \in CipherBlocks
      /\ \A i \in 1 .. m : u[i] = XorByte(PlainText[x + i], pad[i])
  <2> DEFINE v == Before(kind, k)
  <2>1. v \in CipherBlocks
    BY <1>5
  <2> HIDE DEF v
  <2>2. /\ k * BlockBytes + BlockBytes <= Size(kind) => CipherBlock(kind, k + 1, v) \in CipherBlocks
        /\ kind \in {"cfb", "ofb", "ctr"} =>
             \A i \in 1 .. Span(k, Size(kind)) :
               Unit(kind, k + 1, v)[i] = XorByte(PlainText[k * BlockBytes + i], PadOf(kind, k, v)[i])
    BY <1>1, <1>4, <2>1, UnitIs
  <2>3. PadOf(kind, k, v) = pad
    BY DEF PadOf, v
  <2> QED BY <1>1, <2>2, <2>3 DEF v
<1>8. kind = "cfb" => CipherBlock(kind, k + 1, before) = u
  BY DEF Unit
<1>9. kind = "ofb" => CipherBlock(kind, k + 1, before) = pad
  BY DEF CipherBlock
<1> HIDE DEF b, t, x, m, before, pad, u, c
<1>10. ASSUME NEW i \in 1 .. b, x + i <= t
       PROVE  PlainText[x + i] \in Byte /\ c[x + i] = XorByte(PlainText[x + i], pad[i])
  <2>1. i \in 1 .. m
    <3>1. x + m = x + b \/ x + m = t
      BY <1>3 DEF Least
    <3> QED BY <1>1, <1>3, <1>10, <3>1
  <2>2. PlainText[x + i] \in Byte
    <3>1. x + i \in 1 .. Len(PlainText)
      BY <1>1, <1>3, <1>10 DEF t
    <3> QED BY <1>1, <3>1
  <2> QED BY <1>5, <1>7, <2>1, <2>2
<1>11. ASSUME x + b <= t
       PROVE  /\ Before(kind, k + 1) \in CipherBlocks
              /\ \A i \in 1 .. b : Before(kind, k + 1)[i] = KeptByte(kind, k, i)
  <2>1. m = b
    <3>1. x + m = Least(x + b, t) /\ (x + m = x + b \/ x + m = t)
      BY <1>3 DEF Least
    <3> QED BY <1>1, <1>3, <1>11, <3>1
  <2>2. Before(kind, k + 1) \in CipherBlocks
    BY <1>5, <1>7, <1>11
  <2>3. CASE kind = "cfb"
    <3>1. \A i \in 1 .. b : Before(kind, k + 1)[i] = c[x + i]
      BY <1>5, <1>8, <2>1, <2>3
    <3> QED BY <2>2, <2>3, <3>1 DEF KeptByte, c, x, b
  <2>4. CASE kind = "ofb"
    <3>1. Before(kind, k + 1) = pad
      BY <1>5, <1>9, <2>4
    <3> QED BY <2>2, <2>4, <3>1 DEF KeptByte, pad, before
  <2> QED BY <2>3, <2>4
<1> QED BY <1>6, <1>10, <1>11 DEF b, t, x, m, before, pad, u, c

\* The iv when p bytes of block k + 1 have been used.
Mixed(kind, iv, k, p) ==
  \A i \in 1 .. BlockBytes :
    iv[i] = IF i <= p THEN KeptByte(kind, k, i) ELSE Encipher(Before(kind, k))[i]
FeedPlace(mode, d, k, p) ==
  /\ d \in CipherContexts /\ p \in 0 .. BlockBytes - 1 /\ d.pos = p
  /\ k * BlockBytes + p <= Len(PlainText)
  /\ Follows(d.out, Due(mode), 0, k * BlockBytes + p)
FeedHolds(mode, d, k, p) ==
  /\ FeedPlace(mode, d, k, p)
  /\ p = 0 => d.iv = Before(Kind(mode), k)
  /\ p # 0 => Mixed(Kind(mode), d.iv, k, p)
FeedStarts(mode, d, k, p) == FeedPlace(mode, d, k, p) /\ Mixed(Kind(mode), d.iv, k, p)
FeedEnds(mode, e, k, p) ==
  /\ p < BlockBytes => FeedHolds(mode, e, k, p)
  /\ p = BlockBytes => FeedHolds(mode, e, k + 1, 0)

PadBytes(v, mode, k, p, m) == \A i \in 1 .. m : v[i] = Encipher(Before(Kind(mode), k))[p + i]
FeedXored(mode, k, p, m, bytes, v) ==
  /\ Follows(XorBytes(bytes, v), Due(mode), k * BlockBytes + p, m)
  /\ mode = "cfb_encrypt" => \A i \in 1 .. m : XorBytes(bytes, v)[i] = KeptByte(Kind(mode), k, p + i)
  /\ mode = "cfb_decrypt" => \A i \in 1 .. m : bytes[i] = KeptByte(Kind(mode), k, p + i)
  /\ mode = "ofb_crypt" => \A i \in 1 .. m : v[i] = KeptByte(Kind(mode), k, p + i)

\* What a feedback mode xors.
LEMMA FeedXors ==
  ASSUME NEW mode \in FeedModes, NEW k \in Nat, NEW p \in Nat, NEW m \in Nat, p + m > 0,
         p + m <= BlockBytes, k * BlockBytes + p + m <= Len(PlainText),
         NEW bytes, Follows(bytes, Passed(mode), k * BlockBytes + p, m),
         NEW v, PadBytes(v, mode, k, p, m)
  PROVE  FeedXored(mode, k, p, m, bytes, v)
<1> DEFINE b == BlockBytes
           t == Len(PlainText)
           x == k * b
           kind == Kind(mode)
           c == Ciphertext(kind)
           pad == Encipher(Before(kind, k))
           w == XorBytes(bytes, v)
<1>1. kind \in {"cfb", "ofb"} /\ kind \in Kinds
  BY DEF FeedModes, Kind, Kinds
<1>2. b \in Nat /\ b > 0 /\ t \in Nat /\ x \in Nat
  <2>1. b \in Nat /\ b > 0 /\ t \in Nat
    BY BlockAsSequence, SizeIs
  <2> QED BY <2>1, Distribute
<1>3. x + p + m <= t /\ p + m <= b /\ p + m > 0
  OBVIOUS
<1>4. /\ pad \in CipherBlocks
      /\ \A i \in 1 .. b : x + i <= t =>
           PlainText[x + i] \in Byte /\ c[x + i] = XorByte(PlainText[x + i], pad[i])
  <2>1. k * BlockBytes < Len(PlainText)
    <3> HIDE DEF x, t
    <3>1. x < t
      BY <1>2, <1>3
    <3> QED BY <3>1 DEF x, t
  <2> HIDE DEF kind
  <2> QED BY <1>1, <2>1, FeedBytes
<1>5. /\ mode \in {"cfb_encrypt", "ofb_crypt"} => Passed(mode) = PlainText /\ Due(mode) = c
      /\ mode = "cfb_decrypt" => Passed(mode) = c /\ Due(mode) = PlainText
  BY DEF Passed, Due, Deciphers
<1>6. \A i \in 1 .. b : KeptByte(kind, k, i) = IF kind = "cfb" THEN c[x + i] ELSE pad[i]
  BY DEF KeptByte
<1>7. mode \in {"cfb_encrypt", "cfb_decrypt"} => kind = "cfb"
  BY DEF Kind
<1>8. mode = "ofb_crypt" => kind = "ofb"
  BY DEF Kind
<1>9. Follows(bytes, Passed(mode), x + p, m)
  OBVIOUS
<1>10. \A i \in 1 .. m : v[i] = pad[p + i]
  BY DEF PadBytes
<1> HIDE DEF b, t, x, kind, c, pad
<1>11. ASSUME NEW i \in 1 .. m
       PROVE  /\ p + i \in 1 .. b /\ (x + p) + i = x + (p + i) /\ x + (p + i) <= t
              /\ v[i] \in Byte
  <2>1. p + i \in 1 .. b /\ (x + p) + i = x + (p + i) /\ x + (p + i) <= t
    BY <1>2, <1>3
  <2>2. pad[p + i] \in Byte
    BY <1>4, <2>1, BlockAsSequence DEF b
  <2> QED BY <1>10, <2>1, <2>2
<1>12. bytes \in Seq(Byte) /\ Len(bytes) = m /\ \A i \in 1 .. m : bytes[i] = Passed(mode)[(x + p) + i]
  BY <1>9 DEF Follows
<1>13. w \in Seq(Byte) /\ Len(w) = m /\ \A i \in 1 .. m : w[i] = XorByte(bytes[i], v[i])
  BY <1>11, <1>12, XorBytesIs
<1> HIDE DEF w
<1>14. ASSUME NEW i \in 1 .. m
       PROVE  /\ w[i] = Due(mode)[(x + p) + i]
              /\ mode = "cfb_encrypt" => w[i] = KeptByte(kind, k, p + i)
              /\ mode = "cfb_decrypt" => bytes[i] = KeptByte(kind, k, p + i)
              /\ mode = "ofb_crypt" => v[i] = KeptByte(kind, k, p + i)
  <2> DEFINE j == p + i
             y == PlainText[x + j]
             a == pad[j]
  <2>1. j \in 1 .. b /\ (x + p) + i = x + j /\ v[i] = a /\ a \in Byte
    BY <1>10, <1>11
  <2>2. y \in Byte /\ c[x + j] = XorByte(y, a)
    BY <1>4, <1>11
  <2> HIDE DEF j, y, a
  <2>3. XorByte(XorByte(y, a), a) = y
    BY <2>1, <2>2, XorTwice
  <2>4. bytes[i] = Passed(mode)[x + j] /\ w[i] = XorByte(bytes[i], a)
    BY <1>12, <1>13, <2>1
  <2>5. CASE mode \in {"cfb_encrypt", "ofb_crypt"}
    <3>1. bytes[i] = y /\ w[i] = c[x + j]
      BY <1>5, <2>2, <2>4, <2>5 DEF y
    <3>2. mode = "cfb_encrypt" => KeptByte(kind, k, j) = c[x + j]
      BY <1>6, <1>7, <2>1
    <3>3. mode = "ofb_crypt" => KeptByte(kind, k, j) = a
      BY <1>6, <1>8, <2>1 DEF a
    <3> QED BY <1>5, <2>1, <2>5, <3>1, <3>2, <3>3 DEF j
  <2>6. CASE mode = "cfb_decrypt"
    <3>1. bytes[i] = c[x + j] /\ w[i] = y
      BY <1>5, <2>2, <2>3, <2>4, <2>6
    <3>2. KeptByte(kind, k, j) = c[x + j]
      BY <1>6, <1>7, <2>1, <2>6
    <3> QED BY <1>5, <2>1, <2>6, <3>1, <3>2 DEF j, y
  <2> QED BY <2>5, <2>6 DEF FeedModes
<1>15. Follows(w, Due(mode), x + p, m)
  BY <1>13, <1>14 DEF Follows
<1> QED BY <1>14, <1>15 DEF w, x, b, kind, FeedXored

LEMMA KeptStep ==
  ASSUME NEW mode \in FeedModes, NEW k \in Nat, NEW p \in Nat, NEW m \in Nat, p + m > 0,
         p + m <= BlockBytes, k * BlockBytes + p + m <= Len(PlainText),
         NEW d, FeedStarts(mode, d, k, p),
         NEW bytes, Follows(bytes, Passed(mode), k * BlockBytes + p, m)
  PROVE  FeedEnds(mode, XorKept(mode, d, bytes), k, p + m) /\ SameCall(XorKept(mode, d, bytes), d)
<1> DEFINE b == BlockBytes
           t == Len(PlainText)
           x == k * b
           kind == Kind(mode)
           pad == Encipher(Before(kind, k))
           v == SubSeq(d.iv, d.pos + 1, d.pos + Len(bytes))
           w == XorBytes(bytes, v)
           e == XorKept(mode, d, bytes)
           kept(i) == CASE mode = "cfb_encrypt" -> w[i]
                        [] mode = "cfb_decrypt" -> bytes[i]
                        [] mode = "ofb_crypt"   -> d.iv[d.pos + i]
           iv == [i \in 1 .. b |->
                    IF i \in d.pos + 1 .. d.pos + Len(bytes) THEN kept(i - d.pos) ELSE d.iv[i]]
<1>1. b \in Nat /\ b > 0 /\ t \in Nat /\ x \in Nat
  <2>1. b \in Nat /\ b > 0 /\ t \in Nat
    BY BlockAsSequence, SizeIs
  <2> QED BY <2>1, Distribute
<1>2. x + p + m <= t /\ p + m <= b /\ p + m > 0 /\ p \in Nat /\ m \in Nat
  OBVIOUS
<1>3. bytes \in Seq(Byte) /\ Len(bytes) = m
  BY DEF Follows
<1>4. /\ d \in CipherContexts /\ p \in 0 .. b - 1 /\ d.pos = p
      /\ Follows(d.out, Due(mode), 0, x + p) /\ d.iv \in CipherBlocks
      /\ \A i \in 1 .. b : d.iv[i] = IF i <= p THEN KeptByte(kind, k, i) ELSE pad[i]
  BY DEF FeedStarts, FeedPlace, Mixed, CipherContexts
<1>5. e = [d EXCEPT !.iv = Evaluated(iv), !.pos = (@ + Len(bytes)) % b, !.out = @ \o w]
  BY DEF XorKept
<1>6. d.iv \in Seq(Byte) /\ Len(d.iv) = b /\ \A i \in 1 .. b : d.iv[i] \in Byte
  BY <1>4, BlockAsSequence
<1>7. v \in Seq(Byte) /\ \A i \in 1 .. m : v[i] = d.iv[p + i]
  <2> DEFINE D == d.iv
             zero == 0
  <2>1. Follows(D, D, zero, b) /\ zero \in Nat /\ zero + p = p
    BY <1>4, <1>6, FollowsItself
  <2>2. v = SubSeq(D, p + 1, p + m)
    BY ONLY <1>3, <1>4
  <2> HIDE DEF D, zero, v, b
  <2>3. Follows(SubSeq(D, p + 1, p + m), D, zero + p, m)
    BY ONLY <1>1, <1>2, <2>1, FollowsPart
  <2> QED BY ONLY <2>1, <2>2, <2>3 DEF Follows, D
<1>8. \A i \in 1 .. m : v[i] = pad[p + i]
  <2> SUFFICES ASSUME NEW i \in 1 .. m PROVE v[i] = pad[p + i]
    OBVIOUS
  <2>1. p + i \in 1 .. b /\ ~(p + i <= p)
    BY <1>1, <1>2
  <2> HIDE DEF v, pad, b, kind
  <2> QED BY <1>4, <1>7, <2>1
<1>9. /\ Follows(w, Due(mode), x + p, m)
      /\ mode = "cfb_encrypt" => \A i \in 1 .. m : w[i] = KeptByte(kind, k, p + i)
      /\ mode = "cfb_decrypt" => \A i \in 1 .. m : bytes[i] = KeptByte(kind, k, p + i)
      /\ mode = "ofb_crypt" => \A i \in 1 .. m : v[i] = KeptByte(kind, k, p + i)
  <2>1. PadBytes(v, mode, k, p, m)
    <3> HIDE DEF v
    <3> QED BY <1>8 DEF PadBytes
  <2> HIDE DEF v, w, kind, pad, b, x, t
  <2>2. FeedXored(mode, k, p, m, bytes, v)
    BY <2>1, FeedXors
  <2> QED BY ONLY <2>2 DEF FeedXored, w, kind, x, b
<1>10. w \in Seq(Byte) /\ Len(w) = m
  BY <1>9 DEF Follows
<1> HIDE DEF v, w, pad, b, x, t
<1>11. ASSUME NEW i \in 1 .. m PROVE kept(i) = KeptByte(kind, k, p + i) /\ kept(i) \in Byte
  <2>1. w[i] \in Byte /\ bytes[i] \in Byte
    BY <1>3, <1>10
  <2>2. p + i \in 1 .. b
    BY <1>1, <1>2
  <2>3. d.iv[p + i] \in Byte /\ d.iv[d.pos + i] = d.iv[p + i] /\ v[i] = d.iv[p + i]
    BY <1>4, <1>6, <1>7, <2>2
  <2>4. CASE mode = "cfb_encrypt"
    BY <1>9, <2>1, <2>4
  <2>5. CASE mode = "cfb_decrypt"
    BY <1>9, <2>1, <2>5
  <2>6. CASE mode = "ofb_crypt"
    BY <1>9, <2>3, <2>6
  <2> QED BY <2>4, <2>5, <2>6 DEF FeedModes
<1>12. ASSUME NEW i \in 1 .. b
       PROVE  /\ iv[i] = IF i <= p + m THEN KeptByte(kind, k, i) ELSE pad[i]
              /\ iv[i] \in Byte
  <2>1. iv[i] = IF i \in p + 1 .. p + m THEN kept(i - p) ELSE d.iv[i]
    <3> HIDE DEF kept
    <3>1. iv[i] = IF i \in d.pos + 1 .. d.pos + Len(bytes) THEN kept(i - d.pos) ELSE d.iv[i]
      BY ONLY i \in 1 .. b
    <3>2. d.pos = p /\ Len(bytes) = m
      BY <1>3, <1>4
    <3> HIDE DEF iv
    <3> QED BY ONLY <3>1, <3>2
  <2> HIDE DEF iv, kind
  <2>2. CASE i \in p + 1 .. p + m
    <3> DEFINE j == i - p
    <3>1. j \in 1 .. m /\ p + j = i /\ i <= p + m
      BY <1>1, <1>2, <2>2
    <3>2. iv[i] = kept(j)
      BY ONLY <2>1, <2>2
    <3> HIDE DEF j, kept
    <3> QED BY <1>11, <3>1, <3>2
  <2>3. CASE i \notin p + 1 .. p + m
    <3>1. iv[i] = d.iv[i] /\ d.iv[i] \in Byte
      BY <1>6, <2>1, <2>3
    <3>2. i <= p + m <=> i <= p
      BY <1>1, <1>2, <2>3
    <3> HIDE DEF kept
    <3> QED BY <1>4, <3>1, <3>2
  <2> QED BY <2>2, <2>3
<1>13. Evaluated(iv) = iv /\ iv \in CipherBlocks
  <2>1. iv = [i \in 1 .. b |-> iv[i]]
    <3> DEFINE value(i) == IF i \in d.pos + 1 .. d.pos + Len(bytes) THEN kept(i - d.pos) ELSE d.iv[i]
    <3>1. iv = [i \in 1 .. b |-> value(i)]
      BY ONLY TRUE
    <3> HIDE DEF value
    <3> QED BY ONLY <3>1
  <2> HIDE DEF iv, kept
  <2>2. iv \in [1 .. b -> Byte]
    BY <1>12, <2>1
  <2>3. iv \in CipherBlocks
    BY <2>2 DEF CipherBlocks, b
  <2>4. iv \in Seq(Byte)
    BY <2>3, BlockAsSequence
  <2> QED BY <2>3, <2>4, EvaluatedIs
<1> DEFINE pos == (p + m) % b
<1>14. pos = (IF p + m < b THEN p + m ELSE 0) /\ pos \in Nat
  <2>1. CASE p + m < b
    <3> DEFINE z == p + m
               q == 0
    <3>1. z \in 0 .. b - 1 /\ q \in Int /\ q * b + z = z
      BY <1>1, <1>2, <2>1
    <3> HIDE DEF z, q
    <3>2. (q * b + z) % b = z
      BY ONLY <1>1, <3>1, QuotientIs
    <3>3. z % b = z
      BY ONLY <3>1, <3>2
    <3> QED BY <1>2, <2>1, <3>3 DEF z
  <2>2. CASE ~(p + m < b)
    <3>1. p + m = b
      BY <1>1, <1>2, <2>2
    <3>2. b % b = 0
      BY <1>1
    <3> QED BY <2>2, <3>1, <3>2
  <2> QED BY <2>1, <2>2
<1> HIDE DEF iv, kept, pos
<1>15. Changed(e, d, iv, pos, w)
  <2>1. e = [d EXCEPT !.iv = iv, !.pos = pos, !.out = @ \o w]
    <3>1. (d.pos + Len(bytes)) % b = pos
      BY ONLY <1>3, <1>4 DEF pos
    <3> HIDE DEF e
    <3>2. e = [d EXCEPT !.iv = Evaluated(iv), !.pos = (d.pos + Len(bytes)) % b, !.out = @ \o w]
      BY ONLY <1>5
    <3> QED BY ONLY <1>13, <3>1, <3>2
  <2>2. Changed([d EXCEPT !.iv = iv, !.pos = pos, !.out = @ \o w], d, iv, pos, w)
    BY <1>4, <1>10, <1>13, <1>14, ContextChanges
  <2> HIDE DEF e
  <2> QED BY ONLY <2>1, <2>2
<1> HIDE DEF e
<1>16. Follows(e.out, Due(mode), 0, x + p + m)
  <2> DEFINE zero == 0
             o == d.out
             n == x + p
  <2>1. zero \in Nat /\ zero + n = n /\ Follows(o, Due(mode), zero, n) /\ n \in Nat
    BY <1>1, <1>2, <1>4
  <2>2. e.out = o \o w
    BY <1>15 DEF Changed
  <2> HIDE DEF zero, o, n
  <2>3. Follows(w, Due(mode), zero + n, m)
    BY ONLY <1>9, <2>1 DEF n
  <2>4. Follows(o \o w, Due(mode), zero, n + m)
    BY ONLY <1>2, <2>1, <2>3, FollowsMore
  <2> QED BY ONLY <2>2, <2>4 DEF zero, n
<1>17. e \in CipherContexts /\ e.iv = iv /\ e.pos = pos /\ SameCall(e, d)
  BY <1>15 DEF Changed, SameCall
<1>18. CASE p + m < b
  <2>1. FeedPlace(mode, e, k, p + m)
    <3> DEFINE z == p + m
    <3>1. z \in 0 .. b - 1 /\ x + z <= t /\ x + p + m = x + z
      BY <1>1, <1>2, <1>18
    <3>2. e.pos = z
      BY <1>14, <1>17, <1>18
    <3> HIDE DEF z
    <3>3. FeedPlace(mode, e, k, z)
      BY ONLY <1>16, <1>17, <3>1, <3>2 DEF FeedPlace, x, b, t
    <3> QED BY <3>3 DEF z
  <2>2. Mixed(kind, e.iv, k, p + m)
    BY <1>12, <1>17 DEF Mixed, b, pad
  <2>3. FeedHolds(mode, e, k, p + m)
    BY <1>2, <2>1, <2>2 DEF FeedHolds
  <2>4. p + m # b
    BY <1>1, <1>2, <1>18
  <2>5. FeedEnds(mode, e, k, p + m)
    BY ONLY <2>3, <2>4 DEF FeedEnds, b
  <2> QED BY <1>17, <2>5 DEF e
<1>19. CASE ~(p + m < b)
  <2>1. p + m = b /\ e.pos = 0 /\ x + p + m = x + b /\ x + b <= t
    BY <1>1, <1>2, <1>14, <1>17, <1>19
  <2>2. k * BlockBytes < t /\ (k + 1) * b = x + b /\ k + 1 \in Nat
    <3>1. x < t
      BY <1>1, <2>1
    <3>2. (k + 1) * b = k * b + 1 * b /\ 1 * b = b
      BY <1>1, Distribute
    <3> QED BY ONLY <3>1, <3>2, k \in Nat DEF x, b
  <2>3. /\ Before(kind, k + 1) \in CipherBlocks
        /\ \A i \in 1 .. b : Before(kind, k + 1)[i] = KeptByte(kind, k, i)
    <3>1. kind \in {"cfb", "ofb"}
      BY DEF FeedModes, Kind
    <3>2. k * BlockBytes < Len(PlainText) /\ k * BlockBytes + BlockBytes <= Len(PlainText)
      BY ONLY <2>1, <2>2 DEF x, b, t
    <3> HIDE DEF kind
    <3> QED BY <3>1, <3>2, FeedBytes DEF b
  <2>4. iv = Before(kind, k + 1)
    <3> DEFINE y == Before(kind, k + 1)
    <3>1. \A i \in 1 .. b : iv[i] = y[i]
      <4>1. \A i \in 1 .. b : i <= p + m
        BY <1>1, <2>1
      <4> QED BY <1>12, <2>3, <4>1
    <3>2. iv \in [1 .. b -> Byte] /\ y \in [1 .. b -> Byte]
      BY <1>13, <2>3 DEF CipherBlocks, b
    <3> HIDE DEF y
    <3>3. iv = [i \in 1 .. b |-> iv[i]] /\ y = [i \in 1 .. b |-> y[i]]
      BY ONLY <3>2
    <3>4. [i \in 1 .. b |-> iv[i]] = [i \in 1 .. b |-> y[i]]
      BY ONLY <3>1
    <3> QED BY ONLY <3>3, <3>4 DEF y
  <2>5. FeedPlace(mode, e, k + 1, 0)
    <3> DEFINE z == 0
               l == k + 1
               n == l * b
    <3>1. z \in 0 .. b - 1 /\ n + z <= t /\ n + z = x + p + m /\ e.pos = z
      BY <1>1, <2>1, <2>2
    <3> HIDE DEF z, l
    <3>2. FeedPlace(mode, e, l, z)
      BY ONLY <1>16, <1>17, <3>1 DEF FeedPlace, b, t
    <3> QED BY ONLY <3>2 DEF z, l
  <2>6. FeedHolds(mode, e, k + 1, 0)
    BY ONLY <1>17, <2>4, <2>5 DEF FeedHolds, kind
  <2>7. ~(p + m < BlockBytes)
    BY ONLY <1>19 DEF b
  <2>8. FeedEnds(mode, e, k, p + m)
    BY ONLY <2>6, <2>7 DEF FeedEnds
  <2> QED BY <1>17, <2>8 DEF e
<1> QED BY <1>18, <1>19

LEMMA FeedBlockStep ==
  ASSUME NEW mode \in FeedModes, NEW k \in Nat, NEW m \in Nat, m > 0, m <= BlockBytes,
         k * BlockBytes + m <= Len(PlainText),
         NEW d, FeedHolds(mode, d, k, 0),
         NEW b, Follows(b, Passed(mode), k * BlockBytes, m)
  PROVE  FeedEnds(mode, FeedbackBlock(mode, d, b), k, m) /\ SameCall(FeedbackBlock(mode, d, b), d)
<1> DEFINE x == k * BlockBytes
           c == [d EXCEPT !.iv = Encipher(@)]
           p == 0
           kind == Kind(mode)
<1>1. x \in Nat /\ x + p = x /\ x + p + m = x + m /\ p + m = m /\ p \in Nat
  <2>1. x \in Nat
    BY BlockAsSequence, Distribute
  <2> HIDE DEF x
  <2> QED BY <2>1
<1>2. /\ d \in CipherContexts /\ d.pos = 0 /\ d.iv = Before(kind, k) /\ d.iv \in CipherBlocks
      /\ x + p <= Len(PlainText) /\ Follows(d.out, Due(mode), 0, x + p) /\ p \in 0 .. BlockBytes - 1
  BY DEF FeedHolds, FeedPlace, CipherContexts
<1>3. Encipher(d.iv) \in CipherBlocks
  BY <1>2, CipherAssumption, Zenon
<1>4. /\ c \in CipherContexts /\ c.iv = Encipher(d.iv) /\ c.pos = d.pos /\ c.out = d.out
      /\ c.mode = d.mode /\ c.passed = d.passed
  <2> DEFINE e == Encipher(d.iv)
  <2>1. c = [d EXCEPT !.iv = e]
    OBVIOUS
  <2>2. e \in CipherBlocks
    BY <1>3
  <2> HIDE DEF e, c
  <2>3. c \in CipherContexts /\ c.iv = e /\ c.pos = d.pos /\ c.out = d.out
        /\ c.mode = d.mode /\ c.passed = d.passed
    BY ONLY <1>2, <2>1, <2>2 DEF CipherContexts
  <2> QED BY <2>3 DEF e
<1>5. FeedStarts(mode, c, k, p)
  <2>1. FeedPlace(mode, c, k, p)
    <3>1. c.pos = p
      BY <1>2, <1>4
    <3> HIDE DEF c, p
    <3> QED BY ONLY <1>2, <1>4, <3>1 DEF FeedPlace, x
  <2>2. Mixed(kind, c.iv, k, p)
    <3>1. \A i \in 1 .. BlockBytes : ~(i <= p)
      OBVIOUS
    <3>2. c.iv = Encipher(Before(kind, k))
      BY ONLY <1>2, <1>4
    <3> HIDE DEF c, p, kind
    <3> QED BY ONLY <3>1, <3>2 DEF Mixed
  <2> QED BY <2>1, <2>2 DEF FeedStarts
<1>6. FeedbackBlock(mode, d, b) = XorKept(mode, c, b)
  BY DEF FeedbackBlock
<1> DEFINE e == XorKept(mode, c, b)
<1>7. Follows(b, Passed(mode), x + p, m) /\ x + p + m <= Len(PlainText) /\ p + m <= BlockBytes /\ p + m > 0
  BY <1>1
<1> HIDE DEF c, x, p, e
<1>8. FeedEnds(mode, e, k, p + m) /\ SameCall(e, c)
  <2>1. Follows(b, Passed(mode), k * BlockBytes + p, m) /\ k * BlockBytes + p + m <= Len(PlainText)
    BY <1>7 DEF x
  <2> QED BY <1>1, <1>5, <1>7, <2>1, KeptStep DEF e
<1>9. SameCall(e, d)
  BY <1>4, <1>8 DEF SameCall
<1> QED BY ONLY <1>1, <1>6, <1>8, <1>9 DEF e

LEMMA FeedBlocksHold ==
  ASSUME NEW mode \in FeedModes, NEW k \in Nat, NEW c, FeedHolds(mode, c, k, 0), NEW len \in Nat,
         NEW bytes, Follows(bytes, Passed(mode), k * BlockBytes, len),
         k * BlockBytes + len <= Len(PlainText), NEW n \in Nat, n = len \div BlockBytes
  PROVE  /\ FeedHolds(mode, WholeBlocks(mode, c, bytes), k + n, 0)
         /\ SameCall(WholeBlocks(mode, c, bytes), c)
<1> DEFINE w == BlockBytes
           at == k * w
           t == Len(PlainText)
           D == Passed(mode)
<1>1. w \in Nat /\ w > 0 /\ at \in Nat /\ t \in Nat /\ at + len <= t
  BY BlockAsSequence, Distribute, SizeIs
<1>2. Follows(bytes, D, at, len) /\ Len(bytes) = len
  BY DEF Follows
<1>3. PICK f : LoopSteps(f, mode, c, bytes, n) /\ WholeBlocks(mode, c, bytes) = f[n]
  <2>1. n = Len(bytes) \div BlockBytes
    BY <1>2
  <2> QED BY ONLY <2>1, n \in Nat, WholeBlocksStep
<1>4. f[0] = c /\ \A j \in Nat : j < n => f[j + 1] = OneBlock(mode, f[j], BlockIn(bytes, j + 1))
  BY ONLY <1>3 DEF LoopSteps
<1> DEFINE Good(j) == FeedHolds(mode, f[j], k + j, 0) /\ SameCall(f[j], c)
           S == {j \in Nat : j <= n => Good(j)}
<1>5. 0 \in S
  <2>1. k + 0 = k /\ c \in CipherContexts
    BY DEF FeedHolds, FeedPlace
  <2> QED BY <1>4, <2>1 DEF SameCall
<1>6. ASSUME NEW j \in Nat, j \in S PROVE j + 1 \in S
  <2> SUFFICES ASSUME j + 1 <= n PROVE Good(j + 1)
    OBVIOUS
  <2>1. j < n /\ j <= n
    OBVIOUS
  <2> DEFINE d == f[j]
             l == k + j
             b == BlockIn(bytes, j + 1)
             x == j * w
  <2>2. FeedHolds(mode, d, l, 0) /\ SameCall(d, c)
    BY <1>6, <2>1
  <2>3. l \in Nat /\ l + 1 = k + (j + 1)
    OBVIOUS
  <2>4. x \in Nat /\ x + w <= len /\ Follows(b, D, at + x, w)
    <3>1. j < len \div BlockBytes
      BY <2>1
    <3> HIDE DEF at, b, D, x, w
    <3>3. /\ j * BlockBytes \in Nat /\ j * BlockBytes + BlockBytes <= len
          /\ Follows(BlockIn(bytes, j + 1), D, at + j * BlockBytes, BlockBytes)
      BY ONLY <1>1, <1>2, <3>1, len \in Nat, j \in Nat, BlockInIs
    <3> QED BY <3>3 DEF b, x, w
  <2>5. l * w = at + x /\ l * w + w <= t
    <3>1. l * w = at + x
      BY <1>1, Distribute
    <3> HIDE DEF at, x, l, w, t
    <3> QED BY <1>1, <2>4, <3>1
  <2>6. f[j + 1] = OneBlock(mode, d, b)
    BY <1>4, <2>1
  <2>7. OneBlock(mode, d, b) = FeedbackBlock(mode, d, b)
    <3> HIDE DEF d, b
    <3> QED BY DEF OneBlock, FeedModes
  <2> DEFINE e == FeedbackBlock(mode, d, b)
  <2> HIDE DEF d, l, b, x, at, D
  <2>8. FeedEnds(mode, e, l, w) /\ SameCall(e, d)
    <3>1. l * BlockBytes + w <= Len(PlainText) /\ Follows(b, Passed(mode), l * BlockBytes, w)
      BY ONLY <2>4, <2>5 DEF D, t, w
    <3>2. w <= BlockBytes
      BY BlockAsSequence
    <3> HIDE DEF w
    <3> QED BY <1>1, <2>2, <2>3, <3>1, <3>2, FeedBlockStep
  <2> HIDE DEF e
  <2>9. FeedHolds(mode, e, l + 1, 0) /\ SameCall(e, c)
    BY <2>2, <2>8 DEF SameCall, FeedEnds
  <2> QED BY ONLY <2>3, <2>6, <2>7, <2>9 DEF e
<1> HIDE DEF S
<1>7. n \in S
  BY <1>5, <1>6, SetInduction
<1>8. Good(n)
  BY <1>7 DEF S
<1> QED BY <1>3, <1>8

\* Whole blocks, and what remains.
TailOf(rest) == SubSeq(rest, Len(rest) - (Len(rest) % BlockBytes) + 1, Len(rest))
FeedRest(mode, c, rest) ==
  LET blocks == WholeBlocks(mode, c, rest)
  IN IF TailOf(rest) = <<>> THEN blocks ELSE FeedbackBlock(mode, blocks, TailOf(rest))

LEMMA FeedRestHolds ==
  ASSUME NEW mode \in FeedModes, NEW k \in Nat, NEW c, FeedHolds(mode, c, k, 0), NEW len \in Nat,
         NEW rest, Follows(rest, Passed(mode), k * BlockBytes, len),
         k * BlockBytes + len <= Len(PlainText)
  PROVE  /\ k + (len \div BlockBytes) \in Nat
         /\ (k + (len \div BlockBytes)) * BlockBytes + (len % BlockBytes) = k * BlockBytes + len
         /\ FeedHolds(mode, FeedRest(mode, c, rest), k + (len \div BlockBytes), len % BlockBytes)
         /\ SameCall(FeedRest(mode, c, rest), c)
<1> DEFINE w == BlockBytes
           at == k * w
           q == len \div w
           r == len % w
           x == q * w
           l == k + q
           D == Passed(mode)
           tail == TailOf(rest)
           blocks == WholeBlocks(mode, c, rest)
           t == Len(PlainText)
<1>1. w \in Nat /\ w > 0 /\ at \in Nat /\ t \in Nat /\ at + len <= t
  BY BlockAsSequence, Distribute, SizeIs
<1>2. q \in Nat /\ r \in 0 .. w - 1 /\ len = x + r
  <2> HIDE DEF w
  <2> QED BY <1>1, QuotientOf
<1> HIDE DEF q, r
<1>3. x \in Nat /\ l \in Nat /\ l * w = at + x
  BY <1>1, <1>2, Distribute
<1>4. Follows(rest, D, at, len) /\ Len(rest) = len
  BY DEF Follows
<1>5. FeedHolds(mode, blocks, l, 0) /\ SameCall(blocks, c)
  BY <1>2, FeedBlocksHold DEF q
<1>6. tail = SubSeq(rest, x + 1, x + r)
  <2>1. tail = SubSeq(rest, Len(rest) - (Len(rest) % w) + 1, Len(rest))
    BY DEF TailOf
  <2>2. len % w = r
    BY DEF r
  <2> HIDE DEF tail, x, w
  <2>3. len - r + 1 = x + 1 /\ len = x + r
    BY <1>1, <1>2, <1>3
  <2> QED BY ONLY <1>4, <2>1, <2>2, <2>3
<1>7. Follows(tail, D, at + x, r)
  <2> HIDE DEF D, at, x, tail, w
  <2>1. Follows(SubSeq(rest, x + 1, x + r), D, at + x, r)
    <3>1. r \in Nat /\ x + r <= len
      BY <1>1, <1>2, <1>3
    <3> QED BY ONLY <1>1, <1>3, <1>4, <3>1, len \in Nat, FollowsPart
  <2> QED BY ONLY <1>6, <2>1
<1>8. tail = <<>> <=> r = 0
  <2>1. tail \in Seq(Byte) /\ Len(tail) = r
    BY <1>7 DEF Follows
  <2> HIDE DEF tail
  <2> QED BY <2>1
<1>9. FeedRest(mode, c, rest) = IF tail = <<>> THEN blocks ELSE FeedbackBlock(mode, blocks, tail)
  BY DEF FeedRest
<1>10. l * w + r = at + len
  <2> HIDE DEF w, at, x, l
  <2> QED BY <1>1, <1>2, <1>3
<1> HIDE DEF tail, blocks, at, x, l, D
<1>11. FeedHolds(mode, FeedRest(mode, c, rest), l, r) /\ SameCall(FeedRest(mode, c, rest), c)
  <2>1. CASE r = 0
    <3>1. FeedRest(mode, c, rest) = blocks
      BY ONLY <1>8, <1>9, <2>1
    <3> QED BY ONLY <1>5, <2>1, <3>1
  <2>2. CASE r # 0
    <3> DEFINE e == FeedbackBlock(mode, blocks, tail)
    <3>1. FeedRest(mode, c, rest) = e
      BY ONLY <1>8, <1>9, <2>2
    <3>2. r \in Nat /\ r > 0 /\ r < w /\ r <= w
      BY <1>1, <1>2, <2>2
    <3>3. l * BlockBytes + r <= Len(PlainText) /\ Follows(tail, Passed(mode), l * BlockBytes, r)
      <4>1. l * w + r <= t
        BY ONLY <1>1, <1>10
      <4>2. Follows(tail, D, l * w, r)
        BY ONLY <1>3, <1>7
      <4> QED BY ONLY <4>1, <4>2 DEF w, t, D
    <3>4. FeedEnds(mode, e, l, r) /\ SameCall(e, blocks)
      BY <1>3, <1>5, <3>2, <3>3, FeedBlockStep
    <3>5. FeedHolds(mode, e, l, r)
      BY ONLY <3>2, <3>4 DEF FeedEnds, w
    <3>6. SameCall(e, c)
      BY ONLY <1>5, <3>4 DEF SameCall
    <3> QED BY ONLY <3>1, <3>5, <3>6
  <2> QED BY <2>1, <2>2
<1> QED BY <1>3, <1>10, <1>11 DEF l, q, r, at

LEMMA FeedRestEmpty ==
  ASSUME NEW mode, NEW c
  PROVE  FeedRest(mode, c, <<>>) = c
<1>1. BlockBytes \in Nat /\ BlockBytes > 0
  BY BlockAsSequence
<1> DEFINE none == <<>>
           n == Len(none) \div BlockBytes
<1>2. n = 0 /\ Len(none) % BlockBytes = 0 /\ n \in Nat
  <2>1. Len(none) = 0
    OBVIOUS
  <2> HIDE DEF none
  <2> QED BY <1>1, <2>1
<1>3. TailOf(none) = <<>>
  <2>1. TailOf(none) = SubSeq(none, 1, 0)
    <3>1. Len(none) = 0 /\ Len(none) - (Len(none) % BlockBytes) + 1 = 1
      BY <1>2
    <3> HIDE DEF none, n
    <3> QED BY <3>1 DEF TailOf
  <2> QED BY <2>1
<1> HIDE DEF none, n
<1>4. PICK f : LoopSteps(f, mode, c, none, n) /\ WholeBlocks(mode, c, none) = f[n]
  <2>1. n = Len(none) \div BlockBytes
    BY DEF n
  <2> QED BY <1>2, <2>1, WholeBlocksStep
<1>5. WholeBlocks(mode, c, none) = c
  BY <1>2, <1>4 DEF LoopSteps
<1> QED BY <1>3, <1>5 DEF FeedRest, none

FeedReaches(mode, e, c, k, p, n) ==
  \E l, q \in Nat : /\ l * BlockBytes + q = n
                    /\ FeedHolds(mode, e, l, q) /\ SameCall(e, c)

LEMMA FeedCalls ==
  ASSUME NEW mode \in FeedModes, NEW k \in Nat, NEW p \in Nat, NEW c, FeedHolds(mode, c, k, p),
         NEW len \in Nat, NEW bytes, Follows(bytes, Passed(mode), k * BlockBytes + p, len),
         k * BlockBytes + p + len <= Len(PlainText)
  PROVE  FeedReaches(mode, Feedback(mode, c, bytes), c, k, p, k * BlockBytes + p + len)
<1> DEFINE w == BlockBytes
           at == k * w
           D == Passed(mode)
           t == Len(PlainText)
           n == Started(c, Len(bytes))
           first == SubSeq(bytes, 1, n)
           partial == IF c.pos = 0 THEN c ELSE XorKept(mode, c, first)
           rest == SubSeq(bytes, n + 1, Len(bytes))
           e == Feedback(mode, c, bytes)
<1>1. w \in Nat /\ w > 0 /\ at \in Nat /\ t \in Nat /\ at + p + len <= t
  BY BlockAsSequence, Distribute, SizeIs
<1>2. Follows(bytes, D, at + p, len) /\ Len(bytes) = len
  BY DEF Follows
<1>3. e = FeedRest(mode, partial, rest)
  BY DEF Feedback, FeedRest, TailOf
<1>4. c.pos = p /\ p \in 0 .. w - 1 /\ c \in CipherContexts
  BY DEF FeedHolds, FeedPlace
<1>5. n = (IF p = 0 THEN 0 ELSE IF w - p < len THEN w - p ELSE len)
  BY <1>2, <1>4 DEF Started, Least
<1>6. n \in Nat /\ n <= len /\ p + n <= w
  <2> HIDE DEF n, w
  <2> QED BY <1>1, <1>4, <1>5
<1>7. Follows(first, D, at + p, n)
  <2> DEFINE z == 0
             s == at + p
  <2>1. z \in Nat /\ z + n <= len /\ s \in Nat /\ s + z = s /\ z + 1 = 1 /\ z + n = n
    BY <1>1, <1>6
  <2> HIDE DEF z, s, n, D, at, w
  <2>2. Follows(SubSeq(bytes, z + 1, z + n), D, s + z, n)
    <3>1. Follows(bytes, D, s, len)
      BY <1>2 DEF s
    <3> QED BY ONLY <1>6, <2>1, <3>1, len \in Nat, FollowsPart
  <2> QED BY ONLY <2>1, <2>2 DEF s
<1> DEFINE m == len - n
<1>8. m \in Nat /\ n + m = len /\ Follows(rest, D, at + p + n, m)
  <2>1. m \in Nat /\ n + m = len
    <3> HIDE DEF n
    <3> QED BY <1>6
  <2> DEFINE s == at + p
  <2>2. s \in Nat
    BY <1>1
  <2> HIDE DEF s, n, m, D, at, w
  <2>3. Follows(SubSeq(bytes, n + 1, n + m), D, s + n, m)
    <3>1. Follows(bytes, D, s, len) /\ n + m <= len
      BY <1>2, <2>1 DEF s
    <3> QED BY ONLY <1>6, <2>1, <2>2, <3>1, len \in Nat, FollowsPart
  <2>4. rest = SubSeq(bytes, n + 1, n + m)
    BY ONLY <1>2, <2>1
  <2> QED BY ONLY <2>1, <2>3, <2>4 DEF s
<1> HIDE DEF e, rest, first, n, m, D
<1>9. CASE p = 0
  <2>1. partial = c /\ n = 0 /\ m = len /\ at + p + n = at /\ at + p + len = at + len
    BY <1>1, <1>4, <1>5, <1>8, <1>9
  <2>2. FeedHolds(mode, c, k, 0) /\ Follows(rest, Passed(mode), k * BlockBytes, len)
        /\ k * BlockBytes + len <= Len(PlainText)
    BY <1>1, <1>8, <1>9, <2>1 DEF D
  <2> DEFINE l == k + (len \div BlockBytes)
             q == len % BlockBytes
             r == FeedRest(mode, c, rest)
  <2>3. l \in Nat /\ l * BlockBytes + q = k * BlockBytes + len /\ FeedHolds(mode, r, l, q) /\ SameCall(r, c)
    BY <2>2, FeedRestHolds
  <2>4. q \in Nat
    BY <1>1, QuotientOf
  <2> HIDE DEF l, q, r, partial
  <2>5. e = r
    BY ONLY <1>3, <2>1 DEF r
  <2>6. l * BlockBytes + q = k * BlockBytes + p + len
    BY ONLY <2>1, <2>3 DEF at, w
  <2> QED BY ONLY <2>3, <2>4, <2>5, <2>6 DEF FeedReaches, e
<1>10. CASE p # 0
  <2> DEFINE d == XorKept(mode, c, first)
  <2>1. partial = d
    BY <1>4, <1>10
  <2> HIDE DEF partial
  <2>2. FeedStarts(mode, c, k, p)
    BY <1>10 DEF FeedHolds, FeedStarts
  <2>3. FeedEnds(mode, d, k, p + n) /\ SameCall(d, c)
    <3>1. p + n > 0 /\ k * BlockBytes + p + n <= Len(PlainText) /\ p + n <= BlockBytes
      <4>1. at + p + n <= t /\ p + n > 0
        <5> HIDE DEF at, t, w
        <5> QED BY <1>1, <1>6, <1>10
      <4> QED BY <1>6, <4>1
    <3>2. Follows(first, Passed(mode), k * BlockBytes + p, n)
      BY ONLY <1>7 DEF D
    <3> HIDE DEF w, at, t
    <3> QED BY <1>6, <2>2, <3>1, <3>2, KeptStep
  <2> HIDE DEF d
  <2>4. CASE p + n < w
    <3>1. n = len /\ m = 0
      BY <1>1, <1>4, <1>5, <1>8, <1>10, <2>4
    <3>2. rest = <<>>
      <4>1. rest \in Seq(Byte) /\ Len(rest) = 0
        BY ONLY <1>8, <3>1 DEF Follows
      <4> QED BY <4>1
    <3>3. e = d
      BY ONLY <1>3, <2>1, <3>2, FeedRestEmpty
    <3> DEFINE q == p + len
    <3>4. FeedHolds(mode, d, k, q) /\ q \in Nat /\ k * BlockBytes + q = k * BlockBytes + p + len
      <4>1. FeedHolds(mode, d, k, p + n)
        BY ONLY <2>3, <2>4 DEF FeedEnds, w
      <4>2. p + n = q
        BY ONLY <3>1
      <4>3. at + q = at + p + len
        BY <1>1
      <4> QED BY <4>1, <4>2, <4>3
    <3> HIDE DEF q
    <3> QED BY ONLY <2>3, <3>3, <3>4, k \in Nat DEF FeedReaches, e
  <2>5. CASE ~(p + n < w)
    <3> DEFINE j == k + 1
    <3>1. p + n = w /\ j \in Nat
      BY <1>1, <1>6, <2>5
    <3>2. FeedHolds(mode, d, j, 0)
      BY ONLY <2>3, <3>1 DEF FeedEnds, w
    <3>3. j * w = at + w
      BY <1>1, Distribute
    <3>4. at + p + n = j * w /\ j * w + m = at + p + len /\ j * w + m <= t
      BY <1>1, <1>6, <1>8, <3>1, <3>3
    <3>5. Follows(rest, Passed(mode), j * BlockBytes, m) /\ j * BlockBytes + m <= Len(PlainText)
      BY ONLY <1>8, <3>4 DEF D, w, t
    <3> DEFINE l == j + (m \div BlockBytes)
               q == m % BlockBytes
               r == FeedRest(mode, d, rest)
    <3>6. l \in Nat /\ l * BlockBytes + q = j * BlockBytes + m /\ FeedHolds(mode, r, l, q) /\ SameCall(r, d)
      <4> HIDE DEF j
      <4> QED BY <1>8, <3>1, <3>2, <3>5, FeedRestHolds
    <3>7. q \in Nat
      BY <1>1, <1>8, QuotientOf
    <3> HIDE DEF l, q, r, j
    <3>8. e = r
      BY ONLY <1>3, <2>1 DEF r
    <3>9. l * BlockBytes + q = k * BlockBytes + p + len
      BY ONLY <3>4, <3>6 DEF at, w
    <3>10. SameCall(r, c)
      BY ONLY <2>3, <3>6 DEF SameCall
    <3> QED BY ONLY <3>6, <3>7, <3>8, <3>9, <3>10 DEF FeedReaches, e
  <2> QED BY <2>4, <2>5
<1> QED BY <1>9, <1>10

-----------------------------------------------------------------------------
(* The counter mode.                                                        *)

CtrText == Ciphertext("ctr")
CtrHolds(d, k, p) ==
  /\ d \in CipherContexts /\ p \in 0 .. BlockBytes /\ d.pos = p /\ d.iv = CounterBlock(k)
  /\ k * BlockBytes + p <= Len(PlainText)
  /\ Follows(d.out, CtrText, 0, k * BlockBytes + p)

LEMMA CtrBytes ==
  ASSUME NEW k \in Nat, NEW i \in 1 .. BlockBytes, k * BlockBytes + i <= Len(PlainText)
  PROVE  /\ PlainText[k * BlockBytes + i] \in Byte
         /\ Encipher(CounterBlock(k))[i] \in Byte
         /\ CtrText[k * BlockBytes + i]
              = XorByte(PlainText[k * BlockBytes + i], Encipher(CounterBlock(k))[i])
<1> DEFINE b == BlockBytes
           t == Len(PlainText)
           x == k * b
           m == Span(k, t)
           kind == "ctr"
           before == Before(kind, k)
           pad == Encipher(CounterBlock(k))
           u == Unit(kind, k + 1, before)
<1>1. /\ t \in Nat /\ Size(kind) = t /\ b \in Nat /\ b > 0 /\ kind \in Kinds /\ x \in Nat
      /\ PlainText \in Seq(Byte) /\ i \in 1 .. b /\ x + i <= t
  <2>1. t \in Nat /\ Size(kind) = t /\ b \in Nat /\ b > 0 /\ kind \in Kinds /\ PlainText \in Seq(Byte)
    BY SizeIs, BlockAsSequence, ModesAssumption DEF Kinds
  <2> QED BY <2>1, Distribute
<1>2. k * BlockBytes < t /\ k * BlockBytes <= t
  <2> HIDE DEF x, t
  <2>1. x < t /\ x <= t
    BY <1>1
  <2> QED BY <2>1 DEF x
<1>3. m \in 1 .. b /\ (x + m = x + b \/ x + m = t)
  <2>1. m \in 1 .. b /\ x + m = Least((k + 1) * b, t) /\ (k + 1) * b = x + b
    <3> HIDE DEF t
    <3> QED BY <1>1, <1>2, SpanIs
  <2> HIDE DEF m, t, x
  <2> QED BY <2>1 DEF Least
<1>4. before \in CipherBlocks /\ \A y \in 1 .. m : CtrText[x + y] = u[y]
  <2>1. /\ k * BlockBytes <= Size(kind) => Before(kind, k) \in CipherBlocks
        /\ k * BlockBytes < Size(kind) =>
             \A y \in 1 .. Span(k, Size(kind)) :
               Ciphertext(kind)[k * BlockBytes + y] = Unit(kind, k + 1, Before(kind, k))[y]
    <3> HIDE DEF kind
    <3> QED BY <1>1, CiphertextIs
  <2> QED BY <1>1, <1>2, <2>1 DEF CtrText
<1>5. \A y \in 1 .. m : u[y] = XorByte(PlainText[x + y], pad[y])
  <2> DEFINE v == Before(kind, k)
  <2>1. v \in CipherBlocks /\ k * BlockBytes < Size(kind)
    BY <1>1, <1>2, <1>4
  <2> HIDE DEF v, kind
  <2>2. kind \in {"cfb", "ofb", "ctr"} =>
          \A y \in 1 .. Span(k, Size(kind)) :
            Unit(kind, k + 1, v)[y] = XorByte(PlainText[k * BlockBytes + y], PadOf(kind, k, v)[y])
    BY <1>1, <2>1, UnitIs
  <2>3. PadOf(kind, k, v) = pad /\ kind \in {"cfb", "ofb", "ctr"}
    BY DEF PadOf, kind
  <2> QED BY <1>1, <2>2, <2>3 DEF v
<1>6. pad[i] \in Byte
  <2> DEFINE c == CounterBlock(k)
  <2>1. c \in CipherBlocks
    BY CounterIs
  <2> HIDE DEF c
  <2>2. Encipher(c) \in CipherBlocks
    BY <2>1, CipherAssumption, Zenon
  <2> QED BY <2>2, BlockAsSequence DEF c
<1> HIDE DEF b, t, x, m, before, pad, u, kind
<1>7. i \in 1 .. m
  BY <1>1, <1>3
<1>8. PlainText[x + i] \in Byte
  <2>1. x + i \in 1 .. Len(PlainText)
    BY <1>1 DEF t
  <2> QED BY <1>1, <2>1
<1> QED BY <1>4, <1>5, <1>6, <1>7, <1>8 DEF x, b, pad

\* What the counter mode xors, of the blocks behind the one where it began.
CtrPadBytes(v, k, p, m) ==
  \A i \in 1 .. m :
    \E a \in Nat, j \in 1 .. BlockBytes :
      k * BlockBytes + p + i = a * BlockBytes + j /\ v[i] = Encipher(CounterBlock(a))[j]

LEMMA CtrXors ==
  ASSUME NEW k \in Nat, NEW p \in Nat, NEW m \in Nat, k * BlockBytes + p + m <= Len(PlainText),
         NEW bytes, Follows(bytes, PlainText, k * BlockBytes + p, m),
         NEW v, CtrPadBytes(v, k, p, m)
  PROVE  Follows(XorBytes(bytes, v), CtrText, k * BlockBytes + p, m)
<1> DEFINE b == BlockBytes
           n == k * b + p
           t == Len(PlainText)
           w == XorBytes(bytes, v)
<1>1. n \in Nat /\ b \in Nat /\ t \in Nat /\ n + m <= t
  BY BlockAsSequence, Distribute, SizeIs
<1>2. bytes \in Seq(Byte) /\ Len(bytes) = m /\ \A i \in 1 .. m : bytes[i] = PlainText[n + i]
  BY DEF Follows
<1> HIDE DEF n, t
<1>3. ASSUME NEW i \in 1 .. m
      PROVE  v[i] \in Byte /\ CtrText[n + i] = XorByte(PlainText[n + i], v[i])
  <2>1. PICK a \in Nat, j \in 1 .. b : n + i = a * b + j /\ v[i] = Encipher(CounterBlock(a))[j]
    BY DEF CtrPadBytes, n
  <2>2. a * BlockBytes + j <= Len(PlainText)
    <3>1. n + i <= t
      BY <1>1
    <3> QED BY ONLY <2>1, <3>1 DEF t
  <2> DEFINE z == a * BlockBytes + j
             y == Encipher(CounterBlock(a))[j]
  <2>3. y \in Byte /\ CtrText[z] = XorByte(PlainText[z], y)
    BY <2>1, <2>2, CtrBytes
  <2>4. n + i = z /\ v[i] = y
    BY <2>1
  <2> HIDE DEF z, y
  <2> QED BY ONLY <2>3, <2>4
<1>4. w \in Seq(Byte) /\ Len(w) = m /\ \A i \in 1 .. m : w[i] = XorByte(bytes[i], v[i])
  BY <1>2, <1>3, XorBytesIs
<1> HIDE DEF w
<1>5. \A i \in 1 .. m : w[i] = CtrText[n + i]
  BY <1>2, <1>3, <1>4
<1> QED BY <1>4, <1>5 DEF Follows, w, n, b

LEMMA CtrGrows ==
  ASSUME NEW d, NEW k \in Nat, NEW p \in Nat, CtrHolds(d, k, p), NEW m \in Nat,
         NEW e, NEW l \in Nat, NEW q \in 0 .. BlockBytes, NEW u,
         Changed(e, d, CounterBlock(l), q, u),
         l * BlockBytes + q = k * BlockBytes + p + m, k * BlockBytes + p + m <= Len(PlainText),
         Follows(u, CtrText, k * BlockBytes + p, m)
  PROVE  CtrHolds(e, l, q) /\ SameCall(e, d)
<1> DEFINE n == k * BlockBytes + p
           o == d.out
           zero == 0
<1>1. n \in Nat /\ zero \in Nat /\ zero + n = n
  BY BlockAsSequence, Distribute
<1>2. Follows(o, CtrText, zero, n)
  BY DEF CtrHolds
<1>3. Follows(u, CtrText, zero + n, m)
  BY <1>1
<1>4. e.out = o \o u /\ e \in CipherContexts /\ e.iv = CounterBlock(l) /\ e.pos = q /\ SameCall(e, d)
  BY DEF Changed, SameCall
<1>5. l * BlockBytes + q = n + m /\ l * BlockBytes + q <= Len(PlainText)
  OBVIOUS
<1> HIDE DEF n, o, zero
<1>6. Follows(o \o u, CtrText, zero, n + m)
  BY ONLY <1>1, <1>2, <1>3, m \in Nat, FollowsMore
<1> QED BY ONLY <1>4, <1>5, <1>6, q \in 0 .. BlockBytes DEF CtrHolds, zero

CtrBegun(e, c, k, p, len, n) ==
  /\ n \in Nat /\ n <= len /\ SameCall(e, c)
  /\ n < len => CtrHolds(e, k + 1, 0) /\ p + n = BlockBytes
  /\ n = len => CtrHolds(e, k, p + n)

LEMMA CtrPartialStep ==
  ASSUME NEW c, NEW k \in Nat, NEW p \in Nat, p > 0, CtrHolds(c, k, p), NEW len \in Nat,
         NEW bytes, Follows(bytes, PlainText, k * BlockBytes + p, len),
         k * BlockBytes + p + len <= Len(PlainText)
  PROVE  CtrBegun(CounterPartial(c, bytes), c, k, p, len, Started(c, len))
<1> DEFINE b == BlockBytes
           at == k * b + p
           t == Len(PlainText)
           n == Started(c, len)
           first == SubSeq(bytes, 1, n)
           pad == Encipher(CounterBlock(k))
           v == SubSeq(pad, p + 1, b)
           u == XorBytes(first, v)
           pos == p + n
           done == [c EXCEPT !.pos = pos, !.out = @ \o u]
           e == CounterPartial(c, bytes)
<1>1. b \in Nat /\ b > 0 /\ at \in Nat /\ t \in Nat /\ at + len <= t
  BY BlockAsSequence, Distribute, SizeIs
<1>2. Follows(bytes, PlainText, at, len) /\ Len(bytes) = len
  BY DEF Follows
<1>3. c \in CipherContexts /\ c.pos = p /\ c.iv = CounterBlock(k) /\ p \in 0 .. b
  BY DEF CtrHolds
<1>4. n = IF b - p < len THEN b - p ELSE len
  BY <1>3 DEF Started, Least
<1>5. n \in Nat /\ n <= len /\ pos <= b /\ pos \in 0 .. b /\ (n < len => pos = b)
  <2> HIDE DEF n, b
  <2> QED BY <1>1, <1>3, <1>4
<1>6. Follows(first, PlainText, at, n)
  <2> DEFINE z == 0
  <2>1. z \in Nat /\ z + n <= len /\ at + z = at /\ z + 1 = 1 /\ z + n = n
    BY <1>1, <1>5
  <2> HIDE DEF z, n, at, b
  <2>2. Follows(SubSeq(bytes, z + 1, z + n), PlainText, at + z, n)
    BY ONLY <1>1, <1>2, <1>5, <2>1, len \in Nat, FollowsPart
  <2> QED BY ONLY <2>1, <2>2
<1>7. pad \in Seq(Byte) /\ Len(pad) = b
  <2> DEFINE y == CounterBlock(k)
  <2>1. y \in CipherBlocks
    BY CounterIs
  <2> HIDE DEF y
  <2>2. Encipher(y) \in CipherBlocks
    BY <2>1, CipherAssumption, Zenon
  <2> QED BY <2>2, BlockAsSequence DEF y
<1>8. \A i \in 1 .. n : v[i] = pad[p + i]
  <2> DEFINE z == 0
             m == b - p
  <2>1. z \in Nat /\ z + p = p /\ m \in Nat /\ p + m = b /\ p + m <= b /\ n <= m
    BY <1>1, <1>3, <1>5
  <2>2. Follows(pad, pad, z, b)
    <3> HIDE DEF pad, b
    <3> QED BY <1>7, FollowsItself
  <2> HIDE DEF z, m, b, pad, n
  <2>3. Follows(SubSeq(pad, p + 1, p + m), pad, z + p, m)
    BY ONLY <1>1, <2>1, <2>2, p \in Nat, FollowsPart
  <2>4. \A i \in 1 .. m : v[i] = pad[p + i]
    BY ONLY <2>1, <2>3 DEF Follows
  <2> QED BY ONLY <1>5, <2>1, <2>4
<1>9. CtrPadBytes(v, k, p, n)
  <2> SUFFICES ASSUME NEW i \in 1 .. n
               PROVE  \E a \in Nat, j \in 1 .. b :
                        k * b + p + i = a * b + j /\ v[i] = Encipher(CounterBlock(a))[j]
    BY DEF CtrPadBytes
  <2> DEFINE j == p + i
             x == k * b
  <2>1. j \in 1 .. b
    BY <1>1, <1>5
  <2>2. v[i] = pad[j]
    BY <1>8
  <2>3. k * b + p + i = k * b + j
    <3>1. x \in Nat
      BY <1>1, Distribute
    <3> HIDE DEF x
    <3>2. x + p + i = x + (p + i)
      BY <3>1
    <3> QED BY <3>2 DEF x
  <2> HIDE DEF j, v
  <2> QED BY <2>1, <2>2, <2>3
<1>10. Follows(u, CtrText, at, n)
  <2>1. k * BlockBytes + p + n <= Len(PlainText)
    <3>1. at + n <= t
      <4> HIDE DEF at, n, t
      <4> QED BY <1>1, <1>5
    <3> QED BY <3>1
  <2>2. Follows(first, PlainText, k * BlockBytes + p, n)
    BY <1>6
  <2> HIDE DEF n, first, v, b, t
  <2>3. Follows(XorBytes(first, v), CtrText, k * BlockBytes + p, n)
    BY <1>5, <1>9, <2>1, <2>2, CtrXors
  <2> QED BY <2>3 DEF b
<1>11. Changed(done, c, c.iv, pos, u)
  <2>1. u \in Seq(Byte)
    BY <1>10 DEF Follows
  <2>2. c.iv \in CipherBlocks /\ pos \in Nat
    <3>1. pos \in Nat
      BY <1>5
    <3> QED BY <1>3, <3>1 DEF CipherContexts
  <2> HIDE DEF u, pos
  <2> QED BY <1>3, <2>1, <2>2, ContextChanges
<1>12. CtrHolds(done, k, pos) /\ SameCall(done, c)
  <2> DEFINE x == k * BlockBytes
  <2>0. x \in Nat
    BY <1>1, Distribute
  <2>1. Changed(done, c, CounterBlock(k), pos, u)
    BY ONLY <1>3, <1>11
  <2>2. x + pos = x + p + n /\ x + p + n <= t
    <3>1. at + n <= t
      <4> HIDE DEF at, n, t
      <4> QED BY <1>1, <1>5
    <3> HIDE DEF n, x
    <3> QED BY <1>5, <2>0, <3>1 DEF x
  <2> HIDE DEF u, done, pos, n
  <2> QED BY <1>5, <1>10, <2>1, <2>2, CtrGrows
<1> HIDE DEF done, n
<1>13. e = IF n < len THEN [done EXCEPT !.iv = ctr_cbuf_inc(@), !.pos = 0] ELSE done
  <2>1. c.pos # 0
    BY <1>3
  <2>2. e = LET m    == Started(c, Len(bytes))
                next == [c EXCEPT !.pos = @ + m,
                                  !.out = @ \o XorBytes(SubSeq(bytes, 1, m),
                                                        SubSeq(Encipher(c.iv), c.pos + 1, BlockBytes))]
            IN IF m < Len(bytes) THEN [next EXCEPT !.iv = ctr_cbuf_inc(@), !.pos = 0] ELSE next
    BY <2>1 DEF CounterPartial
  <2>3. Started(c, Len(bytes)) = n
    BY <1>2 DEF n
  <2>4. done = [c EXCEPT !.pos = c.pos + n,
                         !.out = @ \o XorBytes(SubSeq(bytes, 1, n), SubSeq(Encipher(c.iv), c.pos + 1, BlockBytes))]
    BY ONLY <1>3 DEF done, pos, u, first, v, pad, b
  <2> HIDE DEF e
  <2> QED BY ONLY <1>2, <2>2, <2>3, <2>4
<1>14. CASE n = len
  <2>1. e = done
    <3>1. ~(n < len)
      BY <1>14
    <3> QED BY ONLY <1>13, <3>1
  <2>2. CtrBegun(e, c, k, p, len, n)
    BY <1>5, <1>12, <1>14, <2>1 DEF CtrBegun
  <2> QED BY <2>2 DEF n
<1>15. CASE n # len
  <2>1. n < len /\ pos = b
    BY <1>5, <1>15
  <2> DEFINE l == k + 1
             iv == CounterBlock(l)
             r == [done EXCEPT !.iv = iv, !.pos = 0]
  <2>2. ctr_cbuf_inc(done.iv) = iv
    <3>1. done.iv = CounterBlock(k)
      BY <1>12 DEF CtrHolds
    <3>2. ctr_cbuf_inc(CounterBlock(k)) = CounterBlock(k + 1)
      BY CounterSteps
    <3> QED BY <3>1, <3>2
  <2>3. e = r
    BY ONLY <1>13, <2>1, <2>2
  <2>4. iv \in CipherBlocks /\ l \in Nat
    <3>1. l \in Nat
      OBVIOUS
    <3> HIDE DEF l
    <3> QED BY <3>1, CounterIs
  <2>5. /\ done \in CipherContexts /\ done.mode = c.mode /\ done.passed = c.passed
        /\ k * b + pos <= t /\ Follows(done.out, CtrText, 0, k * b + pos)
    BY <1>12 DEF CtrHolds, SameCall
  <2> HIDE DEF iv, l
  <2>6. /\ r \in CipherContexts /\ r.mode = done.mode /\ r.passed = done.passed
        /\ r.iv = iv /\ r.pos = 0 /\ r.out = done.out
    BY ONLY <2>4, <2>5 DEF CipherContexts
  <2> HIDE DEF r
  <2>7. l * b + 0 = k * b + pos
    <3>1. (k + 1) * b = k * b + 1 * b /\ 1 * b = b /\ k * b \in Int
      BY <1>1, Distribute
    <3> HIDE DEF pos
    <3> QED BY <1>1, <2>1, <3>1 DEF l
  <2>8. CtrHolds(r, l, 0)
    <3> DEFINE z == 0
    <3>1. z \in 0 .. b /\ l * b + z = k * b + pos /\ r.pos = z
      BY <1>1, <2>6, <2>7
    <3> HIDE DEF z, pos
    <3>2. CtrHolds(r, l, z)
      BY ONLY <2>5, <2>6, <3>1 DEF CtrHolds, iv, b, t
    <3> QED BY <3>2 DEF z
  <2>9. SameCall(r, c)
    BY ONLY <2>5, <2>6 DEF SameCall
  <2>10. CtrBegun(e, c, k, p, len, n)
    <3>1. n # len
      BY <1>15
    <3> QED BY ONLY <1>5, <2>1, <2>3, <2>8, <2>9, <3>1 DEF CtrBegun, l, pos, b
  <2> QED BY <2>10 DEF n
<1> QED BY <1>14, <1>15

\* The counters of a buffer.
CountersAre(f, iv, n) ==
  f = [i \in 0 .. n |-> IF i = 0 THEN iv ELSE ctr_cbuf_inc(f[i - 1])]

LEMMA CountersExist ==
  ASSUME NEW iv, NEW n \in Nat
  PROVE  \E f : CountersAre(f, iv, n)
<1> DEFINE S == {k \in Nat : \E f : CountersAre(f, iv, k)}
<1>1. 0 \in S
  <2> DEFINE g == [j \in 0 .. 0 |-> iv]
  <2>1. ASSUME NEW j \in 0 .. 0 PROVE iv = IF j = 0 THEN iv ELSE ctr_cbuf_inc(g[j - 1])
    OBVIOUS
  <2>2. CountersAre(g, iv, 0)
    BY <2>1 DEF CountersAre
  <2> QED BY <2>2
<1>2. ASSUME NEW k \in Nat, k \in S PROVE k + 1 \in S
  <2>1. PICK f : CountersAre(f, iv, k)
    BY <1>2
  <2> DEFINE value(j) == IF j = 0 THEN iv ELSE ctr_cbuf_inc(f[j - 1])
             g == [j \in 0 .. k + 1 |-> value(j)]
  <2>2. f = [j \in 0 .. k |-> value(j)]
    BY ONLY <2>1 DEF CountersAre
  <2>3. ASSUME NEW j \in 0 .. k PROVE g[j] = f[j]
    <3>1. j \in 0 .. k + 1
      OBVIOUS
    <3> HIDE DEF value
    <3>2. f[j] = value(j) /\ g[j] = value(j)
      BY ONLY <2>2, <3>1, j \in 0 .. k DEF g
    <3> QED BY <3>2
  <2>4. ASSUME NEW j \in 0 .. k + 1
        PROVE  value(j) = IF j = 0 THEN iv ELSE ctr_cbuf_inc(g[j - 1])
    <3>1. CASE j = 0
      BY ONLY <3>1
    <3>2. CASE j # 0
      <4>1. j - 1 \in 0 .. k
        BY <3>2
      <4>2. g[j - 1] = f[j - 1]
        <5> HIDE DEF g
        <5> QED BY <2>3, <4>1
      <4> HIDE DEF g
      <4> QED BY ONLY <4>2 DEF value
    <3> QED BY ONLY <3>1, <3>2
  <2>5. g = [j \in 0 .. k + 1 |-> IF j = 0 THEN iv ELSE ctr_cbuf_inc(g[j - 1])]
    <3> DEFINE other(j) == IF j = 0 THEN iv ELSE ctr_cbuf_inc(g[j - 1])
    <3>1. ASSUME NEW j \in 0 .. k + 1 PROVE value(j) = other(j)
      BY <2>4
    <3>2. g = [j \in 0 .. k + 1 |-> value(j)]
      OBVIOUS
    <3> HIDE DEF value, other, g
    <3>3. [j \in 0 .. k + 1 |-> value(j)] = [j \in 0 .. k + 1 |-> other(j)]
      BY <3>1
    <3> QED BY ONLY <3>2, <3>3 DEF other
  <2> HIDE DEF g
  <2>6. CountersAre(g, iv, k + 1)
    BY ONLY <2>5 DEF CountersAre
  <2> QED BY <2>6
<1> HIDE DEF S
<1>3. \A k \in Nat : k \in S
  BY <1>1, <1>2, SetInduction
<1> QED BY <1>3 DEF S

LEMMA CountersCount ==
  ASSUME NEW k \in Nat, NEW n \in Nat, NEW f, CountersAre(f, CounterBlock(k), n)
  PROVE  \A i \in Nat : i <= n => f[i] = CounterBlock(k + i)
<1> DEFINE S == {i \in Nat : i <= n => f[i] = CounterBlock(k + i)}
           iv == CounterBlock(k)
<1>1. f = [i \in 0 .. n |-> IF i = 0 THEN iv ELSE ctr_cbuf_inc(f[i - 1])]
  BY DEF CountersAre
<1>2. 0 \in S
  <2>1. 0 \in 0 .. n /\ k + 0 = k
    OBVIOUS
  <2> HIDE DEF iv
  <2>2. f[0] = iv
    BY ONLY <1>1, <2>1
  <2> QED BY <2>1, <2>2 DEF iv
<1>3. ASSUME NEW i \in Nat, i \in S PROVE i + 1 \in S
  <2> SUFFICES ASSUME i + 1 <= n PROVE f[i + 1] = CounterBlock(k + (i + 1))
    OBVIOUS
  <2>1. i + 1 \in 0 .. n /\ i + 1 # 0 /\ (i + 1) - 1 = i /\ i <= n
    OBVIOUS
  <2> HIDE DEF iv
  <2>2. f[i + 1] = ctr_cbuf_inc(f[(i + 1) - 1])
    BY ONLY <1>1, <2>1
  <2> DEFINE j == k + i
  <2>3. f[i] = CounterBlock(j) /\ j \in Nat /\ j + 1 = k + (i + 1)
    BY <1>3, <2>1
  <2> HIDE DEF j
  <2>4. ctr_cbuf_inc(CounterBlock(j)) = CounterBlock(j + 1)
    BY <2>3, CounterSteps
  <2> QED BY ONLY <2>1, <2>2, <2>3, <2>4
<1> HIDE DEF S
<1>4. \A i \in Nat : i \in S
  BY <1>2, <1>3, SetInduction
<1> QED BY <1>4 DEF S

LEMMA CtrBufferStep ==
  ASSUME NEW d, NEW k \in Nat, CtrHolds(d, k, 0), NEW len \in Nat,
         NEW bytes, Follows(bytes, PlainText, k * BlockBytes, len),
         k * BlockBytes + len <= Len(PlainText)
  PROVE  /\ k + (len \div BlockBytes) \in Nat
         /\ (k + (len \div BlockBytes)) * BlockBytes + (len % BlockBytes) = k * BlockBytes + len
         /\ CtrHolds(CounterBuffer(d, bytes), k + (len \div BlockBytes), len % BlockBytes)
         /\ SameCall(CounterBuffer(d, bytes), d)
<1> DEFINE w == BlockBytes
           x == k * w
           t == Len(PlainText)
           n == len \div w
           q == len % w
           l == k + n
           f == CHOOSE f : CountersAre(f, d.iv, n)
           pad == [i \in 1 .. len |-> Encipher(f[(i - 1) \div w])[((i - 1) % w) + 1]]
           u == XorBytes(bytes, pad)
           e == CounterBuffer(d, bytes)
<1>1. w \in Nat /\ w > 0 /\ x \in Nat /\ t \in Nat /\ x + len <= t
  BY BlockAsSequence, Distribute, SizeIs
<1>2. n \in Nat /\ q \in 0 .. w - 1 /\ len = n * w + q
  BY <1>1, QuotientOf
<1>3. l \in Nat /\ l * w + q = x + len
  <2>1. l * w = x + n * w /\ n * w \in Int
    BY <1>1, <1>2, Distribute
  <2>2. l \in Nat
    BY <1>2
  <2> DEFINE y == n * w
  <2> HIDE DEF x, l, y, q
  <2> QED BY <1>1, <1>2, <2>1, <2>2 DEF y
<1>4. d \in CipherContexts /\ d.pos = 0 /\ d.iv = CounterBlock(k)
  BY DEF CtrHolds
<1>5. Len(bytes) = len
  BY DEF Follows
<1>6. CountersAre(f, d.iv, n)
  <2> HIDE DEF n
  <2> QED BY <1>2, CountersExist
<1>7. e = [d EXCEPT !.iv = f[n], !.pos = d.pos + q, !.out = @ \o u]
  BY ONLY <1>5 DEF CounterBuffer, CountersAre, f, n, q, w, u, pad, e
<1> HIDE DEF f, n, q, l, e
<1>8. \A i \in Nat : i <= n => f[i] = CounterBlock(k + i)
  <2>1. CountersAre(f, CounterBlock(k), n)
    BY ONLY <1>4, <1>6
  <2> QED BY <1>2, <2>1, CountersCount
<1>9. CtrPadBytes(pad, k, 0, len)
  <2> SUFFICES ASSUME NEW i \in 1 .. len
               PROVE  \E a \in Nat, j \in 1 .. w :
                        k * w + 0 + i = a * w + j /\ pad[i] = Encipher(CounterBlock(a))[j]
    BY DEF CtrPadBytes
  <2> DEFINE y == i - 1
             g == y \div w
             h == y % w
             a == k + g
             j == h + 1
  <2>1. y \in Nat /\ y <= len
    OBVIOUS
  <2> HIDE DEF y
  <2>2. g \in Nat /\ h \in 0 .. w - 1 /\ y = g * w + h
    BY <1>1, <2>1, QuotientOf
  <2> HIDE DEF g, h
  <2>3. g <= n
    <3>1. g * w \in Nat
      BY <1>1, <2>2, Distribute
    <3> DEFINE z == g * w
    <3> HIDE DEF z
    <3>2. z <= len
      BY <2>1, <2>2, <3>1 DEF z
    <3>3. g <= len \div w <=> g * w <= len
      BY <1>1, <2>2, QuotientBound
    <3> QED BY <3>2, <3>3 DEF z, n
  <2>4. f[g] = CounterBlock(a)
    BY <1>8, <2>2, <2>3
  <2>5. pad[i] = Encipher(CounterBlock(a))[j]
    <3>1. pad[i] = Encipher(f[(i - 1) \div w])[((i - 1) % w) + 1]
      OBVIOUS
    <3> HIDE DEF pad
    <3> QED BY ONLY <2>4, <3>1 DEF g, h, y, j
  <2>6. a \in Nat /\ j \in 1 .. w
    BY <1>1, <2>2
  <2>7. k * w + 0 + i = a * w + j
    <3>1. a * w = x + g * w /\ g * w \in Int
      BY <1>1, <2>2, Distribute
    <3>2. i = y + 1
      BY DEF y
    <3> DEFINE z == g * w
    <3> HIDE DEF z, x, a
    <3> QED BY <1>1, <2>1, <2>2, <3>1, <3>2 DEF z, x
  <2> HIDE DEF a, j, pad
  <2> QED BY <2>5, <2>6, <2>7
<1>10. Follows(u, CtrText, x, len)
  <2> DEFINE z == 0
  <2>1. z \in Nat /\ x + z = x /\ x + z + len <= t
    BY <1>1
  <2>2. CtrPadBytes(pad, k, z, len)
    BY <1>9
  <2>3. Follows(bytes, PlainText, k * BlockBytes + z, len) /\ k * BlockBytes + z + len <= Len(PlainText)
    BY ONLY <2>1, Follows(bytes, PlainText, k * BlockBytes, len) DEF x, w, t
  <2> HIDE DEF z, pad
  <2>4. Follows(XorBytes(bytes, pad), CtrText, k * BlockBytes + z, len)
    BY <2>1, <2>2, <2>3, CtrXors
  <2> QED BY ONLY <2>1, <2>4 DEF x, w, u
<1> HIDE DEF pad
<1>11. Changed(e, d, CounterBlock(l), q, u)
  <2> DEFINE iv == CounterBlock(l)
  <2>1. iv \in CipherBlocks
    BY <1>3, CounterIs
  <2>2. u \in Seq(Byte)
    BY ONLY <1>10 DEF Follows
  <2>3. q \in Nat /\ d.pos + q = q
    BY <1>1, <1>2, <1>4
  <2>4. f[n] = iv
    BY <1>2, <1>8 DEF l
  <2> HIDE DEF u, iv
  <2>5. Changed([d EXCEPT !.iv = iv, !.pos = q, !.out = @ \o u], d, iv, q, u)
    BY <1>4, <2>1, <2>2, <2>3, ContextChanges
  <2>6. e = [d EXCEPT !.iv = iv, !.pos = q, !.out = @ \o u]
    BY ONLY <1>7, <2>3, <2>4
  <2> QED BY ONLY <2>5, <2>6 DEF iv
<1>12. CtrHolds(e, l, q) /\ SameCall(e, d)
  <2> DEFINE z == 0
  <2>1. /\ z \in Nat /\ x + z = x /\ l * w + q = x + z + len /\ x + z + len <= t
        /\ q \in 0 .. BlockBytes
    BY <1>1, <1>2, <1>3
  <2>2. CtrHolds(d, k, z)
    OBVIOUS
  <2>3. /\ l * BlockBytes + q = k * BlockBytes + z + len /\ k * BlockBytes + z + len <= Len(PlainText)
        /\ Follows(u, CtrText, k * BlockBytes + z, len)
    BY ONLY <1>10, <2>1 DEF x, w, t
  <2> HIDE DEF z, u
  <2> QED BY <1>3, <1>11, <2>1, <2>2, <2>3, CtrGrows
<1> QED BY ONLY <1>3, <1>12 DEF l, n, q, e, w, x

CtrReaches(e, c, n) ==
  \E l, q \in Nat : l * BlockBytes + q = n /\ CtrHolds(e, l, q) /\ SameCall(e, c)

\* The buffers of a call.
BufferSize == BufferBlocks * BlockBytes
BufferIn(rest, j) == SubSeq(rest, (j - 1) * BufferSize + 1, Least(j * BufferSize, Len(rest)))
BufferHolds(e, c, k, len, j) ==
  /\ SameCall(e, c)
  /\ j * BufferSize <= len => CtrHolds(e, k + j * BufferBlocks, 0)
  /\ len <= j * BufferSize => CtrReaches(e, c, k * BlockBytes + len)

LEMMA BufferSizes ==
  ASSUME NEW j \in Nat
  PROVE  /\ BufferSize \in Nat /\ BufferSize > 0 /\ BufferBlocks \in Nat
         /\ j * BufferSize \in Nat /\ j * BufferBlocks \in Nat
         /\ (j + 1) * BufferSize = j * BufferSize + BufferSize
         /\ (j + 1) * BufferBlocks = j * BufferBlocks + BufferBlocks
         /\ (j * BufferBlocks) * BlockBytes = j * BufferSize
<1> DEFINE a == BufferBlocks
           b == BlockBytes
<1>1. a \in Nat /\ a > 0 /\ b \in Nat /\ b > 0
  BY ModesAssumption
<1> HIDE DEF a, b
<1>2. a * b \in Nat /\ a * b > 0 /\ (j * a) * b = j * (a * b)
  BY <1>1
<1> DEFINE s == a * b
<1>3. s = BufferSize /\ s \in Nat /\ s > 0
  BY <1>2 DEF BufferSize, a, b
<1>4. (j * a) * b = j * s
  BY <1>2
<1> HIDE DEF s
<1>5. j * s \in Int /\ j * s >= 0 /\ (j + 1) * s = j * s + 1 * s /\ 1 * s = s
  BY <1>3, Distribute
<1>6. j * a \in Int /\ j * a >= 0 /\ (j + 1) * a = j * a + 1 * a /\ 1 * a = a
  BY <1>1, Distribute
<1>7. j * s \in Nat /\ j * a \in Nat
  <2> DEFINE y == j * s
             z == j * a
  <2>1. y \in Int /\ y >= 0 /\ z \in Int /\ z >= 0
    BY <1>5, <1>6
  <2> HIDE DEF y, z
  <2>2. y \in Nat /\ z \in Nat
    BY <2>1
  <2> QED BY <2>2 DEF y, z
<1>8. /\ s \in Nat /\ s > 0 /\ a \in Nat /\ j * s \in Nat /\ j * a \in Nat
      /\ (j + 1) * s = j * s + s /\ (j + 1) * a = j * a + a /\ (j * a) * b = j * s
  BY ONLY <1>1, <1>3, <1>4, <1>5, <1>6, <1>7
<1> QED BY ONLY <1>3, <1>8 DEF a, b

LEMMA BufferStep ==
  ASSUME NEW k \in Nat, NEW len \in Nat, NEW rest, Follows(rest, PlainText, k * BlockBytes, len),
         k * BlockBytes + len <= Len(PlainText), NEW j \in Nat, j * BufferSize < len,
         NEW c, NEW e, BufferHolds(e, c, k, len, j)
  PROVE  BufferHolds(CounterBuffer(e, BufferIn(rest, j + 1)), c, k, len, j + 1)
<1> DEFINE w == BlockBytes
           x == k * w
           s == BufferSize
           a == BufferBlocks
           y == j * s
           h == k + j * a
           z == (j + 1) * s
           m == Least(z, len) - y
           part == BufferIn(rest, j + 1)
           r == CounterBuffer(e, part)
           l == h + (m \div w)
           q == m % w
<1>1. w \in Nat /\ w > 0 /\ x \in Nat /\ Len(PlainText) \in Nat
  BY BlockAsSequence, Distribute, SizeIs
<1>2. s \in Nat /\ s > 0 /\ a \in Nat /\ y \in Nat /\ z = y + s /\ h \in Nat /\ (j * a) * w = y
  <2>1. j * a \in Nat
    BY BufferSizes
  <2>2. h \in Nat
    <3> DEFINE i == j * a
    <3>1. i \in Nat
      BY <2>1
    <3> HIDE DEF i
    <3>2. k + i \in Nat
      BY <3>1
    <3> QED BY <3>2 DEF i
  <2> QED BY <2>2, BufferSizes
<1>3. h * w = x + y
  <2>1. j * a \in Int
    BY BufferSizes
  <2>2. (k + (j * a)) * w = k * w + (j * a) * w
    <3> DEFINE i == j * a
    <3>1. i \in Int /\ k \in Int /\ w \in Int
      BY <1>1, <2>1
    <3> HIDE DEF i, w
    <3>2. (k + i) * w = k * w + i * w
      BY <3>1, Distribute
    <3> QED BY <3>2 DEF i
  <2> QED BY ONLY <1>2, <2>2 DEF x, h
<1>4. SameCall(e, c) /\ CtrHolds(e, h, 0)
  <2>1. y <= len
    BY <1>2
  <2> QED BY ONLY <2>1, BufferHolds(e, c, k, len, j) DEF BufferHolds, y, h, s, a
<1>5. /\ y + m = Least(z, len) /\ m \in Nat /\ m > 0 /\ y + m <= len
      /\ z <= len => m = s
      /\ len <= z => y + m = len
  <2>1. y < len
    OBVIOUS
  <2> HIDE DEF y, z, s
  <2> QED BY <1>2, <2>1 DEF Least
<1>6. Follows(part, PlainText, x + y, m)
  <2>1. part = SubSeq(rest, y + 1, y + m)
    <3>1. part = SubSeq(rest, ((j + 1) - 1) * s + 1, Least(z, Len(rest)))
      BY DEF BufferIn
    <3>2. (j + 1) - 1 = j /\ Len(rest) = len
      BY DEF Follows
    <3> HIDE DEF m, part
    <3> QED BY ONLY <1>5, <3>1, <3>2 DEF y
  <2> HIDE DEF y, m, x, part
  <2>2. Follows(rest, PlainText, x, len)
    BY DEF x, w
  <2>3. Follows(SubSeq(rest, y + 1, y + m), PlainText, x + y, m)
    BY ONLY <1>1, <1>2, <1>5, <2>2, len \in Nat, FollowsPart
  <2> QED BY ONLY <2>1, <2>3
<1> HIDE DEF m, part, h
<1>7. /\ l \in Nat /\ l * w + q = h * w + m /\ CtrHolds(r, l, q) /\ SameCall(r, e)
  <2>1. Follows(part, PlainText, h * BlockBytes, m) /\ h * BlockBytes + m <= Len(PlainText)
    <3>1. x + y + m <= Len(PlainText)
      <4>1. x + len <= Len(PlainText)
        OBVIOUS
      <4> HIDE DEF x, y
      <4> QED BY <1>1, <1>2, <1>5, <4>1
    <3> QED BY ONLY <1>3, <1>6, <3>1 DEF w
  <2> QED BY <1>2, <1>4, <1>5, <2>1, CtrBufferStep
<1>8. SameCall(r, c)
  BY ONLY <1>4, <1>7 DEF SameCall
<1> HIDE DEF r
<1>9. CASE z <= len
  <2>1. m = s /\ s = a * w
    BY <1>5, <1>9 DEF BufferSize
  <2>2. m \div w = a /\ m % w = 0
    <3> DEFINE i == 0
    <3>1. i \in 0 .. w - 1 /\ a * w + i = a * w
      <4>1. a * w \in Nat
        BY <1>2, <2>1
      <4> DEFINE g == a * w
      <4> HIDE DEF g
      <4>2. g \in Nat
        BY <4>1 DEF g
      <4> QED BY <1>1, <4>2 DEF g
    <3> HIDE DEF i, w, a
    <3>2. (a * w + i) \div w = a /\ (a * w + i) % w = i
      BY <1>1, <1>2, <3>1, QuotientIs
    <3> QED BY ONLY <2>1, <3>1, <3>2 DEF i
  <2>3. l = k + (j + 1) * a /\ q = 0
    <3>1. (j + 1) * a = j * a + a /\ j * a \in Nat
      BY BufferSizes
    <3> DEFINE i == j * a
    <3>2. k + i + a = k + (i + a)
      <4> HIDE DEF i
      <4>1. i \in Nat
        BY <3>1 DEF i
      <4> QED BY <1>2, <4>1
    <3>3. l = k + i + a
      BY ONLY <2>2 DEF h, i
    <3> QED BY ONLY <2>2, <3>1, <3>2, <3>3 DEF i
  <2>4. CtrHolds(r, k + (j + 1) * a, 0)
    BY ONLY <1>7, <2>3
  <2>5. len <= z => CtrReaches(r, c, x + len)
    <3> SUFFICES ASSUME len <= z PROVE CtrReaches(r, c, x + len)
      OBVIOUS
    <3>1. x + y + m = x + len
      <4> HIDE DEF x, y, z
      <4> QED BY <1>1, <1>2, <1>5
    <3>2. l * BlockBytes + q = x + len
      BY ONLY <1>3, <1>7, <3>1 DEF w
    <3>3. q \in Nat
      BY <2>3
    <3> HIDE DEF l, q
    <3> QED BY ONLY <1>7, <1>8, <3>2, <3>3 DEF CtrReaches
  <2> QED BY ONLY <1>8, <2>4, <2>5 DEF BufferHolds, r, part, z, x, w, s, a
<1>10. CASE ~(z <= len)
  <2>1. len <= z
    <3> HIDE DEF z, y
    <3> QED BY <1>2, <1>10
  <2>2. x + y + m = x + len
    <3> HIDE DEF x, y, z
    <3> QED BY <1>1, <1>2, <1>5, <2>1
  <2>3. l * BlockBytes + q = x + len
    BY ONLY <1>3, <1>7, <2>2 DEF w
  <2>4. q \in Nat
    BY <1>1, <1>5, QuotientOf
  <2> HIDE DEF l, q
  <2>5. CtrReaches(r, c, x + len)
    BY ONLY <1>7, <1>8, <2>3, <2>4 DEF CtrReaches
  <2> QED BY ONLY <1>8, <1>10, <2>5 DEF BufferHolds, r, part, z, x, w, s, a
<1> QED BY <1>9, <1>10

BuffersAre(f, first, rest, n) ==
  f = [j \in 0 .. n |-> IF j = 0 THEN first ELSE CounterBuffer(f[j - 1], BufferIn(rest, j))]

LEMMA BuffersExist ==
  ASSUME NEW first, NEW rest, NEW n \in Nat
  PROVE  \E f : BuffersAre(f, first, rest, n)
<1> DEFINE S == {k \in Nat : \E f : BuffersAre(f, first, rest, k)}
<1>1. 0 \in S
  <2> DEFINE g == [j \in 0 .. 0 |-> first]
  <2>1. ASSUME NEW j \in 0 .. 0 PROVE first = IF j = 0 THEN first ELSE CounterBuffer(g[j - 1], BufferIn(rest, j))
    OBVIOUS
  <2>2. BuffersAre(g, first, rest, 0)
    BY <2>1 DEF BuffersAre
  <2> QED BY <2>2
<1>2. ASSUME NEW k \in Nat, k \in S PROVE k + 1 \in S
  <2>1. PICK f : BuffersAre(f, first, rest, k)
    BY <1>2
  <2> DEFINE value(j) == IF j = 0 THEN first ELSE CounterBuffer(f[j - 1], BufferIn(rest, j))
             g == [j \in 0 .. k + 1 |-> value(j)]
  <2>2. f = [j \in 0 .. k |-> value(j)]
    BY ONLY <2>1 DEF BuffersAre
  <2>3. ASSUME NEW j \in 0 .. k PROVE g[j] = f[j]
    <3>1. j \in 0 .. k + 1
      OBVIOUS
    <3> HIDE DEF value
    <3>2. f[j] = value(j) /\ g[j] = value(j)
      BY ONLY <2>2, <3>1, j \in 0 .. k DEF g
    <3> QED BY <3>2
  <2>4. ASSUME NEW j \in 0 .. k + 1
        PROVE  value(j) = IF j = 0 THEN first ELSE CounterBuffer(g[j - 1], BufferIn(rest, j))
    <3>1. CASE j = 0
      BY ONLY <3>1
    <3>2. CASE j # 0
      <4>1. j - 1 \in 0 .. k
        BY <3>2
      <4>2. g[j - 1] = f[j - 1]
        <5> HIDE DEF g
        <5> QED BY <2>3, <4>1
      <4> HIDE DEF g
      <4> QED BY ONLY <4>2 DEF value
    <3> QED BY ONLY <3>1, <3>2
  <2>5. g = [j \in 0 .. k + 1 |-> IF j = 0 THEN first ELSE CounterBuffer(g[j - 1], BufferIn(rest, j))]
    <3> DEFINE other(j) == IF j = 0 THEN first ELSE CounterBuffer(g[j - 1], BufferIn(rest, j))
    <3>1. ASSUME NEW j \in 0 .. k + 1 PROVE value(j) = other(j)
      BY <2>4
    <3>2. g = [j \in 0 .. k + 1 |-> value(j)]
      OBVIOUS
    <3> HIDE DEF value, other, g
    <3>3. [j \in 0 .. k + 1 |-> value(j)] = [j \in 0 .. k + 1 |-> other(j)]
      BY <3>1
    <3> QED BY ONLY <3>2, <3>3 DEF other
  <2> HIDE DEF g
  <2>6. BuffersAre(g, first, rest, k + 1)
    BY ONLY <2>5 DEF BuffersAre
  <2> QED BY <2>6
<1> HIDE DEF S
<1>3. \A k \in Nat : k \in S
  BY <1>1, <1>2, SetInduction
<1> QED BY <1>3 DEF S

BufferCount(len) == (len + BufferSize - 1) \div BufferSize
BufferSteps(f, first, rest, n) ==
  /\ f[0] = first
  /\ \A j \in Nat : j < n => f[j + 1] = CounterBuffer(f[j], BufferIn(rest, j + 1))

CtrRest(c, bytes) == SubSeq(bytes, Started(c, Len(bytes)) + 1, Len(bytes))

LEMMA CtrSteps ==
  ASSUME NEW c, NEW bytes, NEW n \in Nat, n = BufferCount(Len(CtrRest(c, bytes)))
  PROVE  \E f : /\ BufferSteps(f, CounterPartial(c, bytes), CtrRest(c, bytes), n)
               /\ ctr_crypt(c, bytes) = f[n]
<1> DEFINE first == CounterPartial(c, bytes)
           rest == CtrRest(c, bytes)
           f == CHOOSE f : BuffersAre(f, first, rest, n)
<1>1. BuffersAre(f, first, rest, n)
  BY BuffersExist
<1>2. ctr_crypt(c, bytes) = f[n]
  BY DEF ctr_crypt, BuffersAre, BufferIn, BufferSize, BufferCount, CtrRest
<1> HIDE DEF f, first, rest
<1>3. f = [j \in 0 .. n |-> IF j = 0 THEN first ELSE CounterBuffer(f[j - 1], BufferIn(rest, j))]
  BY ONLY <1>1 DEF BuffersAre
<1>4. f[0] = first
  <2>1. 0 \in 0 .. n
    BY ONLY n \in Nat
  <2> QED BY ONLY <1>3, <2>1
<1>5. ASSUME NEW j \in Nat, j < n PROVE f[j + 1] = CounterBuffer(f[j], BufferIn(rest, j + 1))
  <2>1. j + 1 \in 0 .. n /\ j + 1 # 0 /\ (j + 1) - 1 = j
    BY ONLY n \in Nat, j \in Nat, j < n
  <2>2. f[j + 1] = CounterBuffer(f[(j + 1) - 1], BufferIn(rest, j + 1))
    BY ONLY <1>3, <2>1
  <2> QED BY ONLY <2>1, <2>2
<1>6. BufferSteps(f, first, rest, n)
  BY ONLY <1>4, <1>5 DEF BufferSteps
<1> QED BY ONLY <1>2, <1>6 DEF first, rest

LEMMA CountIs ==
  ASSUME NEW len \in Nat, NEW j \in Nat
  PROVE  /\ BufferCount(len) \in Nat
         /\ j < BufferCount(len) <=> j * BufferSize < len
<1> DEFINE s == BufferSize
<1>1. s \in Nat /\ s > 0
  BY BufferSizes
<1> HIDE DEF s
<1>2. (len + s - 1) \div s \in Nat /\ (j < (len + s - 1) \div s <=> j * s < len)
  BY <1>1, QuotientUp
<1> QED BY ONLY <1>2 DEF s, BufferCount

LEMMA BuffersHold ==
  ASSUME NEW k \in Nat, NEW len \in Nat, NEW rest, Follows(rest, PlainText, k * BlockBytes, len),
         k * BlockBytes + len <= Len(PlainText), NEW c, CtrHolds(c, k, 0),
         NEW n \in Nat, n = BufferCount(len), NEW f, BufferSteps(f, c, rest, n)
  PROVE  CtrReaches(f[n], c, k * BlockBytes + len)
<1> DEFINE S == {j \in Nat : j <= n => BufferHolds(f[j], c, k, len, j)}
           x == k * BlockBytes
<1>0. x \in Nat
  BY BlockAsSequence, Distribute
<1>1. f[0] = c /\ \A j \in Nat : j < n => f[j + 1] = CounterBuffer(f[j], BufferIn(rest, j + 1))
  BY DEF BufferSteps
<1>2. c \in CipherContexts
  BY DEF CtrHolds
<1>3. BufferHolds(c, c, k, len, 0)
  <2>1. SameCall(c, c)
    BY <1>2 DEF SameCall
  <2> DEFINE z == 0
             a == BufferBlocks
             s == BufferSize
  <2>2. z * a = 0 /\ z * s = 0 /\ k + z * a = k
    <3>1. z \in Int /\ a \in Int /\ s \in Int
      BY BufferSizes
    <3> HIDE DEF a, s
    <3>2. 0 * a = 0 /\ 0 * s = 0
      BY <3>1
    <3> QED BY <3>2
  <2> HIDE DEF z, a, s
  <2>3. z * s <= len => CtrHolds(c, k + z * a, 0)
    BY ONLY <2>2, CtrHolds(c, k, 0)
  <2>4. len <= z * s => CtrReaches(c, c, x + len)
    <3> SUFFICES ASSUME len <= z * s PROVE CtrReaches(c, c, x + len)
      OBVIOUS
    <3>1. len = 0
      BY ONLY <2>2, len <= z * s, len \in Nat
    <3>2. x + 0 = x + len /\ 0 \in Nat
      BY ONLY <3>1
    <3> QED BY ONLY <2>1, <3>2, CtrHolds(c, k, 0), k \in Nat DEF CtrReaches, x
  <2>5. BufferHolds(c, c, k, len, z)
    BY ONLY <2>1, <2>3, <2>4 DEF BufferHolds, a, s, x
  <2> QED BY ONLY <2>5 DEF z
<1>4. 0 \in S
  BY <1>1, <1>3
<1>5. ASSUME NEW j \in Nat, j \in S PROVE j + 1 \in S
  <2> SUFFICES ASSUME j + 1 <= n PROVE BufferHolds(f[j + 1], c, k, len, j + 1)
    OBVIOUS
  <2>1. j < n /\ BufferHolds(f[j], c, k, len, j)
    BY <1>5
  <2>2. j * BufferSize < len
    BY <2>1, CountIs
  <2> DEFINE d == f[j]
             e == CounterBuffer(d, BufferIn(rest, j + 1))
  <2>3. BufferHolds(d, c, k, len, j)
    BY <2>1
  <2> HIDE DEF d
  <2>4. BufferHolds(e, c, k, len, j + 1)
    BY <2>2, <2>3, BufferStep
  <2>5. f[j + 1] = e
    BY <1>1, <2>1 DEF d
  <2> QED BY ONLY <2>4, <2>5
<1> HIDE DEF S
<1>6. \A j \in Nat : j \in S
  BY <1>4, <1>5, SetInduction
<1>7. BufferHolds(f[n], c, k, len, n)
  BY <1>6 DEF S
<1>8. len <= n * BufferSize
  <2> DEFINE y == n * BufferSize
  <2>1. y \in Nat
    BY BufferSizes
  <2>2. ~(n < BufferCount(len))
    OBVIOUS
  <2>3. ~(y < len)
    BY <2>2, CountIs
  <2> HIDE DEF y
  <2>4. len <= y
    BY <2>1, <2>3
  <2> QED BY <2>4 DEF y
<1> QED BY ONLY <1>7, <1>8 DEF BufferHolds

LEMMA CtrCalls ==
  ASSUME NEW k \in Nat, NEW p \in Nat, NEW c, CtrHolds(c, k, p), NEW len \in Nat,
         NEW bytes, Follows(bytes, PlainText, k * BlockBytes + p, len),
         k * BlockBytes + p + len <= Len(PlainText)
  PROVE  CtrReaches(ctr_crypt(c, bytes), c, k * BlockBytes + p + len)
<1> DEFINE w == BlockBytes
           at == k * w
           t == Len(PlainText)
           n == Started(c, Len(bytes))
           rest == SubSeq(bytes, n + 1, Len(bytes))
           first == CounterPartial(c, bytes)
           e == ctr_crypt(c, bytes)
           m == len - n
           count == BufferCount(m)
<1>1. w \in Nat /\ w > 0 /\ at \in Nat /\ t \in Nat /\ at + p + len <= t
  BY BlockAsSequence, Distribute, SizeIs
<1>2. Follows(bytes, PlainText, at + p, len) /\ Len(bytes) = len
  BY DEF Follows
<1>3. c.pos = p /\ p \in 0 .. w /\ c \in CipherContexts
  BY DEF CtrHolds
<1>4. n = (IF p = 0 THEN 0 ELSE IF w - p < len THEN w - p ELSE len)
  BY <1>2, <1>3 DEF Started, Least
<1>5. n \in Nat /\ n <= len /\ p + n <= w
  <2> HIDE DEF n, w
  <2> QED BY <1>1, <1>3, <1>4
<1>6. m \in Nat /\ n + m = len /\ Follows(rest, PlainText, at + p + n, m)
  <2>1. m \in Nat /\ n + m = len
    <3> HIDE DEF n
    <3> QED BY <1>5
  <2> DEFINE s == at + p
  <2>2. s \in Nat
    BY <1>1
  <2> HIDE DEF s, n, m, at, w
  <2>3. Follows(SubSeq(bytes, n + 1, n + m), PlainText, s + n, m)
    <3>1. Follows(bytes, PlainText, s, len) /\ n + m <= len
      BY <1>2, <2>1 DEF s
    <3> QED BY ONLY <1>5, <2>1, <2>2, <3>1, len \in Nat, FollowsPart
  <2>4. rest = SubSeq(bytes, n + 1, n + m)
    BY ONLY <1>2, <2>1
  <2> QED BY ONLY <2>1, <2>3, <2>4 DEF s
<1> HIDE DEF m
<1>7. count \in Nat
  BY <1>6, CountIs
<1>8. PICK f : BufferSteps(f, first, rest, count) /\ e = f[count]
  <2>1. Len(rest) = m
    BY ONLY <1>6 DEF Follows
  <2>2. rest = CtrRest(c, bytes)
    BY DEF CtrRest
  <2> HIDE DEF rest
  <2>3. count = BufferCount(Len(CtrRest(c, bytes)))
    BY ONLY <2>1, <2>2
  <2> HIDE DEF count, e, first
  <2>4. \E f : /\ BufferSteps(f, CounterPartial(c, bytes), CtrRest(c, bytes), count)
              /\ ctr_crypt(c, bytes) = f[count]
    BY ONLY <1>7, <2>3, CtrSteps
  <2> QED BY ONLY <2>2, <2>4 DEF e, first
<1> HIDE DEF e, rest, n, count, first
\* From the start of a block.
<1>9. ASSUME NEW l \in Nat, l * w = at + p + n, CtrHolds(first, l, 0), SameCall(first, c)
      PROVE  CtrReaches(e, c, at + p + len)
  <2>1. l * BlockBytes + m = at + p + len
    <3> HIDE DEF w, at
    <3>1. l * w + m = at + p + len
      BY <1>1, <1>5, <1>6, <1>9
    <3> QED BY ONLY <3>1 DEF w
  <2>2. Follows(rest, PlainText, l * BlockBytes, m) /\ l * BlockBytes + m <= Len(PlainText)
    BY ONLY <1>1, <1>6, <1>9, <2>1 DEF w, t
  <2>3. CtrReaches(f[count], first, l * BlockBytes + m)
    BY <1>6, <1>7, <1>8, <1>9, <2>2, BuffersHold DEF count
  <2>4. PICK j, q \in Nat : j * BlockBytes + q = l * BlockBytes + m /\ CtrHolds(f[count], j, q) /\ SameCall(f[count], first)
    BY ONLY <2>3 DEF CtrReaches
  <2>5. SameCall(e, c)
    BY ONLY <1>8, <1>9, <2>4 DEF SameCall
  <2>6. j * BlockBytes + q = at + p + len /\ CtrHolds(e, j, q)
    BY ONLY <1>8, <2>1, <2>4
  <2> QED BY ONLY <2>4, <2>5, <2>6 DEF CtrReaches
<1>10. CASE p = 0
  <2>1. n = 0 /\ at + p + n = k * w
    BY <1>1, <1>4, <1>10
  <2>2. first = c
    BY <1>3, <1>10 DEF CounterPartial, first
  <2>3. CtrHolds(first, k, 0) /\ SameCall(first, c)
    BY <1>3, <1>10, <2>2 DEF SameCall
  <2>4. CtrReaches(e, c, at + p + len)
    <3>1. k * w = at + p + n
      BY <2>1
    <3> HIDE DEF at, w
    <3> QED BY <1>9, <2>3, <3>1
  <2> QED BY ONLY <2>4 DEF e, at, w
<1>11. CASE p # 0
  <2>1. CtrBegun(first, c, k, p, len, n)
    <3>1. p > 0
      BY <1>11
    <3>2. n = Started(c, len)
      BY ONLY <1>2 DEF n
    <3>3. CtrBegun(CounterPartial(c, bytes), c, k, p, len, Started(c, len))
      BY <3>1, CtrPartialStep
    <3> QED BY ONLY <3>2, <3>3 DEF first
  <2>2. CASE n < len
    <3> DEFINE l == k + 1
    <3>1. CtrHolds(first, l, 0) /\ p + n = w /\ SameCall(first, c)
      BY ONLY <2>1, <2>2 DEF CtrBegun, w
    <3>2. l * w = at + p + n /\ l \in Nat
      <4>1. l * w = at + 1 * w /\ 1 * w = w
        BY <1>1, Distribute
      <4> QED BY <1>1, <1>5, <3>1, <4>1
    <3> HIDE DEF l, at, w
    <3>3. CtrReaches(e, c, at + p + len)
      BY <1>9, <3>1, <3>2
    <3> QED BY ONLY <3>3 DEF e, at, w
  <2>3. CASE ~(n < len)
    <3>1. n = len /\ m = 0
      BY <1>5, <1>6, <2>3
    <3>2. CtrHolds(first, k, p + n) /\ SameCall(first, c)
      BY ONLY <2>1, <3>1 DEF CtrBegun
    <3>3. count = 0
      <4> DEFINE z == 0
      <4>1. z \in Nat /\ ~(z * BufferSize < m)
        <5>1. z * BufferSize \in Nat
          BY BufferSizes
        <5> DEFINE y == z * BufferSize
        <5> HIDE DEF y
        <5>2. y \in Nat
          BY <5>1 DEF y
        <5>3. ~(y < m)
          BY <3>1, <5>2
        <5> QED BY <5>3 DEF y
      <4> HIDE DEF z
      <4>2. ~(z < BufferCount(m))
        BY <1>6, <4>1, CountIs
      <4>3. ~(0 < count)
        BY ONLY <4>2 DEF count, z
      <4> QED BY <1>7, <4>3
    <3>4. e = first
      <4>1. f[0] = first
        BY <1>8 DEF BufferSteps
      <4> QED BY ONLY <1>8, <3>3, <4>1
    <3> DEFINE q == p + n
    <3>5. q \in Nat /\ at + q = at + p + len
      BY <1>1, <1>5, <3>1
    <3> HIDE DEF q
    <3>6. CtrHolds(e, k, q) /\ SameCall(e, c)
      BY ONLY <3>2, <3>4 DEF q
    <3> QED BY ONLY <3>5, <3>6, k \in Nat DEF CtrReaches, e, at, w
  <2> QED BY <2>2, <2>3
<1> QED BY <1>10, <1>11

-----------------------------------------------------------------------------
(* The calls.                                                               *)

\* The context of a message passed up to place p of its block k + 1.
Placed(mode, d, k, p) ==
  /\ mode \in BlockModes => p = 0 /\ BlockHolds(mode, d, k)
  /\ mode \in FeedModes => FeedHolds(mode, d, k, p)
  /\ mode = "ctr_crypt" => CtrHolds(d, k, p)
PassedTo(mode, d, n) == \E k, p \in Nat : k * BlockBytes + p = n /\ Placed(mode, d, k, p)
StreamHolds(c) ==
  /\ c \in CipherContexts /\ c.passed <= Size(Kind(c.mode))
  /\ PassedTo(c.mode, c, c.passed)

LEMMA ModesAre ==
  /\ Modes = BlockModes \union FeedModes \union {"ctr_crypt"}
  /\ BlockModes \intersect FeedModes = {} /\ "ctr_crypt" \notin BlockModes \union FeedModes
  BY DEF Modes, BlockModes, FeedModes

LEMMA OpenedHolds ==
  ASSUME NEW mode \in Modes
  PROVE  StreamHolds(Opened(mode))
<1> DEFINE o == Opened(mode)
           w == BlockBytes
           z == 0
           kind == Kind(mode)
<1>1. w \in Nat /\ w > 0 /\ Len(PlainText) \in Nat /\ FirstIv \in CipherBlocks
  BY BlockAsSequence, SizeIs, ModesAssumption
<1>2. o \in CipherContexts /\ o.mode = mode /\ o.passed = 0 /\ o.out = <<>> /\ o.iv = FirstIv /\ o.pos = 0
  <2>1. <<>> \in Seq(Byte)
    OBVIOUS
  <2> QED BY <1>1, <2>1 DEF CipherContexts, Opened
<1>3. z * w = 0 /\ z * w + z = 0 /\ z \in Nat
  BY <1>1
<1>4. Size(kind) \in Nat /\ Due(mode) \in Seq(Byte) /\ kind \in Kinds
  BY DueIs, KindIs
<1>5. Follows(o.out, Due(mode), 0, 0)
  <2> DEFINE D == Due(mode)
  <2> HIDE DEF D, o
  <2>1. D \in Seq(Byte)
    BY <1>4 DEF D
  <2>2. Follows(<<>>, D, 0, 0)
    BY <2>1, FollowsItself
  <2> QED BY ONLY <1>2, <2>2 DEF D
<1>6. Before(kind, 0) = FirstIv
  <2> HIDE DEF kind
  <2> QED BY <1>4, CiphertextIs
<1>7. 0 <= Size(kind) /\ 0 <= Len(PlainText) /\ 0 \in 0 .. w /\ 0 \in 0 .. w - 1
  BY <1>1, <1>4
<1> HIDE DEF o, z, w
<1>8. mode \in BlockModes => BlockHolds(mode, o, z)
  <2>1. kind = "cbc" => o.iv = Before("cbc", z)
    BY <1>2, <1>6 DEF z
  <2> QED BY ONLY <1>2, <1>3, <1>5, <1>7, <2>1 DEF BlockHolds, w
<1>9. mode \in FeedModes => FeedHolds(mode, o, z, z)
  <2>1. FeedPlace(mode, o, z, z)
    BY ONLY <1>2, <1>3, <1>5, <1>7 DEF FeedPlace, w, z
  <2>2. o.iv = Before(kind, z)
    BY ONLY <1>2, <1>6 DEF z
  <2> QED BY ONLY <2>1, <2>2 DEF FeedHolds, z, kind
<1>10. mode = "ctr_crypt" => CtrHolds(o, z, z)
  <2> SUFFICES ASSUME mode = "ctr_crypt" PROVE CtrHolds(o, z, z)
    OBVIOUS
  <2>1. o.iv = CounterBlock(z)
    BY <1>2, CounterBegins DEF z
  <2>2. Due(mode) = CtrText
    BY DEF Due, Deciphers, Kind, CtrText
  <2>3. Follows(o.out, CtrText, 0, z * w + z)
    BY ONLY <1>3, <1>5, <2>2
  <2> QED BY ONLY <1>2, <1>3, <1>7, <2>1, <2>3 DEF CtrHolds, w, z
<1>11. Placed(mode, o, z, z)
  BY ONLY <1>8, <1>9, <1>10 DEF Placed, z
<1>12. PassedTo(mode, o, 0)
  BY ONLY <1>3, <1>11 DEF PassedTo, w
<1> QED BY ONLY <1>2, <1>7, <1>12 DEF StreamHolds, o, kind

\* What a call counts does not disturb the place.
Marked(d, m, ok) == [d EXCEPT !.passed = m, !.ok = ok]

LEMMA Counted ==
  ASSUME NEW mode \in Modes, NEW d \in CipherContexts, NEW k \in Nat, NEW p \in Nat,
         Placed(mode, d, k, p), NEW m \in Nat, NEW ok \in BOOLEAN
  PROVE  /\ Placed(mode, Marked(d, m, ok), k, p) /\ Marked(d, m, ok) \in CipherContexts
         /\ Marked(d, m, ok).mode = d.mode /\ Marked(d, m, ok).passed = m
<1> DEFINE e == Marked(d, m, ok)
<1>1. /\ e \in CipherContexts /\ e.mode = d.mode /\ e.passed = m
      /\ e.iv = d.iv /\ e.pos = d.pos /\ e.out = d.out
  BY DEF CipherContexts, Marked
<1> HIDE DEF e
<1>2. ASSUME BlockHolds(mode, d, k) PROVE BlockHolds(mode, e, k)
  BY ONLY <1>1, <1>2 DEF BlockHolds
<1>3. ASSUME FeedHolds(mode, d, k, p) PROVE FeedHolds(mode, e, k, p)
  BY ONLY <1>1, <1>3 DEF FeedHolds, FeedPlace
<1>4. ASSUME CtrHolds(d, k, p) PROVE CtrHolds(e, k, p)
  BY ONLY <1>1, <1>4 DEF CtrHolds
<1>5. Placed(mode, e, k, p)
  BY ONLY <1>2, <1>3, <1>4, Placed(mode, d, k, p) DEF Placed
<1> QED BY ONLY <1>1, <1>5 DEF e

LEMMA CryptPlaces ==
  ASSUME NEW c, StreamHolds(c), NEW n \in Nat, c.passed + n <= Size(Kind(c.mode)),
         NEW bytes, Follows(bytes, Passed(c.mode), c.passed, n),
         c.mode \in BlockModes => n % BlockBytes = 0
  PROVE  /\ PassedTo(c.mode, Crypt(c.mode, c, bytes), c.passed + n)
         /\ SameCall(Crypt(c.mode, c, bytes), c)
<1> DEFINE w == BlockBytes
           mode == c.mode
           s == Size(Kind(mode))
           e == Crypt(mode, c, bytes)
           D == Passed(mode)
<1>1. c \in CipherContexts /\ PassedTo(mode, c, c.passed)
  BY DEF StreamHolds
<1>2. mode \in Modes /\ c.passed \in Nat
  BY <1>1 DEF CipherContexts
<1>3. PICK k \in Nat, p \in Nat : k * w + p = c.passed /\ Placed(mode, c, k, p)
  BY <1>1 DEF PassedTo
<1>4. w \in Nat /\ w > 0 /\ k * w \in Nat /\ s \in Nat
  BY <1>2, BlockAsSequence, Distribute, DueIs
<1>5. Follows(bytes, D, k * w + p, n) /\ k * w + p + n <= s /\ c.passed + n = k * w + p + n
  BY <1>3
<1> HIDE DEF w, s, e, D
<1>6. CASE mode \in BlockModes
  <2> DEFINE j == n \div w
  <2>1. p = 0 /\ BlockHolds(mode, c, k)
    BY <1>3, <1>6 DEF Placed
  <2>2. j \in Nat /\ n = j * w
    <3> DEFINE r == n % w
    <3>1. r = 0
      BY <1>6 DEF w
    <3>2. j \in Nat /\ n = j * w + r /\ j * w \in Int
      BY <1>4, QuotientOf, Distribute
    <3> DEFINE y == j * w
    <3> HIDE DEF r, y
    <3>3. n = y
      BY <3>1, <3>2 DEF y
    <3> QED BY <3>2, <3>3 DEF y
  <2> HIDE DEF j
  <2>3. (k + j) * w = k * w + j * w /\ j * w \in Int
    BY <1>4, <2>2, Distribute
  <2>4. k * w + p = k * w /\ k * w + p + n = (k + j) * w
    <3> DEFINE x == k * w
               y == j * w
    <3> HIDE DEF x, y
    <3>1. x \in Nat /\ y \in Int /\ n = y /\ p = 0 /\ (k + j) * w = x + y
      BY <1>4, <2>1, <2>2, <2>3 DEF x, y
    <3>2. x + p = x /\ x + p + n = x + y
      BY <3>1
    <3> QED BY <3>1, <3>2 DEF x
  <2>5. Follows(bytes, D, k * w, j * w)
    BY ONLY <1>5, <2>2, <2>4
  <2>6. (k + j) * w <= s
    BY ONLY <1>5, <2>4
  <2> DEFINE r == WholeBlocks(mode, c, bytes)
  <2>7. BlockHolds(mode, r, k + j) /\ SameCall(r, c)
    <3>1. Follows(bytes, Passed(mode), k * BlockBytes, j * BlockBytes) /\ (k + j) * BlockBytes <= Size(Kind(mode))
      BY ONLY <2>5, <2>6 DEF D, w, s
    <3> HIDE DEF mode
    <3> QED BY <1>6, <2>1, <2>2, <3>1, BlocksHold
  <2>8. e = r
    <3>1. mode \notin FeedModes /\ mode # "ctr_crypt"
      BY <1>6, ModesAre
    <3> QED BY <3>1 DEF Crypt, FeedModes, e
  <2> HIDE DEF r
  <2> DEFINE l == k + j
             z == 0
  <2>9. l \in Nat /\ z \in Nat /\ l * w + z = c.passed + n
    <3> DEFINE y == (k + j) * w
    <3>1. y \in Int
      BY <1>4, <2>3
    <3> HIDE DEF y
    <3>2. y + 0 = y
      BY <3>1
    <3>3. l \in Nat
      BY <2>2
    <3> QED BY <1>5, <2>4, <3>2, <3>3 DEF y
  <2>10. Placed(mode, e, l, z)
    <3>1. mode \notin FeedModes /\ mode # "ctr_crypt"
      BY <1>6, ModesAre
    <3> QED BY ONLY <2>7, <2>8, <3>1 DEF Placed
  <2> HIDE DEF l, z
  <2>11. PassedTo(mode, e, c.passed + n)
    BY ONLY <2>9, <2>10 DEF PassedTo, w
  <2> QED BY ONLY <2>7, <2>8, <2>11 DEF e
<1>7. CASE mode \in FeedModes
  <2>1. FeedHolds(mode, c, k, p)
    BY <1>3, <1>7 DEF Placed
  <2>2. s = Len(PlainText)
    <3>1. Kind(mode) \notin {"ecb", "cbc"}
      BY <1>7 DEF Kind, FeedModes
    <3> QED BY <3>1, SizeIs DEF s
  <2> DEFINE r == Feedback(mode, c, bytes)
  <2>3. FeedReaches(mode, r, c, k, p, k * BlockBytes + p + n)
    <3>1. Follows(bytes, Passed(mode), k * BlockBytes + p, n) /\ k * BlockBytes + p + n <= Len(PlainText)
      BY ONLY <1>5, <2>2 DEF D, w
    <3> HIDE DEF mode
    <3> QED BY <1>7, <2>1, <3>1, FeedCalls
  <2>4. e = r
    BY <1>7 DEF Crypt, FeedModes, cfb_encrypt, cfb_decrypt, ofb_crypt, e
  <2> HIDE DEF r
  <2>5. PICK l, q \in Nat :
          l * BlockBytes + q = k * BlockBytes + p + n /\ FeedHolds(mode, r, l, q) /\ SameCall(r, c)
    BY ONLY <2>3 DEF FeedReaches
  <2>6. Placed(mode, e, l, q)
    <3>1. mode \notin BlockModes /\ mode # "ctr_crypt"
      BY <1>7, ModesAre
    <3> QED BY ONLY <2>4, <2>5, <3>1 DEF Placed
  <2>7. l * BlockBytes + q = c.passed + n
    BY ONLY <1>5, <2>5 DEF w
  <2>8. PassedTo(mode, e, c.passed + n)
    BY ONLY <2>5, <2>6, <2>7 DEF PassedTo
  <2> QED BY ONLY <2>4, <2>5, <2>8 DEF e
<1>8. CASE mode = "ctr_crypt"
  <2>1. CtrHolds(c, k, p)
    BY <1>3, <1>8 DEF Placed
  <2>2. s = Len(PlainText) /\ D = PlainText
    <3>1. Kind(mode) = "ctr" /\ ~Deciphers(mode)
      BY <1>8 DEF Kind, Deciphers
    <3>2. Size(Kind(mode)) = Len(PlainText)
      BY <3>1, SizeIs
    <3> QED BY <3>1, <3>2 DEF s, D, Passed
  <2> DEFINE r == ctr_crypt(c, bytes)
  <2>3. CtrReaches(r, c, k * BlockBytes + p + n)
    <3>1. Follows(bytes, PlainText, k * BlockBytes + p, n) /\ k * BlockBytes + p + n <= Len(PlainText)
      BY ONLY <1>5, <2>2 DEF w
    <3> QED BY <2>1, <3>1, CtrCalls
  <2>4. e = r
    BY <1>8 DEF Crypt, e
  <2> HIDE DEF r
  <2>5. PICK l, q \in Nat :
          l * BlockBytes + q = k * BlockBytes + p + n /\ CtrHolds(r, l, q) /\ SameCall(r, c)
    BY ONLY <2>3 DEF CtrReaches
  <2>6. Placed(mode, e, l, q)
    <3>1. mode \notin BlockModes /\ mode \notin FeedModes
      BY <1>8, ModesAre
    <3> QED BY ONLY <2>4, <2>5, <3>1 DEF Placed
  <2>7. l * BlockBytes + q = c.passed + n
    BY ONLY <1>5, <2>5 DEF w
  <2>8. PassedTo(mode, e, c.passed + n)
    BY ONLY <2>5, <2>6, <2>7 DEF PassedTo
  <2> QED BY ONLY <2>4, <2>5, <2>8 DEF e
<1> QED BY <1>2, <1>6, <1>7, <1>8, ModesAre

LEMMA StreamPart ==
  ASSUME NEW D \in Seq(Byte), NEW at \in Nat, NEW n \in Nat, at + n <= Len(D)
  PROVE  Follows(SubSeq(D, at + 1, at + n), D, at, n)
<1> DEFINE z == 0
           len == Len(D)
<1>1. z \in Nat /\ z + at = at /\ len \in Nat /\ at + n <= len
  OBVIOUS
<1>2. Follows(D, D, z, len)
  BY FollowsItself
<1> HIDE DEF z, len
<1>3. Follows(SubSeq(D, at + 1, at + n), D, z + at, n)
  BY ONLY <1>1, <1>2, at \in Nat, n \in Nat, FollowsPart
<1> QED BY ONLY <1>1, <1>3

LEMMA CallHolds ==
  ASSUME NEW c, StreamHolds(c), NEW n \in Nat, c.passed + n <= Size(Kind(c.mode)),
         NEW bytes, Follows(bytes, Passed(c.mode), c.passed, n)
  PROVE  /\ StreamHolds([c EXCEPT !.ok = FALSE])
         /\ (Kind(c.mode) \in {"ecb", "cbc"} => Whole(bytes))
              => StreamHolds([Crypt(c.mode, c, bytes) EXCEPT !.passed = @ + n, !.ok = TRUE])
<1> DEFINE mode == c.mode
           s == Size(Kind(mode))
<1>1. /\ c \in CipherContexts /\ mode \in Modes /\ c.passed \in Nat
      /\ PassedTo(mode, c, c.passed) /\ c.passed <= s
  BY DEF StreamHolds, CipherContexts
<1>2. StreamHolds([c EXCEPT !.ok = FALSE])
  <2> DEFINE m == c.passed
             ok == FALSE
             e == Marked(c, m, ok)
  <2>1. PICK k \in Nat, p \in Nat : k * BlockBytes + p = m /\ Placed(mode, c, k, p)
    BY <1>1 DEF PassedTo
  <2>2. ok \in BOOLEAN /\ m \in Nat
    BY <1>1
  <2> HIDE DEF m, ok, mode
  <2>3. Placed(mode, e, k, p) /\ e \in CipherContexts /\ e.mode = c.mode /\ e.passed = m
    BY <1>1, <2>1, <2>2, Counted
  <2>4. e = [c EXCEPT !.ok = FALSE]
    BY ONLY <1>1 DEF CipherContexts, m, ok, Marked
  <2> HIDE DEF e
  <2>5. PassedTo(mode, e, m)
    BY ONLY <2>1, <2>3 DEF PassedTo
  <2>6. StreamHolds(e)
    BY ONLY <1>1, <2>3, <2>5 DEF StreamHolds, s, mode, m
  <2> QED BY ONLY <2>4, <2>6
<1>3. ASSUME Kind(c.mode) \in {"ecb", "cbc"} => Whole(bytes)
      PROVE  StreamHolds([Crypt(c.mode, c, bytes) EXCEPT !.passed = @ + n, !.ok = TRUE])
  <2> DEFINE d == Crypt(c.mode, c, bytes)
             m == c.passed + n
             ok == TRUE
             e == Marked(d, m, ok)
  <2>1. c.mode \in BlockModes => n % BlockBytes = 0
    <3> SUFFICES ASSUME c.mode \in BlockModes PROVE n % BlockBytes = 0
      OBVIOUS
    <3>1. Whole(bytes)
      <4>1. Kind(c.mode) \in {"ecb", "cbc"}
        BY <1>1, KindIs DEF BlockModes
      <4> QED BY <1>3, <4>1
    <3>2. Len(bytes) = n
      BY DEF Follows
    <3> QED BY ONLY <3>1, <3>2 DEF Whole
  <2>2. PassedTo(mode, d, m) /\ SameCall(d, c)
    BY <2>1, CryptPlaces
  <2>3. m \in Nat /\ ok \in BOOLEAN /\ m <= s
    BY <1>1
  <2> HIDE DEF d, m, ok, mode
  <2>4. PICK k \in Nat, p \in Nat : k * BlockBytes + p = m /\ Placed(mode, d, k, p)
    BY ONLY <2>2 DEF PassedTo
  <2>5. d \in CipherContexts /\ d.mode = c.mode /\ d.passed = c.passed
    BY ONLY <2>2 DEF SameCall
  <2>6. Placed(mode, e, k, p) /\ e \in CipherContexts /\ e.mode = d.mode /\ e.passed = m
    BY <1>1, <2>3, <2>4, <2>5, Counted
  <2>7. [d EXCEPT !.passed = @ + n, !.ok = TRUE] = e
    BY ONLY <2>5 DEF m, ok, Marked
  <2> HIDE DEF e
  <2>8. PassedTo(mode, e, m)
    BY ONLY <2>4, <2>6 DEF PassedTo
  <2>9. e.mode = mode
    BY ONLY <2>5, <2>6 DEF mode
  <2>10. StreamHolds(e)
    BY ONLY <2>3, <2>6, <2>8, <2>9 DEF StreamHolds, s
  <2> QED BY ONLY <2>7, <2>10 DEF d
<1> QED BY <1>2, <1>3

LEMMA HoldsStreams ==
  ASSUME NEW c, StreamHolds(c)
  PROVE  c.out = SubSeq(Due(c.mode), 1, c.passed)
<1> DEFINE mode == c.mode
           n == c.passed
           D == Due(mode)
           z == 0
           u == SubSeq(D, 1, n)
<1>1. /\ c \in CipherContexts /\ mode \in Modes /\ n \in Nat
      /\ PassedTo(mode, c, n) /\ n <= Size(Kind(mode))
  BY DEF StreamHolds, CipherContexts
<1>2. D \in Seq(Byte) /\ Len(D) \in Nat /\ n <= Len(D)
  <2>1. D \in Seq(Byte) /\ Size(Kind(mode)) <= Len(D) /\ Size(Kind(mode)) \in Nat
    BY <1>1, DueIs
  <2> HIDE DEF D, n
  <2>2. Len(D) \in Nat
    BY <2>1
  <2> QED BY <1>1, <2>1, <2>2
<1>3. PICK k \in Nat, p \in Nat : k * BlockBytes + p = n /\ Placed(mode, c, k, p)
  BY <1>1 DEF PassedTo
<1>4. k * BlockBytes \in Nat
  BY BlockAsSequence, Distribute
<1> HIDE DEF n, D
<1>5. Follows(c.out, D, z, n)
  <2>1. CASE mode \in BlockModes
    <3>1. p = 0 /\ BlockHolds(mode, c, k)
      BY <1>3, <2>1 DEF Placed
    <3>2. k * BlockBytes = n
      <4> DEFINE x == k * BlockBytes
      <4> HIDE DEF x
      <4>1. x \in Nat /\ x + p = n
        BY <1>3, <1>4 DEF x
      <4>2. x = n
        BY <3>1, <4>1
      <4> QED BY <4>2 DEF x
    <3> QED BY ONLY <3>1, <3>2 DEF BlockHolds, D, z
  <2>2. CASE mode \in FeedModes
    <3>1. FeedHolds(mode, c, k, p)
      BY <1>3, <2>2 DEF Placed
    <3> QED BY ONLY <1>3, <3>1 DEF FeedHolds, FeedPlace, D, z
  <2>3. CASE mode = "ctr_crypt"
    <3>1. CtrHolds(c, k, p)
      BY <1>3, <2>3 DEF Placed
    <3>2. D = CtrText
      BY <2>3 DEF D, Due, Deciphers, Kind, CtrText
    <3> QED BY ONLY <1>3, <3>1, <3>2 DEF CtrHolds, z
  <2> HIDE DEF mode
  <2> QED BY <1>1, <2>1, <2>2, <2>3, ModesAre
<1>6. Follows(u, D, z, n)
  <2>1. z \in Nat /\ z + 1 = 1 /\ z + n = n /\ z + n <= Len(D)
    BY <1>1, <1>2
  <2> HIDE DEF z
  <2>2. Follows(SubSeq(D, z + 1, z + n), D, z, n)
    BY <1>1, <1>2, <2>1, StreamPart
  <2> QED BY ONLY <2>1, <2>2
<1>7. c.out = u
  <2> DEFINE o == c.out
  <2>1. Follows(o, D, z, n) /\ z \in Nat
    BY <1>5
  <2> HIDE DEF o, u, z
  <2>2. o = u
    BY <1>1, <1>6, <2>1, FollowsOnce
  <2> QED BY <2>2 DEF o
<1> QED BY <1>7 DEF u, D, n

\* However the message is cut into calls, and whichever calls are refused, each mode of
\* aes_modes.c puts out what the mode makes of the whole message, as far as it was passed: the
\* block or counter a call leaves unfinished is gone on with at its place by the next.
THEOREM MessagesStream == ModesSpec => []CipherStreams
<1>1. ModesInit => StreamHolds(stream)
  BY OpenedHolds DEF ModesInit
<1>2. StreamHolds(stream) /\ [ModesNext]_stream => StreamHolds(stream)'
  <2> SUFFICES ASSUME StreamHolds(stream), [ModesNext]_stream
               PROVE  StreamHolds(stream')
    OBVIOUS
  <2>1. ASSUME NEW n \in Pieces, Call(n) PROVE StreamHolds(stream')
    <3> DEFINE c == stream
               bytes == SubSeq(Passed(c.mode), c.passed + 1, c.passed + n)
    <3>1. n \in Nat /\ c.passed \in Nat /\ c.mode \in Modes
      BY <2>1, ModesAssumption DEF StreamHolds, CipherContexts
    <3>2. c.passed + n <= Size(Kind(c.mode))
      BY <2>1 DEF Call
    <3>3. Follows(bytes, Passed(c.mode), c.passed, n)
      <4> DEFINE D == Passed(c.mode)
                 at == c.passed
      <4>1. D \in Seq(Byte) /\ at \in Nat /\ at + n <= Len(D)
        <5>1. D \in Seq(Byte) /\ Size(Kind(c.mode)) <= Len(D) /\ Size(Kind(c.mode)) \in Nat
          BY <3>1, DueIs
        <5> DEFINE s == Size(Kind(c.mode))
        <5> HIDE DEF D, s
        <5>2. at + n <= s /\ s <= Len(D) /\ s \in Nat
          BY <3>2, <5>1 DEF s
        <5>3. Len(D) \in Nat
          BY <5>1
        <5> QED BY <3>1, <5>1, <5>2, <5>3
      <4> HIDE DEF D, at
      <4>2. Follows(SubSeq(D, at + 1, at + n), D, at, n)
        BY <3>1, <4>1, StreamPart
      <4> QED BY ONLY <4>2 DEF D, at
    <3>4. /\ StreamHolds([c EXCEPT !.ok = FALSE])
          /\ (Kind(c.mode) \in {"ecb", "cbc"} => Whole(bytes))
               => StreamHolds([Crypt(c.mode, c, bytes) EXCEPT !.passed = @ + n, !.ok = TRUE])
      <4> HIDE DEF bytes
      <4> QED BY <3>1, <3>2, <3>3, CallHolds
    <3>5. stream' = IF Kind(c.mode) \in {"ecb", "cbc"} /\ ~Whole(bytes) THEN [c EXCEPT !.ok = FALSE]
                    ELSE [Crypt(c.mode, c, bytes) EXCEPT !.passed = @ + n, !.ok = TRUE]
      BY <2>1 DEF Call
    <3> HIDE DEF bytes
    <3> QED BY ONLY <3>4, <3>5
  <2>2. CASE ModeReset
    BY <2>2, OpenedHolds DEF ModeReset
  <2>3. CASE UNCHANGED stream
    BY <2>3
  <2> QED BY <2>1, <2>2, <2>3 DEF ModesNext
<1>3. StreamHolds(stream) => CipherStreams
  BY HoldsStreams DEF CipherStreams
<1> QED BY <1>1, <1>2, <1>3, PTL DEF ModesSpec

=============================================================================

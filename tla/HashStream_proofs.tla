------------------------- MODULE HashStream_proofs -------------------------
(***************************************************************************)
(* Proofs about hashing: that a hashed message is the padded message of    *)
(* the standard, for every size of bytes, words and blocks, every message  *)
(* and every way to cut it into chunks; and that a seed of a phrase is the *)
(* one BIP-39 defines, though HMAC and PBKDF2 take short cuts.             *)
(*                                                                         *)
(* The bytes that have come are seen as the beginning of one stream, which *)
(* has a byte at every position.  Until Final, the chain holds the blocks  *)
(* of the stream that are complete, the buffer begins with the bytes that  *)
(* follow them, whatever it still holds behind them, and the count is that *)
(* of the bytes, or of their bits, in the words it is kept in.  Final      *)
(* goes on with the same stream: what it adds to the buffer is what the    *)
(* standard pads, in one block or in two, and its length is written as the *)
(* standard writes it, so that the chain holds the blocks of the padded    *)
(* message.                                                                *)
(*                                                                         *)
(* A context that starts behind a padded key absorbs the stream that       *)
(* begins with that key, and a block made of a digest, the mark and a      *)
(* length is the second block of the padded message of key and digest: so  *)
(* the two transforms of an iteration are the HMAC of the digest before.   *)
(* Words are added without a carry where the definition adds bytes, which  *)
(* is the same bit by bit.  Between two parts, the context is the state    *)
(* behind as many hashes of the definition as there are rounds behind it.  *)
(***************************************************************************)
EXTENDS HashStream, MnemonicSeed, SequenceTheorems, Induction

-----------------------------------------------------------------------------
(* Quotients.                                                               *)

LEMMA QuotientOf ==
  ASSUME NEW n \in Nat, NEW b \in Nat, b > 0
  PROVE  /\ n \div b \in Nat /\ n % b \in 0 .. b - 1
         /\ n = (n \div b) * b + (n % b)
  OBVIOUS

LEMMA QuotientIs ==
  ASSUME NEW b \in Nat, NEW q \in Int, NEW r \in 0 .. b - 1
  PROVE  (q * b + r) \div b = q /\ (q * b + r) % b = r
  OBVIOUS

LEMMA Distribute ==
  ASSUME NEW a \in Int, NEW b \in Int, NEW c \in Int
  PROVE  /\ (a + b) * c = a * c + b * c /\ (a - b) * c = a * c - b * c
         /\ a * c \in Int /\ (a >= 0 /\ c >= 0 => a * c >= 0) /\ 1 * c = c /\ 0 * c = 0
  OBVIOUS

\* Of a sum.
LEMMA QuotientSum ==
  ASSUME NEW m \in Nat, NEW n \in Nat, NEW b \in Nat, b > 0
  PROVE  /\ (m + n) \div b = (m \div b) + (((m % b) + n) \div b)
         /\ (m + n) % b = ((m % b) + n) % b
<1> DEFINE q == m \div b
           r == m % b
           p == (r + n) \div b
           s == (r + n) % b
<1>1. q \in Nat /\ r \in 0 .. b - 1 /\ m = q * b + r
  BY QuotientOf
<1>2. p \in Nat /\ s \in 0 .. b - 1 /\ r + n = p * b + s
  BY <1>1, QuotientOf
<1> HIDE DEF q, r, p, s
<1>3. m + n = (q + p) * b + s
  BY <1>1, <1>2
<1>4. q + p \in Int
  BY <1>1, <1>2
<1>5. (m + n) \div b = q + p /\ (m + n) % b = s
  BY <1>2, <1>3, <1>4, QuotientIs
<1> QED BY <1>5 DEF q, r, p, s

\* Of what is left by a multiple of the divisor.
LEMMA QuotientOfRest ==
  ASSUME NEW n \in Nat, NEW k \in Nat, k > 0, NEW b \in Nat, b > 0
  PROVE  /\ (n % (k * b)) \div b = (n \div b) % k
         /\ (n % (k * b)) % b = n % b
<1> DEFINE kb == k * b
           p == n \div kb
           m == n % kb
           q == m \div b
           r == m % b
<1>1. kb \in Nat /\ kb > 0
  OBVIOUS
<1>2. p \in Nat /\ m \in 0 .. kb - 1 /\ n = p * kb + m
  <2> HIDE DEF kb
  <2> QED BY <1>1, QuotientOf
<1>3. q \in Nat /\ r \in 0 .. b - 1 /\ m = q * b + r
  <2>1. m \in Nat
    BY <1>1, <1>2
  <2> HIDE DEF m
  <2> QED BY <2>1, QuotientOf
<1> HIDE DEF p, m, q, r
<1>4. q < k
  <2> SUFFICES ASSUME q >= k PROVE FALSE
    BY <1>3
  <2>1. q * b >= k * b
    BY <1>3
  <2> QED BY <1>2, <1>3, <2>1
<1>5. n = (p * k + q) * b + r
  <2>1. p * (k * b) = (p * k) * b /\ (p * k + q) * b = (p * k) * b + q * b
    BY <1>2, <1>3
  <2> QED BY <1>2, <1>3, <2>1
<1>6. p * k + q \in Int
  BY <1>2, <1>3
<1>7. n \div b = p * k + q /\ n % b = r
  BY <1>3, <1>5, <1>6, QuotientIs
<1>8. q \in 0 .. k - 1
  BY <1>3, <1>4
<1>9. (p * k + q) % k = q
  BY <1>2, <1>8, QuotientIs
<1> QED BY <1>7, <1>9 DEF m, q, r

\* Of a quotient.
LEMMA QuotientTwice ==
  ASSUME NEW n \in Nat, NEW a \in Nat, a > 0, NEW b \in Nat, b > 0
  PROVE  (n \div a) \div b = n \div (a * b)
<1> DEFINE q == n \div a
           r == n % a
           p == q \div b
           s == q % b
<1>1. q \in Nat /\ r \in 0 .. a - 1 /\ n = q * a + r
  BY QuotientOf
<1>2. p \in Nat /\ s \in 0 .. b - 1 /\ q = p * b + s
  <2> HIDE DEF q
  <2> QED BY <1>1, QuotientOf
<1> HIDE DEF q, r, p, s
<1>3. n = p * (a * b) + (s * a + r)
  <2>1. q * a = (p * b + s) * a
    BY <1>2
  <2>2. (p * b + s) * a = p * (a * b) + s * a
    BY <1>2
  <2> QED BY <1>1, <1>2, <2>1, <2>2
<1>4. s * a + r \in 0 .. a * b - 1
  <2>1. s * a <= (b - 1) * a
    BY <1>2
  <2>2. (b - 1) * a = a * b - a
    OBVIOUS
  <2>3. s * a \in Nat /\ a * b \in Nat
    BY <1>2
  <2> QED BY <1>1, <2>1, <2>2, <2>3
<1>5. a * b \in Nat /\ p \in Int
  BY <1>2
<1>6. n \div (a * b) = p
  <2> DEFINE ab == a * b
             rest == s * a + r
  <2>1. ab \in Nat /\ rest \in 0 .. ab - 1 /\ n = p * ab + rest
    BY <1>3, <1>4, <1>5
  <2> HIDE DEF ab, rest
  <2>2. (p * ab + rest) \div ab = p
    BY <1>5, <2>1, QuotientIs
  <2>3. n \div ab = p
    BY <2>1, <2>2
  <2> QED BY <2>3 DEF ab
<1> QED BY <1>6 DEF p, q

-----------------------------------------------------------------------------
(* Powers of two, and the sizes.                                            *)

LEMMA Powers ==
  \A n \in 0 .. 2 * WordBits : 2 ^ n \in Nat \ {0}
<1> DEFINE S == {n \in Nat : n <= 2 * WordBits => 2 ^ n \in Nat \ {0}}
<1>0. WordBits \in Nat /\ WordBits > 0
  BY SizesAssumption, ByteAssumption DEF WordBits
<1>1. 0 \in S
  <2>1. 2 ^ 0 = 1
    OBVIOUS
  <2> QED BY <2>1
<1>2. ASSUME NEW n \in Nat, n \in S PROVE n + 1 \in S
  <2> SUFFICES ASSUME n + 1 <= 2 * WordBits PROVE 2 ^ (n + 1) \in Nat \ {0}
    OBVIOUS
  <2>1. 2 ^ n \in Nat \ {0}
    BY <1>0, <1>2
  <2>2. 2 ^ (n + 1) = 2 ^ n * 2 ^ 1
    <3>1. n \in 0 .. 2 * WordBits /\ 1 \in 0 .. 2 * WordBits /\ n + 1 <= 2 * WordBits
      BY <1>0
    <3> HIDE DEF S
    <3> QED BY <3>1, PowersAssumption
  <2>3. 2 ^ 1 = 2
    OBVIOUS
  <2> DEFINE p == 2 ^ n
  <2>4. p \in Nat \ {0} /\ 2 ^ (n + 1) = p * 2
    BY <2>1, <2>2, <2>3
  <2> HIDE DEF p
  <2> QED BY <2>4
<1> HIDE DEF S
<1>3. \A n \in Nat : n \in S
  BY <1>1, <1>2, SetInduction
<1> QED BY <1>3, <1>0 DEF S

LEMMA Sizes ==
  /\ WordBits \in Nat /\ WordBits = ByteBits * WordBytes /\ ByteBits <= WordBits
  /\ Radix \in Nat \ {0} /\ 2 ^ ByteBits \in Nat \ {0} /\ Mark \in Nat
  /\ BlockLength \in Nat /\ ShortBlockLength \in Nat
  /\ ShortBlockLength > 0 /\ BlockLength = ShortBlockLength + 2 * WordBytes
  /\ ShortBlockLength = (BlockWords - 2) * WordBytes
<1>1. WordBits \in Nat /\ WordBits = ByteBits * WordBytes /\ ByteBits <= WordBits
  <2>1. ByteBits * 1 <= ByteBits * WordBytes
    BY SizesAssumption, ByteAssumption
  <2> QED BY <2>1, SizesAssumption, ByteAssumption DEF WordBits
<1>2. ByteBits - 1 \in 0 .. 2 * WordBits /\ ByteBits \in 0 .. 2 * WordBits
  BY <1>1, SizesAssumption, ByteAssumption
<1>3. Radix \in Nat \ {0} /\ 2 ^ ByteBits \in Nat \ {0} /\ Mark \in Nat
  BY <1>1, <1>2, Powers DEF Radix, Mark
<1>4. ShortBlockLength = (BlockWords - 2) * WordBytes
  BY SizesAssumption, ByteAssumption DEF ShortBlockLength, BlockLength
<1>5. (BlockWords - 2) * WordBytes >= 1 * WordBytes
  BY SizesAssumption, ByteAssumption
<1> QED BY <1>1, <1>3, <1>4, <1>5, SizesAssumption, ByteAssumption DEF ShortBlockLength, BlockLength

LEMMA BlockSize == BlockLength \in Nat /\ BlockLength > 0
  BY Sizes, SizesAssumption, ByteAssumption

-----------------------------------------------------------------------------
(* Digits.                                                                  *)

\* The exponents of two bytes' powers.
LEMMA BytePowers ==
  ASSUME NEW i \in 0 .. 2 * WordBytes, NEW j \in 0 .. 2 * WordBytes, i + j <= 2 * WordBytes
  PROVE  /\ 2 ^ (ByteBits * (i + j)) = 2 ^ (ByteBits * i) * 2 ^ (ByteBits * j)
         /\ 2 ^ (ByteBits * i) \in Nat \ {0}
<1>1. ByteBits * (i + j) = ByteBits * i + ByteBits * j
  BY SizesAssumption, ByteAssumption
<1>2. ByteBits * i \in 0 .. 2 * WordBits /\ ByteBits * j \in 0 .. 2 * WordBits
  <2>1. ByteBits * i \in Nat /\ ByteBits * i <= ByteBits * (2 * WordBytes)
    BY SizesAssumption, ByteAssumption
  <2>2. ByteBits * j \in Nat /\ ByteBits * j <= ByteBits * (2 * WordBytes)
    BY SizesAssumption, ByteAssumption
  <2>3. ByteBits * (2 * WordBytes) = 2 * WordBits
    BY SizesAssumption, ByteAssumption DEF WordBits
  <2> QED BY <2>1, <2>2, <2>3, Sizes
<1>3. ByteBits * i + ByteBits * j <= 2 * WordBits
  <2>1. ByteBits * (i + j) <= ByteBits * (2 * WordBytes)
    BY SizesAssumption, ByteAssumption
  <2>2. ByteBits * (2 * WordBytes) = 2 * WordBits
    BY SizesAssumption, ByteAssumption DEF WordBits
  <2> QED BY <1>1, <2>1, <2>2
<1> QED BY <1>1, <1>2, <1>3, PowersAssumption, Powers

\* The recursion of BigEndian, made explicit.
BigValue(s, value) ==
  value = [n \in 0 .. Len(s) |->
             IF n = 0 THEN 0 ELSE value[n - 1] * 2 ^ ByteBits + s[n]]

LEMMA BigValueExists ==
  ASSUME NEW s \in Seq(Nat)
  PROVE  \E value : BigValue(s, value) /\ BigEndian(s) = value[Len(s)]
<1> DEFINE B == 2 ^ ByteBits
           step == [k \in Nat |-> [v \in Nat |->
                      IF k < Len(s) THEN v * B + s[k + 1] ELSE v]]
           len == Len(s)
<1>1. len \in Nat /\ B \in Nat
  BY Sizes
<1>2. step \in [Nat -> [Nat -> Nat]]
  <2>1. ASSUME NEW k \in Nat, NEW v \in Nat
        PROVE  (IF k < Len(s) THEN v * B + s[k + 1] ELSE v) \in Nat
    <3>1. CASE k < Len(s)
      <4>1. s[k + 1] \in Nat
        BY <1>1, <3>1
      <4>2. v * B \in Nat
        BY <1>1
      <4> QED BY <3>1, <4>1, <4>2
    <3> QED BY <3>1
  <2> HIDE DEF B
  <2> QED BY <2>1
<1>3. PICK h : Solves(h, len, Nat, 0, step)
  <2> HIDE DEF step, len
  <2> QED BY <1>1, <1>2, SolutionExists
<1>4. BigValue(s, h)
  <2>1. h = [n \in 0 .. len |-> h[n]] /\ h[0] = 0
    BY <1>3 DEF Solves
  <2>2. ASSUME NEW n \in 0 .. len, n # 0 PROVE h[n] = h[n - 1] * B + s[n]
    <3>1. n - 1 \in 0 .. len - 1 /\ (n - 1) + 1 = n /\ n - 1 \in Nat /\ n - 1 < Len(s)
      BY <1>1, <2>2
    <3>2. h[(n - 1) + 1] = step[n - 1][h[n - 1]] /\ h[n - 1] \in Nat
      <4> HIDE DEF step, len
      <4>1. n - 1 \in 0 .. len
        BY <1>1, <3>1
      <4> QED BY <1>3, <3>1, <4>1 DEF Solves
    <3>3. step[n - 1][h[n - 1]] = h[n - 1] * B + s[(n - 1) + 1]
      <4> HIDE DEF B
      <4> QED BY <3>1, <3>2
    <3> QED BY <3>1, <3>2, <3>3
  <2> QED BY <2>1, <2>2 DEF BigValue
<1> DEFINE value == CHOOSE f : BigValue(s, f)
<1>5. BigValue(s, value)
  BY <1>4
<1>6. BigEndian(s) = value[Len(s)]
  BY DEF BigEndian, BigValue
<1> HIDE DEF value
<1> QED BY <1>5, <1>6

\* A number is read from its digits.
LEMMA DigitsRead ==
  ASSUME NEW n \in Nat, NEW w \in 0 .. WordBytes, NEW s,
         s = [i \in 1 .. w |-> (n \div 2 ^ (ByteBits * (w - i))) % 2 ^ ByteBits]
  PROVE  BigEndian(s) = n % 2 ^ (ByteBits * w)
<1> DEFINE B == 2 ^ ByteBits
           P(k) == 2 ^ (ByteBits * k)
<1>1. w \in Nat /\ B \in Nat \ {0}
  BY SizesAssumption, ByteAssumption, Sizes
<1>2. \A k \in 0 .. w : P(k) \in Nat \ {0}
  <2> TAKE k \in 0 .. w
  <2>1. k \in 0 .. 2 * WordBytes /\ 0 \in 0 .. 2 * WordBytes /\ k + 0 <= 2 * WordBytes
    BY SizesAssumption, ByteAssumption
  <2> QED BY <2>1, BytePowers
<1>3. \A k \in 0 .. w - 1 : P(k + 1) = P(k) * B
  <2> TAKE k \in 0 .. w - 1
  <2>1. k \in 0 .. 2 * WordBytes /\ 1 \in 0 .. 2 * WordBytes /\ k + 1 <= 2 * WordBytes
    BY SizesAssumption, ByteAssumption
  <2>2. ByteBits * 1 = ByteBits
    BY SizesAssumption, ByteAssumption
  <2> QED BY <2>1, <2>2, BytePowers
<1>4. ASSUME NEW i \in 1 .. w PROVE n \div P(w - i) \in Nat /\ (n \div P(w - i)) % B \in Nat
  <2>1. P(w - i) \in Nat \ {0}
    BY <1>2
  <2> DEFINE p == P(w - i)
  <2> HIDE DEF P, B, p
  <2>2. n \div p \in Nat
    BY <2>1, QuotientOf DEF p
  <2>3. (n \div p) % B \in Nat
    BY <1>1, <2>2, QuotientOf
  <2> QED BY <2>2, <2>3 DEF p
<1>5. s \in Seq(Nat) /\ Len(s) = w
  BY <1>1, <1>4
<1>6. PICK value : BigValue(s, value) /\ BigEndian(s) = value[w]
  BY <1>5, BigValueExists
<1> DEFINE S == {k \in Nat : k <= w => value[k] = (n \div P(w - k)) % P(k)}
<1>7. 0 \in S
  <2>1. P(0) = 1
    <3>1. ByteBits * 0 = 0 /\ 2 ^ 0 = 1
      BY SizesAssumption, ByteAssumption
    <3> QED BY <3>1
  <2>2. value[0] = 0
    <3>1. 0 \in 0 .. Len(s)
      BY <1>1, <1>5
    <3> QED BY <1>6, <3>1 DEF BigValue
  <2>3. n \div P(w) \in Nat
    <3>1. P(w) \in Nat \ {0}
      BY <1>1, <1>2
    <3> HIDE DEF P
    <3> QED BY <3>1, QuotientOf
  <2>4. (n \div P(w)) % 1 = 0
    <3> DEFINE m == n \div P(w)
    <3>1. m \in Nat
      BY <2>3
    <3> HIDE DEF m
    <3>2. m % 1 = 0
      BY <3>1
    <3> QED BY <3>2 DEF m
  <2> QED BY <1>1, <2>1, <2>2, <2>4
<1>8. ASSUME NEW k \in Nat, k \in S PROVE k + 1 \in S
  <2> SUFFICES ASSUME k + 1 <= w PROVE value[k + 1] = (n \div P(w - (k + 1))) % P(k + 1)
    OBVIOUS
  <2> DEFINE p == P(w - (k + 1))
             N == n \div p
             q == P(k)
  <2>1. /\ p \in Nat \ {0} /\ q \in Nat \ {0} /\ N \in Nat
        /\ P(w - k) = p * B /\ P(k + 1) = q * B
    <3>1. w - (k + 1) \in 0 .. w - 1 /\ (w - (k + 1)) + 1 = w - k /\ k \in 0 .. w - 1
      BY <1>1
    <3>2. p \in Nat \ {0} /\ q \in Nat \ {0}
      BY <1>2, <3>1
    <3>3. P(w - k) = p * B /\ P(k + 1) = q * B
      BY <1>3, <3>1
    <3> HIDE DEF P, B, p
    <3> QED BY <3>2, <3>3, QuotientOf
  <2>2. n \div P(w - k) = N \div B
    <3>1. p \in Nat /\ p > 0 /\ B \in Nat /\ B > 0 /\ P(w - k) = p * B
      BY <1>1, <2>1, SMTT(30)
    <3> HIDE DEF P, B, p
    <3>2. (n \div p) \div B = n \div (p * B)
      BY <3>1, QuotientTwice
    <3> QED BY <3>1, <3>2
  <2>3. value[k] = (N \div B) % q
    BY <1>8, <2>2
  <2>4. value[k + 1] = value[k] * B + s[k + 1]
    <3>1. k + 1 \in 0 .. w /\ k + 1 # 0 /\ (k + 1) - 1 = k
      BY <1>1
    <3> QED BY <1>5, <1>6, <3>1 DEF BigValue
  <2>5. s[k + 1] = N % B
    BY <1>1
  <2> HIDE DEF P, B, p, N, q
  <2>6. (N % (q * B)) \div B = (N \div B) % q /\ (N % (q * B)) % B = N % B
    <3>1. q \in Nat /\ q > 0 /\ B \in Nat /\ B > 0 /\ N \in Nat
      BY <1>1, <2>1
    <3> QED BY <3>1, QuotientOfRest
  <2> DEFINE M == N % (q * B)
  <2>7. M \in Nat
    <3>1. q * B \in Nat /\ q * B > 0
      BY <1>1, <2>1
    <3> QED BY <2>1, <3>1, QuotientOf
  <2> HIDE DEF M
  <2>8. M = (M \div B) * B + (M % B)
    BY <1>1, <2>7, QuotientOf
  <2> QED BY <2>1, <2>3, <2>4, <2>5, <2>6, <2>8 DEF M, N, p
<1> HIDE DEF S
<1>9. \A k \in Nat : k \in S
  BY <1>7, <1>8, SetInduction
<1>10. value[w] = (n \div P(0)) % P(w)
  BY <1>1, <1>9 DEF S
<1>11. n \div P(0) = n
  <2>1. P(0) = 1
    <3>1. ByteBits * 0 = 0 /\ 2 ^ 0 = 1
      BY SizesAssumption, ByteAssumption
    <3> QED BY <3>1
  <2>2. n \div 1 = n
    OBVIOUS
  <2> QED BY <2>1, <2>2
<1> QED BY <1>6, <1>10, <1>11

-----------------------------------------------------------------------------
(* Blocks of a stream of bytes, D, whose first is D[1].                     *)

Streams == [Nat -> Nat]

BlockAt(D, k) == [i \in 1 .. BlockLength |-> D[(k - 1) * BlockLength + i]]
Words(big, b) == IF big THEN WordsBE(b) ELSE WordsLE(b)
ChainOf(big, D, n) == [k \in 1 .. n |-> Words(big, BlockAt(D, k))]

\* The words of two blocks are the same where their bytes are.
LEMMA WordBytesSame ==
  ASSUME NEW b \in Seq(Nat), NEW c \in Seq(Nat), NEW j \in 1 .. BlockWords,
         Len(b) >= j * WordBytes, Len(c) >= j * WordBytes,
         \A i \in 1 .. j * WordBytes : b[i] = c[i]
  PROVE  WordBytesOf(b, j) = WordBytesOf(c, j)
<1> DEFINE first == (j - 1) * WordBytes + 1
           last == j * WordBytes
<1>1. first \in Nat /\ first >= 1 /\ last \in Nat
  <2>1. (j - 1) * WordBytes \in Nat /\ j * WordBytes \in Nat
    BY SizesAssumption, ByteAssumption
  <2> QED BY <2>1
<1>2. \A i \in first .. last : b[i] \in Nat /\ c[i] \in Nat /\ b[i] = c[i]
  <2> DEFINE top == j * WordBytes
  <2>1. first \in Nat /\ first >= 1 /\ top \in Nat /\ last = top
    BY <1>1
  <2>2. /\ b \in Seq(Nat) /\ c \in Seq(Nat) /\ Len(b) >= top /\ Len(c) >= top
        /\ \A i \in 1 .. top : b[i] = c[i]
    OBVIOUS
  <2> HIDE DEF first, last, top
  <2>3. \A i \in first .. last : i \in 1 .. top /\ i \in 1 .. Len(b) /\ i \in 1 .. Len(c)
    BY ONLY <2>1, <2>2
  <2> QED BY ONLY <2>2, <2>3
<1> HIDE DEF first, last
<1>3. /\ SubSeq(b, first, last) \in Seq(Nat)
      /\ Len(SubSeq(b, first, last)) = IF first <= last THEN last - first + 1 ELSE 0
      /\ \A i \in 1 .. last - first + 1 : SubSeq(b, first, last)[i] = b[first + i - 1]
  BY <1>1, <1>2, SubSeqProperties
<1>4. /\ SubSeq(c, first, last) \in Seq(Nat)
      /\ Len(SubSeq(c, first, last)) = IF first <= last THEN last - first + 1 ELSE 0
      /\ \A i \in 1 .. last - first + 1 : SubSeq(c, first, last)[i] = c[first + i - 1]
  BY <1>1, <1>2, SubSeqProperties
<1>5. \A i \in 1 .. Len(SubSeq(b, first, last)) : SubSeq(b, first, last)[i] = SubSeq(c, first, last)[i]
  <2> TAKE i \in 1 .. Len(SubSeq(b, first, last))
  <2>1. i \in 1 .. last - first + 1 /\ first + i - 1 \in first .. last
    BY <1>1, <1>3
  <2> QED BY <1>2, <1>3, <1>4, <2>1
<1>6. SubSeq(b, first, last) = SubSeq(c, first, last)
  BY <1>3, <1>4, <1>5, SeqEqual
<1> QED BY <1>6 DEF WordBytesOf, first, last

LEMMA BlockIs ==
  ASSUME NEW D \in Streams, NEW k \in Nat, k > 0
  PROVE  /\ BlockAt(D, k) \in Seq(Nat) /\ Len(BlockAt(D, k)) = BlockLength
         /\ BlockAt(D, k) = [i \in 1 .. BlockLength |-> BlockAt(D, k)[i]]
         /\ \A i \in 1 .. BlockLength : BlockAt(D, k)[i] = D[(k - 1) * BlockLength + i]
<1>1. (k - 1) * BlockLength \in Nat
  BY Sizes
<1> DEFINE at == (k - 1) * BlockLength
<1>2. \A i \in 1 .. BlockLength : D[at + i] \in Nat
  BY <1>1, Sizes DEF Streams
<1> HIDE DEF at
<1> QED BY <1>2, Sizes DEF BlockAt, at

\* The chain of a stream is that of another that begins with the same bytes.
LEMMA ChainSame ==
  ASSUME NEW big \in BOOLEAN, NEW D \in Streams, NEW E \in Streams, NEW n \in Nat,
         \A i \in 1 .. n * BlockLength : D[i] = E[i]
  PROVE  ChainOf(big, D, n) = ChainOf(big, E, n)
<1>1. ASSUME NEW k \in 1 .. n PROVE BlockAt(D, k) = BlockAt(E, k)
  <2>1. ASSUME NEW i \in 1 .. BlockLength PROVE (k - 1) * BlockLength + i \in 1 .. n * BlockLength
    <3>1. k * BlockLength <= n * BlockLength
      BY Sizes
    <3>2. (k - 1) * BlockLength = k * BlockLength - BlockLength /\ (k - 1) * BlockLength \in Nat
      BY Sizes
    <3>3. n * BlockLength \in Nat /\ k * BlockLength \in Nat
      BY Sizes
    <3> QED BY <3>1, <3>2, <3>3, Sizes
  <2>2. ASSUME NEW i \in 1 .. BlockLength PROVE D[(k - 1) * BlockLength + i] = E[(k - 1) * BlockLength + i]
    BY <2>1
  <2> QED BY <2>2 DEF BlockAt
<1> QED BY <1>1 DEF ChainOf

LEMMA ChainIs ==
  ASSUME NEW big \in BOOLEAN, NEW D, NEW n \in Nat
  PROVE  \E S : ChainOf(big, D, n) \in Seq(S)
<1> DEFINE S == {Words(big, BlockAt(D, k)) : k \in Nat}
<1>1. ChainOf(big, D, n) \in Seq(S)
  BY DEF ChainOf
<1> HIDE DEF S
<1> QED BY <1>1

\* The m blocks after the first n.
BlocksFrom(big, D, n, m) == [k \in 1 .. m |-> Words(big, BlockAt(D, n + k))]

LEMMA ChainGrows ==
  ASSUME NEW big \in BOOLEAN, NEW D, NEW n \in Nat, NEW m \in Nat
  PROVE  ChainOf(big, D, n) \o BlocksFrom(big, D, n, m) = ChainOf(big, D, n + m)
<1> DEFINE S == {Words(big, BlockAt(D, k)) : k \in Nat}
           a == ChainOf(big, D, n)
           b == BlocksFrom(big, D, n, m)
           c == ChainOf(big, D, n + m)
<1>1. /\ a \in Seq(S) /\ Len(a) = n /\ b \in Seq(S) /\ Len(b) = m
      /\ c \in Seq(S) /\ Len(c) = n + m
  BY DEF ChainOf, BlocksFrom
<1>2. /\ \A k \in 1 .. n : a[k] = Words(big, BlockAt(D, k))
      /\ \A k \in 1 .. m : b[k] = Words(big, BlockAt(D, n + k))
      /\ \A k \in 1 .. n + m : c[k] = Words(big, BlockAt(D, k))
  BY DEF ChainOf, BlocksFrom
<1> HIDE DEF a, b, c, S
<1>3. /\ a \o b \in Seq(S) /\ Len(a \o b) = n + m
      /\ \A k \in 1 .. n + m : (a \o b)[k] = IF k <= n THEN a[k] ELSE b[k - n]
  BY <1>1, ConcatProperties
<1>4. ASSUME NEW k \in 1 .. n + m PROVE (a \o b)[k] = c[k]
  <2>1. CASE k <= n
    BY <1>2, <1>3, <2>1
  <2>2. CASE k > n
    <3>1. k - n \in 1 .. m /\ n + (k - n) = k
      BY <2>2
    <3> QED BY <1>2, <1>3, <2>2, <3>1
  <2>3. k \in Int /\ n \in Int
    OBVIOUS
  <2>4. k <= n \/ k > n
    BY <2>3
  <2> QED BY <2>1, <2>2, <2>4
<1>5. a \o b = c
  BY <1>1, <1>3, <1>4, SeqEqual
<1> QED BY <1>5 DEF a, b, c

-----------------------------------------------------------------------------
(* What an Update makes of its data.                                        *)

\* The buffer has what came after the last whole block of the first n bytes.
BufferOf(buffer, D, n) ==
  /\ buffer \in [1 .. BlockLength -> Nat]
  /\ \A i \in 1 .. n % BlockLength : buffer[i] = D[(n \div BlockLength) * BlockLength + i]

\* data is what comes after the first n bytes.
NextOf(data, D, n) ==
  data \in Seq(Nat) /\ \A i \in 1 .. Len(data) : data[i] = D[n + i]

\* Bytes of the data, as a sequence.
LEMMA DataPart ==
  ASSUME NEW D \in Streams, NEW n \in Nat, NEW data, NextOf(data, D, n),
         NEW first \in Nat, first > 0, NEW last \in Nat, last <= Len(data), first <= last + 1
  PROVE  /\ NextOf(SubSeq(data, first, last), D, n + first - 1)
         /\ Len(SubSeq(data, first, last)) = last - first + 1
<1>1. \A i \in first .. last : data[i] \in Nat /\ data[i] = D[n + i]
  BY DEF NextOf
<1> DEFINE part == SubSeq(data, first, last)
<1>2. /\ part \in Seq(Nat) /\ Len(part) = IF first <= last THEN last - first + 1 ELSE 0
      /\ \A i \in 1 .. last - first + 1 : part[i] = data[first + i - 1]
  BY <1>1, SubSeqProperties
<1> HIDE DEF part
<1>3. ASSUME NEW i \in 1 .. last - first + 1
      PROVE  part[i] = D[n + first - 1 + i]
  <2>1. first + i - 1 \in first .. last /\ n + (first + i - 1) = n + first - 1 + i
    OBVIOUS
  <2> QED BY <1>1, <1>2, <2>1
<1>4. Len(part) = last - first + 1
  BY <1>2
<1> QED BY <1>2, <1>3, <1>4 DEF part, NextOf

\* A block of the data.
LEMMA PartIsBlock ==
  ASSUME NEW D \in Streams, NEW c \in Nat, c > 0, NEW at, at = (c - 1) * BlockLength,
         NEW part, NextOf(part, D, at), Len(part) = BlockLength
  PROVE  part = BlockAt(D, c)
<1>1. part \in Seq(Nat) /\ \A i \in 1 .. BlockLength : part[i] = D[(c - 1) * BlockLength + i]
  BY DEF NextOf
<1>2. /\ BlockAt(D, c) \in Seq(Nat) /\ Len(BlockAt(D, c)) = BlockLength
      /\ \A i \in 1 .. BlockLength : BlockAt(D, c)[i] = D[(c - 1) * BlockLength + i]
  BY BlockIs
<1> QED BY <1>1, <1>2, SeqEqual

LEMMA DataBlock ==
  ASSUME NEW D \in Streams, NEW n \in Nat, NEW data, NextOf(data, D, n),
         NEW first \in Nat, first > 0, NEW last \in Nat, last <= Len(data),
         last = first + BlockLength - 1,
         NEW c \in Nat, c > 0, NEW at, at = n + first - 1, at = (c - 1) * BlockLength
  PROVE  SubSeq(data, first, last) = BlockAt(D, c)
<1>1. first <= last + 1 /\ BlockLength = last - first + 1
  BY BlockSize
<1>2. NextOf(SubSeq(data, first, last), D, at) /\ Len(SubSeq(data, first, last)) = BlockLength
  BY <1>1, DataPart
<1> QED BY <1>2, PartIsBlock

\* The block that the data completes.
LEMMA FilledBlock ==
  ASSUME NEW D \in Streams, NEW n \in Nat, NEW old \in Nat,
         NEW used \in 1 .. BlockLength - 1, n = old * BlockLength + used,
         NEW buffer, \A i \in 1 .. used : buffer[i] = D[old * BlockLength + i],
         NEW data, NextOf(data, D, n), BlockLength - used <= Len(data)
  PROVE  Copy(buffer, used, SubSeq(data, 1, BlockLength - used)) = BlockAt(D, old + 1)
<1> DEFINE free == BlockLength - used
           part == SubSeq(data, 1, free)
           start == old * BlockLength
<1>1. free \in Nat /\ free > 0 /\ start \in Nat /\ n = start + used
  BY BlockSize, Distribute
<1>2. part \in Seq(Nat) /\ Len(part) = free /\ \A i \in 1 .. free : part[i] = D[n + i]
  <2>1. 1 <= free + 1 /\ free - 1 + 1 = free /\ free <= Len(data)
    BY <1>1
  <2> HIDE DEF free
  <2>2. /\ NextOf(SubSeq(data, 1, free), D, n + 1 - 1)
        /\ Len(SubSeq(data, 1, free)) = free - 1 + 1
    BY <1>1, <2>1, DataPart
  <2>3. n + 1 - 1 = n /\ free - 1 + 1 = free
    BY <1>1
  <2> QED BY <2>2, <2>3 DEF NextOf
<1>3. Copy(buffer, used, part)
        = [i \in 1 .. BlockLength |->
             IF i \in used + 1 .. used + free THEN part[i - used] ELSE buffer[i]]
  BY <1>2 DEF Copy
<1>4. BlockAt(D, old + 1) = [i \in 1 .. BlockLength |-> D[start + i]]
  <2>1. (old + 1) - 1 = old
    OBVIOUS
  <2> QED BY <2>1 DEF BlockAt
<1>5. \A i \in 1 .. used : buffer[i] = D[start + i]
  OBVIOUS
<1>6. used + free = BlockLength
  BY BlockSize
<1> HIDE DEF part, start, free
<1>7. ASSUME NEW i \in 1 .. BlockLength
      PROVE  (IF i \in used + 1 .. used + free THEN part[i - used] ELSE buffer[i])
               = D[start + i]
  <2>1. CASE i <= used
    <3>1. i \in 1 .. used /\ i \notin used + 1 .. used + free
      BY <2>1
    <3> QED BY <1>5, <3>1
  <2>2. CASE i > used
    <3>1. i - used \in 1 .. free /\ n + (i - used) = start + i /\ i \in used + 1 .. used + free
      BY <1>1, <1>6, <2>2, BlockSize
    <3> QED BY <1>2, <3>1
  <2>3. i <= used \/ i > used
    OBVIOUS
  <2> QED BY <2>1, <2>2, <2>3
<1>8. Copy(buffer, used, part) = BlockAt(D, old + 1)
  BY <1>3, <1>4, <1>7
<1> QED BY <1>8 DEF part, free

\* What Absorbed makes of it: the blocks between the whole ones before and after, and the
\* rest.
AbsorbedIs(a, D, old, new, used, len) ==
  /\ a.blocks = [k \in 1 .. new - old |-> BlockAt(D, old + k)]
  /\ a.at \in Nat /\ a.left \in Seq(Nat) /\ a.at + Len(a.left) = len
  /\ \A i \in 1 .. Len(a.left) : a.left[i] = D[new * BlockLength + a.at + i]
  /\ a.at # 0 => new = old /\ a.at = used

\* n is q blocks and r bytes.
Splits(n, q, r) == q \in Nat /\ r \in 0 .. BlockLength - 1 /\ n = q * BlockLength + r

LEMMA SplitsIs ==
  ASSUME NEW n \in Nat, NEW q, NEW r, Splits(n, q, r)
  PROVE  n \div BlockLength = q /\ n % BlockLength = r
<1>1. q \in Int /\ r \in 0 .. BlockLength - 1 /\ n = q * BlockLength + r
  BY DEF Splits
<1> QED BY <1>1, BlockSize, QuotientIs

LEMMA SplitsOf ==
  ASSUME NEW n \in Nat
  PROVE  Splits(n, n \div BlockLength, n % BlockLength)
  BY BlockSize, QuotientOf DEF Splits

LEMMA AbsorbsLess ==
  ASSUME NEW D \in Streams, NEW n \in Nat, NEW data, NextOf(data, D, n),
         NEW buffer, NEW old \in Nat, NEW used \in 1 .. BlockLength - 1,
         n = old * BlockLength + used, Len(data) < BlockLength - used
  PROVE  AbsorbedIs(Absorbed(buffer, used, data), D, old, old, used, used + Len(data))
<1>1. Absorbed(buffer, used, data) = [blocks |-> <<>>, left |-> data, at |-> used]
  BY DEF Absorbed
<1>2. data \in Seq(Nat) /\ \A i \in 1 .. Len(data) : data[i] = D[old * BlockLength + used + i]
  BY DEF NextOf
<1>3. <<>> = [k \in 1 .. old - old |-> BlockAt(D, old + k)]
  OBVIOUS
<1> QED BY <1>1, <1>2, <1>3 DEF AbsorbedIs

\* The bytes of the data, m, fill the buffer if it holds anything (f), which takes the
\* first ones (skip), and are whole blocks, of wb bytes, and the rest after that.
Counts(n, old, used, m, f, skip, whole, wb, rest, new) ==
  /\ used \in 0 .. BlockLength - 1 /\ rest \in 0 .. BlockLength - 1
  /\ f \in {0, 1} /\ (f = 1 <=> used > 0)
  /\ skip \in Nat /\ whole \in Nat /\ wb \in Nat /\ new \in Nat
  /\ (used > 0 => skip = BlockLength - used) /\ (used = 0 => skip = 0)
  /\ new = old + f + whole /\ m = skip + wb + rest

\* The products.
CountBytes(n, old, used, f, skip, whole, wb, new) ==
  /\ wb = whole * BlockLength /\ n = old * BlockLength + used
  /\ n + skip = (old + f) * BlockLength
  /\ n + skip + wb = new * BlockLength

LEMMA CountsOf ==
  ASSUME NEW n \in Nat, NEW old \in Nat, NEW used, Splits(n, old, used),
         NEW m \in Nat, ~(used > 0 /\ m < BlockLength - used)
  PROVE  \E f, skip, whole, wb, rest, new :
           /\ Counts(n, old, used, m, f, skip, whole, wb, rest, new)
           /\ CountBytes(n, old, used, f, skip, whole, wb, new)
           /\ whole = (m - skip) \div BlockLength
<1>1. BlockLength \in Nat /\ BlockLength > 0
  BY BlockSize
<1>2. used \in 0 .. BlockLength - 1 /\ n = old * BlockLength + used
  BY DEF Splits
<1>3. PICK f \in {0, 1}, skip \in Nat :
        /\ f = 1 <=> used > 0 
        /\ used > 0 => skip = BlockLength - used
        /\ used = 0 => skip = 0
  <2>1. CASE used > 0
    <3>1. BlockLength - used \in Nat /\ used # 0 /\ 1 \in {0, 1}
      BY <1>1, <1>2, <2>1
    <3> QED BY <2>1, <3>1
  <2>2. CASE ~(used > 0)
    BY <1>2, <2>2
  <2> QED BY <2>1, <2>2
<1>4. m - skip \in Nat
  BY <1>1, <1>2, <1>3
<1> DEFINE whole == (m - skip) \div BlockLength
           rest == (m - skip) % BlockLength
           wb == whole * BlockLength
           new == old + f + whole
<1>5. whole \in Nat /\ rest \in 0 .. BlockLength - 1 /\ m - skip = wb + rest
  BY <1>1, <1>4, QuotientOf
<1> HIDE DEF whole, rest
<1>6. wb \in Nat /\ new \in Nat
  BY <1>1, <1>3, <1>5
<1>7. n + skip = (old + f) * BlockLength
  <2>1. CASE used > 0
    <3>1. (old + 1) * BlockLength = old * BlockLength + BlockLength
      BY <1>1
    <3>2. old * BlockLength \in Nat
      BY <1>1
    <3> DEFINE ob == old * BlockLength
    <3> HIDE DEF ob
    <3>3. n + skip = ob + BlockLength
      BY <1>1, <1>2, <1>3, <2>1, <3>2 DEF ob
    <3> QED BY <1>3, <2>1, <3>1, <3>3 DEF ob
  <2>2. CASE used = 0
    BY <1>1, <1>2, <1>3, <2>2
  <2> QED BY <1>2, <2>1, <2>2
<1>8. n + skip + wb = new * BlockLength
  <2>1. ((old + f) + whole) * BlockLength = (old + f) * BlockLength + whole * BlockLength
    BY <1>1, <1>3, <1>5
  <2>2. new * BlockLength = ((old + f) + whole) * BlockLength
    OBVIOUS
  <2> QED BY <1>7, <2>1, <2>2
<1>9. m = skip + wb + rest
  <2> HIDE DEF wb
  <2> QED BY <1>3, <1>5, <1>6
<1>10. Counts(n, old, used, m, f, skip, whole, wb, rest, new)
  <2>1. new = old + f + whole
    OBVIOUS
  <2> HIDE DEF wb, new
  <2> QED BY <1>2, <1>3, <1>5, <1>6, <1>9, <2>1 DEF Counts
<1>11. CountBytes(n, old, used, f, skip, whole, wb, new)
  <2>1. wb = whole * BlockLength
    OBVIOUS
  <2> HIDE DEF wb, new
  <2> QED BY <1>2, <1>7, <1>8, <2>1 DEF CountBytes
<1>12. whole = (m - skip) \div BlockLength
  BY DEF whole
<1> HIDE DEF wb, new
<1> QED BY <1>10, <1>11, <1>12

\* The whole blocks.
LEMMA MoreBlocks ==
  ASSUME NEW D \in Streams, NEW n \in Nat, NEW data, NextOf(data, D, n), NEW old \in Nat,
         NEW used, NEW f, NEW skip, NEW whole, NEW wb, NEW rest, NEW new,
         Counts(n, old, used, Len(data), f, skip, whole, wb, rest, new),
         CountBytes(n, old, used, f, skip, whole, wb, new),
         NEW k \in 1 .. whole
  PROVE  SubSeq(data, skip + (k - 1) * BlockLength + 1, skip + k * BlockLength)
           = BlockAt(D, old + f + k)
<1>1. PICK kb : kb = k * BlockLength
  OBVIOUS
<1>2. PICK lb : lb = (k - 1) * BlockLength
  OBVIOUS
<1>3. BlockLength \in Nat /\ BlockLength > 0
  BY BlockSize
<1>4. whole \in Nat /\ f \in {0, 1} /\ skip \in Nat /\ wb \in Nat
  BY DEF Counts
<1>5. kb \in Nat /\ lb \in Nat /\ kb = lb + BlockLength /\ kb <= wb
  <2>1. lb = k * BlockLength - BlockLength /\ lb >= 0 /\ k * BlockLength \in Int
    BY <1>2, <1>3, <1>4
  <2>2. (whole - k) * BlockLength = whole * BlockLength - k * BlockLength
    BY <1>3, <1>4
  <2>3. (whole - k) * BlockLength >= 0 /\ whole * BlockLength \in Int
    BY <1>3, <1>4
  <2>4. wb = whole * BlockLength
    BY DEF CountBytes
  <2>5. wb - kb >= 0
    BY <1>1, <2>2, <2>3, <2>4
  <2>6. lb = kb - BlockLength /\ lb >= 0 /\ kb \in Int
    BY <1>1, <2>1
  <2> QED BY <1>3, <1>4, <2>5, <2>6
<1>6. PICK at : at = n + skip + lb
  OBVIOUS
<1>7. at = ((old + f + k) - 1) * BlockLength
  <2>1. (old + f + k) - 1 = (old + f) + (k - 1)
    BY <1>4
  <2>2. ((old + f) + (k - 1)) * BlockLength = (old + f) * BlockLength + (k - 1) * BlockLength
    BY <1>3, <1>4
  <2>3. n + skip = (old + f) * BlockLength
    BY DEF CountBytes
  <2> QED BY <1>2, <1>6, <2>1, <2>2, <2>3
<1>8. PICK c \in Nat : c = old + f + k /\ c > 0
  BY <1>4
<1>9. PICK first \in Nat, last \in Nat :
        /\ first = skip + lb + 1 /\ last = skip + kb /\ first > 0
        /\ last = first + BlockLength - 1 /\ at = n + first - 1
  <2>1. skip + lb + 1 \in Nat /\ skip + kb \in Nat /\ skip + lb + 1 > 0
    BY <1>4, <1>5
  <2>2. skip + kb = (skip + lb + 1) + BlockLength - 1
    BY <1>3, <1>4, <1>5
  <2>3. at = n + (skip + lb + 1) - 1
    BY <1>4, <1>5, <1>6
  <2> QED BY <2>1, <2>2, <2>3
<1>10. last <= Len(data)
  <2> DEFINE m == Len(data)
  <2>1. m = skip + wb + rest /\ rest \in 0 .. BlockLength - 1
    BY DEF Counts
  <2> HIDE DEF m
  <2>2. last <= m
    BY <1>3, <1>4, <1>5, <1>9, <2>1
  <2> QED BY <2>2 DEF m
<1>11. at = (c - 1) * BlockLength
  BY <1>7, <1>8
<1>12. SubSeq(data, first, last) = BlockAt(D, c)
  BY ONLY <1>8, <1>9, <1>10, <1>11, D \in Streams, n \in Nat, NextOf(data, D, n),
          DataBlock, SMTT(30)
<1> QED BY <1>1, <1>2, <1>8, <1>9, <1>12

\* The rest.
RestIs(left, D, at, len) == NextOf(left, D, at) /\ Len(left) = len

LEMMA RestOf ==
  ASSUME NEW D \in Streams, NEW n \in Nat, NEW data, NextOf(data, D, n), NEW old \in Nat,
         NEW used, NEW f, NEW skip, NEW whole, NEW wb, NEW rest, NEW new,
         Counts(n, old, used, Len(data), f, skip, whole, wb, rest, new),
         CountBytes(n, old, used, f, skip, whole, wb, new)
  PROVE  RestIs(SubSeq(data, skip + wb + 1, Len(data)), D, new * BlockLength, rest)
<1>1. PICK last \in Nat : last = Len(data)
  BY DEF NextOf
<1>2. /\ last = skip + wb + rest /\ rest \in Nat
      /\ skip \in Nat /\ wb \in Nat
  BY <1>1, BlockSize DEF Counts
<1>3. PICK first \in Nat :
        /\ first = skip + wb + 1 /\ first > 0 /\ first <= last + 1
        /\ rest = last - first + 1 /\ n + skip + wb = n + first - 1
  <2>1. /\ skip + wb + 1 \in Nat /\ skip + wb + 1 > 0 /\ skip + wb + 1 <= last + 1
        /\ rest = last - (skip + wb + 1) + 1 /\ n + skip + wb = n + (skip + wb + 1) - 1
    BY <1>2
  <2> QED BY <2>1
<1>4. last <= Len(data)
  BY <1>1
<1>5. n + skip + wb = new * BlockLength
  BY DEF CountBytes
<1>6. /\ NextOf(SubSeq(data, first, last), D, n + first - 1)
      /\ Len(SubSeq(data, first, last)) = last - first + 1
  BY <1>3, <1>4, DataPart
<1>7. n + first - 1 = new * BlockLength
  BY <1>3, <1>5
<1> QED BY <1>1, <1>3, <1>6, <1>7 DEF RestIs

LEMMA Concatenated ==
  ASSUME NEW S, NEW a \in Seq(S), NEW b \in Seq(S), NEW c \in Seq(S),
         Len(c) = Len(a) + Len(b),
         \A k \in 1 .. Len(a) : c[k] = a[k],
         \A k \in 1 .. Len(b) : c[Len(a) + k] = b[k]
  PROVE  a \o b = c
<1> DEFINE m == Len(a)
           n == Len(b)
<1>1. m \in Nat /\ n \in Nat
  OBVIOUS
<1>2. /\ a \o b \in Seq(S) /\ Len(a \o b) = m + n
      /\ \A k \in 1 .. m + n : (a \o b)[k] = (IF k <= m THEN a[k] ELSE b[k - m])
  BY ConcatProperties
<1>3. /\ \A k \in 1 .. m : c[k] = a[k]
      /\ \A k \in 1 .. n : c[m + k] = b[k]
  OBVIOUS
<1> HIDE DEF m, n
<1>4. ASSUME NEW k \in 1 .. m + n PROVE (a \o b)[k] = c[k]
  <2>1. CASE k <= m
    BY <1>1, <1>2, <1>3, <2>1
  <2>2. CASE k > m
    <3>1. k - m \in 1 .. n /\ m + (k - m) = k /\ ~(k <= m)
      BY <1>1, <2>2
    <3>2. c[m + (k - m)] = b[k - m]
      BY <1>3, <3>1
    <3> QED BY <1>2, <3>1, <3>2
  <2>3. k <= m \/ k > m
    BY <1>1
  <2> QED BY <2>1, <2>2, <2>3
<1>5. Len(c) = m + n
  BY DEF m, n
<1> QED BY <1>2, <1>4, <1>5, SeqEqual

\* The block that fills the buffer, and those that follow.
FilledIs(filled, D, old, f) == filled = IF f = 1 THEN <<BlockAt(D, old + 1)>> ELSE <<>>
MoreIs(more, D, old, f, whole) == more = [k \in 1 .. whole |-> BlockAt(D, old + f + k)]

LEMMA BlocksFollow ==
  ASSUME NEW D \in Streams, NEW old \in Nat, NEW f \in {0, 1}, NEW whole \in Nat,
         NEW filled, FilledIs(filled, D, old, f), NEW more, MoreIs(more, D, old, f, whole)
  PROVE  filled \o more = [k \in 1 .. f + whole |-> BlockAt(D, old + k)]
<1> DEFINE S == {BlockAt(D, k) : k \in Nat}
           all == [k \in 1 .. f + whole |-> BlockAt(D, old + k)]
<1>1. \A k \in Nat : BlockAt(D, k) \in S
  OBVIOUS
<1>2. f + whole \in Nat /\ old + 1 \in Nat
  OBVIOUS
<1>3. \A k \in 1 .. whole : old + f + k \in Nat
  OBVIOUS
<1>4. \A k \in 1 .. f + whole : old + k \in Nat
  BY <1>2
<1> HIDE DEF S
<1>5. /\ more \in Seq(S) /\ Len(more) = whole
      /\ \A k \in 1 .. whole : more[k] = BlockAt(D, old + f + k)
  BY <1>1, <1>3 DEF MoreIs
<1>6. filled \in Seq(S) /\ Len(filled) = f /\ (f = 1 => filled[1] = BlockAt(D, old + 1))
  <2>1. CASE f = 1
    BY <1>1, <1>2, <2>1 DEF FilledIs
  <2>2. CASE f = 0
    BY <2>2 DEF FilledIs
  <2> QED BY <2>1, <2>2
<1>7. /\ all \in Seq(S) /\ Len(all) = f + whole
      /\ \A k \in 1 .. f + whole : all[k] = BlockAt(D, old + k)
  BY <1>1, <1>2, <1>4
<1> HIDE DEF all
<1>8. \A k \in 1 .. Len(filled) : all[k] = filled[k]
  <2> SUFFICES ASSUME NEW k \in 1 .. f PROVE all[k] = filled[k]
    BY <1>6
  <2>1. k = 1 /\ f = 1 /\ k \in 1 .. f + whole
    OBVIOUS
  <2> QED BY <1>6, <1>7, <2>1
<1>9. \A k \in 1 .. Len(more) : all[Len(filled) + k] = more[k]
  <2> SUFFICES ASSUME NEW k \in 1 .. whole PROVE all[f + k] = more[k]
    BY <1>5, <1>6
  <2>1. f + k \in 1 .. f + whole /\ old + (f + k) = old + f + k
    OBVIOUS
  <2> QED BY <1>5, <1>7, <2>1
<1>10. Len(all) = Len(filled) + Len(more)
  BY <1>5, <1>6, <1>7
<1>11. filled \o more = all
  BY <1>5, <1>6, <1>7, <1>8, <1>9, <1>10, Concatenated
<1> QED BY <1>11 DEF all

LEMMA AbsorbsBlocks ==
  ASSUME NEW D \in Streams, NEW n \in Nat, NEW data, NextOf(data, D, n),
         NEW old \in Nat, NEW used, NEW f, NEW skip, NEW whole, NEW wb, NEW rest, NEW new,
         NEW buffer, \A i \in 1 .. used : buffer[i] = D[old * BlockLength + i],
         Counts(n, old, used, Len(data), f, skip, whole, wb, rest, new),
         CountBytes(n, old, used, f, skip, whole, wb, new),
         whole = (Len(data) - skip) \div BlockLength
  PROVE  AbsorbedIs(Absorbed(buffer, used, data), D, old, new, used, rest)
<1> DEFINE free == BlockLength - used
           filled == IF used > 0 THEN <<Copy(buffer, used, SubSeq(data, 1, free))>> ELSE <<>>
           more == [k \in 1 .. whole |->
                      SubSeq(data, skip + (k - 1) * BlockLength + 1, skip + k * BlockLength)]
           left == SubSeq(data, skip + wb + 1, Len(data))
<1>1. PICK m \in Nat : m = Len(data)
  BY DEF NextOf
<1>2. /\ used \in 0 .. BlockLength - 1 /\ f \in {0, 1} /\ (f = 1 <=> used > 0)
      /\ whole \in Nat /\ wb \in Nat /\ rest \in Nat /\ skip \in Nat
      /\ m = skip + wb + rest /\ new = old + f + whole
  BY <1>1, BlockSize DEF Counts
<1>2a. skip = (IF used > 0 THEN free ELSE 0)
  BY <1>2 DEF Counts
<1>3. ~(used > 0 /\ m < BlockLength - used)
  BY <1>2, BlockSize DEF Counts
<1>4. wb = whole * BlockLength /\ n = old * BlockLength + used
  BY DEF CountBytes
<1>5. Absorbed(buffer, used, data) = [blocks |-> filled \o more, left |-> left, at |-> 0]
  BY <1>1, <1>2a, <1>3, <1>4 DEF Absorbed
<1>6. more = [k \in 1 .. whole |-> BlockAt(D, old + f + k)]
  <2>1. ASSUME NEW k \in 1 .. whole
        PROVE  SubSeq(data, skip + (k - 1) * BlockLength + 1, skip + k * BlockLength)
                 = BlockAt(D, old + f + k)
    BY MoreBlocks
  <2> QED BY <2>1
<1>7. ASSUME f = 1 PROVE filled = <<BlockAt(D, old + 1)>>
  <2>1. used \in 1 .. BlockLength - 1 /\ used > 0
    BY <1>2, <1>7
  <2>2. BlockLength - used <= Len(data)
    BY <1>1, <1>3, <2>1, BlockSize
  <2>3. Copy(buffer, used, SubSeq(data, 1, free)) = BlockAt(D, old + 1)
    BY <1>4, <2>1, <2>2, FilledBlock
  <2> QED BY <2>1, <2>3
<1>8. ASSUME f = 0 PROVE filled = <<>>
  BY <1>2, <1>8
<1>9. left \in Seq(Nat) /\ Len(left) = rest /\ \A i \in 1 .. rest : left[i] = D[new * BlockLength + i]
  <2>0. RestIs(SubSeq(data, skip + wb + 1, Len(data)), D, new * BlockLength, rest)
    BY RestOf
  <2>1. NextOf(left, D, new * BlockLength) /\ Len(left) = rest
    BY <2>0 DEF RestIs
  <2> HIDE DEF left
  <2> QED BY <2>1 DEF NextOf
<1>10. filled \o more = [k \in 1 .. f + whole |-> BlockAt(D, old + k)]
  <2> HIDE DEF filled, more, left
  <2>1. f \in {0, 1} /\ whole \in Nat
    BY <1>2
  <2>2. FilledIs(filled, D, old, f)
    BY <1>7, <1>8, <2>1 DEF FilledIs
  <2>3. MoreIs(more, D, old, f, whole)
    BY <1>6 DEF MoreIs
  <2> QED BY <2>1, <2>2, <2>3, BlocksFollow
<1> HIDE DEF filled, more, left
<1>11. new - old = f + whole
  BY <1>2
<1>12. 0 + Len(left) = rest /\ \A i \in 1 .. Len(left) : left[i] = D[new * BlockLength + 0 + i]
  <2>1. new * BlockLength \in Int
    BY <1>2, BlockSize
  <2> DEFINE nb == new * BlockLength
  <2>2. \A i \in 1 .. Len(left) : left[i] = D[nb + i]
    BY <1>9
  <2>3. Len(left) = rest /\ rest \in Nat /\ nb \in Int
    BY <1>2, <1>9, <2>1
  <2> HIDE DEF nb
  <2>4. nb + 0 = nb /\ 0 + Len(left) = rest
    BY ONLY <2>3
  <2>5. \A i \in 1 .. Len(left) : left[i] = D[nb + 0 + i]
    BY ONLY <2>2, <2>4
  <2> QED BY <2>4, <2>5 DEF nb
<1> QED BY <1>5, <1>9, <1>10, <1>11, <1>12 DEF AbsorbedIs

LEMMA AbsorbsIt ==
  ASSUME NEW D \in Streams, NEW n \in Nat, NEW buffer, BufferOf(buffer, D, n),
         NEW data, NextOf(data, D, n),
         NEW sum \in Nat, sum = n + Len(data)
  PROVE  /\ n \div BlockLength <= sum \div BlockLength
         /\ AbsorbedIs(Absorbed(buffer, n % BlockLength, data), D,
                       n \div BlockLength, sum \div BlockLength,
                       n % BlockLength, sum % BlockLength)
<1> DEFINE used == n % BlockLength
           old == n \div BlockLength
           m == Len(data)
           a == Absorbed(buffer, used, data)
<1>1. Splits(n, old, used)
  BY SplitsOf
<1>2. m \in Nat
  BY DEF NextOf
<1> HIDE DEF used, old
<1>3. used \in 0 .. BlockLength - 1 /\ old \in Nat /\ n = old * BlockLength + used
  BY <1>1 DEF Splits
<1>4. CASE used > 0 /\ m < BlockLength - used
  <2>1. used \in 1 .. BlockLength - 1 /\ used + m \in 0 .. BlockLength - 1
    BY <1>2, <1>3, <1>4, BlockSize
  <2>2. Splits(sum, old, used + m)
    <3>1. old * BlockLength \in Int
      BY <1>3, BlockSize, Distribute
    <3> QED BY <1>2, <1>3, <2>1, <3>1 DEF Splits
  <2>3. sum \div BlockLength = old /\ sum % BlockLength = used + m
    BY <2>2, SplitsIs
  <2>4. AbsorbedIs(a, D, old, old, used, used + Len(data))
    BY <1>3, <1>4, <2>1, AbsorbsLess
  <2> QED BY <1>3, <2>3, <2>4 DEF used, old
<1>5. CASE ~(used > 0 /\ m < BlockLength - used)
  <2>1. PICK f, skip, whole, wb, rest, new :
          /\ Counts(n, old, used, m, f, skip, whole, wb, rest, new)
          /\ CountBytes(n, old, used, f, skip, whole, wb, new)
          /\ whole = (m - skip) \div BlockLength
    BY <1>1, <1>2, <1>3, <1>5, CountsOf
  <2>2. \A i \in 1 .. used : buffer[i] = D[old * BlockLength + i]
    BY DEF BufferOf, used, old
  <2>3. AbsorbedIs(a, D, old, new, used, rest)
    BY <1>3, <2>1, <2>2, AbsorbsBlocks
  <2>4. rest \in 0 .. BlockLength - 1 /\ new \in Nat /\ old <= new
    BY ONLY <1>3, <2>1 DEF Counts
  <2>5. Splits(sum, new, rest)
    <3>1. n + skip + wb = new * BlockLength
      BY <2>1 DEF CountBytes
    <3>2. sum = n + m /\ m = skip + wb + rest /\ skip \in Nat /\ wb \in Nat
      BY <2>1 DEF Counts
    <3>3. sum = (n + skip + wb) + rest
      BY <2>4, <3>2
    <3> QED BY <2>4, <3>1, <3>3 DEF Splits
  <2>6. sum \div BlockLength = new /\ sum % BlockLength = rest
    BY <2>5, SplitsIs
  <2> QED BY <2>3, <2>4, <2>6 DEF used, old
<1> QED BY <1>4, <1>5

\* The buffer after data has been copied to it.
LEMMA CopiedIs ==
  ASSUME NEW D \in Streams, NEW sum \in Nat, NEW new \in Nat, NEW rest, Splits(sum, new, rest),
         NEW at \in Nat, NEW left \in Seq(Nat), at + Len(left) = rest,
         \A i \in 1 .. Len(left) : left[i] = D[new * BlockLength + at + i],
         NEW stale \in [1 .. BlockLength -> Nat],
         \A i \in 1 .. at : stale[i] = D[new * BlockLength + i]
  PROVE  BufferOf(Copy(stale, at, left), D, sum)
<1>1. sum \div BlockLength = new /\ sum % BlockLength = rest
  BY SplitsIs
<1>2. rest \in 0 .. BlockLength - 1 /\ BlockLength \in Nat
  BY BlockSize DEF Splits
<1>3. new * BlockLength \in Nat
  BY <1>2
<1> DEFINE start == new * BlockLength
           len == Len(left)
           b == Copy(stale, at, left)
<1>4. len \in Nat /\ at + len = rest
  OBVIOUS
<1>5. b = [i \in 1 .. BlockLength |-> IF i \in at + 1 .. at + len THEN left[i - at] ELSE stale[i]]
  BY DEF Copy
<1>6. /\ \A i \in 1 .. len : left[i] = D[start + at + i] /\ left[i] \in Nat
      /\ \A i \in 1 .. at : stale[i] = D[start + i]
  OBVIOUS
<1> HIDE DEF start, len, b
<1>7. ASSUME NEW i \in 1 .. BlockLength PROVE b[i] \in Nat /\ (i <= rest => b[i] = D[start + i])
  <2>1. CASE i \in at + 1 .. at + len
    <3>1. i - at \in 1 .. len /\ start + at + (i - at) = start + i
      BY <1>3, <1>4, <2>1 DEF start
    <3> QED BY <1>5, <1>6, <2>1, <3>1
  <2>2. CASE i \notin at + 1 .. at + len
    <3>1. b[i] = stale[i]
      BY <1>5, <2>2
    <3>2. i <= rest => i \in 1 .. at
      BY <1>2, <1>4, <2>2
    <3> QED BY <1>6, <3>1, <3>2
  <2> QED BY <2>1, <2>2
<1>8. b \in [1 .. BlockLength -> Nat]
  BY <1>5, <1>7
<1>9. \A i \in 1 .. rest : b[i] = D[start + i]
  BY <1>2, <1>7
<1> QED BY <1>1, <1>8, <1>9 DEF BufferOf, b, start

\* What a context has hashed: its chain and its buffer.
Hashed(chain, buffer, big, D, n) ==
  chain = ChainOf(big, D, n \div BlockLength) /\ BufferOf(buffer, D, n)

\* Data is taken, and left in a buffer that holds what it held where no block was made.
LEMMA Taken ==
  ASSUME NEW D \in Streams, NEW n \in Nat, NEW big \in BOOLEAN, NEW chain, NEW buffer,
         Hashed(chain, buffer, big, D, n),
         NEW data, NextOf(data, D, n),
         NEW sum \in Nat, sum = n + Len(data),
         NEW a, a = Absorbed(buffer, n % BlockLength, data)
  PROVE  /\ Len(a.blocks) \in Nat
         /\ \A k \in 1 .. Len(a.blocks) : a.blocks[k] \in [1 .. BlockLength -> Nat]
         /\ \A stale \in [1 .. BlockLength -> Nat] :
              (Len(a.blocks) = 0 => stale = buffer)
                => Hashed(chain \o [k \in 1 .. Len(a.blocks) |-> Words(big, a.blocks[k])],
                          Copy(stale, a.at, a.left), big, D, sum)
<1> DEFINE old == n \div BlockLength
           used == n % BlockLength
           new == sum \div BlockLength
           rest == sum % BlockLength
<1>1. chain = ChainOf(big, D, old) /\ BufferOf(buffer, D, n)
  BY DEF Hashed
<1>2. AbsorbedIs(a, D, old, new, used, rest) /\ old <= new
  BY <1>1, AbsorbsIt
<1>3. Splits(n, old, used) /\ Splits(sum, new, rest)
  BY SplitsOf
<1>4. \A i \in 1 .. used : buffer[i] = D[old * BlockLength + i]
  BY <1>1 DEF BufferOf
<1>5. buffer \in [1 .. BlockLength -> Nat]
  BY <1>1 DEF BufferOf
<1> HIDE DEF old, used, new, rest
<1>6. old \in Nat /\ new \in Nat /\ new - old \in Nat
  BY <1>2, <1>3 DEF Splits
<1> DEFINE m == new - old
<1>7. a.blocks = [k \in 1 .. m |-> BlockAt(D, old + k)]
  BY <1>2 DEF AbsorbedIs
<1>8. Len(a.blocks) = m
  BY <1>6, <1>7
<1>9. ASSUME NEW k \in 1 .. m
      PROVE  a.blocks[k] = BlockAt(D, old + k) /\ BlockAt(D, old + k) \in [1 .. BlockLength -> Nat]
  <2>1. old + k \in Nat /\ old + k > 0
    BY <1>6
  <2>2. \A i \in 1 .. BlockLength : BlockAt(D, old + k)[i] \in Nat
    BY <2>1, BlockIs, ElementOfSeq
  <2>3. BlockAt(D, old + k) = [i \in 1 .. BlockLength |-> BlockAt(D, old + k)[i]]
    BY <2>1, BlockIs
  <2>4. BlockAt(D, old + k) \in [1 .. BlockLength -> Nat]
    BY <2>2, <2>3
  <2> QED BY <1>7, <2>4
<1>10. chain \o [k \in 1 .. m |-> Words(big, a.blocks[k])] = ChainOf(big, D, new)
  <2>1. [k \in 1 .. m |-> Words(big, a.blocks[k])]
          = BlocksFrom(big, D, old, m)
    BY <1>9 DEF BlocksFrom
  <2>2. ChainOf(big, D, old) \o BlocksFrom(big, D, old, m) = ChainOf(big, D, old + m)
    <3> HIDE DEF m
    <3>1. m \in Nat
      BY <1>6 DEF m
    <3> QED BY <1>6, <3>1, ChainGrows
  <2>3. old + m = new
    BY <1>6
  <2> QED BY <1>1, <2>1, <2>2, <2>3
<1>11. ASSUME NEW stale \in [1 .. BlockLength -> Nat], Len(a.blocks) = 0 => stale = buffer
       PROVE  BufferOf(Copy(stale, a.at, a.left), D, sum)
  <2> DEFINE at == a.at
             left == a.left
  <2>1. /\ at \in Nat /\ left \in Seq(Nat) /\ at + Len(left) = rest
        /\ \A i \in 1 .. Len(left) : left[i] = D[new * BlockLength + at + i]
        /\ (at # 0 => new = old /\ at = used)
    BY <1>2 DEF AbsorbedIs
  <2> HIDE DEF at, left
  <2>2. \A i \in 1 .. at : stale[i] = D[new * BlockLength + i]
    <3>1. CASE at # 0
      <4>1. new = old /\ at = used
        BY <2>1, <3>1
      <4>2. m = 0
        BY <1>6, <4>1
      <4>3. stale = buffer
        BY <1>8, <1>11, <4>2
      <4> QED BY <1>4, <4>1, <4>3
    <3>2. CASE at = 0
      BY <3>2
    <3> QED BY <3>1, <3>2
  <2>3. BufferOf(Copy(stale, at, left), D, sum)
    BY <1>3, <1>6, <2>1, <2>2, CopiedIs
  <2> QED BY <2>3 DEF at, left
<1>12. new = sum \div BlockLength
  BY DEF new
<1>13. chain \o [k \in 1 .. Len(a.blocks) |-> Words(big, a.blocks[k])] = ChainOf(big, D, new)
  BY <1>8, <1>10
<1>14. m \in Nat
  BY <1>6
<1> HIDE DEF m
<1>15. Len(a.blocks) \in Nat /\ \A k \in 1 .. Len(a.blocks) : a.blocks[k] \in [1 .. BlockLength -> Nat]
  BY <1>8, <1>9, <1>14
<1> QED BY <1>11, <1>12, <1>13, <1>15 DEF Hashed

\* The words of a block in host order are again bytes of it.
LEMMA HostOrderIs ==
  ASSUME NEW b \in [1 .. BlockLength -> Nat]
  PROVE  HostOrder(b) \in [1 .. BlockLength -> Nat]
<1>1. ASSUME NEW i \in 1 .. BlockLength
      PROVE  ((i - 1) \div WordBytes) * WordBytes + WordBytes - ((i - 1) % WordBytes)
               \in 1 .. BlockLength
  <2> DEFINE j == i - 1
             q == j \div WordBytes
             r == j % WordBytes
             qw == q * WordBytes
  <2>1. j \in Nat /\ j < BlockLength /\ BlockLength = WordBytes * BlockWords
    BY BlockSize DEF BlockLength
  <2> HIDE DEF j
  <2>2. q \in Nat /\ r \in 0 .. WordBytes - 1 /\ j = q * WordBytes + r
    BY <2>1, SizesAssumption, ByteAssumption, QuotientOf
  <2> HIDE DEF q, r
  <2>3. q <= BlockWords - 1
    <3> SUFFICES ASSUME q >= BlockWords PROVE FALSE
      BY <2>2, SizesAssumption, ByteAssumption
    <3>1. q * WordBytes >= BlockWords * WordBytes
      BY <2>2, SizesAssumption, ByteAssumption
    <3>2. q * WordBytes \in Nat /\ BlockWords * WordBytes = BlockLength
      BY <2>1, <2>2, SizesAssumption, ByteAssumption
    <3>3. j >= BlockLength
      BY <2>1, <2>2, <3>1, <3>2, BlockSize
    <3> QED BY <2>1, <3>3, BlockSize
  <2>4. qw \in Nat /\ qw <= BlockLength - WordBytes
    <3>1. q * WordBytes <= (BlockWords - 1) * WordBytes /\ q * WordBytes \in Nat
      BY <2>2, <2>3, SizesAssumption, ByteAssumption
    <3>2. (BlockWords - 1) * WordBytes = BlockLength - WordBytes
      BY <2>1, SizesAssumption, ByteAssumption
    <3> QED BY <3>1, <3>2
  <2> HIDE DEF qw
  <2>5. qw + WordBytes - r \in 1 .. BlockLength
    BY <2>2, <2>4, SizesAssumption, ByteAssumption, BlockSize
  <2> QED BY <2>5 DEF qw, q, r, j
<1> QED BY <1>1 DEF HostOrder

-----------------------------------------------------------------------------
(* The counts.                                                              *)

BlocksFit == Radix % (ByteBits * BlockLength) = 0

LEMMA QuotientPlus ==
  ASSUME NEW x \in Nat, NEW y \in Nat, NEW b \in Nat, b > 0
  PROVE  (x * b + y) \div b = x + (y \div b) /\ (x * b + y) % b = y % b
<1> DEFINE q == y \div b
           r == y % b
<1>1. q \in Nat /\ r \in 0 .. b - 1 /\ y = q * b + r
  BY QuotientOf
<1> HIDE DEF q, r
<1>2. x * b + y = (x + q) * b + r
  <2>1. (x + q) * b = x * b + q * b
    BY <1>1
  <2>2. x * b \in Nat /\ q * b \in Nat
    BY <1>1
  <2> DEFINE xb == x * b
             qb == q * b
  <2> HIDE DEF xb, qb
  <2> QED BY <1>1, <2>1, <2>2 DEF xb, qb
<1>3. x + q \in Int
  BY <1>1
<1>4. ((x + q) * b + r) \div b = x + q /\ ((x + q) * b + r) % b = r
  BY <1>1, <1>3, QuotientIs
<1> QED BY <1>2, <1>4 DEF q, r

\* A word counts a number of blocks.
LEMMA WordOfBlocks ==
  ASSUME BlocksFit
  PROVE  \E j \in Nat \ {0} :
           /\ Radix = (j * BlockLength) * ByteBits
           /\ Radix = (j * ByteBits) * BlockLength
           /\ ByteBits * BlockLength <= Radix
<1> DEFINE bb == ByteBits * BlockLength
           j == Radix \div bb
<1>1. bb \in Nat /\ bb > 0 /\ Radix \in Nat /\ Radix > 0
  BY BlockSize, Sizes, SizesAssumption, ByteAssumption
<1>2. j \in Nat /\ Radix = j * bb
  <2>1. Radix % bb = 0
    BY DEF BlocksFit
  <2> HIDE DEF bb
  <2>2. j \in Nat /\ Radix = j * bb + (Radix % bb)
    BY <1>1, QuotientOf
  <2>3. j * bb \in Nat
    BY <1>1, <2>2
  <2> DEFINE jb == j * bb
  <2> HIDE DEF jb
  <2>4. Radix = jb
    BY <2>1, <2>2, <2>3 DEF jb
  <2> QED BY <2>2, <2>4 DEF jb
<1> HIDE DEF j
<1>3. j # 0
  BY <1>1, <1>2
<1>4. j * bb = (j * BlockLength) * ByteBits /\ j * bb = (j * ByteBits) * BlockLength
  BY <1>2, BlockSize, SizesAssumption, ByteAssumption
<1>5. bb <= j * bb
  <2> HIDE DEF bb
  <2> QED BY <1>1, <1>2, <1>3
<1> QED BY <1>2, <1>3, <1>4, <1>5

\* The bytes in the buffer, from a count of bits that is kept modulo m.
LEMMA UsedOf ==
  ASSUME NEW n \in Nat, NEW m, NEW j \in Nat \ {0}, m = (j * BlockLength) * ByteBits
  PROVE  (((ByteBits * n) % m) \div ByteBits) % BlockLength = n % BlockLength
<1> DEFINE N == ByteBits * n
           k == j * BlockLength
<1>1. /\ ByteBits \in Nat /\ ByteBits > 0 /\ BlockLength \in Nat /\ BlockLength > 0
      /\ N \in Nat /\ k \in Nat /\ k > 0
  BY BlockSize, SizesAssumption, ByteAssumption
<1>2. N \div ByteBits = n
  <2>1. N = n * ByteBits + 0
    BY <1>1
  <2>2. (n * ByteBits + 0) \div ByteBits = n
    <3>1. 0 \in 0 .. ByteBits - 1 /\ n \in Int
      BY <1>1
    <3> QED BY <1>1, <3>1, QuotientIs
  <2> QED BY <2>1, <2>2
<1>3. (n % (j * BlockLength)) % BlockLength = n % BlockLength
  <2>1. /\ n \in Nat /\ j \in Nat /\ j > 0
        /\ BlockLength \in Nat /\ BlockLength > 0
    BY <1>1
  <2> QED BY ONLY <2>1, QuotientOfRest
<1> HIDE DEF N
<1>4. (N % (k * ByteBits)) \div ByteBits = (N \div ByteBits) % k
  <2>1. N \in Nat /\ ByteBits \in Nat /\ ByteBits > 0 /\ k \in Nat /\ k > 0
    BY <1>1
  <2> HIDE DEF k
  <2> QED BY ONLY <2>1, QuotientOfRest
<1> QED BY <1>2, <1>3, <1>4 DEF N

\* A number in two words.
TwoWords(n) == <<n % Radix, (n \div Radix) % Radix>>

LEMMA AddIncrementIs ==
  ASSUME NEW n \in Nat, NEW more \in 0 .. Radix
  PROVE  AddIncrement(TwoWords(n), more) = TwoWords(n + more)
<1> DEFINE l == n % Radix
           h == n \div Radix
           low == (l + more) % Radix
<1>1. Radix \in Nat /\ Radix > 0
  BY Sizes
<1>2. l \in 0 .. Radix - 1 /\ h \in Nat /\ n = h * Radix + l
  BY <1>1, QuotientOf
<1>3. AddIncrement(TwoWords(n), more)
        = <<low, IF low < more THEN ((h % Radix) + 1) % Radix ELSE h % Radix>>
  BY DEF AddIncrement, TwoWords
<1> HIDE DEF l, h
<1>4. n + more = h * Radix + (l + more)
  <2> DEFINE hr == h * Radix
  <2>1. hr \in Nat /\ n = hr + l
    BY <1>1, <1>2
  <2> HIDE DEF hr
  <2>2. n + more = hr + (l + more)
    BY <1>1, <1>2, <2>1
  <2> QED BY <2>2 DEF hr
<1>5. l + more \in Nat
  BY <1>1, <1>2
<1>6. (n + more) \div Radix = h + ((l + more) \div Radix) /\ (n + more) % Radix = low
  BY <1>1, <1>2, <1>4, <1>5, QuotientPlus
<1>7. CASE l + more < Radix
  <2>1. l + more \in 0 .. Radix - 1 /\ 0 \in Int /\ 0 * Radix + (l + more) = l + more
    BY <1>1, <1>2, <1>7
  <2>2. (l + more) \div Radix = 0 /\ low = l + more
    BY <1>1, <2>1, QuotientIs
  <2> HIDE DEF low
  <2>3. ~(low < more) /\ h + 0 = h
    BY <1>1, <1>2, <2>2
  <2> QED BY <1>3, <1>6, <2>2, <2>3 DEF TwoWords
<1>8. CASE ~(l + more < Radix)
  <2>1. /\ l + more - Radix \in 0 .. Radix \/ l + more - Radix = Radix - 1
        /\ l + more - Radix < Radix
    BY <1>1, <1>2, <1>8
  <2>2. l + more - Radix \in 0 .. Radix - 1 /\ 1 \in Int /\ 1 * Radix + (l + more - Radix) = l + more
    BY <1>1, <1>2, <1>8
  <2>3. (l + more) \div Radix = 1 /\ low = l + more - Radix
    BY <1>1, <2>2, QuotientIs
  <2>4. ((h % Radix) + 1) % Radix = (h + 1) % Radix
    <3>1. h \in Nat /\ 1 \in Nat /\ Radix \in Nat /\ Radix > 0
      BY <1>1, <1>2
    <3> QED BY ONLY <3>1, QuotientSum
  <2> HIDE DEF low
  <2>5. low < more
    BY <1>1, <1>2, <2>3
  <2> QED BY <1>3, <1>6, <2>3, <2>4, <2>5 DEF TwoWords
<1> QED BY <1>7, <1>8

\* The recursion of Sha512Count.
AfterIs(after, filled, more, whole) ==
  after = [k \in 0 .. whole |-> IF k = 0 THEN filled ELSE AddIncrement(after[k - 1], more)]

LEMMA AfterBlocks ==
  ASSUME NEW n \in Nat, NEW more \in 0 .. Radix, NEW whole \in Nat
  PROVE  (CHOOSE after : AfterIs(after, TwoWords(n), more, whole))[whole]
           = TwoWords(n + whole * more)
<1> DEFINE f == [k \in 0 .. whole |-> TwoWords(n + k * more)]
           after == CHOOSE g : AfterIs(g, TwoWords(n), more, whole)
<1>1. more \in Nat
  BY Sizes
<1>2. ASSUME NEW k \in 0 .. whole, k # 0
      PROVE  TwoWords(n + k * more) = AddIncrement(f[k - 1], more)
  <2>1. k - 1 \in 0 .. whole
    BY <1>2
  <2>2. k * more = (k - 1) * more + more /\ (k - 1) * more \in Nat
    BY <1>1, <1>2
  <2> DEFINE p == (k - 1) * more
  <2> HIDE DEF p
  <2>3. n + k * more = (n + p) + more /\ n + p \in Nat
    BY <1>1, <2>2 DEF p
  <2>4. AddIncrement(TwoWords(n + p), more) = TwoWords((n + p) + more)
    BY <2>3, AddIncrementIs
  <2>5. f[k - 1] = TwoWords(n + p)
    BY <2>1 DEF p
  <2> QED BY <2>3, <2>4, <2>5
<1>3. TwoWords(n + 0 * more) = TwoWords(n)
  <2>1. n + 0 * more = n
    BY <1>1
  <2> QED BY <2>1
<1>4. AfterIs(f, TwoWords(n), more, whole)
  <2>1. f = [k \in 0 .. whole |-> IF k = 0 THEN TwoWords(n) ELSE AddIncrement(f[k - 1], more)]
    BY <1>2, <1>3
  <2> HIDE DEF f
  <2> QED BY <2>1 DEF AfterIs
<1> HIDE DEF f
<1>5. AfterIs(after, TwoWords(n), more, whole)
  BY <1>4
<1> HIDE DEF after
<1> DEFINE S == {k \in Nat : k <= whole => after[k] = TwoWords(n + k * more)}
<1>6. 0 \in S
  BY <1>3, <1>5 DEF AfterIs
<1>7. ASSUME NEW k \in Nat, k \in S PROVE k + 1 \in S
  <2> SUFFICES ASSUME k + 1 <= whole PROVE after[k + 1] = TwoWords(n + (k + 1) * more)
    OBVIOUS
  <2>1. k + 1 \in 0 .. whole /\ k + 1 # 0 /\ (k + 1) - 1 = k
    OBVIOUS
  <2>2. after[k + 1] = AddIncrement(after[k], more)
    BY <1>5, <2>1 DEF AfterIs
  <2>3. after[k] = TwoWords(n + k * more)
    BY <1>7
  <2>4. (k + 1) * more = k * more + more /\ k * more \in Nat
    BY <1>1
  <2> DEFINE p == k * more
  <2> HIDE DEF p
  <2>5. n + (k + 1) * more = (n + p) + more /\ n + p \in Nat
    BY <1>1, <2>4 DEF p
  <2>6. AddIncrement(TwoWords(n + p), more) = TwoWords((n + p) + more)
    BY <2>5, AddIncrementIs
  <2> QED BY <2>2, <2>3, <2>5, <2>6 DEF p
<1> HIDE DEF S
<1>8. \A k \in Nat : k \in S
  BY <1>6, <1>7, SetInduction
<1>9. after[whole] = TwoWords(n + whole * more)
  BY <1>8 DEF S
<1> QED BY <1>9 DEF after

\* The count of SHA-512 after an Update.
LEMMA Sha512Counted ==
  ASSUME BlocksFit, NEW n \in Nat, NEW data, NEW len \in Nat, Len(data) = len
  PROVE  Sha512Count(TwoWords(ByteBits * n), n % BlockLength, data)
           = TwoWords(ByteBits * (n + len))
<1> DEFINE used == n % BlockLength
           old == n \div BlockLength
           free == BlockLength - used
           skip == IF used > 0 THEN free ELSE 0
           whole == (len - skip) \div BlockLength
           rest == (len - skip) % BlockLength
           bb == ByteBits * BlockLength
           N == ByteBits * n
           filled == IF used > 0 THEN AddIncrement(TwoWords(N), ByteBits * free) ELSE TwoWords(N)
           after == CHOOSE f : AfterIs(f, filled, bb, whole)
<1>1. BlockLength \in Nat /\ BlockLength > 0 /\ ByteBits \in Nat /\ ByteBits > 0
  BY BlockSize, SizesAssumption, ByteAssumption
<1>2. Splits(n, old, used)
  BY SplitsOf
<1>3. used \in 0 .. BlockLength - 1
  BY <1>2 DEF Splits
<1>4. Sha512Count(TwoWords(N), used, data)
        = IF used > 0 /\ len < free
          THEN AddIncrement(TwoWords(N), ByteBits * len)
          ELSE AddIncrement(after[whole], ByteBits * rest)
  BY DEF Sha512Count, AfterIs
<1>5. ASSUME NEW k \in 0 .. BlockLength PROVE ByteBits * k \in 0 .. Radix
  <2>1. ByteBits * k <= ByteBits * BlockLength /\ ByteBits * k \in Nat
    BY <1>1
  <2>2. ByteBits * BlockLength <= Radix /\ ByteBits * BlockLength \in Nat /\ Radix \in Nat
    <3>1. ByteBits * BlockLength \in Nat
      BY <1>1
    <3> QED BY ONLY BlocksFit, <3>1, WordOfBlocks, Sizes
  <2> QED BY ONLY <2>1, <2>2
<1>6. N \in Nat
  BY <1>1
<1> HIDE DEF used, old
<1>7. CASE used > 0 /\ len < free
  <2>1. len \in 0 .. BlockLength
    BY <1>1, <1>3, <1>7
  <2>2. ByteBits * len \in 0 .. Radix
    BY <1>5, <2>1
  <2>3. AddIncrement(TwoWords(N), ByteBits * len) = TwoWords(N + ByteBits * len)
    <3> DEFINE more == ByteBits * len
    <3> HIDE DEF N, more
    <3> QED BY <1>6, <2>2, AddIncrementIs DEF more
  <2>4. N + ByteBits * len = ByteBits * (n + len)
    BY <1>1
  <2> QED BY <1>4, <1>7, <2>3, <2>4 DEF used
<1>8. CASE ~(used > 0 /\ len < free)
  <2>1. PICK skp \in 0 .. BlockLength : skp = skip
    BY <1>1, <1>3
  <2>2. len - skp \in Nat
    BY <1>1, <1>3, <1>8, <2>1
  <2> DEFINE wh == (len - skp) \div BlockLength
             rs == (len - skp) % BlockLength
  <2>3. wh \in Nat /\ rs \in 0 .. BlockLength - 1 /\ len - skp = wh * BlockLength + rs
    BY <1>1, <2>2, QuotientOf
  <2>4. whole = wh /\ rest = rs
    BY <2>1
  <2> DEFINE sb == ByteBits * skp
             N1 == N + sb
             rb == ByteBits * rs
  <2>5. sb \in 0 .. Radix /\ rb \in 0 .. Radix /\ bb \in 0 .. Radix
    <3>1. rs \in 0 .. BlockLength /\ BlockLength \in 0 .. BlockLength
      BY <1>1, <2>3
    <3> QED BY <1>5, <2>1, <3>1
  <2> HIDE DEF wh, rs
  <2>6. filled = TwoWords(N1)
    <3>1. CASE used > 0
      <4>1. skp = free
        BY <2>1, <3>1
      <4>2. AddIncrement(TwoWords(N), sb) = TwoWords(N + sb)
        <5> HIDE DEF N, sb
        <5> QED BY <1>6, <2>5, AddIncrementIs
      <4> QED BY <3>1, <4>1, <4>2
    <3>2. CASE ~(used > 0)
      <4>1. skp = 0 
        BY <2>1, <3>2
      <4>2. N + sb = N
        BY <1>1, <4>1
      <4> QED BY <3>2, <4>2
    <3> QED BY <3>1, <3>2
  <2>7. N1 \in Nat
    <3> HIDE DEF N, sb
    <3> QED BY <1>6, <2>5
  <2>8. after[whole] = TwoWords(N1 + wh * bb)
    <3>1. (CHOOSE f : AfterIs(f, TwoWords(N1), bb, wh))[wh] = TwoWords(N1 + wh * bb)
      <4> HIDE DEF N1, bb
      <4> QED BY <2>3, <2>5, <2>7, AfterBlocks
    <3> QED BY <2>4, <2>6, <3>1
  <2>9. N1 + wh * bb \in Nat
    <3>1. bb \in Nat
      BY <1>1
    <3> HIDE DEF N1, bb
    <3> QED BY <2>3, <2>7, <3>1
  <2>10. AddIncrement(after[whole], ByteBits * rest) = TwoWords((N1 + wh * bb) + rb)
    <3>1. AddIncrement(TwoWords(N1 + wh * bb), rb) = TwoWords((N1 + wh * bb) + rb)
      <4> DEFINE M == N1 + wh * bb
      <4> HIDE DEF M, rb
      <4>1. M \in Nat
        BY <2>9 DEF M
      <4> QED BY <2>5, <4>1, AddIncrementIs DEF M
    <3> QED BY <2>4, <2>8, <3>1
  <2>11. (N1 + wh * bb) + rb = ByteBits * (n + len)
    <3>1. N1 + wh * bb + rb = ByteBits * (n + skp + wh * BlockLength + rs)
      <4> DEFINE wl == wh * BlockLength
      <4>1. wh * bb = ByteBits * wl
        BY <1>1, <2>3
      <4>2. wl \in Nat
        BY <1>1, <2>3
      <4> HIDE DEF wl
      <4>3. N + sb + ByteBits * wl + rb = ByteBits * (n + skp + wl + rs)
        BY <1>1, <2>3, <4>2
      <4> QED BY <4>1, <4>3 DEF wl
    <3>2. n + skp + wh * BlockLength + rs = n + len
      <4> DEFINE wl == wh * BlockLength
      <4>1. wl \in Nat /\ len - skp = wl + rs
        BY <1>1, <2>3
      <4> HIDE DEF wl
      <4>2. n \in Nat /\ skp \in Nat /\ rs \in Nat /\ len \in Nat
        BY <2>1, <2>3
      <4>3. n + skp + wl + rs = n + len
        BY ONLY <4>1, <4>2
      <4> QED BY <4>3 DEF wl
    <3> QED BY <3>1, <3>2
  <2> QED BY <1>4, <1>8, <2>10, <2>11 DEF used
<1> QED BY <1>7, <1>8

-----------------------------------------------------------------------------
(* The Updates.                                                             *)

\* The same of a context, and its chain, for big and for little endian words.
BigHolds(c, D, n) == Hashed(c.chain, c.buffer, TRUE, D, n)
LittleHolds(c, D, n) == Hashed(c.chain, c.buffer, FALSE, D, n)
BigChain(D, n) == ChainOf(TRUE, D, n)
LittleChain(D, n) == ChainOf(FALSE, D, n)

IsContext(c) == c = [chain |-> c.chain, buffer |-> c.buffer, count |-> c.count]

LEMMA Sha2Absorbs ==
  ASSUME NEW D \in Streams, NEW n \in Nat, NEW c, BigHolds(c, D, n),
         NEW data, NextOf(data, D, n), NEW sum \in Nat, sum = n + Len(data),
         NEW used, used = n % BlockLength, NEW count,
         NEW r, r = Sha2Absorb(c, used, data, count)
  PROVE  BigHolds(r, D, sum) /\ r.count = count /\ IsContext(r)
<1> DEFINE a == Absorbed(c.buffer, used, data)
           m == Len(a.blocks)
           stale == IF m = 0 THEN c.buffer ELSE HostOrder(a.blocks[m])
           chain == c.chain \o [k \in 1 .. m |-> WordsBE(a.blocks[k])]
           buffer == Copy(stale, a.at, a.left)
<1>1. r = [chain |-> chain, buffer |-> buffer, count |-> count]
  BY DEF Sha2Absorb
<1>0. Hashed(c.chain, c.buffer, TRUE, D, n)
  BY DEF BigHolds
<1>2. c.buffer \in [1 .. BlockLength -> Nat]
  BY <1>0 DEF Hashed, BufferOf
<1>3. /\ m \in Nat
      /\ \A k \in 1 .. m : a.blocks[k] \in [1 .. BlockLength -> Nat]
      /\ \A s \in [1 .. BlockLength -> Nat] :
           (m = 0 => s = c.buffer)
             => Hashed(c.chain \o [k \in 1 .. m |-> Words(TRUE, a.blocks[k])],
                       Copy(s, a.at, a.left), TRUE, D, sum)
  <2> HIDE DEF a
  <2> QED BY <1>0, Taken DEF a
<1>4. chain = c.chain \o [k \in 1 .. m |-> Words(TRUE, a.blocks[k])]
  BY DEF Words
<1> HIDE DEF a, m, chain
<1>5. stale \in [1 .. BlockLength -> Nat] /\ (m = 0 => stale = c.buffer)
  <2>1. CASE m = 0
    BY <1>2, <2>1
  <2>2. CASE m # 0
    <3>1. m \in 1 .. m
      BY <1>3, <2>2
    <3>2. HostOrder(a.blocks[m]) \in [1 .. BlockLength -> Nat]
      BY <1>3, <3>1, HostOrderIs
    <3> QED BY <2>2, <3>2
  <2> QED BY <2>1, <2>2
<1> HIDE DEF stale
<1>6. Hashed(chain, buffer, TRUE, D, sum)
  BY <1>3, <1>4, <1>5
<1> HIDE DEF buffer
<1> DEFINE made == [chain |-> chain, buffer |-> buffer, count |-> count]
<1>7. made.chain = chain /\ made.buffer = buffer /\ made.count = count /\ IsContext(made)
  BY DEF IsContext
<1>8. r = made
  BY <1>1
<1> HIDE DEF made
<1> QED BY <1>6, <1>7, <1>8 DEF BigHolds

LEMMA Ripemd160UsedIs ==
  ASSUME BlocksFit, NEW n \in Nat, NEW c, c.count[1] = n % Radix
  PROVE  Ripemd160Used(c) = n % BlockLength
<1>1. PICK j \in Nat \ {0} : Radix = (j * ByteBits) * BlockLength
  BY WordOfBlocks
<1> DEFINE k == j * ByteBits
<1>2. k \in Nat /\ k > 0 /\ BlockLength \in Nat /\ BlockLength > 0 /\ Radix = k * BlockLength
  BY <1>1, SizesAssumption, ByteAssumption, BlockSize
<1> HIDE DEF k
<1>3. (n % (k * BlockLength)) % BlockLength = n % BlockLength
  BY ONLY n \in Nat, <1>2, QuotientOfRest
<1> QED BY <1>2, <1>3 DEF Ripemd160Used

LEMMA Ripemd160Absorbs ==
  ASSUME BlocksFit,
         NEW D \in Streams, NEW n \in Nat, NEW c, LittleHolds(c, D, n),
         c.count[1] = n % Radix,
         NEW data, NextOf(data, D, n), NEW len \in Nat, Len(data) = len,
         NEW sum \in Nat, sum = n + len,
         NEW r, r = Ripemd160Update(c, data)
  PROVE  /\ LittleHolds(r, D, sum) /\ IsContext(r)
         /\ r.count = AddIncrement(c.count, len) /\ r.count[1] = sum % Radix
<1> DEFINE used == n % BlockLength
           a == Absorbed(c.buffer, used, data)
           m == Len(a.blocks)
           stale == IF used > 0 /\ m > 0 THEN a.blocks[1] ELSE c.buffer
           chain == c.chain \o [k \in 1 .. m |-> WordsLE(a.blocks[k])]
           buffer == Copy(stale, a.at, a.left)
           count == AddIncrement(c.count, len)
           made == [chain |-> chain, buffer |-> buffer, count |-> count]
<1>0. Ripemd160Used(c) = used
  BY Ripemd160UsedIs
<1>1. r = made
  <2>1. r = [chain |-> chain, buffer |-> buffer,
             count |-> <<(c.count[1] + len) % Radix,
                         IF (c.count[1] + len) % Radix < len THEN (c.count[2] + 1) % Radix
                                                             ELSE c.count[2]>>]
    BY <1>0 DEF Ripemd160Update
  <2> QED BY <2>1 DEF AddIncrement
<1>9. Hashed(c.chain, c.buffer, FALSE, D, n)
  BY DEF LittleHolds
<1>2. c.buffer \in [1 .. BlockLength -> Nat]
  BY <1>9 DEF Hashed, BufferOf
<1>3. /\ m \in Nat
      /\ \A k \in 1 .. m : a.blocks[k] \in [1 .. BlockLength -> Nat]
      /\ \A s \in [1 .. BlockLength -> Nat] :
           (m = 0 => s = c.buffer)
             => Hashed(c.chain \o [k \in 1 .. m |-> Words(FALSE, a.blocks[k])],
                       Copy(s, a.at, a.left), FALSE, D, sum)
  <2>1. sum = n + Len(data)
    OBVIOUS
  <2> HIDE DEF a
  <2> QED BY <1>9, <2>1, Taken DEF a
<1>4. chain = c.chain \o [k \in 1 .. m |-> Words(FALSE, a.blocks[k])]
  BY DEF Words
<1> HIDE DEF a, m, chain
<1>5. stale \in [1 .. BlockLength -> Nat] /\ (m = 0 => stale = c.buffer)
  <2>1. CASE ~(used > 0 /\ m > 0)
    BY <1>2, <2>1
  <2>2. CASE used > 0 /\ m > 0
    <3>1. 1 \in 1 .. m
      BY <1>3, <2>2
    <3>2. a.blocks[1] \in [1 .. BlockLength -> Nat]
      BY <1>3, <3>1
    <3> QED BY <1>3, <2>2, <3>2
  <2> QED BY <2>1, <2>2
<1> HIDE DEF stale
<1>6. Hashed(chain, buffer, FALSE, D, sum)
  BY <1>3, <1>4, <1>5
<1>7. count[1] = sum % Radix
  <2>1. ((n % Radix) + len) % Radix = (n + len) % Radix
    <3>1. Radix \in Nat /\ Radix > 0
      BY Sizes
    <3> QED BY ONLY n \in Nat, len \in Nat, <3>1, QuotientSum
  <2>2. count[1] = (c.count[1] + len) % Radix
    BY DEF AddIncrement
  <2> QED BY <2>1, <2>2
<1> HIDE DEF buffer, count
<1>8. made.chain = chain /\ made.buffer = buffer /\ made.count = count /\ IsContext(made)
  BY DEF IsContext
<1> HIDE DEF made
<1> QED BY <1>1, <1>6, <1>7, <1>8 DEF count, LittleHolds

LEMMA SpongeAbsorbs ==
  ASSUME NEW D \in Streams, NEW n \in Nat, NEW c, LittleHolds(c, D, n),
         c.count = <<n % BlockLength>>,
         NEW data, NextOf(data, D, n), NEW len \in Nat, Len(data) = len,
         NEW sum \in Nat, sum = n + len, NEW aligned \in BOOLEAN,
         NEW r, r = Sha3Update(c, data, aligned)
  PROVE  /\ LittleHolds(r, D, sum) /\ IsContext(r)
         /\ r.count = <<sum % BlockLength>>
<1> DEFINE used == n % BlockLength
           a == Absorbed(c.buffer, used, data)
           m == Len(a.blocks)
           stale == IF m > (IF used > 0 THEN 1 ELSE 0) /\ ~aligned THEN a.blocks[m]
                    ELSE IF used > 0 /\ m > 0 THEN a.blocks[1] ELSE c.buffer
           chain == c.chain \o [k \in 1 .. m |-> WordsLE(a.blocks[k])]
           buffer == Copy(stale, a.at, a.left)
           count == <<(used + len) % BlockLength>>
           made == [chain |-> chain, buffer |-> buffer, count |-> count]
<1>0. used \in 0 .. BlockLength - 1 /\ used # Finalized
  <2>1. used \in 0 .. BlockLength - 1
    BY BlockSize, QuotientOf
  <2> HIDE DEF used
  <2> QED BY <2>1, BlockSize DEF Finalized
<1>1. r = made
  <2>1. c.count[1] = used
    OBVIOUS
  <2> QED BY <1>0, <2>1 DEF Sha3Update
<1>9. Hashed(c.chain, c.buffer, FALSE, D, n)
  BY DEF LittleHolds
<1>2. c.buffer \in [1 .. BlockLength -> Nat]
  BY <1>9 DEF Hashed, BufferOf
<1>3. /\ m \in Nat
      /\ \A k \in 1 .. m : a.blocks[k] \in [1 .. BlockLength -> Nat]
      /\ \A s \in [1 .. BlockLength -> Nat] :
           (m = 0 => s = c.buffer)
             => Hashed(c.chain \o [k \in 1 .. m |-> Words(FALSE, a.blocks[k])],
                       Copy(s, a.at, a.left), FALSE, D, sum)
  <2>1. sum = n + Len(data)
    OBVIOUS
  <2> HIDE DEF a
  <2> QED BY <1>9, <2>1, Taken DEF a
<1>4. chain = c.chain \o [k \in 1 .. m |-> Words(FALSE, a.blocks[k])]
  BY DEF Words
<1> HIDE DEF a, m, chain
<1>5. stale \in [1 .. BlockLength -> Nat] /\ (m = 0 => stale = c.buffer)
  <2> HIDE DEF used
  <2>1. CASE m = 0
    <3>1. ~(m > (IF used > 0 THEN 1 ELSE 0)) /\ ~(m > 0)
      BY <2>1
    <3> QED BY <1>2, <3>1
  <2>2. CASE m # 0
    <3>1. 1 \in 1 .. m /\ m \in 1 .. m
      BY <1>3, <2>2
    <3>2. a.blocks[1] \in [1 .. BlockLength -> Nat] /\ a.blocks[m] \in [1 .. BlockLength -> Nat]
      BY <1>3, <3>1
    <3>3. stale = a.blocks[1] \/ stale = a.blocks[m] \/ stale = c.buffer
      OBVIOUS
    <3> QED BY <1>2, <2>2, <3>2, <3>3
  <2> QED BY <2>1, <2>2
<1> HIDE DEF stale
<1>6. Hashed(chain, buffer, FALSE, D, sum)
  BY <1>3, <1>4, <1>5
<1>7. count = <<sum % BlockLength>>
  <2>1. BlockLength \in Nat /\ BlockLength > 0
    BY BlockSize
  <2>2. ((n % BlockLength) + len) % BlockLength = (n + len) % BlockLength
    BY ONLY n \in Nat, len \in Nat, <2>1, QuotientSum
  <2> QED BY <2>2
<1> HIDE DEF buffer, count
<1>8. made.chain = chain /\ made.buffer = buffer /\ made.count = count /\ IsContext(made)
  BY DEF IsContext
<1> HIDE DEF made
<1> QED BY <1>1, <1>6, <1>7, <1>8 DEF LittleHolds

-----------------------------------------------------------------------------
(* The padding.                                                             *)

\* E is D to its nth byte, then the mark, zeros and the tail.
PaddedBy(E, D, n, mark, zeros, tail) ==
  /\ \A i \in 1 .. n : E[i] = D[i]
  /\ E[n + 1] = mark
  /\ \A i \in n + 2 .. n + 1 + zeros : E[i] = 0
  /\ \A i \in 1 .. Len(tail) : E[n + 1 + zeros + i] = tail[i]

\* The length goes to the end of the last block (more = 1) or of one more (more = 2).
Ends(n, old, used, zeros, more) ==
  /\ old \in Nat /\ used \in 0 .. BlockLength - 1 /\ n = old * BlockLength + used
  /\ zeros \in Nat /\ more \in {1, 2} /\ (more = 2 <=> used + 1 > ShortBlockLength)
  /\ more = 1 => zeros = ShortBlockLength - used - 1
  /\ more = 2 => zeros = BlockLength + ShortBlockLength - used - 1
  /\ n + 1 + zeros + 2 * WordBytes = (old + more) * BlockLength

\* The zeros that fill one block.
LEMMA FillWithin ==
  ASSUME NEW n \in Nat, NEW extra \in Nat, NEW e, e = (n % BlockLength) + extra,
         e > 0, e <= BlockLength
  PROVE  Fill(n, extra) = BlockLength - e
<1> DEFINE used == n % BlockLength
           z == BlockLength - e
<1>1. BlockLength \in Nat /\ BlockLength > 0
  BY BlockSize
<1>2. used \in 0 .. BlockLength - 1
  BY <1>1, QuotientOf
<1>3. (n + extra) % BlockLength = (used + extra) % BlockLength
  BY <1>1, QuotientSum
<1> HIDE DEF used
<1>4. e \in Nat /\ e = used + extra
  BY <1>2 DEF used
<1>5. Fill(n, extra) = (BlockLength - (e % BlockLength)) % BlockLength
  BY <1>3, <1>4 DEF Fill
<1>6. CASE e = BlockLength
  <2>1. 1 \in Int /\ 0 \in 0 .. BlockLength - 1 /\ 1 * BlockLength + 0 = BlockLength
    BY <1>1
  <2>2. (1 * BlockLength + 0) % BlockLength = 0
    BY ONLY <1>1, <2>1, QuotientIs
  <2>3. Fill(n, extra) = 0
    BY <1>1, <1>5, <1>6, <2>1, <2>2
  <2> QED BY <1>1, <1>6, <2>3
<1>7. CASE e # BlockLength
  <2>1. /\ e \in 0 .. BlockLength - 1 /\ z \in 0 .. BlockLength - 1 /\ 0 \in Int
        /\ 0 * BlockLength + e = e /\ 0 * BlockLength + z = z
    BY <1>1, <1>4, <1>7
  <2>2. (0 * BlockLength + e) % BlockLength = e
    BY ONLY <1>1, <2>1, QuotientIs
  <2>3. Fill(n, extra) = z % BlockLength
    BY <1>5, <2>1, <2>2
  <2> HIDE DEF z
  <2>4. (0 * BlockLength + z) % BlockLength = z
    BY ONLY <1>1, <2>1, QuotientIs
  <2> QED BY <2>1, <2>3, <2>4 DEF z
<1> QED BY <1>6, <1>7

LEMMA EndsSo ==
  ASSUME NEW n \in Nat
  PROVE  \E more : Ends(n, n \div BlockLength, n % BlockLength, Fill(n, 1 + 2 * WordBytes), more)
<1> DEFINE old == n \div BlockLength
           used == n % BlockLength
           extra == 1 + 2 * WordBytes
           full == used + 1 > ShortBlockLength
           more == IF full THEN 2 ELSE 1
           zeros == Fill(n, extra)
           ob == old * BlockLength
<1>1. /\ BlockLength \in Nat /\ BlockLength > 0 /\ WordBytes \in Nat /\ WordBytes > 0
      /\ ShortBlockLength > 0 /\ ShortBlockLength \in Nat
      /\ BlockLength = ShortBlockLength + 2 * WordBytes
  BY BlockSize, Sizes, SizesAssumption, ByteAssumption
<1>2. old \in Nat /\ used \in 0 .. BlockLength - 1 /\ n = ob + used
  BY <1>1, QuotientOf
<1>3. ob \in Nat
  BY <1>1, <1>2
<1>4. (n + extra) % BlockLength = (used + extra) % BlockLength
  <2>1. extra \in Nat
    BY <1>1
  <2> HIDE DEF extra
  <2> QED BY <1>1, <2>1, QuotientSum
<1>5. more * BlockLength = IF full THEN 2 * BlockLength ELSE BlockLength
  BY <1>1
<1>6. (old + more) * BlockLength = ob + more * BlockLength
  BY <1>1, <1>2
<1> HIDE DEF used, old, ob
<1>7. zeros = (BlockLength - ((used + extra) % BlockLength)) % BlockLength
  BY <1>4 DEF Fill
<1>8. ShortBlockLength > WordBytes - 1 /\ used + extra < 2 * BlockLength
  <2>1. ShortBlockLength >= WordBytes
    <3>1. (BlockWords - 2) * WordBytes >= 1 * WordBytes
      BY SizesAssumption, ByteAssumption
    <3> QED BY <3>1, Sizes, <1>1
  <2> QED BY <1>1, <1>2, <2>1
<1>9. CASE full
  <2>1. used + extra - BlockLength \in 0 .. BlockLength - 1 /\ used + extra - BlockLength > 0
    BY <1>1, <1>2, <1>8, <1>9
  <2>2. (used + extra) % BlockLength = used + extra - BlockLength
    <3> DEFINE r == used + extra - BlockLength
    <3>1. 1 * BlockLength + r = used + extra /\ r \in 0 .. BlockLength - 1 /\ 1 \in Int
      BY <1>1, <1>2, <2>1
    <3> HIDE DEF r
    <3>2. (1 * BlockLength + r) % BlockLength = r
      BY ONLY <3>1, <1>1, QuotientIs
    <3> QED BY <3>1, <3>2 DEF r
  <2> DEFINE z == BlockLength - (used + extra - BlockLength)
  <2>3. z \in 0 .. BlockLength - 1 /\ 0 * BlockLength + z = z /\ 0 \in Int
    BY <1>1, <1>2, <2>1
  <2>4. zeros = z
    <3>1. zeros = z % BlockLength
      BY <1>7, <2>2
    <3> HIDE DEF z
    <3>2. (0 * BlockLength + z) % BlockLength = z
      BY ONLY <2>3, <1>1, QuotientIs
    <3> QED BY <2>3, <3>1, <3>2
  <2>5. zeros = BlockLength + ShortBlockLength - used - 1 /\ zeros \in Nat
    BY <1>1, <1>2, <2>3, <2>4
  <2>6. n + 1 + zeros + 2 * WordBytes = (old + more) * BlockLength
    <3>1. n + 1 + zeros + 2 * WordBytes = ob + 2 * BlockLength
      BY <1>1, <1>2, <1>3, <2>5
    <3> QED BY <1>5, <1>6, <1>9, <3>1
  <2> HIDE DEF zeros
  <2>7. more = 2
    BY <1>9
  <2> HIDE DEF more
  <2> QED BY <1>2, <1>9, <2>5, <2>6, <2>7 DEF Ends, ob, old, used, zeros
<1>10. CASE ~full
  <2>1. used + extra <= BlockLength /\ used + extra > 0
    BY <1>1, <1>2, <1>10
  <2>2. zeros = BlockLength - (used + extra)
    <3> DEFINE e == used + extra
    <3>1. extra \in Nat /\ e = (n % BlockLength) + extra /\ e > 0 /\ e <= BlockLength
      BY <1>1, <2>1 DEF used
    <3> HIDE DEF e, extra
    <3>2. Fill(n, extra) = BlockLength - e
      BY ONLY n \in Nat, <3>1, FillWithin
    <3> QED BY <3>2 DEF e
  <2>5. zeros = ShortBlockLength - used - 1 /\ zeros \in Nat
    BY <1>1, <1>2, <2>1, <2>2
  <2>6. n + 1 + zeros + 2 * WordBytes = (old + more) * BlockLength
    <3>1. n + 1 + zeros + 2 * WordBytes = ob + BlockLength
      BY <1>1, <1>2, <1>3, <2>5
    <3> QED BY <1>5, <1>6, <1>10, <3>1
  <2> HIDE DEF zeros
  <2>7. more = 1
    BY <1>10
  <2> HIDE DEF more
  <2> QED BY <1>2, <1>10, <2>5, <2>6, <2>7 DEF Ends, ob, old, used, zeros
<1> QED BY <1>9, <1>10

-----------------------------------------------------------------------------
(* SHA-2: the length, high word first.                                      *)

LEMMA BitsIs ==
  ASSUME NEW n \in Nat
  PROVE  /\ Bits(n) \in Nat /\ ByteBits * n \in Nat
         /\ Bits(n) = (ByteBits * n) % (Radix * Radix)
         /\ Bits(n) % Radix = (ByteBits * n) % Radix
         /\ Bits(n) \div Radix = ((ByteBits * n) \div Radix) % Radix
         /\ TwoWords(ByteBits * n) = <<Bits(n) % Radix, Bits(n) \div Radix>>
<1>1. Radix \in Nat /\ Radix > 0 /\ Radix * Radix \in Nat /\ Radix * Radix > 0
  BY Sizes
<1>2. ByteBits * n \in Nat /\ n * ByteBits = ByteBits * n
  BY SizesAssumption, ByteAssumption
<1> DEFINE N == ByteBits * n
<1>3. Bits(n) = N % (Radix * Radix)
  BY <1>2 DEF Bits
<1> HIDE DEF N
<1>4. N \in Nat
  BY <1>2 DEF N
<1>5. (N % (Radix * Radix)) \div Radix = (N \div Radix) % Radix /\ (N % (Radix * Radix)) % Radix = N % Radix
  BY ONLY <1>1, <1>4, QuotientOfRest
<1>6. N % (Radix * Radix) \in Nat
  <2> DEFINE rr == Radix * Radix
  <2> HIDE DEF rr
  <2>1. rr \in Nat /\ rr > 0
    BY <1>1 DEF rr
  <2>2. N % rr \in 0 .. rr - 1
    BY ONLY <1>4, <2>1, QuotientOf
  <2> QED BY <2>1, <2>2 DEF rr
<1> QED BY <1>2, <1>3, <1>4, <1>5, <1>6 DEF TwoWords, N

LEMMA LengthWords ==
  ASSUME NEW n \in Nat
  PROVE  /\ \A s : s = [i \in 1 .. WordBytes |-> LengthBE(n)[i]] => BigEndian(s) = Bits(n) \div Radix
         /\ \A s : s = [i \in 1 .. WordBytes |-> LengthBE(n)[WordBytes + i]]
                     => BigEndian(s) = Bits(n) % Radix
         /\ LengthBE(n) \in Seq(Nat) /\ Len(LengthBE(n)) = 2 * WordBytes
<1> DEFINE N == Bits(n)
           W == WordBytes
           P(k) == 2 ^ (ByteBits * k)
<1>1. N \in Nat /\ W \in Nat /\ W > 0
  BY BitsIs, SizesAssumption, ByteAssumption
<1> HIDE DEF N
<1>2. \A k \in 0 .. 2 * W : P(k) \in Nat \ {0}
  <2> TAKE k \in 0 .. 2 * W
  <2>1. 0 \in 0 .. 2 * WordBytes /\ k + 0 <= 2 * WordBytes
    BY <1>1
  <2> QED BY <2>1, BytePowers
<1>3. P(W) = Radix
  BY DEF Radix, WordBits
<1>4. LengthBE(n) = [i \in 1 .. 2 * W |-> (N \div P(2 * W - i)) % 2 ^ ByteBits]
  BY DEF LengthBE, Digit, N
<1>5. ASSUME NEW i \in 1 .. 2 * W PROVE (N \div P(2 * W - i)) % 2 ^ ByteBits \in Nat
  <2>1. 2 * W - i \in 0 .. 2 * W
    BY <1>1
  <2>2. P(2 * W - i) \in Nat \ {0}
    BY <1>2, <2>1
  <2> DEFINE p == P(2 * W - i)
             b == 2 ^ ByteBits
  <2>3. b \in Nat /\ b > 0 /\ p \in Nat /\ p > 0
    BY <2>2, Sizes
  <2> HIDE DEF p, b
  <2>4. N \div p \in Nat
    BY ONLY <1>1, <2>3, QuotientOf
  <2>5. (N \div p) % b \in 0 .. b - 1
    BY ONLY <2>3, <2>4, QuotientOf
  <2>6. (N \div p) % b \in Nat
    BY <2>3, <2>5
  <2> QED BY <2>6 DEF p, b
<1>6. LengthBE(n) \in Seq(Nat) /\ Len(LengthBE(n)) = 2 * W
  BY <1>1, <1>4, <1>5
<1>7. ASSUME NEW s, s = [i \in 1 .. W |-> LengthBE(n)[i]] PROVE BigEndian(s) = N \div Radix
  <2> DEFINE H == N \div Radix
  <2>1. H \in Nat
    BY <1>1, Sizes, QuotientOf
  <2>2. ASSUME NEW i \in 1 .. W
        PROVE  LengthBE(n)[i] = (H \div P(W - i)) % 2 ^ ByteBits
    <3>1. i \in 1 .. 2 * W /\ W - i \in 0 .. 2 * W /\ W \in 0 .. 2 * W /\ W + (W - i) = 2 * W - i
      BY <1>1
    <3>2. P(2 * W - i) = P(W) * P(W - i) /\ P(W - i) \in Nat \ {0}
      <4>1. W + (W - i) <= 2 * W
        BY <1>1
      <4>2. P(W + (W - i)) = P(W) * P(W - i)
        BY <3>1, <4>1, BytePowers
      <4> QED BY <1>2, <3>1, <4>2
    <3> DEFINE p == P(W - i)
    <3>3. Radix \in Nat /\ Radix > 0 /\ p \in Nat /\ p > 0
      BY <3>2, Sizes
    <3> HIDE DEF p
    <3>4. (N \div Radix) \div p = N \div (Radix * p)
      BY ONLY <1>1, <3>3, QuotientTwice
    <3>5. LengthBE(n)[i] = (N \div P(2 * W - i)) % 2 ^ ByteBits
      BY <1>4, <3>1
    <3> QED BY <1>3, <3>2, <3>4, <3>5 DEF p
  <2>3. s = [i \in 1 .. W |-> (H \div P(W - i)) % 2 ^ ByteBits]
    BY <1>7, <2>2
  <2> HIDE DEF H
  <2>4. W \in 0 .. WordBytes
    BY <1>1
  <2>5. BigEndian(s) = H % P(W)
    BY <2>1, <2>3, <2>4, DigitsRead
  <2>6. H % Radix = H
    <3>1. Radix \in Nat /\ Radix > 0
      BY Sizes
    <3> DEFINE y == ByteBits * n
               x == y \div Radix
    <3>2. H = x % Radix
      <4>1. Bits(n) \div Radix = x % Radix
        BY BitsIs
      <4> HIDE DEF x
      <4> QED BY <4>1 DEF H, N
    <3>3. x \in Nat
      <4>1. y \in Nat
        BY BitsIs
      <4> HIDE DEF y
      <4> QED BY ONLY <3>1, <4>1, QuotientOf DEF x
    <3> HIDE DEF x
    <3>4. x % Radix \in 0 .. Radix - 1
      BY ONLY <3>1, <3>3, QuotientOf
    <3>5. H \in 0 .. Radix - 1 /\ 0 * Radix + H = H /\ 0 \in Int
      BY <2>1, <3>1, <3>2, <3>4
    <3>6. (0 * Radix + H) % Radix = H
      BY ONLY <3>1, <3>5, QuotientIs
    <3> QED BY <3>5, <3>6
  <2> QED BY <1>3, <2>5, <2>6 DEF H
<1>8. ASSUME NEW s, s = [i \in 1 .. W |-> LengthBE(n)[W + i]] PROVE BigEndian(s) = N % Radix
  <2>1. ASSUME NEW i \in 1 .. W
        PROVE  LengthBE(n)[W + i] = (N \div P(W - i)) % 2 ^ ByteBits
    <3>1. W + i \in 1 .. 2 * W /\ 2 * W - (W + i) = W - i
      BY <1>1
    <3> QED BY <1>4, <3>1
  <2>2. s = [i \in 1 .. W |-> (N \div P(W - i)) % 2 ^ ByteBits]
    BY <1>8, <2>1
  <2>3. W \in 0 .. WordBytes
    BY <1>1
  <2>4. BigEndian(s) = N % P(W)
    BY <1>1, <2>2, <2>3, DigitsRead
  <2> QED BY <1>3, <2>4
<1> QED BY <1>6, <1>7, <1>8 DEF N

\* A chain of D is one of E as far as they agree.
LEMMA HashedSame ==
  ASSUME NEW big \in BOOLEAN, NEW D \in Streams, NEW E \in Streams, NEW n \in Nat,
         \A i \in 1 .. n : E[i] = D[i], NEW chain, NEW buffer, Hashed(chain, buffer, big, D, n)
  PROVE  Hashed(chain, buffer, big, E, n)
<1> DEFINE old == n \div BlockLength
           used == n % BlockLength
           ob == old * BlockLength
<1>1. Splits(n, old, used)
  BY SplitsOf
<1>2. /\ chain = ChainOf(big, D, old) /\ buffer \in [1 .. BlockLength -> Nat]
      /\ \A i \in 1 .. used : buffer[i] = D[ob + i]
  BY DEF Hashed, BufferOf
<1> HIDE DEF old, used
<1>3. old \in Nat /\ used \in 0 .. BlockLength - 1 /\ n = ob + used /\ ob \in Nat
  BY <1>1, BlockSize DEF Splits
<1>4. \A i \in 1 .. ob : D[i] = E[i]
  <2> HIDE DEF ob
  <2> QED BY <1>3, BlockSize
<1>5. ChainOf(big, D, old) = ChainOf(big, E, old)
  BY <1>3, <1>4, ChainSame
<1> HIDE DEF ob
<1>6. \A i \in 1 .. used : buffer[i] = E[ob + i]
  <2> TAKE i \in 1 .. used
  <2>1. ob + i \in 1 .. n
    BY <1>3
  <2> QED BY <1>2, <2>1
<1> QED BY <1>2, <1>5, <1>6 DEF Hashed, BufferOf, old, used, ob

\* The buffer with the mark behind its bytes.
LEMMA MarkedIs ==
  ASSUME NEW E \in Streams, NEW old \in Nat, NEW used \in 0 .. BlockLength - 1,
         NEW buffer \in [1 .. BlockLength -> Nat],
         \A i \in 1 .. used : buffer[i] = E[old * BlockLength + i],
         NEW mark, E[old * BlockLength + used + 1] = mark
  PROVE  /\ Copy(buffer, used, <<mark>>) \in [1 .. BlockLength -> Nat]
         /\ \A i \in 1 .. used + 1 :
              Copy(buffer, used, <<mark>>)[i] = E[old * BlockLength + i]
<1> DEFINE ob == old * BlockLength
           b == Copy(buffer, used, <<mark>>)
<1>1. ob \in Nat /\ BlockLength \in Nat
  BY BlockSize
<1>2. b = [i \in 1 .. BlockLength |->
             IF i \in used + 1 .. used + 1 THEN <<mark>>[i - used] ELSE buffer[i]]
  <2>1. Len(<<mark>>) = 1
    OBVIOUS
  <2> QED BY <2>1 DEF Copy
<1>3. \A i \in 1 .. used : buffer[i] = E[ob + i]
  OBVIOUS
<1>4. E[ob + (used + 1)] = mark /\ mark \in Nat
  <2>1. ob + used + 1 = ob + (used + 1) /\ ob + (used + 1) \in Nat
    BY <1>1
  <2> QED BY <2>1 DEF Streams
<1> HIDE DEF ob, b
<1>5. ASSUME NEW i \in 1 .. BlockLength PROVE b[i] \in Nat /\ (i <= used + 1 => b[i] = E[ob + i])
  <2>1. CASE i = used + 1
    <3>1. i \in used + 1 .. used + 1 /\ i - used = 1
      BY <2>1
    <3>2. b[i] = mark
      BY <1>2, <3>1
    <3> QED BY <1>4, <2>1, <3>2
  <2>2. CASE i # used + 1
    <3>1. i \notin used + 1 .. used + 1 /\ (i <= used + 1 => i \in 1 .. used)
      BY <2>2
    <3>2. b[i] = buffer[i]
      BY <1>2, <3>1
    <3> QED BY <1>3, <3>1, <3>2
  <2> QED BY <2>1, <2>2
<1>6. b \in [1 .. BlockLength -> Nat]
  BY <1>2, <1>5
<1>7. \A i \in 1 .. used + 1 : b[i] = E[ob + i]
  BY <1>1, <1>5
<1> QED BY <1>6, <1>7 DEF b, ob

HoldsTo(marked, E, old, used) ==
  /\ marked \in [1 .. BlockLength -> Nat]
  /\ \A i \in 1 .. used + 1 : marked[i] = E[old * BlockLength + i]
ClearsFrom(at, more, used) == (more = 2 => at = 0) /\ (more = 1 => at = used + 1)

\* The block that is filled with zeros, and what is before the length in the last one.
LEMMA ZerosAre ==
  ASSUME NEW D \in Streams, NEW E \in Streams, NEW n \in Nat, NEW old, NEW used, NEW zeros,
         NEW more, Ends(n, old, used, zeros, more), NEW mark, NEW tail,
         PaddedBy(E, D, n, mark, zeros, tail),
         NEW marked, HoldsTo(marked, E, old, used), NEW at, ClearsFrom(at, more, used)
  PROVE  /\ more = 2 => Clear(marked, used + 1, BlockLength) = BlockAt(E, old + 1)
         /\ Clear(marked, at, ShortBlockLength) \in Seq(Nat)
         /\ Len(Clear(marked, at, ShortBlockLength)) = BlockLength
         /\ \A i \in 1 .. ShortBlockLength :
              Clear(marked, at, ShortBlockLength)[i] = BlockAt(E, old + more)[i]
<1> DEFINE ob == old * BlockLength
<1>1. /\ BlockLength \in Nat /\ BlockLength > 0 /\ ShortBlockLength \in Nat
      /\ ShortBlockLength < BlockLength
  BY BlockSize, Sizes, SizesAssumption, ByteAssumption
<1>2. /\ old \in Nat /\ used \in 0 .. BlockLength - 1 /\ n = ob + used /\ zeros \in Nat
      /\ more \in {1, 2} /\ (more = 2 <=> used + 1 > ShortBlockLength)
      /\ more = 1 => zeros = ShortBlockLength - used - 1
      /\ more = 2 => zeros = BlockLength + ShortBlockLength - used - 1
  BY DEF Ends
<1>3. ob \in Nat
  BY <1>1, <1>2
<1>4. \A i \in n + 2 .. n + 1 + zeros : E[i] = 0
  BY DEF PaddedBy
<1>5. marked \in [1 .. BlockLength -> Nat] /\ \A i \in 1 .. used + 1 : marked[i] = E[ob + i]
  BY DEF HoldsTo
<1> HIDE DEF ob
<1>a. (more = 2 => at = 0) /\ (more = 1 => at = used + 1)
  BY DEF ClearsFrom
<1>6. ASSUME more = 2 PROVE Clear(marked, used + 1, BlockLength) = BlockAt(E, old + 1)
  <2>1. BlockAt(E, old + 1) = [i \in 1 .. BlockLength |-> E[ob + i]]
    <3>1. (old + 1) - 1 = old
      BY <1>2
    <3> QED BY <3>1 DEF BlockAt, ob
  <2>2. ASSUME NEW i \in 1 .. BlockLength
        PROVE  (IF i \in used + 1 + 1 .. BlockLength THEN 0 ELSE marked[i]) = E[ob + i]
    <3>1. CASE i \in used + 1 + 1 .. BlockLength
      <4>1. ob + i \in n + 2 .. n + 1 + zeros
        BY <1>1, <1>2, <1>3, <1>6, <3>1
      <4> QED BY <1>4, <3>1, <4>1
    <3>2. CASE i \notin used + 1 + 1 .. BlockLength
      <4>1. i \in 1 .. used + 1
        BY <1>2, <3>2
      <4> QED BY <1>5, <3>2, <4>1
    <3> QED BY <3>1, <3>2
  <2> QED BY <2>1, <2>2 DEF Clear
<1> DEFINE last == Clear(marked, at, ShortBlockLength)
<1>7. /\ last \in Seq(Nat) /\ Len(last) = BlockLength
      /\ \A i \in 1 .. ShortBlockLength : last[i] = BlockAt(E, old + more)[i]
  <2> DEFINE start == (old + more - 1) * BlockLength
  <2>1. last = [i \in 1 .. BlockLength |-> IF i \in at + 1 .. ShortBlockLength THEN 0 ELSE marked[i]]
    BY DEF Clear
  <2> HIDE DEF last
  <2>2. at \in Nat
    BY <1>2, <1>a
  <2>3. start = IF more = 2 THEN ob + BlockLength ELSE ob
    <3>1. CASE more = 1
      <4>1. old + 1 - 1 = old
        BY <1>2
      <4> QED BY <3>1, <4>1 DEF ob
    <3>2. CASE more = 2
      <4>1. (old + 2 - 1) * BlockLength = old * BlockLength + BlockLength
        BY <1>1, <1>2
      <4> QED BY <3>2, <4>1 DEF ob
    <3> QED BY <1>2, <3>1, <3>2
  <2>4. BlockAt(E, old + more) = [i \in 1 .. BlockLength |-> E[start + i]]
    BY <1>2 DEF BlockAt
  <2> HIDE DEF start
  <2>5. ASSUME NEW i \in 1 .. BlockLength PROVE last[i] \in Nat
    BY <1>5, <2>1
  <2>6. last \in Seq(Nat) /\ Len(last) = BlockLength
    <3>1. last = [i \in 1 .. BlockLength |-> last[i]]
      BY <2>1
    <3> QED BY <1>1, <2>5, <3>1
  <2>7. ASSUME NEW i \in 1 .. ShortBlockLength PROVE last[i] = E[start + i]
    <3>1. i \in 1 .. BlockLength
      BY <1>1
    <3>2. CASE more = 2
      <4>1. last[i] = 0
        BY <1>a, <2>1, <3>1, <3>2
      <4>2. start + i \in n + 2 .. n + 1 + zeros
        BY <1>1, <1>2, <1>3, <2>3, <3>2
      <4> QED BY <1>4, <4>1, <4>2
    <3>3. CASE more = 1
      <4>0. at = used + 1 /\ start = ob
        BY <1>a, <2>3, <3>3
      <4>1. CASE i \in used + 1 + 1 .. ShortBlockLength
        <5>1. last[i] = 0
          BY <2>1, <3>1, <4>0, <4>1
        <5>2. start + i \in n + 2 .. n + 1 + zeros
          BY <1>1, <1>2, <1>3, <3>3, <4>0, <4>1
        <5> QED BY <1>4, <5>1, <5>2
      <4>2. CASE i \notin used + 1 + 1 .. ShortBlockLength
        <5>1. i \in 1 .. used + 1
          BY <1>2, <4>2
        <5>2. last[i] = marked[i]
          BY <2>1, <3>1, <4>0, <4>2
        <5> QED BY <1>5, <4>0, <5>1, <5>2
      <4> QED BY <4>1, <4>2
    <3> QED BY <1>2, <3>2, <3>3
  <2>8. \A i \in 1 .. ShortBlockLength : BlockAt(E, old + more)[i] = E[start + i]
    BY <1>1, <2>4
  <2> QED BY <2>6, <2>7, <2>8
<1> QED BY <1>6, <1>7

\* The words of the length.
LEMMA LastWords ==
  ASSUME NEW D \in Streams, NEW E \in Streams, NEW n \in Nat, NEW old, NEW used, NEW zeros,
         NEW more, Ends(n, old, used, zeros, more), NEW mark,
         PaddedBy(E, D, n, mark, zeros, LengthBE(n))
  PROVE  /\ WordsBE(BlockAt(E, old + more))[BlockWords - 1] = Bits(n) \div Radix
         /\ WordsBE(BlockAt(E, old + more))[BlockWords] = Bits(n) % Radix
<1> DEFINE q == old + more
           b == BlockAt(E, q)
           W == WordBytes
           start == (q - 1) * BlockLength
<1>1. W \in Nat /\ W > 0 /\ BlockWords \in Nat /\ BlockWords > 2 /\ BlockLength \in Nat
  BY SizesAssumption, ByteAssumption, BlockSize
<1>2. /\ q \in Nat /\ q > 0
      /\ n + 1 + zeros + 2 * W = q * BlockLength /\ zeros \in Nat
  BY DEF Ends
<1> HIDE DEF q
<1>3. \A i \in 1 .. 2 * W : E[n + 1 + zeros + i] = LengthBE(n)[i]
  BY LengthWords DEF PaddedBy
<1>4. /\ b \in Seq(Nat) /\ Len(b) = BlockLength
      /\ \A i \in 1 .. BlockLength : b[i] = E[start + i]
  BY <1>2, BlockIs
<1>5. start = n + 1 + zeros + 2 * W - BlockLength /\ start \in Nat
  <2>1. (q - 1) * BlockLength = q * BlockLength - BlockLength
    BY <1>1, <1>2
  <2>2. (q - 1) * BlockLength >= 0
    BY <1>1, <1>2
  <2> HIDE DEF start
  <2>3. start = (n + 1 + zeros + 2 * W) - BlockLength /\ start >= 0
    BY <1>2, <2>1, <2>2 DEF start
  <2> QED BY <1>1, <1>2, <2>3
<1> HIDE DEF b, start
<1>6. ASSUME NEW j \in {BlockWords - 1, BlockWords}
      PROVE  /\ WordBytesOf(b, j) = [i \in 1 .. W |-> LengthBE(n)[(j - (BlockWords - 1)) * W + i]]
             /\ WordsBE(b)[j] = BigEndian(WordBytesOf(b, j))
  <2> DEFINE first == (j - 1) * W + 1
             last == j * W
  <2>1. j \in 1 .. BlockWords
    BY <1>1
  <2>2. /\ first \in Nat /\ first >= 1 /\ last = first + W - 1 /\ last <= BlockLength
        /\ start + first - 1 = n + 1 + zeros + (j - (BlockWords - 1)) * W
    <3>1. BlockLength = BlockWords * W
      BY <1>1 DEF BlockLength
    <3>2. CASE j = BlockWords
      <4>1. (BlockWords - 1) * W = BlockLength - W /\ (BlockWords - 1) * W \in Nat
        BY <1>1, <3>1
      <4>2. (j - (BlockWords - 1)) * W = W
        BY <1>1, <3>2
      <4>3. last = BlockLength /\ first = BlockLength - W + 1 /\ BlockLength - W \in Nat
        BY <3>1, <3>2, <4>1
      <4> HIDE DEF first, last
      <4> QED BY <1>1, <1>2, <1>5, <4>2, <4>3
    <3>3. CASE j = BlockWords - 1
      <4>1. /\ (BlockWords - 1) * W = BlockLength - W
            /\ (BlockWords - 1 - 1) * W = BlockLength - 2 * W /\ (BlockWords - 1 - 1) * W \in Nat
        BY <1>1, <3>1
      <4>2. (j - (BlockWords - 1)) * W = 0
        BY <1>1, <3>3
      <4>3. last = BlockLength - W /\ first = BlockLength - 2 * W + 1 /\ BlockLength - 2 * W \in Nat
        BY <3>3, <4>1
      <4> HIDE DEF first, last
      <4> QED BY <1>1, <1>2, <1>5, <4>2, <4>3
    <3> QED BY <3>2, <3>3
  <2>3. WordBytesOf(b, j) = SubSeq(b, first, last)
    BY DEF WordBytesOf
  <2> DEFINE off == (j - (BlockWords - 1)) * W
  <2>4. off \in 0 .. W
    <3>1. j - (BlockWords - 1) = 0 \/ j - (BlockWords - 1) = 1
      BY <1>1
    <3>2. CASE j - (BlockWords - 1) = 0
      BY <1>1, <3>2
    <3>3. CASE j - (BlockWords - 1) = 1
      BY <1>1, <3>3
    <3> QED BY <3>1, <3>2, <3>3
  <2> HIDE DEF first, last, off
  <2>5. SubSeq(b, first, last) = [i \in 1 .. W |-> b[first + i - 1]]
    <3>1. SubSeq(b, first, last) = [i \in 1 .. last - first + 1 |-> b[first + i - 1]]
      BY <1>1, <2>2
    <3>2. last - first + 1 = W
      BY <1>1, <2>2
    <3> QED BY <3>1, <3>2
  <2>6. ASSUME NEW i \in 1 .. W PROVE b[first + i - 1] = LengthBE(n)[off + i]
    <3>1. first + i - 1 \in 1 .. BlockLength /\ off + i \in 1 .. 2 * W
      BY <1>1, <2>2, <2>4
    <3>2. start + (first + i - 1) = n + 1 + zeros + (off + i)
      <4>1. start + first - 1 = n + 1 + zeros + off
        BY <2>2 DEF off
      <4> QED BY <1>2, <1>5, <2>2, <2>4, <4>1
    <3> QED BY <1>3, <1>4, <3>1, <3>2
  <2>7. WordBytesOf(b, j) = [i \in 1 .. W |-> LengthBE(n)[off + i]]
    BY <2>3, <2>5, <2>6
  <2> QED BY <2>1, <2>7 DEF WordsBE, off
<1>7. WordsBE(b)[BlockWords - 1] = Bits(n) \div Radix
  <2>1. \A i \in 1 .. W : (BlockWords - 1 - (BlockWords - 1)) * W + i = i
    BY <1>1
  <2>2. WordBytesOf(b, BlockWords - 1) = [i \in 1 .. W |-> LengthBE(n)[i]]
    BY <1>6, <2>1
  <2> QED BY <1>6, <2>2, LengthWords
<1>8. WordsBE(b)[BlockWords] = Bits(n) % Radix
  <2>1. \A i \in 1 .. W : (BlockWords - (BlockWords - 1)) * W + i = W + i
    BY <1>1
  <2>2. WordBytesOf(b, BlockWords) = [i \in 1 .. W |-> LengthBE(n)[W + i]]
    BY <1>6, <2>1
  <2> QED BY <1>6, <2>2, LengthWords
<1> QED BY <1>7, <1>8 DEF b, q

LEMMA OneMore ==
  ASSUME NEW big \in BOOLEAN, NEW D, NEW n \in Nat, NEW words, words = Words(big, BlockAt(D, n + 1))
  PROVE  ChainOf(big, D, n) \o <<words>> = ChainOf(big, D, n + 1)
<1>1. BlocksFrom(big, D, n, 1) = <<words>>
  <2>1. BlocksFrom(big, D, n, 1) = [k \in 1 .. 1 |-> Words(big, BlockAt(D, n + k))]
    BY DEF BlocksFrom
  <2>2. \A k \in 1 .. 1 : Words(big, BlockAt(D, n + k)) = words
    OBVIOUS
  <2>3. <<words>> = [k \in 1 .. 1 |-> words]
    OBVIOUS
  <2> QED BY <2>1, <2>2, <2>3
<1>2. ChainOf(big, D, n) \o BlocksFrom(big, D, n, 1) = ChainOf(big, D, n + 1)
  <2>1. 1 \in Nat
    OBVIOUS
  <2> QED BY <2>1, ChainGrows
<1> QED BY <1>1, <1>2

\* Where the length does not fit, the block is filled and one more follows.
LEMMA Sha2Ends ==
  ASSUME NEW D \in Streams, NEW E \in Streams, NEW n \in Nat, NEW old, NEW used, NEW zeros,
         NEW more, Ends(n, old, used, zeros, more), PaddedBy(E, D, n, Mark, zeros, LengthBE(n)),
         NEW c, BigHolds(c, D, n),
         NEW high, high = Bits(n) \div Radix, NEW low, low = Bits(n) % Radix
  PROVE  Sha2Last(c, used, high, low) = BigChain(E, old + more)
<1> DEFINE marked == Copy(c.buffer, used, <<Mark>>)
           full == used + 1 > ShortBlockLength
           first == IF full THEN <<WordsBE(Clear(marked, used + 1, BlockLength))>> ELSE <<>>
           last == Clear(marked, IF full THEN 0 ELSE used + 1, ShortBlockLength)
           words == [j \in 1 .. BlockWords |->
                       CASE j = BlockWords - 1 -> high
                         [] j = BlockWords -> low
                         [] OTHER -> WordsBE(last)[j]]
<1>1. Sha2Last(c, used, high, low) = c.chain \o first \o <<words>>
  BY DEF Sha2Last
<1>2. /\ old \in Nat /\ used \in 0 .. BlockLength - 1 /\ n = old * BlockLength + used
      /\ more \in {1, 2} /\ (more = 2 <=> full)
  BY DEF Ends
<1>3. /\ \A i \in 1 .. n : E[i] = D[i]
      /\ E[n + 1] = Mark
  BY DEF PaddedBy
<1>4. c.chain = ChainOf(TRUE, E, old) /\ BufferOf(c.buffer, E, n)
  <2>0. Hashed(c.chain, c.buffer, TRUE, D, n)
    BY DEF BigHolds
  <2>1. Hashed(c.chain, c.buffer, TRUE, E, n)
    BY <1>3, <2>0, HashedSame
  <2>2. n \div BlockLength = old
    <3>1. Splits(n, old, used)
      BY <1>2 DEF Splits
    <3> QED BY <3>1, SplitsIs
  <2> QED BY <2>1, <2>2 DEF Hashed
<1>5. c.buffer \in [1 .. BlockLength -> Nat] /\ \A i \in 1 .. used : c.buffer[i] = E[old * BlockLength + i]
  <2>1. n \div BlockLength = old /\ n % BlockLength = used
    <3>1. Splits(n, old, used)
      BY <1>2 DEF Splits
    <3> QED BY <3>1, SplitsIs
  <2> QED BY <1>4, <2>1 DEF BufferOf
<1>6. /\ marked \in [1 .. BlockLength -> Nat]
      /\ \A i \in 1 .. used + 1 : marked[i] = E[old * BlockLength + i]
  <2>1. E[old * BlockLength + used + 1] = Mark
    BY <1>2, <1>3
  <2>2. old \in Nat /\ used \in 0 .. BlockLength - 1
    BY <1>2
  <2> QED BY ONLY E \in Streams, <1>5, <2>1, <2>2, MarkedIs
<1> HIDE DEF marked, full
<1> DEFINE at == IF full THEN 0 ELSE used + 1
<1>7. /\ more = 2 => Clear(marked, used + 1, BlockLength) = BlockAt(E, old + 1)
      /\ last \in Seq(Nat) /\ Len(last) = BlockLength
      /\ \A i \in 1 .. ShortBlockLength : last[i] = BlockAt(E, old + more)[i]
  <2>1. ClearsFrom(at, more, used) /\ HoldsTo(marked, E, old, used)
    BY <1>2, <1>6 DEF ClearsFrom, HoldsTo
  <2>2. last = Clear(marked, at, ShortBlockLength)
    OBVIOUS
  <2> HIDE DEF at, last
  <2>3. /\ more = 2 => Clear(marked, used + 1, BlockLength) = BlockAt(E, old + 1)
        /\ Clear(marked, at, ShortBlockLength) \in Seq(Nat)
        /\ Len(Clear(marked, at, ShortBlockLength)) = BlockLength
        /\ \A i \in 1 .. ShortBlockLength :
             Clear(marked, at, ShortBlockLength)[i] = BlockAt(E, old + more)[i]
    BY ONLY D \in Streams, E \in Streams, n \in Nat, Ends(n, old, used, zeros, more),
            PaddedBy(E, D, n, Mark, zeros, LengthBE(n)), <2>1, ZerosAre
  <2> QED BY <2>2, <2>3
<1>8. /\ last \in Seq(Nat) /\ Len(last) = BlockLength
      /\ \A i \in 1 .. ShortBlockLength : last[i] = BlockAt(E, old + more)[i]
  BY <1>7
<1> DEFINE q == old + more
<1>9. q \in Nat /\ q > 0
  BY <1>2
<1> HIDE DEF last
<1>10. words = WordsBE(BlockAt(E, q))
  <2>1. /\ WordsBE(BlockAt(E, q))[BlockWords - 1] = high
        /\ WordsBE(BlockAt(E, q))[BlockWords] = low
    BY LastWords
  <2> HIDE DEF q
  <2>2. ASSUME NEW j \in 1 .. BlockWords, j # BlockWords, j # BlockWords - 1
        PROVE  WordsBE(last)[j] = WordsBE(BlockAt(E, q))[j]
    <3>1. j * WordBytes <= ShortBlockLength /\ j * WordBytes \in Nat
      <4>1. j <= BlockWords - 2 /\ BlockWords - 2 \in Nat
        BY <2>2, SizesAssumption, ByteAssumption
      <4>2. j * WordBytes <= (BlockWords - 2) * WordBytes /\ j * WordBytes \in Nat
        BY <4>1, SizesAssumption, ByteAssumption
      <4> QED BY <4>2, Sizes
    <3>2. BlockAt(E, q) \in Seq(Nat) /\ Len(BlockAt(E, q)) = BlockLength
      BY <1>9, BlockIs
    <3>3. ShortBlockLength \in Nat /\ BlockLength \in Nat /\ ShortBlockLength <= BlockLength
      BY Sizes, SizesAssumption, ByteAssumption
    <3>4. /\ Len(last) >= j * WordBytes /\ Len(BlockAt(E, q)) >= j * WordBytes
          /\ \A i \in 1 .. j * WordBytes : last[i] = BlockAt(E, q)[i]
      <4> DEFINE jw == j * WordBytes
      <4>1. jw <= ShortBlockLength /\ jw \in Nat
        BY <3>1
      <4> HIDE DEF jw
      <4>2. \A i \in 1 .. jw : last[i] = BlockAt(E, q)[i]
        BY <1>8, <3>3, <4>1 DEF q
      <4> QED BY <1>8, <3>2, <3>3, <4>1, <4>2 DEF jw
    <3>5. WordBytesOf(last, j) = WordBytesOf(BlockAt(E, q), j)
      BY <1>8, <3>2, <3>4, WordBytesSame
    <3> QED BY <3>5 DEF WordsBE
  <2>3. WordsBE(BlockAt(E, q)) = [j \in 1 .. BlockWords |-> WordsBE(BlockAt(E, q))[j]]
    BY DEF WordsBE
  <2>4. ASSUME NEW j \in 1 .. BlockWords PROVE words[j] = WordsBE(BlockAt(E, q))[j]
    <3>1. BlockWords # BlockWords - 1
      BY SizesAssumption, ByteAssumption
    <3>2. CASE j = BlockWords
      BY <2>1, <3>1, <3>2
    <3>3. CASE j = BlockWords - 1
      BY <2>1, <3>1, <3>3
    <3>4. CASE j # BlockWords /\ j # BlockWords - 1
      <4>1. words[j] = WordsBE(last)[j]
        BY <3>4
      <4> QED BY <2>2, <3>4, <4>1
    <3> QED BY <3>2, <3>3, <3>4
  <2>5. words = [j \in 1 .. BlockWords |-> words[j]]
    OBVIOUS
  <2> HIDE DEF words
  <2> QED BY <2>3, <2>4, <2>5
<1> HIDE DEF words
<1>11. c.chain \o first = ChainOf(TRUE, E, q - 1)
  <2>1. CASE more = 2
    <3>1. first = <<WordsBE(BlockAt(E, old + 1))>>
      BY <1>2, <1>7, <2>1
    <3>2. WordsBE(BlockAt(E, old + 1)) = Words(TRUE, BlockAt(E, old + 1))
      BY DEF Words
    <3>3. q - 1 = old + 1
      BY <1>2, <2>1
    <3>4. ChainOf(TRUE, E, old) \o <<WordsBE(BlockAt(E, old + 1))>> = ChainOf(TRUE, E, old + 1)
      BY <1>2, <3>2, OneMore
    <3> QED BY <1>4, <3>1, <3>3, <3>4
  <2>2. CASE more = 1
    <3>1. first = <<>> /\ q - 1 = old
      BY <1>2, <2>2
    <3>2. ChainOf(TRUE, E, old) \o <<>> = ChainOf(TRUE, E, old)
      <4>1. old \in Nat
        BY <1>2
      <4>2. PICK S : ChainOf(TRUE, E, old) \in Seq(S)
        BY <4>1, ChainIs
      <4> QED BY <4>2, ConcatEmptySeq
    <3> QED BY <1>4, <3>1, <3>2
  <2> QED BY <1>2, <2>1, <2>2
<1> HIDE DEF first
<1>12. ChainOf(TRUE, E, q - 1) \o <<words>> = ChainOf(TRUE, E, q)
  <2> HIDE DEF q
  <2>1. q - 1 \in Nat /\ (q - 1) + 1 = q
    BY <1>9
  <2>2. words = Words(TRUE, BlockAt(E, (q - 1) + 1))
    BY <1>10, <2>1 DEF Words
  <2>3. ChainOf(TRUE, E, q - 1) \o <<words>> = ChainOf(TRUE, E, (q - 1) + 1)
    BY <2>1, <2>2, OneMore
  <2> QED BY <2>1, <2>3
<1>13. BigChain(E, q) = ChainOf(TRUE, E, q)
  BY DEF BigChain
<1> QED BY <1>1, <1>11, <1>12, <1>13 DEF q

-----------------------------------------------------------------------------
(* The padded message.                                                      *)

StreamOf(s) == [i \in Nat |-> IF i \in 1 .. Len(s) THEN s[i] ELSE 0]

LEMMA StreamIs ==
  ASSUME NEW s \in Seq(Nat)
  PROVE  /\ StreamOf(s) \in Streams /\ NextOf(s, StreamOf(s), 0)
         /\ \A i \in 1 .. Len(s) : StreamOf(s)[i] = s[i]
<1>1. ASSUME NEW i \in 1 .. Len(s) PROVE s[i] \in Nat /\ i \in Nat
  OBVIOUS
<1>2. StreamOf(s) \in Streams
  BY <1>1 DEF StreamOf, Streams
<1>3. ASSUME NEW i \in 1 .. Len(s) PROVE StreamOf(s)[i] = s[i] /\ 0 + i = i
  BY <1>1 DEF StreamOf
<1> QED BY <1>2, <1>3 DEF NextOf

Big(h) == h \in {"sha256", "sha512"}

LEMMA BlocksAre ==
  ASSUME NEW s \in Seq(Nat), NEW h, NEW m \in Nat, Len(s) = m * BlockLength
  PROVE  BlocksOf(h, s) = ChainOf(Big(h), StreamOf(s), m)
<1> DEFINE E == StreamOf(s)
           len == Len(s)
<1>1. BlockLength \in Nat /\ BlockLength > 0
  BY BlockSize
<1>2. len \div BlockLength = m
  <2>1. m * BlockLength + 0 = m * BlockLength /\ m \in Int /\ 0 \in 0 .. BlockLength - 1
    BY <1>1
  <2>2. (m * BlockLength + 0) \div BlockLength = m
    BY ONLY <1>1, <2>1, QuotientIs
  <2> QED BY <2>1, <2>2
<1>3. E \in Streams /\ NextOf(s, E, 0)
  BY StreamIs
<1>4. ASSUME NEW k \in 1 .. m
      PROVE  SubSeq(s, (k - 1) * BlockLength + 1, k * BlockLength) = BlockAt(E, k)
  <2> DEFINE lb == (k - 1) * BlockLength
             kb == k * BlockLength
             first == lb + 1
  <2>1. lb \in Nat /\ kb = lb + BlockLength /\ kb \in Nat
    BY <1>1
  <2>2. kb <= len
    <3>1. k * BlockLength <= m * BlockLength
      BY <1>1
    <3> QED BY <3>1
  <2> HIDE DEF lb, kb, len, E
  <2>3. /\ first \in Nat /\ first > 0 /\ kb = first + BlockLength - 1 /\ lb = 0 + first - 1
        /\ k \in Nat /\ k > 0 /\ 0 \in Nat
    BY <1>1, <2>1
  <2>4. kb <= Len(s) /\ lb = (k - 1) * BlockLength
    BY <2>2 DEF lb, len
  <2> HIDE DEF first
  <2>5. SubSeq(s, first, kb) = BlockAt(E, k)
    BY ONLY <1>3, <2>1, <2>3, <2>4, DataBlock, SMTT(30)
  <2> QED BY <2>5 DEF first, lb, kb
<1> HIDE DEF E, len
<1>5. BlocksOf(h, s)
        = [k \in 1 .. m |-> IF Big(h) THEN WordsBE(BlockAt(E, k)) ELSE WordsLE(BlockAt(E, k))]
  BY <1>2, <1>4 DEF BlocksOf, Big, len
<1> QED BY <1>5 DEF ChainOf, Words, E

\* A message with its mark, zeros and tail.
IsPadded(s, message, mark, zeros, tail) ==
  s = message \o <<mark>> \o Zeros(zeros) \o tail

LEMMA PaddedIs ==
  ASSUME NEW n \in Nat, NEW message \in Seq(Nat), Len(message) = n, NEW mark \in Nat,
         NEW zeros \in Nat, NEW tail \in Seq(Nat), NEW D, NextOf(message, D, 0),
         NEW s, IsPadded(s, message, mark, zeros, tail)
  PROVE  /\ s \in Seq(Nat) /\ Len(s) = n + 1 + zeros + Len(tail)
         /\ PaddedBy(StreamOf(s), D, n, mark, zeros, tail)
<1> DEFINE a == message \o <<mark>>
           z == Zeros(zeros)
           b == a \o z
           t == Len(tail)
<1>0. s = message \o <<mark>> \o Zeros(zeros) \o tail
  BY DEF IsPadded
<1>11. \A i \in 1 .. n : message[i] = D[i]
  BY DEF NextOf
<1>1. <<mark>> \in Seq(Nat) /\ Len(<<mark>>) = 1 /\ <<mark>>[1] = mark
  OBVIOUS
<1>2. /\ z \in Seq(Nat) /\ Len(z) = zeros
      /\ \A i \in 1 .. zeros : z[i] = 0
  BY DEF Zeros
<1>3. /\ a \in Seq(Nat) /\ Len(a) = n + 1
      /\ \A i \in 1 .. n : a[i] = D[i]
      /\ a[n + 1] = mark
  <2>1. /\ a \in Seq(Nat) /\ Len(a) = Len(message) + Len(<<mark>>)
        /\ \A i \in 1 .. Len(message) + Len(<<mark>>) :
             a[i] = (IF i <= Len(message) THEN message[i] ELSE <<mark>>[i - Len(message)])
    BY <1>1, ConcatProperties
  <2>2. /\ Len(a) = n + 1
        /\ \A i \in 1 .. n + 1 : a[i] = (IF i <= n THEN message[i] ELSE <<mark>>[i - n])
    BY <1>1, <2>1
  <2> HIDE DEF a
  <2>3. a[n + 1] = mark
    <3>1. n + 1 \in 1 .. n + 1 /\ ~(n + 1 <= n) /\ n + 1 - n = 1
      OBVIOUS
    <3> QED BY <1>1, <2>2, <3>1
  <2>4. \A i \in 1 .. n : a[i] = D[i]
    BY <1>11, <2>2
  <2> QED BY <2>1, <2>2, <2>3, <2>4
<1> HIDE DEF a, z
<1>4. /\ b \in Seq(Nat) /\ Len(b) = n + 1 + zeros
      /\ \A i \in 1 .. n + 1 : b[i] = a[i]
      /\ \A i \in n + 2 .. n + 1 + zeros : b[i] = 0
  <2>1. /\ b \in Seq(Nat) /\ Len(b) = Len(a) + Len(z)
        /\ \A i \in 1 .. Len(a) + Len(z) : b[i] = (IF i <= Len(a) THEN a[i] ELSE z[i - Len(a)])
    BY <1>2, <1>3, ConcatProperties
  <2> HIDE DEF b
  <2>2. /\ Len(b) = n + 1 + zeros
        /\ \A i \in 1 .. n + 1 + zeros : b[i] = (IF i <= n + 1 THEN a[i] ELSE z[i - (n + 1)])
    BY <1>2, <1>3, <2>1
  <2>3. \A i \in n + 2 .. n + 1 + zeros : b[i] = 0
    <3> TAKE i \in n + 2 .. n + 1 + zeros
    <3>1. i \in 1 .. n + 1 + zeros /\ ~(i <= n + 1) /\ i - (n + 1) \in 1 .. zeros
      OBVIOUS
    <3> QED BY <1>2, <2>2, <3>1
  <2>4. \A i \in 1 .. n + 1 : b[i] = a[i]
    <3> TAKE i \in 1 .. n + 1
    <3>1. i \in 1 .. n + 1 + zeros /\ i <= n + 1
      OBVIOUS
    <3> QED BY <2>2, <3>1
  <2>5. Len(b) = n + 1 + zeros /\ b \in Seq(Nat)
    BY <2>1, <2>2
  <2> QED BY <2>3, <2>4, <2>5
<1> HIDE DEF b
<1>5. /\ s \in Seq(Nat) /\ Len(s) = n + 1 + zeros + t /\ t \in Nat
      /\ \A i \in 1 .. n + 1 + zeros : s[i] = b[i]
      /\ \A i \in 1 .. t : s[n + 1 + zeros + i] = tail[i]
  <2>1. s = b \o tail
    BY <1>0 DEF b, a, z
  <2>2. /\ b \o tail \in Seq(Nat) /\ Len(b \o tail) = Len(b) + Len(tail)
        /\ \A i \in 1 .. Len(b) + Len(tail) :
             (b \o tail)[i] = (IF i <= Len(b) THEN b[i] ELSE tail[i - Len(b)])
    BY <1>4, ConcatProperties
  <2>3. t \in Nat
    OBVIOUS
  <2> HIDE DEF t
  <2> DEFINE m == n + 1 + zeros
  <2>4. m \in Nat
    OBVIOUS
  <2>5. /\ s \in Seq(Nat) /\ Len(s) = m + t
        /\ \A i \in 1 .. m + t : s[i] = (IF i <= m THEN b[i] ELSE tail[i - m])
    <3>1. Len(b) = m /\ Len(tail) = t
      BY <1>4 DEF t
    <3> HIDE DEF m
    <3> QED BY <2>1, <2>2, <3>1
  <2> HIDE DEF m
  <2>6. ASSUME NEW i \in 1 .. t PROVE s[m + i] = tail[i]
    <3>1. PICK x : x = m + i
      OBVIOUS
    <3>2. x \in 1 .. m + t /\ ~(x <= m) /\ x - m = i
      BY <2>3, <2>4, <3>1
    <3>3. s[x] = (IF x <= m THEN b[x] ELSE tail[x - m])
      BY ONLY <2>5, <3>2
    <3>4. s[x] = tail[i]
      BY ONLY <3>2, <3>3
    <3> QED BY ONLY <3>1, <3>4
  <2>7. \A i \in 1 .. m : s[i] = b[i]
    BY <2>3, <2>4, <2>5
  <2> QED BY <2>3, <2>5, <2>6, <2>7 DEF m
<1> DEFINE E == StreamOf(s)
<1>6. \A i \in 1 .. n + 1 + zeros + t : E[i] = s[i]
  BY <1>5, StreamIs
<1> HIDE DEF E
<1>7. \A i \in 1 .. n : E[i] = D[i]
  <2> TAKE i \in 1 .. n
  <2>1. i \in 1 .. n + 1 + zeros + t /\ i \in 1 .. n + 1 + zeros /\ i \in 1 .. n + 1
    BY <1>5
  <2>2. E[i] = s[i] /\ s[i] = b[i] /\ b[i] = a[i] /\ a[i] = D[i]
    BY ONLY i \in 1 .. n, <1>3, <1>4, <1>5, <1>6, <2>1
  <2> QED BY <2>2
<1>8. E[n + 1] = mark
  <2>1. n + 1 \in 1 .. n + 1 + zeros + t /\ n + 1 \in 1 .. n + 1 + zeros /\ n + 1 \in 1 .. n + 1
    BY <1>5
  <2> QED BY <1>3, <1>4, <1>5, <1>6, <2>1
<1>9. \A i \in n + 2 .. n + 1 + zeros : E[i] = 0
  <2> TAKE i \in n + 2 .. n + 1 + zeros
  <2>0. n \in Nat /\ zeros \in Nat /\ t \in Nat
    BY <1>5
  <2>1. i \in 1 .. n + 1 + zeros + t /\ i \in 1 .. n + 1 + zeros
    BY ONLY <2>0, i \in n + 2 .. n + 1 + zeros
  <2> QED BY <1>4, <1>5, <1>6, <2>1
<1>10. \A i \in 1 .. t : E[n + 1 + zeros + i] = tail[i]
  <2> TAKE i \in 1 .. t
  <2>0. n \in Nat /\ zeros \in Nat /\ t \in Nat
    BY <1>5
  <2>1. n + 1 + zeros + i \in 1 .. n + 1 + zeros + t
    BY ONLY <2>0, i \in 1 .. t
  <2> QED BY <1>5, <1>6, <2>1
<1> QED BY <1>5, <1>7, <1>8, <1>9, <1>10 DEF PaddedBy, E, t

-----------------------------------------------------------------------------
(* RIPEMD-160: the length, low byte first.                                  *)

LEMMA LengthBytes ==
  ASSUME NEW n \in Nat, NEW low, low = Bits(n) % Radix, NEW high, high = Bits(n) \div Radix
  PROVE  /\ PutLE(low) \o PutLE(high) = LengthLE(n)
         /\ LengthLE(n) \in Seq(Nat) /\ Len(LengthLE(n)) = 2 * WordBytes
<1> DEFINE N == Bits(n)
           W == WordBytes
           B == 2 ^ ByteBits
           P(k) == 2 ^ (ByteBits * k)
<1>1. N \in Nat /\ W \in Nat /\ W > 0 /\ B \in Nat /\ B > 0 /\ Radix \in Nat /\ Radix > 0
  BY BitsIs, SizesAssumption, ByteAssumption, Sizes
<1>2. low = N % Radix /\ high = N \div Radix
  OBVIOUS
<1> HIDE DEF N
<1>3. \A i, j \in 0 .. 2 * W :
        i + j <= 2 * W => P(i + j) = P(i) * P(j) /\ P(i) \in Nat /\ P(i) > 0
  <2> TAKE i, j \in 0 .. 2 * W
  <2> HAVE i + j <= 2 * W
  <2>1. P(i + j) = P(i) * P(j) /\ P(i) \in Nat \ {0}
    BY BytePowers
  <2> QED BY <2>1
<1>4. P(W) = Radix /\ P(1) = B
  <2>1. ByteBits * 1 = ByteBits
    BY SizesAssumption, ByteAssumption
  <2> QED BY <2>1 DEF Radix, WordBits
<1>5. \A x : PutLE(x) = [i \in 1 .. W |-> (x \div P(i - 1)) % B]
  BY DEF PutLE
<1>6. LengthLE(n) = [i \in 1 .. 2 * W |-> (N \div P(i - 1)) % B]
  BY DEF LengthLE, Digit, N
<1> HIDE DEF P, B
<1>7. ASSUME NEW i \in 1 .. 2 * W PROVE (N \div P(i - 1)) % B \in Nat
  <2>1. i - 1 \in 0 .. 2 * W /\ 0 \in 0 .. 2 * W /\ (i - 1) + 0 <= 2 * W
    BY <1>1
  <2> DEFINE p == P(i - 1)
  <2>2. p \in Nat /\ p > 0
    BY <1>3, <2>1
  <2> HIDE DEF p
  <2>3. N \div p \in Nat
    BY ONLY <1>1, <2>2, QuotientOf
  <2>4. (N \div p) % B \in 0 .. B - 1
    BY ONLY <1>1, <2>3, QuotientOf
  <2>5. (N \div p) % B \in Nat
    BY <1>1, <2>4
  <2> QED BY <2>5 DEF p
<1>8. LengthLE(n) \in Seq(Nat) /\ Len(LengthLE(n)) = 2 * W
  BY <1>1, <1>6, <1>7
<1>9. ASSUME NEW i \in 1 .. W PROVE (low \div P(i - 1)) % B = LengthLE(n)[i]
  <2> DEFINE p == P(i - 1)
             j == P(W - i)
  <2>1. p \in Nat /\ p > 0 /\ j \in Nat /\ j > 0 /\ Radix = (j * B) * p
    <3>1. /\ i - 1 \in 0 .. 2 * W /\ W - i \in 0 .. 2 * W /\ 1 \in 0 .. 2 * W
          /\ (W - i) + 1 \in 0 .. 2 * W /\ (W - i) + 1 <= 2 * W
          /\ ((W - i) + 1) + (i - 1) <= 2 * W /\ ((W - i) + 1) + (i - 1) = W
          /\ (i - 1) + 1 <= 2 * W
      BY <1>1
    <3>2. P((W - i) + 1) = j * B /\ j \in Nat /\ j > 0
      BY <1>3, <1>4, <3>1
    <3>3. P(((W - i) + 1) + (i - 1)) = P((W - i) + 1) * p
      BY <1>3, <3>1
    <3>4. p \in Nat /\ p > 0
      BY <1>3, <3>1
    <3> QED BY <1>4, <3>1, <3>2, <3>3, <3>4
  <2> HIDE DEF p, j
  <2>2. j * B \in Nat /\ j * B > 0
    BY <1>1, <2>1
  <2>3. (N % ((j * B) * p)) \div p = (N \div p) % (j * B)
    <3> DEFINE k == j * B
    <3> HIDE DEF k
    <3>1. k \in Nat /\ k > 0
      BY <2>2 DEF k
    <3>2. N \in Nat /\ p \in Nat /\ p > 0
      BY ONLY <1>1, <2>1
    <3>3. (N % (k * p)) \div p = (N \div p) % k
      BY ONLY <3>1, <3>2, QuotientOfRest, ZenonT(60)
    <3> QED BY <3>3 DEF k
  <2> DEFINE x == N \div p
  <2>4. x \in Nat
    BY ONLY <1>1, <2>1, QuotientOf
  <2> HIDE DEF x
  <2>5. (x % (j * B)) % B = x % B
    <3>1. j \in Nat /\ j > 0 /\ B \in Nat /\ B > 0
      BY <1>1, <2>1
    <3> QED BY ONLY <2>4, <3>1, QuotientOfRest
  <2>6. low \div p = x % (j * B)
    BY <1>2, <2>1, <2>3 DEF x
  <2>7. LengthLE(n)[i] = x % B
    <3>1. i \in 1 .. 2 * W
      BY <1>1
    <3> QED BY <1>6, <3>1 DEF x, p
  <2> QED BY <2>5, <2>6, <2>7 DEF p
<1>10. ASSUME NEW i \in 1 .. W PROVE (high \div P(i - 1)) % B = LengthLE(n)[W + i]
  <2> DEFINE p == P(i - 1)
  <2>1. /\ W + i \in 1 .. 2 * W /\ W \in 0 .. 2 * W /\ i - 1 \in 0 .. 2 * W /\ 0 \in 0 .. 2 * W
        /\ W + (i - 1) <= 2 * W /\ W + i - 1 = W + (i - 1) /\ (i - 1) + 0 <= 2 * W
    BY <1>1
  <2>2. p \in Nat /\ p > 0 /\ P(W + (i - 1)) = Radix * p
    BY <1>3, <1>4, <2>1
  <2> HIDE DEF p
  <2>3. (N \div Radix) \div p = N \div (Radix * p)
    BY ONLY <1>1, <2>2, QuotientTwice
  <2>4. LengthLE(n)[W + i] = (N \div P(W + i - 1)) % B
    BY <1>6, <2>1
  <2> QED BY <1>2, <2>1, <2>2, <2>3, <2>4 DEF p
<1> DEFINE a == PutLE(low)
           b == PutLE(high)
           c == LengthLE(n)
<1>11. \A i \in 1 .. 2 * W : c[i] \in Nat
  BY <1>8
<1>12. /\ a \in Seq(Nat) /\ Len(a) = W /\ \A i \in 1 .. W : c[i] = a[i]
       /\ b \in Seq(Nat) /\ Len(b) = W /\ \A i \in 1 .. W : c[W + i] = b[i]
  <2> HIDE DEF c
  <2>1. a = [i \in 1 .. W |-> c[i]]
    BY <1>5, <1>9 DEF c
  <2>2. b = [i \in 1 .. W |-> c[W + i]]
    BY <1>5, <1>10 DEF c
  <2> HIDE DEF a, b
  <2>3. ASSUME NEW i \in 1 .. W PROVE c[i] \in Nat /\ c[W + i] \in Nat
    <3>1. i \in 1 .. 2 * W /\ W + i \in 1 .. 2 * W
      BY <1>1
    <3> QED BY <1>11, <3>1
  <2> HIDE DEF W
  <2>4. W \in Nat
    BY <1>1
  <2>5. a \in Seq(Nat) /\ Len(a) = W /\ \A i \in 1 .. W : c[i] = a[i]
    BY ONLY <2>1, <2>3, <2>4
  <2>6. b \in Seq(Nat) /\ Len(b) = W /\ \A i \in 1 .. W : c[W + i] = b[i]
    <3> DEFINE g == [i \in 1 .. W |-> c[W + i]]
    <3>1. g \in Seq(Nat) /\ Len(g) = W /\ \A i \in 1 .. W : c[W + i] = g[i]
      BY ONLY <2>3, <2>4
    <3> QED BY <2>2, <3>1
  <2> QED BY <2>5, <2>6
<1> HIDE DEF a, b, c
<1>13. a \o b = c
  <2>1. c \in Seq(Nat) /\ Len(c) = Len(a) + Len(b)
    BY <1>1, <1>8, <1>12 DEF c
  <2>2. /\ a \in Seq(Nat) /\ b \in Seq(Nat)
        /\ \A i \in 1 .. Len(a) : c[i] = a[i]
        /\ \A i \in 1 .. Len(b) : c[Len(a) + i] = b[i]
    BY <1>12
  <2> QED BY ONLY <2>1, <2>2, Concatenated
<1> QED BY <1>8, <1>13 DEF a, b, c

Ripemd160Holds(c, D, n) == LittleHolds(c, D, n) /\ c.count[1] = n % Radix

LEMMA Ripemd160Holding ==
  ASSUME BlocksFit, NEW D \in Streams, NEW n \in Nat, NEW c, Ripemd160Holds(c, D, n),
         NEW data, NextOf(data, D, n), NEW len \in Nat, Len(data) = len
  PROVE  Ripemd160Holds(Ripemd160Update(c, data), D, n + len)
<1> DEFINE r == Ripemd160Update(c, data)
           sum == n + len
<1>1. sum \in Nat /\ sum = n + len /\ r = Ripemd160Update(c, data)
  OBVIOUS
<1>2. LittleHolds(c, D, n) /\ c.count[1] = n % Radix
  BY DEF Ripemd160Holds
<1> HIDE DEF r, sum
<1>3. /\ LittleHolds(r, D, sum) /\ IsContext(r)
      /\ r.count = AddIncrement(c.count, len) /\ r.count[1] = sum % Radix
  BY <1>1, <1>2, Ripemd160Absorbs
<1>4. Ripemd160Holds(r, D, sum)
  BY <1>3 DEF Ripemd160Holds
<1> QED BY <1>4 DEF r, sum

\* The padding and the length are hashed as data.
LEMMA Ripemd160Ends ==
  ASSUME BlocksFit,
         NEW D \in Streams, NEW E \in Streams, NEW n \in Nat, NEW old, NEW used, NEW zeros,
         NEW more, Ends(n, old, used, zeros, more), PaddedBy(E, D, n, Mark, zeros, LengthLE(n)),
         NEW c, LittleHolds(c, D, n), c.count = TwoWords(n)
  PROVE  Ripemd160Final(c) = LittleChain(E, old + more)
<1> DEFINE low == (c.count[1] * ByteBits) % Radix
           high == ((c.count[1] * ByteBits) \div Radix + c.count[2] * ByteBits) % Radix
           last == Ripemd160Used(c)
           padn == IF last < ShortBlockLength THEN ShortBlockLength - last
                                              ELSE BlockLength + ShortBlockLength - last
           padding == [i \in 1 .. padn |-> IF i = 1 THEN Mark ELSE 0]
           tail == PutLE(low) \o PutLE(high)
           c1 == Ripemd160Update(c, padding)
           c2 == Ripemd160Update(c1, tail)
<1>1. Ripemd160Final(c) = c2.chain
  BY DEF Ripemd160Final
<1>2. c.count[1] = n % Radix /\ c.count[2] = (n \div Radix) % Radix
  BY DEF TwoWords
<1>3. /\ old \in Nat /\ used \in 0 .. BlockLength - 1 /\ n = old * BlockLength + used
      /\ zeros \in Nat /\ more \in {1, 2} /\ (more = 2 <=> used + 1 > ShortBlockLength)
      /\ more = 1 => zeros = ShortBlockLength - used - 1
      /\ more = 2 => zeros = BlockLength + ShortBlockLength - used - 1
      /\ n + 1 + zeros + 2 * WordBytes = (old + more) * BlockLength
  BY DEF Ends
<1>4. last = used
  <2>1. Splits(n, old, used)
    BY <1>3 DEF Splits
  <2>2. n % BlockLength = used
    BY <2>1, SplitsIs
  <2> QED BY <1>2, <2>2, Ripemd160UsedIs
<1>5. padn = zeros + 1
  <2> HIDE DEF last
  <2>1. ShortBlockLength \in Nat /\ BlockLength \in Nat /\ used \in Nat
    BY <1>3, BlockSize, Sizes
  <2>2. CASE more = 1
    <3>1. last < ShortBlockLength /\ zeros = ShortBlockLength - used - 1
      BY <1>3, <1>4, <2>1, <2>2
    <3> QED BY <1>4, <2>1, <3>1
  <2>3. CASE more = 2
    <3>1. ~(last < ShortBlockLength) /\ zeros = BlockLength + ShortBlockLength - used - 1
      BY <1>3, <1>4, <2>1, <2>3
    <3> QED BY <1>4, <2>1, <3>1
  <2> QED BY <1>3, <2>2, <2>3
<1> HIDE DEF padn, last
<1>6. low = Bits(n) % Radix /\ high = Bits(n) \div Radix
  <2> DEFINE p == n \div Radix
             r == n % Radix
             rb == r * ByteBits
             pb == p * ByteBits
             kb == (p % Radix) * ByteBits
  <2>1. Radix \in Nat /\ Radix > 0 /\ ByteBits \in Nat
    BY Sizes, SizesAssumption, ByteAssumption
  <2>2. p \in Nat /\ r \in 0 .. Radix - 1 /\ n = p * Radix + r
    BY <2>1, QuotientOf
  <2> HIDE DEF p, r
  <2>3. p % Radix \in 0 .. Radix - 1
    BY ONLY <2>1, <2>2, QuotientOf
  <2>4. rb \in Nat /\ pb \in Nat /\ kb \in Nat
    BY <2>1, <2>2, <2>3
  <2>5. ByteBits * n = pb * Radix + rb
    <3>1. ByteBits * (p * Radix + r) = (p * ByteBits) * Radix + r * ByteBits
      BY <2>1, <2>2
    <3> QED BY <2>2, <3>1
  <2>6. low = rb % Radix /\ high = ((rb \div Radix) + kb) % Radix
    BY <1>2 DEF p, r
  <2> HIDE DEF low, high
  <2>7. (pb * Radix + rb) \div Radix = pb + (rb \div Radix) /\ (pb * Radix + rb) % Radix = rb % Radix
    <3> HIDE DEF pb, rb
    <3> QED BY ONLY <2>1, <2>4, QuotientPlus
  <2>8. low = Bits(n) % Radix
    <3>1. Bits(n) % Radix = (ByteBits * n) % Radix
      BY BitsIs
    <3> QED BY <2>5, <2>6, <2>7, <3>1
  <2> DEFINE z == rb \div Radix
  <2>9. z \in Nat
    <3> HIDE DEF rb
    <3> QED BY ONLY <2>1, <2>4, QuotientOf
  <2>10. Bits(n) \div Radix = (pb + z) % Radix
    <3>1. Bits(n) \div Radix = ((ByteBits * n) \div Radix) % Radix
      BY BitsIs
    <3> QED BY <2>5, <2>7, <3>1
  <2>11. (pb + z) % Radix = (kb + z) % Radix
    <3> DEFINE u == p \div Radix
               v == p % Radix
    <3>1. u \in Nat /\ v \in 0 .. Radix - 1 /\ p = u * Radix + v
      BY ONLY <2>1, <2>2, QuotientOf
    <3> DEFINE ub == u * ByteBits
    <3>2. pb = ub * Radix + kb
      <4> HIDE DEF u, v
      <4>1. (u * Radix + v) * ByteBits = (u * ByteBits) * Radix + v * ByteBits
        BY <2>1, <3>1
      <4> QED BY <3>1, <4>1 DEF v
    <3>3. ub \in Nat
      BY <2>1, <3>1
    <3>4. ub * Radix \in Nat
      BY <2>1, <3>3
    <3> HIDE DEF ub, kb, pb, z
    <3> DEFINE ur == ub * Radix
    <3>5. pb + z = ub * Radix + (kb + z)
      <4>1. ur \in Nat /\ pb = ur + kb
        BY <3>2, <3>4
      <4> HIDE DEF ur
      <4>2. pb + z = ur + (kb + z)
        BY <2>4, <2>9, <4>1
      <4> QED BY <4>2 DEF ur
    <3>6. kb + z \in Nat
      BY <2>4, <2>9
    <3>7. (ub * Radix + (kb + z)) % Radix = (kb + z) % Radix
      <4> DEFINE y == kb + z
      <4> HIDE DEF y
      <4>1. y \in Nat
        BY <3>6 DEF y
      <4>2. (ub * Radix + y) % Radix = y % Radix
        BY ONLY <2>1, <3>3, <4>1, QuotientPlus
      <4> QED BY <4>2 DEF y
    <3> QED BY <3>5, <3>7
  <2>12. high = (kb + z) % Radix
    <3> HIDE DEF kb
    <3>1. z + kb = kb + z
      BY <2>4, <2>9
    <3> QED BY <2>6, <3>1
  <2> QED BY <2>8, <2>10, <2>11, <2>12
<1> HIDE DEF low, high
<1>7. tail = LengthLE(n) /\ LengthLE(n) \in Seq(Nat) /\ Len(LengthLE(n)) = 2 * WordBytes
  BY <1>6, LengthBytes
<1>8. /\ \A i \in 1 .. n : E[i] = D[i]
      /\ E[n + 1] = Mark
      /\ \A i \in n + 2 .. n + 1 + zeros : E[i] = 0
      /\ \A i \in 1 .. 2 * WordBytes : E[n + 1 + zeros + i] = LengthLE(n)[i]
  BY <1>7 DEF PaddedBy
<1>9. NextOf(padding, E, n) /\ Len(padding) = zeros + 1
  <2>1. padding = [i \in 1 .. zeros + 1 |-> IF i = 1 THEN Mark ELSE 0]
    BY <1>5
  <2>2. ASSUME NEW i \in 1 .. zeros + 1
        PROVE  (IF i = 1 THEN Mark ELSE 0) \in Nat /\ (IF i = 1 THEN Mark ELSE 0) = E[n + i]
    <3>1. CASE i = 1
      BY <1>8, <3>1, Sizes
    <3>2. CASE i # 1
      <4>1. n + i \in n + 2 .. n + 1 + zeros
        BY <1>3, <3>2
      <4> QED BY <1>8, <3>2, <4>1
    <3> QED BY <3>1, <3>2
  <2> DEFINE m == zeros + 1
             g == [i \in 1 .. m |-> IF i = 1 THEN Mark ELSE 0]
  <2>3. m \in Nat /\ padding = g
    BY <1>3, <2>1
  <2>4. g \in Seq(Nat) /\ Len(g) = m /\ \A i \in 1 .. m : g[i] = E[n + i]
    <3>1. \A i \in 1 .. m :
            (IF i = 1 THEN Mark ELSE 0) \in Nat /\ (IF i = 1 THEN Mark ELSE 0) = E[n + i]
      BY <2>2
    <3> HIDE DEF m
    <3> QED BY ONLY <2>3, <3>1
  <2> HIDE DEF g, padding
  <2> QED BY <2>3, <2>4 DEF NextOf
<1> HIDE DEF padding
<1>10. Ripemd160Holds(c, E, n)
  <2>1. Hashed(c.chain, c.buffer, FALSE, D, n)
    BY DEF LittleHolds
  <2>2. Hashed(c.chain, c.buffer, FALSE, E, n)
    BY <1>8, <2>1, HashedSame
  <2> QED BY <1>2, <2>2 DEF Ripemd160Holds, LittleHolds
<1> DEFINE n1 == n + (zeros + 1)
<1>11. n1 \in Nat /\ zeros + 1 \in Nat
  BY <1>3
<1>12. Ripemd160Holds(c1, E, n1)
  <2>1. Ripemd160Holds(Ripemd160Update(c, padding), E, n + (zeros + 1))
    BY ONLY BlocksFit, E \in Streams, n \in Nat, <1>9, <1>10, <1>11, Ripemd160Holding
  <2> QED BY <2>1
<1> HIDE DEF c1
<1>13. NextOf(tail, E, n1) /\ Len(tail) = 2 * WordBytes
  <2>1. \A i \in 1 .. 2 * WordBytes : LengthLE(n)[i] = E[n1 + i]
    <3> TAKE i \in 1 .. 2 * WordBytes
    <3>1. n1 + i = n + 1 + zeros + i
      BY <1>3
    <3> QED BY <1>8, <3>1
  <2> QED BY <1>7, <2>1 DEF NextOf
<1> HIDE DEF tail
<1> DEFINE n2 == n1 + 2 * WordBytes
<1>14. n2 \in Nat /\ 2 * WordBytes \in Nat /\ n2 = (old + more) * BlockLength
  BY <1>3, <1>11, SizesAssumption, ByteAssumption
<1>15. Hashed(c2.chain, c2.buffer, FALSE, E, n2)
  <2> HIDE DEF n1
  <2>1. Ripemd160Holds(Ripemd160Update(c1, tail), E, n1 + 2 * WordBytes)
    BY ONLY BlocksFit, E \in Streams, <1>11, <1>12, <1>13, <1>14, Ripemd160Holding
  <2> QED BY <2>1 DEF Ripemd160Holds, LittleHolds
<1>16. n2 \div BlockLength = old + more
  <2> DEFINE q == old + more
  <2>1. q \in Nat
    BY <1>3
  <2>2. 0 \in 0 .. BlockLength - 1
    BY BlockSize
  <2>3. n2 = q * BlockLength + 0
    <3>1. n2 = q * BlockLength
      BY <1>14
    <3> HIDE DEF q, n2
    <3>2. q * BlockLength \in Int /\ q * BlockLength + 0 = q * BlockLength
      BY <2>1, BlockSize
    <3> QED BY <3>1, <3>2
  <2> HIDE DEF q, n2
  <2>4. Splits(n2, q, 0)
    BY <2>1, <2>2, <2>3 DEF Splits
  <2>5. n2 \div BlockLength = q
    BY ONLY <1>14, <2>4, SplitsIs
  <2> QED BY <2>5 DEF q
<1> QED BY <1>1, <1>15, <1>16 DEF Hashed, LittleChain

-----------------------------------------------------------------------------
(* The sponges: the mark and the last bit.                                  *)

SpongePadded(E, D, n, used, mark) ==
  /\ \A i \in 1 .. n : E[i] = D[i]
  /\ used = BlockLength - 1 => E[n + 1] = mark + Mark
  /\ used # BlockLength - 1 =>
       /\ E[n + 1] = mark
       /\ \A i \in n + 2 .. n + (BlockLength - used) - 1 : E[i] = 0
       /\ E[n + (BlockLength - used)] = Mark

\* The last block, when the buffer holds used bytes.
SpongeLast(buffer, used, mark) ==
  LET marked == Copy(Clear(buffer, used, BlockLength), used, <<mark>>)
  IN Copy(marked, BlockLength - 1, <<marked[BlockLength] + Mark>>)

SpongeByte(buffer, used, mark, i) ==
  IF i = BlockLength
  THEN (IF used = BlockLength - 1 THEN mark ELSE 0) + Mark
  ELSE IF i <= used THEN buffer[i] ELSE IF i = used + 1 THEN mark ELSE 0

LEMMA SpongeLastIs ==
  ASSUME NEW used \in 0 .. BlockLength - 1, NEW buffer, NEW mark \in Nat
  PROVE  SpongeLast(buffer, used, mark)
           = [i \in 1 .. BlockLength |-> SpongeByte(buffer, used, mark, i)]
<1> DEFINE clear == Clear(buffer, used, BlockLength)
           marked == Copy(clear, used, <<mark>>)
           top == marked[BlockLength] + Mark
           last == Copy(marked, BlockLength - 1, <<top>>)
<1>1. BlockLength \in Nat /\ BlockLength > 0 /\ Mark \in Nat /\ used \in Nat
  BY BlockSize, Sizes
<1>2. clear = [i \in 1 .. BlockLength |-> IF i <= used THEN buffer[i] ELSE 0]
  <2>1. \A i \in 1 .. BlockLength : (i \in used + 1 .. BlockLength) <=> ~(i <= used)
    BY <1>1
  <2> QED BY <2>1 DEF Clear
<1> HIDE DEF clear
<1>3. marked = [i \in 1 .. BlockLength |-> IF i = used + 1 THEN mark ELSE clear[i]]
  <2>1. Len(<<mark>>) = 1 /\ <<mark>>[1] = mark
    OBVIOUS
  <2>2. \A i \in 1 .. BlockLength :
          ((i \in used + 1 .. used + 1) <=> (i = used + 1)) /\ (i = used + 1 => i - used = 1)
    BY <1>1
  <2>3. marked = [i \in 1 .. BlockLength |->
                    IF i \in used + 1 .. used + 1 THEN <<mark>>[i - used] ELSE clear[i]]
    BY <2>1 DEF Copy
  <2>4. \A i \in 1 .. BlockLength :
          (IF i \in used + 1 .. used + 1 THEN <<mark>>[i - used] ELSE clear[i])
            = (IF i = used + 1 THEN mark ELSE clear[i])
    BY <2>1, <2>2
  <2> HIDE DEF marked
  <2> QED BY <2>3, <2>4
<1> HIDE DEF marked
<1>4. last = [i \in 1 .. BlockLength |-> IF i = BlockLength THEN top ELSE marked[i]]
  <2> HIDE DEF top
  <2>1. Len(<<top>>) = 1 /\ <<top>>[1] = top
    OBVIOUS
  <2> DEFINE b == BlockLength - 1
  <2>2. \A i \in 1 .. BlockLength :
          ((i \in b + 1 .. b + 1) <=> (i = BlockLength)) /\ (i = BlockLength => i - b = 1)
    BY <1>1
  <2>3. last = [i \in 1 .. BlockLength |->
                  IF i \in b + 1 .. b + 1 THEN <<top>>[i - b] ELSE marked[i]]
    BY <2>1 DEF Copy
  <2> HIDE DEF b
  <2>4. \A i \in 1 .. BlockLength :
          (IF i \in b + 1 .. b + 1 THEN <<top>>[i - b] ELSE marked[i])
            = (IF i = BlockLength THEN top ELSE marked[i])
    BY <2>1, <2>2
  <2> HIDE DEF last
  <2> QED BY <2>3, <2>4
<1>5. top = (IF used = BlockLength - 1 THEN mark ELSE 0) + Mark
  <2>1. BlockLength \in 1 .. BlockLength /\ ~(BlockLength <= used)
        /\ ((BlockLength = used + 1) <=> (used = BlockLength - 1))
    BY <1>1
  <2>2. clear[BlockLength] = 0
    BY <1>2, <2>1
  <2>3. marked[BlockLength] = IF used = BlockLength - 1 THEN mark ELSE 0
    BY <1>3, <2>1, <2>2
  <2> QED BY <2>3
<1> HIDE DEF top, last
<1>6. ASSUME NEW i \in 1 .. BlockLength
      PROVE  (IF i = BlockLength THEN top ELSE marked[i]) = SpongeByte(buffer, used, mark, i)
  <2>1. CASE i = BlockLength
    BY <1>5, <2>1 DEF SpongeByte
  <2>2. CASE i # BlockLength
    <3>1. marked[i] = (IF i <= used THEN buffer[i] ELSE IF i = used + 1 THEN mark ELSE 0)
      <4>1. ~(i <= used /\ i = used + 1)
        BY <1>1
      <4> QED BY <1>2, <1>3, <4>1
    <3> QED BY <2>2, <3>1 DEF SpongeByte
  <2> QED BY <2>1, <2>2
<1>7. SpongeLast(buffer, used, mark) = last
  BY DEF SpongeLast, last, top, marked, clear
<1> QED BY <1>4, <1>6, <1>7

LEMMA SpongeEnds ==
  ASSUME NEW D \in Streams, NEW E \in Streams, NEW n \in Nat, NEW c, LittleHolds(c, D, n),
         c.count = <<n % BlockLength>>, IsContext(c), NEW mark \in Nat,
         NEW old, NEW used, Splits(n, old, used), SpongePadded(E, D, n, used, mark),
         NEW r, r = SpongeFinal(c, mark)
  PROVE  r.chain = LittleChain(E, old + 1) /\ r.count = <<Finalized>> /\ IsContext(r)
<1> DEFINE last == SpongeLast(c.buffer, used, mark)
           ob == old * BlockLength
<1>1. BlockLength \in Nat /\ BlockLength > 0 /\ Mark \in Nat
  BY BlockSize, Sizes
<1>2. /\ old \in Nat /\ used \in 0 .. BlockLength - 1 /\ n = ob + used /\ ob \in Nat
      /\ n \div BlockLength = old /\ n % BlockLength = used
  <2>1. old \in Nat /\ used \in 0 .. BlockLength - 1 /\ n = ob + used
    BY DEF Splits
  <2>2. ob \in Nat
    BY <1>1, <2>1
  <2>3. n \div BlockLength = old /\ n % BlockLength = used
    BY ONLY n \in Nat, Splits(n, old, used), SplitsIs
  <2> QED BY <2>1, <2>2, <2>3
<1> HIDE DEF ob
<1>3. /\ \A i \in 1 .. n : E[i] = D[i]
      /\ used = BlockLength - 1 => E[n + 1] = mark + Mark
      /\ used # BlockLength - 1 =>
           /\ E[n + 1] = mark
           /\ \A i \in n + 2 .. n + (BlockLength - used) - 1 : E[i] = 0
           /\ E[n + (BlockLength - used)] = Mark
  BY DEF SpongePadded
<1>4. /\ c.chain = ChainOf(FALSE, E, old)
      /\ \A i \in 1 .. used : c.buffer[i] = E[ob + i]
  <2>1. Hashed(c.chain, c.buffer, FALSE, D, n)
    BY DEF LittleHolds
  <2>2. Hashed(c.chain, c.buffer, FALSE, E, n)
    BY <1>3, <2>1, HashedSame
  <2> QED BY <1>2, <2>2 DEF Hashed, BufferOf, ob
<1>5. last = BlockAt(E, old + 1)
  <2> DEFINE value(i) == SpongeByte(c.buffer, used, mark, i)
  <2>1. last = [i \in 1 .. BlockLength |-> value(i)]
    <3>1. used \in 0 .. BlockLength - 1
      BY <1>2
    <3>2. SpongeLast(c.buffer, used, mark)
            = [i \in 1 .. BlockLength |-> SpongeByte(c.buffer, used, mark, i)]
      BY ONLY <3>1, mark \in Nat, SpongeLastIs
    <3> QED BY <3>2
  <2>2. ASSUME NEW i \in 1 .. BlockLength PROVE value(i) = E[ob + i]
    <3>1. CASE i <= used
      <4>1. i \in 1 .. used /\ i # BlockLength
        BY <1>1, <1>2, <3>1
      <4> QED BY <1>4, <3>1, <4>1 DEF SpongeByte
    <3>2. CASE i = used + 1
      <4>1. ob + i = n + 1 /\ ~(i <= used) /\ (i = BlockLength <=> used = BlockLength - 1)
        BY <1>1, <1>2, <3>2
      <4> QED BY <1>1, <1>3, <3>2, <4>1 DEF SpongeByte
    <3>3. CASE i > used + 1
      <4>1. used # BlockLength - 1 /\ ~(i <= used) /\ i # used + 1
        BY <1>1, <1>2, <3>3
      <4>2. CASE i = BlockLength
        <5>1. ob + i = n + (BlockLength - used) /\ 0 + Mark = Mark
          BY <1>1, <1>2, <4>2
        <5> QED BY <1>3, <4>1, <4>2, <5>1 DEF SpongeByte
      <4>3. CASE i # BlockLength
        <5>1. i \in used + 2 .. BlockLength - 1
          BY <1>1, <1>2, <3>3, <4>3
        <5>2. used \in Nat /\ ob \in Nat /\ n = ob + used
          BY <1>2
        <5>3. ob + i \in n + 2 .. n + (BlockLength - used) - 1
          BY ONLY <1>1, <5>1, <5>2
        <5> QED BY <1>3, <4>1, <4>3, <5>3 DEF SpongeByte
      <4> QED BY <4>2, <4>3
    <3> QED BY <1>2, <3>1, <3>2, <3>3
  <2> HIDE DEF value, last
  <2>3. last = [i \in 1 .. BlockLength |-> E[ob + i]]
    BY <2>1, <2>2
  <2>4. BlockAt(E, old + 1) = [i \in 1 .. BlockLength |-> E[ob + i]]
    <3>1. PICK k \in Nat : k = old + 1 /\ k - 1 = old
      BY <1>2
    <3>2. (k - 1) * BlockLength = ob
      BY <3>1 DEF ob
    <3> DEFINE at == (k - 1) * BlockLength
    <3>3. BlockAt(E, k) = [i \in 1 .. BlockLength |-> E[at + i]]
      BY ONLY TRUE DEF BlockAt
    <3> HIDE DEF at
    <3> QED BY <3>1, <3>2, <3>3 DEF at
  <2> QED BY <2>3, <2>4
<1> DEFINE words == WordsLE(last)
<1>6. /\ r.chain = Append(c.chain, words) /\ r.count = <<Finalized>> /\ IsContext(r)
  <2>1. c.count[1] = used /\ used # Finalized
    BY <1>1, <1>2 DEF Finalized
  <2>2. r = [c EXCEPT !.chain = Append(@, words), !.buffer = last, !.count = <<Finalized>>]
    BY <2>1 DEF SpongeFinal, SpongeLast
  <2> HIDE DEF words, last
  <2> DEFINE made == [chain |-> Append(c.chain, words), buffer |-> last, count |-> <<Finalized>>]
  <2>3. made.chain = Append(c.chain, words) /\ made.count = <<Finalized>> /\ IsContext(made)
    BY DEF IsContext
  <2>4. r = made
    <3>1. PICK x, y, z : c = [chain |-> x, buffer |-> y, count |-> z]
      BY DEF IsContext
    <3> QED BY <2>2, <3>1
  <2> HIDE DEF made
  <2> QED BY <2>3, <2>4
<1>7. words = Words(FALSE, BlockAt(E, old + 1))
  <2> HIDE DEF last
  <2> QED BY <1>5 DEF Words
<1> HIDE DEF words
<1>8. Append(c.chain, words) = ChainOf(FALSE, E, old) \o <<words>>
  <2> DEFINE chain == ChainOf(FALSE, E, old)
  <2>1. PICK S : chain \in Seq(S)
    BY <1>2, ChainIs
  <2>2. chain \in Seq(S \cup {words}) /\ words \in S \cup {words}
    <3> HIDE DEF chain
    <3>1. \A i \in 1 .. Len(chain) : chain[i] \in S \cup {words}
      BY <2>1
    <3> QED BY <2>1, <3>1
  <2> HIDE DEF chain
  <2>3. Append(chain, words) = chain \o <<words>>
    BY ONLY <2>2, AppendIsConcat
  <2> QED BY <1>4, <2>3 DEF chain
<1>9. ChainOf(FALSE, E, old) \o <<words>> = ChainOf(FALSE, E, old + 1)
  BY <1>2, <1>7, OneMore
<1> QED BY <1>6, <1>8, <1>9 DEF LittleChain

-----------------------------------------------------------------------------
(* What the standards pad, of the stream of the letters.                    *)

Stream == [i \in Nat |-> IF i \in 1 .. MaxMessage THEN Letters[i] ELSE 0]
Expected == BlocksOf(algorithm, Padded(algorithm))

LEMMA LettersAre ==
  /\ MaxMessage \in Nat /\ Stream \in Streams
  /\ \A i \in 1 .. MaxMessage : Letters[i] \in Nat /\ Stream[i] = Letters[i]
<1>1. MaxMessage \in Nat /\ Letters \in [1 .. MaxMessage -> Byte]
  BY StreamAssumption
<1>2. Byte \subseteq Nat
  BY Sizes DEF Byte
<1>3. ASSUME NEW i \in 1 .. MaxMessage PROVE Letters[i] \in Nat /\ i \in Nat
  <2>1. Letters[i] \in Byte
    BY <1>1
  <2>2. Letters[i] \in Nat
    BY <1>2, <2>1, Zenon
  <2>3. i \in Nat
    BY <1>1
  <2> QED BY <2>2, <2>3
<1>4. Stream \in Streams
  BY <1>3 DEF Stream, Streams
<1>5. ASSUME NEW i \in 1 .. MaxMessage PROVE Stream[i] = Letters[i]
  BY <1>3 DEF Stream
<1> QED BY <1>1, <1>3, <1>4, <1>5

LEMMA MessageIs ==
  ASSUME length \in 0 .. MaxMessage
  PROVE  /\ Message \in Seq(Nat) /\ Len(Message) = length /\ length \in Nat
         /\ NextOf(Message, Stream, 0)
<1>1. length \in Nat /\ \A i \in 1 .. length : Letters[i] \in Nat /\ Stream[i] = Letters[i]
  <2>1. MaxMessage \in Nat
    BY LettersAre
  <2>2. \A i \in 1 .. length : i \in 1 .. MaxMessage
    BY <2>1
  <2>3. length \in Nat
    BY <2>1
  <2> QED BY <2>2, <2>3, LettersAre
<1>2. Message \in Seq(Nat) /\ Len(Message) = length
  BY <1>1 DEF Message
<1>3. ASSUME NEW i \in 1 .. length PROVE Message[i] = Stream[0 + i]
  <2>1. 0 + i = i
    BY <1>1
  <2> QED BY <1>1, <2>1 DEF Message
<1> QED BY <1>1, <1>2, <1>3 DEF NextOf

LEMMA ChunkIs ==
  ASSUME length \in 0 .. MaxMessage, NEW n \in Nat, length + n <= MaxMessage
  PROVE  NextOf(Chunk(n), Stream, length) /\ Len(Chunk(n)) = n
<1>1. \A i \in 1 .. n : Letters[length + i] \in Nat /\ Stream[length + i] = Letters[length + i]
  <2>1. MaxMessage \in Nat
    BY LettersAre
  <2>2. \A i \in 1 .. n : length + i \in 1 .. MaxMessage
    BY <2>1
  <2> QED BY <2>2, LettersAre
<1>2. Chunk(n) \in Seq(Nat) /\ Len(Chunk(n)) = n
  BY <1>1 DEF Chunk
<1>3. \A i \in 1 .. n : Chunk(n)[i] = Stream[length + i]
  BY <1>1 DEF Chunk
<1> QED BY <1>2, <1>3 DEF NextOf

\* The padding that carries the length.
PadsLength(E, n, old, used, zeros, more, tail) ==
  /\ E \in Streams /\ Ends(n, old, used, zeros, more)
  /\ PaddedBy(E, Stream, n, Mark, zeros, tail)

LEMMA LengthPads ==
  ASSUME length \in 0 .. MaxMessage, NEW tail \in Seq(Nat), Len(tail) = 2 * WordBytes,
         NEW s, s = Message \o <<Mark>> \o Zeros(Fill(length, 1 + 2 * WordBytes)) \o tail
  PROVE  \E more :
           /\ PadsLength(StreamOf(s), length, length \div BlockLength, length % BlockLength,
                         Fill(length, 1 + 2 * WordBytes), more, tail)
           /\ (length \div BlockLength) + more \in Nat
           /\ \A h : BlocksOf(h, s)
                       = ChainOf(Big(h), StreamOf(s), (length \div BlockLength) + more)
<1> DEFINE zeros == Fill(length, 1 + 2 * WordBytes)
           old == length \div BlockLength
           used == length % BlockLength
<1>1. /\ Message \in Seq(Nat) /\ Len(Message) = length /\ length \in Nat
      /\ NextOf(Message, Stream, 0)
  BY MessageIs
<1>2. PICK more : Ends(length, old, used, zeros, more)
  BY <1>1, EndsSo
<1> HIDE DEF zeros, old, used
<1>3. zeros \in Nat /\ old + more \in Nat
      /\ length + 1 + zeros + 2 * WordBytes = (old + more) * BlockLength
  <2>1. old \in Nat /\ more \in {1, 2} /\ zeros \in Nat
    BY <1>2 DEF Ends
  <2>2. old + more \in Nat
    BY <2>1
  <2> QED BY <1>2, <2>1, <2>2 DEF Ends
<1>4. IsPadded(s, Message, Mark, zeros, tail)
  BY DEF zeros, IsPadded
<1>5. Mark \in Nat
  BY Sizes
<1>6. /\ s \in Seq(Nat) /\ Len(s) = length + 1 + zeros + Len(tail)
      /\ PaddedBy(StreamOf(s), Stream, length, Mark, zeros, tail)
  BY ONLY tail \in Seq(Nat), <1>1, <1>3, <1>4, <1>5, PaddedIs
<1>7. StreamOf(s) \in Streams
  BY <1>6, StreamIs
<1> DEFINE m == old + more
<1>8. Len(s) = m * BlockLength /\ m \in Nat
  BY <1>3, <1>6
<1> HIDE DEF m
<1>9. ASSUME NEW h PROVE BlocksOf(h, s) = ChainOf(Big(h), StreamOf(s), m)
  BY ONLY <1>6, <1>8, BlocksAre
<1>10. PadsLength(StreamOf(s), length, old, used, zeros, more, tail)
  BY <1>2, <1>6, <1>7 DEF PadsLength
<1> QED BY <1>3, <1>9, <1>10 DEF m, old, used, zeros

LEMMA ExpectedSha2 ==
  ASSUME length \in 0 .. MaxMessage, algorithm \in {"sha256", "sha512"}
  PROVE  \E E, more :
           /\ PadsLength(E, length, length \div BlockLength, length % BlockLength,
                         Fill(length, 1 + 2 * WordBytes), more, LengthBE(length))
           /\ Expected = BigChain(E, (length \div BlockLength) + more)
<1> DEFINE s == Message \o <<Mark>> \o Zeros(Fill(length, 1 + 2 * WordBytes)) \o LengthBE(length)
           old == length \div BlockLength
<1>1. LengthBE(length) \in Seq(Nat) /\ Len(LengthBE(length)) = 2 * WordBytes
  <2>1. length \in Nat
    BY LettersAre
  <2> QED BY <2>1, LengthWords
<1>2. Padded(algorithm) = s
  <2>1. algorithm # "ripemd160" /\ algorithm \notin Sponge
    BY DEF Sponge
  <2> QED BY <2>1 DEF Padded
<1>3. s = Message \o <<Mark>> \o Zeros(Fill(length, 1 + 2 * WordBytes)) \o LengthBE(length)
  OBVIOUS
<1> HIDE DEF s
<1>4. PICK more :
        /\ PadsLength(StreamOf(s), length, old, length % BlockLength,
                      Fill(length, 1 + 2 * WordBytes), more, LengthBE(length))
        /\ \A h : BlocksOf(h, s) = ChainOf(Big(h), StreamOf(s), old + more)
  BY ONLY length \in 0 .. MaxMessage, <1>1, <1>3, LengthPads
<1>5. BlocksOf(algorithm, s) = ChainOf(Big(algorithm), StreamOf(s), old + more)
  BY <1>4
<1>6. Expected = BigChain(StreamOf(s), old + more)
  <2>1. ChainOf(Big(algorithm), StreamOf(s), old + more) = ChainOf(TRUE, StreamOf(s), old + more)
    <3> HIDE DEF old
    <3> QED BY DEF Big, ChainOf, Words
  <2> QED BY <1>2, <1>5, <2>1 DEF Expected, BigChain
<1> QED BY <1>4, <1>6

LEMMA ExpectedRipemd160 ==
  ASSUME length \in 0 .. MaxMessage, algorithm = "ripemd160"
  PROVE  \E E, more :
           /\ PadsLength(E, length, length \div BlockLength, length % BlockLength,
                         Fill(length, 1 + 2 * WordBytes), more, LengthLE(length))
           /\ Expected = LittleChain(E, (length \div BlockLength) + more)
<1> DEFINE s == Message \o <<Mark>> \o Zeros(Fill(length, 1 + 2 * WordBytes)) \o LengthLE(length)
           old == length \div BlockLength
<1>1. LengthLE(length) \in Seq(Nat) /\ Len(LengthLE(length)) = 2 * WordBytes
  <2>1. length \in Nat
    BY LettersAre
  <2> QED BY <2>1, LengthBytes
<1>2. Padded(algorithm) = s
  <2>1. algorithm \notin {"sha256", "sha512"} /\ algorithm \notin Sponge
    BY DEF Sponge
  <2> QED BY <2>1 DEF Padded
<1>3. s = Message \o <<Mark>> \o Zeros(Fill(length, 1 + 2 * WordBytes)) \o LengthLE(length)
  OBVIOUS
<1> HIDE DEF s
<1>4. PICK more :
        /\ PadsLength(StreamOf(s), length, old, length % BlockLength,
                      Fill(length, 1 + 2 * WordBytes), more, LengthLE(length))
        /\ \A h : BlocksOf(h, s) = ChainOf(Big(h), StreamOf(s), old + more)
  BY ONLY length \in 0 .. MaxMessage, <1>1, <1>3, LengthPads
<1>5. BlocksOf(algorithm, s) = ChainOf(Big(algorithm), StreamOf(s), old + more)
  BY <1>4
<1>6. Expected = LittleChain(StreamOf(s), old + more)
  <2>1. ChainOf(Big(algorithm), StreamOf(s), old + more) = ChainOf(FALSE, StreamOf(s), old + more)
    <3> HIDE DEF old
    <3> QED BY DEF Big, ChainOf, Words
  <2> QED BY <1>2, <1>5, <2>1 DEF Expected, LittleChain
<1> QED BY <1>4, <1>6

LEMMA ExpectedSponge ==
  ASSUME length \in 0 .. MaxMessage, algorithm \in Sponge,
         NEW mark, mark = IF algorithm = "sha3" THEN 6 ELSE 1
  PROVE  \E E \in Streams :
           /\ SpongePadded(E, Stream, length, length % BlockLength, mark)
           /\ Expected = LittleChain(E, (length \div BlockLength) + 1)
<1> DEFINE s == Padded(algorithm)
           old == length \div BlockLength
           used == length % BlockLength
           ob == old * BlockLength
           m == old + 1
<1>1. /\ BlockLength \in Nat /\ BlockLength > 0 /\ Mark \in Nat /\ mark \in Nat
      /\ mark + Mark \in Nat /\ BlockLength > 1
  BY BlockSize, Sizes, SizesAssumption, ByteAssumption
<1>2. Message \in Seq(Nat) /\ Len(Message) = length /\ length \in Nat /\ NextOf(Message, Stream, 0)
  BY MessageIs
<1>3. old \in Nat /\ used \in 0 .. BlockLength - 1 /\ length = ob + used
  BY <1>1, <1>2, QuotientOf
<1>4. ob \in Nat /\ m \in Nat /\ m * BlockLength = ob + BlockLength
  BY <1>1, <1>3
<1>5. ((length + 1) % BlockLength = 0) <=> (used = BlockLength - 1)
  <2>1. (length + 1) % BlockLength = (used + 1) % BlockLength
    <3>1. PICK one \in Nat : one = 1
      OBVIOUS
    <3>2. BlockLength \in Nat /\ BlockLength > 0 /\ length \in Nat
      BY <1>1, <1>2
    <3>3. (length + one) % BlockLength = ((length % BlockLength) + one) % BlockLength
      BY ONLY one \in Nat, <3>2, QuotientSum
    <3> QED BY <3>1, <3>3
  <2> HIDE DEF used, old, ob
  <2>2. CASE used = BlockLength - 1
    <3>1. 1 \in Int /\ 0 \in 0 .. BlockLength - 1 /\ 1 * BlockLength + 0 = used + 1
      BY <1>1, <2>2
    <3>2. (1 * BlockLength + 0) % BlockLength = 0
      BY ONLY <1>1, <3>1, QuotientIs
    <3> QED BY <2>1, <2>2, <3>1, <3>2
  <2>3. CASE used # BlockLength - 1
    <3> DEFINE v == used + 1
    <3>1. v \in 0 .. BlockLength - 1 /\ 0 \in Int /\ 0 * BlockLength + v = v /\ v # 0
      BY <1>1, <1>3, <2>3
    <3> HIDE DEF v
    <3>2. (0 * BlockLength + v) % BlockLength = v
      BY ONLY <1>1, <3>1, QuotientIs
    <3> QED BY <2>1, <2>3, <3>1, <3>2 DEF v
  <2> QED BY <2>2, <2>3
<1>6. algorithm \notin {"sha256", "sha512"} /\ algorithm # "ripemd160"
  BY DEF Sponge
<1> HIDE DEF old, used, ob
<1>7. /\ s \in Seq(Nat) /\ Len(s) = m * BlockLength
      /\ SpongePadded(StreamOf(s), Stream, length, used, mark)
  <2>1. CASE used = BlockLength - 1
    <3>1. s = Message \o <<mark + Mark>>
      BY <1>5, <1>6, <2>1 DEF Padded
    <3> HIDE DEF s, m
    <3>2. Message \o <<mark + Mark>> \in Seq(Nat)
      BY <1>1, <1>2, ConcatProperties
    <3>3. IsPadded(s, Message, mark + Mark, 0, <<>>)
      <4>1. Zeros(0) = <<>>
        BY DEF Zeros
      <4>2. Message \o <<mark + Mark>> \o <<>> = Message \o <<mark + Mark>>
        BY <3>2, ConcatEmptySeq
      <4> QED BY <3>1, <4>1, <4>2 DEF IsPadded
    <3> DEFINE both == mark + Mark
               none == 0
               tail == <<>>
    <3>4. tail \in Seq(Nat) /\ Len(tail) = 0 /\ none = 0 /\ none \in Nat
      OBVIOUS
    <3>5. /\ both \in Nat /\ IsPadded(s, Message, both, none, tail)
          /\ none \in Nat /\ tail \in Seq(Nat)
      BY <1>1, <3>3
    <3> HIDE DEF both, none, tail
    <3>6. /\ s \in Seq(Nat) /\ Len(s) = length + 1 + none + Len(tail)
          /\ PaddedBy(StreamOf(s), Stream, length, both, none, tail)
      BY ONLY <1>2, <3>5, PaddedIs
    <3>7. SpongePadded(StreamOf(s), Stream, length, used, mark)
      <4> DEFINE E == StreamOf(s)
      <4>1. (\A i \in 1 .. length : E[i] = Stream[i]) /\ E[length + 1] = mark + Mark
        BY <3>6 DEF PaddedBy, both
      <4> QED BY <2>1, <4>1 DEF SpongePadded
    <3>8. Len(s) = m * BlockLength
      BY <1>1, <1>3, <1>4, <2>1, <3>4, <3>6
    <3> QED BY <3>6, <3>7, <3>8
  <2>2. CASE used # BlockLength - 1
    <3> DEFINE zeros == Fill(length, 2)
    <3>1. s = Message \o <<mark>> \o Zeros(zeros) \o <<Mark>>
      BY <1>5, <1>6, <2>2 DEF Padded
    <3> HIDE DEF s, m
    <3>2. zeros = BlockLength - (used + 2) /\ zeros \in Nat
      <4> DEFINE e == used + 2
      <4>1. e = (length % BlockLength) + 2 /\ e > 0 /\ e <= BlockLength /\ 2 \in Nat
        BY <1>1, <1>3, <2>2 DEF used
      <4> HIDE DEF e
      <4>2. zeros = BlockLength - e
        BY ONLY <1>2, <4>1, FillWithin
      <4> QED BY <1>1, <1>3, <4>1, <4>2 DEF e
    <3> HIDE DEF zeros
    <3> DEFINE tail == <<Mark>>
    <3>3. tail \in Seq(Nat) /\ Len(tail) = 1 /\ tail[1] = Mark
      BY <1>1
    <3>4. IsPadded(s, Message, mark, zeros, tail)
      BY <3>1 DEF IsPadded
    <3>8. zeros \in Nat /\ mark \in Nat /\ tail \in Seq(Nat)
      BY <1>1, <3>2
    <3> HIDE DEF tail
    <3>5. /\ s \in Seq(Nat) /\ Len(s) = length + 1 + zeros + Len(tail)
          /\ PaddedBy(StreamOf(s), Stream, length, mark, zeros, tail)
      BY ONLY <1>2, <3>4, <3>8, PaddedIs
    <3>6. SpongePadded(StreamOf(s), Stream, length, used, mark)
      <4> DEFINE E == StreamOf(s)
      <4> HIDE DEF E
      <4>1. /\ \A i \in 1 .. length : E[i] = Stream[i]
            /\ E[length + 1] = mark
            /\ \A i \in length + 2 .. length + 1 + zeros : E[i] = 0
            /\ E[length + 1 + zeros + 1] = Mark
        <5>1. 1 \in 1 .. Len(tail)
          BY <3>3
        <5> QED BY <3>3, <3>5, <5>1 DEF PaddedBy, E
      <4>2. /\ length + 1 + zeros = length + (BlockLength - used) - 1
            /\ length + 1 + zeros + 1 = length + (BlockLength - used)
        BY <1>1, <1>2, <1>3, <3>2
      <4> QED BY <2>2, <4>1, <4>2 DEF SpongePadded, E
    <3>7. Len(s) = m * BlockLength
      BY <1>1, <1>3, <1>4, <3>2, <3>3, <3>5
    <3> QED BY <3>5, <3>6, <3>7
  <2> QED BY <2>1, <2>2
<1>8. StreamOf(s) \in Streams
  BY <1>7, StreamIs
<1>9. Expected = LittleChain(StreamOf(s), m)
  <2> HIDE DEF s, m
  <2>1. BlocksOf(algorithm, s) = ChainOf(Big(algorithm), StreamOf(s), m)
    BY ONLY <1>4, <1>7, BlocksAre
  <2>2. ChainOf(Big(algorithm), StreamOf(s), m) = ChainOf(FALSE, StreamOf(s), m)
    BY <1>6 DEF Big, ChainOf, Words
  <2> QED BY <2>1, <2>2 DEF Expected, LittleChain, s
<1> QED BY <1>7, <1>8, <1>9 DEF old, used

-----------------------------------------------------------------------------
(* A context that is absorbing, its steps and its end.                      *)

CountOf(h, n) ==
  CASE h = "sha256" -> <<(ByteBits * n) % (Radix * Radix)>>
    [] h = "sha512" -> TwoWords(ByteBits * n)
    [] h = "ripemd160" -> TwoWords(n)
    [] h \in Sponge -> <<n % BlockLength>>

Absorbing(h, c, D, n) ==
  /\ IsContext(c) /\ c.count = CountOf(h, n)
  /\ Big(h) => BigHolds(c, D, n)
  /\ ~Big(h) => LittleHolds(c, D, n)

LEMMA CountsAre ==
  ASSUME NEW n
  PROVE  /\ CountOf("sha256", n) = <<(ByteBits * n) % (Radix * Radix)>>
         /\ CountOf("sha512", n) = TwoWords(ByteBits * n)
         /\ CountOf("ripemd160", n) = TwoWords(n)
         /\ \A h \in Sponge : CountOf(h, n) = <<n % BlockLength>>
  BY DEF CountOf, Sponge

LEMMA Sha256UsedIs ==
  ASSUME BlocksFit, NEW n \in Nat, NEW c, c.count = <<(ByteBits * n) % (Radix * Radix)>>
  PROVE  Sha256Used(c) = n % BlockLength
<1>1. PICK j \in Nat \ {0} : Radix = (j * BlockLength) * ByteBits
  BY WordOfBlocks
<1>2. /\ Radix \in Nat /\ Radix > 0 /\ BlockLength \in Nat /\ BlockLength > 0
      /\ ByteBits \in Nat /\ ByteBits > 0
  BY Sizes, BlockSize, SizesAssumption, ByteAssumption
<1> DEFINE k == Radix * j
           m == Radix * Radix
<1>3. k \in Nat \ {0}
  BY <1>2
<1>4. m = (k * BlockLength) * ByteBits
  <2>1. \A r \in Nat : r * ((j * BlockLength) * ByteBits) = ((r * j) * BlockLength) * ByteBits
    BY <1>2
  <2>2. Radix * ((j * BlockLength) * ByteBits) = ((Radix * j) * BlockLength) * ByteBits
    BY <1>2, <2>1
  <2> QED BY <1>1, <2>2
<1> HIDE DEF k, m
<1>5. (((ByteBits * n) % m) \div ByteBits) % BlockLength = n % BlockLength
  BY ONLY n \in Nat, <1>3, <1>4, UsedOf
<1>6. c.count[1] = (ByteBits * n) % m
  BY DEF m
<1> QED BY <1>5, <1>6 DEF Sha256Used

LEMMA Sha512UsedIs ==
  ASSUME BlocksFit, NEW n \in Nat, NEW c, c.count = TwoWords(ByteBits * n)
  PROVE  Sha512Used(c) = n % BlockLength
<1>1. PICK j \in Nat \ {0} : Radix = (j * BlockLength) * ByteBits
  BY WordOfBlocks
<1>2. (((ByteBits * n) % Radix) \div ByteBits) % BlockLength = n % BlockLength
  BY ONLY n \in Nat, <1>1, UsedOf
<1>3. c.count[1] = (ByteBits * n) % Radix
  BY DEF TwoWords
<1> QED BY <1>2, <1>3 DEF Sha512Used

LEMMA Sha256Step ==
  ASSUME BlocksFit, NEW D \in Streams, NEW n \in Nat, NEW c, Absorbing("sha256", c, D, n),
         NEW data, NextOf(data, D, n), NEW len \in Nat, Len(data) = len
  PROVE  Absorbing("sha256", Sha256Update(c, data), D, n + len)
<1> DEFINE used == Sha256Used(c)
           count == <<(c.count[1] + ByteBits * Len(data)) % (Radix * Radix)>>
           r == Sha2Absorb(c, used, data, count)
           sum == n + len
<1>1. Sha256Update(c, data) = r
  BY DEF Sha256Update
<1>2. BigHolds(c, D, n) /\ c.count = <<(ByteBits * n) % (Radix * Radix)>>
  BY CountsAre DEF Absorbing, Big
<1>3. used = n % BlockLength
  BY <1>2, Sha256UsedIs
<1>4. count = <<(ByteBits * sum) % (Radix * Radix)>>
  <2> DEFINE a == ByteBits * n
             b == ByteBits * len
             m == Radix * Radix
  <2>1. /\ a \in Nat /\ b \in Nat /\ m \in Nat /\ m > 0 /\ ByteBits * sum = a + b
    BY Sizes, SizesAssumption, ByteAssumption
  <2>2. c.count[1] = a % m
    BY <1>2
  <2>3. Len(data) = len
    OBVIOUS
  <2> HIDE DEF sum
  <2>4. count = <<((a % m) + b) % m>>
    BY <2>2, <2>3
  <2> HIDE DEF a, b, m, count
  <2>5. (a + b) % m = ((a % m) + b) % m
    <3>1. a \in Nat /\ b \in Nat /\ m \in Nat /\ m > 0
      BY ONLY <2>1
    <3> QED BY ONLY <3>1, QuotientSum, ZenonT(60)
  <2> QED BY <2>1, <2>4, <2>5 DEF m
<1>5. sum \in Nat /\ sum = n + Len(data)
  OBVIOUS
<1>6. r = Sha2Absorb(c, used, data, count)
  OBVIOUS
<1> HIDE DEF used, count, r, sum
<1>7. BigHolds(r, D, sum) /\ r.count = count /\ IsContext(r)
  BY ONLY D \in Streams, n \in Nat, NextOf(data, D, n), <1>2, <1>3, <1>5, <1>6, Sha2Absorbs
<1>8. Absorbing("sha256", r, D, sum)
  BY <1>4, <1>7, CountsAre DEF Absorbing, Big
<1> QED BY <1>1, <1>8 DEF sum

LEMMA Sha512Step ==
  ASSUME BlocksFit, NEW D \in Streams, NEW n \in Nat, NEW c, Absorbing("sha512", c, D, n),
         NEW data, NextOf(data, D, n), NEW len \in Nat, Len(data) = len
  PROVE  Absorbing("sha512", Sha512Update(c, data), D, n + len)
<1> DEFINE used == Sha512Used(c)
           count == Sha512Count(c.count, used, data)
           r == Sha2Absorb(c, used, data, count)
           sum == n + len
<1>1. Sha512Update(c, data) = r
  BY DEF Sha512Update
<1>2. BigHolds(c, D, n) /\ c.count = TwoWords(ByteBits * n)
  BY CountsAre DEF Absorbing, Big
<1>3. used = n % BlockLength
  BY <1>2, Sha512UsedIs
<1>4. count = TwoWords(ByteBits * sum)
  <2>1. Sha512Count(TwoWords(ByteBits * n), n % BlockLength, data) = TwoWords(ByteBits * (n + len))
    BY Sha512Counted
  <2> QED BY <1>2, <1>3, <2>1
<1>5. sum \in Nat /\ sum = n + Len(data)
  OBVIOUS
<1>6. r = Sha2Absorb(c, used, data, count)
  OBVIOUS
<1> HIDE DEF used, count, r, sum
<1>7. BigHolds(r, D, sum) /\ r.count = count /\ IsContext(r)
  BY ONLY D \in Streams, n \in Nat, NextOf(data, D, n), <1>2, <1>3, <1>5, <1>6, Sha2Absorbs
<1>8. Absorbing("sha512", r, D, sum)
  BY <1>4, <1>7, CountsAre DEF Absorbing, Big
<1> QED BY <1>1, <1>8 DEF sum

LEMMA Ripemd160Step ==
  ASSUME BlocksFit, NEW D \in Streams, NEW n \in Nat, NEW c, Absorbing("ripemd160", c, D, n),
         NEW data, NextOf(data, D, n), NEW len \in Nat, Len(data) = len, len <= Radix
  PROVE  Absorbing("ripemd160", Ripemd160Update(c, data), D, n + len)
<1> DEFINE r == Ripemd160Update(c, data)
           sum == n + len
<1>1. LittleHolds(c, D, n) /\ c.count = TwoWords(n) /\ c.count[1] = n % Radix
  <2>1. LittleHolds(c, D, n) /\ c.count = TwoWords(n)
    BY CountsAre DEF Absorbing, Big
  <2> QED BY <2>1 DEF TwoWords
<1>2. sum \in Nat /\ sum = n + len /\ r = Ripemd160Update(c, data)
  OBVIOUS
<1>3. AddIncrement(TwoWords(n), len) = TwoWords(sum)
  <2>1. len \in 0 .. Radix
    BY Sizes
  <2> QED BY <2>1, AddIncrementIs
<1> HIDE DEF r, sum
<1>4. LittleHolds(r, D, sum) /\ IsContext(r) /\ r.count = AddIncrement(c.count, len)
  BY <1>1, <1>2, Ripemd160Absorbs
<1>5. r.count = TwoWords(sum)
  BY <1>1, <1>3, <1>4
<1>6. Absorbing("ripemd160", r, D, sum)
  BY <1>4, <1>5, CountsAre DEF Absorbing, Big
<1> QED BY <1>6 DEF r, sum

LEMMA SpongeStep ==
  ASSUME NEW D \in Streams, NEW n \in Nat, NEW h \in Sponge, NEW c, Absorbing(h, c, D, n),
         NEW data, NextOf(data, D, n), NEW len \in Nat, Len(data) = len, NEW aligned \in BOOLEAN
  PROVE  Absorbing(h, Sha3Update(c, data, aligned), D, n + len)
<1> DEFINE r == Sha3Update(c, data, aligned)
           sum == n + len
<1>1. ~Big(h)
  BY DEF Sponge, Big
<1>2. LittleHolds(c, D, n) /\ c.count = <<n % BlockLength>>
  BY <1>1, CountsAre DEF Absorbing
<1>3. sum \in Nat /\ sum = n + len /\ r = Sha3Update(c, data, aligned)
  OBVIOUS
<1> HIDE DEF r, sum
<1>4. LittleHolds(r, D, sum) /\ IsContext(r) /\ r.count = <<sum % BlockLength>>
  BY <1>2, <1>3, SpongeAbsorbs
<1>5. Absorbing(h, r, D, sum)
  BY <1>1, <1>4, CountsAre DEF Absorbing
<1> QED BY <1>5 DEF r, sum

LEMMA Sha256Finish ==
  ASSUME BlocksFit, NEW n \in Nat, NEW c, Absorbing("sha256", c, Stream, n),
         NEW E, NEW zeros, NEW more,
         PadsLength(E, n, n \div BlockLength, n % BlockLength, zeros, more, LengthBE(n))
  PROVE  Sha256Final(c) = BigChain(E, (n \div BlockLength) + more)
<1> DEFINE old == n \div BlockLength
           used == n % BlockLength
           high == c.count[1] \div Radix
           low == c.count[1] % Radix
<1>1. BigHolds(c, Stream, n) /\ c.count = <<(ByteBits * n) % (Radix * Radix)>>
  BY CountsAre DEF Absorbing, Big
<1>2. Sha256Used(c) = used
  BY <1>1, Sha256UsedIs
<1>3. high = Bits(n) \div Radix /\ low = Bits(n) % Radix
  <2>1. c.count[1] = Bits(n)
    BY <1>1, BitsIs
  <2> QED BY <2>1
<1>4. E \in Streams /\ Ends(n, old, used, zeros, more) /\ PaddedBy(E, Stream, n, Mark, zeros, LengthBE(n))
  BY DEF PadsLength
<1>5. Stream \in Streams
  BY LettersAre
<1>6. Sha256Final(c) = Sha2Last(c, used, high, low)
  BY <1>2 DEF Sha256Final
<1> HIDE DEF old, used, high, low
<1>7. Sha2Last(c, used, high, low) = BigChain(E, old + more)
  BY ONLY n \in Nat, <1>1, <1>3, <1>4, <1>5, Sha2Ends
<1> QED BY <1>6, <1>7 DEF old

LEMMA Sha512Finish ==
  ASSUME BlocksFit, NEW n \in Nat, NEW c, Absorbing("sha512", c, Stream, n),
         NEW E, NEW zeros, NEW more,
         PadsLength(E, n, n \div BlockLength, n % BlockLength, zeros, more, LengthBE(n))
  PROVE  Sha512Final(c) = BigChain(E, (n \div BlockLength) + more)
<1> DEFINE old == n \div BlockLength
           used == n % BlockLength
           high == c.count[2]
           low == c.count[1]
<1>1. BigHolds(c, Stream, n) /\ c.count = TwoWords(ByteBits * n)
  BY CountsAre DEF Absorbing, Big
<1>2. Sha512Used(c) = used
  BY <1>1, Sha512UsedIs
<1>3. high = Bits(n) \div Radix /\ low = Bits(n) % Radix
  <2>1. c.count = <<Bits(n) % Radix, Bits(n) \div Radix>>
    BY <1>1, BitsIs
  <2> QED BY <2>1
<1>4. E \in Streams /\ Ends(n, old, used, zeros, more) /\ PaddedBy(E, Stream, n, Mark, zeros, LengthBE(n))
  BY DEF PadsLength
<1>5. Stream \in Streams
  BY LettersAre
<1>6. Sha512Final(c) = Sha2Last(c, used, high, low)
  BY <1>2 DEF Sha512Final
<1> HIDE DEF old, used, high, low
<1>7. Sha2Last(c, used, high, low) = BigChain(E, old + more)
  BY ONLY n \in Nat, <1>1, <1>3, <1>4, <1>5, Sha2Ends
<1> QED BY <1>6, <1>7 DEF old

LEMMA Ripemd160Finish ==
  ASSUME BlocksFit, NEW n \in Nat, NEW c, Absorbing("ripemd160", c, Stream, n),
         NEW E, NEW zeros, NEW more,
         PadsLength(E, n, n \div BlockLength, n % BlockLength, zeros, more, LengthLE(n))
  PROVE  Ripemd160Final(c) = LittleChain(E, (n \div BlockLength) + more)
<1> DEFINE old == n \div BlockLength
           used == n % BlockLength
<1>1. LittleHolds(c, Stream, n) /\ c.count = TwoWords(n)
  BY CountsAre DEF Absorbing, Big
<1>2. E \in Streams /\ Ends(n, old, used, zeros, more) /\ PaddedBy(E, Stream, n, Mark, zeros, LengthLE(n))
  BY DEF PadsLength
<1>3. Stream \in Streams
  BY LettersAre
<1> HIDE DEF old, used
<1>4. Ripemd160Final(c) = LittleChain(E, old + more)
  BY ONLY BlocksFit, n \in Nat, <1>1, <1>2, <1>3, Ripemd160Ends
<1> QED BY <1>4 DEF old

LEMMA SpongeFinish ==
  ASSUME NEW n \in Nat, NEW h \in Sponge, NEW c, Absorbing(h, c, Stream, n), NEW mark \in Nat,
         NEW E \in Streams, SpongePadded(E, Stream, n, n % BlockLength, mark)
  PROVE  LET r == SpongeFinal(c, mark)
         IN /\ r.chain = LittleChain(E, (n \div BlockLength) + 1) /\ r.count = <<Finalized>>
            /\ IsContext(r)
<1> DEFINE old == n \div BlockLength
           used == n % BlockLength
           r == SpongeFinal(c, mark)
<1>1. ~Big(h)
  BY DEF Sponge, Big
<1>2. LittleHolds(c, Stream, n) /\ c.count = <<n % BlockLength>> /\ IsContext(c)
  BY <1>1, CountsAre DEF Absorbing
<1>3. Splits(n, old, used) /\ SpongePadded(E, Stream, n, used, mark) /\ r = SpongeFinal(c, mark)
  BY SplitsOf
<1>4. Stream \in Streams
  BY LettersAre
<1> HIDE DEF old, used, r
<1>5. r.chain = LittleChain(E, old + 1) /\ r.count = <<Finalized>> /\ IsContext(r)
  BY ONLY n \in Nat, E \in Streams, mark \in Nat, <1>2, <1>3, <1>4, SpongeEnds
<1> QED BY <1>5 DEF old, r

-----------------------------------------------------------------------------
(* The invariant of a hashing: until Final the context holds what has come, *)
(* and then it has returned what is expected.                               *)

Absorbs == digest = <<>> => Absorbing(algorithm, ctx, Stream, length)
Returned ==
  digest # <<>> =>
    /\ digest = <<Expected>> \/ digest = <<Expected, Expected>>
    /\ algorithm \in Sponge => ctx.count = <<Finalized>> /\ ctx.chain = Expected
HashInv ==
  /\ algorithm \in Hashes /\ length \in 0 .. MaxMessage /\ IsContext(ctx)
  /\ Absorbs /\ Returned

LEMMA FitsIfCounted ==
  ASSUME algorithm \in Hashes, algorithm \notin Sponge
  PROVE  BlocksFit
  BY CountsAssumption DEF BlocksFit

LEMMA HashBegins == StreamInit => HashInv
<1> SUFFICES ASSUME StreamInit PROVE HashInv
  OBVIOUS
<1>1. algorithm \in Hashes /\ ctx = InitialContext(algorithm) /\ length = 0 /\ digest = <<>>
  BY DEF StreamInit
<1>2. algorithm \in {"sha256", "sha512", "ripemd160"} \cup Sponge
  BY <1>1, StreamAssumption DEF Algorithms, Sponge
<1>3. /\ BlockLength \in Nat /\ BlockLength > 0 /\ Radix \in Nat /\ Radix > 0 /\ ByteBits \in Nat
      /\ Radix * Radix \in Nat /\ Radix * Radix > 0
  BY BlockSize, Sizes, SizesAssumption, ByteAssumption
<1>4. \A b \in Nat : b > 0 => 0 % b = 0 /\ 0 \div b = 0
  <2> TAKE b \in Nat
  <2> HAVE b > 0
  <2>1. 0 \in Int /\ 0 \in 0 .. b - 1 /\ 0 * b + 0 = 0
    OBVIOUS
  <2>2. (0 * b + 0) \div b = 0 /\ (0 * b + 0) % b = 0
    BY ONLY b \in Nat, <2>1, QuotientIs
  <2> QED BY <2>1, <2>2
<1>5. CountOf(algorithm, 0) = ctx.count
  <2>1. ByteBits * 0 = 0
    BY <1>3
  <2>2. TwoWords(0) = <<0, 0>>
    BY <1>3, <1>4 DEF TwoWords
  <2>3. CASE algorithm = "sha256"
    BY <1>1, <1>3, <1>4, <2>1, <2>3, CountsAre DEF InitialContext, Sha256Init, Sponge
  <2>4. CASE algorithm = "sha512"
    BY <1>1, <2>1, <2>2, <2>4, CountsAre DEF InitialContext, Sha512Init, Sponge
  <2>5. CASE algorithm = "ripemd160"
    BY <1>1, <2>2, <2>5, CountsAre DEF InitialContext, Ripemd160Init, Sponge
  <2>6. CASE algorithm \in Sponge
    BY <1>1, <1>3, <1>4, <2>6, CountsAre DEF InitialContext, Sha3Init, Sponge
  <2> QED BY <1>2, <2>3, <2>4, <2>5, <2>6
<1>6. ctx.chain = <<>> /\ ctx.buffer = EmptyBuffer /\ IsContext(ctx)
  BY <1>1, <1>2
     DEF InitialContext, Sha256Init, Sha512Init, Ripemd160Init, Sha3Init, Sponge, IsContext
<1>7. ASSUME NEW big \in BOOLEAN PROVE Hashed(<<>>, EmptyBuffer, big, Stream, 0)
  <2>1. ChainOf(big, Stream, 0) = <<>>
    BY DEF ChainOf
  <2>2. EmptyBuffer \in [1 .. BlockLength -> Nat]
    BY DEF EmptyBuffer
  <2>3. 0 % BlockLength = 0 /\ 0 \div BlockLength = 0
    BY <1>3, <1>4
  <2>4. BufferOf(EmptyBuffer, Stream, 0)
    BY <2>2, <2>3 DEF BufferOf
  <2> QED BY <2>1, <2>3, <2>4 DEF Hashed
<1>8. BigHolds(ctx, Stream, 0) /\ LittleHolds(ctx, Stream, 0)
  <2>1. Hashed(<<>>, EmptyBuffer, TRUE, Stream, 0) /\ Hashed(<<>>, EmptyBuffer, FALSE, Stream, 0)
    BY <1>7
  <2> QED BY <1>6, <2>1 DEF BigHolds, LittleHolds
<1>9. Absorbing(algorithm, ctx, Stream, length)
  BY <1>1, <1>5, <1>6, <1>8 DEF Absorbing
<1>10. length \in 0 .. MaxMessage
  BY <1>1, LettersAre
<1> QED BY <1>1, <1>6, <1>9, <1>10 DEF HashInv, Absorbs, Returned

LEMMA ExpectedStays ==
  ASSUME UNCHANGED <<algorithm, length>>
  PROVE  Expected' = Expected
  BY DEF Expected, BlocksOf, Padded, Message

\* A chunk more, for each algorithm.
LEMMA Updates ==
  ASSUME HashInv, NEW h, NEW n \in Nat, NEW next, Update(h, n, next),
         Absorbing(h, next, Stream, length + n)
  PROVE  HashInv'
<1>1. /\ algorithm' = algorithm /\ digest' = <<>> /\ ctx' = next /\ length' = length + n
      /\ length + n <= MaxMessage /\ algorithm = h
  BY DEF Update
<1>2. length' \in 0 .. MaxMessage
  <2>1. length \in 0 .. MaxMessage /\ MaxMessage \in Nat
    BY LettersAre DEF HashInv
  <2> QED BY <1>1, <2>1
<1>3. IsContext(ctx')
  BY <1>1 DEF Absorbing
<1>4. Absorbing(algorithm', ctx', Stream, length')
  BY <1>1
<1> QED BY <1>1, <1>2, <1>3, <1>4 DEF HashInv, Absorbs, Returned

\* What an Update finds.
LEMMA Finds ==
  ASSUME HashInv, NEW h, NEW n \in Chunks, NEW next, Update(h, n, next)
  PROVE  /\ n \in Nat /\ length \in Nat /\ Stream \in Streams /\ Absorbing(h, ctx, Stream, length)
         /\ NextOf(Chunk(n), Stream, length) /\ Len(Chunk(n)) = n
         /\ h \in Hashes /\ algorithm = h
<1>1. algorithm = h /\ digest = <<>> /\ length + n <= MaxMessage
  BY DEF Update
<1>2. n \in Nat
  BY StreamAssumption
<1>3. length \in 0 .. MaxMessage /\ MaxMessage \in Nat /\ Stream \in Streams
  BY LettersAre DEF HashInv
<1>4. length \in Nat
  BY <1>3
<1>5. NextOf(Chunk(n), Stream, length) /\ Len(Chunk(n)) = n
  BY <1>1, <1>2, <1>3, ChunkIs
<1> QED BY <1>1, <1>2, <1>3, <1>4, <1>5 DEF HashInv, Absorbs

LEMMA UpdatesSha256 == HashInv /\ UpdateSha256 => HashInv'
<1> SUFFICES ASSUME HashInv, NEW n \in Chunks, Update("sha256", n, Sha256Update(ctx, Chunk(n)))
             PROVE  HashInv'
  BY DEF UpdateSha256
<1> DEFINE data == Chunk(n)
           next == Sha256Update(ctx, data)
<1>1. /\ n \in Nat /\ length \in Nat /\ Stream \in Streams
      /\ Absorbing("sha256", ctx, Stream, length)
      /\ NextOf(data, Stream, length) /\ Len(data) = n
      /\ "sha256" \in Hashes /\ algorithm = "sha256"
  BY Finds
<1>2. BlocksFit
  BY <1>1, FitsIfCounted DEF Sponge
<1> HIDE DEF data
<1>3. Absorbing("sha256", next, Stream, length + n)
  BY ONLY <1>1, <1>2, Sha256Step
<1>4. Update("sha256", n, next)
  BY DEF data
<1> HIDE DEF next
<1> QED BY <1>1, <1>3, <1>4, Updates

LEMMA UpdatesSha512 == HashInv /\ UpdateSha512 => HashInv'
<1> SUFFICES ASSUME HashInv, NEW n \in Chunks, Update("sha512", n, Sha512Update(ctx, Chunk(n)))
             PROVE  HashInv'
  BY DEF UpdateSha512
<1> DEFINE data == Chunk(n)
           next == Sha512Update(ctx, data)
<1>1. /\ n \in Nat /\ length \in Nat /\ Stream \in Streams
      /\ Absorbing("sha512", ctx, Stream, length)
      /\ NextOf(data, Stream, length) /\ Len(data) = n
      /\ "sha512" \in Hashes /\ algorithm = "sha512"
  BY Finds
<1>2. BlocksFit
  BY <1>1, FitsIfCounted DEF Sponge
<1> HIDE DEF data
<1>3. Absorbing("sha512", next, Stream, length + n)
  BY ONLY <1>1, <1>2, Sha512Step
<1>4. Update("sha512", n, next)
  BY DEF data
<1> HIDE DEF next
<1> QED BY <1>1, <1>3, <1>4, Updates

LEMMA UpdatesRipemd160 == HashInv /\ UpdateRipemd160 => HashInv'
<1> SUFFICES ASSUME HashInv, NEW n \in Chunks,
                    Update("ripemd160", n, Ripemd160Update(ctx, Chunk(n)))
             PROVE  HashInv'
  BY DEF UpdateRipemd160
<1> DEFINE data == Chunk(n)
           next == Ripemd160Update(ctx, data)
<1>1. /\ n \in Nat /\ length \in Nat /\ Stream \in Streams
      /\ Absorbing("ripemd160", ctx, Stream, length)
      /\ NextOf(data, Stream, length) /\ Len(data) = n
      /\ "ripemd160" \in Hashes /\ algorithm = "ripemd160"
  BY Finds
<1>2. BlocksFit
  BY <1>1, FitsIfCounted DEF Sponge
<1>3. n <= Radix
  <2>1. n < Radix
    BY <1>1, CountsAssumption
  <2> QED BY <1>1, <2>1, Sizes
<1> HIDE DEF data
<1>4. Absorbing("ripemd160", next, Stream, length + n)
  BY ONLY <1>1, <1>2, <1>3, Ripemd160Step
<1>5. Update("ripemd160", n, next)
  BY DEF data
<1> HIDE DEF next
<1> QED BY <1>1, <1>4, <1>5, Updates

LEMMA UpdatesSha3 == HashInv /\ UpdateSha3 => HashInv'
<1> SUFFICES ASSUME HashInv, NEW h \in Sponge, NEW n \in Chunks, NEW aligned \in BOOLEAN,
                    Update(h, n, Sha3Update(ctx, Chunk(n), aligned))
             PROVE  HashInv'
  BY DEF UpdateSha3
<1> DEFINE data == Chunk(n)
           next == Sha3Update(ctx, data, aligned)
<1>1. /\ n \in Nat /\ length \in Nat /\ Stream \in Streams
      /\ Absorbing(h, ctx, Stream, length)
      /\ NextOf(data, Stream, length) /\ Len(data) = n
  BY Finds
<1> HIDE DEF data
<1>2. Absorbing(h, next, Stream, length + n)
  BY ONLY <1>1, h \in Sponge, aligned \in BOOLEAN, SpongeStep
<1>3. Update(h, n, next)
  BY DEF data
<1> HIDE DEF next
<1> QED BY <1>1, <1>2, <1>3, Updates

\* Final: what it returns is what is expected.
LEMMA Finishes ==
  ASSUME HashInv, UNCHANGED <<algorithm, length>>, IsContext(ctx'), algorithm \notin Sponge,
         digest' = <<Expected>>
  PROVE  HashInv'
<1>1. Expected' = Expected
  BY ExpectedStays
<1> QED BY <1>1 DEF HashInv, Absorbs, Returned

LEMMA FinishesSha256 == HashInv /\ FinishSha256 => HashInv'
<1> SUFFICES ASSUME HashInv, FinishSha256 PROVE HashInv'
  OBVIOUS
<1>1. /\ algorithm = "sha256" /\ digest = <<>> /\ digest' = <<Sha256Final(ctx)>>
      /\ ctx' = Sha256Init /\ UNCHANGED <<algorithm, length>>
  BY DEF FinishSha256
<1>2. /\ Absorbing("sha256", ctx, Stream, length) /\ length \in 0 .. MaxMessage
      /\ algorithm \in Hashes /\ algorithm \notin Sponge
  BY <1>1 DEF HashInv, Absorbs, Sponge
<1>3. BlocksFit
  BY <1>2, FitsIfCounted
<1>4. length \in Nat
  BY <1>2, LettersAre
<1>5. PICK E, more :
        /\ PadsLength(E, length, length \div BlockLength, length % BlockLength,
                      Fill(length, 1 + 2 * WordBytes), more, LengthBE(length))
        /\ Expected = BigChain(E, (length \div BlockLength) + more)
  BY <1>1, <1>2, ExpectedSha2
<1>6. Sha256Final(ctx) = Expected
  BY <1>2, <1>3, <1>4, <1>5, Sha256Finish
<1>7. IsContext(ctx')
  BY <1>1 DEF IsContext, Sha256Init
<1> QED BY <1>1, <1>2, <1>6, <1>7, Finishes

LEMMA FinishesSha512 == HashInv /\ FinishSha512 => HashInv'
<1> SUFFICES ASSUME HashInv, FinishSha512 PROVE HashInv'
  OBVIOUS
<1>1. /\ algorithm = "sha512" /\ digest = <<>> /\ digest' = <<Sha512Final(ctx)>>
      /\ ctx' = Sha512Init /\ UNCHANGED <<algorithm, length>>
  BY DEF FinishSha512
<1>2. /\ Absorbing("sha512", ctx, Stream, length) /\ length \in 0 .. MaxMessage
      /\ algorithm \in Hashes /\ algorithm \notin Sponge
  BY <1>1 DEF HashInv, Absorbs, Sponge
<1>3. BlocksFit
  BY <1>2, FitsIfCounted
<1>4. length \in Nat
  BY <1>2, LettersAre
<1>5. PICK E, more :
        /\ PadsLength(E, length, length \div BlockLength, length % BlockLength,
                      Fill(length, 1 + 2 * WordBytes), more, LengthBE(length))
        /\ Expected = BigChain(E, (length \div BlockLength) + more)
  BY <1>1, <1>2, ExpectedSha2
<1>6. Sha512Final(ctx) = Expected
  BY <1>2, <1>3, <1>4, <1>5, Sha512Finish
<1>7. IsContext(ctx')
  BY <1>1 DEF IsContext, Sha512Init
<1> QED BY <1>1, <1>2, <1>6, <1>7, Finishes

LEMMA FinishesRipemd160 == HashInv /\ FinishRipemd160 => HashInv'
<1> SUFFICES ASSUME HashInv, FinishRipemd160 PROVE HashInv'
  OBVIOUS
<1>1. /\ algorithm = "ripemd160" /\ digest = <<>> /\ digest' = <<Ripemd160Final(ctx)>>
      /\ ctx' = ctx /\ UNCHANGED <<algorithm, length>>
  BY DEF FinishRipemd160
<1>2. /\ Absorbing("ripemd160", ctx, Stream, length) /\ length \in 0 .. MaxMessage
      /\ algorithm \in Hashes /\ algorithm \notin Sponge /\ IsContext(ctx)
  BY <1>1 DEF HashInv, Absorbs, Sponge
<1>3. BlocksFit
  BY <1>2, FitsIfCounted
<1>4. length \in Nat
  BY <1>2, LettersAre
<1>5. PICK E, more :
        /\ PadsLength(E, length, length \div BlockLength, length % BlockLength,
                      Fill(length, 1 + 2 * WordBytes), more, LengthLE(length))
        /\ Expected = LittleChain(E, (length \div BlockLength) + more)
  BY <1>1, <1>2, ExpectedRipemd160
<1>6. Ripemd160Final(ctx) = Expected
  BY <1>2, <1>3, <1>4, <1>5, Ripemd160Finish
<1>7. IsContext(ctx')
  BY <1>1, <1>2
<1> QED BY <1>1, <1>2, <1>6, <1>7, Finishes

LEMMA AppendedTwice == ASSUME NEW e PROVE Append(<<e>>, e) = <<e, e>>
<1> DEFINE s == <<e>>
           t == <<e, e>>
           u == Append(s, e)
<1>1. s \in Seq({e}) /\ Len(s) = 1 /\ s[1] = e /\ t \in Seq({e}) /\ Len(t) = 2 /\ t[1] = e /\ t[2] = e
  OBVIOUS
<1> HIDE DEF s, t
<1>2. u \in Seq({e}) /\ Len(u) = Len(s) + 1 /\ (\A i \in 1 .. Len(s) : u[i] = s[i]) /\ u[Len(s) + 1] = e
  BY <1>1, AppendProperties
<1> HIDE DEF u
<1>3. \A i \in 1 .. Len(u) : u[i] = t[i]
  BY <1>1, <1>2
<1>4. u = t
  BY <1>1, <1>2, <1>3, SeqEqual
<1> QED BY <1>4 DEF u, s, t

\* The first Final of a sponge ends the context, later ones leave it.
LEMMA FinishesSponge == HashInv /\ FinishSponge => HashInv'
<1> SUFFICES ASSUME HashInv, FinishSponge PROVE HashInv'
  OBVIOUS
<1> DEFINE mark == IF algorithm = "sha3" THEN 6 ELSE 1
           final == SpongeFinal(ctx, mark)
<1>1. /\ algorithm \in Sponge /\ Len(digest) < 2 /\ ctx' = final
      /\ digest' = Append(digest, final.chain) /\ UNCHANGED <<algorithm, length>>
  BY DEF FinishSponge, Sha3Final, KeccakFinal
<1>2. length \in 0 .. MaxMessage /\ algorithm \in Hashes /\ Absorbs /\ Returned /\ IsContext(ctx)
  BY DEF HashInv
<1>3. Expected' = Expected
  BY <1>1, ExpectedStays
<1>4. CASE digest = <<>>
  <2>1. Absorbing(algorithm, ctx, Stream, length)
    BY <1>2, <1>4 DEF Absorbs
  <2>2. length \in Nat /\ mark \in Nat /\ mark = IF algorithm = "sha3" THEN 6 ELSE 1
    BY <1>2, LettersAre
  <2> HIDE DEF mark
  <2>3. PICK E \in Streams :
          /\ SpongePadded(E, Stream, length, length % BlockLength, mark)
          /\ Expected = LittleChain(E, (length \div BlockLength) + 1)
    BY <1>1, <1>2, <2>2, ExpectedSponge
  <2>4. final.chain = Expected /\ final.count = <<Finalized>> /\ IsContext(final)
    BY <1>1, <2>1, <2>2, <2>3, SpongeFinish
  <2> HIDE DEF final
  <2>5. digest' = <<Expected>>
    BY <1>1, <1>4, <2>4
  <2>6. Absorbs'
    BY <2>5 DEF Absorbs
  <2>7. Returned'
    BY <1>1, <1>3, <2>4, <2>5 DEF Returned
  <2>8. IsContext(ctx') /\ algorithm' \in Hashes /\ length' \in 0 .. MaxMessage
    BY <1>1, <1>2, <2>4
  <2> QED BY <2>6, <2>7, <2>8 DEF HashInv
<1>5. CASE digest # <<>>
  <2>1. /\ digest = <<Expected>> \/ digest = <<Expected, Expected>>
        /\ ctx.count = <<Finalized>> /\ ctx.chain = Expected
    BY <1>1, <1>2, <1>5 DEF Returned
  <2>2. final = ctx
    BY <2>1 DEF SpongeFinal
  <2> HIDE DEF final
  <2>3. digest = <<Expected>>
    BY <1>1, <2>1
  <2>4. digest' = <<Expected, Expected>>
    <3>1. digest' = Append(<<Expected>>, Expected)
      BY <1>1, <2>1, <2>2, <2>3
    <3> QED BY <3>1, AppendedTwice
  <2>5. Absorbs'
    BY <2>4 DEF Absorbs
  <2>6. Returned'
    BY <1>1, <1>3, <2>1, <2>2, <2>4 DEF Returned
  <2>7. IsContext(ctx') /\ algorithm' \in Hashes /\ length' \in 0 .. MaxMessage
    BY <1>1, <1>2, <2>2
  <2> QED BY <2>5, <2>6, <2>7 DEF HashInv
<1> QED BY <1>4, <1>5

\* Late data is ignored.
LEMMA UpdatesLate == HashInv /\ UpdateLate => HashInv'
<1> SUFFICES ASSUME HashInv, UpdateLate PROVE HashInv'
  OBVIOUS
<1>1. algorithm \in Sponge /\ digest # <<>> /\ UNCHANGED <<algorithm, length, digest>>
  BY DEF UpdateLate
<1>2. ctx.count = <<Finalized>>
  BY <1>1 DEF HashInv, Returned
<1>3. ctx' = ctx
  <2>1. PICK n, aligned : ctx' = Sha3Update(ctx, Chunk(n), aligned)
    BY DEF UpdateLate
  <2> QED BY <1>2, <2>1 DEF Sha3Update
<1>4. Expected' = Expected
  BY <1>1, ExpectedStays
<1> QED BY <1>1, <1>3, <1>4 DEF HashInv, Absorbs, Returned

LEMMA HashNext == HashInv /\ [StreamNext]_streamVars => HashInv'
<1> SUFFICES ASSUME HashInv, [StreamNext]_streamVars PROVE HashInv'
  OBVIOUS
<1>1. CASE UNCHANGED streamVars
  <2>1. UNCHANGED <<algorithm, ctx, length, digest>>
    BY <1>1 DEF streamVars
  <2>2. Expected' = Expected
    BY <2>1, ExpectedStays
  <2> QED BY <2>1, <2>2 DEF HashInv, Absorbs, Returned
<1>2. CASE StreamNext
  BY <1>2, UpdatesSha256, UpdatesSha512, UpdatesRipemd160, UpdatesSha3, FinishesSha256,
     FinishesSha512, FinishesRipemd160, FinishesSponge, UpdatesLate DEF StreamNext
<1> QED BY <1>1, <1>2

\* For every size of bytes, words and blocks, every message and however it is cut into
\* chunks, what Final returns is the padded message of the standard, in blocks
\* (HashesMessage of sha2.c, ripemd160.c and sha3.c).
THEOREM MessageIsHashed == StreamSpec => []HashesMessage
<1>1. HashInv => HashesMessage
  BY DEF HashInv, Returned, HashesMessage, Expected
<1> QED BY <1>1, HashBegins, HashNext, PTL DEF StreamSpec

-----------------------------------------------------------------------------
(* Exclusive or.                                                            *)

XorBit(a, b, i) == (Bit(a, i) + Bit(b, i)) % 2

\* The recursion of XorWords, made explicit.
XorValue(n, a, b, low) ==
  low = [i \in 0 .. n |->
           IF i = 0 THEN 0
           ELSE low[i - 1] + 2 ^ (i - 1) * ((Bit(a, i - 1) + Bit(b, i - 1)) % 2)]

LEMMA BitIs ==
  ASSUME NEW a \in Nat, NEW i \in 0 .. 2 * WordBits
  PROVE  Bit(a, i) \in 0 .. 1 /\ a \div 2 ^ i \in Nat
<1> DEFINE p == 2 ^ i
<1>1. p \in Nat /\ p > 0
  BY Powers
<1> HIDE DEF p
<1>2. a \div p \in Nat
  BY <1>1, QuotientOf
<1> DEFINE q == a \div p
<1>3. q \in Nat
  BY <1>2
<1> HIDE DEF q
<1>4. q % 2 \in 0 .. 1
  BY <1>3
<1> QED BY <1>2, <1>4 DEF Bit, p, q

LEMMA XorBitIs ==
  ASSUME NEW a \in Nat, NEW b \in Nat, NEW i \in 0 .. 2 * WordBits
  PROVE  XorBit(a, b, i) \in 0 .. 1
<1>1. Bit(a, i) \in 0 .. 1 /\ Bit(b, i) \in 0 .. 1
  BY BitIs
<1>2. PICK x \in 0 .. 1, y \in 0 .. 1 : x = Bit(a, i) /\ y = Bit(b, i)
  BY <1>1
<1>3. (x + y) % 2 \in 0 .. 1
  OBVIOUS
<1> QED BY <1>2, <1>3 DEF XorBit

XorSums(f, a, b) ==
  /\ f \in [Nat -> Nat] /\ f[0] = 0
  /\ \A i \in 0 .. WordBits - 1 : f[i + 1] = f[i] + 2 ^ i * XorBit(a, b, i)

LEMMA XorIs ==
  ASSUME NEW a \in Nat, NEW b \in Nat
  PROVE  \E f : XorSums(f, a, b) /\ \A n \in 0 .. WordBits : XorWords(n, a, b) = f[n]
<1> DEFINE step == [k \in Nat |-> [v \in Nat |->
                      IF k < WordBits THEN v + 2 ^ k * XorBit(a, b, k) ELSE v]]
<1>1. WordBits \in Nat
  BY Sizes
<1>2. \A k \in 0 .. WordBits - 1 : 2 ^ k * XorBit(a, b, k) \in Nat
  <2> TAKE k \in 0 .. WordBits - 1
  <2>1. k \in 0 .. 2 * WordBits
    BY <1>1
  <2>2. 2 ^ k \in Nat /\ XorBit(a, b, k) \in Nat
    BY <2>1, Powers, XorBitIs
  <2> DEFINE p == 2 ^ k
             x == XorBit(a, b, k)
  <2>3. p \in Nat /\ x \in Nat
    BY <2>2
  <2> HIDE DEF p, x
  <2>4. p * x \in Nat
    BY <2>3
  <2> QED BY <2>4 DEF p, x
<1>3. step \in [Nat -> [Nat -> Nat]]
  <2>1. ASSUME NEW k \in Nat, NEW v \in Nat
        PROVE  (IF k < WordBits THEN v + 2 ^ k * XorBit(a, b, k) ELSE v) \in Nat
    <3>1. CASE k < WordBits
      <4>1. k \in 0 .. WordBits - 1
        BY <1>1, <3>1
      <4> QED BY <1>2, <3>1, <4>1
    <3> QED BY <3>1
  <2> QED BY <2>1
<1>4. PICK f : SolvesAll(f, Nat, 0, step)
  <2> HIDE DEF step
  <2> QED BY <1>3, PrimitiveRecursion
<1>5. ASSUME NEW i \in 0 .. WordBits - 1 PROVE f[i + 1] = f[i] + 2 ^ i * XorBit(a, b, i)
  <2>1. i \in Nat /\ i < WordBits /\ f[i] \in Nat
    BY <1>1, <1>4 DEF SolvesAll
  <2>2. f[i + 1] = step[i][f[i]]
    <3> HIDE DEF step
    <3> QED BY <1>4, <2>1 DEF SolvesAll
  <2> QED BY <2>1, <2>2
<1>6. XorSums(f, a, b)
  BY <1>4, <1>5 DEF XorSums, SolvesAll
<1> HIDE DEF step
<1>7. ASSUME NEW n \in 0 .. WordBits PROVE XorWords(n, a, b) = f[n]
  <2> DEFINE low == CHOOSE g : XorValue(n, a, b, g)
  <2>1. n \in Nat /\ n <= WordBits
    BY <1>1
  <2>2. \E g : XorValue(n, a, b, g)
    <3> DEFINE g == [i \in 0 .. n |-> f[i]]
    <3>1. ASSUME NEW i \in 0 .. n
          PROVE  g[i] = IF i = 0 THEN 0
                        ELSE g[i - 1] + 2 ^ (i - 1) * ((Bit(a, i - 1) + Bit(b, i - 1)) % 2)
      <4>1. CASE i = 0
        BY <1>6, <4>1 DEF XorSums
      <4>2. CASE i # 0
        <5>1. i - 1 \in 0 .. WordBits - 1 /\ (i - 1) + 1 = i /\ i - 1 \in 0 .. n
          BY <1>1, <2>1, <4>2
        <5>2. f[(i - 1) + 1] = f[i - 1] + 2 ^ (i - 1) * XorBit(a, b, i - 1)
          BY ONLY <1>5, <5>1
        <5>3. g[i - 1] = f[i - 1] /\ g[i] = f[i]
          BY <5>1
        <5> QED BY <4>2, <5>1, <5>2, <5>3 DEF XorBit
      <4> QED BY <4>1, <4>2
    <3>2. g = [i \in 0 .. n |-> g[i]]
      OBVIOUS
    <3> HIDE DEF g
    <3>3. XorValue(n, a, b, g)
      BY <3>1, <3>2 DEF XorValue
    <3> QED BY <3>3
  <2>3. XorValue(n, a, b, low)
    BY <2>2
  <2>4. XorWords(n, a, b) = low[n]
    BY DEF XorWords, XorValue
  <2> HIDE DEF low
  <2> DEFINE S == {i \in Nat : i <= n => low[i] = f[i]}
  <2>5. 0 \in S
    <3>1. 0 \in 0 .. n
      BY <2>1
    <3>2. low[0] = 0
      BY <2>3, <3>1 DEF XorValue
    <3> QED BY <1>6, <3>2 DEF XorSums
  <2>6. ASSUME NEW i \in Nat, i \in S PROVE i + 1 \in S
    <3> SUFFICES ASSUME i + 1 <= n PROVE low[i + 1] = f[i + 1]
      OBVIOUS
    <3>1. i + 1 \in 0 .. n /\ i + 1 # 0 /\ (i + 1) - 1 = i /\ i \in 0 .. WordBits - 1
      BY <1>1, <2>1
    <3>2. low[i] = f[i]
      BY <2>1, <2>6
    <3>3. low[i + 1] = low[(i + 1) - 1] + 2 ^ ((i + 1) - 1) * ((Bit(a, (i + 1) - 1) + Bit(b, (i + 1) - 1)) % 2)
      BY <2>3, <3>1 DEF XorValue
    <3>4. low[i + 1] = f[i] + 2 ^ i * XorBit(a, b, i)
      BY ONLY <3>1, <3>2, <3>3 DEF XorBit
    <3> QED BY ONLY <1>5, <3>1, <3>4
  <2> HIDE DEF S
  <2>7. \A i \in Nat : i \in S
    BY <2>5, <2>6, SetInduction
  <2>8. low[n] = f[n]
    BY <2>1, <2>7 DEF S
  <2> QED BY <2>4, <2>8
<1> QED BY <1>6, <1>7

\* Bit by bit.
LEMMA XorStep ==
  ASSUME NEW a \in Nat, NEW b \in Nat
  PROVE  /\ XorWords(0, a, b) = 0
         /\ \A n \in 0 .. WordBits : XorWords(n, a, b) \in Nat
         /\ \A n \in 0 .. WordBits - 1 :
              XorWords(n + 1, a, b) = XorWords(n, a, b) + 2 ^ n * XorBit(a, b, n)
<1>1. PICK f : XorSums(f, a, b) /\ \A n \in 0 .. WordBits : XorWords(n, a, b) = f[n]
  BY XorIs
<1>2. WordBits \in Nat
  BY Sizes
<1>3. ASSUME NEW n \in 0 .. WordBits - 1
      PROVE  XorWords(n + 1, a, b) = XorWords(n, a, b) + 2 ^ n * XorBit(a, b, n)
  <2>1. n \in 0 .. WordBits /\ n + 1 \in 0 .. WordBits
    BY <1>2
  <2> QED BY <1>1, <2>1 DEF XorSums
<1> QED BY <1>1, <1>2, <1>3 DEF XorSums

\* The powers of the exponents in a word.
LEMMA WordPowers ==
  ASSUME NEW s \in Nat, NEW t \in Nat, s + t <= WordBits
  PROVE  2 ^ s \in Nat \ {0} /\ 2 ^ t \in Nat \ {0} /\ 2 ^ (s + t) = 2 ^ s * 2 ^ t
<1>1. s \in 0 .. 2 * WordBits /\ t \in 0 .. 2 * WordBits /\ s + t <= 2 * WordBits
  BY Sizes
<1> QED BY <1>1, Powers, PowersAssumption

\* A bit of what is shifted down.
LEMMA ShiftedBit ==
  ASSUME NEW a \in Nat, NEW s \in Nat, NEW t \in Nat, s + t <= WordBits
  PROVE  /\ a \div 2 ^ s \in Nat
         /\ (a \div 2 ^ s) \div 2 ^ t = a \div 2 ^ (s + t)
         /\ Bit(a \div 2 ^ s, t) = Bit(a, s + t)
<1> DEFINE p == 2 ^ s
           q == 2 ^ t
<1>1. /\ p \in Nat \ {0} /\ q \in Nat \ {0} /\ 2 ^ (s + t) = p * q
  BY WordPowers
<1> HIDE DEF p, q
<1>2. a \div p \in Nat /\ (a \div p) \div q = a \div (p * q)
  BY <1>1, QuotientOf, QuotientTwice
<1> QED BY <1>1, <1>2 DEF Bit, p, q

IsShifted(a, s, t) == Bit(a \div 2 ^ s, t) = Bit(a, s + t)

LEMMA BitIsShifted ==
  ASSUME NEW a \in Nat, NEW s \in Nat, NEW t \in Nat, s + t <= WordBits
  PROVE  IsShifted(a, s, t)
BY ShiftedBit DEF IsShifted

LEMMA ShiftedXor ==
  ASSUME NEW a \in Nat, NEW b \in Nat, NEW s \in Nat, NEW t \in Nat, s + t <= WordBits
  PROVE  XorBit(a \div 2 ^ s, b \div 2 ^ s, t) = XorBit(a, b, s + t)
<1>1. IsShifted(a, s, t) /\ IsShifted(b, s, t)
  BY BitIsShifted
<1> QED BY ONLY <1>1 DEF IsShifted, XorBit

LEMMA XorBound ==
  ASSUME NEW a \in Nat, NEW b \in Nat, NEW n \in 0 .. WordBits
  PROVE  XorWords(n, a, b) < 2 ^ n
<1> DEFINE S == {k \in Nat : k <= WordBits => XorWords(k, a, b) < 2 ^ k}
<1>1. 0 \in S
  <2>1. XorWords(0, a, b) = 0 /\ 2 ^ 0 = 1
    BY XorStep
  <2> QED BY <2>1
<1>2. ASSUME NEW k \in Nat, k \in S PROVE k + 1 \in S
  <2> SUFFICES ASSUME k + 1 <= WordBits PROVE XorWords(k + 1, a, b) < 2 ^ (k + 1)
    OBVIOUS
  <2>1. k \in 0 .. WordBits /\ k \in 0 .. WordBits - 1 /\ 1 \in Nat
    BY Sizes
  <2>2. 2 ^ k \in Nat \ {0} /\ 2 ^ (k + 1) = 2 ^ k * 2
    <3>1. k \in Nat /\ 1 \in Nat /\ k + 1 <= WordBits
      BY <2>1, Sizes
    <3>2. 2 ^ k \in Nat \ {0} /\ 2 ^ (k + 1) = 2 ^ k * 2 ^ 1
      BY ONLY <3>1, WordPowers
    <3>3. 2 ^ 1 = 2
      OBVIOUS
    <3> QED BY <3>2, <3>3
  <2>3. XorWords(k, a, b) \in Nat /\ XorWords(k, a, b) < 2 ^ k
    BY <1>2, <2>1, XorStep
  <2>4. XorWords(k + 1, a, b) = XorWords(k, a, b) + 2 ^ k * XorBit(a, b, k)
    BY <2>1, XorStep
  <2>5. XorBit(a, b, k) \in 0 .. 1
    <3>1. k \in 0 .. 2 * WordBits
      BY <2>1, Sizes
    <3> QED BY <3>1, XorBitIs
  <2> DEFINE p == 2 ^ k
             x == XorWords(k, a, b)
             y == XorBit(a, b, k)
  <2>6. p \in Nat /\ x \in Nat /\ x < p /\ y \in 0 .. 1 /\ 2 ^ (k + 1) = p * 2
    BY <2>2, <2>3, <2>5
  <2>7. XorWords(k + 1, a, b) = x + p * y
    BY <2>4
  <2> HIDE DEF p, x, y
  <2>8. p * y <= p
    <3>1. CASE y = 0 BY <2>6, <3>1
    <3>2. CASE y = 1 BY <2>6, <3>2
    <3> QED BY <2>6, <3>1, <3>2
  <2>9. p * y \in Nat
    BY <2>6
  <2> QED BY <2>6, <2>7, <2>8, <2>9
<1> HIDE DEF S
<1>3. \A k \in Nat : k \in S
  BY <1>1, <1>2, SetInduction
<1> QED BY <1>3, Sizes DEF S

\* It depends on the bits only.
SameBits(n, a, c) == \A i \in 0 .. n - 1 : Bit(a, i) = Bit(c, i)

LEMMA XorSame ==
  ASSUME NEW a \in Nat, NEW b \in Nat, NEW c \in Nat, NEW d \in Nat, NEW n \in 0 .. WordBits,
         SameBits(n, a, c), SameBits(n, b, d)
  PROVE  XorWords(n, a, b) = XorWords(n, c, d)
<1> DEFINE S == {k \in Nat : k <= n => XorWords(k, a, b) = XorWords(k, c, d)}
<1>1. 0 \in S
  BY XorStep
<1>2. ASSUME NEW k \in Nat, k \in S PROVE k + 1 \in S
  <2> SUFFICES ASSUME k + 1 <= n PROVE XorWords(k + 1, a, b) = XorWords(k + 1, c, d)
    OBVIOUS
  <2>1. k \in 0 .. WordBits - 1 /\ k \in 0 .. n - 1
    BY Sizes
  <2>2. /\ XorWords(k + 1, a, b) = XorWords(k, a, b) + 2 ^ k * XorBit(a, b, k)
        /\ XorWords(k + 1, c, d) = XorWords(k, c, d) + 2 ^ k * XorBit(c, d, k)
    BY <2>1, XorStep
  <2>3. XorBit(a, b, k) = XorBit(c, d, k)
    BY <2>1 DEF XorBit, SameBits
  <2>4. XorWords(k, a, b) = XorWords(k, c, d)
    BY <1>2
  <2> QED BY ONLY <2>2, <2>3, <2>4
<1> HIDE DEF S
<1>3. \A k \in Nat : k \in S
  BY <1>1, <1>2, SetInduction
<1> QED BY <1>3 DEF S

\* The low bits and the high ones apart.
LEMMA XorSplit ==
  ASSUME NEW a \in Nat, NEW b \in Nat, NEW s \in Nat, NEW t \in Nat, s + t <= WordBits
  PROVE  XorWords(s + t, a, b)
           = XorWords(s, a, b) + 2 ^ s * XorWords(t, a \div 2 ^ s, b \div 2 ^ s)
<1> DEFINE p == 2 ^ s
           c == a \div p
           d == b \div p
           SplitsAt(k) == XorWords(s + k, a, b) = XorWords(s, a, b) + p * XorWords(k, c, d)
           S == {k \in Nat : k <= t => SplitsAt(k)}
<1>1. p \in Nat /\ c \in Nat /\ d \in Nat
  <2>1. s + 0 <= WordBits /\ 0 \in Nat
    BY Sizes
  <2>2. c \in Nat /\ d \in Nat
    BY <2>1, ShiftedBit
  <2>3. p \in Nat
    BY <2>1, WordPowers
  <2> QED BY <2>2, <2>3
<1> HIDE DEF SplitsAt
<1>2. 0 \in S
  <2>1. XorWords(0, c, d) = 0 /\ s + 0 = s /\ XorWords(s, a, b) \in Nat
    <3>1. s \in 0 .. WordBits
      BY Sizes
    <3> HIDE DEF c, d
    <3> QED BY <1>1, <3>1, XorStep
  <2> HIDE DEF p, c, d
  <2>2. p * XorWords(0, c, d) = 0
    BY <1>1, <2>1
  <2> QED BY <2>1, <2>2 DEF SplitsAt
<1>3. ASSUME NEW k \in Nat, k \in S PROVE k + 1 \in S
  <2> SUFFICES ASSUME k + 1 <= t PROVE SplitsAt(k + 1)
    OBVIOUS
  <2>1. /\ s + k \in 0 .. WordBits - 1 /\ k \in 0 .. WordBits - 1 /\ s + (k + 1) = (s + k) + 1
        /\ s + k <= WordBits /\ s \in 0 .. WordBits /\ k \in 0 .. WordBits
    BY Sizes
  <2>2. XorWords((s + k) + 1, a, b) = XorWords(s + k, a, b) + 2 ^ (s + k) * XorBit(a, b, s + k)
    BY <2>1, XorStep
  <2>3. XorWords(k + 1, c, d) = XorWords(k, c, d) + 2 ^ k * XorBit(c, d, k)
    <3> HIDE DEF c, d
    <3> QED BY <1>1, <2>1, XorStep
  <2>4. XorBit(c, d, k) = XorBit(a, b, s + k)
    <3>1. s + k <= WordBits
      BY <2>1
    <3>2. XorBit(a \div 2 ^ s, b \div 2 ^ s, k) = XorBit(a, b, s + k)
      BY <3>1, ShiftedXor
    <3> QED BY ONLY <3>2 DEF c, d, p
  <2>5. 2 ^ (s + k) = p * 2 ^ k /\ 2 ^ k \in Nat
    BY <2>1, WordPowers
  <2>6. XorWords(s + k, a, b) = XorWords(s, a, b) + p * XorWords(k, c, d)
    <3>1. SplitsAt(k)
      BY <1>3
    <3> QED BY <3>1 DEF SplitsAt
  <2>7. XorBit(a, b, s + k) \in Nat /\ XorWords(k, c, d) \in Nat /\ XorWords(s, a, b) \in Nat
    <3>1. s + k \in 0 .. 2 * WordBits
      BY <2>1, Sizes
    <3>2. XorBit(a, b, s + k) \in Nat
      BY <3>1, XorBitIs
    <3>3. XorWords(s, a, b) \in Nat
      BY <2>1, XorStep
    <3> HIDE DEF c, d
    <3>4. XorWords(k, c, d) \in Nat
      BY <1>1, <2>1, XorStep
    <3> QED BY <3>2, <3>3, <3>4
  <2> DEFINE u == XorWords(k, c, d)
             v == XorWords(s, a, b)
             x == XorBit(a, b, s + k)
             q == 2 ^ k
  <2>8. /\ p \in Nat /\ q \in Nat /\ u \in Nat /\ v \in Nat /\ x \in Nat
        /\ XorWords(s + (k + 1), a, b) = (v + p * u) + (p * q) * x
        /\ XorWords(k + 1, c, d) = u + q * x
    BY <1>1, <2>1, <2>2, <2>3, <2>4, <2>5, <2>6, <2>7
  <2> HIDE DEF p, q, u, v, x, c, d
  <2>9. (v + p * u) + (p * q) * x = v + p * (u + q * x)
    <3>1. (p * q) * x = p * (q * x) /\ q * x \in Nat
      BY <2>8
    <3>2. p * (u + q * x) = p * u + p * (q * x) /\ p * u \in Nat /\ p * (q * x) \in Nat
      BY <2>8, <3>1
    <3> QED BY <2>8, <3>1, <3>2
  <2>10. XorWords(s + (k + 1), a, b) = v + p * XorWords(k + 1, c, d)
    BY <2>8, <2>9
  <2> QED BY <2>10 DEF v, SplitsAt
<1> HIDE DEF S
<1>4. \A k \in Nat : k \in S
  BY <1>2, <1>3, SetInduction
<1> QED BY <1>4 DEF S, SplitsAt, c, d, p

LEMMA XorZeros ==
  ASSUME NEW n \in 0 .. WordBits
  PROVE  XorWords(n, 0, 0) = 0
<1> DEFINE S == {k \in Nat : k <= WordBits => XorWords(k, 0, 0) = 0}
<1>1. 0 \in S /\ 0 \in Nat
  BY XorStep
<1>2. ASSUME NEW k \in Nat, k \in S PROVE k + 1 \in S
  <2> SUFFICES ASSUME k + 1 <= WordBits PROVE XorWords(k + 1, 0, 0) = 0
    OBVIOUS
  <2>1. k \in 0 .. WordBits - 1 /\ k + 0 <= WordBits
    BY Sizes
  <2>2. XorWords(k + 1, 0, 0) = XorWords(k, 0, 0) + 2 ^ k * XorBit(0, 0, k)
    BY <2>1, <1>1, XorStep
  <2>3. 2 ^ k \in Nat \ {0}
    BY <2>1, <1>1, WordPowers
  <2> DEFINE p == 2 ^ k
  <2> HIDE DEF p
  <2>4. 0 \div p = 0
    BY <2>3 DEF p
  <2>5. XorBit(0, 0, k) = 0
    BY <2>4 DEF XorBit, Bit, p
  <2>6. XorWords(k, 0, 0) = 0
    BY <1>2, <2>1, Sizes
  <2>7. p \in Nat
    BY <2>3 DEF p
  <2>8. p * 0 = 0
    BY <2>7
  <2> QED BY <2>2, <2>5, <2>6, <2>8 DEF p
<1> HIDE DEF S
<1>3. \A k \in Nat : k \in S
  BY <1>1, <1>2, SetInduction
<1> QED BY <1>3, Sizes DEF S

\* The bits of the number that is left below a power, and of one that is.
LEMMA LowBits ==
  ASSUME NEW a \in Nat, NEW n \in Nat, n <= WordBits, NEW i \in 0 .. n - 1
  PROVE  Bit(a % 2 ^ n, i) = Bit(a, i)
<1> DEFINE p == 2 ^ i
           h == 2 ^ (n - (i + 1))
           m == 2 ^ n
           q == a \div m
           r == a % m
           z == r \div p
<1>1. p \in Nat \ {0} /\ h \in Nat \ {0} /\ m \in Nat /\ m > 0 /\ m = (h * 2) * p
  <2>1. WordBits \in Nat
    BY Sizes
  <2> DEFINE k == n - (i + 1)
  <2>2. /\ i \in Nat /\ 1 \in Nat /\ i + 1 \in Nat /\ i + 1 <= WordBits
        /\ k \in Nat /\ k + (i + 1) <= WordBits /\ k + (i + 1) = n
    BY <2>1
  <2> HIDE DEF k
  <2>3. 2 ^ i \in Nat \ {0} /\ 2 ^ (i + 1) = 2 ^ i * 2 ^ 1
    BY ONLY <2>2, WordPowers
  <2>4. 2 ^ 1 = 2
    OBVIOUS
  <2>5. 2 ^ k \in Nat \ {0} /\ 2 ^ (k + (i + 1)) = 2 ^ k * 2 ^ (i + 1)
    BY ONLY <2>2, WordPowers
  <2> DEFINE u == 2 ^ i
             v == 2 ^ k
  <2>6. u \in Nat \ {0} /\ v \in Nat \ {0} /\ 2 ^ n = v * (u * 2)
    BY <2>2, <2>3, <2>4, <2>5
  <2> HIDE DEF u, v
  <2>7. v * (u * 2) = (v * 2) * u /\ v * (u * 2) \in Nat /\ v * (u * 2) > 0
    BY <2>6
  <2>8. 2 ^ n \in Nat /\ 2 ^ n > 0 /\ 2 ^ n = (v * 2) * u
    BY ONLY <2>6, <2>7
  <2> QED BY <2>6, <2>8 DEF u, v, k
<1> HIDE DEF p, h, m
<1>2. q \in Nat /\ r \in Nat /\ a = q * m + r
  BY <1>1, QuotientOf
<1> HIDE DEF q, r
<1>3. a = (q * (h * 2)) * p + r
  BY <1>1, <1>2
<1>4. q * (h * 2) \in Nat
  BY <1>1, <1>2
<1>5. a \div p = q * (h * 2) + z
  <2> DEFINE x == q * (h * 2)
  <2>1. x \in Nat /\ a = x * p + r
    BY ONLY <1>3, <1>4
  <2> HIDE DEF x
  <2>2. p \in Nat /\ p > 0 /\ r \in Nat
    BY <1>1, <1>2
  <2>3. (x * p + r) \div p = x + (r \div p)
    BY ONLY <2>1, <2>2, QuotientPlus
  <2> QED BY ONLY <2>1, <2>3 DEF x, z
<1>6. z \in Nat
  BY <1>1, <1>2, QuotientOf
<1> HIDE DEF z
<1>7. q * (h * 2) = (q * h) * 2 /\ q * h \in Nat
  BY <1>1, <1>2
<1>8. ((q * h) * 2 + z) % 2 = z % 2
  BY ONLY <1>6, <1>7, QuotientPlus
<1>9. (a \div p) % 2 = z % 2
  BY ONLY <1>5, <1>7, <1>8
<1> QED BY ONLY <1>9 DEF Bit, z, r, m, p

LEMMA HighBits ==
  ASSUME NEW n \in Nat, n <= WordBits, NEW a \in 0 .. 2 ^ n - 1
  PROVE  a \in Nat /\ a \div 2 ^ n = 0
<1> DEFINE m == 2 ^ n
<1>1. m \in Nat \ {0}
  <2>1. n \in Nat /\ 0 \in Nat /\ n + 0 <= WordBits
    BY Sizes
  <2> QED BY ONLY <2>1, WordPowers DEF m
<1>2. a \in 0 .. m - 1
  OBVIOUS
<1> HIDE DEF m
<1>3. 0 * m + a = a /\ 0 \in Int /\ m \in Nat /\ m > 0 /\ a \in Nat
  BY <1>1, <1>2
<1>4. (0 * m + a) \div m = 0
  BY ONLY <1>2, <1>3, QuotientIs
<1> QED BY <1>3, <1>4 DEF m

\* Of numbers of n bits, the others are zeros.
LEMMA XorShort ==
  ASSUME NEW n \in Nat, n <= WordBits, NEW a \in 0 .. 2 ^ n - 1, NEW b \in 0 .. 2 ^ n - 1
  PROVE  XorWords(WordBits, a, b) = XorWords(n, a, b)
<1> DEFINE t == WordBits - n
<1>1. t \in 0 .. WordBits /\ t \in Nat /\ n + t = WordBits /\ n + t <= WordBits /\ n \in 0 .. WordBits
  BY Sizes
<1> HIDE DEF t
<1>2. a \in Nat /\ b \in Nat /\ a \div 2 ^ n = 0 /\ b \div 2 ^ n = 0
  BY HighBits
<1>3. XorWords(n + t, a, b) = XorWords(n, a, b) + 2 ^ n * XorWords(t, a \div 2 ^ n, b \div 2 ^ n)
  BY ONLY n \in Nat, <1>1, <1>2, XorSplit
<1>4. XorWords(t, 0, 0) = 0
  BY <1>1, XorZeros
<1>5. XorWords(n, a, b) \in Nat
  BY <1>1, <1>2, XorStep
<1>6. 2 ^ n \in Nat
  <2>1. n \in Nat /\ 0 \in Nat /\ n + 0 <= WordBits
    BY Sizes
  <2> QED BY ONLY <2>1, WordPowers
<1> DEFINE p == 2 ^ n
           x == XorWords(n, a, b)
<1>7. p \in Nat /\ x \in Nat /\ XorWords(n + t, a, b) = x + p * 0
  BY ONLY <1>2, <1>3, <1>4, <1>5, <1>6
<1> HIDE DEF p, x
<1>8. x + p * 0 = x
  BY <1>7
<1> QED BY ONLY <1>1, <1>7, <1>8 DEF x

\* The bits from s on, n of them, one number at a time or of the result.
LEMMA PartOfXor ==
  ASSUME NEW a \in Nat, NEW b \in Nat, NEW s \in Nat, NEW n \in Nat, s + n <= WordBits
  PROVE  (XorWords(WordBits, a, b) \div 2 ^ s) % 2 ^ n
           = XorWords(WordBits, (a \div 2 ^ s) % 2 ^ n, (b \div 2 ^ s) % 2 ^ n)
<1> DEFINE t == WordBits - s
           u == t - n
           c == a \div 2 ^ s
           d == b \div 2 ^ s
           p == 2 ^ s
           m == 2 ^ n
<1>1. /\ t \in Nat /\ s + t = WordBits /\ s + t <= WordBits /\ t \in 0 .. WordBits
      /\ u \in Nat /\ n + u = t /\ n + u <= WordBits /\ u \in 0 .. WordBits
      /\ n <= WordBits /\ n \in 0 .. WordBits /\ s \in 0 .. WordBits
  BY Sizes
<1> HIDE DEF t, u
<1>2. p \in Nat \ {0} /\ m \in Nat \ {0}
  BY WordPowers
<1>3. c \in Nat /\ d \in Nat
  BY <1>2, QuotientOf DEF p
<1>4. XorWords(WordBits, a, b) = XorWords(s, a, b) + p * XorWords(t, c, d)
  <2>1. XorWords(s + t, a, b) = XorWords(s, a, b) + 2 ^ s * XorWords(t, a \div 2 ^ s, b \div 2 ^ s)
    BY ONLY a \in Nat, b \in Nat, s \in Nat, <1>1, XorSplit
  <2> QED BY ONLY <1>1, <2>1 DEF c, d, p
<1> HIDE DEF p, m
<1>5. XorWords(WordBits, a, b) \div p = XorWords(t, c, d)
  <2> DEFINE x == XorWords(s, a, b)
             y == XorWords(t, c, d)
  <2>1. x \in Nat /\ x < p
    BY <1>1, XorStep, XorBound DEF p
  <2> HIDE DEF c, d
  <2>2. y \in Nat
    BY <1>1, <1>3, XorStep
  <2>3. XorWords(WordBits, a, b) = x + p * y
    BY <1>4
  <2> HIDE DEF x, y
  <2>4. x \in 0 .. p - 1 /\ y \in Int /\ p \in Nat /\ x + p * y = y * p + x
    BY <1>2, <2>1, <2>2
  <2>5. (y * p + x) \div p = y
    BY ONLY <2>4, QuotientIs
  <2> QED BY ONLY <2>3, <2>4, <2>5 DEF y
<1>6. XorWords(t, c, d) % m = XorWords(n, c, d)
  <2> HIDE DEF c, d
  <2> DEFINE x == XorWords(n, c, d)
             y == XorWords(u, c \div 2 ^ n, d \div 2 ^ n)
  <2>1. XorWords(n + u, c, d) = XorWords(n, c, d) + 2 ^ n * XorWords(u, c \div 2 ^ n, d \div 2 ^ n)
    BY ONLY n \in Nat, <1>1, <1>3, XorSplit
  <2>2. x \in Nat /\ x < m
    BY <1>1, <1>3, XorStep, XorBound DEF m
  <2>3. c \div m \in Nat /\ d \div m \in Nat
    BY <1>2, <1>3, QuotientOf
  <2>4. y \in Nat
    BY <1>1, <2>3, XorStep DEF m
  <2>5. XorWords(t, c, d) = x + m * y
    BY ONLY <1>1, <2>1 DEF m, x, y
  <2> HIDE DEF x, y
  <2>6. x \in 0 .. m - 1 /\ y \in Int /\ m \in Nat /\ x + m * y = y * m + x
    BY <1>2, <2>2, <2>4
  <2>7. (y * m + x) % m = x
    BY ONLY <2>6, QuotientIs
  <2> QED BY ONLY <2>5, <2>6, <2>7 DEF x
<1> HIDE DEF c, d
<1>7. c % m \in 0 .. m - 1 /\ d % m \in 0 .. m - 1
  BY <1>2, <1>3, QuotientOf
<1>8. XorWords(n, c, d) = XorWords(n, c % m, d % m)
  <2>1. \A i \in 0 .. n - 1 : Bit(c, i) = Bit(c % m, i) /\ Bit(d, i) = Bit(d % m, i)
    BY <1>1, <1>3, LowBits DEF m
  <2>2. c % m \in Nat /\ d % m \in Nat
    BY <1>2, <1>7
  <2> DEFINE e == c % m
             f == d % m
  <2>3. e \in Nat /\ f \in Nat /\ SameBits(n, c, e) /\ SameBits(n, d, f)
    BY <2>1, <2>2 DEF SameBits
  <2> HIDE DEF e, f
  <2>4. XorWords(n, c, d) = XorWords(n, e, f)
    BY ONLY <1>1, <1>3, <2>3, XorSame
  <2> QED BY <2>4 DEF e, f
<1>9. XorWords(WordBits, c % m, d % m) = XorWords(n, c % m, d % m)
  BY <1>1, <1>7, XorShort DEF m
<1> QED BY ONLY <1>5, <1>6, <1>8, <1>9 DEF c, d, m, p

-----------------------------------------------------------------------------
(* Words and their bytes.                                                   *)

WordSet == 0 .. Radix - 1
ByteOf(x, i) == (x \div 2 ^ (ByteBits * (WordBytes - i))) % 2 ^ ByteBits
Place(j, i) == (j - 1) * WordBytes + i

LEMMA PlaceIs ==
  ASSUME NEW j \in Nat, j > 0, NEW i \in 1 .. WordBytes
  PROVE  /\ Place(j, i) \in Nat /\ Place(j, i) > 0 /\ Place(j, i) <= j * WordBytes
         /\ (Place(j, i) - 1) \div WordBytes = j - 1 /\ (Place(j, i) - 1) % WordBytes = i - 1
<1> DEFINE W == WordBytes
           q == j - 1
           x == q * W
<1>1. W \in Nat /\ W > 0
  BY SizesAssumption, ByteAssumption
<1>2. j * W = x + W /\ x \in Nat
  <2>1. j * W = (j - 1) * W + W
    BY <1>1
  <2>2. q \in Nat
    OBVIOUS
  <2> HIDE DEF q
  <2>3. q * W \in Nat
    BY <1>1, <2>2
  <2> QED BY <2>1, <2>3 DEF q
<1>3. Place(j, i) = x + i /\ i \in 1 .. W
  BY DEF Place
<1>4. q \in Int /\ i - 1 \in 0 .. W - 1 /\ W \in Nat
  BY <1>1
<1>5. (q * W + (i - 1)) \div W = q /\ (q * W + (i - 1)) % W = i - 1
  BY ONLY <1>1, <1>4, QuotientIs
<1> HIDE DEF x, W
<1>6. Place(j, i) - 1 = x + (i - 1)
  BY <1>1, <1>2, <1>3
<1>7. Place(j, i) \in Nat /\ Place(j, i) > 0 /\ Place(j, i) <= j * W
  BY <1>1, <1>2, <1>3
<1> QED BY ONLY <1>5, <1>6, <1>7 DEF x, q, W

LEMMA PlaceOf ==
  ASSUME NEW m \in Nat, NEW p \in 1 .. m * WordBytes
  PROVE  \E j \in 1 .. m, i \in 1 .. WordBytes : p = Place(j, i)
<1> DEFINE W == WordBytes
           q == (p - 1) \div W
           r == (p - 1) % W
<1>1. W \in Nat /\ W > 0 /\ m * W \in Nat
  BY SizesAssumption, ByteAssumption
<1>2. p - 1 \in Nat
  BY <1>1
<1>3. q \in Nat /\ r \in 0 .. W - 1 /\ p - 1 = q * W + r
  BY ONLY <1>1, <1>2, QuotientOf
<1>4. p - 1 < m * W /\ p \in Nat
  BY <1>1
<1> HIDE DEF q, r, W
<1>5. q < m
  <2> SUFFICES ASSUME q >= m PROVE FALSE
    BY <1>3
  <2>1. PICK d \in Nat : q = m + d
    <3>1. q - m \in Nat /\ q = m + (q - m)
      BY <1>3
    <3> QED BY <3>1
  <2>2. q * W = m * W + d * W /\ d * W \in Nat /\ q * W \in Nat
    BY <1>1, <2>1
  <2> QED BY ONLY <1>1, <1>3, <1>4, <2>2
<1>6. p = Place(q + 1, r + 1)
  <2>1. Place(q + 1, r + 1) = q * W + (r + 1)
    BY <1>3 DEF Place, W
  <2>2. q * W \in Nat
    BY <1>1, <1>3
  <2> QED BY <1>3, <1>4, <2>1, <2>2
<1>7. q + 1 \in 1 .. m /\ r + 1 \in 1 .. W
  BY <1>1, <1>3, <1>5
<1> QED BY <1>6, <1>7 DEF W

LEMMA ByteIs ==
  ASSUME NEW x \in Nat, NEW i \in 1 .. WordBytes
  PROVE  ByteOf(x, i) \in 0 .. 2 ^ ByteBits - 1 /\ ByteOf(x, i) \in Nat
<1> DEFINE p == 2 ^ (ByteBits * (WordBytes - i))
           b == 2 ^ ByteBits
<1>1. p \in Nat \ {0}
  <2>1. /\ WordBytes - i \in 0 .. 2 * WordBytes /\ 0 \in 0 .. 2 * WordBytes
        /\ (WordBytes - i) + 0 <= 2 * WordBytes
    BY SizesAssumption, ByteAssumption
  <2> QED BY <2>1, BytePowers
<1>2. b \in Nat \ {0}
  BY Sizes
<1> HIDE DEF p, b
<1>3. x \div p \in Nat
  BY <1>1, QuotientOf
<1> DEFINE y == x \div p
<1>4. y \in Nat
  BY <1>3
<1> HIDE DEF y
<1>5. y % b \in 0 .. b - 1
  BY <1>2, <1>4, QuotientOf
<1>6. y % b \in Nat
  BY <1>2, <1>5
<1> QED BY <1>5, <1>6 DEF ByteOf, y, p, b

\* What BytesBE writes.
LEMMA BytesAre ==
  ASSUME NEW w \in Seq(Nat), NEW m \in Nat, Len(w) = m
  PROVE  /\ BytesBE(w) \in Seq(Nat) /\ Len(BytesBE(w)) = m * WordBytes
         /\ BytesBE(w) = [p \in 1 .. m * WordBytes |-> BytesBE(w)[p]]
         /\ \A j \in 1 .. m, i \in 1 .. WordBytes :
              /\ Place(j, i) \in 1 .. m * WordBytes
              /\ BytesBE(w)[Place(j, i)] = ByteOf(w[j], i)
              /\ BytesBE(w)[Place(j, i)] \in 0 .. 2 ^ ByteBits - 1
<1> DEFINE W == WordBytes
           n == m * W
           byte(p) == (w[((p - 1) \div W) + 1] \div 2 ^ (ByteBits * (W - 1 - ((p - 1) % W)))) % 2 ^ ByteBits
           b == BytesBE(w)
<1>1. W \in Nat /\ W > 0 /\ n \in Nat
  BY SizesAssumption, ByteAssumption
<1>2. b = [p \in 1 .. n |-> byte(p)]
  BY DEF BytesBE
<1> HIDE DEF b
<1>3. ASSUME NEW j \in 1 .. m, NEW i \in 1 .. W
      PROVE  /\ Place(j, i) \in 1 .. n /\ b[Place(j, i)] = ByteOf(w[j], i)
             /\ ByteOf(w[j], i) \in 0 .. 2 ^ ByteBits - 1 /\ ByteOf(w[j], i) \in Nat
  <2> DEFINE p == Place(j, i)
  <2>1. /\ p \in Nat /\ p > 0 /\ p <= j * W
        /\ (p - 1) \div W = j - 1 /\ (p - 1) % W = i - 1
    <3>1. j \in Nat /\ j > 0
      OBVIOUS
    <3> QED BY <3>1, PlaceIs
  <2> HIDE DEF p
  <2>2. j * W <= n
    <3>1. PICK d \in Nat : m = j + d
      <4>1. m - j \in Nat /\ m = j + (m - j)
        OBVIOUS
      <4> QED BY <4>1
    <3>2. m * W = j * W + d * W /\ d * W \in Nat /\ j * W \in Nat
      BY <1>1, <3>1
    <3> HIDE DEF W
    <3> QED BY <3>2
  <2>3. p \in 1 .. n
    <3>1. j * W \in Nat
      BY <1>1
    <3> HIDE DEF n, W
    <3> QED BY <1>1, <2>1, <2>2, <3>1
  <2>4. b[p] = byte(p)
    BY <1>2, <2>3
  <2>5. byte(p) = ByteOf(w[j], i)
    <3>1. (j - 1) + 1 = j /\ W - 1 - (i - 1) = W - i
      BY <1>1
    <3>2. byte(p) = (w[(j - 1) + 1] \div 2 ^ (ByteBits * (W - 1 - (i - 1)))) % 2 ^ ByteBits
      BY ONLY <2>1
    <3> QED BY ONLY <3>1, <3>2 DEF ByteOf
  <2>6. w[j] \in Nat
    OBVIOUS
  <2> HIDE DEF byte
  <2>7. ByteOf(w[j], i) \in 0 .. 2 ^ ByteBits - 1 /\ ByteOf(w[j], i) \in Nat
    BY <2>6, ByteIs
  <2> QED BY <2>3, <2>4, <2>5, <2>7 DEF p
<1> HIDE DEF byte
<1>4. ASSUME NEW p \in 1 .. n PROVE b[p] \in Nat
  <2>1. PICK j \in 1 .. m, i \in 1 .. WordBytes : p = Place(j, i)
    BY PlaceOf
  <2> QED BY <1>3, <2>1
<1>5. b = [p \in 1 .. n |-> b[p]]
  BY <1>2
<1> HIDE DEF n
<1>6. b \in Seq(Nat) /\ Len(b) = n
  BY <1>1, <1>4, <1>5
<1> QED BY <1>3, <1>5, <1>6 DEF b, n

LEMMA BytesOfWord ==
  ASSUME NEW b \in Seq(Nat), NEW j \in Nat, j > 0, j * WordBytes <= Len(b)
  PROVE  WordBytesOf(b, j) = [i \in 1 .. WordBytes |-> b[Place(j, i)]]
<1> DEFINE W == WordBytes
           first == (j - 1) * W + 1
           last == j * W
<1>1. W \in Nat /\ W > 0
  BY SizesAssumption, ByteAssumption
<1>2. /\ first \in Nat /\ first >= 1 /\ last = first + W - 1 /\ last \in Nat
  <2> DEFINE q == j - 1
  <2>1. q \in Nat /\ j = q + 1
    OBVIOUS
  <2> HIDE DEF q
  <2>2. q * W \in Nat /\ (q + 1) * W = q * W + W
    BY <1>1, <2>1
  <2>3. first = q * W + 1 /\ last = q * W + W
    BY <2>1, <2>2 DEF q
  <2> DEFINE y == q * W
  <2>4. y \in Nat /\ first = y + 1 /\ last = y + W
    BY ONLY <2>2, <2>3
  <2> HIDE DEF first, last, y, W
  <2> QED BY ONLY <1>1, <2>4
<1>3. WordBytesOf(b, j) = SubSeq(b, first, last)
  BY DEF WordBytesOf
<1>4. \A i \in 1 .. W : first + i - 1 = Place(j, i)
  <2> TAKE i \in 1 .. W
  <2> DEFINE x == (j - 1) * W
  <2>1. x \in Int /\ first = x + 1 /\ Place(j, i) = x + i
    BY <1>1 DEF Place
  <2> HIDE DEF x, first
  <2>2. i \in Nat
    BY <1>1
  <2> QED BY ONLY <2>1, <2>2
<1>5. last <= Len(b)
  OBVIOUS
<1> HIDE DEF first, last
<1>6. SubSeq(b, first, last) = [i \in 1 .. W |-> b[first + i - 1]]
  <2>1. SubSeq(b, first, last) = [i \in 1 .. last - first + 1 |-> b[first + i - 1]]
    BY <1>1, <1>2, <1>5
  <2>2. last - first + 1 = W
    BY <1>1, <1>2
  <2> QED BY ONLY <2>1, <2>2
<1>7. [i \in 1 .. W |-> b[first + i - 1]] = [i \in 1 .. W |-> b[Place(j, i)]]
  BY <1>4
<1> QED BY ONLY <1>3, <1>6, <1>7 DEF W

\* Reading what was written.
LEMMA WordRead ==
  ASSUME NEW b \in Seq(Nat), NEW j \in Nat, j > 0, j * WordBytes <= Len(b), NEW x \in WordSet,
         \A i \in 1 .. WordBytes : b[Place(j, i)] = ByteOf(x, i)
  PROVE  BigEndian(WordBytesOf(b, j)) = x
<1> DEFINE s == WordBytesOf(b, j)
           w == WordBytes
<1>1. s = [i \in 1 .. WordBytes |-> ByteOf(x, i)]
  BY BytesOfWord
<1>2. s = [i \in 1 .. w |-> (x \div 2 ^ (ByteBits * (w - i))) % 2 ^ ByteBits]
  BY <1>1 DEF ByteOf
<1>3. w \in 0 .. WordBytes /\ x \in Nat /\ x < Radix
  BY Sizes, SizesAssumption, ByteAssumption DEF WordSet
<1> HIDE DEF s, w
<1>4. BigEndian(s) = x % 2 ^ (ByteBits * w)
  BY ONLY <1>2, <1>3, DigitsRead
<1>5. 2 ^ (ByteBits * w) = Radix
  BY DEF Radix, WordBits, w
<1>6. x % Radix = x
  BY <1>3, Sizes
<1> QED BY <1>4, <1>5, <1>6 DEF s

Writes(b, g) ==
  \A j \in 1 .. BlockWords : \A i \in 1 .. WordBytes : b[Place(j, i)] = ByteOf(g[j], i)

LEMMA BlockRead ==
  ASSUME NEW b \in Seq(Nat), Len(b) = BlockLength,
         NEW g \in Seq(WordSet), Len(g) = BlockWords, Writes(b, g)
  PROVE  WordsBE(b) = g
<1>1. ASSUME NEW j \in 1 .. BlockWords PROVE BigEndian(WordBytesOf(b, j)) = g[j]
  <2>1. j \in Nat /\ j > 0 /\ g[j] \in WordSet
    BY SizesAssumption, ByteAssumption
  <2>2. j * WordBytes <= Len(b)
    <3>1. PICK d \in Nat : BlockWords = j + d
      <4>1. BlockWords - j \in Nat /\ BlockWords = j + (BlockWords - j)
        BY SizesAssumption, ByteAssumption
      <4> QED BY <4>1
    <3>2. WordBytes * (j + d) = j * WordBytes + d * WordBytes /\ d * WordBytes \in Nat /\ j * WordBytes \in Nat
      BY <2>1, SizesAssumption, ByteAssumption
    <3>3. BlockLength = WordBytes * (j + d)
      BY <3>1 DEF BlockLength
    <3> QED BY <3>2, <3>3
  <2>3. \A i \in 1 .. WordBytes : b[Place(j, i)] = ByteOf(g[j], i)
    BY DEF Writes
  <2> QED BY <2>1, <2>2, <2>3, WordRead
<1>2. g = [j \in 1 .. BlockWords |-> g[j]]
  OBVIOUS
<1> QED BY <1>1, <1>2 DEF WordsBE

LEMMA ZeroBytes == \A i \in 1 .. WordBytes : ByteOf(0, i) = 0
<1> TAKE i \in 1 .. WordBytes
<1> DEFINE p == 2 ^ (ByteBits * (WordBytes - i))
           b == 2 ^ ByteBits
<1>1. p \in Nat \ {0}
  <2>1. /\ WordBytes - i \in 0 .. 2 * WordBytes /\ 0 \in 0 .. 2 * WordBytes
        /\ (WordBytes - i) + 0 <= 2 * WordBytes
    BY SizesAssumption, ByteAssumption
  <2> QED BY <2>1, BytePowers
<1>2. b \in Nat \ {0}
  BY Sizes
<1> HIDE DEF p, b
<1>3. 0 \div p = 0
  BY <1>1
<1>4. 0 % b = 0
  BY <1>2
<1> QED BY <1>3, <1>4 DEF ByteOf, p, b

\* The word that begins with the mark.
MarkWord == Mark * 2 ^ (ByteBits * (WordBytes - 1))

LEMMA MarkBytes ==
  /\ MarkWord \in WordSet /\ Mark \in 0 .. 2 ^ ByteBits - 1
  /\ \A i \in 1 .. WordBytes : ByteOf(MarkWord, i) = IF i = 1 THEN Mark ELSE 0
<1> DEFINE b == 2 ^ ByteBits
           W == WordBytes
           P(k) == 2 ^ (ByteBits * k)
<1>1. W \in Nat /\ W > 0 /\ ByteBits \in Nat /\ ByteBits > 0
  BY SizesAssumption, ByteAssumption
<1>2. b \in Nat /\ Mark \in Nat /\ b = 2 * Mark /\ Mark > 0
  <2> DEFINE k == ByteBits - 1
  <2>1. k \in Nat /\ 1 \in Nat /\ k + 1 <= WordBits /\ k + 1 = ByteBits
    BY <1>1, Sizes
  <2> HIDE DEF k
  <2>2. 2 ^ k \in Nat \ {0} /\ 2 ^ (k + 1) = 2 ^ k * 2 ^ 1
    BY ONLY <2>1, WordPowers
  <2>3. 2 ^ 1 = 2
    OBVIOUS
  <2>4. Mark = 2 ^ k
    BY DEF Mark, k
  <2>5. b = Mark * 2
    BY ONLY <2>1, <2>2, <2>3, <2>4
  <2> HIDE DEF b
  <2> QED BY ONLY <2>2, <2>4, <2>5
<1> HIDE DEF b
<1>3. \A i, j \in 0 .. 2 * W : i + j <= 2 * W => P(i + j) = P(i) * P(j) /\ P(i) \in Nat \ {0}
  BY BytePowers
<1>4. P(1) = b /\ P(0) = 1 /\ P(W) = Radix
  <2>1. ByteBits * 1 = ByteBits /\ ByteBits * 0 = 0
    BY <1>1
  <2>2. 2 ^ 0 = 1
    OBVIOUS
  <2> QED BY ONLY <2>1, <2>2 DEF P, b, W, Radix, WordBits
<1> HIDE DEF P
<1> DEFINE h == P(W - 1)
<1>5. h \in Nat \ {0} /\ Radix = b * h
  <2>1. 1 \in 0 .. 2 * W /\ W - 1 \in 0 .. 2 * W /\ 1 + (W - 1) <= 2 * W /\ 1 + (W - 1) = W
    BY <1>1
  <2>2. P(1 + (W - 1)) = P(1) * P(W - 1)
    BY ONLY <1>3, <2>1
  <2>3. P(W - 1) \in Nat \ {0}
    <3>1. (W - 1) + 1 <= 2 * W
      BY <1>1
    <3> QED BY ONLY <1>3, <2>1, <3>1
  <2> QED BY ONLY <1>4, <2>1, <2>2, <2>3
<1>6. MarkWord = Mark * h
  BY DEF MarkWord, P
<1> HIDE DEF h
<1>7. MarkWord \in WordSet /\ MarkWord \in Nat
  <2>1. Mark * h \in Nat /\ Mark * h > 0 /\ (2 * Mark) * h = Mark * h + Mark * h
    BY <1>2, <1>5
  <2>2. Radix = Mark * h + Mark * h
    BY ONLY <1>2, <1>5, <2>1
  <2> QED BY <1>6, <2>1, <2>2 DEF WordSet
<1>8. Mark \in 0 .. 2 ^ ByteBits - 1
  BY <1>2 DEF b
<1>9. ASSUME NEW i \in 1 .. W PROVE ByteOf(MarkWord, i) = IF i = 1 THEN Mark ELSE 0
  <2> DEFINE p == P(W - i)
  <2>1. ByteOf(MarkWord, i) = (MarkWord \div p) % b
    BY DEF ByteOf, P, b
  <2>2. i \in Nat /\ i >= 1 /\ i <= W
    BY <1>1
  <2>3. p \in Nat \ {0} /\ P(i - 1) \in Nat \ {0} /\ h = P(i - 1) * p
    <3>1. i - 1 \in 0 .. 2 * W /\ W - i \in 0 .. 2 * W /\ (i - 1) + (W - i) <= 2 * W /\ (W - i) + 0 <= 2 * W /\ 0 \in 0 .. 2 * W
          /\ (i - 1) + (W - i) = W - 1
      BY <1>1, <2>2
    <3>2. P((i - 1) + (W - i)) = P(i - 1) * P(W - i) /\ P(i - 1) \in Nat \ {0}
      BY ONLY <1>3, <3>1
    <3>3. P(W - i) \in Nat \ {0}
      BY ONLY <1>3, <3>1
    <3> QED BY ONLY <3>1, <3>2, <3>3 DEF h, p
  <2> DEFINE u == P(i - 1)
             v == Mark * u
  <2> HIDE DEF p
  <2>4. v \in Nat /\ MarkWord = v * p
    <3> HIDE DEF u
    <3>1. u \in Nat /\ h = u * p
      BY <2>3 DEF u
    <3>2. Mark * (u * p) = (Mark * u) * p /\ Mark * u \in Nat
      BY <1>2, <2>3, <3>1
    <3> QED BY ONLY <1>6, <3>1, <3>2
  <2>5. MarkWord \div p = v
    <3> HIDE DEF v
    <3>1. v * p + 0 = MarkWord /\ v \in Int /\ 0 \in 0 .. p - 1 /\ p \in Nat /\ p > 0
      BY <1>7, <2>3, <2>4
    <3>2. (v * p + 0) \div p = v
      BY ONLY <3>1, QuotientIs
    <3> QED BY ONLY <3>1, <3>2
  <2>6. CASE i = 1
    <3>1. u = 1
      BY <1>4, <2>6
    <3> HIDE DEF u
    <3>2. v = Mark
      BY <1>2, <3>1
    <3>3. Mark % b = Mark
      BY <1>2
    <3> QED BY <2>1, <2>5, <2>6, <3>2, <3>3
  <2>7. CASE i # 1
    <3>1. 1 \in 0 .. 2 * W /\ i - 2 \in 0 .. 2 * W /\ (i - 2) + 1 <= 2 * W /\ (i - 2) + 1 = i - 1
      BY <1>1, <2>2, <2>7
    <3>2. P((i - 2) + 1) = P(i - 2) * P(1) /\ P(i - 2) \in Nat \ {0}
      BY ONLY <1>3, <3>1
    <3> DEFINE y == P(i - 2)
    <3>3. y \in Nat /\ u = y * b
      BY ONLY <1>4, <3>1, <3>2
    <3> HIDE DEF u, y
    <3> DEFINE z == Mark * y
    <3>4. v = z * b /\ z \in Nat
      BY <1>2, <3>3
    <3> HIDE DEF z, v
    <3>5. z * b + 0 = v /\ z \in Int /\ 0 \in 0 .. b - 1 /\ b \in Nat /\ b > 0
      BY <1>2, <2>4, <3>4
    <3>6. (z * b + 0) % b = 0
      BY ONLY <3>5, QuotientIs
    <3>7. v % b = 0
      BY ONLY <3>5, <3>6
    <3> QED BY <2>1, <2>5, <2>7, <3>7
  <2> QED BY <2>6, <2>7
<1> QED BY <1>7, <1>8, <1>9

-----------------------------------------------------------------------------
(* What SHA-512 transforms of a message.                                    *)

PaddedBytes(s) ==
  s \o <<Mark>> \o Zeros(Fill(Len(s), 1 + 2 * WordBytes)) \o LengthBE(Len(s))
FinalOf(s) == BlocksOf("sha512", PaddedBytes(s))

PadsMessage(s, D, n, zeros, more) ==
  /\ Ends(n, n \div BlockLength, n % BlockLength, zeros, more)
  /\ (n \div BlockLength) + more \in Nat
  /\ PaddedBytes(s) \in Seq(Nat)
  /\ Len(PaddedBytes(s)) = ((n \div BlockLength) + more) * BlockLength
  /\ StreamOf(PaddedBytes(s)) \in Streams
  /\ PaddedBy(StreamOf(PaddedBytes(s)), D, n, Mark, zeros, LengthBE(n))
  /\ FinalOf(s) = BigChain(StreamOf(PaddedBytes(s)), (n \div BlockLength) + more)

LEMMA PadsIt ==
  ASSUME NEW s \in Seq(Nat), NEW n \in Nat, Len(s) = n, NEW D \in Streams, NextOf(s, D, 0)
  PROVE  \E more : PadsMessage(s, D, n, Fill(n, 1 + 2 * WordBytes), more)
<1> DEFINE zeros == Fill(n, 1 + 2 * WordBytes)
           old == n \div BlockLength
           used == n % BlockLength
           tail == LengthBE(n)
           padded == PaddedBytes(s)
<1>1. tail \in Seq(Nat) /\ Len(tail) = 2 * WordBytes
  BY LengthWords
<1>2. PICK more : Ends(n, old, used, zeros, more)
  BY EndsSo
<1>3. IsPadded(padded, s, Mark, zeros, tail)
  BY DEF PaddedBytes, IsPadded
<1> HIDE DEF zeros, old, used, tail, padded
<1>4. zeros \in Nat /\ old + more \in Nat
      /\ n + 1 + zeros + 2 * WordBytes = (old + more) * BlockLength
  <2>1. old \in Nat /\ more \in {1, 2} /\ zeros \in Nat
    BY <1>2 DEF Ends
  <2>2. old + more \in Nat
    BY <2>1
  <2> QED BY <1>2, <2>1, <2>2 DEF Ends
<1>5. Mark \in Nat
  BY Sizes
<1>6. /\ padded \in Seq(Nat) /\ Len(padded) = n + 1 + zeros + Len(tail)
      /\ PaddedBy(StreamOf(padded), D, n, Mark, zeros, tail)
  <2>1. zeros \in Nat /\ tail \in Seq(Nat)
    BY ONLY <1>1, <1>4
  <2> QED BY ONLY s \in Seq(Nat), n \in Nat, Len(s) = n, NextOf(s, D, 0), <1>3, <1>5, <2>1, PaddedIs
<1>7. StreamOf(padded) \in Streams
  BY <1>6, StreamIs
<1> DEFINE m == old + more
<1>8. Len(padded) = m * BlockLength /\ m \in Nat
  BY <1>1, <1>4, <1>6
<1> HIDE DEF m
<1>9. BlocksOf("sha512", padded) = ChainOf(Big("sha512"), StreamOf(padded), m)
  BY ONLY <1>6, <1>8, BlocksAre
<1>10. ChainOf(Big("sha512"), StreamOf(padded), m) = ChainOf(TRUE, StreamOf(padded), m)
  BY DEF Big, ChainOf, Words
<1>11. FinalOf(s) = BigChain(StreamOf(padded), m)
  BY <1>9, <1>10 DEF FinalOf, BigChain, padded
<1>12. PadsMessage(s, D, n, zeros, more)
  BY <1>2, <1>6, <1>7, <1>8, <1>11 DEF PadsMessage, m, old, used, tail, padded
<1> QED BY <1>12 DEF zeros

\* Final of a context that has taken the message.
LEMMA FinalIs ==
  ASSUME BlocksFit, NEW s \in Seq(Nat), NEW n \in Nat, Len(s) = n,
         NEW D \in Streams, NextOf(s, D, 0), NEW c, Absorbing("sha512", c, D, n)
  PROVE  Sha512Final(c) = FinalOf(s)
<1> DEFINE zeros == Fill(n, 1 + 2 * WordBytes)
           old == n \div BlockLength
           used == n % BlockLength
           high == c.count[2]
           low == c.count[1]
           E == StreamOf(PaddedBytes(s))
<1>1. BigHolds(c, D, n) /\ c.count = TwoWords(ByteBits * n)
  BY CountsAre DEF Absorbing, Big
<1>2. Sha512Used(c) = used
  BY <1>1, Sha512UsedIs
<1>3. high = Bits(n) \div Radix /\ low = Bits(n) % Radix
  <2>1. c.count = <<Bits(n) % Radix, Bits(n) \div Radix>>
    BY <1>1, BitsIs
  <2> QED BY <2>1
<1>4. PICK more : PadsMessage(s, D, n, zeros, more)
  BY PadsIt
<1>5. /\ E \in Streams /\ Ends(n, old, used, zeros, more)
      /\ PaddedBy(E, D, n, Mark, zeros, LengthBE(n)) /\ FinalOf(s) = BigChain(E, old + more)
  BY <1>4 DEF PadsMessage
<1>6. Sha512Final(c) = Sha2Last(c, used, high, low)
  BY <1>2 DEF Sha512Final
<1> HIDE DEF old, used, high, low, E, zeros
<1>7. Sha2Last(c, used, high, low) = BigChain(E, old + more)
  BY ONLY n \in Nat, D \in Streams, <1>1, <1>3, <1>5, Sha2Ends
<1> QED BY <1>5, <1>6, <1>7

LEMMA AbsorbingSame ==
  ASSUME NEW D \in Streams, NEW E \in Streams, NEW n \in Nat, \A i \in 1 .. n : E[i] = D[i],
         NEW c, Absorbing("sha512", c, D, n)
  PROVE  Absorbing("sha512", c, E, n)
<1>1. BigHolds(c, D, n) /\ IsContext(c) /\ c.count = CountOf("sha512", n)
  BY DEF Absorbing, Big
<1>2. Hashed(c.chain, c.buffer, TRUE, D, n)
  BY <1>1 DEF BigHolds
<1> DEFINE chain == c.chain
           buffer == c.buffer
           big == TRUE
<1>3. Hashed(chain, buffer, big, D, n) /\ big \in BOOLEAN
  BY <1>2
<1> HIDE DEF chain, buffer, big
<1>4. Hashed(chain, buffer, big, E, n)
  BY <1>3, HashedSame
<1>5. BigHolds(c, E, n)
  BY <1>4 DEF BigHolds, chain, buffer, big
<1> QED BY <1>1, <1>5 DEF Absorbing, Big

\* The first context, and the one that begins behind a block, have taken nothing, and that.
LEMMA BeginsEmpty ==
  ASSUME NEW D \in Streams
  PROVE  Absorbing("sha512", Sha512Init, D, 0)
<1> DEFINE c == Sha512Init
<1>1. c.chain = <<>> /\ c.buffer = EmptyBuffer /\ c.count = <<0, 0>> /\ IsContext(c)
  BY DEF Sha512Init, IsContext
<1> HIDE DEF c
<1>2. /\ BlockLength \in Nat /\ BlockLength > 0 /\ Radix \in Nat /\ Radix > 0 /\ ByteBits \in Nat
  BY BlockSize, Sizes, SizesAssumption, ByteAssumption
<1>3. \A b \in Nat : b > 0 => 0 % b = 0 /\ 0 \div b = 0
  <2> TAKE b \in Nat
  <2> HAVE b > 0
  <2>1. 0 \in Int /\ 0 \in 0 .. b - 1 /\ 0 * b + 0 = 0
    OBVIOUS
  <2>2. (0 * b + 0) \div b = 0 /\ (0 * b + 0) % b = 0
    BY ONLY b \in Nat, <2>1, QuotientIs
  <2> QED BY <2>1, <2>2
<1>4. CountOf("sha512", 0) = c.count
  <2>1. ByteBits * 0 = 0
    BY <1>2
  <2>2. TwoWords(0) = <<0, 0>>
    BY <1>2, <1>3 DEF TwoWords
  <2> QED BY <1>1, <2>1, <2>2, CountsAre
<1>5. 0 % BlockLength = 0 /\ 0 \div BlockLength = 0
  BY <1>2, <1>3
<1>6. BufferOf(EmptyBuffer, D, 0)
  BY <1>5 DEF BufferOf, EmptyBuffer
<1>7. ChainOf(TRUE, D, 0) = <<>>
  BY DEF ChainOf
<1>8. BigHolds(c, D, 0)
  BY <1>1, <1>5, <1>6, <1>7 DEF BigHolds, Hashed
<1> QED BY <1>1, <1>4, <1>8 DEF Absorbing, Big, c

LEMMA Stretches ==
  /\ BlocksFit
  /\ HashWords \in Nat /\ HashWords + 3 <= BlockWords
  /\ HashLength \in Nat /\ HashLength = HashWords * WordBytes
  /\ (BlockLength + HashLength) * ByteBits < Radix
  /\ ByteBits * BlockLength \in 0 .. Radix - 1
  /\ ByteBits * (BlockLength + HashLength) \in 0 .. Radix - 1
<1>1. WordBytes \in Nat /\ BlockWords \in Nat /\ ByteBits \in Nat /\ BlockLength \in Nat /\ Radix \in Nat
  BY SizesAssumption, ByteAssumption, Sizes
<1>2. HashWords \in Nat
  BY <1>1 DEF HashWords
<1> DEFINE h == HashWords
           w == WordBytes
<1>3. h \in Nat /\ w \in Nat
  BY <1>1, <1>2
<1> HIDE DEF h, w
<1>4. h * w \in Nat
  BY <1>3
<1>5. HashLength \in Nat /\ HashLength = HashWords * WordBytes
  BY <1>4 DEF HashLength, h, w
<1>6. /\ BlocksFit /\ HashWords + 3 <= BlockWords
      /\ (BlockLength + HashLength) * ByteBits < Radix
  BY <1>1, <1>2, StretchAssumption DEF BlocksFit
<1> DEFINE L == BlockLength
           H == HashLength
           B == ByteBits
<1>7. L \in Nat /\ H \in Nat /\ B \in Nat /\ (L + H) * B < Radix
  BY <1>1, <1>5, <1>6
<1> HIDE DEF L, H, B
<1>8. /\ (L + H) * B = B * L + B * H /\ B * L \in Nat /\ B * H \in Nat
      /\ B * (L + H) = (L + H) * B /\ B * (L + H) \in Nat
  BY <1>7
<1>9. B * L \in 0 .. Radix - 1 /\ B * (L + H) \in 0 .. Radix - 1
  BY <1>1, <1>7, <1>8
<1> QED BY <1>2, <1>5, <1>6, <1>9 DEF L, H, B

\* A number of bits that is in the low word.
LEMMA FewBits ==
  ASSUME NEW n \in Nat, ByteBits * n \in 0 .. Radix - 1
  PROVE  /\ Bits(n) = ByteBits * n /\ Bits(n) % Radix = ByteBits * n /\ Bits(n) \div Radix = 0
         /\ TwoWords(ByteBits * n) = <<ByteBits * n, 0>>
<1> DEFINE x == ByteBits * n
           R == Radix
<1>1. R \in Nat /\ R > 0 /\ x \in 0 .. R - 1
  BY Sizes
<1>2. Bits(n) = x % (R * R) /\ TwoWords(x) = <<Bits(n) % R, Bits(n) \div R>>
  BY BitsIs
<1> HIDE DEF x, R
<1>3. 0 * R + x = x /\ 0 \in Int
  BY <1>1
<1>4. (0 * R + x) \div R = 0 /\ (0 * R + x) % R = x
  BY ONLY <1>1, <1>3, QuotientIs
<1> DEFINE Q == R * R
<1>5. Q \in Nat /\ Q >= R
  <2>1. PICK d \in Nat : R = d + 1
    <3>1. R - 1 \in Nat /\ R = (R - 1) + 1
      BY <1>1
    <3> QED BY <3>1
  <2>2. R * R = d * R + R /\ d * R \in Nat
    BY <1>1, <2>1
  <2> QED BY <1>1, <2>2
<1> HIDE DEF Q
<1>6. 0 * Q + x = x /\ x \in 0 .. Q - 1
  BY <1>1, <1>5
<1>7. (0 * Q + x) % Q = x
  BY ONLY <1>3, <1>5, <1>6, QuotientIs
<1>8. Bits(n) = x
  BY <1>2, <1>6, <1>7 DEF Q
<1>9. Bits(n) % R = x /\ Bits(n) \div R = 0
  BY ONLY <1>3, <1>4, <1>8
<1> QED BY <1>2, <1>8, <1>9 DEF x, R

LEMMA BeginsBehind ==
  ASSUME NEW key \in Seq(Nat), Len(key) = BlockLength, NEW D \in Streams, NextOf(key, D, 0),
         NEW chain, chain = <<WordsBE(key)>>, NEW stack \in [1 .. BlockLength -> Nat]
  PROVE  Absorbing("sha512", AfterKey("sha512", chain, stack), D, BlockLength)
<1> DEFINE c == AfterKey("sha512", chain, stack)
           L == BlockLength
<1>1. /\ c.chain = chain /\ c.buffer = stack /\ c.count = <<(L * ByteBits) % Radix, 0>>
      /\ IsContext(c)
  BY DEF AfterKey, IsContext
<1> HIDE DEF c
<1>2. L \in Nat /\ L > 0 /\ ByteBits \in Nat /\ Radix \in Nat /\ Radix > 0
  BY BlockSize, Sizes, SizesAssumption, ByteAssumption
<1>3. L * ByteBits = ByteBits * L
  BY <1>2
<1>4. TwoWords(ByteBits * L) = <<ByteBits * L, 0>> /\ ByteBits * L \in 0 .. Radix - 1
  <2>1. ByteBits * L \in 0 .. Radix - 1
    BY Stretches
  <2> HIDE DEF L
  <2> QED BY <1>2, <2>1, FewBits
<1>5. c.count = CountOf("sha512", L)
  <2> DEFINE x == ByteBits * L
  <2>1. x \in 0 .. Radix - 1
    BY <1>4
  <2> HIDE DEF x
  <2>2. x % Radix = x
    <3> DEFINE R == Radix
    <3>1. R \in Nat /\ x \in 0 .. R - 1
      BY <1>2, <2>1
    <3> HIDE DEF R
    <3>2. x % R = x
      BY ONLY <3>1
    <3> QED BY <3>2 DEF R
  <2>3. c.count = <<x % Radix, 0>> /\ CountOf("sha512", L) = <<x, 0>>
    BY <1>1, <1>3, <1>4, CountsAre DEF x
  <2> QED BY ONLY <2>2, <2>3
<1>6. L % L = 0 /\ L \div L = 1
  <2> HIDE DEF L
  <2>1. 1 * L + 0 = L /\ 1 \in Int /\ 0 \in 0 .. L - 1
    BY <1>2
  <2>2. (1 * L + 0) \div L = 1 /\ (1 * L + 0) % L = 0
    BY ONLY <1>2, <2>1, QuotientIs
  <2> QED BY ONLY <2>1, <2>2
<1>7. BufferOf(stack, D, L)
  BY <1>6 DEF BufferOf
<1>8. BlockAt(D, 1) = key
  <2>1. ASSUME NEW i \in 1 .. L PROVE D[(1 - 1) * L + i] = key[i]
    <3>1. (1 - 1) * L + i = i /\ 0 + i = i
      BY <1>2
    <3> QED BY <3>1 DEF NextOf
  <2>2. key = [i \in 1 .. L |-> key[i]]
    OBVIOUS
  <2> QED BY <2>1, <2>2 DEF BlockAt
<1>9. ChainOf(TRUE, D, 1) = chain
  <2>1. ChainOf(TRUE, D, 1) = [k \in 1 .. 1 |-> WordsBE(key)]
    BY <1>8 DEF ChainOf, Words
  <2> DEFINE x == WordsBE(key)
  <2> HIDE DEF x
  <2>2. [k \in 1 .. 1 |-> x] = <<x>>
    OBVIOUS
  <2> QED BY ONLY <2>1, <2>2, chain = <<WordsBE(key)>> DEF x
<1>10. BigHolds(c, D, L)
  BY <1>1, <1>6, <1>7, <1>9 DEF BigHolds, Hashed
<1> QED BY <1>1, <1>5, <1>10 DEF Absorbing, Big, c

LEMMA UpdateStep ==
  ASSUME NEW D \in Streams, NEW n \in Nat, NEW c, Absorbing("sha512", c, D, n),
         NEW data, NextOf(data, D, n), NEW len \in Nat, Len(data) = len
  PROVE  Absorbing("sha512", HashUpdate("sha512", c, data), D, n + len)
<1>1. CASE len = 0
  <2>1. HashUpdate("sha512", c, data) = c /\ n + len = n
    BY <1>1 DEF HashUpdate
  <2> QED BY ONLY <2>1, Absorbing("sha512", c, D, n)
<1>2. CASE len # 0
  <2>1. HashUpdate("sha512", c, data) = Sha512Update(c, data)
    BY <1>2 DEF HashUpdate
  <2>2. BlocksFit
    BY Stretches
  <2>3. Absorbing("sha512", Sha512Update(c, data), D, n + len)
    BY <2>2, Sha512Step
  <2> QED BY ONLY <2>1, <2>3
<1> QED BY <1>1, <1>2

LEMMA RawIs ==
  ASSUME NEW s \in Seq(Nat)
  PROVE  HashRaw("sha512", s) = Digest(FinalOf(s))
<1> DEFINE D == StreamOf(s)
           n == Len(s)
           c == HashUpdate("sha512", Sha512Init, s)
<1>1. D \in Streams /\ NextOf(s, D, 0) /\ n \in Nat /\ Len(s) = n /\ BlocksFit
  BY StreamIs, Stretches
<1> HIDE DEF D, n
<1>2. Absorbing("sha512", c, D, 0 + n)
  BY <1>1, BeginsEmpty, UpdateStep
<1>3. 0 + n = n
  BY <1>1
<1>4. Absorbing("sha512", c, D, n)
  BY ONLY <1>2, <1>3
<1> HIDE DEF c
<1>5. Sha512Final(c) = FinalOf(s)
  BY ONLY s \in Seq(Nat), <1>1, <1>4, FinalIs
<1> QED BY <1>5 DEF HashRaw, HashFinal, LastChain, HashInit, c

LEMMA Joined ==
  ASSUME NEW a \in Seq(Nat), NEW b \in Seq(Nat)
  PROVE  /\ a \o b \in Seq(Nat) /\ Len(a \o b) = Len(a) + Len(b)
         /\ \A i \in 1 .. Len(a) : (a \o b)[i] = a[i]
         /\ \A i \in 1 .. Len(b) : (a \o b)[Len(a) + i] = b[i]
<1> DEFINE c == a \o b
           m == Len(a)
           n == Len(b)
<1>1. m \in Nat /\ n \in Nat
  OBVIOUS
<1>2. /\ c \in Seq(Nat) /\ Len(c) = m + n
      /\ \A i \in 1 .. m + n : c[i] = IF i <= m THEN a[i] ELSE b[i - m]
  BY ConcatProperties
<1> HIDE DEF c, m, n
<1>3. \A i \in 1 .. m : c[i] = a[i]
  <2> TAKE i \in 1 .. m
  <2>1. i \in 1 .. m + n /\ i <= m
    BY <1>1
  <2> QED BY <1>2, <2>1
<1>4. \A i \in 1 .. n : c[m + i] = b[i]
  <2> TAKE i \in 1 .. n
  <2>1. m + i \in 1 .. m + n /\ ~(m + i <= m) /\ (m + i) - m = i
    BY <1>1
  <2>2. c[m + i] = b[(m + i) - m]
    BY <1>2, <2>1
  <2> QED BY ONLY <2>1, <2>2
<1> QED BY ONLY <1>2, <1>3, <1>4 DEF c, m, n

\* What the short cut of the first block computes.
SaltFits(key, chain, stack, salt, number) ==
  /\ key \in Seq(Nat) /\ Len(key) = BlockLength /\ chain = <<WordsBE(key)>>
  /\ stack \in [1 .. BlockLength -> Nat] /\ salt \in Seq(Nat) /\ number \in Seq(Nat)
SaltedChain(chain, stack, salt, number) ==
  LastChain("sha512", HashUpdate("sha512",
      HashUpdate("sha512", AfterKey("sha512", chain, stack), salt), number))

LEMMA SaltedIs ==
  ASSUME NEW key, NEW chain, NEW stack, NEW salt, NEW number,
         SaltFits(key, chain, stack, salt, number)
  PROVE  SaltedChain(chain, stack, salt, number) = FinalOf(key \o (salt \o number))
<1> SUFFICES ASSUME key \in Seq(Nat), Len(key) = BlockLength,
                    chain = <<WordsBE(key)>>, stack \in [1 .. BlockLength -> Nat],
                    salt \in Seq(Nat), number \in Seq(Nat)
             PROVE  SaltedChain(chain, stack, salt, number) = FinalOf(key \o (salt \o number))
  BY DEF SaltFits
<1> DEFINE s == key \o (salt \o number)
           D == StreamOf(s)
           L == BlockLength
           m == Len(salt)
           n == Len(number)
           c == AfterKey("sha512", chain, stack)
           d == HashUpdate("sha512", c, salt)
           e == HashUpdate("sha512", d, number)
<1>1. L \in Nat /\ m \in Nat /\ n \in Nat /\ Len(key) = L
  BY BlockSize
<1>2. /\ s \in Seq(Nat) /\ Len(s) = L + m + n
      /\ \A i \in 1 .. L : s[i] = key[i]
      /\ \A i \in 1 .. m : s[L + i] = salt[i]
      /\ \A i \in 1 .. n : s[L + m + i] = number[i]
  <2> DEFINE u == salt \o number
  <2>1. /\ u \in Seq(Nat) /\ Len(u) = m + n
        /\ \A i \in 1 .. m : u[i] = salt[i]
        /\ \A i \in 1 .. n : u[m + i] = number[i]
    BY Joined
  <2> HIDE DEF u
  <2>2. /\ key \o u \in Seq(Nat) /\ Len(key \o u) = L + (m + n)
        /\ \A i \in 1 .. L : (key \o u)[i] = key[i]
        /\ \A i \in 1 .. m + n : (key \o u)[L + i] = u[i]
    <3>1. /\ key \o u \in Seq(Nat) /\ Len(key \o u) = Len(key) + Len(u)
          /\ \A i \in 1 .. Len(key) : (key \o u)[i] = key[i]
          /\ \A i \in 1 .. Len(u) : (key \o u)[Len(key) + i] = u[i]
      BY <2>1, Joined
    <3>2. Len(key) = L /\ Len(u) = m + n
      BY <1>1, <2>1
    <3> QED BY ONLY <3>1, <3>2
  <2>3. \A i \in 1 .. m : i \in 1 .. m + n
    BY <1>1
  <2>4. \A i \in 1 .. n : m + i \in 1 .. m + n /\ L + (m + i) = L + m + i
    BY <1>1
  <2> DEFINE v == key \o u
  <2>5. v \in Seq(Nat) /\ Len(v) = L + m + n
    BY <1>1, <2>2
  <2>6. /\ \A i \in 1 .. m : v[L + i] = salt[i]
        /\ \A i \in 1 .. n : v[L + m + i] = number[i]
    BY <2>1, <2>2, <2>3, <2>4
  <2>7. \A i \in 1 .. L : v[i] = key[i]
    BY <2>2
  <2> QED BY ONLY <2>5, <2>6, <2>7 DEF s, u, v
<1> HIDE DEF s
<1>3. D \in Streams /\ NextOf(s, D, 0) /\ BlocksFit
  BY <1>2, StreamIs, Stretches
<1>4. NextOf(key, D, 0) /\ NextOf(salt, D, L) /\ NextOf(number, D, L + m)
  <2>1. \A i \in 1 .. L + m + n : D[i] = s[i]
    BY <1>2, StreamIs
  <2> HIDE DEF D
  <2>2. \A i \in 1 .. L : D[0 + i] = key[i]
    BY <1>1, <1>2, <2>1
  <2>3. \A i \in 1 .. m : D[L + i] = salt[i]
    <3> TAKE i \in 1 .. m
    <3>1. L + i \in 1 .. L + m + n
      BY <1>1
    <3> QED BY <1>2, <2>1, <3>1
  <2>4. \A i \in 1 .. n : D[L + m + i] = number[i]
    <3> TAKE i \in 1 .. n
    <3>1. L + m + i \in 1 .. L + m + n
      BY <1>1
    <3> QED BY <1>2, <2>1, <3>1
  <2> QED BY <1>1, <2>2, <2>3, <2>4 DEF NextOf
<1> HIDE DEF D, L, m, n
<1>5. Absorbing("sha512", c, D, L)
  BY <1>1, <1>3, <1>4, BeginsBehind DEF L
<1> HIDE DEF c
<1>6. Absorbing("sha512", d, D, L + m)
  <2>1. Len(salt) = m
    BY DEF m
  <2> QED BY ONLY <1>1, <1>3, <1>4, <1>5, <2>1, UpdateStep DEF d
<1> HIDE DEF d
<1> DEFINE k == L + m
<1>7. k \in Nat /\ k + n \in Nat /\ Len(number) = n /\ k + n = L + m + n
  BY <1>1 DEF n
<1>8. Absorbing("sha512", d, D, k) /\ NextOf(number, D, k)
  BY <1>4, <1>6
<1> HIDE DEF k
<1>9. Absorbing("sha512", e, D, k + n)
  BY ONLY <1>1, <1>3, <1>7, <1>8, UpdateStep DEF e
<1> DEFINE t == k + n
<1>10. t \in Nat /\ Len(s) = t /\ Absorbing("sha512", e, D, t)
  BY <1>2, <1>7, <1>9
<1> HIDE DEF e, t
<1>11. Sha512Final(e) = FinalOf(s)
  BY ONLY <1>2, <1>3, <1>10, FinalIs
<1> QED BY ONLY <1>11 DEF SaltedChain, LastChain, s, e, d, c

-----------------------------------------------------------------------------
(* A block and a digest: what follows the digest in its block.              *)

LastWord == ((BlockLength + HashLength) * ByteBits) % Radix
BlockOf(d) ==
  d \o <<MarkWord>> \o [j \in 1 .. BlockWords - HashWords - 2 |-> 0] \o <<LastWord>>

LEMMA LastWordIs ==
  LastWord = ByteBits * (BlockLength + HashLength) /\ LastWord \in WordSet
<1> DEFINE x == (BlockLength + HashLength) * ByteBits
           R == Radix
<1>1. x \in Nat /\ x < R /\ R \in Nat /\ x = ByteBits * (BlockLength + HashLength)
  <2> DEFINE y == BlockLength + HashLength
  <2>1. y \in Nat /\ ByteBits \in Nat /\ R \in Nat /\ ByteBits * y \in 0 .. R - 1
    BY Stretches, SizesAssumption, ByteAssumption, Sizes
  <2> HIDE DEF y, R
  <2>2. y * ByteBits = ByteBits * y
    BY <2>1
  <2>3. x = ByteBits * y
    BY ONLY <2>2 DEF y
  <2> HIDE DEF x
  <2> QED BY <2>1, <2>3 DEF y
<1> HIDE DEF x, R
<1>2. x % R = x
  BY <1>1
<1>3. x \in 0 .. R - 1
  BY <1>1
<1>4. LastWord = x
  BY <1>2 DEF LastWord, x, R
<1> QED BY <1>1, <1>3, <1>4 DEF WordSet, R

LEMMA BlockOfIs ==
  ASSUME NEW d \in [1 .. HashWords -> WordSet]
  PROVE  /\ BlockOf(d) \in Seq(WordSet) /\ Len(BlockOf(d)) = BlockWords
         /\ \A j \in 1 .. HashWords : BlockOf(d)[j] = d[j]
         /\ BlockOf(d)[HashWords + 1] = MarkWord
         /\ \A j \in HashWords + 2 .. BlockWords - 1 : BlockOf(d)[j] = 0
         /\ BlockOf(d)[BlockWords] = LastWord
<1> DEFINE h == HashWords
           n == BlockWords
           z == [j \in 1 .. n - h - 2 |-> 0]
           S == WordSet
<1>1. h \in Nat /\ n \in Nat /\ h + 3 <= n
  BY Stretches, SizesAssumption, ByteAssumption
<1>2. MarkWord \in S /\ LastWord \in S /\ 0 \in S
  BY MarkBytes, LastWordIs, Sizes DEF WordSet
<1>3. d \in [1 .. h -> S] /\ BlockOf(d) = ((d \o <<MarkWord>>) \o z) \o <<LastWord>>
  BY DEF BlockOf
<1> HIDE DEF h, n, S
<1> DEFINE a == d \o <<MarkWord>>
           b == a \o z
           c == b \o <<LastWord>>
<1>4. d \in Seq(S) /\ Len(d) = h
  BY <1>1, <1>3
<1>5. z \in Seq(S) /\ Len(z) = n - h - 2 /\ \A j \in 1 .. n - h - 2 : z[j] = 0
  BY <1>1, <1>2
<1> HIDE DEF z
<1>6. <<MarkWord>> \in Seq(S) /\ Len(<<MarkWord>>) = 1 /\ <<MarkWord>>[1] = MarkWord
  BY <1>2
<1>7. <<LastWord>> \in Seq(S) /\ Len(<<LastWord>>) = 1 /\ <<LastWord>>[1] = LastWord
  BY <1>2
<1> DEFINE k == <<MarkWord>>
           l == <<LastWord>>
<1> HIDE DEF k, l
<1>8. /\ a \in Seq(S) /\ Len(a) = h + 1
      /\ \A j \in 1 .. h + 1 : a[j] = IF j <= h THEN d[j] ELSE k[j - h]
  <2>1. /\ d \o k \in Seq(S) /\ Len(d \o k) = Len(d) + Len(k)
        /\ \A i \in 1 .. Len(d) + Len(k) : (d \o k)[i] = IF i <= Len(d) THEN d[i] ELSE k[i - Len(d)]
    BY ONLY <1>4, <1>6, ConcatProperties DEF k
  <2> QED BY ONLY <1>4, <1>6, <2>1 DEF a, k
<1> HIDE DEF a
<1>9. /\ b \in Seq(S) /\ Len(b) = n - 1
      /\ \A j \in 1 .. n - 1 : b[j] = IF j <= h + 1 THEN a[j] ELSE z[j - (h + 1)]
  <2>1. /\ a \o z \in Seq(S) /\ Len(a \o z) = Len(a) + Len(z)
        /\ \A i \in 1 .. Len(a) + Len(z) : (a \o z)[i] = IF i <= Len(a) THEN a[i] ELSE z[i - Len(a)]
    BY ONLY <1>5, <1>8, ConcatProperties
  <2>2. (h + 1) + (n - h - 2) = n - 1
    BY <1>1
  <2> QED BY ONLY <1>5, <1>8, <2>1, <2>2
<1> HIDE DEF b
<1>10. /\ c \in Seq(S) /\ Len(c) = n
       /\ \A j \in 1 .. n : c[j] = IF j <= n - 1 THEN b[j] ELSE l[j - (n - 1)]
  <2>1. /\ b \o l \in Seq(S) /\ Len(b \o l) = Len(b) + Len(l)
        /\ \A i \in 1 .. Len(b) + Len(l) : (b \o l)[i] = IF i <= Len(b) THEN b[i] ELSE l[i - Len(b)]
    BY ONLY <1>7, <1>9, ConcatProperties DEF l
  <2>2. (n - 1) + 1 = n
    BY <1>1
  <2> QED BY ONLY <1>7, <1>9, <2>1, <2>2 DEF c, l
<1>11. BlockOf(d) = c
  BY <1>3 DEF c, b, a, k, l
<1> HIDE DEF c
<1>12. \A j \in 1 .. h : c[j] = d[j]
  <2> TAKE j \in 1 .. h
  <2>1. j \in 1 .. n /\ j <= n - 1 /\ j \in 1 .. n - 1 /\ j <= h + 1 /\ j \in 1 .. h + 1 /\ j <= h
    BY <1>1
  <2> QED BY <1>8, <1>9, <1>10, <2>1
<1>13. c[h + 1] = MarkWord
  <2> DEFINE j == h + 1
  <2>1. /\ j \in 1 .. n /\ j <= n - 1 /\ j \in 1 .. n - 1 /\ j <= h + 1 /\ j \in 1 .. h + 1
        /\ ~(j <= h) /\ j - h = 1
    BY <1>1
  <2> HIDE DEF j
  <2>2. c[j] = b[j] /\ b[j] = a[j] /\ a[j] = k[j - h]
    BY <1>8, <1>9, <1>10, <2>1
  <2>3. k[1] = MarkWord
    BY <1>6 DEF k
  <2> QED BY ONLY <2>1, <2>2, <2>3 DEF j
<1>14. \A j \in h + 2 .. n - 1 : c[j] = 0
  <2> TAKE j \in h + 2 .. n - 1
  <2>1. /\ j \in 1 .. n /\ j <= n - 1 /\ j \in 1 .. n - 1 /\ ~(j <= h + 1)
        /\ j - (h + 1) \in 1 .. n - h - 2
    BY <1>1
  <2>2. c[j] = b[j] /\ b[j] = z[j - (h + 1)]
    BY <1>9, <1>10, <2>1
  <2> QED BY <1>5, <2>1, <2>2
<1>15. c[n] = LastWord
  <2>1. n \in 1 .. n /\ ~(n <= n - 1) /\ n - (n - 1) = 1
    BY <1>1
  <2>2. c[n] = l[n - (n - 1)]
    BY <1>10, <2>1
  <2>3. l[1] = LastWord
    BY <1>7 DEF l
  <2> QED BY ONLY <2>1, <2>2, <2>3
<1> QED BY <1>10, <1>11, <1>12, <1>13, <1>14, <1>15 DEF h, n, S

\* The bytes of the length.
LEMMA LengthDigits ==
  ASSUME NEW n \in Nat, ByteBits * n \in 0 .. Radix - 1, NEW i \in 1 .. WordBytes
  PROVE  LengthBE(n)[i] = 0 /\ LengthBE(n)[WordBytes + i] = ByteOf(ByteBits * n, i)
<1> DEFINE W == WordBytes
           x == ByteBits * n
           b == 2 ^ ByteBits
           q == 2 ^ (ByteBits * (W - i))
<1>1. W \in Nat /\ W > 0
  BY SizesAssumption, ByteAssumption
<1>2. Bits(n) = x /\ x \in Nat /\ x < Radix
  <2>1. Bits(n) = x
    BY FewBits
  <2> DEFINE R == Radix
  <2>2. R \in Nat /\ x \in 0 .. R - 1
    BY Sizes
  <2> HIDE DEF x, R
  <2>3. x \in Nat /\ x < R
    BY <2>2
  <2> QED BY ONLY <2>1, <2>3 DEF R
<1>3. q \in Nat \ {0} /\ 2 ^ (ByteBits * (2 * W - i)) = Radix * q
  <2>1. /\ W \in 0 .. 2 * W /\ W - i \in 0 .. 2 * W /\ W + (W - i) <= 2 * W /\ W + (W - i) = 2 * W - i
        /\ 0 \in 0 .. 2 * W /\ (W - i) + 0 <= 2 * W
    BY <1>1
  <2>2. 2 ^ (ByteBits * (W + (W - i))) = 2 ^ (ByteBits * W) * 2 ^ (ByteBits * (W - i))
    BY ONLY <2>1, BytePowers DEF W
  <2>3. 2 ^ (ByteBits * (W - i)) \in Nat \ {0}
    BY ONLY <2>1, BytePowers DEF W
  <2> QED BY ONLY <2>1, <2>2, <2>3 DEF q, Radix, WordBits, W
<1>4. b \in Nat \ {0} /\ Radix \in Nat /\ Radix > 0
  BY Sizes
<1>5. LengthBE(n)[i] = (x \div (Radix * q)) % b
  <2>1. i \in 1 .. 2 * W
    BY <1>1
  <2>2. LengthBE(n)[i] = (Bits(n) \div 2 ^ (ByteBits * (2 * W - i))) % b
    BY <2>1 DEF LengthBE, Digit
  <2> QED BY ONLY <1>2, <1>3, <2>2
<1>6. LengthBE(n)[W + i] = ByteOf(x, i)
  <2>1. W + i \in 1 .. 2 * W /\ 2 * W - (W + i) = W - i
    BY <1>1
  <2>2. LengthBE(n)[W + i] = (Bits(n) \div 2 ^ (ByteBits * (2 * W - (W + i)))) % b
    BY <2>1 DEF LengthBE, Digit
  <2> QED BY ONLY <1>2, <2>1, <2>2 DEF ByteOf, b, W
<1>7. x \div (Radix * q) = 0
  <2> DEFINE R == Radix
  <2>1. x \in Nat /\ x \in 0 .. R - 1 /\ R \in Nat /\ R > 0 /\ q \in Nat /\ q > 0
    BY <1>2, <1>3, <1>4
  <2> HIDE DEF x, R, q
  <2>2. (x \div R) \div q = x \div (R * q)
    BY <2>1, QuotientTwice
  <2>3. 0 * R + x = x /\ 0 \in Int
    BY <2>1
  <2>4. (0 * R + x) \div R = 0
    BY ONLY <2>1, <2>3, QuotientIs
  <2>5. 0 \div q = 0
    BY <2>1
  <2> QED BY ONLY <2>2, <2>3, <2>4, <2>5 DEF R
<1>8. 0 % b = 0
  BY <1>4
<1> QED BY ONLY <1>5, <1>6, <1>7, <1>8 DEF x, W

\* The places of a block, by what is written there.
DigestAt(s, key, d) ==
  /\ s \in Seq(Nat) /\ Len(s) = BlockLength + HashLength
  /\ \A i \in 1 .. BlockLength : s[i] = key[i]
  /\ \A j \in 1 .. HashWords, i \in 1 .. WordBytes :
       /\ Place(j, i) \in 1 .. HashLength
       /\ s[BlockLength + Place(j, i)] = ByteOf(d[j], i)

LEMMA DigestPads ==
  ASSUME NEW key \in Seq(Nat), Len(key) = BlockLength, NEW d \in [1 .. HashWords -> WordSet],
         NEW s, s = key \o BytesBE(d)
  PROVE  DigestAt(s, key, d)
<1> DEFINE t == BytesBE(d)
<1>1. HashWords \in Nat /\ HashLength = HashWords * WordBytes
  BY Stretches
<1>2. d \in Seq(Nat) /\ Len(d) = HashWords
  BY <1>1, Sizes DEF WordSet
<1>3. /\ t \in Seq(Nat) /\ Len(t) = HashLength
      /\ \A j \in 1 .. HashWords, i \in 1 .. WordBytes :
           Place(j, i) \in 1 .. HashLength /\ t[Place(j, i)] = ByteOf(d[j], i)
  <2> DEFINE h == HashWords
             e == d
  <2>1. e \in Seq(Nat) /\ h \in Nat /\ Len(e) = h
    BY ONLY <1>1, <1>2
  <2> HIDE DEF h, e
  <2>2. /\ BytesBE(e) \in Seq(Nat) /\ Len(BytesBE(e)) = h * WordBytes
        /\ \A j \in 1 .. h, i \in 1 .. WordBytes :
             /\ Place(j, i) \in 1 .. h * WordBytes
             /\ BytesBE(e)[Place(j, i)] = ByteOf(e[j], i)
    BY ONLY <2>1, BytesAre
  <2> QED BY ONLY <1>1, <2>2 DEF h, e
<1> HIDE DEF t
<1>4. /\ key \o t \in Seq(Nat) /\ Len(key \o t) = Len(key) + Len(t)
      /\ \A i \in 1 .. Len(key) : (key \o t)[i] = key[i]
      /\ \A i \in 1 .. Len(t) : (key \o t)[Len(key) + i] = t[i]
  BY <1>3, Joined
<1>5. s = key \o t
  BY DEF t
<1>6. /\ s \in Seq(Nat) /\ Len(s) = BlockLength + HashLength
      /\ \A i \in 1 .. BlockLength : s[i] = key[i]
      /\ \A i \in 1 .. HashLength : s[BlockLength + i] = t[i]
  BY ONLY Len(key) = BlockLength, <1>3, <1>4, <1>5
<1> QED BY <1>3, <1>6 DEF DigestAt

LEMMA DigestEnds ==
  ASSUME NEW n, n = BlockLength + HashLength, NEW zeros,
         NEW more, Ends(n, n \div BlockLength, n % BlockLength, zeros, more)
  PROVE  /\ n \div BlockLength = 1 /\ more = 1
         /\ zeros = (BlockWords - 2) * WordBytes - HashLength - 1
         /\ n + 1 + zeros = BlockLength + (BlockWords - 2) * WordBytes
<1> DEFINE L == BlockLength
           H == HashLength
           S == ShortBlockLength
           W == WordBytes
<1>1. L \in Nat /\ L > 0 /\ S \in Nat /\ L = S + 2 * W /\ W \in Nat /\ W > 0 /\ S = (BlockWords - 2) * W
  BY BlockSize, Sizes, SizesAssumption, ByteAssumption
<1>2. H \in Nat /\ H + W <= S
  <2>1. PICK e \in Nat : BlockWords - 2 = HashWords + 1 + e
    <3>1. BlockWords - 2 - HashWords - 1 \in Nat /\ BlockWords - 2 = HashWords + 1 + (BlockWords - 2 - HashWords - 1)
      BY Stretches, SizesAssumption, ByteAssumption
    <3> QED BY <3>1
  <2>2. HashWords \in Nat /\ H = HashWords * W /\ H \in Nat
    BY Stretches
  <2> DEFINE k == HashWords
  <2>3. (k + 1 + e) * W = k * W + W + e * W /\ e * W \in Nat
    <3>1. k \in Nat
      BY <2>2
    <3> HIDE DEF k, W
    <3> QED BY <1>1, <3>1
  <2>4. S = k * W + W + e * W
    BY ONLY <1>1, <2>1, <2>3
  <2>5. H = k * W
    BY <2>2
  <2> HIDE DEF k, W, H, S
  <2> DEFINE x == k * W
             y == e * W
  <2>6. x = H /\ y \in Nat /\ S = x + W + y
    BY ONLY <2>3, <2>4, <2>5
  <2> HIDE DEF x, y
  <2> QED BY <1>1, <2>2, <2>6
<1>3. n = L + H
  OBVIOUS
<1>4. Ends(n, n \div L, n % L, zeros, more)
  OBVIOUS
<1> HIDE DEF L, H, S, W
<1>5. 1 * L + H = n /\ H \in 0 .. L - 1 /\ 1 \in Int
  BY <1>1, <1>2, <1>3
<1>6. n \div L = 1 /\ n % L = H
  <2>1. (1 * L + H) \div L = 1 /\ (1 * L + H) % L = H
    BY ONLY <1>1, <1>5, QuotientIs
  <2> QED BY ONLY <1>5, <2>1
<1>7. Ends(n, 1, H, zeros, more)
  BY ONLY <1>4, <1>6
<1>8. /\ more \in {1, 2} /\ (more = 2 <=> H + 1 > S)
      /\ more = 1 => zeros = S - H - 1
  BY ONLY <1>7 DEF Ends, S
<1>9. more = 1 /\ zeros = S - H - 1
  BY <1>1, <1>2, <1>8
<1>10. n + 1 + zeros = L + S
  BY <1>1, <1>2, <1>3, <1>9
<1> QED BY ONLY <1>1, <1>6, <1>9, <1>10 DEF L, H, W, S

\* A block and a digest are two blocks, the second of which is that of the short cuts.
LEMMA BlockAndDigest ==
  ASSUME NEW key \in Seq(Nat), Len(key) = BlockLength, NEW d \in [1 .. HashWords -> WordSet]
  PROVE  FinalOf(key \o BytesBE(d)) = <<WordsBE(key), BlockOf(d)>>
<1> DEFINE s == key \o BytesBE(d)
           n == BlockLength + HashLength
           L == BlockLength
           W == WordBytes
           h == HashWords
           N == BlockWords
           D == StreamOf(s)
           E == StreamOf(PaddedBytes(s))
           zeros == Fill(n, 1 + 2 * WordBytes)
           first == BlockAt(E, 1)
           second == BlockAt(E, 2)
           x == ByteBits * n
<1>1. L \in Nat /\ L > 0 /\ W \in Nat /\ W > 0 /\ N \in Nat /\ h \in Nat /\ h + 3 <= N /\ n \in Nat /\ HashLength \in Nat
      /\ HashLength = h * W /\ L = N * W /\ x \in 0 .. Radix - 1
  <2>1. L = N * W
    BY SizesAssumption, ByteAssumption DEF BlockLength
  <2> QED BY <2>1, BlockSize, SizesAssumption, ByteAssumption, Stretches
<1>2. /\ s \in Seq(Nat) /\ Len(s) = n
      /\ \A i \in 1 .. L : s[i] = key[i]
      /\ \A j \in 1 .. h, i \in 1 .. W :
           Place(j, i) \in 1 .. HashLength /\ s[L + Place(j, i)] = ByteOf(d[j], i)
  <2>1. s = key \o BytesBE(d)
    OBVIOUS
  <2> HIDE DEF s
  <2>2. DigestAt(s, key, d)
    BY <2>1, DigestPads
  <2> QED BY ONLY <2>2 DEF DigestAt, n, L, W, h
<1> HIDE DEF s
<1>3. D \in Streams /\ NextOf(s, D, 0) /\ \A i \in 1 .. n : D[i] = s[i]
  BY <1>2, StreamIs
<1> HIDE DEF D
<1>4. PICK more : PadsMessage(s, D, n, zeros, more)
  <2> HIDE DEF n
  <2> QED BY <1>1, <1>2, <1>3, PadsIt
<1>5. /\ n \div BlockLength = 1 /\ more = 1
      /\ zeros = (BlockWords - 2) * WordBytes - HashLength - 1
      /\ n + 1 + zeros = BlockLength + (BlockWords - 2) * WordBytes
  <2>1. Ends(n, n \div BlockLength, n % BlockLength, zeros, more) /\ n = BlockLength + HashLength
    BY <1>4 DEF PadsMessage
  <2> HIDE DEF n, zeros
  <2> QED BY ONLY <2>1, DigestEnds
<1>6. /\ E \in Streams /\ PaddedBy(E, D, n, Mark, zeros, LengthBE(n))
      /\ FinalOf(s) = BigChain(E, 2)
  <2>1. /\ E \in Streams /\ PaddedBy(E, D, n, Mark, zeros, LengthBE(n))
        /\ FinalOf(s) = BigChain(E, (n \div BlockLength) + more)
    BY <1>4 DEF PadsMessage
  <2>2. (n \div BlockLength) + more = 2
    <3> HIDE DEF n
    <3> QED BY <1>5
  <2> QED BY ONLY <2>1, <2>2
<1> HIDE DEF zeros, E
<1>7. /\ \A i \in 1 .. n : E[i] = D[i]
      /\ E[n + 1] = Mark
      /\ \A i \in n + 2 .. n + 1 + zeros : E[i] = 0
      /\ \A i \in 1 .. 2 * W : E[n + 1 + zeros + i] = LengthBE(n)[i]
  <2>1. Len(LengthBE(n)) = 2 * W
    <3> HIDE DEF n
    <3> QED BY <1>1, LengthWords
  <2> QED BY ONLY <1>6, <2>1 DEF PaddedBy
<1>8. BigChain(E, 2) = <<WordsBE(first), WordsBE(second)>>
  <2> DEFINE u == WordsBE(first)
             v == WordsBE(second)
  <2>1. BigChain(E, 2) = [k \in 1 .. 2 |-> WordsBE(BlockAt(E, k))]
    BY DEF BigChain, ChainOf, Words
  <2>2. WordsBE(BlockAt(E, 1)) = u /\ WordsBE(BlockAt(E, 2)) = v
    OBVIOUS
  <2>3. [k \in 1 .. 2 |-> WordsBE(BlockAt(E, k))] = <<WordsBE(BlockAt(E, 1)), WordsBE(BlockAt(E, 2))>>
    OBVIOUS
  <2> QED BY ONLY <2>1, <2>3
<1>9. first = key
  <2>1. ASSUME NEW i \in 1 .. L PROVE E[(1 - 1) * L + i] = key[i]
    <3>1. (1 - 1) * L + i = i /\ i \in 1 .. n
      BY <1>1
    <3> QED BY <1>2, <1>3, <1>7, <3>1
  <2>2. key = [i \in 1 .. L |-> key[i]]
    OBVIOUS
  <2> QED BY <2>1, <2>2 DEF BlockAt
<1>10. /\ second \in Seq(Nat) /\ Len(second) = L
       /\ \A i \in 1 .. L : second[i] = E[L + i]
  <2> DEFINE k == 2
  <2>1. k \in Nat /\ k > 0 /\ (k - 1) * L = L
    BY <1>1
  <2> HIDE DEF k
  <2>2. /\ BlockAt(E, k) \in Seq(Nat) /\ Len(BlockAt(E, k)) = L
        /\ \A i \in 1 .. L : BlockAt(E, k)[i] = E[(k - 1) * L + i]
    BY <1>6, <2>1, BlockIs
  <2> QED BY ONLY <2>1, <2>2 DEF k
<1> HIDE DEF first, second
<1> DEFINE g == BlockOf(d)
<1>11. /\ g \in Seq(WordSet) /\ Len(g) = N
       /\ \A j \in 1 .. h : g[j] = d[j]
       /\ g[h + 1] = MarkWord
       /\ \A j \in h + 2 .. N - 1 : g[j] = 0
       /\ g[N] = LastWord
  BY BlockOfIs
<1> HIDE DEF g
<1>12. LastWord = x
  BY LastWordIs
<1>13. n = L + HashLength
  OBVIOUS
<1> HIDE DEF n, x
<1>14. ASSUME NEW j \in 1 .. N, NEW i \in 1 .. W
       PROVE  Place(j, i) \in 1 .. L /\ Place(j, i) = (j - 1) * W + i
  <2>1. j \in Nat /\ j > 0 /\ Place(j, i) = (j - 1) * W + i
    BY DEF Place
  <2>2. Place(j, i) \in Nat /\ Place(j, i) > 0 /\ Place(j, i) <= j * W
    BY <2>1, PlaceIs
  <2>3. j * W <= L /\ j * W \in Nat
    <3>1. PICK e \in Nat : N = j + e
      <4>1. N - j \in Nat /\ N = j + (N - j)
        BY <1>1
      <4> QED BY <4>1
    <3>2. (j + e) * W = j * W + e * W /\ e * W \in Nat /\ j * W \in Nat
      BY <1>1, <2>1
    <3> QED BY ONLY <1>1, <3>1, <3>2
  <2> DEFINE y == j * W
             p == Place(j, i)
  <2>4. p \in Nat /\ p > 0 /\ p <= y /\ y <= L /\ y \in Nat
    BY <2>2, <2>3
  <2> HIDE DEF y, p
  <2>5. p \in 1 .. L
    BY <1>1, <2>4
  <2> QED BY <2>1, <2>5 DEF p
<1>15. ASSUME NEW j \in 1 .. N, NEW i \in 1 .. W PROVE second[Place(j, i)] = ByteOf(g[j], i)
  <2> DEFINE p == Place(j, i)
             b == (j - 1) * W
             H == HashLength
             Q == (N - 2) * W
  <2>1. p \in 1 .. L /\ p = b + i /\ second[p] = E[L + p]
    BY <1>10, <1>14
  <2>2. CASE j <= h
    <3>1. j \in 1 .. h
      BY <1>1, <2>2
    <3>2. p \in 1 .. HashLength /\ s[L + p] = ByteOf(d[j], i) /\ g[j] = d[j]
      BY <1>2, <1>11, <3>1
    <3> HIDE DEF p
    <3>3. L + p \in 1 .. n
      BY <1>1, <1>13, <3>2
    <3>4. E[L + p] = s[L + p]
      BY <1>3, <1>7, <3>3
    <3> QED BY ONLY <2>1, <3>2, <3>4 DEF p
  <2>3. CASE j = h + 1
    <3>1. b = H
      <4>1. j - 1 = h
        BY <1>1, <2>3
      <4> QED BY ONLY <1>1, <4>1
    <3>2. H + W <= Q
      <4>1. PICK e \in Nat : N - 2 = h + 1 + e
        <5>1. N - 2 - h - 1 \in Nat /\ N - 2 = h + 1 + (N - 2 - h - 1)
          BY <1>1
        <5> QED BY <5>1
      <4> HIDE DEF h, W
      <4>2. (h + 1 + e) * W = h * W + W + e * W /\ e * W \in Nat /\ h * W \in Nat
        BY <1>1
      <4> DEFINE y == h * W
                 z == e * W
      <4>3. Q = y + W + z /\ z \in Nat /\ y \in Nat /\ H = y
        BY ONLY <1>1, <4>1, <4>2
      <4> HIDE DEF y, z, Q, H
      <4> QED BY <1>1, <4>3
    <3>3. g[j] = MarkWord
      BY <1>11, <2>3
    <3>4. Q \in Nat /\ H \in Nat /\ n = L + H /\ n + 1 + zeros = L + Q /\ zeros = Q - H - 1
      <4> DEFINE k == N - 2
      <4>1. k \in Nat
        BY <1>1
      <4> HIDE DEF k
      <4>2. k * W \in Nat
        BY <1>1, <4>1
      <4> QED BY <1>1, <1>5, <1>13, <4>2 DEF k
    <3> HIDE DEF b, H, Q, p
    <3>5. CASE i = 1
      <4>1. L + p = n + 1
        BY <1>1, <2>1, <3>1, <3>4, <3>5
      <4>2. ByteOf(MarkWord, i) = Mark
        BY <3>5, MarkBytes
      <4> QED BY ONLY <1>7, <2>1, <3>3, <4>1, <4>2 DEF p
    <3>6. CASE i # 1
      <4>1. L + p \in n + 2 .. n + 1 + zeros
        BY <1>1, <2>1, <3>1, <3>2, <3>4, <3>6
      <4>2. ByteOf(MarkWord, i) = 0
        BY <3>6, MarkBytes
      <4> QED BY ONLY <1>7, <2>1, <3>3, <4>1, <4>2 DEF p
    <3> QED BY <3>5, <3>6
  <2>4. CASE j \in h + 2 .. N - 2
    <3>1. b + W <= Q /\ H + W <= b /\ b \in Nat
      <4>1. PICK e \in Nat : N - 2 = (j - 1) + 1 + e
        <5>1. N - 2 - (j - 1) - 1 \in Nat /\ N - 2 = (j - 1) + 1 + (N - 2 - (j - 1) - 1)
          BY <1>1, <2>4
        <5> QED BY <5>1
      <4>2. PICK f \in Nat : j - 1 = h + 1 + f
        <5>1. j - 1 - h - 1 \in Nat /\ j - 1 = h + 1 + (j - 1 - h - 1)
          BY <1>1, <2>4
        <5> QED BY <5>1
      <4>3. h \in Nat /\ W \in Nat /\ H = h * W
        BY <1>1
      <4> HIDE DEF h, W
      <4>4. (h + 1 + f) * W = h * W + W + f * W /\ f * W \in Nat /\ h * W \in Nat
        BY <4>3
      <4> DEFINE k == h + 1 + f
                 u == h * W
                 v == f * W
                 w == e * W
      <4>5. k \in Nat
        BY <4>3
      <4> HIDE DEF k
      <4>6. (k + 1 + e) * W = k * W + W + e * W /\ e * W \in Nat /\ k * W \in Nat
        BY <4>3, <4>5
      <4>7. b = u + W + v /\ u \in Nat /\ v \in Nat /\ w \in Nat /\ Q = b + W + w /\ H = u
        <5>1. b = k * W
          BY ONLY <4>2 DEF k
        <5>2. k * W = u + W + v
          BY ONLY <4>4 DEF k
        <5>3. Q = (k + 1 + e) * W
          BY ONLY <4>1, <4>2 DEF k
        <5> QED BY ONLY <4>3, <4>4, <4>6, <5>1, <5>2, <5>3
      <4> HIDE DEF u, v, w, b, Q, H
      <4> QED BY <4>3, <4>7
    <3>2. g[j] = 0
      <4>1. j \in h + 2 .. N - 1
        BY <1>1, <2>4
      <4> QED BY <1>11, <4>1
    <3>3. Q \in Nat /\ H \in Nat /\ n = L + H /\ n + 1 + zeros = L + Q /\ zeros = Q - H - 1
      <4> DEFINE k == N - 2
      <4>1. k \in Nat
        BY <1>1
      <4> HIDE DEF k
      <4>2. k * W \in Nat
        BY <1>1, <4>1
      <4> QED BY <1>1, <1>5, <1>13, <4>2 DEF k
    <3> HIDE DEF b, H, Q, p
    <3>4. L + p \in n + 2 .. n + 1 + zeros
      BY <1>1, <2>1, <3>1, <3>3
    <3> QED BY ONLY <1>7, <2>1, <3>2, <3>4, i \in 1 .. W, ZeroBytes DEF p, W
  <2>5. CASE j = N - 1
    <3>1. b = Q
      <4>1. j - 1 = N - 2
        BY <1>1, <2>5
      <4> QED BY ONLY <4>1
    <3>2. g[j] = 0
      <4>1. j \in h + 2 .. N - 1
        BY <1>1, <2>5
      <4> QED BY <1>11, <4>1
    <3>3. n + 1 + zeros = L + Q /\ Q \in Nat
      <4> DEFINE k == N - 2
      <4>1. k \in Nat
        BY <1>1
      <4> HIDE DEF k
      <4>2. k * W \in Nat
        BY <1>1, <4>1
      <4> QED BY <1>5, <4>2 DEF k
    <3> HIDE DEF b, Q, p
    <3>4. L + p = n + 1 + zeros + i /\ i \in 1 .. 2 * W
      BY <1>1, <2>1, <3>1, <3>3
    <3>5. LengthBE(n)[i] = 0
      BY <1>1, LengthDigits DEF x
    <3>6. ByteOf(0, i) = 0
      BY ZeroBytes
    <3>7. E[n + 1 + zeros + i] = LengthBE(n)[i]
      BY <1>7, <3>4
    <3> QED BY ONLY <2>1, <3>2, <3>4, <3>5, <3>6, <3>7 DEF p
  <2>6. CASE j = N
    <3>1. b = Q + W
      <4> DEFINE k == N - 2
      <4>1. k \in Nat /\ j - 1 = k + 1
        BY <1>1, <2>6
      <4> HIDE DEF k
      <4>2. (k + 1) * W = k * W + W
        BY <1>1, <4>1
      <4> QED BY ONLY <4>1, <4>2 DEF k
    <3>2. g[j] = x
      BY <1>11, <1>12, <2>6
    <3>3. n + 1 + zeros = L + Q /\ Q \in Nat
      <4> DEFINE k == N - 2
      <4>1. k \in Nat
        BY <1>1
      <4> HIDE DEF k
      <4>2. k * W \in Nat
        BY <1>1, <4>1
      <4> QED BY <1>5, <4>2 DEF k
    <3> HIDE DEF b, Q, p
    <3>4. L + p = n + 1 + zeros + (W + i) /\ W + i \in 1 .. 2 * W
      BY <1>1, <2>1, <3>1, <3>3
    <3>5. LengthBE(n)[W + i] = ByteOf(x, i)
      BY <1>1, LengthDigits DEF x
    <3>6. E[n + 1 + zeros + (W + i)] = LengthBE(n)[W + i]
      BY <1>7, <3>4
    <3> QED BY ONLY <2>1, <3>2, <3>4, <3>5, <3>6 DEF p
  <2>7. j <= h \/ j = h + 1 \/ j \in h + 2 .. N - 2 \/ j = N - 1 \/ j = N
    BY <1>1
  <2> QED BY <2>2, <2>3, <2>4, <2>5, <2>6, <2>7
<1>16. Writes(second, g)
  BY <1>15 DEF Writes
<1>17. WordsBE(second) = g
  BY <1>10, <1>11, <1>16, BlockRead
<1> QED BY ONLY <1>6, <1>8, <1>9, <1>17 DEF s, g

-----------------------------------------------------------------------------
(* HMAC.                                                                    *)

Blocks == [1 .. BlockWords -> Nat]
Chains == Seq(Blocks)

\* What is assumed of the compression function: a chain's digest is words.
DigestsAreWords == \A chain \in Chains : DigestWords(chain) \in [1 .. HashWords -> WordSet]

LEMMA EndianIs ==
  ASSUME NEW s \in Seq(Nat)
  PROVE  BigEndian(s) \in Nat
<1>1. PICK value : BigValue(s, value) /\ BigEndian(s) = value[Len(s)]
  BY BigValueExists
<1> DEFINE n == Len(s)
           b == 2 ^ ByteBits
           S == {k \in Nat : k <= n => value[k] \in Nat}
<1>2. n \in Nat /\ b \in Nat
  BY Sizes
<1>3. \A k \in 0 .. n : value[k] = IF k = 0 THEN 0 ELSE value[k - 1] * b + s[k]
  BY <1>1 DEF BigValue
<1> HIDE DEF b
<1>4. 0 \in S
  <2>1. 0 \in 0 .. n
    BY <1>2
  <2> QED BY <1>3, <2>1
<1>5. ASSUME NEW k \in Nat, k \in S PROVE k + 1 \in S
  <2> SUFFICES ASSUME k + 1 <= n PROVE value[k + 1] \in Nat
    OBVIOUS
  <2>1. k + 1 \in 0 .. n /\ k + 1 # 0 /\ (k + 1) - 1 = k /\ k + 1 \in 1 .. n
    BY <1>2
  <2>2. value[k + 1] = value[(k + 1) - 1] * b + s[k + 1]
    BY <1>3, <2>1
  <2> DEFINE x == value[k]
             y == s[k + 1]
  <2>3. x \in Nat /\ y \in Nat
    BY <1>2, <1>5, <2>1
  <2>4. value[k + 1] = x * b + y
    BY ONLY <2>1, <2>2
  <2> HIDE DEF x, y
  <2>5. x * b \in Nat
    BY <1>2, <2>3
  <2> QED BY <2>3, <2>4, <2>5
<1> HIDE DEF S
<1>6. \A k \in Nat : k \in S
  BY <1>4, <1>5, SetInduction
<1>7. value[n] \in Nat
  BY <1>2, <1>6 DEF S
<1> QED BY <1>1, <1>7

LEMMA WordsAre ==
  ASSUME NEW b \in Seq(Nat), Len(b) = BlockLength
  PROVE  WordsBE(b) \in Blocks
<1>1. ASSUME NEW j \in 1 .. BlockWords PROVE BigEndian(WordBytesOf(b, j)) \in Nat
  <2>1. j \in Nat /\ j > 0
    BY SizesAssumption, ByteAssumption
  <2>2. j * WordBytes <= BlockLength
    <3>1. PICK d \in Nat : BlockWords = j + d
      <4>1. BlockWords - j \in Nat /\ BlockWords = j + (BlockWords - j)
        BY SizesAssumption, ByteAssumption
      <4> QED BY <4>1
    <3>2. WordBytes * (j + d) = j * WordBytes + d * WordBytes /\ d * WordBytes \in Nat /\ j * WordBytes \in Nat
      BY <2>1, SizesAssumption, ByteAssumption
    <3>3. BlockLength = WordBytes * (j + d)
      BY <3>1 DEF BlockLength
    <3> QED BY <3>2, <3>3
  <2>3. WordBytesOf(b, j) = [i \in 1 .. WordBytes |-> b[Place(j, i)]]
    BY <2>1, <2>2, BytesOfWord
  <2>4. ASSUME NEW i \in 1 .. WordBytes PROVE b[Place(j, i)] \in Nat
    <3> DEFINE p == Place(j, i)
               x == j * WordBytes
    <3>1. p \in Nat /\ p > 0 /\ p <= x
      BY <2>1, PlaceIs
    <3>2. x <= BlockLength /\ x \in Nat /\ BlockLength \in Nat
      BY <2>1, <2>2, SizesAssumption, ByteAssumption, BlockSize
    <3> HIDE DEF p, x
    <3>3. p \in 1 .. Len(b)
      BY <3>1, <3>2
    <3> QED BY <3>3 DEF p
  <2>5. WordBytesOf(b, j) \in Seq(Nat)
    BY <2>3, <2>4, SizesAssumption, ByteAssumption
  <2> QED BY <2>5, EndianIs
<1> QED BY <1>1 DEF WordsBE, Blocks

LEMMA FinalsAre ==
  ASSUME NEW s \in Seq(Nat)
  PROVE  FinalOf(s) \in Chains
<1> DEFINE D == StreamOf(s)
           n == Len(s)
           E == StreamOf(PaddedBytes(s))
<1>1. D \in Streams /\ NextOf(s, D, 0) /\ n \in Nat /\ Len(s) = n
  BY StreamIs
<1> HIDE DEF D, n
<1>2. PICK more : PadsMessage(s, D, n, Fill(n, 1 + 2 * WordBytes), more)
  BY <1>1, PadsIt
<1> DEFINE m == (n \div BlockLength) + more
<1>3. E \in Streams /\ m \in Nat /\ FinalOf(s) = BigChain(E, m)
  BY <1>2 DEF PadsMessage
<1> HIDE DEF E, m
<1>4. ASSUME NEW k \in 1 .. m PROVE WordsBE(BlockAt(E, k)) \in Blocks
  <2>1. k \in Nat /\ k > 0
    BY <1>3
  <2> QED BY <1>3, <2>1, BlockIs, WordsAre
<1>5. FinalOf(s) = [k \in 1 .. m |-> WordsBE(BlockAt(E, k))]
  BY <1>3 DEF BigChain, ChainOf, Words
<1> QED BY <1>3, <1>4, <1>5 DEF Chains

LEMMA EvaluatedIs ==
  ASSUME NEW S, NEW s \in Seq(S)
  PROVE  Evaluated(s) = s
  BY ConcatEmptySeq DEF Evaluated

LEMMA DigestIs ==
  ASSUME DigestsAreWords, NEW chain \in Chains
  PROVE  /\ DigestWords(chain) \in [1 .. HashWords -> WordSet]
         /\ Digest(chain) = BytesBE(DigestWords(chain))
         /\ Digest(chain) \in Seq(Nat) /\ Len(Digest(chain)) = HashLength
         /\ DigestBlock(chain) = BlockOf(DigestWords(chain)) /\ DigestBlock(chain) \in Blocks
<1> DEFINE d == DigestWords(chain)
<1>1. d \in [1 .. HashWords -> WordSet]
  BY DEF DigestsAreWords
<1>2. DigestBlock(chain) = BlockOf(d)
  BY DEF DigestBlock, BlockOf, MarkWord, LastWord
<1>3. Digest(chain) = Evaluated(BytesBE(d))
  BY DEF Digest
<1> HIDE DEF d
<1>4. HashWords \in Nat /\ HashLength = HashWords * WordBytes /\ BlockWords \in Nat
  BY Stretches, SizesAssumption, ByteAssumption
<1>5. d \in Seq(Nat) /\ Len(d) = HashWords
  BY <1>1, <1>4, Sizes DEF WordSet
<1>6. BytesBE(d) \in Seq(Nat) /\ Len(BytesBE(d)) = HashLength
  BY ONLY <1>4, <1>5, BytesAre
<1>7. Digest(chain) = BytesBE(d)
  BY <1>3, <1>6, EvaluatedIs
<1>8. BlockOf(d) \in Seq(WordSet) /\ Len(BlockOf(d)) = BlockWords
  BY <1>1, BlockOfIs
<1>9. BlockOf(d) \in Blocks
  <2> DEFINE g == BlockOf(d)
  <2> HIDE DEF g
  <2>1. g \in [1 .. BlockWords -> WordSet]
    BY <1>4, <1>8 DEF g
  <2>2. WordSet \subseteq Nat
    BY Sizes DEF WordSet
  <2> QED BY <2>1, <2>2 DEF Blocks, g
<1> QED BY <1>1, <1>2, <1>6, <1>7, <1>9 DEF d

LEMMA RawBytes ==
  ASSUME DigestsAreWords, NEW s \in Seq(Nat)
  PROVE  HashRaw("sha512", s) \in Seq(Nat) /\ Len(HashRaw("sha512", s)) = HashLength
<1>1. HashRaw("sha512", s) = Digest(FinalOf(s)) /\ FinalOf(s) \in Chains
  BY RawIs, FinalsAre
<1> DEFINE c == FinalOf(s)
<1> HIDE DEF c
<1>2. Digest(c) \in Seq(Nat) /\ Len(Digest(c)) = HashLength
  BY <1>1, DigestIs DEF c
<1> QED BY ONLY <1>1, <1>2 DEF c

LEMMA PadIs ==
  ASSUME DigestsAreWords, NEW key \in Seq(Nat), NEW pad \in Nat
  PROVE  KeyPad("sha512", key, pad) \in Seq(Nat) /\ Len(KeyPad("sha512", key, pad)) = BlockLength
<1> DEFINE short == IF Len(key) > BlockLength THEN HashRaw("sha512", key) ELSE key
           block == Copy(EmptyBuffer, 0, short)
           padded == [i \in 1 .. BlockLength |-> XorWords(WordBits, block[i], pad)]
<1>1. short \in Seq(Nat)
  BY RawBytes
<1> HIDE DEF short
<1>2. BlockLength \in Nat
  BY BlockSize
<1>3. ASSUME NEW i \in 1 .. BlockLength PROVE block[i] \in Nat
  <2>1. block[i] = IF i \in 0 + 1 .. 0 + Len(short) THEN short[i - 0] ELSE EmptyBuffer[i]
    BY DEF Copy
  <2>2. i - 0 = i /\ EmptyBuffer[i] = 0 /\ i \in Nat
    BY <1>2 DEF EmptyBuffer
  <2>3. CASE i \in 0 + 1 .. 0 + Len(short)
    <3>1. i \in 1 .. Len(short)
      BY <1>1, <2>3
    <3> QED BY <1>1, <2>1, <2>2, <2>3, <3>1
  <2>4. CASE i \notin 0 + 1 .. 0 + Len(short)
    BY <2>1, <2>2, <2>4
  <2> QED BY <2>3, <2>4
<1> HIDE DEF block
<1>4. ASSUME NEW i \in 1 .. BlockLength PROVE XorWords(WordBits, block[i], pad) \in Nat
  <2>1. WordBits \in 0 .. WordBits
    BY Sizes
  <2> QED BY <1>3, <2>1, XorStep
<1>5. padded \in Seq(Nat) /\ Len(padded) = BlockLength
  BY <1>2, <1>4
<1>6. KeyPad("sha512", key, pad) = Evaluated(padded)
  BY DEF KeyPad, block, short
<1> HIDE DEF padded
<1>7. Evaluated(padded) = padded
  BY <1>5, EvaluatedIs
<1> QED BY ONLY <1>5, <1>6, <1>7

OuterKey(key) == KeyPad("sha512", key, OuterPad)
InnerKey(key) == KeyPad("sha512", key, InnerPad)
Keys(key) == HmacPrepare("sha512", key)

LEMMA KeysAre ==
  ASSUME DigestsAreWords, NEW key \in Seq(Nat)
  PROVE  /\ OuterKey(key) \in Seq(Nat) /\ Len(OuterKey(key)) = BlockLength
         /\ InnerKey(key) \in Seq(Nat) /\ Len(InnerKey(key)) = BlockLength
         /\ WordsBE(OuterKey(key)) \in Blocks /\ WordsBE(InnerKey(key)) \in Blocks
         /\ Keys(key).outer = <<WordsBE(OuterKey(key))>> /\ Keys(key).inner = <<WordsBE(InnerKey(key))>>
<1> DEFINE o == OuterKey(key)
           i == InnerKey(key)
<1>1. OuterPad \in Nat /\ InnerPad \in Nat
  <2> DEFINE b == 2 ^ ByteBits
  <2>1. b \in Nat /\ b > 0
    BY Sizes
  <2> HIDE DEF b
  <2>2. 92 % b \in Nat /\ 54 % b \in Nat
    BY <2>1
  <2> QED BY <2>2 DEF OuterPad, InnerPad, b
<1>2. o \in Seq(Nat) /\ Len(o) = BlockLength /\ i \in Seq(Nat) /\ Len(i) = BlockLength
  BY <1>1, PadIs DEF OuterKey, InnerKey
<1>3. Keys(key).outer = <<Evaluated(WordsBE(o))>> /\ Keys(key).inner = <<Evaluated(WordsBE(i))>>
  BY DEF Keys, HmacPrepare, OuterKey, InnerKey
<1> HIDE DEF o, i
<1>4. WordsBE(o) \in Blocks /\ WordsBE(i) \in Blocks
  BY <1>2, WordsAre
<1>5. Evaluated(WordsBE(o)) = WordsBE(o) /\ Evaluated(WordsBE(i)) = WordsBE(i)
  <2>1. ASSUME NEW x \in Blocks PROVE x \in Seq(Nat)
    BY SizesAssumption, ByteAssumption DEF Blocks
  <2>2. WordsBE(o) \in Seq(Nat) /\ WordsBE(i) \in Seq(Nat)
    BY <1>4, <2>1
  <2> QED BY <2>2, EvaluatedIs
<1> QED BY ONLY <1>2, <1>3, <1>4, <1>5 DEF o, i

\* The chains of an HMAC: of a message that begins with the padded key, and of a digest.
FirstChain(key, msg) == Append(Keys(key).outer, DigestBlock(FinalOf(InnerKey(key) \o msg)))
NextChain(key, chain) ==
  Append(Keys(key).outer, DigestBlock(Append(Keys(key).inner, DigestBlock(chain))))

LEMMA Appended ==
  ASSUME NEW T, NEW s \in Seq(T), NEW e \in T
  PROVE  /\ Append(s, e) \in Seq(T) /\ Len(Append(s, e)) = Len(s) + 1
         /\ \A i \in 1 .. Len(s) : Append(s, e)[i] = s[i]
         /\ Append(s, e)[Len(s) + 1] = e
OBVIOUS

LEMMA Pairs ==
  ASSUME NEW a \in Blocks, NEW b \in Blocks
  PROVE  Append(<<a>>, b) = <<a, b>> /\ <<a, b>> \in Chains
<1> DEFINE s == <<a>>
           t == <<a, b>>
<1>1. s \in Seq(Blocks) /\ Len(s) = 1 /\ s[1] = a
  OBVIOUS
<1>2. t \in Seq(Blocks) /\ Len(t) = 2 /\ t[1] = a /\ t[2] = b
  OBVIOUS
<1> HIDE DEF s, t
<1> DEFINE u == Append(s, b)
<1>3. u \in Seq(Blocks) /\ Len(u) = Len(s) + 1 /\ (\A i \in 1 .. Len(s) : u[i] = s[i]) /\ u[Len(s) + 1] = b
  <2> DEFINE T == Blocks
  <2>1. s \in Seq(T) /\ b \in T
    BY ONLY <1>1, b \in Blocks
  <2> HIDE DEF T
  <2>2. /\ Append(s, b) \in Seq(T) /\ Len(Append(s, b)) = Len(s) + 1
        /\ (\A i \in 1 .. Len(s) : Append(s, b)[i] = s[i]) /\ Append(s, b)[Len(s) + 1] = b
    BY ONLY <2>1, Appended
  <2> QED BY ONLY <2>2 DEF T
<1> HIDE DEF u
<1>4. u = t
  <2>1. \A i \in 1 .. Len(u) : u[i] = t[i]
    BY <1>1, <1>2, <1>3
  <2> QED BY <1>1, <1>2, <1>3, <2>1, SeqEqual
<1> QED BY <1>2, <1>4 DEF u, s, t, Chains

\* A key and a digest hashed.
LEMMA KeyAndDigest ==
  ASSUME DigestsAreWords, NEW key \in Seq(Nat), Len(key) = BlockLength, NEW chain \in Chains,
         NEW keys, keys = <<WordsBE(key)>>
  PROVE  /\ FinalOf(key \o Digest(chain)) = Append(keys, DigestBlock(chain))
         /\ Append(keys, DigestBlock(chain)) \in Chains
         /\ HashRaw("sha512", key \o Digest(chain)) = Digest(Append(keys, DigestBlock(chain)))
<1> DEFINE d == DigestWords(chain)
           t == Digest(chain)
           g == DigestBlock(chain)
           a == WordsBE(key)
           s == key \o t
<1>1. /\ d \in [1 .. HashWords -> WordSet] /\ t = BytesBE(d) /\ t \in Seq(Nat)
      /\ g = BlockOf(d) /\ g \in Blocks
  BY DigestIs
<1>2. a \in Blocks
  BY WordsAre
<1>3. FinalOf(key \o BytesBE(d)) = <<a, BlockOf(d)>>
  <2> HIDE DEF d
  <2> QED BY <1>1, BlockAndDigest
<1> HIDE DEF d, t, g, a
<1>4. FinalOf(s) = <<a, g>>
  BY ONLY <1>1, <1>3
<1>5. Append(<<a>>, g) = <<a, g>> /\ <<a, g>> \in Chains
  BY <1>1, <1>2, Pairs
<1>6. s \in Seq(Nat)
  BY <1>1, Joined
<1> HIDE DEF s
<1>7. HashRaw("sha512", s) = Digest(FinalOf(s))
  BY <1>6, RawIs
<1> QED BY ONLY <1>4, <1>5, <1>7, keys = <<WordsBE(key)>> DEF s, t, g, a

LEMMA HmacFirst ==
  ASSUME DigestsAreWords, NEW key \in Seq(Nat), NEW msg \in Seq(Nat)
  PROVE  FirstChain(key, msg) \in Chains /\ HmacReference("sha512", key, msg) = Digest(FirstChain(key, msg))
<1> DEFINE o == OuterKey(key)
           i == InnerKey(key)
           s == i \o msg
           c == FinalOf(s)
           keys == Keys(key).outer
<1>1. /\ o \in Seq(Nat) /\ Len(o) = BlockLength /\ i \in Seq(Nat) /\ keys = <<WordsBE(o)>>
  BY KeysAre
<1>2. HmacReference("sha512", key, msg) = HashRaw("sha512", o \o HashRaw("sha512", s))
  BY DEF HmacReference, OuterKey, InnerKey
<1>3. FirstChain(key, msg) = Append(keys, DigestBlock(c))
  BY DEF FirstChain
<1> HIDE DEF o, i, keys
<1>4. s \in Seq(Nat)
  BY <1>1, Joined
<1> HIDE DEF s
<1>5. c \in Chains /\ HashRaw("sha512", s) = Digest(c)
  BY <1>4, FinalsAre, RawIs
<1> HIDE DEF c
<1>6. /\ Append(keys, DigestBlock(c)) \in Chains
      /\ HashRaw("sha512", o \o Digest(c)) = Digest(Append(keys, DigestBlock(c)))
  BY ONLY DigestsAreWords, <1>1, <1>5, KeyAndDigest
<1> QED BY ONLY <1>2, <1>3, <1>5, <1>6

LEMMA HmacNext ==
  ASSUME DigestsAreWords, NEW key \in Seq(Nat), NEW chain \in Chains
  PROVE  /\ NextChain(key, chain) \in Chains
         /\ HmacReference("sha512", key, Digest(chain)) = Digest(NextChain(key, chain))
<1> DEFINE i == InnerKey(key)
           keys == Keys(key).inner
           t == Digest(chain)
<1>1. i \in Seq(Nat) /\ Len(i) = BlockLength /\ keys = <<WordsBE(i)>>
  BY KeysAre
<1>2. t \in Seq(Nat)
  BY DigestIs
<1>3. FirstChain(key, t) = Append(Keys(key).outer, DigestBlock(FinalOf(i \o t)))
  BY DEF FirstChain
<1>4. NextChain(key, chain) = Append(Keys(key).outer, DigestBlock(Append(keys, DigestBlock(chain))))
  BY DEF NextChain
<1> HIDE DEF i, keys
<1>5. FinalOf(i \o t) = Append(keys, DigestBlock(chain))
  BY <1>1, KeyAndDigest
<1>6. NextChain(key, chain) = FirstChain(key, t)
  BY ONLY <1>3, <1>4, <1>5
<1> HIDE DEF t
<1>7. FirstChain(key, t) \in Chains /\ HmacReference("sha512", key, t) = Digest(FirstChain(key, t))
  BY <1>2, HmacFirst
<1> QED BY ONLY <1>6, <1>7 DEF t

-----------------------------------------------------------------------------
(* PBKDF2.                                                                  *)

LEMMA XorWordIs ==
  ASSUME NEW a \in WordSet, NEW b \in WordSet
  PROVE  XorWords(WordBits, a, b) \in WordSet /\ a \in Nat /\ b \in Nat
<1>1. a \in Nat /\ b \in Nat /\ WordBits \in 0 .. WordBits
  BY Sizes DEF WordSet
<1> DEFINE x == XorWords(WordBits, a, b)
<1>2. x \in Nat /\ x < Radix
  BY <1>1, XorStep, XorBound DEF Radix
<1> HIDE DEF x
<1>3. x \in 0 .. Radix - 1
  BY <1>2, Sizes
<1> QED BY <1>1, <1>3 DEF x, WordSet

\* The words of a digest added, and the bytes.
LEMMA XorOfByte ==
  ASSUME NEW a \in WordSet, NEW b \in WordSet, NEW i \in 1 .. WordBytes
  PROVE  ByteOf(XorWords(WordBits, a, b), i) = XorWords(WordBits, ByteOf(a, i), ByteOf(b, i))
<1> DEFINE k == WordBytes - i
           s == ByteBits * k
<1>1. s \in Nat /\ s + ByteBits <= WordBits /\ ByteBits \in Nat
  <2>1. k \in Nat /\ i \in Nat /\ i >= 1 /\ WordBytes = k + i /\ ByteBits \in Nat
    BY SizesAssumption, ByteAssumption
  <2>2. PICK e \in Nat : i = e + 1
    <3>1. i - 1 \in Nat /\ i = (i - 1) + 1
      BY <2>1
    <3> QED BY <3>1
  <2> DEFINE B == ByteBits
  <2> HIDE DEF k
  <2>3. B * (k + (e + 1)) = B * k + B * e + B /\ B * k \in Nat /\ B * e \in Nat
    BY <2>1
  <2>4. WordBits = B * (k + (e + 1))
    BY <2>1, <2>2 DEF WordBits
  <2> QED BY ONLY <2>1, <2>3, <2>4 DEF s
<1> HIDE DEF s
<1>2. a \in Nat /\ b \in Nat
  BY XorWordIs
<1>3. (XorWords(WordBits, a, b) \div 2 ^ s) % 2 ^ ByteBits
        = XorWords(WordBits, (a \div 2 ^ s) % 2 ^ ByteBits, (b \div 2 ^ s) % 2 ^ ByteBits)
  BY ONLY <1>1, <1>2, PartOfXor
<1> QED BY ONLY <1>3 DEF ByteOf, s, k

Digests == [1 .. HashWords -> WordSet]

LEMMA XorOfDigests ==
  ASSUME NEW a \in Digests, NEW b \in Digests, NEW c,
         c = [j \in 1 .. HashWords |-> XorWords(WordBits, a[j], b[j])]
  PROVE  c \in Digests /\ BytesBE(c) = XorDigests(BytesBE(a), BytesBE(b))
<1> DEFINE n == HashLength
           u == BytesBE(a)
           v == BytesBE(b)
           w == BytesBE(c)
           x == [p \in 1 .. n |-> XorWords(WordBits, u[p], v[p])]
<1>1. HashWords \in Nat /\ n = HashWords * WordBytes /\ n \in Nat
  BY Stretches
<1>2. \A d \in Digests : d \in Seq(Nat) /\ Len(d) = HashWords /\ \A j \in 1 .. HashWords : d[j] \in WordSet
  BY <1>1, Sizes DEF WordSet, Digests
<1>3. c \in Digests
  BY XorWordIs DEF Digests
<1> DEFINE Written(d, t) ==
             /\ t \in Seq(Nat) /\ Len(t) = n /\ t = [p \in 1 .. n |-> t[p]]
             /\ \A j \in 1 .. HashWords, i \in 1 .. WordBytes : t[Place(j, i)] = ByteOf(d[j], i)
<1>4. ASSUME NEW d \in Digests PROVE Written(d, BytesBE(d))
  <2>1. d \in Seq(Nat) /\ Len(d) = HashWords
    BY <1>2
  <2>2. /\ BytesBE(d) \in Seq(Nat) /\ Len(BytesBE(d)) = HashWords * WordBytes
        /\ BytesBE(d) = [p \in 1 .. HashWords * WordBytes |-> BytesBE(d)[p]]
        /\ \A j \in 1 .. HashWords, i \in 1 .. WordBytes : BytesBE(d)[Place(j, i)] = ByteOf(d[j], i)
    BY <1>1, <2>1, BytesAre
  <2> QED BY ONLY <1>1, <2>2
<1>5. Written(a, u) /\ Written(b, v) /\ Written(c, w)
  <2> HIDE DEF Written
  <2> QED BY <1>3, <1>4
<1> HIDE DEF u, v, w
<1>6. ASSUME NEW p \in 1 .. n PROVE w[p] = XorWords(WordBits, u[p], v[p])
  <2>1. PICK j \in 1 .. HashWords, i \in 1 .. WordBytes : p = Place(j, i)
    BY <1>1, PlaceOf
  <2>2. w[p] = ByteOf(c[j], i) /\ u[p] = ByteOf(a[j], i) /\ v[p] = ByteOf(b[j], i)
    BY <1>5, <2>1
  <2>3. c[j] = XorWords(WordBits, a[j], b[j])
    OBVIOUS
  <2>4. a[j] \in WordSet /\ b[j] \in WordSet
    BY <1>2
  <2>5. ByteOf(XorWords(WordBits, a[j], b[j]), i) = XorWords(WordBits, ByteOf(a[j], i), ByteOf(b[j], i))
    BY <2>4, XorOfByte
  <2> QED BY ONLY <2>2, <2>3, <2>5
<1>7. w = x
  BY <1>5, <1>6
<1>8. Evaluated(x) = x
  <2>1. x \in Seq(Nat)
    BY <1>5, <1>7
  <2> HIDE DEF x
  <2> QED BY <2>1, EvaluatedIs
<1> QED BY ONLY <1>3, <1>7, <1>8 DEF XorDigests, u, v, w

\* The recursion of the reference, made explicit; its first element and the next.
FirstOf(key, salt) ==
  LET hash == HmacReference("sha512", key, salt \o BlockNumber)
  IN [last |-> hash, sum |-> hash]
NextOfHash(key, before) ==
  LET hash == HmacReference("sha512", key, before.last)
  IN [last |-> hash, sum |-> XorDigests(before.sum, hash)]
ReferenceIs(f, key, salt, n) ==
  f = [i \in 1 .. n |->
         IF i = 1
         THEN LET hash == HmacReference("sha512", key, salt \o BlockNumber)
              IN [last |-> hash, sum |-> hash]
         ELSE LET before == f[i - 1]
                  hash == HmacReference("sha512", key, before.last)
              IN [last |-> hash, sum |-> XorDigests(before.sum, hash)]]
ReferenceOf(key, salt, n) == CHOOSE f : ReferenceIs(f, key, salt, n)

LEMMA ReferenceExists ==
  ASSUME NEW key, NEW salt, NEW n \in Nat
  PROVE  \E f : ReferenceIs(f, key, salt, n)
<1> DEFINE S == {k \in Nat : \E f : ReferenceIs(f, key, salt, k)}
<1>1. 0 \in S
  <2>1. ReferenceIs(<<>>, key, salt, 0)
    BY DEF ReferenceIs
  <2> QED BY <2>1
<1>2. ASSUME NEW k \in Nat, k \in S PROVE k + 1 \in S
  <2>1. PICK f : ReferenceIs(f, key, salt, k)
    BY <1>2
  <2> DEFINE value(i) == IF i = 1 THEN FirstOf(key, salt) ELSE NextOfHash(key, f[i - 1])
             g == [i \in 1 .. k + 1 |-> value(i)]
  <2>2. f = [i \in 1 .. k |-> value(i)]
    BY ONLY <2>1 DEF ReferenceIs, FirstOf, NextOfHash
  <2>3. ASSUME NEW i \in 1 .. k PROVE g[i] = f[i]
    <3>1. i \in 1 .. k + 1
      OBVIOUS
    <3> HIDE DEF value
    <3>2. f[i] = value(i) /\ g[i] = value(i)
      BY ONLY <2>2, <3>1, i \in 1 .. k DEF g
    <3> QED BY <3>2
  <2>4. ASSUME NEW i \in 1 .. k + 1
        PROVE  value(i) = IF i = 1 THEN FirstOf(key, salt) ELSE NextOfHash(key, g[i - 1])
    <3>1. CASE i = 1
      BY ONLY <3>1
    <3>2. CASE i # 1
      <4>1. i - 1 \in 1 .. k
        BY <3>2
      <4>2. g[i - 1] = f[i - 1]
        <5> HIDE DEF g
        <5> QED BY <2>3, <4>1
      <4> HIDE DEF g
      <4> QED BY ONLY <4>2 DEF value
    <3> QED BY ONLY <3>1, <3>2
  <2>5. g = [i \in 1 .. k + 1 |-> IF i = 1 THEN FirstOf(key, salt) ELSE NextOfHash(key, g[i - 1])]
    <3> DEFINE other(i) == IF i = 1 THEN FirstOf(key, salt) ELSE NextOfHash(key, g[i - 1])
    <3>1. ASSUME NEW i \in 1 .. k + 1 PROVE value(i) = other(i)
      BY <2>4
    <3>2. g = [i \in 1 .. k + 1 |-> value(i)]
      OBVIOUS
    <3> HIDE DEF value, other, g
    <3>3. [i \in 1 .. k + 1 |-> value(i)] = [i \in 1 .. k + 1 |-> other(i)]
      BY <3>1
    <3> QED BY ONLY <3>2, <3>3 DEF other
  <2> HIDE DEF g
  <2>6. ReferenceIs(g, key, salt, k + 1)
    BY ONLY <2>5 DEF ReferenceIs, FirstOf, NextOfHash
  <2> QED BY <2>6
<1> HIDE DEF S
<1>3. \A k \in Nat : k \in S
  BY <1>1, <1>2, SetInduction
<1> QED BY <1>3 DEF S

LEMMA ReferenceSteps ==
  ASSUME NEW key, NEW salt, NEW n \in Nat
  PROVE  /\ Pbkdf2Reference("sha512", key, salt, n) = ReferenceOf(key, salt, n)[n].sum
         /\ n > 0 => ReferenceOf(key, salt, n)[1] = FirstOf(key, salt)
         /\ \A k \in 1 .. n - 1 :
              ReferenceOf(key, salt, n)[k + 1] = NextOfHash(key, ReferenceOf(key, salt, n)[k])
<1> DEFINE f == ReferenceOf(key, salt, n)
<1>1. ReferenceIs(f, key, salt, n)
  BY ReferenceExists DEF ReferenceOf
<1>2. Pbkdf2Reference("sha512", key, salt, n) = f[n].sum
  BY DEF Pbkdf2Reference, ReferenceOf, ReferenceIs
<1> HIDE DEF f
<1>3. f = [i \in 1 .. n |-> IF i = 1 THEN FirstOf(key, salt) ELSE NextOfHash(key, f[i - 1])]
  BY ONLY <1>1 DEF ReferenceIs, FirstOf, NextOfHash
<1>4. n > 0 => f[1] = FirstOf(key, salt)
  <2> SUFFICES ASSUME n > 0 PROVE f[1] = FirstOf(key, salt)
    OBVIOUS
  <2>1. 1 \in 1 .. n
    OBVIOUS
  <2> QED BY ONLY <1>3, <2>1
<1>5. ASSUME NEW k \in 1 .. n - 1 PROVE f[k + 1] = NextOfHash(key, f[k])
  <2>1. k + 1 \in 1 .. n /\ k + 1 # 1 /\ (k + 1) - 1 = k
    OBVIOUS
  <2>2. f[k + 1] = NextOfHash(key, f[(k + 1) - 1])
    BY ONLY <1>3, <2>1
  <2> QED BY ONLY <2>1, <2>2
<1> QED BY <1>2, <1>4, <1>5 DEF f

\* A context whose f is that of a sum, and whose g is the block of a chain.
IsStretch(p) ==
  p = [outer |-> p.outer, inner |-> p.inner, g |-> p.g, f |-> p.f, first |-> p.first]
StateIs(p, key, chain, hash, sum) ==
  /\ IsStretch(p)
  /\ p.outer = Keys(key).outer /\ p.inner = Keys(key).inner
  /\ chain \in Chains /\ p.g = DigestBlock(chain) /\ hash = Digest(chain)
  /\ p.f \in Digests /\ sum = BytesBE(p.f)

LEMMA IterateIs ==
  ASSUME DigestsAreWords, NEW key \in Seq(Nat), NEW p, NEW chain, NEW hash, NEW sum,
         StateIs(p, key, chain, hash, sum),
         NEW next, next = HmacReference("sha512", key, hash)
  PROVE  /\ StateIs(Iterate(p), key, NextChain(key, chain), next, XorDigests(sum, next))
         /\ Iterate(p).first = p.first
<1> DEFINE c == NextChain(key, chain)
           d == DigestWords(c)
           g == DigestBlock(c)
           f == [j \in 1 .. HashWords |-> XorWords(WordBits, p.f[j], g[j])]
           q == Iterate(p)
<1>1. /\ IsStretch(p) /\ p.outer = Keys(key).outer /\ p.inner = Keys(key).inner
      /\ chain \in Chains /\ p.g = DigestBlock(chain) /\ hash = Digest(chain)
      /\ p.f \in Digests /\ sum = BytesBE(p.f)
  BY DEF StateIs
<1>2. c \in Chains /\ next = Digest(c)
  BY <1>1, HmacNext
<1>3. DigestBlock(Append(p.outer, DigestBlock(Append(p.inner, p.g)))) = g
  BY <1>1 DEF NextChain
<1>4. q = [p EXCEPT !.g = g, !.f = Evaluated(f)]
  BY ONLY <1>3 DEF Iterate, q, f
<1> HIDE DEF c
<1>5. /\ d \in Digests /\ Digest(c) = BytesBE(d) /\ g = BlockOf(d)
  BY <1>2, DigestIs DEF Digests
<1> HIDE DEF d
<1>6. \A j \in 1 .. HashWords : g[j] = d[j]
  BY <1>5, BlockOfIs DEF Digests
<1> HIDE DEF g
<1>7. f = [j \in 1 .. HashWords |-> XorWords(WordBits, p.f[j], d[j])]
  BY <1>6
<1> HIDE DEF f
<1> DEFINE e == p.f
<1>8. e \in Digests /\ f = [j \in 1 .. HashWords |-> XorWords(WordBits, e[j], d[j])]
  BY <1>1, <1>7
<1> HIDE DEF e
<1>9. f \in Digests /\ BytesBE(f) = XorDigests(BytesBE(e), BytesBE(d))
  BY ONLY <1>5, <1>8, XorOfDigests
<1>10. Evaluated(f) = f
  <2>1. f \in Seq(WordSet)
    BY <1>9, Stretches DEF Digests
  <2> QED BY <2>1, EvaluatedIs
<1>11. q = [p EXCEPT !.g = g, !.f = f]
  BY ONLY <1>4, <1>10
<1> HIDE DEF q
<1>12. /\ IsStretch(q) /\ q.outer = p.outer /\ q.inner = p.inner /\ q.g = g /\ q.f = f
       /\ q.first = p.first
  BY ONLY <1>1, <1>11 DEF IsStretch
<1>13. XorDigests(sum, next) = BytesBE(f)
  BY ONLY <1>1, <1>2, <1>5, <1>9 DEF e
<1>14. StateIs(q, key, c, next, XorDigests(sum, next))
  BY ONLY <1>1, <1>2, <1>9, <1>12, <1>13 DEF StateIs, g
<1> QED BY ONLY <1>12, <1>14 DEF q, c

\* The state behind k hashes of a seed.
Salt(passphrase) == Prefix \o passphrase
SeedHashes(phrase, passphrase) == ReferenceOf(phrase, Salt(passphrase), Rounds)
SeedOf(phrase, passphrase) == Pbkdf2Reference("sha512", phrase, Salt(passphrase), Rounds)
At(p, phrase, passphrase, k) ==
  \E chain : StateIs(p, phrase, chain, SeedHashes(phrase, passphrase)[k].last,
                     SeedHashes(phrase, passphrase)[k].sum)
Texts == Seq(Nat)

LEMMA SaltIs ==
  ASSUME NEW passphrase \in Texts
  PROVE  Salt(passphrase) \in Seq(Nat) /\ BlockNumber \in Seq(Nat)
<1>1. Prefix \in Seq(Nat) /\ BlockNumber \in Seq(Nat)
  BY DEF Prefix, BlockNumber
<1> QED BY <1>1, Joined DEF Texts, Salt

LEMMA AtBegin ==
  ASSUME DigestsAreWords, NEW phrase \in Texts, NEW passphrase \in Texts
  PROVE  LET p == Pbkdf2Init("sha512", phrase, Prefix \o passphrase, Stack)
         IN At(p, phrase, passphrase, 1) /\ p.first = 1
<1> DEFINE salt == Salt(passphrase)
           keys == Keys(phrase)
           inner == InnerKey(phrase)
           g == FirstBlock("sha512", keys, salt, Stack)
           p == Pbkdf2Context(keys, g)
           msg == salt \o BlockNumber
           c == FirstChain(phrase, msg)
           d == DigestWords(c)
           f == SubSeq(g, 1, HashWords)
           hash == HmacReference("sha512", phrase, msg)
<1>1. Pbkdf2Init("sha512", phrase, Prefix \o passphrase, Stack) = p
  BY DEF Pbkdf2Init, Keys, Salt
<1>2. /\ IsStretch(p) /\ p.outer = keys.outer /\ p.inner = keys.inner /\ p.g = g /\ p.f = f /\ p.first = 1
  BY DEF Pbkdf2Context, IsStretch
<1> HIDE DEF p
<1>3. salt \in Seq(Nat) /\ BlockNumber \in Seq(Nat) /\ msg \in Seq(Nat) /\ phrase \in Seq(Nat)
  BY SaltIs, Joined DEF Texts
<1>4. inner \in Seq(Nat) /\ Len(inner) = BlockLength /\ keys.inner = <<WordsBE(inner)>>
  BY <1>3, KeysAre
<1>5. Stack \in [1 .. BlockLength -> Nat]
  BY BlockSize DEF Stack
<1>6. g = DigestBlock(c)
  <2> DEFINE k == keys.inner
             stack == Stack
             number == BlockNumber
  <2>1. /\ k = <<WordsBE(inner)>> /\ inner \in Seq(Nat) /\ Len(inner) = BlockLength
        /\ salt \in Seq(Nat) /\ number \in Seq(Nat) /\ stack \in [1 .. BlockLength -> Nat]
    BY ONLY <1>3, <1>4, <1>5
  <2> HIDE DEF salt, inner, k, stack, number
  <2>2. SaltFits(inner, k, stack, salt, number)
    BY ONLY <2>1 DEF SaltFits
  <2>3. SaltedChain(k, stack, salt, number) = FinalOf(inner \o (salt \o number))
    BY ONLY <2>2, SaltedIs
  <2> QED BY ONLY <2>3 DEF SaltedChain, FirstBlock, FirstChain, k, inner, stack, number, g, c, msg
<1> HIDE DEF g, salt
<1> HIDE DEF msg
<1>7. c \in Chains /\ hash = Digest(c)
  BY <1>3, HmacFirst
<1> HIDE DEF c
<1>8. d \in Digests /\ Digest(c) = BytesBE(d) /\ g = BlockOf(d)
  BY <1>6, <1>7, DigestIs DEF Digests
<1> HIDE DEF d
<1>9. f = d
  <2>1. /\ HashWords \in Nat /\ BlockWords \in Nat /\ HashWords <= BlockWords
    BY Stretches, SizesAssumption, ByteAssumption
  <2>2. /\ g \in Seq(WordSet) /\ Len(g) = BlockWords
        /\ \A j \in 1 .. HashWords : g[j] = d[j]
    BY <1>8, BlockOfIs DEF Digests
  <2>3. SubSeq(g, 1, HashWords) = [j \in 1 .. HashWords |-> g[j]]
    <3> DEFINE n == HashWords
    <3>1. n \in Nat /\ n <= Len(g)
      BY <2>1, <2>2
    <3> HIDE DEF n
    <3>2. SubSeq(g, 1, n) = [j \in 1 .. (n - 1) + 1 |-> g[(j + 1) - 1]]
      BY <2>2, <3>1
    <3>3. (n - 1) + 1 = n /\ \A j \in 1 .. n : (j + 1) - 1 = j
      BY <3>1
    <3>4. SubSeq(g, 1, n) = [j \in 1 .. n |-> g[j]]
      BY <3>2, <3>3
    <3> QED BY <3>4 DEF n
  <2>4. d = [j \in 1 .. HashWords |-> d[j]]
    BY <1>8 DEF Digests
  <2> QED BY <2>2, <2>3, <2>4
<1> HIDE DEF f
<1>10. StateIs(p, phrase, c, hash, hash)
  BY <1>2, <1>6, <1>7, <1>8, <1>9 DEF StateIs
<1>11. SeedHashes(phrase, passphrase)[1] = FirstOf(phrase, salt)
  <2>1. Rounds \in Nat /\ Rounds > 0
    BY SeedAssumption
  <2> QED BY <2>1, ReferenceSteps DEF SeedHashes, salt
<1>12. FirstOf(phrase, salt).last = hash /\ FirstOf(phrase, salt).sum = hash
  BY DEF FirstOf, msg
<1>13. At(p, phrase, passphrase, 1)
  BY <1>10, <1>11, <1>12 DEF At
<1> QED BY ONLY <1>1, <1>2, <1>13

LEMMA AtNext ==
  ASSUME DigestsAreWords, NEW phrase \in Texts, NEW passphrase \in Texts,
         NEW p, NEW k \in 1 .. Rounds - 1, At(p, phrase, passphrase, k)
  PROVE  At(Iterate(p), phrase, passphrase, k + 1) /\ Iterate(p).first = p.first
<1> DEFINE before == SeedHashes(phrase, passphrase)[k]
           hash == before.last
           sum == before.sum
           next == HmacReference("sha512", phrase, hash)
<1>1. PICK chain : StateIs(p, phrase, chain, hash, sum)
  BY DEF At
<1>2. phrase \in Seq(Nat)
  BY DEF Texts
<1>3. SeedHashes(phrase, passphrase)[k + 1] = NextOfHash(phrase, before)
  <2>1. Rounds \in Nat
    BY SeedAssumption
  <2> QED BY <2>1, ReferenceSteps DEF SeedHashes
<1> HIDE DEF before
<1>4. NextOfHash(phrase, before).last = next /\ NextOfHash(phrase, before).sum = XorDigests(sum, next)
  BY DEF NextOfHash
<1> HIDE DEF hash, sum
<1>5. next = HmacReference("sha512", phrase, hash)
  OBVIOUS
<1> HIDE DEF next
<1>6. /\ StateIs(Iterate(p), phrase, NextChain(phrase, chain), next, XorDigests(sum, next))
      /\ Iterate(p).first = p.first
  BY ONLY DigestsAreWords, <1>1, <1>2, <1>5, IterateIs
<1> QED BY <1>3, <1>4, <1>6 DEF At

UpdatesIs(after, p, n) ==
  after = [i \in 0 .. n |-> IF i <= p.first THEN p ELSE Iterate(after[i - 1])]

LEMMA UpdatesExist ==
  ASSUME NEW p, p.first \in Nat, NEW n \in Nat
  PROVE  \E after : UpdatesIs(after, p, n)
<1> DEFINE S == {k \in Nat : \E after : UpdatesIs(after, p, k)}
           e == p.first
<1>e. e \in Nat
  OBVIOUS
<1>1. 0 \in S
  <2> DEFINE g == [i \in 0 .. 0 |-> p]
  <2>1. ASSUME NEW i \in 0 .. 0 PROVE p = IF i <= e THEN p ELSE Iterate(g[i - 1])
    BY <1>e
  <2>2. UpdatesIs(g, p, 0)
    BY <2>1 DEF UpdatesIs
  <2> QED BY <2>2
<1>2. ASSUME NEW k \in Nat, k \in S PROVE k + 1 \in S
  <2>1. PICK f : UpdatesIs(f, p, k)
    BY <1>2
  <2> DEFINE value(i) == IF i <= e THEN p ELSE Iterate(f[i - 1])
             g == [i \in 0 .. k + 1 |-> value(i)]
  <2>2. f = [i \in 0 .. k |-> value(i)]
    BY ONLY <2>1 DEF UpdatesIs
  <2>3. ASSUME NEW i \in 0 .. k PROVE g[i] = f[i]
    <3>1. i \in 0 .. k + 1
      OBVIOUS
    <3> HIDE DEF value
    <3>2. f[i] = value(i) /\ g[i] = value(i)
      BY ONLY <2>2, <3>1, i \in 0 .. k DEF g
    <3> QED BY <3>2
  <2>4. ASSUME NEW i \in 0 .. k + 1
        PROVE  value(i) = IF i <= e THEN p ELSE Iterate(g[i - 1])
    <3>1. CASE i <= e
      BY ONLY <3>1
    <3>2. CASE ~(i <= e)
      <4>1. i - 1 \in 0 .. k
        BY <1>e, <3>2
      <4>2. g[i - 1] = f[i - 1]
        <5> HIDE DEF g
        <5> QED BY <2>3, <4>1
      <4> HIDE DEF g
      <4> QED BY ONLY <4>2 DEF value
    <3> QED BY ONLY <3>1, <3>2
  <2>5. g = [i \in 0 .. k + 1 |-> IF i <= e THEN p ELSE Iterate(g[i - 1])]
    <3> DEFINE other(i) == IF i <= e THEN p ELSE Iterate(g[i - 1])
    <3>1. ASSUME NEW i \in 0 .. k + 1 PROVE value(i) = other(i)
      BY <2>4
    <3>2. g = [i \in 0 .. k + 1 |-> value(i)]
      OBVIOUS
    <3> HIDE DEF value, other, g
    <3>3. [i \in 0 .. k + 1 |-> value(i)] = [i \in 0 .. k + 1 |-> other(i)]
      BY <3>1
    <3> QED BY ONLY <3>2, <3>3 DEF other
  <2> HIDE DEF g
  <2>6. UpdatesIs(g, p, k + 1)
    BY ONLY <2>5 DEF UpdatesIs
  <2> QED BY <2>6
<1> HIDE DEF S
<1>3. \A k \in Nat : k \in S
  BY <1>1, <1>2, SetInduction
<1> QED BY <1>3 DEF S

\* The hashes behind a context when base + i have been asked for.
Behind(base, i) == IF base + i = 0 THEN 1 ELSE base + i

LEMMA AtUpdate ==
  ASSUME DigestsAreWords, NEW phrase \in Texts, NEW passphrase \in Texts,
         NEW p, NEW base \in Nat, NEW n \in Nat, n > 0, base + n <= Rounds,
         At(p, phrase, passphrase, Behind(base, 0)), p.first = IF base = 0 THEN 1 ELSE 0
  PROVE  At(Pbkdf2Update(p, n), phrase, passphrase, base + n) /\ Pbkdf2Update(p, n).first = 0
<1> DEFINE after == CHOOSE after : UpdatesIs(after, p, n)
           e == p.first
           S == {i \in Nat : i <= n => At(after[i], phrase, passphrase, Behind(base, i))}
<1>1. e \in Nat
  OBVIOUS
<1>2. UpdatesIs(after, p, n)
  BY <1>1, UpdatesExist
<1>3. Pbkdf2Update(p, n) = [after[n] EXCEPT !.first = 0]
  BY DEF Pbkdf2Update, UpdatesIs
<1> HIDE DEF after
<1>4. after = [i \in 0 .. n |-> IF i <= e THEN p ELSE Iterate(after[i - 1])]
  BY <1>2 DEF UpdatesIs
<1>5. e = IF base = 0 THEN 1 ELSE 0
  OBVIOUS
<1> HIDE DEF e
<1>6. 0 \in S
  <2>1. 0 \in 0 .. n /\ 0 <= e
    BY <1>1
  <2>2. after[0] = p
    BY ONLY <1>4, <2>1
  <2> QED BY <2>2
<1>7. ASSUME NEW i \in Nat, i \in S PROVE i + 1 \in S
  <2> SUFFICES ASSUME i + 1 <= n PROVE At(after[i + 1], phrase, passphrase, Behind(base, i + 1))
    OBVIOUS
  <2>1. i + 1 \in 0 .. n /\ (i + 1) - 1 = i /\ i <= n
    OBVIOUS
  <2>2. CASE i + 1 <= e
    <3>1. base = 0 /\ i = 0
      BY <1>5, <2>2
    <3>2. after[i + 1] = p
      BY ONLY <1>4, <2>1, <2>2
    <3>3. Behind(base, i + 1) = Behind(base, 0)
      BY <3>1 DEF Behind
    <3> QED BY <3>2, <3>3
  <2>3. CASE ~(i + 1 <= e)
    <3>1. after[i + 1] = Iterate(after[(i + 1) - 1])
      BY ONLY <1>4, <2>1, <2>3
    <3>2. after[i + 1] = Iterate(after[i])
      BY ONLY <2>1, <3>1
    <3> DEFINE k == base + i
    <3>3. k \in 1 .. Rounds - 1 /\ Behind(base, i) = k /\ Behind(base, i + 1) = k + 1
      BY <1>5, <2>3, SeedAssumption DEF Behind
    <3> HIDE DEF k
    <3>4. At(after[i], phrase, passphrase, k)
      BY <1>7, <2>1, <3>3
    <3> DEFINE q == after[i]
    <3> HIDE DEF q
    <3>5. At(Iterate(q), phrase, passphrase, k + 1)
      BY <3>3, <3>4, AtNext DEF q
    <3> QED BY ONLY <3>2, <3>3, <3>5 DEF q
  <2> QED BY <2>2, <2>3
<1> HIDE DEF S
<1>8. n \in S
  BY <1>6, <1>7, SetInduction
<1> DEFINE q == after[n]
           r == [q EXCEPT !.first = 0]
<1>9. At(q, phrase, passphrase, Behind(base, n)) /\ Behind(base, n) = base + n
  BY <1>8 DEF S, Behind
<1> HIDE DEF q
<1>10. PICK chain : StateIs(q, phrase, chain, SeedHashes(phrase, passphrase)[base + n].last,
                            SeedHashes(phrase, passphrase)[base + n].sum)
  BY <1>9 DEF At
<1>11. /\ r.outer = q.outer /\ r.inner = q.inner /\ r.g = q.g /\ r.f = q.f /\ r.first = 0
       /\ IsStretch(r)
  <2>1. IsStretch(q)
    BY <1>10 DEF StateIs
  <2> QED BY ONLY <2>1 DEF IsStretch
<1> HIDE DEF r
<1>12. StateIs(r, phrase, chain, SeedHashes(phrase, passphrase)[base + n].last,
                  SeedHashes(phrase, passphrase)[base + n].sum)
  BY ONLY <1>10, <1>11 DEF StateIs
<1>13. At(r, phrase, passphrase, base + n)
  BY <1>12 DEF At
<1> QED BY ONLY <1>3, <1>11, <1>13 DEF r, q

LEMMA AtEnd ==
  ASSUME NEW phrase, NEW passphrase, NEW p, At(p, phrase, passphrase, Rounds)
  PROVE  Pbkdf2Final(p) = SeedOf(phrase, passphrase)
<1> DEFINE sum == SeedHashes(phrase, passphrase)[Rounds].sum
           f == p.f
<1>1. f \in Digests /\ sum = BytesBE(f)
  BY DEF At, StateIs
<1>2. sum = SeedOf(phrase, passphrase)
  <2>1. Rounds \in Nat
    BY SeedAssumption
  <2> QED BY <2>1, ReferenceSteps DEF SeedHashes, SeedOf
<1>3. Pbkdf2Final(p) = Evaluated(BytesBE(f))
  BY DEF Pbkdf2Final
<1> HIDE DEF f, sum
<1>4. f \in Seq(Nat) /\ Len(f) = HashWords /\ HashWords \in Nat
  <2>1. HashWords \in Nat /\ \A x \in WordSet : x \in Nat
    BY Stretches, Sizes DEF WordSet
  <2> QED BY ONLY <1>1, <2>1 DEF Digests
<1>5. BytesBE(f) \in Seq(Nat)
  BY <1>4, BytesAre
<1>6. Evaluated(BytesBE(f)) = BytesBE(f)
  BY <1>5, EvaluatedIs
<1> QED BY ONLY <1>1, <1>2, <1>3, <1>6

-----------------------------------------------------------------------------
(* The seeds of mnemonic_to_seed: what the cache keeps is defined, and so    *)
(* far as a phrase is stretched, its hashes are those of the definition.     *)

PartRounds == Rounds \div Parts
RoundsBehind(part) == part * PartRounds

IsCall(c) ==
  c = [phrase |-> c.phrase, passphrase |-> c.passphrase, pctx |-> c.pctx, part |-> c.part,
       hit |-> c.hit, seed |-> c.seed, at |-> c.at]
Defined(e) == e.seed = SeedOf(e.phrase, e.passphrase)
Stretching(c) ==
  /\ c.phrase \in Texts /\ c.passphrase \in Texts /\ c.part \in 0 .. Parts
  /\ At(c.pctx, c.phrase, c.passphrase, Behind(RoundsBehind(c.part), 0))
  /\ c.pctx.first = IF c.part = 0 THEN 1 ELSE 0
CacheIsDefined == \A i \in DOMAIN seedCache : seedCache[i].set => Defined(seedCache[i])

SeedInv ==
  /\ IsCall(seedCall)
  /\ CacheIsDefined
  /\ seedCall.at = "stretch" => Stretching(seedCall)
  /\ seedCall.at = "idle" /\ seedCall.seed # NoSeed => Defined(seedCall)

LEMMA RoundsFit ==
  /\ PartRounds \in Nat /\ PartRounds > 0
  /\ RoundsBehind(0) = 0 /\ RoundsBehind(Parts) = Rounds
  /\ \A part \in 0 .. Parts - 1 :
       /\ RoundsBehind(part) \in Nat /\ RoundsBehind(part + 1) = RoundsBehind(part) + PartRounds
       /\ RoundsBehind(part) + PartRounds <= Rounds
       /\ RoundsBehind(part) = 0 <=> part = 0
<1> DEFINE m == Rounds \div Parts
<1>1. /\ Rounds \in Nat /\ Rounds > 0 /\ Parts \in Nat /\ Parts > 0 /\ Rounds % Parts = 0
  BY SeedAssumption
<1>2. m \in Nat /\ Rounds = Parts * m
  <2>1. m \in Nat /\ Rounds = m * Parts + (Rounds % Parts)
    BY ONLY <1>1, QuotientOf
  <2> HIDE DEF m
  <2>2. Parts * m = m * Parts /\ m * Parts \in Nat
    BY ONLY <1>1, <2>1
  <2> DEFINE product == m * Parts
  <2>3. product \in Nat /\ Rounds = product + 0 /\ Parts * m = product
    BY ONLY <1>1, <2>1, <2>2
  <2> HIDE DEF product
  <2>4. Rounds = Parts * m
    BY ONLY <2>3
  <2> QED BY ONLY <2>1, <2>4
<1> HIDE DEF m
<1>3. m > 0
  BY ONLY <1>1, <1>2
<1>4. ASSUME NEW part \in 0 .. Parts - 1
      PROVE  /\ part * m \in Nat /\ (part + 1) * m = part * m + m
             /\ part * m + m <= Rounds /\ (part * m = 0 <=> part = 0)
  <2>1. part \in Nat /\ part + 1 <= Parts
    BY ONLY <1>1, <1>4
  <2>2. part * m \in Nat /\ (part + 1) * m = part * m + m
    BY ONLY <1>2, <2>1
  <2>3. (part + 1) * m <= Parts * m
    BY ONLY <1>1, <1>2, <2>1, SMTT(30)
  <2>4. part # 0 => part * m > 0
    BY ONLY <1>2, <1>3, <2>1, SMTT(30)
  <2> QED BY ONLY <1>1, <1>2, <2>1, <2>2, <2>3, <2>4
<1>5. 0 * m = 0
  BY ONLY <1>2
<1> QED BY ONLY <1>2, <1>3, <1>4, <1>5 DEF PartRounds, RoundsBehind, m

LEMMA SeedBegins == SeedInit => SeedInv
BY DEF SeedInit, SeedInv, IsCall, CacheIsDefined, Unset, NoSeed

LEMMA TextsAre ==
  ASSUME NEW phrase \in Phrases, NEW passphrase \in Passphrases
  PROVE  phrase \in Texts /\ passphrase \in Texts
<1>1. phrase \in Seq(Byte) /\ passphrase \in Seq(Byte)
  BY SeedAssumption
<1>2. \A b \in Byte : b \in Nat
  BY DEF Byte
<1>3. \A s \in Seq(Byte) : s \in Seq(Nat)
  BY ONLY <1>2
<1> QED BY <1>1, <1>3 DEF Texts

LEMMA FindKeeps ==
  ASSUME SeedInv, NEW phrase, NEW passphrase, FindSeed(phrase, passphrase)
  PROVE  SeedInv'
<1>1. PICK i \in DOMAIN seedCache :
        /\ Matches(seedCache[i], phrase, passphrase)
        /\ seedCall' = [seedCall EXCEPT !.phrase = phrase, !.passphrase = passphrase,
                                        !.hit = TRUE, !.seed = seedCache[i].seed]
  <2>1. PICK i \in Hits(phrase, passphrase) :
          /\ \A j \in Hits(phrase, passphrase) : i <= j
          /\ seedCall' = [seedCall EXCEPT !.phrase = phrase, !.passphrase = passphrase,
                                          !.hit = TRUE, !.seed = seedCache[i].seed]
    BY ZenonT(30) DEF FindSeed
  <2>2. i \in DOMAIN seedCache /\ Matches(seedCache[i], phrase, passphrase)
    BY <2>1 DEF Hits
  <2> QED BY ONLY <2>1, <2>2, ZenonT(30)
<1>2. IsCall(seedCall) /\ seedCall.at = "idle" /\ seedCache' = seedCache
  BY DEF FindSeed, SeedInv
<1>3. /\ seedCall'.phrase = phrase /\ seedCall'.passphrase = passphrase
      /\ seedCall'.seed = seedCache[i].seed /\ seedCall'.at = "idle" /\ IsCall(seedCall')
  BY ONLY <1>1, <1>2 DEF IsCall
<1>4. Defined(seedCache[i]) /\ seedCache[i].phrase = phrase /\ seedCache[i].passphrase = passphrase
  BY <1>1 DEF SeedInv, CacheIsDefined, Matches
<1>5. Defined(seedCall')
  BY ONLY <1>3, <1>4 DEF Defined
<1>6. CacheIsDefined'
  BY ONLY <1>2, SeedInv DEF SeedInv, CacheIsDefined
<1> QED BY ONLY <1>3, <1>5, <1>6 DEF SeedInv

LEMMA StretchBegins ==
  ASSUME DigestsAreWords, SeedInv, NEW phrase \in Texts, NEW passphrase \in Texts,
         StretchSeed(phrase, passphrase)
  PROVE  SeedInv'
<1> DEFINE p == Pbkdf2Init("sha512", phrase, Prefix \o passphrase, Stack)
<1>1. /\ seedCall' = [phrase |-> phrase, passphrase |-> passphrase, pctx |-> p,
                      part |-> 0, hit |-> FALSE, seed |-> NoSeed, at |-> "stretch"]
      /\ seedCache' = seedCache
  BY DEF StretchSeed
<1>2. At(p, phrase, passphrase, 1) /\ p.first = 1
  BY AtBegin
<1> HIDE DEF p
<1>3. /\ seedCall'.phrase = phrase /\ seedCall'.passphrase = passphrase /\ seedCall'.pctx = p
      /\ seedCall'.part = 0 /\ seedCall'.at = "stretch" /\ IsCall(seedCall')
  BY ONLY <1>1 DEF IsCall
<1>4. Behind(RoundsBehind(0), 0) = 1 /\ 0 \in 0 .. Parts
  BY RoundsFit, SeedAssumption DEF Behind
<1>5. Stretching(seedCall')
  BY ONLY <1>2, <1>3, <1>4, phrase \in Texts, passphrase \in Texts DEF Stretching
<1>6. CacheIsDefined'
  BY ONLY <1>1, SeedInv DEF SeedInv, CacheIsDefined
<1> QED BY ONLY <1>3, <1>5, <1>6 DEF SeedInv

LEMMA PartKeeps ==
  ASSUME DigestsAreWords, SeedInv, StretchPart
  PROVE  SeedInv'
<1> DEFINE p == seedCall.pctx
           part == seedCall.part
           phrase == seedCall.phrase
           passphrase == seedCall.passphrase
           base == RoundsBehind(part)
           m == PartRounds
           q == Pbkdf2Update(p, m)
<1>1. /\ IsCall(seedCall) /\ Stretching(seedCall) /\ seedCall.at = "stretch" /\ part < Parts
      /\ seedCall' = [seedCall EXCEPT !.pctx = q, !.part = part + 1]
      /\ seedCache' = seedCache
  BY DEF SeedInv, StretchPart, PartRounds
<1>2. /\ phrase \in Texts /\ passphrase \in Texts /\ part \in 0 .. Parts
      /\ At(p, phrase, passphrase, Behind(base, 0)) /\ p.first = IF part = 0 THEN 1 ELSE 0
  BY <1>1 DEF Stretching
<1>3. /\ seedCall'.phrase = phrase /\ seedCall'.passphrase = passphrase /\ seedCall'.pctx = q
      /\ seedCall'.part = part + 1 /\ seedCall'.at = "stretch" /\ IsCall(seedCall')
  BY ONLY <1>1 DEF IsCall
<1> HIDE DEF p, part, phrase, passphrase
<1>4. part \in 0 .. Parts - 1 /\ part + 1 \in 0 .. Parts /\ part + 1 # 0
  BY <1>1, <1>2, SeedAssumption
<1>5. /\ base \in Nat /\ m \in Nat /\ m > 0 /\ base + m <= Rounds
      /\ RoundsBehind(part + 1) = base + m /\ (base = 0 <=> part = 0)
  BY ONLY <1>4, RoundsFit
<1> HIDE DEF base, m
<1>6. p.first = IF base = 0 THEN 1 ELSE 0
  BY ONLY <1>2, <1>5
<1>7. At(q, phrase, passphrase, base + m) /\ q.first = 0
  BY ONLY DigestsAreWords, <1>2, <1>5, <1>6, AtUpdate
<1> HIDE DEF q
<1>8. Behind(RoundsBehind(part + 1), 0) = base + m
  BY ONLY <1>5 DEF Behind
<1>9. Stretching(seedCall')
  BY ONLY <1>2, <1>3, <1>4, <1>7, <1>8 DEF Stretching
<1>10. CacheIsDefined'
  BY ONLY <1>1, SeedInv DEF SeedInv, CacheIsDefined
<1> QED BY ONLY <1>3, <1>9, <1>10 DEF SeedInv

LEMMA KeepKeeps ==
  ASSUME SeedInv, KeepSeed
  PROVE  SeedInv'
<1> DEFINE seed == Pbkdf2Final(seedCall.pctx)
           entry == [set |-> TRUE, phrase |-> seedCall.phrase,
                     passphrase |-> seedCall.passphrase, seed |-> seed]
<1>1. /\ IsCall(seedCall) /\ Stretching(seedCall) /\ seedCall.part = Parts
      /\ seedCall' = [seedCall EXCEPT !.seed = seed, !.pctx = <<>>, !.at = "idle"]
      /\ \/ seedCache' = [seedCache EXCEPT ![seedIndex] = entry]
         \/ seedCache' = seedCache
  BY DEF SeedInv, KeepSeed
<1>2. seed = SeedOf(seedCall.phrase, seedCall.passphrase)
  <2>1. Behind(RoundsBehind(Parts), 0) = Rounds
    BY RoundsFit, SeedAssumption DEF Behind
  <2>2. At(seedCall.pctx, seedCall.phrase, seedCall.passphrase, Rounds)
    BY ONLY <1>1, <2>1 DEF Stretching
  <2> QED BY ONLY <2>2, AtEnd DEF seed
<1> HIDE DEF seed
<1>3. /\ seedCall'.phrase = seedCall.phrase /\ seedCall'.passphrase = seedCall.passphrase
      /\ seedCall'.seed = seed /\ seedCall'.at = "idle" /\ IsCall(seedCall')
  BY ONLY <1>1 DEF IsCall
<1>4. Defined(seedCall')
  BY ONLY <1>2, <1>3 DEF Defined
<1>5. Defined(entry)
  BY ONLY <1>2 DEF Defined, entry
<1> HIDE DEF entry
<1>6. CacheIsDefined'
  BY ONLY <1>1, <1>5, SeedInv DEF SeedInv, CacheIsDefined
<1> QED BY ONLY <1>3, <1>4, <1>6 DEF SeedInv

LEMMA SeedKept ==
  ASSUME DigestsAreWords, SeedInv, [SeedNext]_seedVars
  PROVE  SeedInv'
<1>1. ASSUME NEW phrase \in Phrases, NEW passphrase \in Passphrases,
             FindSeed(phrase, passphrase) \/ StretchSeed(phrase, passphrase)
      PROVE  SeedInv'
  BY <1>1, TextsAre, FindKeeps, StretchBegins
<1>2. CASE StretchPart
  BY <1>2, PartKeeps
<1>3. CASE KeepSeed
  BY <1>3, KeepKeeps
<1>4. CASE UNCHANGED seedVars
  BY <1>4 DEF seedVars, SeedInv, CacheIsDefined
<1> QED BY <1>1, <1>2, <1>3, <1>4 DEF SeedNext

\* Every seed that mnemonic_to_seed returns, computed in parts or found in the ring of the
\* last seeds, is the one BIP-39 defines for its phrase and passphrase, for every hash
\* whose digests are words, every number of rounds and of parts, and every size of the ring.
THEOREM SeedComputed ==
  ASSUME DigestsAreWords
  PROVE  SeedSpec => []SeedIsDefined
<1>1. SeedInv => SeedIsDefined
  BY DEF SeedInv, Defined, SeedOf, Salt, SeedIsDefined
<1>2. SeedInv /\ [SeedNext]_seedVars => SeedInv'
  BY SeedKept
<1> QED BY <1>1, <1>2, SeedBegins, PTL DEF SeedSpec

=============================================================================

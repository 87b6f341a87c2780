--------------------------- MODULE MCComputations ---------------------------
(* An instance of Computations for TLC.                                     *)
EXTENDS Computations, MCTransactionDetails

\* Hashing, with bytes of 4 bits and words of 8.
SomeLetters == Evaluated([i \in 1 .. 76 |-> (i * 7 + i \div 5) % 16])

\* In the place of the compression functions: words that depend on every word.
MixedWords(chain) ==
  LET mixed[b \in 1 .. Len(chain) + 1, w \in 1 .. BlockWords, sum \in Nat] ==
        IF b > Len(chain) THEN sum
        ELSE mixed[IF w = BlockWords THEN b + 1 ELSE b, (w % BlockWords) + 1,
                   (sum * 31 + chain[b][w] + 7) % 65521]
      all == mixed[1, 1, 17]
  IN Evaluated([j \in 1 .. HashWords |-> ((all * (2 * j + 1)) \div (3 * j)) % Radix])
SomePhrases == {<<1, 2, 3>>, <<2, 1, 3, 5>>, Evaluated([i \in 1 .. 18 |-> i % 16])}
SomePassphrases == {<<>>, <<5>>, Evaluated([i \in 1 .. 9 |-> i])}

-----------------------------------------------------------------------------
\* Numbers of 22 bits in three limbs of 9, with a prime and an order above 2^22 - 2^11.
CurveZero == [prime |-> 4194007, order |-> 4192753, a |-> 0, b |-> 5, G |-> <<2, 457399>>]
CurveThree == [prime |-> 4194007, order |-> 4192339, a |-> -3, b |-> 59, G |-> <<1, 2150983>>]
PrimeIs == CurveZero.prime
OrderIs == CurveZero.order

BothModuli == {PrimeIs, OrderIs}
SomeWords ==
  {<<high, low>> : high \in {0, 1, 2047}, low \in {0, 1, 2047}}
    \cup {<<1023, 2047>>, <<2047, PrimeIs % 2048>>, <<2047, (PrimeIs % 2048) - 1>>,
          <<2047, OrderIs % 2048>>}
\* Around the moduli and the limbs' bounds, and the largest in three limbs.
SomeOperands ==
  {0, 1, 511, 512, OrderIs - 1, OrderIs, PrimeIs - 1, PrimeIs, 2 * OrderIs - 1,
   2 * PrimeIs - 1, 4194303, 134217727, 3 * PrimeIs}

\* Inverses in three words of 4 bits.
SomeInputs ==
  {[prime |-> 4093, x |-> n] : n \in {m \in 1 .. 4092 : m % 17 = 1 \/ m < 20}}
    \cup {[prime |-> 4091, x |-> n] : n \in {2048, 3585, 4090, 1, 2, 3}}
    \cup {[prime |-> 3329, x |-> n] : n \in {2048, 1024, 512, 64, 1, 2, 3}}

BothCurves == {CurveZero, CurveThree}
SomeZs == {NumberOf(n) : n \in {262144, 524287, 8 * 262144 + 77777}}
\* The ends, and those where the last addition of scalar_multiply is a doubling.
SomeFactors ==
  0 .. 4
    \cup UNION {{n - 1, n - 2} : n \in {OrderIs, CurveThree.order}}
    \cup {3123456, 222222}
    \cup {(2 * d * 4 ^ 10) % n : d \in {1, 3, -1, -3}, n \in {OrderIs, CurveThree.order}}
OneCurve == {CurveZero}

-----------------------------------------------------------------------------
\* Keys: a mac whose left half is often no key, on a group of seven points; it is never
\* refused for ever.
SomeMac(key, data) ==
  LET told == IF DOMAIN data = {"left", "right"} THEN data.left + 3 * data.right
                ELSE data[1] * 5 + data[2] * 3 + data[3] * 7
      hash == (8 * told * told + 9 * told + key + 2) % 39
  IN [left |-> hash % 13, right |-> hash \div 13]
SomeSeeds == {[left |-> 7, right |-> 0], [left |-> 7, right |-> 1]}
SomePaths == {<<0, 0>>, <<8, 0>>, <<0, 0, 0>>, <<0, 8, 0>>}

-----------------------------------------------------------------------------
\* Texts, with 32 for 256 and 13 for 58.
Weighted(s) ==
  LET sum[i \in 0 .. Len(s)] == IF i = 0 THEN 3 ELSE (sum[i - 1] * 7 + s[i] + 1) % 961
  IN sum[Len(s)]
SomeCheck(data) == <<1 + (Weighted(data) % 31), Weighted(data) \div 31, Weighted(data) % 7, 0>>
SomeKeyHash(key) == <<Weighted(key) % 32, Weighted(key) % 5>>
SomeHashByte(data) == (Weighted(data) * 5) % 256
SomeData ==
  UNION {[1 .. n -> {0, 1, 31}] : n \in 0 .. 3} \cup {<<17, 0, 31, 5, 9>>, <<0, 0, 0, 4, 31, 31, 31>>}
SomeKeys == {<<0, 5>>, <<31, 2>>, <<7, 7>>}
\* Where the version takes one byte more, and data of each length of a phrase.
SomeVersions == {0, 9, 31, 32, 1023, 1024, 40000}
SomePhraseData ==
  {Evaluated([i \in 1 .. n |-> (i * m + c) % 256]) :
     n \in {15, 16, 20, 24, 28, 32}, m \in {0, 37}, c \in {0, 255}}
SomeParts == [1 .. 2 -> {0, 1, 15, 16, 31}]

-----------------------------------------------------------------------------
\* The modes, with a cipher of four bytes of 4 bits, and its inverse.
SomeCipher(b) ==
  <<(b[1] * 3 + b[2] + 1) % 16, (b[2] + 2) % 16, (b[3] + b[1] + 1) % 16, (b[4] + b[2] + 3) % 16>>
SomeDecipher(b) ==
  LET second == (b[2] + 14) % 16
      first == ((b[1] + 31 - second) * 11) % 16
  IN <<first, second, (b[3] + 31 - first) % 16, (b[4] + 29 - second) % 16>>
SomePlainText == Evaluated([i \in 1 .. 22 |-> (i * i + i \div 3) % 16])
SomeIv == <<15, 15, 15, 14>>

\* The block functions in their full size.
SomeConstant(width, j) == {i \in 0 .. width - 1 : ((i * i + 3 * i * j + j) % 7) < 3}
SomeInput(n, width, t) ==
  Evaluated([i \in 1 .. n |-> {b \in 0 .. width - 1 : ((b * b * i + (3 + t) * b + 5 * i) % 11) < 5}])
KeyWords(n, s) ==
  Evaluated([i \in 1 .. n |->
    Evaluated([j \in 1 .. 4 |-> WordOf((i * 37 * s + j * 91 * (s + 1)) % 256, 8)])])
SomeCipherKeys == {KeyWords(4, 1), KeyWords(6, 2), KeyWords(8, 3)}
SomeBlock == KeyWords(4, 6)

=============================================================================

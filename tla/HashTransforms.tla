--------------------------- MODULE HashTransforms ---------------------------
(* The compression functions: sha256_Transform and sha512_Transform         *)
(* (sha2.c), ripemd160_process (ripemd160.c) and sha3_process_block         *)
(* (sha3.c), on words of their true width, each a set of bits. The round    *)
(* constants of SHA-2 are a parameter, those of Keccak the code's.          *)
EXTENDS BitWords, FiniteSets

CONSTANT RoundConstant(_, _)    \* K256 and K512, by the width of the words and the round

Bitset(width) == SUBSET (0 .. width - 1)

AddAll(words, width) ==
  LET sum[i \in 1 .. Len(words), w \in Bitset(width)] ==
        IF i = Len(words) THEN w ELSE sum[i + 1, Add(w, words[i + 1], width)]
  IN sum[1, words[1]]

-----------------------------------------------------------------------------
(* SHA-256 and SHA-512 differ in the width, the rounds and the amounts.     *)

Sha256 == [width |-> 32, rounds |-> 64, Sigma0 |-> <<2, 13, 22>>, Sigma1 |-> <<6, 11, 25>>,
           sigma0 |-> <<7, 18, 3>>, sigma1 |-> <<17, 19, 10>>]
Sha512 == [width |-> 64, rounds |-> 80, Sigma0 |-> <<28, 34, 39>>, Sigma1 |-> <<14, 18, 41>>,
           sigma0 |-> <<1, 8, 7>>, sigma1 |-> <<19, 61, 6>>]

Ch(x, y, z)  == Xor(x \cap y, z \ x)
Maj(x, y, z) == Xor(Xor(x \cap y, x \cap z), y \cap z)

\* The capital sigmas rotate three times, the small ones shift the third time.
Sigma(by, x, width) ==
  Xor(Xor(RotateRight(x, by[1], width), RotateRight(x, by[2], width)), RotateRight(x, by[3], width))
SmallSigma(by, x, width) ==
  Xor(Xor(RotateRight(x, by[1], width), RotateRight(x, by[2], width)), ShiftRight(x, by[3]))

T1(p, e, f, g, h, j, word) ==
  AddAll(<<h, Sigma(p.Sigma1, e, p.width), Ch(e, f, g), RoundConstant(p.width, j), word>>, p.width)
T2(p, a, b, c) == Add(Sigma(p.Sigma0, a, p.width), Maj(a, b, c), p.width)

Sha2Round(p, r, j, word) ==
  LET t == T1(p, r[5], r[6], r[7], r[8], j, word)
  IN <<Add(t, T2(p, r[1], r[2], r[3]), p.width), r[1], r[2], r[3],
       Add(r[4], t, p.width), r[5], r[6], r[7]>>

\* A mutant: the words are expanded with the one before.
ExpandOff(p, w, j) ==
  LET at(i) == w[((j + i) % 16) + 1]
  IN AddAll(<<at(0), SmallSigma(p.sigma1, at(14), p.width), at(8),
              SmallSigma(p.sigma0, at(1), p.width)>>, p.width)

\* The next word of the message block, from the ring of the last sixteen.
Expand(p, w, j) ==
  LET at(i) == w[((j + i) % 16) + 1]
  IN AddAll(<<at(0), SmallSigma(p.sigma1, at(14), p.width), at(9),
              SmallSigma(p.sigma0, at(1), p.width)>>, p.width)

Sha2Transform(p, state, data) ==
  LET round[j \in 0 .. p.rounds, w \in Seq(Bitset(64)), r \in Seq(Bitset(64))] ==
        IF j = p.rounds THEN r
        ELSE IF j < 16 THEN round[j + 1, w, Sha2Round(p, r, j, data[j + 1])]
        ELSE LET word == Expand(p, w, j)
             IN round[j + 1, [w EXCEPT ![(j % 16) + 1] = word], Sha2Round(p, r, j, word)]
      last == round[0, data, state]
  IN Evaluated([i \in 1 .. 8 |-> Add(state[i], last[i], p.width)])

-----------------------------------------------------------------------------
(* RIPEMD-160: two lines of 80 steps. A row of a table for 16 steps of the  *)
(* left line: the words they take and how far they rotate; of the right.    *)

Word1  == <<
  << 0,  1,  2,  3,  4,  5,  6,  7,  8,  9, 10, 11, 12, 13, 14, 15>>,
  << 7,  4, 13,  1, 10,  6, 15,  3, 12,  0,  9,  5,  2, 14, 11,  8>>,
  << 3, 10, 14,  4,  9, 15,  8,  1,  2,  7,  0,  6, 13, 11,  5, 12>>,
  << 1,  9, 11, 10,  0,  8, 12,  4, 13,  3,  7, 15, 14,  5,  6,  2>>,
  << 4,  0,  5,  9,  7, 12,  2, 10, 14,  1,  3,  8, 11,  6, 15, 13>>>>
Shift1 == <<
  <<11, 14, 15, 12,  5,  8,  7,  9, 11, 13, 14, 15,  6,  7,  9,  8>>,
  << 7,  6,  8, 13, 11,  9,  7, 15,  7, 12, 15,  9, 11,  7, 13, 12>>,
  <<11, 13,  6,  7, 14,  9, 13, 15, 14,  8, 13,  6,  5, 12,  7,  5>>,
  <<11, 12, 14, 15, 14, 15,  9,  8,  9, 14,  5,  6,  8,  6,  5, 12>>,
  << 9, 15,  5, 11,  6,  8, 13, 12,  5, 12, 13, 14, 11,  8,  5,  6>>>>
Word2  == <<
  << 5, 14,  7,  0,  9,  2, 11,  4, 13,  6, 15,  8,  1, 10,  3, 12>>,
  << 6, 11,  3,  7,  0, 13,  5, 10, 14, 15,  8, 12,  4,  9,  1,  2>>,
  <<15,  5,  1,  3,  7, 14,  6,  9, 11,  8, 12,  2, 10,  0,  4, 13>>,
  << 8,  6,  4,  1,  3, 11, 15,  0,  5, 12,  2, 13,  9,  7, 10, 14>>,
  <<12, 15, 10,  4,  1,  5,  8,  7,  6,  2, 13, 14,  0,  3,  9, 11>>>>
Shift2 == <<
  << 8,  9,  9, 11, 13, 15, 15,  5,  7,  7,  8, 11, 14, 14, 12,  6>>,
  << 9, 13, 15,  7, 12,  8,  9, 11,  7,  7, 12,  7,  6, 15, 13, 11>>,
  << 9,  7, 15, 11,  8,  6,  6, 14, 12, 13,  5, 14, 13, 13,  7,  5>>,
  <<15,  5,  8, 11, 14, 14,  6, 14,  6,  9, 12,  9, 12,  5, 15,  8>>,
  << 8,  5, 12,  9, 12,  5, 14,  6,  8, 13,  6,  5, 15, 13, 11, 11>>>>

Line(f, x, y, z) ==
  CASE f = 1 -> Xor(Xor(x, y), z)
    [] f = 2 -> (x \cap y) \cup (z \ x)
    [] f = 3 -> Xor(x \cup Complement(y, 32), z)
    [] f = 4 -> (x \cap z) \cup (y \ z)
    [] f = 5 -> Xor(x, y \cup Complement(z, 32))

\* P, and the turn of the names from one line of the code to the next.
Step(r, f, word, by, k) ==
  LET a == Add(RotateLeft(AddAll(<<r[1], Line(f, r[2], r[3], r[4]), word, k>>, 32), by, 32), r[5], 32)
  IN <<r[5], a, r[2], RotateLeft(r[3], 10, 32), r[4]>>

\* K and Kp, by sixteen steps.
Left(k)  == <<{}, k[1], k[2], k[3], k[4]>>
Right(k) == <<k[5], k[6], k[7], k[8], {}>>

ripemd160_process(state, x, k) ==
  LET step[j \in 0 .. 80, r \in Seq(Bitset(32)), rp \in Seq(Bitset(32))] ==
        IF j = 80 THEN <<r, rp>>
        ELSE LET n == (j \div 16) + 1
                 i == (j % 16) + 1
             IN step[j + 1, Step(r, n, x[Word1[n][i] + 1], Shift1[n][i], Left(k)[n]),
                            Step(rp, 6 - n, x[Word2[n][i] + 1], Shift2[n][i], Right(k)[n])]
      l == step[0, state, state][1]
      r == step[0, state, state][2]
      sum(i, j, m) == AddAll(<<state[i], l[j], r[m]>>, 32)
  IN <<sum(2, 3, 4), sum(3, 4, 5), sum(4, 5, 1), sum(5, 1, 2), sum(1, 2, 3)>>

-----------------------------------------------------------------------------
(* Keccak: 25 words, word x + 5 * y of the code being number x + 5 * y + 1. *)

keccak_round_constants == <<{0}, {1, 7, 15}, {1, 3, 7, 15, 63}, {15, 31, 63},
  {0, 1, 3, 7, 15}, {0, 31}, {0, 7, 15, 31, 63}, {0, 3, 15, 63},
  {1, 3, 7}, {3, 7}, {0, 3, 15, 31}, {1, 3, 31},
  {0, 1, 3, 7, 15, 31}, {0, 1, 3, 7, 63}, {0, 3, 7, 15, 63}, {0, 1, 15, 63},
  {1, 15, 63}, {7, 63}, {1, 3, 15}, {1, 3, 31, 63},
  {0, 7, 15, 31, 63}, {7, 15, 63}, {0, 31}, {3, 15, 31, 63}>>

\* How far rho rotates each word, and the cycle along which pi moves them.
Rho == <<0, 1, 62, 28, 27, 36, 44, 6, 55, 20, 3, 10, 43, 25, 39, 41, 45, 15, 21, 8, 18, 2, 61, 56, 14>>
PiCycle == <<1, 6, 9, 22, 14, 20, 2, 12, 13, 19, 23, 15, 4, 24, 21, 8, 16, 5, 3, 18, 17, 11, 7, 10>>

Words25(word(_)) == Evaluated([i \in 1 .. 25 |-> word(i)])

keccak_theta(a) ==
  LET c == Evaluated([x \in 1 .. 5 |-> Xor(Xor(Xor(Xor(a[x], a[x + 5]), a[x + 10]), a[x + 15]), a[x + 20])])
      d == Evaluated([x \in 1 .. 5 |-> Xor(RotateLeft(c[(x % 5) + 1], 1, 64), c[((x + 3) % 5) + 1])])
      word(i) == Xor(a[i], d[((i - 1) % 5) + 1])
  IN Words25(word)

keccak_rho(a) == LET word(i) == RotateLeft(a[i], Rho[i], 64) IN Words25(word)

keccak_pi(a) ==
  LET from(i) == PiCycle[((CHOOSE n \in 1 .. 24 : PiCycle[n] = i) % 24) + 1]
      word(i) == IF i = 1 THEN a[1] ELSE a[from(i - 1) + 1]
  IN Words25(word)

keccak_chi(a) ==
  LET word(i) == LET row == 5 * ((i - 1) \div 5)
                     at(n) == a[row + ((i + n - 1) % 5) + 1]
                 IN Xor(a[i], at(2) \ at(1))
  IN Words25(word)

sha3_permutation(state) ==
  LET round[n \in 0 .. 24, a \in Seq(Bitset(64))] ==
        IF n = 24 THEN a
        ELSE round[n + 1, [keccak_chi(keccak_pi(keccak_rho(keccak_theta(a))))
                             EXCEPT ![1] = Xor(@, keccak_round_constants[n + 1])]]
  IN round[0, state]

\* The words of a block that are taken in, by its size in bytes.
WordsTaken(size) == IF size <= 72 THEN 9 ELSE IF size <= 104 THEN 13 ELSE IF size <= 136 THEN 17 ELSE 18

sha3_process_block(state, block, size) ==
  sha3_permutation(Evaluated([i \in 1 .. 25 |->
    IF i <= WordsTaken(size) THEN Xor(state[i], block[i]) ELSE state[i]]))

-----------------------------------------------------------------------------
(* The functions as their standards define them.                            *)

\* FIPS 180-4: all words of the message schedule first, and the registers as two
\* recurrences, a and e, of which the others are earlier values.
Sha2Defined(p, state, data) ==
  LET schedule[t \in 16 .. p.rounds, w \in Seq(Bitset(64))] ==
        IF t = p.rounds THEN w
        ELSE schedule[t + 1, Append(w,
               AddAll(<<SmallSigma(p.sigma1, w[t - 1], p.width), w[t - 6],
                        SmallSigma(p.sigma0, w[t - 14], p.width), w[t - 15]>>, p.width))]
      w == schedule[16, data]
      run[t \in 0 .. p.rounds, a \in Seq(Bitset(64)), e \in Seq(Bitset(64))] ==
        IF t = p.rounds THEN <<a, e>>
        ELSE LET t1 == T1(p, e[t + 4], e[t + 3], e[t + 2], e[t + 1], t, w[t + 1])
             IN run[t + 1, Append(a, Add(t1, T2(p, a[t + 4], a[t + 3], a[t + 2]), p.width)),
                           Append(e, Add(a[t + 1], t1, p.width))]
      end == run[0, <<state[4], state[3], state[2], state[1]>>, <<state[8], state[7], state[6], state[5]>>]
      n   == p.rounds + 5
  IN Evaluated([i \in 1 .. 8 |->
       Add(state[i], IF i <= 4 THEN end[1][n - i] ELSE end[2][n - i + 4], p.width)])

\* RIPEMD-160's definition gives the words by two permutations and the rotations by the
\* word and the round.
RhoWord == <<7, 4, 13, 1, 10, 6, 15, 3, 12, 0, 9, 5, 2, 14, 11, 8>>
Rotations == <<
  <<11, 14, 15, 12, 5, 8, 7, 9, 11, 13, 14, 15, 6, 7, 9, 8>>,
  <<12, 13, 11, 15, 6, 9, 9, 7, 12, 15, 11, 13, 7, 8, 7, 7>>,
  <<13, 15, 14, 11, 7, 7, 6, 8, 13, 14, 13, 12, 5, 5, 6, 9>>,
  <<14, 11, 12, 14, 8, 6, 5, 5, 15, 12, 15, 14, 9, 9, 8, 6>>,
  <<15, 12, 13, 13, 9, 5, 8, 6, 14, 11, 12, 11, 8, 6, 5, 5>>>>
WordOfStep(i, n, right) ==
  LET rho[m \in 0 .. 4, word \in 0 .. 15] == IF m = 0 THEN word ELSE rho[m - 1, RhoWord[word + 1]]
  IN rho[n, IF right THEN (9 * i + 5) % 16 ELSE i]

RipemdDefined(state, x, k) ==
  LET line[j \in 0 .. 80, right \in BOOLEAN, r \in Seq(Bitset(32))] ==
        IF j = 80 THEN r
        ELSE LET n    == j \div 16
                 word == WordOfStep(j % 16, n, right)
                 f    == IF right THEN 5 - n ELSE n + 1
                 t    == Add(RotateLeft(AddAll(<<r[1], Line(f, r[2], r[3], r[4]), x[word + 1],
                                                 IF right THEN Right(k)[n + 1] ELSE Left(k)[n + 1]>>, 32),
                                        Rotations[n + 1][word + 1], 32), r[5], 32)
             IN line[j + 1, right, <<r[5], t, r[2], RotateLeft(r[3], 10, 32), r[4]>>]
      l == line[0, FALSE, state]
      r == line[0, TRUE, state]
      sum(i) == AddAll(<<state[(i % 5) + 1], l[((i + 1) % 5) + 1], r[((i + 2) % 5) + 1]>>, 32)
  IN <<sum(1), sum(2), sum(3), sum(4), sum(5)>>

\* FIPS 202, on the lanes (x, y): the offsets of rho, pi and the constants of iota from
\* their generators.
KeccakOffset(x, y) ==
  LET walk[t \in 0 .. 24, u \in 0 .. 4, v \in 0 .. 4] ==
        IF t = 24 THEN 0
        ELSE IF u = x /\ v = y THEN (((t + 1) * (t + 2)) \div 2) % 64
        ELSE walk[t + 1, v, (2 * u + 3 * v) % 5]
  IN IF x = 0 /\ y = 0 THEN 0 ELSE walk[0, 1, 0]

\* Bit t of the generator of the constants, x^8 + x^6 + x^5 + x^4 + 1.
KeccakBit(t) ==
  LET step[n \in 0 .. 255, r \in SUBSET (0 .. 8)] ==
        IF n = t THEN 0 \in r
        ELSE step[n + 1, LET s == {i + 1 : i \in r}
                         IN IF 8 \in s THEN Xor(s, {8, 0, 4, 5, 6}) ELSE s]
  IN step[0, {0}]
KeccakConstant(n) == {2 ^ j - 1 : j \in {i \in 0 .. 6 : KeccakBit((i + 7 * n) % 255)}}

KeccakDefined(state) ==
  LET Lane(word(_, _)) == Evaluated([i \in 1 .. 25 |-> word((i - 1) % 5, (i - 1) \div 5)])
      At(a, x, y) == a[(x % 5) + 5 * (y % 5) + 1]
      Theta(a) ==
        LET c == Evaluated([x \in 1 .. 5 |->
                   {b \in 0 .. 63 : Cardinality({y \in 0 .. 4 : b \in At(a, x - 1, y)}) % 2 = 1}])
            word(x, y) == Xor(At(a, x, y), Xor(c[((x + 4) % 5) + 1], RotateLeft(c[((x + 1) % 5) + 1], 1, 64)))
        IN Lane(word)
      RhoPi(a) == LET word(x, y) == RotateLeft(At(a, x + 3 * y, x), KeccakOffset((x + 3 * y) % 5, x), 64)
                  IN Lane(word)
      Chi(a) == LET word(x, y) == Xor(At(a, x, y), At(a, x + 2, y) \ At(a, x + 1, y)) IN Lane(word)
      round[n \in 0 .. 24, a \in Seq(Bitset(64))] ==
        IF n = 24 THEN a
        ELSE round[n + 1, [Chi(RhoPi(Theta(a))) EXCEPT ![1] = Xor(@, KeccakConstant(n))]]
  IN round[0, state]

=============================================================================

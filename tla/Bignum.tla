------------------------------- MODULE Bignum -------------------------------
(* Numbers in limbs (bignum.c).  A number is the sequence of its limbs, the *)
(* lowest first; how many limbs there are and their bits are parameters, 9  *)
(* and 30 in the code, and the other sizes follow from them as they do      *)
(* there.  Unsigned overflow wraps.                                         *)
EXTENDS MachineWords

CONSTANTS LimbCount, LimbBits

ASSUME LimbAssumption ==
  LimbCount \in Nat /\ LimbBits \in Nat /\ LimbCount > 2 /\ LimbBits >= 2 * LimbCount - 1

Limbs == 1 .. LimbCount
LimbRadix == 2 ^ LimbBits
UintBits == LimbBits + 2                    \* 32
Uint == 2 ^ UintBits
Ulong == Uint * Uint
Words == LimbCount - 1                      \* as many uints make a number of full length
TopBits == 2 * Words                        \* 16, which the highest limb then has
FullBits == UintBits * Words                \* 256

\* The primes the code can reduce by: between 2^256 - 2^224 and 2^256.
Reducible(prime) == prime < 2 ^ FullBits /\ prime > 2 ^ FullBits - 2 ^ (FullBits - UintBits)

-----------------------------------------------------------------------------
(* Numbers and their values.                                                *)

Normalized(a) == \A i \in DOMAIN a : a[i] < LimbRadix

ValueOf(a) == ValueIn(LimbRadix, a)

NumberOf(n) == Evaluated([i \in Limbs |-> (n \div 2 ^ (LimbBits * (i - 1))) % LimbRadix])

Carried(term, carry, size) == Chained(term, carry, LimbRadix, size)

-----------------------------------------------------------------------------
(* Reading and writing.  The words of a number come highest first in the    *)
(* big-endian form, lowest first in the other.                              *)

ReadLE(words) ==
  LET left(i) == IF i = 0 THEN 0 ELSE words[i] \div 2 ^ (LimbBits - 2 * (i - 1))
  IN Evaluated(
       [i \in Limbs |->
          IF i = LimbCount THEN left(Words)
          ELSE (left(i - 1) + ((words[i] * 2 ^ (2 * (i - 1))) % Uint)) % LimbRadix])

WriteBE(a) ==
  LET left(i) ==   \* temp, after i words
        IF i = 0 THEN (a[LimbCount] * 2 ^ (UintBits - TopBits)) % Uint
        ELSE (a[LimbCount - i] * 2 ^ (UintBits - TopBits + 2 * i)) % Uint
  IN Evaluated(
       [i \in 1 .. Words |-> left(i - 1) + a[LimbCount - i] \div 2 ^ (TopBits - 2 * i)])

ReadBE(words) == ReadLE(Backwards(words))
WriteLE(a) == Backwards(WriteBE(a))

ReadUint32(n) ==
  Evaluated([i \in Limbs |-> CASE i = 1 -> n % LimbRadix [] i = 2 -> n \div LimbRadix
                               [] OTHER -> 0])
ReadUint64(n) ==
  Evaluated([i \in Limbs |-> IF i <= 3 THEN (n \div 2 ^ (LimbBits * (i - 1))) % LimbRadix
                                       ELSE 0])
WriteUint32(a) == (a[1] + a[2] * LimbRadix) % Uint
WriteUint64(a) == (a[1] + a[2] * LimbRadix + a[3] * LimbRadix * LimbRadix) % Ulong

-----------------------------------------------------------------------------
(* Comparing and shifting.                                                  *)

Zero == Evaluated([i \in Limbs |-> 0])
One == Evaluated([i \in Limbs |-> IF i = 1 THEN 1 ELSE 0])

IsZero(a) == \A i \in Limbs : a[i] = 0
IsEqual(a, b) == \A i \in Limbs : a[i] = b[i]
IsLess(a, b) ==
  \E i \in Limbs : a[i] < b[i] /\ \A j \in i + 1 .. LimbCount : a[j] = b[j]
IsOdd(a) == a[1] % 2 = 1

BitCount(a) ==
  LET bits(w) == CHOOSE n \in 0 .. UintBits : w < 2 ^ n /\ (n = 0 \/ w >= 2 ^ (n - 1))
  IN IF IsZero(a) THEN 0
     ELSE LET top == CHOOSE i \in Limbs :
                       a[i] # 0 /\ \A j \in i + 1 .. LimbCount : a[j] = 0
          IN LimbBits * (top - 1) + bits(a[top])

Cmov(cond, truecase, falsecase) == IF cond THEN truecase ELSE falsecase

Lshift(a) ==
  Evaluated([i \in Limbs |->
               ((2 * a[i]) % LimbRadix) + (IF i > 1 THEN Bit(a[i - 1], LimbBits - 1) ELSE 0)])
Rshift(a) ==
  Evaluated([i \in Limbs |->
               a[i] \div 2
                 + (IF i < LimbCount THEN (a[i + 1] % 2) * 2 ^ (LimbBits - 1) ELSE 0)])

-----------------------------------------------------------------------------
(* Adding and subtracting.                                                  *)

AddNumbers(a, b) == Carried([i \in Limbs |-> a[i] + b[i]], 0, Uint)
AddSmall(a, b) == Carried(a, b, Uint)
NormalizedFrom(a) == AddSmall(a, 0)

\* What falls below zero in the lowest limb is mended by adding the prime.
SubSmall(a, b, prime) ==
  AddNumbers([i \in Limbs |-> IF i = 1 THEN (a[1] - b) % Uint ELSE a[i]], prime)

Subtract(a, b) == Carried([i \in Limbs |-> LimbRadix - 1 + a[i] - b[i]], 1, Uint)

\* a - b + 2 * prime.
SubtractMod(a, b, prime) ==
  Carried([i \in Limbs |-> LimbRadix - 1 + a[i] + 2 * prime[i] - b[i]], 1, Uint)

\* A mutant: every limb lends as much, and none repays.
LentByAll(i) == 2 ^ (2 * LimbBits + 1)

\* The lowest limb's term is above 2^61 by the code's constant, the others' are above
\* 2^61 - 2^31: what a limb lends, the next one repays.
Lent(i) ==
  IF i = 1 THEN 2 ^ (2 * LimbBits + 1) ELSE 2 ^ (2 * LimbBits + 1) - 2 ^ (LimbBits + 1)

FastMod(x, prime) ==
  LET coef == x[LimbCount] \div 2 ^ TopBits
  IN Carried([i \in Limbs |-> Lent(i) + x[i] - prime[i] * coef], 0, Ulong)

Mod(x, prime) == Cmov(IsLess(x, prime), x, Subtract(x, prime))

AddMod(a, b, prime) == FastMod([i \in Limbs |-> (a[i] + b[i]) % Uint], prime)
MultK(x, k, prime) == FastMod([i \in Limbs |-> (k * x[i]) % Uint], prime)

MultHalf(x, prime) ==
  LET sum == Evaluated([i \in Limbs |-> x[i] + IF IsOdd(x) THEN prime[i] ELSE 0])
  IN Carried([i \in Limbs |->
                sum[i] \div 2
                  + (IF i < LimbCount THEN (sum[i + 1] % 2) * 2 ^ (LimbBits - 1) ELSE 0)],
             0, Uint)

-----------------------------------------------------------------------------
(* Multiplying and dividing.                                                *)

\* The product in twice as many limbs, column by column.
MultiplyLong(k, x) ==
  LET column(i) ==   \* the sum of k[j] * x[i + 1 - j]
        LET first == IF i > LimbCount THEN i - LimbCount + 1 ELSE 1
            last == IF i > LimbCount THEN LimbCount ELSE i
            sum[j \in first - 1 .. LimbCount] ==
              IF j = first - 1 THEN 0 ELSE sum[j - 1] + k[j] * x[i + 1 - j]
        IN IF first > last THEN 0 ELSE sum[last]
  IN Carried([i \in 1 .. 2 * LimbCount |-> column(i)], 0, Ulong)

\* What the highest limbs say the prime goes into res shifted by k limbs.
Coefficient(res, k) ==
  (res[k + LimbCount] \div 2 ^ TopBits
     + ((res[k + LimbCount + 1] * 2 ^ (LimbBits - TopBits)) % Uint)) % Uint

ReduceStep(res, prime, k) ==
  LET coef == Coefficient(res, k)
      reduced == Carried([j \in 1 .. LimbCount + 1 |->
                            Lent(j) + res[k + j]
                              - (IF j <= LimbCount THEN prime[j] * coef ELSE 0)],
                         0, Ulong)
  IN Evaluated([i \in DOMAIN res |->
                  IF i \in k + 1 .. k + LimbCount + 1 THEN reduced[i - k] ELSE res[i]])

MultiplyReduce(res, prime) ==
  LET after[k \in 0 .. LimbCount] ==
        IF k = LimbCount THEN res ELSE ReduceStep(after[k + 1], prime, k)
  IN SubSeq(after[0], 1, LimbCount)

Multiply(k, x, prime) == MultiplyReduce(MultiplyLong(k, x), prime)

\* x to the power (prime + 1) / 4, by the bits of the exponent.
Sqrt(start, prime) ==
  LET p == Rshift(Rshift(AddSmall(prime, 1)))
      bit(j) == Bit(p[(j \div LimbBits) + 1], j % LimbBits)
      bits == BitCount(p)
      power[j \in 0 .. bits, x, res \in [Limbs -> 0 .. Uint - 1]] ==
        IF j = bits THEN res
        ELSE power[j + 1, Multiply(x, x, prime),
                   IF bit(j) = 1 THEN Multiply(x, res, prime) ELSE res]
  IN Mod(power[0, start, One], prime)

\* a divided by a small d, from the highest limb on, with what a limb's radix leaves.
DivMod(a, d) ==
  LET tmp(rem, i) == (rem * (LimbRadix % d) + a[i]) % Uint
      rem[i \in Limbs] ==
        IF i = LimbCount THEN a[i] % d ELSE tmp(rem[i + 1], i) % d
  IN [quotient |->
        Evaluated([i \in Limbs |->
          IF i = LimbCount THEN a[i] \div d
          ELSE (rem[i + 1] * (LimbRadix \div d) + (tmp(rem[i + 1], i) \div d)) % Uint]),
      remainder |-> rem[1]]

=============================================================================

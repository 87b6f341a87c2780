--------------------------- MODULE BignumInverse ---------------------------
(* bn_inverse (bignum.c) with its two registers, in which a number that     *)
(* shrinks shares the words with one that grows.                            *)
EXTENDS MachineWords

CONSTANTS
  RegisterWords,     \* words of a number, 8 in the code
  RegisterBits,      \* bits of a word, 32 in the code
  InverseInputs      \* pairs of a prime and a number below it, but not zero

ASSUME RegisterSizes ==
  /\ RegisterWords \in Nat \ {0, 1} /\ RegisterBits \in Nat \ {0}
  /\ \A c \in InverseInputs :
       c.prime < 2 ^ (RegisterBits * RegisterWords) /\ c.x \in 1 .. c.prime - 1

VARIABLES
  inverseOf,     \* the prime and the number
  us, vr,        \* registers: words 0 .. RegisterWords, and the length of the first part
  inverseK,
  evenIs,        \* which register even points to
  inverseAt      \* where the function is

registerState == <<inverseOf, us, vr, inverseK, evenIs, inverseAt>>

Word == 2 ^ RegisterBits
Places == 0 .. RegisterWords
DigitOf(n, i) == (n \div Word ^ i) % Word

BignumInverseInit ==
  /\ inverseOf \in InverseInputs
  /\ us = [a |-> [i \in Places |-> IF i = RegisterWords THEN 1 ELSE DigitOf(inverseOf.prime, i)],
           len1 |-> RegisterWords]
  /\ vr = [a |-> [i \in Places |-> IF i = RegisterWords THEN 0 ELSE DigitOf(inverseOf.x, i)],
           len1 |-> RegisterWords]
  /\ inverseK = 0
  /\ evenIs = "vr"
  /\ inverseAt = "halve"

-----------------------------------------------------------------------------
(* The first loop.                                                          *)

Even == IF evenIs = "us" THEN us ELSE vr

\* The first part without its leading zero words.
Trimmed(e) ==
  [e EXCEPT !.len1 = CHOOSE n \in 1 .. e.len1 :
                       e.a[n - 1] # 0 /\ \A i \in n .. e.len1 - 1 : e.a[i] = 0]

EvenBecomes(e) ==
  IF evenIs = "us" THEN us' = e /\ UNCHANGED vr ELSE vr' = e /\ UNCHANGED us

\* By a word: the first part is shifted right, the second left.
ShiftedByWord(e) ==
  [a |-> [i \in Places |-> IF i = RegisterWords THEN 0 ELSE e.a[i + 1]], len1 |-> e.len1 - 1]

TrailingZeros(w) == CHOOSE j \in 0 .. RegisterBits - 1 : Bit(w, j) = 1 /\ w % 2 ^ j = 0

ShiftedByBits(e, j) ==
  LET top == e.len1 - 1
      up == 2 ^ (RegisterBits - j)
      emptied == e.a[top] \div 2 ^ j = 0
      shifted(i) ==
        CASE i < top -> e.a[i] \div 2 ^ j + ((e.a[i + 1] * up) % Word)
          [] i = top /\ ~emptied -> e.a[i] \div 2 ^ j
          [] i = top /\ emptied -> e.a[i + 1] \div up
          [] i \in top + 1 .. RegisterWords - 1 ->
               ((e.a[i] * 2 ^ j) % Word) + e.a[i + 1] \div up
          [] i = RegisterWords -> (e.a[i] * 2 ^ j) % Word
  IN [a |-> [i \in Places |-> shifted(i)], len1 |-> IF emptied THEN top ELSE e.len1]

HalveByWord ==
  LET e == Trimmed(Even) IN
  /\ inverseAt = "halve" /\ e.a[0] = 0
  /\ EvenBecomes(ShiftedByWord(e))
  /\ inverseK' = inverseK + RegisterBits
  /\ UNCHANGED <<inverseOf, evenIs, inverseAt>>

HalveByBits ==
  LET e == Trimmed(Even)
      j == TrailingZeros(e.a[0])
  IN
  /\ inverseAt = "halve" /\ e.a[0] # 0
  /\ EvenBecomes(IF j > 0 THEN ShiftedByBits(e, j) ELSE e)
  /\ inverseK' = inverseK + j
  /\ inverseAt' = "compare"
  /\ UNCHANGED <<inverseOf, evenIs>>

\* Whether the first part of one register is above that of the other.
Above(e, o) ==
  \/ e.len1 > o.len1
  \/ /\ e.len1 = o.len1
     /\ \E i \in 0 .. e.len1 - 1 :
          e.a[i] > o.a[i] /\ \A j \in i + 1 .. e.len1 - 1 : e.a[j] = o.a[j]

\* The first part of o is subtracted from that of e.
Difference(e, o) ==
  LET words == Chained([i \in 1 .. e.len1 |->
                          Word - 1 + e.a[i - 1] - IF i <= o.len1 THEN o.a[i - 1] ELSE 0],
                       1, Word, Word * Word)
  IN [e EXCEPT !.a = [i \in Places |-> IF i < e.len1 THEN words[i + 1] ELSE e.a[i]]]

\* A mutant: words of the first part are added as well.
SecondSumOfAll(e, o) ==
  LET place(i) == RegisterWords + 1 - i
      words == Chained([i \in 1 .. RegisterWords + 1 - o.len1 |-> o.a[place(i)] + e.a[place(i)]],
                       0, Word, Word * Word)
  IN [o EXCEPT !.a = [i \in Places |-> IF i >= o.len1 THEN words[place(i)] ELSE o.a[i]]]

\* The second part of e is added to that of o, which is the longer one.
SecondSum(e, o) ==
  LET place(i) == RegisterWords + 1 - i
      words == Chained([i \in 1 .. RegisterWords + 1 - o.len1 |->
                          o.a[place(i)] + IF place(i) >= e.len1 THEN e.a[place(i)] ELSE 0],
                       0, Word, Word * Word)
  IN [o EXCEPT !.a = [i \in Places |-> IF i >= o.len1 THEN words[place(i)] ELSE o.a[i]]]

SubtractSmaller ==
  /\ inverseAt = "compare"
  /\ \/ /\ Above(us, vr)
        /\ us' = Difference(us, vr) /\ vr' = SecondSum(us, vr)
        /\ evenIs' = "us"
     \/ /\ Above(vr, us)
        /\ vr' = Difference(vr, us) /\ us' = SecondSum(vr, us)
        /\ evenIs' = "vr"
  /\ inverseAt' = "halve"
  /\ UNCHANGED <<inverseOf, inverseK>>

BothEqual ==
  /\ inverseAt = "compare" /\ ~Above(us, vr) /\ ~Above(vr, us)
  /\ inverseAt' = "divide"
  /\ UNCHANGED <<inverseOf, us, vr, inverseK, evenIs>>

-----------------------------------------------------------------------------
(* s is divided by 2^k.                                                     *)

\* -1/p modulo the size of a word, for an odd p: a product that converges.
NegativeInverse(p) ==
  LET product[amone, inverse \in 0 .. Word - 1] ==
        IF amone = 0 THEN inverse
        ELSE LET square == (amone * amone) % Word
             IN product[square, (inverse * (square + 1)) % Word]
  IN product[(p - 1) % Word, (p - 2) % Word]

PrimeWord(i) == DigitOf(inverseOf.prime, i)
Factor(size) == (NegativeInverse(PrimeWord(0)) * us.a[RegisterWords]) % size

\* Word i of s, plus the factor times that of the prime.
Term(i, factor) == us.a[RegisterWords - i] + PrimeWord(i) * factor

SBecomes(words) ==   \* the lowest first
  us' = [us EXCEPT !.a =
           [i \in Places |-> IF i = 0 THEN us.a[0] ELSE words[RegisterWords + 1 - i]]]

DivideByWord ==
  LET factor == Factor(Word)
      sum == Chained([i \in 1 .. RegisterWords + 1 |->
                        IF i <= RegisterWords THEN Term(i - 1, factor) ELSE 0],
                     0, Word, Word * Word)
  IN
  /\ inverseAt = "divide" /\ inverseK >= RegisterBits
  /\ SBecomes([i \in 1 .. RegisterWords |-> sum[i + 1]])
  /\ inverseK' = inverseK - RegisterBits
  /\ UNCHANGED <<inverseOf, vr, evenIs, inverseAt>>

\* The last bits; every word takes those that are shifted out of the next.
DivideByBits ==
  LET factor == Factor(2 ^ inverseK)
      temp[i \in 0 .. RegisterWords - 1] ==
        IF i = 0 THEN Term(0, factor) \div 2 ^ inverseK
        ELSE (temp[i - 1] \div (IF i = 1 THEN 1 ELSE Word)
                + Term(i, factor) * 2 ^ (RegisterBits - inverseK)) % (Word * Word)
  IN
  /\ inverseAt = "divide" /\ inverseK < RegisterBits
  /\ IF inverseK > 0
     THEN SBecomes([i \in 1 .. RegisterWords |->
                      IF i < RegisterWords THEN temp[i] % Word
                      ELSE (temp[i - 1] \div Word) % Word])
     ELSE UNCHANGED us
  /\ inverseK' = 0
  /\ inverseAt' = "done"
  /\ UNCHANGED <<inverseOf, vr, evenIs>>

BignumInverseNext ==
  \/ HalveByWord \/ HalveByBits \/ SubtractSmaller \/ BothEqual
  \/ DivideByWord \/ DivideByBits

-----------------------------------------------------------------------------
(* The numbers in the registers, and the algorithm they implement.          *)

FirstPart(e) == ValueIn(Word, [i \in 1 .. e.len1 |-> e.a[i - 1]])
SecondPart(e) ==
  ValueIn(Word, [i \in 1 .. RegisterWords + 1 - e.len1 |-> e.a[RegisterWords + 1 - i]])

Algorithm ==
  INSTANCE AlmostInverse WITH
    InversePrimes <- {c.prime : c \in InverseInputs},
    Powers <- {2 ^ j : j \in 0 .. RegisterBits},
    prime <- inverseOf.prime, x <- inverseOf.x,
    u <- FirstPart(us), v <- FirstPart(vr), r <- SecondPart(vr), s <- SecondPart(us),
    scale <- 2 ^ inverseK,
    even <- IF evenIs = "us" THEN "u" ELSE "v",
    phase <- inverseAt

\* bn_inverse is the almost inverse algorithm of its comments: no word of a register is
\* ever needed by both of its numbers, and the words of s are divided by 2^k in the end.
InverseByAlgorithm == Algorithm!AlmostSpec

=============================================================================

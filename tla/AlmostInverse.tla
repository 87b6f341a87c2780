--------------------------- MODULE AlmostInverse ---------------------------
(* The inverse modulo a prime, as the comments of bn_inverse (bignum.c)     *)
(* explain it: u, v, r and s as numbers, and the scale 2^k.                 *)
EXTENDS Integers

CONSTANTS
  InversePrimes,   \* odd numbers, which should be prime
  Powers           \* powers of two, by which a step may divide

Divides(p, n) == \E q \in Int : n = q * p

\* What the theorems about it assume of the constants: the primes are prime, in Euclid's
\* words, and divide no power.
InverseAssumption ==
  /\ InversePrimes \subseteq Nat \ {0, 1} /\ Powers \subseteq Nat \ {0}
  /\ \A p \in InversePrimes :
       /\ \A m, n \in Int : Divides(p, m * n) => Divides(p, m) \/ Divides(p, n)
       /\ \A t \in Powers : ~Divides(p, t)

VARIABLES
  prime, x,      \* the input; they never change
  u, v, r, s,
  scale,         \* 2^k
  even,          \* which of u and v may be even
  phase          \* "halve", "compare", "divide" or "done"

inverseVars == <<prime, x, u, v, r, s, scale, even, phase>>

AlmostInit ==
  /\ prime \in InversePrimes /\ x \in 1 .. prime - 1
  /\ u = prime /\ v = x /\ r = 0 /\ s = 1
  /\ scale = 1 /\ even = "v" /\ phase = "halve"

\* The even one is divided by a power of two, and its partner multiplied; the comparison
\* follows when both are odd.
HalveU ==
  /\ phase = "halve" /\ even = "u"
  /\ u' \in Nat /\ \E t \in Powers : u = u' * t /\ s' = s * t /\ scale' = scale * t
  /\ phase' \in {"halve", "compare"} /\ (phase' = "compare" => u' % 2 = 1)
  /\ UNCHANGED <<prime, x, v, r, even>>
HalveV ==
  /\ phase = "halve" /\ even = "v"
  /\ v' \in Nat /\ \E t \in Powers : v = v' * t /\ r' = r * t /\ scale' = scale * t
  /\ phase' \in {"halve", "compare"} /\ (phase' = "compare" => v' % 2 = 1)
  /\ UNCHANGED <<prime, x, u, s, even>>

SubtractV ==
  /\ phase = "compare" /\ u > v
  /\ u' = u - v /\ r' = r + s
  /\ even' = "u" /\ phase' = "halve"
  /\ UNCHANGED <<prime, x, v, s, scale>>
SubtractU ==
  /\ phase = "compare" /\ v > u
  /\ v' = v - u /\ s' = s + r
  /\ even' = "v" /\ phase' = "halve"
  /\ UNCHANGED <<prime, x, u, r, scale>>
Equal ==
  /\ phase = "compare" /\ u = v
  /\ phase' = "divide"
  /\ UNCHANGED <<prime, x, u, v, r, s, scale, even>>

\* s is divided by a part of the scale, after as many primes have been added to it as
\* make that possible.
Divide ==
  /\ phase = "divide"
  /\ scale' \in Nat /\ s' \in Nat
  /\ \E t \in Powers :
       /\ scale = scale' * t
       /\ \E q \in 0 .. t - 1 : s + q * prime = s' * t
  /\ phase' \in {"divide", "done"} /\ (phase' = "done" => scale' = 1)
  /\ UNCHANGED <<prime, x, u, v, r, even>>

AlmostNext == HalveU \/ HalveV \/ SubtractV \/ SubtractU \/ Equal \/ Divide

AlmostSpec == AlmostInit /\ [][AlmostNext]_inverseVars

-----------------------------------------------------------------------------
\* The numbers that share a register of nine words never need more than that: u times s
\* and v times r add up to the prime.
Shared == phase # "done" /\ phase # "divide" => u * s + v * r = prime

\* The result is the inverse.
Inverse == phase = "done" => Divides(prime, x * s - 1)
ResultReduced == phase \in {"divide", "done"} => s \in 0 .. prime - 1

=============================================================================

--------------------------- MODULE PointMultiply ----------------------------
(* point_multiply and scalar_multiply (ecdsa.c), round by round: the digits *)
(* of the factor are odd, between minus and plus a window's size, and every *)
(* round adds the multiple of the point that its digit says.                *)
EXTENDS CurveGroup

CONSTANTS
  Curves,          \* curves of integers: prime, order, a, b, G
  WindowBits,      \* bits of a digit, 4 in the code
  Factors,         \* what is multiplied by, below the orders
  BasePoints,      \* the points that are multiplied, as multiples of G
  RandomZ          \* the z coordinates that random32 may give

ASSUME MultiplyAssumption ==
  /\ \A c \in Curves : Reducible(c.prime) /\ Reducible(c.order) /\ c.a \in -3 .. 0
  /\ FullBits % WindowBits = 0

VARIABLES
  curveIs,       \* the curve
  factor,        \* k
  baseMultiple,  \* the point is this multiple of G
  scalar,        \* whether it is scalar_multiply, which takes the digits from the lowest
  odd,           \* a, an odd number; scalar_multiply shifts it
  pmult,         \* the odd multiples of the point
  jres,          \* the sum so far
  sign,          \* whether it is to be negated
  round,         \* i
  product,       \* the result
  multiplyAt     \* "start", "rounds" or "done"

multiplyVars ==
  <<curveIs, factor, baseMultiple, scalar, odd, pmult, jres, sign, round, product, multiplyAt>>

Curve == CurveOf(curveIs)
Window == 2 ^ WindowBits
WindowCount == FullBits \div WindowBits             \* 64

\* curve->cp[i][j], the table in secp256k1.table.
Cp(i, j) == AsPoint(Multiple(curveIs, (2 * j + 1) * Window ^ i))

-----------------------------------------------------------------------------
(* The digits.                                                              *)

\* k + 2^256, less the order if that is even.
MadeOdd(k) ==
  LET taken(i) == IF IsOdd(k) THEN 0 ELSE Curve.order[i]
  IN Carried([i \in Limbs |->
                (IF i < LimbCount THEN LimbRadix - 1 ELSE 2 ^ TopBits - 1) + k[i] - taken(i)],
             1, Uint)

\* A mutant: the bits in the next limb are left out.
BitsInLimb(a, i) ==
  (a[(i * WindowBits) \div LimbBits + 1] \div 2 ^ ((i * WindowBits) % LimbBits)) % (2 * Window)

\* The lowest bits of a >> (i * WindowBits), one more than a digit has; where they are in
\* two limbs, they are put together.
BitsAt(a, i) ==
  LET place == i * WindowBits
      at == place \div LimbBits + 1
      shift == place % LimbBits
      low == a[at] \div 2 ^ shift
      spans == shift + WindowBits >= LimbBits /\ at < LimbCount
  IN (IF spans THEN low + a[at + 1] * 2 ^ (LimbBits - shift) ELSE low) % (2 * Window)

\* The digit is positive if the highest of these bits is set; its absolute value.
IsPositive(bits) == bits >= Window
Absolute(bits) == IF IsPositive(bits) THEN bits - Window ELSE Window - 1 - bits

ShiftedDown(a) ==
  Evaluated([i \in Limbs |->
    a[i] \div Window
      + (IF i < LimbCount THEN (a[i + 1] % Window) * 2 ^ (LimbBits - WindowBits) ELSE 0)])

\* p, 3 * p, 5 * p, ...
OddMultiples(p, twice) ==
  LET table[i \in 0 .. Window \div 2 - 1] ==
        IF i = 0 THEN p ELSE PointAdd(Curve, table[i - 1], twice)
  IN table

-----------------------------------------------------------------------------
MultiplyInit ==
  /\ curveIs \in Curves /\ factor \in Factors /\ factor < curveIs.order
  /\ scalar \in BOOLEAN
  /\ baseMultiple \in IF scalar THEN {1} ELSE BasePoints
  /\ odd = Zero /\ pmult = <<>>
  /\ jres = [x |-> Zero, y |-> Zero, z |-> Zero]
  /\ sign = FALSE /\ round = 0
  /\ product = Infinity
  /\ multiplyAt = "start"

\* Zero times the point.
ZeroFactor ==
  /\ multiplyAt = "start" /\ IsZero(NumberOf(factor))
  /\ product' = Infinity
  /\ multiplyAt' = "done"
  /\ UNCHANGED <<curveIs, factor, baseMultiple, scalar, odd, pmult, jres, sign, round>>

StartPoint ==
  LET a == MadeOdd(NumberOf(factor))
      p == AsPoint(Multiple(curveIs, baseMultiple))
      bits == odd'[LimbCount] \div 2 ^ (TopBits - WindowBits)
  IN
  /\ multiplyAt = "start" /\ ~scalar /\ ~IsZero(NumberOf(factor))
  /\ odd' = a /\ pmult' = OddMultiples(p, PointDouble(Curve, p))
  /\ \E z \in RandomZ :
       jres' = CurveToJacobian(pmult'[Absolute(bits) \div 2], z, Curve.prime)
  /\ sign' = ~IsPositive(bits)
  /\ round' = WindowCount - 2
  /\ multiplyAt' = "rounds"
  /\ UNCHANGED <<curveIs, factor, baseMultiple, scalar, product>>

\* The sum is doubled for every bit of a digit, gets the sign of the next digit, and its
\* absolute value times the point is added.
RoundPoint ==
  LET bits == BitsAt(odd, round)
      negative == ~IsPositive(bits)
      doubled[n \in 0 .. WindowBits] ==
        IF n = 0 THEN jres ELSE JacobianDouble(doubled[n - 1], Curve)
      last == doubled[WindowBits]
      turned == [last EXCEPT !.z = ConditionalNegate(sign # negative, @, Curve.prime)]
  IN
  /\ multiplyAt = "rounds" /\ ~scalar /\ round >= 0
  /\ jres' = JacobianAdd(pmult[Absolute(bits) \div 2], turned, Curve)
  /\ sign' = negative
  /\ round' = round - 1
  /\ UNCHANGED <<curveIs, factor, baseMultiple, scalar, odd, pmult, product, multiplyAt>>

FinishPoint ==
  /\ multiplyAt = "rounds" /\ ~scalar /\ round < 0
  /\ product' = JacobianToCurve(
                  [jres EXCEPT !.z = ConditionalNegate(sign, @, Curve.prime)], Curve.prime)
  /\ multiplyAt' = "done"
  /\ UNCHANGED <<curveIs, factor, baseMultiple, scalar, odd, pmult, jres, sign, round>>

\* scalar_multiply: the table has the multiples for every digit's place.
StartScalar ==
  LET a == MadeOdd(NumberOf(factor)) IN
  /\ multiplyAt = "start" /\ scalar /\ ~IsZero(NumberOf(factor))
  /\ odd' = a
  /\ \E z \in RandomZ :
       jres' = CurveToJacobian(Cp(0, Absolute(BitsAt(a, 0)) \div 2), z, Curve.prime)
  /\ round' = 1
  /\ multiplyAt' = "rounds"
  /\ UNCHANGED <<curveIs, factor, baseMultiple, scalar, pmult, sign, product>>

\* The lowest bit of the shifted number is the sign of the digit before.
RoundScalar ==
  LET a == ShiftedDown(odd)
      bits == BitsAt(a, 0)
      lowbits == Absolute(bits)
      turned == [jres EXCEPT !.y = ConditionalNegate(lowbits % 2 = 0, @, Curve.prime)]
  IN
  /\ multiplyAt = "rounds" /\ scalar /\ round < WindowCount
  /\ odd' = a
  /\ jres' = JacobianAdd(Cp(round, lowbits \div 2), turned, Curve)
  /\ round' = round + 1
  /\ UNCHANGED <<curveIs, factor, baseMultiple, scalar, pmult, sign, product, multiplyAt>>

FinishScalar ==
  /\ multiplyAt = "rounds" /\ scalar /\ round = WindowCount
  /\ product' = JacobianToCurve(
       [jres EXCEPT !.y = ConditionalNegate(Bit(odd[1], WindowBits) = 0, @, Curve.prime)],
       Curve.prime)
  /\ multiplyAt' = "done"
  /\ UNCHANGED <<curveIs, factor, baseMultiple, scalar, odd, pmult, jres, sign, round>>

MultiplyNext ==
  \/ ZeroFactor \/ StartPoint \/ RoundPoint \/ FinishPoint
  \/ StartScalar \/ RoundScalar \/ FinishScalar

-----------------------------------------------------------------------------
\* The product is the multiple of the point, fully reduced, whatever z was drawn: also
\* where the last addition is a doubling, and where the factor is even or zero
\* (point_multiply, scalar_multiply).
MultipliesPoint ==
  multiplyAt = "done" =>
    product = AsPoint(Multiple(curveIs, TimesMod(factor, baseMultiple, curveIs.order)))

=============================================================================

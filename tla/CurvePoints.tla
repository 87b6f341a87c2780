---------------------------- MODULE CurvePoints -----------------------------
(* Points of a curve, affine and in Jacobian coordinates (ecdsa.c), on the  *)
(* numbers of Bignum: which results are only partly reduced, and where they *)
(* are reduced, is as in the code.                                          *)
EXTENDS Bignum

\* The limbs of a curve whose fields are integers; a is between -3 and 0.
CurveOf(c) ==
  [prime |-> NumberOf(c.prime), order |-> NumberOf(c.order),
   order_half |-> NumberOf(c.order \div 2), a |-> c.a, b |-> NumberOf(c.b),
   G |-> [x |-> NumberOf(c.G[1]), y |-> NumberOf(c.G[2])]]

\* bn_inverse: BignumInverse shows what it computes.
InverseNumber(a, prime) == NumberOf(InverseMod(ValueOf(a), ValueOf(prime)))

Square(a, prime) == Multiply(a, a, prime)
FullyReduced(a, prime) == Mod(FastMod(a, prime), prime)

-----------------------------------------------------------------------------
(* Affine points; both coordinates of the point at infinity are zero.       *)

Infinity == [x |-> Zero, y |-> Zero]
IsInfinity(p) == IsZero(p.x) /\ IsZero(p.y)
IsSamePoint(p, q) == IsEqual(p.x, q.x) /\ IsEqual(p.y, q.y)
IsNegativeOf(p, q) == IsEqual(p.x, q.x) /\ ~IsZero(p.y) /\ ~IsEqual(p.y, q.y)

\* The third point on the line of a slope, mirrored.
OnLine(prime, lambda, p, sum) ==
  LET xr == FullyReduced(SubtractMod(Square(lambda, prime), sum, prime), prime)
      yr == Multiply(lambda, SubtractMod(p.x, xr, prime), prime)
  IN [x |-> xr, y |-> FullyReduced(SubtractMod(yr, p.y, prime), prime)]

PointDouble(curve, p) ==
  LET prime == curve.prime
      inv == InverseNumber(MultK(p.y, 2, prime), prime)
      tangent == SubSmall(MultK(Square(p.x, prime), 3, prime), -curve.a, prime)
      lambda == Multiply(inv, tangent, prime)
  IN IF IsInfinity(p) \/ IsZero(p.y) THEN Infinity
     ELSE OnLine(prime, lambda, p, Lshift(p.x))

PointAdd(curve, p, q) ==
  LET prime == curve.prime
      inv == InverseNumber(SubtractMod(q.x, p.x, prime), prime)
      lambda == Multiply(inv, SubtractMod(q.y, p.y, prime), prime)
  IN CASE IsInfinity(p) -> q
       [] ~IsInfinity(p) /\ IsInfinity(q) -> p
       [] ~IsInfinity(p) /\ IsSamePoint(p, q) -> PointDouble(curve, q)
       [] ~IsInfinity(p) /\ ~IsInfinity(q) /\ IsNegativeOf(p, q) -> Infinity
       [] OTHER -> OnLine(prime, lambda, p, AddMod(p.x, q.x, prime))

-----------------------------------------------------------------------------
(* Jacobian points: x / z^2 and y / z^3.                                    *)

\* Twice the prime less a, if cond.
ConditionalNegate(cond, a, prime) ==
  IF cond THEN Carried([i \in Limbs |-> LimbRadix - 1 + 2 * prime[i] - a[i]], 1, Uint) ELSE a

\* z is random.
CurveToJacobian(p, z, prime) ==
  [x |-> Multiply(p.x, Multiply(z, z, prime), prime),
   y |-> Multiply(p.y, Multiply(z, Multiply(z, z, prime), prime), prime),
   z |-> z]

JacobianToCurve(jp, prime) ==
  LET inv == InverseNumber(jp.z, prime)
      inv2 == Square(inv, prime)
      inv3 == Multiply(inv2, inv, prime)
  IN [x |-> Mod(Multiply(jp.x, inv2, prime), prime),
      y |-> Mod(Multiply(jp.y, inv3, prime), prime)]

\* The sum of two points with the same z, where the slope between them is r / (h * z).
SumOnSlope(r, h, xsum, ysum, z, prime) ==
  LET hsq == Square(h, prime)
      hcby == Multiply(ysum, Multiply(hsq, h, prime), prime)
      hsqx == Multiply(xsum, hsq, prime)
      x3 == FastMod(SubtractMod(Square(r, prime), hsqx, prime), prime)
      y3 == Multiply(r, SubtractMod(SubtractMod(hsqx, x3, prime), x3, prime), prime)
  IN [x |-> x3,
      y |-> FastMod(MultHalf(SubtractMod(y3, hcby, prime), prime), prime),
      z |-> Multiply(h, z, prime)]

\* r of the tangent.
TangentR(p, curve) ==
  LET prime == curve.prime
      az4 == MultK(Square(Square(p.z, prime), prime), -curve.a, prime)
      x3sq == MultK(Square(p.x, prime), 3, prime)
  IN IF curve.a # 0 THEN SubtractMod(x3sq, az4, prime) ELSE x3sq

\* p1 has been given the z of p2; where the points are the same, it is the tangent.
AddAligned(x1, y1, p2, curve) ==
  LET prime == curve.prime
      dx == FastMod(SubtractMod(x1, p2.x, prime), prime)
      is_doubling == IsEqual(dx, prime)      \* a multiple of the prime above zero
      ysum == AddNumbers(y1, p2.y)
      r == Cmov(is_doubling, TangentR(p2, curve), SubtractMod(y1, p2.y, prime))
  IN SumOnSlope(r, Cmov(is_doubling, ysum, dx), AddNumbers(x1, p2.x), ysum, p2.z, prime)

JacobianAdd(p1, p2, curve) ==
  LET z2 == Square(p2.z, curve.prime)
  IN AddAligned(Multiply(p1.x, z2, curve.prime),
                Multiply(p1.y, Multiply(z2, p2.z, curve.prime), curve.prime), p2, curve)

\* The tangent's slope is m / (y * z).
DoubleOnSlope(m, p, ysq, prime) ==
  LET xysq == Multiply(ysq, p.x, prime)
      twice == FastMod(Lshift(xysq), prime)
      x3 == FastMod(SubtractMod(Square(m, prime), twice, prime), prime)
      y3 == Multiply(m, SubtractMod(xysq, x3, prime), prime)
  IN [x |-> x3,
      y |-> FastMod(SubtractMod(y3, Square(ysq, prime), prime), prime),
      z |-> Multiply(p.y, p.z, prime)]

JacobianDouble(p, curve) ==
  LET prime == curve.prime
      az4 == MultK(Square(Square(p.z, prime), prime), -curve.a, prime)
      m == MultHalf(SubtractMod(MultK(Square(p.x, prime), 3, prime), az4, prime), prime)
  IN DoubleOnSlope(m, p, Square(p.y, prime), prime)

-----------------------------------------------------------------------------
(* Reading and checking points.                                             *)

\* x^3 + ax + b, and the root of it that is odd or even.
WithParity(odd, y, prime) == IF odd = IsOdd(y) THEN y ELSE Subtract(prime, y)
UncompressCoords(curve, odd, x) ==
  LET prime == curve.prime
      square == SubSmall(Square(x, prime), -curve.a, prime)
  IN WithParity(odd, Sqrt(AddNumbers(Multiply(x, square, prime), curve.b), prime), prime)

\* A mutant: whether the point is on the curve is not checked.
ValidateCoordinates(curve, pub) ==
  ~IsInfinity(pub) /\ IsLess(pub.x, curve.prime) /\ IsLess(pub.y, curve.prime)

ValidatePubkey(curve, pub) ==
  LET prime == curve.prime
      square == SubSmall(Square(pub.x, prime), -curve.a, prime)
      right == AddMod(Multiply(pub.x, square, prime), curve.b, prime)
  IN /\ ~IsInfinity(pub)
     /\ IsLess(pub.x, prime) /\ IsLess(pub.y, prime)
     /\ IsEqual(Mod(right, prime), Mod(Square(pub.y, prime), prime))

=============================================================================

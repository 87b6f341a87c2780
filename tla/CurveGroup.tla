----------------------------- MODULE CurveGroup -----------------------------
(* The group of a curve, in integer arithmetic: what the functions on its   *)
(* points should compute.                                                   *)
EXTENDS CurvePoints

\* The sum of two points on a line of slope l.
OnSlope(c, p, q, l) ==
  LET x == (TimesMod(l, l, c.prime) - p[1] - q[1]) % c.prime
  IN <<x, (TimesMod(l, (p[1] - x) % c.prime, c.prime) - p[2]) % c.prime>>
Slope(c, top, bottom) ==
  TimesMod(top % c.prime, InverseMod(bottom % c.prime, c.prime), c.prime)

AffineSum(c, p, q) ==
  CASE p = <<>> -> q
    [] p # <<>> /\ q = <<>> -> p
    [] p # <<>> /\ q # <<>> /\ p[1] # q[1] ->
         OnSlope(c, p, q, Slope(c, q[2] - p[2], q[1] - p[1]))
    [] p # <<>> /\ p = q ->
         OnSlope(c, p, q, Slope(c, 3 * TimesMod(p[1], p[1], c.prime) + c.a, 2 * p[2]))
    [] OTHER -> <<>>

\* The multiple of G, <<>> for the point at infinity.
Multiple(c, m) ==
  LET times[p \in Seq(Nat), n \in Nat, sum \in Seq(Nat)] ==   \* sum + n * p
        IF n = 0 THEN sum
        ELSE times[AffineSum(c, p, p), n \div 2,
                   IF n % 2 = 1 THEN AffineSum(c, sum, p) ELSE sum]
  IN times[c.G, m % c.order, <<>>]

AsPoint(p) == IF p = <<>> THEN Infinity ELSE [x |-> NumberOf(p[1]), y |-> NumberOf(p[2])]

=============================================================================

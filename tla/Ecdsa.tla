------------------------------- MODULE Ecdsa --------------------------------
(* Signing, verifying and recovering (ecdsa.c).  Digests, keys and the two  *)
(* numbers of a signature are numbers in words, the highest first.          *)
EXTENDS CurveGroup

CONSTANTS
  SigningCurves,     \* curves of integers
  PrivateKeys,       \* integers, from 1 to the orders less 1
  DigestValues,      \* what the digests are as integers
  Nonces,            \* what generate_k_rfc6979 may give
  ForgedNumbers,     \* numbers a signature from elsewhere may have
  MaxTries           \* bound on the tries of a signature, 10000 in the code

VARIABLES
  signing,     \* the curve, the private key and the digest, as integers
  tries,       \* how many nonces have been tried
  signature,   \* the words of r and s, and the recovery byte
  signAt       \* "try", "signed", "failed" or "forged"

signVars == <<signing, tries, signature, signAt>>

SignCurve == CurveOf(signing.curve)
Digest256 == WriteBE(NumberOf(signing.digest))
PrivKey == WriteBE(NumberOf(signing.key))

\* scalar_multiply and point_multiply: PointMultiply shows what they compute.
TimesG(k) == AsPoint(Multiple(signing.curve, ValueOf(k)))
TimesPoint(k, p) ==
  LET c == signing.curve
      point == IF IsInfinity(p) THEN <<>> ELSE <<ValueOf(p.x), ValueOf(p.y)>>
      times[q \in Seq(Nat), n \in Nat, sum \in Seq(Nat)] ==
        IF n = 0 THEN sum
        ELSE times[AffineSum(c, q, q), n \div 2,
                   IF n % 2 = 1 THEN AffineSum(c, sum, q) ELSE sum]
  IN AsPoint(times[point, ValueOf(k), <<>>])

-----------------------------------------------------------------------------
(* Public keys: a tag, and one coordinate or two.                           *)

PublicKey33(key) ==
  LET R == TimesG(ReadBE(key))
  IN [tag |-> IF IsOdd(R.y) THEN 3 ELSE 2, coordinates |-> <<WriteBE(R.x)>>]
KeyOfPoint(R) == [tag |-> 4, coordinates |-> <<WriteBE(R.x), WriteBE(R.y)>>]
PublicKey65(key) == KeyOfPoint(TimesG(ReadBE(key)))

NoPoint == [x |-> <<>>, y |-> <<>>]

\* The point of a public key, if it is one.
IfValid(p) == IF ValidatePubkey(SignCurve, p) THEN p ELSE NoPoint
ReadPubkey(pub) ==
  LET x == ReadBE(pub.coordinates[1])
  IN CASE pub.tag = 4 -> IfValid([x |-> x, y |-> ReadBE(pub.coordinates[2])])
       [] pub.tag \in {2, 3} ->
            IfValid([x |-> x, y |-> UncompressCoords(SignCurve, pub.tag = 3, x)])
       [] OTHER -> NoPoint

UncompressPubkey(pub) ==
  LET p == ReadPubkey(pub) IN IF p = NoPoint THEN p ELSE KeyOfPoint(p)

-----------------------------------------------------------------------------
(* Signing.                                                                 *)

\* A mutant: the byte of the point, also where s has been replaced by its negative.
RecoveryOfPoint(odd_y, high, above) == (IF odd_y THEN 1 ELSE 0) + IF above THEN 2 ELSE 0

\* Which of the points with this r it was.
RecoveryByte(odd_y, high, above) ==
  (IF odd_y # high THEN 1 ELSE 0) + IF above THEN 2 ELSE 0

\* s = (r * key + digest) / k.
SignatureS(k, rx) ==
  LET order == SignCurve.order
      sum == AddNumbers(Multiply(rx, ReadBE(PrivKey), order), ReadBE(Digest256))
  IN Mod(Multiply(InverseNumber(k, order), sum, order), order)

\* Of s and its negative the lower one is written.
WithLowS(rx, s, odd_y, above) ==
  LET high == IsLess(SignCurve.order_half, s)
  IN [ok |-> TRUE,
      r |-> WriteBE(rx), s |-> WriteBE(Cmov(high, Subtract(SignCurve.order, s), s)),
      by |-> RecoveryByte(odd_y, high, above)]

\* What a nonce gives: [ok |-> FALSE] if another has to be tried.
Signed(k) ==
  LET order == SignCurve.order
      R == TimesG(k)
      above == ~IsLess(R.x, order)
      rx == Cmov(above, Subtract(R.x, order), R.x)
      s == SignatureS(k, rx)
  IN IF IsZero(k) \/ ~IsLess(k, order) \/ IsZero(rx) \/ IsZero(s) THEN [ok |-> FALSE]
     ELSE WithLowS(rx, s, IsOdd(R.y), above)

NoSignature == [ok |-> FALSE]

SignInit ==
  /\ \E c \in SigningCurves, key \in PrivateKeys, digest \in DigestValues :
       key < c.order /\ signing = [curve |-> c, key |-> key, digest |-> digest]
  /\ tries = 0
  /\ signature = NoSignature
  /\ signAt = "try"

\* The caller's is_canonical may refuse a signature.
SignDigest ==
  /\ signAt = "try" /\ tries < MaxTries
  /\ \E k \in Nonces, canonical \in BOOLEAN :
       \E next \in {Signed(NumberOf(k))} :
         IF next.ok /\ canonical
         THEN signature' = next /\ signAt' = "signed"
         ELSE UNCHANGED <<signature, signAt>>
  /\ tries' = tries + 1
  /\ UNCHANGED signing
SignFailed ==
  /\ signAt = "try" /\ tries = MaxTries
  /\ signAt' = "failed"
  /\ UNCHANGED <<signing, tries, signature>>

\* A signature that was not made here.
Forged ==
  /\ signAt = "try" /\ tries = 0
  /\ \E r, s \in ForgedNumbers, by \in 0 .. 3 :
       signature' = [ok |-> TRUE, r |-> WriteBE(NumberOf(r)), s |-> WriteBE(NumberOf(s)),
                     by |-> by]
  /\ signAt' = "forged"
  /\ UNCHANGED <<signing, tries>>

SignNext == SignDigest \/ SignFailed \/ Forged

-----------------------------------------------------------------------------
(* Verifying and recovering.                                                *)

InRange(n) == ~IsZero(n) /\ IsLess(n, SignCurve.order)

\* (digest * G + r * p) / s, p being the public key.
VerifySum(p, r, inv, z) ==
  LET sr == Mod(Multiply(r, inv, SignCurve.order), SignCurve.order)
  IN PointAdd(SignCurve, TimesPoint(sr, p), TimesG(z))

\* ecdsa_verify_digest: 0, or what is wrong.
VerifyPoint(p, r, s, inv) ==
  LET order == SignCurve.order
      z == Mod(Multiply(inv, ReadBE(Digest256), order), order)
  IN IF p = NoPoint THEN 1
     ELSE IF ~InRange(r) \/ ~InRange(s) THEN 2
     ELSE IF IsZero(z) THEN 3
     ELSE IF ~IsEqual(Mod(VerifySum(p, r, inv, z).x, order), r) THEN 5
     ELSE 0
VerifyDigest(pub, sig) ==
  VerifyPoint(ReadPubkey(pub), ReadBE(sig.r), ReadBE(sig.s),
              InverseNumber(ReadBE(sig.s), SignCurve.order))

\* ecdsa_verify_digest_recover: the public key, if there is one.
RecoverSum(r, s, cp) ==
  LET order == SignCurve.order
      e == FullyReduced(SubtractMod(order, ReadBE(Digest256), order), order)
      sum == PointAdd(SignCurve, TimesG(e), TimesPoint(s, cp))
  IN KeyOfPoint(TimesPoint(InverseNumber(r, order), sum))
RecoverPoint(r, s, x, by) ==
  LET cp == [x |-> x, y |-> UncompressCoords(SignCurve, by % 2 = 1, x)]
  IN IF ~InRange(r) \/ ~InRange(s) \/ (by >= 2 /\ ~IsLess(x, SignCurve.prime))
        \/ ~ValidatePubkey(SignCurve, cp)
     THEN NoPoint
     ELSE RecoverSum(r, s, cp)
Recovered(sig) ==
  LET r == ReadBE(sig.r)
  IN RecoverPoint(r, ReadBE(sig.s),
                  IF sig.by >= 2 THEN AddNumbers(r, SignCurve.order) ELSE r, sig.by)

-----------------------------------------------------------------------------
\* A signature that was made is verified under either form of the public key, unless the
\* digest is zero modulo the order; its s is not above half of the order; and its
\* recovery byte gives back the public key (ecdsa_sign_digest, ecdsa_verify_digest,
\* ecdsa_verify_digest_recover).
SignaturesVerify ==
  signAt = "signed" =>
    \A pub \in {PublicKey65(PrivKey), PublicKey33(PrivKey)} :
      /\ VerifyDigest(pub, signature) =
           IF signing.digest % signing.curve.order = 0 THEN 3 ELSE 0
      /\ ValueOf(ReadBE(signature.s)) <= signing.curve.order \div 2
      /\ pub.tag = 4 => Recovered(signature) = pub

KeyOfInfinity == KeyOfPoint(Infinity)

\* The equation of ECDSA in integers.
Equation(r, s, z) ==
  LET c == signing.curve
      n == c.order
      inv == InverseMod(s, n)
      sum == Multiple(c, TimesMod(inv, (z + TimesMod(r, signing.key, n)) % n, n))
  IN sum # <<>> /\ sum[1] % n = r

\* Whatever numbers a signature has, it is accepted only if they are in range and solve
\* the equation for the key and the digest, and what is recovered from it is a key for
\* which it is accepted, or else the point at infinity, which ecdsa_verify_digest_recover
\* does not tell from a key.
VerifiesAsDefined ==
  signAt = "forged" =>
    \A pub \in {PublicKey65(PrivKey), Recovered(signature)} \ {NoPoint, KeyOfInfinity} :
      LET r == ValueOf(ReadBE(signature.r))
          s == ValueOf(ReadBE(signature.s))
          n == signing.curve.order
          accepted == VerifyDigest(pub, signature) = 0
      IN IF pub = PublicKey65(PrivKey)
         THEN accepted <=> /\ r \in 1 .. n - 1 /\ s \in 1 .. n - 1 /\ signing.digest % n # 0
                           /\ Equation(r, s, signing.digest)
         ELSE signing.digest % n # 0 => accepted

=============================================================================

------------------------------- MODULE Octets -------------------------------
(* Bytes, of any number of bits, and the number that some of them write.    *)
EXTENDS Integers, Sequences

CONSTANT ByteBits    \* bits of a byte

ASSUME ByteAssumption == ByteBits \in Nat \ {0}

Byte == 0 .. 2 ^ ByteBits - 1

\* The highest byte first.
BigEndian(s) ==
  LET value[n \in 0 .. Len(s)] ==
        IF n = 0 THEN 0 ELSE value[n - 1] * 2 ^ ByteBits + s[n]
  IN value[Len(s)]

=============================================================================

------------------------------ MODULE BitWords ------------------------------
(* Words as the sets of their one bits, the lowest being bit 0, for the     *)
(* code that takes words apart: the ciphers and the hash functions.         *)
EXTENDS MachineWords

Xor(a, b) == (a \ b) \cup (b \ a)

RotateLeft(a, n, width) == {(i + n) % width : i \in a}
RotateRight(a, n, width) == {(i - n) % width : i \in a}
ShiftRight(a, n) == {i - n : i \in {j \in a : j >= n}}
Complement(a, width) == (0 .. width - 1) \ a

\* The sum, without what it carries over the highest bit.
Add(a, b, width) ==
  LET sum[i \in 0 .. width, carry \in BOOLEAN, done \in SUBSET Nat] ==
        IF i = width THEN done
        ELSE LET ones == (IF i \in a THEN 1 ELSE 0) + (IF i \in b THEN 1 ELSE 0)
                           + (IF carry THEN 1 ELSE 0)
             IN sum[i + 1, ones >= 2, IF ones % 2 = 1 THEN done \cup {i} ELSE done]
  IN sum[0, FALSE, {}]

\* Between words and numbers.
WordOf(n, width) == {i \in 0 .. width - 1 : (n \div 2 ^ i) % 2 = 1}

=============================================================================

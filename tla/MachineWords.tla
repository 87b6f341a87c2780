---------------------------- MODULE MachineWords ----------------------------
(* Words of bits as natural numbers, for the modules of the C code.         *)
EXTENDS Integers, Sequences

\* The same sequence; TLC evaluates its elements once.
Evaluated(s) == s \o <<>>

\* Bit number i of w.
Bit(w, i) == (w \div 2 ^ i) % 2

\* Bitwise exclusive or of two words of n bits.
XorWords(n, a, b) ==
  LET low[i \in 0 .. n] ==
        IF i = 0 THEN 0
        ELSE low[i - 1] + 2 ^ (i - 1) * ((Bit(a, i - 1) + Bit(b, i - 1)) % 2)
  IN low[n]

\* The loop of long arithmetic: the terms, lowest first, are added one by one to what is
\* carried, in a machine word below size; what is below the radix stays, the rest is
\* carried on.
Chained(term, carry, radix, size) ==
  LET temp[i \in 0 .. Len(term)] ==
        IF i = 0 THEN carry * radix ELSE (temp[i - 1] \div radix + term[i]) % size
  IN Evaluated([i \in 1 .. Len(term) |-> temp[i] % radix])

\* The number that digits are in a radix, the lowest first.
ValueIn(radix, digits) ==
  LET value[i \in 0 .. Len(digits)] ==
        IF i = 0 THEN 0 ELSE value[i - 1] * radix + digits[Len(digits) + 1 - i]
  IN value[Len(digits)]

Backwards(s) == Evaluated([i \in 1 .. Len(s) |-> s[Len(s) + 1 - i]])

\* Products and powers modulo m, a byte of a factor at a time.
TimesMod(a, b, m) ==
  LET value[i \in 0 .. 4] ==
        IF i = 4 THEN 0
        ELSE (value[i + 1] * 256 + (a % m) * (((b % m) \div 256 ^ i) % 256)) % m
  IN value[0]
PowerMod(a, e, m) ==
  LET power[square, n, product \in Nat] ==   \* product * square^n
        IF n = 0 THEN product
        ELSE power[TimesMod(square, square, m), n \div 2,
                   IF n % 2 = 1 THEN TimesMod(product, square, m) ELSE product]
  IN power[a % m, e, 1]
InverseMod(a, m) == PowerMod(a, m - 2, m)

=============================================================================

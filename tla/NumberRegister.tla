--------------------------- MODULE NumberRegister ---------------------------
(* Sequences of calls of bignum.c on one number, each under the conditions  *)
(* its comment states, next to the residue that integer arithmetic gives.   *)
EXTENDS Bignum

CONSTANTS
  Moduli,          \* the prime and the order, as integers
  StartWords,      \* what the number may be read from, the highest word first
  Operands,        \* the other numbers, as integers
  Divisors,        \* 58 and 1000 in the code
  FactorBound,     \* factors are below so many primes, 180 in the code
  MaxOperations    \* bound on the calls

ASSUME RegisterAssumption ==
  /\ \A m \in Moduli : Reducible(m)
  /\ \A w \in StartWords : w \in [1 .. Words -> 0 .. Uint - 1]
  /\ FactorBound * FactorBound * 2 ^ FullBits <= 2 ^ (LimbBits * LimbCount + 1)

VARIABLES
  modulus,
  number,        \* the limbs
  residue,       \* what the number should be modulo the modulus
  form,          \* "normal", "partly" or "reduced": what the last call guarantees
  operations     \* the calls so far

registerVars == <<modulus, number, residue, form, operations>>

-----------------------------------------------------------------------------
WordsValue(words) == ValueIn(Uint, Backwards(words))

Prime == NumberOf(modulus)
Fits(n) == n < 2 ^ (LimbBits * LimbCount)

RegisterInit ==
  /\ modulus \in Moduli
  /\ \E words \in StartWords :
       number = ReadBE(words) /\ residue = WordsValue(words) % modulus
  /\ form = "partly"
  /\ operations = 0

Becomes(n, r, f) ==
  /\ operations < MaxOperations
  /\ number' = n /\ residue' = r % modulus /\ form' = f
  /\ operations' = operations + 1
  /\ UNCHANGED modulus

AddOperand(b) ==
  /\ Fits(ValueOf(number) + b)
  /\ Becomes(AddNumbers(number, NumberOf(b)), residue + b, "normal")
AddOperandMod(b) == Becomes(AddMod(number, NumberOf(b), Prime), residue + b, "partly")
AddOne ==
  /\ Fits(ValueOf(number) + 1)
  /\ Becomes(AddSmall(number, 1), residue + 1, "normal")
SubtractOne ==
  /\ Fits(ValueOf(number) + modulus - 1)
  /\ Becomes(SubSmall(number, 1, Prime), residue - 1, "normal")
SubtractOperand(b) ==
  /\ ValueOf(number) > b
  /\ Becomes(Subtract(number, NumberOf(b)), residue - b, form)
SubtractOperandMod(b) ==
  /\ b < 2 * modulus /\ Fits(ValueOf(number) + 2 * modulus)
  /\ Becomes(SubtractMod(number, NumberOf(b), Prime), residue - b, "normal")
Double == Fits(2 * ValueOf(number)) /\ Becomes(Lshift(number), 2 * residue, "normal")
Halve == Becomes(Rshift(number), ValueOf(number) \div 2, form)
HalveMod ==
  /\ form # "normal"
  /\ Becomes(MultHalf(number, Prime),
             (IF residue % 2 = 0 THEN residue ELSE residue + modulus) \div 2, "partly")
MultiplySmall == \E k \in 0 .. 4 : Becomes(MultK(number, k, Prime), k * residue, "partly")
MultiplyOperand(b) ==
  /\ ValueOf(number) < FactorBound * modulus /\ b < FactorBound * modulus
  /\ Becomes(Multiply(NumberOf(b), number, Prime), TimesMod(b, residue, modulus), "partly")
ReducePartly == Becomes(FastMod(number, Prime), residue, "partly")
ReduceFully == form # "normal" /\ Becomes(Mod(number, Prime), residue, "reduced")
TakeRoot ==
  /\ modulus % 4 = 3 /\ ValueOf(number) < FactorBound * modulus
  /\ Becomes(Sqrt(number, Prime), PowerMod(residue, (modulus + 1) \div 4, modulus), "reduced")
DivideSmall(d) ==
  /\ DivMod(number, d).remainder = ValueOf(number) % d
  /\ Becomes(DivMod(number, d).quotient, ValueOf(number) \div d, form)
WriteAndRead ==
  /\ form = "reduced"
  /\ \/ Becomes(ReadBE(WriteBE(number)), residue, form)
     \/ Becomes(ReadLE(WriteLE(number)), residue, form)

RegisterNext ==
  \/ \E b \in Operands :
       \/ AddOperand(b) \/ AddOperandMod(b) \/ SubtractOperand(b)
       \/ SubtractOperandMod(b) \/ MultiplyOperand(b)
  \/ \E d \in Divisors : DivideSmall(d)
  \/ AddOne \/ SubtractOne \/ Double \/ Halve \/ HalveMod \/ MultiplySmall
  \/ ReducePartly \/ ReduceFully \/ TakeRoot \/ WriteAndRead

-----------------------------------------------------------------------------
\* After any calls whose conditions hold the limbs are those of a normalized number, which
\* is congruent to what integer arithmetic gives, and as small as the last call promises
\* (the comments of bignum.c): no limb has overflowed on the way.
NumbersAgree ==
  /\ Normalized(number)
  /\ ValueOf(number) % modulus = residue
  /\ form = "partly" => ValueOf(number) < 2 * modulus
  /\ form = "reduced" => ValueOf(number) < modulus

=============================================================================

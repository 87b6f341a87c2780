------------------------------ MODULE Mnemonic ------------------------------
(* The phrases of BIP-39 (bip39.c): data of 16 to 32 bytes and its          *)
(* checksum, in words of eleven bits.  A word is its index in the list, a   *)
(* phrase the words between its spaces.                                     *)
EXTENDS MachineWords

CONSTANT HashByte(_)   \* the first byte of the hash of some bytes

NotListed == -1        \* a word that is not in the list
NoWord == -2           \* between two spaces, or after the last

BitOf(bytes, b) == Bit(bytes[(b \div 8) + 1], 7 - (b % 8))

\* The lengths the functions accept.
CanEncode(len) == len % 4 = 0 /\ len >= 16 /\ len <= 32

MnemonicFromData(data) ==
  LET bits == Append(data, HashByte(data))
      idx(i) ==   \* word i, from 0
        LET value[j \in 0 .. 11] ==
              IF j = 0 THEN 0 ELSE 2 * value[j - 1] + BitOf(bits, i * 11 + j - 1)
        IN value[11]
  IN Evaluated([i \in 1 .. (Len(data) * 3) \div 4 |-> idx(i - 1)])

\* As many bits as there are whole words in front of the end; a word that is not listed,
\* or none between two spaces, ends the search.
BitsOfPhrase(phrase) ==
  LET listed == IF phrase[Len(phrase)] = NoWord THEN Len(phrase) - 1 ELSE Len(phrase)
  IN IF \E i \in 1 .. listed : phrase[i] \in {NotListed, NoWord} THEN <<>>
     ELSE Evaluated([b \in 1 .. 11 * listed |->
                       Bit(phrase[((b - 1) \div 11) + 1], 10 - ((b - 1) % 11))])

\* A mutant: the bits of a byte are read from its lowest one on.
ByteOfBitsBackwards(bits, n) ==
  LET value[j \in 0 .. 8] ==
        IF j = 0 THEN 0
        ELSE 2 * value[j - 1]
               + (IF 8 * n - j < Len(bits) THEN bits[8 * n + 1 - j] ELSE 0)
  IN value[8]

ByteOfBits(bits, n) ==
  LET value[j \in 0 .. 8] ==
        IF j = 0 THEN 0
        ELSE 2 * value[j - 1]
               + (IF 8 * (n - 1) + j <= Len(bits) THEN bits[8 * (n - 1) + j] ELSE 0)
  IN value[8]

\* The data, or nothing when the phrase does not hold.
DataFromMnemonic(phrase) ==
  LET n == Len(phrase)
      bits == BitsOfPhrase(phrase)
      length == (n * 4) \div 3
      data == Evaluated([i \in 1 .. length |-> ByteOfBits(bits, i)])
      kept(byte) == byte \div 2 ^ (8 - n \div 3)   \* the bits under the mask
  IN IF \/ n \notin {12, 18, 24} \/ Len(bits) # n * 11
        \/ kept(HashByte(data)) # kept(ByteOfBits(bits, length + 1))
     THEN <<>> ELSE data

MnemonicCheck(phrase) == Len(DataFromMnemonic(phrase)) > 0

=============================================================================

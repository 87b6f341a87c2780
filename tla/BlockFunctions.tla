--------------------------- MODULE BlockFunctions ---------------------------
(* The functions of one block at work: an AES context whose caller enciphers *)
(* and deciphers a block in place, and a hash state put through one block   *)
(* after another; against FIPS 197 and the definitions of HashTransforms.   *)
EXTENDS AesCipher, HashTransforms
LOCAL INSTANCE TLC

CONSTANTS
  CipherKeys,        \* keys, as sequences of 4, 6 or 8 words
  Plain,             \* the block that the caller starts with
  Depth,             \* how often it goes on enciphering, or deciphering
  HashInput(_, _, _) \* some words for a hash: how many, their width, and which time

ASSUME BlockAssumption == Depth \in Nat

VARIABLE primitive

-----------------------------------------------------------------------------
(* FIPS 197: bytes are polynomials over GF(2), modulo x^8 + x^4 + x^3 + x + 1. *)

Times(a, b) ==
  LET term[i \in 0 .. 8, sum \in Bytes8] ==
        IF i = 8 THEN sum
        ELSE LET power[n \in 0 .. i] == IF n = 0 THEN a ELSE f2(power[n - 1])
             IN term[i + 1, IF i \in b THEN Xor(sum, power[i]) ELSE sum]
  IN term[0, {}]

\* The inverse, the 254th power, put through the affine map.
SubByte(b) ==
  LET power[n \in 0 .. 7, square, raised \in Bytes8] ==
        IF n = 7 THEN raised
        ELSE LET next == Times(square, square) IN power[n + 1, next, Times(raised, next)]
      inverse == power[0, b, {0}]
      affine(i) == Cardinality({k \in {i, i + 4, i + 5, i + 6, i + 7} : k % 8 \in inverse}) % 2 = 1
  IN Xor({i \in 0 .. 7 : affine(i)}, {0, 1, 5, 6})
\* As tables, evaluated once.
DefinedSbox == [b \in Bytes8 |-> SubByte(b)] @@ <<>>
DefinedInverse == [c \in Bytes8 |-> CHOOSE b \in Bytes8 : DefinedSbox[b] = c] @@ <<>>

SubWord(w) == Evaluated([i \in 1 .. 4 |-> DefinedSbox[w[i]]])
RotWord(w) == <<w[2], w[3], w[4], w[1]>>
Rcon(i) == LET power[n \in 1 .. i] == IF n = 1 THEN {0} ELSE Times(power[n - 1], {1})
           IN <<power[i], {}, {}, {}>>

KeyExpansion(nk, key) ==
  LET w[i \in 0 .. 4 * (nk + 7), words \in Seq(Seq(Bytes8))] ==
        IF i = 4 * (nk + 7) THEN words
        ELSE LET temp == words[i]
                 next == CASE i % nk = 0 -> XorWord(SubWord(RotWord(temp)), Rcon(i \div nk))
                           [] nk > 6 /\ i % nk = 4 -> SubWord(temp)
                           [] i % nk # 0 /\ ~(nk > 6 /\ i % nk = 4) -> temp
             IN w[i + 1, Append(words, XorWord(words[i - nk + 1], next))]
  IN w[nk, key]

\* A column times the polynomial with these coefficients, the lowest first.
MixColumn(poly, x) ==
  Evaluated([r \in 1 .. 4 |->
    LET term(c) == Times(poly[((r - c + 4) % 4) + 1], x[c])
    IN Xor(Xor(term(1), term(2)), Xor(term(3), term(4)))])
Poly    == <<{1}, {0}, {0}, {0, 1}>>
InvPoly == <<{1, 2, 3}, {0, 3}, {0, 2, 3}, {0, 1, 3}>>

AddRoundKey(s, words, round) ==
  Evaluated([c \in 1 .. 4 |-> XorWord(s[c], words[4 * round + c])])
MixColumns(poly, s) == Evaluated([c \in 1 .. 4 |-> MixColumn(poly, s[c])])
\* Each byte replaced, and row r taken from the column turn(c, r).
SubShift(box, turn(_, _), s) ==
  Evaluated([c \in 1 .. 4 |-> Evaluated([r \in 1 .. 4 |-> box[s[turn(c - 1, r - 1) + 1][r]]])])
ShiftRows(c, r) == (c + r) % 4
InvShiftRows(c, r) == (c + 4 - r) % 4

Cipher(nk, words, in) ==
  LET round[n \in 1 .. nk + 6, s \in Seq(Seq(Bytes8))] ==
        LET t == SubShift(DefinedSbox, ShiftRows, s)
        IN IF n = nk + 6 THEN AddRoundKey(t, words, n)
           ELSE round[n + 1, AddRoundKey(MixColumns(Poly, t), words, n)]
  IN round[1, AddRoundKey(in, words, 0)]

InvCipher(nk, words, in) ==
  LET round[n \in 0 .. nk + 5, s \in Seq(Seq(Bytes8))] ==
        LET t == AddRoundKey(SubShift(DefinedInverse, InvShiftRows, s), words, n)
        IN IF n = 0 THEN t ELSE round[n - 1, MixColumns(InvPoly, t)]
  IN round[nk + 5, AddRoundKey(in, words, nk + 6)]

-----------------------------------------------------------------------------
BlockHashes == {"sha256", "sha512", "ripemd160", "sha3"}
Width(hash) == IF hash \in {"sha256", "ripemd160"} THEN 32 ELSE 64
Registers(hash) == CASE hash = "ripemd160" -> 5 [] hash = "sha3" -> 25 [] hash \in {"sha256", "sha512"} -> 8
Constants == HashInput(8, 32, 0)

\* A context with both schedules and its caller's block.
Keyed(key) == [kind |-> "aes", key |-> key, encrypt |-> EncryptKey(Len(key), key),
               decrypt |-> DecryptKey(Len(key), key), block |-> Plain, depth |-> 0]
Fresh(hash) == [kind |-> hash, times |-> 0, before |-> <<>>, data |-> <<>>,
                state |-> HashInput(Registers(hash), Width(hash), 0)]

BlocksInit == \/ \E key \in CipherKeys : primitive = Keyed(key)
              \/ \E hash \in BlockHashes : primitive = Fresh(hash)

Encrypt ==
  /\ primitive.kind = "aes" /\ primitive.depth < Depth
  /\ primitive' = [primitive EXCEPT !.depth = @ + 1,
                     !.block = aes_encrypt(Len(primitive.key), primitive.encrypt, @)]
Decrypt ==
  /\ primitive.kind = "aes" /\ primitive.depth > -Depth
  /\ primitive' = [primitive EXCEPT !.depth = @ - 1,
                     !.block = aes_decrypt(Len(primitive.key), primitive.decrypt, @)]
KeySet == primitive.kind = "aes" /\ \E key \in CipherKeys : primitive' = Keyed(key)

\* The next block of a message, for Keccak of a size that one of the functions has.
SizesOfBlock == {72, 104, 136, 144}
Compress(size) ==
  LET data == HashInput(IF primitive.kind = "sha3" THEN 25 ELSE 16, Width(primitive.kind), primitive.times + 1)
      after == CASE primitive.kind = "sha256" -> Sha2Transform(Sha256, primitive.state, data)
                 [] primitive.kind = "sha512" -> Sha2Transform(Sha512, primitive.state, data)
                 [] primitive.kind = "ripemd160" -> ripemd160_process(primitive.state, data, Constants)
                 [] primitive.kind = "sha3" -> sha3_process_block(primitive.state, data, size)
  IN /\ primitive.kind \in BlockHashes /\ primitive.times < Depth
     /\ size # 72 => primitive.kind = "sha3"
     /\ primitive' = [kind |-> primitive.kind, times |-> primitive.times + 1,
                      before |-> primitive.state, data |-> SubSeq(data, 1, IF primitive.kind = "sha3" THEN size \div 8 ELSE 16),
                      state |-> after]

BlocksNext == Encrypt \/ Decrypt \/ KeySet \/ \E size \in SizesOfBlock : Compress(size)
BlocksSpec == BlocksInit /\ [][BlocksNext]_primitive

-----------------------------------------------------------------------------
\* What a hash state became is what its definition makes of the one before: for Keccak,
\* of that with all words of the block xored in.
Compressed(p) ==
  CASE p.kind = "sha256" -> Sha2Defined(Sha256, p.before, p.data)
    [] p.kind = "sha512" -> Sha2Defined(Sha512, p.before, p.data)
    [] p.kind = "ripemd160" -> RipemdDefined(p.before, p.data, Constants)
    [] p.kind = "sha3" -> KeccakDefined(Evaluated([i \in 1 .. 25 |->
                            IF i <= Len(p.data) THEN Xor(p.before[i], p.data[i]) ELSE p.before[i]]))

\* The block after depth encipherments, or as many decipherments when it is negative.
Repeated(nk, words, depth) ==
  LET block[n \in -Depth .. Depth] ==
        CASE n = 0 -> Plain
          [] n > 0 -> Cipher(nk, words, block[n - 1])
          [] n < 0 -> InvCipher(nk, words, block[n + 1])
  IN block[depth]
Ciphered(key, depth) == Repeated(Len(key), KeyExpansion(Len(key), key), depth)

\* The functions compute what their standards define: a block that is enciphered and
\* deciphered in any order, with tables for whole rounds and a schedule for deciphering
\* that is mixed in advance, is the repeated Cipher or InvCipher of FIPS 197; the words
\* that SHA-2 expands in place, RIPEMD's lists of words and rotations, and Keccak's moves
\* in place, are the ones of their definitions.
BlocksAsDefined ==
  IF primitive.kind = "aes" THEN primitive.block = Ciphered(primitive.key, primitive.depth)
  ELSE primitive.times > 0 => primitive.state = Compressed(primitive)

=============================================================================

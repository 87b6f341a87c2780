----------------------------- MODULE AesCipher -----------------------------
(* AES (aeskey.c, aescrypt.c, aestab.c): the key schedules and a block.  A  *)
(* byte is the set of its bits, a word the sequence of its bytes, the       *)
(* lowest first, a block and a schedule sequences of words.                 *)
EXTENDS BitWords
LOCAL INSTANCE TLC

Bytes8 == SUBSET (0 .. 7)

-----------------------------------------------------------------------------
(* The tables.                                                              *)

sb_data == <<
   99, 124, 119, 123, 242, 107, 111, 197,  48,   1, 103,  43, 254, 215, 171, 118,
  202, 130, 201, 125, 250,  89,  71, 240, 173, 212, 162, 175, 156, 164, 114, 192,
  183, 253, 147,  38,  54,  63, 247, 204,  52, 165, 229, 241, 113, 216,  49,  21,
    4, 199,  35, 195,  24, 150,   5, 154,   7,  18, 128, 226, 235,  39, 178, 117,
    9, 131,  44,  26,  27, 110,  90, 160,  82,  59, 214, 179,  41, 227,  47, 132,
   83, 209,   0, 237,  32, 252, 177,  91, 106, 203, 190,  57,  74,  76,  88, 207,
  208, 239, 170, 251,  67,  77,  51, 133,  69, 249,   2, 127,  80,  60, 159, 168,
   81, 163,  64, 143, 146, 157,  56, 245, 188, 182, 218,  33,  16, 255, 243, 210,
  205,  12,  19, 236,  95, 151,  68,  23, 196, 167, 126,  61, 100,  93,  25, 115,
   96, 129,  79, 220,  34,  42, 144, 136,  70, 238, 184,  20, 222,  94,  11, 219,
  224,  50,  58,  10,  73,   6,  36,  92, 194, 211, 172,  98, 145, 149, 228, 121,
  231, 200,  55, 109, 141, 213,  78, 169, 108,  86, 244, 234, 101, 122, 174,   8,
  186, 120,  37,  46,  28, 166, 180, 198, 232, 221, 116,  31,  75, 189, 139, 138,
  112,  62, 181, 102,  72,   3, 246,  14,  97,  53,  87, 185, 134, 193,  29, 158,
  225, 248, 152,  17, 105, 217, 142, 148, 155,  30, 135, 233, 206,  85,  40, 223,
  140, 161, 137,  13, 191, 230,  66, 104,  65, 153,  45,  15, 176,  84, 187,  22>>

isb_data == <<
   82,   9, 106, 213,  48,  54, 165,  56, 191,  64, 163, 158, 129, 243, 215, 251,
  124, 227,  57, 130, 155,  47, 255, 135,  52, 142,  67,  68, 196, 222, 233, 203,
   84, 123, 148,  50, 166, 194,  35,  61, 238,  76, 149,  11,  66, 250, 195,  78,
    8,  46, 161, 102,  40, 217,  36, 178, 118,  91, 162,  73, 109, 139, 209,  37,
  114, 248, 246, 100, 134, 104, 152,  22, 212, 164,  92, 204,  93, 101, 182, 146,
  108, 112,  72,  80, 253, 237, 185, 218,  94,  21,  70,  87, 167, 141, 157, 132,
  144, 216, 171,   0, 140, 188, 211,  10, 247, 228,  88,   5, 184, 179,  69,   6,
  208,  44,  30, 143, 202,  63,  15,   2, 193, 175, 189,   3,   1,  19, 138, 107,
   58, 145,  17,  65,  79, 103, 220, 234, 151, 242, 207, 206, 240, 180, 230, 115,
  150, 172, 116,  34, 231, 173,  53, 133, 226, 249,  55, 232,  28, 117, 223, 110,
   71, 241,  26, 113,  29,  41, 197, 137, 111, 183,  98,  14, 170,  24, 190,  27,
  252,  86,  62,  75, 198, 210, 121,  32, 154, 219, 192, 254, 120, 205,  90, 244,
   31, 221, 168,  51, 136,   7, 199,  49, 177,  18,  16,  89,  39, 128, 236,  95,
   96,  81, 127, 169,  25, 181,  74,  13,  45, 229, 122, 159, 147, 201, 156, 239,
  160, 224,  59,  77, 174,  42, 245, 176, 200, 235, 187,  60, 131,  83, 153,  97,
   23,  43,   4, 126, 186, 119, 214,  38, 225, 105,  20,  99,  85,  33,  12, 125>>

\* The number a byte is, from 1 on.
NumberOfByte(b) ==
  LET index[i \in 0 .. 8] ==
        IF i = 0 THEN 1 ELSE index[i - 1] + IF i - 1 \in b THEN 2 ^ (i - 1) ELSE 0
  IN index[8]
Sbox    == [b \in Bytes8 |-> WordOf(sb_data[NumberOfByte(b)], 8)] @@ <<>>
InvSbox == [b \in Bytes8 |-> WordOf(isb_data[NumberOfByte(b)], 8)] @@ <<>>

\* Products with x and its powers, as bytes of words: u0 and v0 are columns of the
\* matrices of MixColumns and of its inverse.
f2(b) == Xor({i + 1 : i \in b \ {7}}, IF 7 \in b THEN {0, 1, 3, 4} ELSE {})
f4(b) == f2(f2(b))
f8(b) == f2(f4(b))
u0 == [b \in Bytes8 |-> <<f2(b), b, b, Xor(f2(b), b)>>] @@ <<>>
v0 == [b \in Bytes8 |->
         <<Xor(Xor(f8(b), f4(b)), f2(b)), Xor(f8(b), b),
           Xor(Xor(f8(b), f4(b)), b), Xor(Xor(f8(b), f2(b)), b)>>] @@ <<>>
w0(b) == <<b, {}, {}, {}>>

XorWord(v, w) == <<Xor(v[1], w[1]), Xor(v[2], w[2]), Xor(v[3], w[3]), Xor(v[4], w[4])>>
upr(w, n) == <<w[((4 - n) % 4) + 1], w[((5 - n) % 4) + 1], w[((6 - n) % 4) + 1], w[((7 - n) % 4) + 1]>>

\* Each byte is looked up in the table of its row, the first table's words turned.
FourTables(table, b0, b1, b2, b3) ==
  XorWord(XorWord(table[b0], upr(table[b1], 1)), XorWord(upr(table[b2], 2), upr(table[b3], 3)))

NormalTable    == [b \in Bytes8 |-> u0[Sbox[b]]] @@ <<>>
LastTable      == [b \in Bytes8 |-> w0(Sbox[b])] @@ <<>>
InvNormalTable == [b \in Bytes8 |-> v0[InvSbox[b]]] @@ <<>>
InvLastTable   == [b \in Bytes8 |-> w0(InvSbox[b])] @@ <<>>
ff(x) == FourTables(v0, x[1], x[2], x[3], x[4])

\* Row r of the result is byte r - c of the word.
LsBox(x, c) == LET byte(r) == x[((8 + r - c) % 4) + 1]
               IN FourTables(LastTable, byte(0), byte(1), byte(2), byte(3))

Rc(i) == LET power[n \in 0 .. i] == IF n = 0 THEN {0} ELSE f2(power[n - 1]) IN w0(power[i])

-----------------------------------------------------------------------------
(* The schedule for encrypting: nk words of the key, and from each nk words *)
(* the next; of the last, only what is needed.                              *)

CipherRounds(nk) == nk + 6
Length(nk) == 4 * (CipherRounds(nk) + 1)
Cycles(nk) == CASE nk = 4 -> 10 [] nk = 6 -> 8 [] nk = 8 -> 7

Stirred(x, i) == XorWord(LsBox(x, 3), Rc(i))

\* ke4, ke6 and ke8.
Cycle(nk, i, ss) ==
  LET next[j \in 1 .. nk + 1, done \in Seq(Seq(Bytes8))] ==
        IF j > nk THEN done
        ELSE next[j + 1, Append(done,
               CASE j = 1 -> XorWord(ss[1], Stirred(ss[nk], i))
                 [] j = 5 /\ nk = 8 -> XorWord(ss[5], LsBox(done[4], 0))
                 [] j # 1 /\ ~(j = 5 /\ nk = 8) -> XorWord(ss[j], done[j - 1]))]
  IN next[1, <<>>]

EncryptKey(nk, key) ==
  LET extend[i \in 0 .. Cycles(nk), ss \in Seq(Seq(Bytes8)), ks \in Seq(Seq(Bytes8))] ==
        IF i = Cycles(nk) THEN ks
        ELSE LET next == Cycle(nk, i, ss) IN extend[i + 1, next, ks \o next]
  IN SubSeq(extend[0, key, key], 1, Length(nk))

-----------------------------------------------------------------------------
(* The schedule for decrypting: the round keys in reverse order, and all    *)
(* but the first and the last put through the inverse of MixColumns, which  *)
(* the code does once per cycle: a word is what is stirred in and all words *)
(* of the cycle before it up to this one.                                   *)

\* v(n, i), where word i lies.
Place(nk, i) == 4 * CipherRounds(nk) - i + 2 * (i % 4) + 1

Put(ks, nk, at, words) ==
  LET put[j \in 0 .. Len(words), keys \in Seq(Seq(Bytes8))] ==
        IF j = Len(words) THEN keys
        ELSE put[j + 1, [keys EXCEPT ![Place(nk, at + j)] = words[j + 1]]]
  IN put[0, ks]

Sums(ks, nk, at, count, start) ==
  LET sums[j \in 0 .. count, sum \in Seq(Bytes8), done \in Seq(Seq(Bytes8))] ==
        IF j = count THEN done
        ELSE LET next == XorWord(sum, ks[Place(nk, at + j)])
             IN sums[j + 1, next, Append(done, next)]
  IN sums[0, start, <<>>]

Mixed(words) == Evaluated([j \in 1 .. Len(words) |-> ff(words[j])])

NoSchedule(nk) == Evaluated([i \in 1 .. Length(nk) |-> <<{}, {}, {}, {}>>])
KeyPlaced(nk, key) ==
  Put(Put(NoSchedule(nk), nk, 0, SubSeq(key, 1, 4)), nk, 4, Mixed(SubSeq(key, 5, nk)))

\* kdf6, kd6 and kdl6, and those of 8: the words of the first cycle are mixed, then the
\* stirred ones only, and in the last cycle none.
DecryptCycle(nk, i, ss, ks) ==
  LET next == Cycle(nk, i, ss)
      first == Sums(ks, nk, nk * i, IF nk = 8 THEN 4 ELSE nk, ff(Stirred(ss[nk], i)))
      second == IF nk = 8 THEN Sums(ks, nk, nk * i + 4, 4, ff(LsBox(next[4], 0))) ELSE <<>>
  IN CASE i = 0 -> Put(ks, nk, nk, Mixed(next))
       [] i > 0 /\ i < Cycles(nk) - 1 -> Put(ks, nk, nk * (i + 1), first \o second)
       [] i = Cycles(nk) - 1 -> Put(ks, nk, nk * (i + 1), SubSeq(next, 1, 4))

DecryptKeyLong(nk, key) ==
  LET extend[i \in 0 .. Cycles(nk), ss \in Seq(Seq(Bytes8)), ks \in Seq(Seq(Bytes8))] ==
        IF i = Cycles(nk) THEN ks
        ELSE extend[i + 1, Cycle(nk, i, ss), DecryptCycle(nk, i, ss, ks)]
  IN extend[0, key, KeyPlaced(nk, key)]

\* With four words, ss is not the cycle's words but sums of them, of which a cycle changes
\* one: kdf4 makes the sums and mixes the words, kd4 mixes what is stirred in, and kdl4
\* takes the sums apart.
SumsOfKey(key) ==
  <<XorWord(XorWord(key[1], key[3]), XorWord(key[2], key[4])), XorWord(key[2], key[4]),
    XorWord(key[3], key[4]), key[4]>>
Stir4(ss, i) == Stirred(ss[((i + 3) % 4) + 1], i)
Stirred4(ss, i) == [ss EXCEPT ![(i % 4) + 1] = XorWord(@, Stir4(ss, i))]
LastWords(ss) ==
  LET sum == XorWord(ss[1], ss[2])
  IN <<XorWord(sum, XorWord(ss[3], ss[4])), XorWord(ss[2], ss[4]), sum, ss[2]>>

DecryptKey128(key) ==
  LET extend[i \in 0 .. 10, ss \in Seq(Seq(Bytes8)), ks \in Seq(Seq(Bytes8))] ==
        IF i = 10 THEN ks
        ELSE LET words == CASE i = 0 -> Mixed(Sums(ks, 4, 0, 4, Stir4(ss, 0)))
                            [] i \in 1 .. 8 -> Sums(ks, 4, 4 * i, 4, ff(Stir4(ss, i)))
                            [] i = 9 -> LastWords(Stirred4(ss, 9))
             IN extend[i + 1, Stirred4(ss, i), Put(ks, 4, 4 * (i + 1), words)]
  IN extend[0, SumsOfKey(key), Put(NoSchedule(4), 4, 0, key)]

DecryptKey(nk, key) == IF nk = 4 THEN DecryptKey128(key) ELSE DecryptKeyLong(nk, key)

-----------------------------------------------------------------------------
(* A block.                                                                 *)

\* A round, where row r of column c comes from the column that the shift says.
Round(table, column, x, ks, at) ==
  LET byte(c, r) == x[column[c, r] + 1][r + 1]
      y(c) == XorWord(ks[at + c + 1],
                      FourTables(table, byte(c, 0), byte(c, 1), byte(c, 2), byte(c, 3)))
  IN <<y(0), y(1), y(2), y(3)>>

Fwd == [c \in 0 .. 3, r \in 0 .. 3 |-> (c + r) % 4]
Inv == [c \in 0 .. 3, r \in 0 .. 3 |-> (4 + c - r) % 4]

AesBlock(table, last, column, nk, ks, in) ==
  LET state[n \in 0 .. CipherRounds(nk), x \in Seq(Seq(Bytes8))] ==
        IF n = CipherRounds(nk) - 1 THEN Round(last, column, x, ks, 4 * CipherRounds(nk))
        ELSE state[n + 1, Round(table, column, x, ks, 4 * (n + 1))]
  IN state[0, <<XorWord(in[1], ks[1]), XorWord(in[2], ks[2]),
                XorWord(in[3], ks[3]), XorWord(in[4], ks[4])>>]

aes_encrypt(nk, ks, in) == AesBlock(NormalTable, LastTable, Fwd, nk, ks, in)
aes_decrypt(nk, ks, in) == AesBlock(InvNormalTable, InvLastTable, Inv, nk, ks, in)

=============================================================================

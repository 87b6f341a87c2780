---------------------------- MODULE HashContext ----------------------------
(* The contexts of the hash functions (sha2.c, ripemd160.c, sha3.c): what   *)
(* Init, Update and Final do with the block buffer and with the count of    *)
(* what has come, byte, word and block sizes being parameters.  The         *)
(* compression function is not evaluated: a context's state is its chain,   *)
(* the sequence of the blocks, as words, that have been transformed.        *)
EXTENDS Octets

CONSTANTS
  WordBytes,   \* bytes of a word
  BlockWords   \* words of a block, the last two for the length

ASSUME SizesAssumption ==
  WordBytes \in Nat \ {0} /\ BlockWords \in Nat /\ BlockWords > 2

WordBits == ByteBits * WordBytes
Radix == 2 ^ WordBits                   \* a word is below it
BlockLength == WordBytes * BlockWords
ShortBlockLength == BlockLength - 2 * WordBytes
Mark == 2 ^ (ByteBits - 1)              \* 0x80
Finalized == -1                         \* SHA3_FINALIZED, which no count of bytes is

\* The law of exponents, for the powers that are written here.
ASSUME PowersAssumption ==
  \A m, n \in 0 .. 2 * WordBits :
    m + n <= 2 * WordBits => 2 ^ (m + n) = 2 ^ m * 2 ^ n

-----------------------------------------------------------------------------
(* Bytes, words and the buffer.                                             *)

Reversed(s) == [i \in 1 .. Len(s) |-> s[Len(s) + 1 - i]]

WordBytesOf(b, j) == SubSeq(b, (j - 1) * WordBytes + 1, j * WordBytes)

\* The words of a block as sha2.c reads them, and as ripemd160.c and sha3.c do.
WordsBE(b) == [j \in 1 .. BlockWords |-> BigEndian(WordBytesOf(b, j))]
WordsLE(b) == [j \in 1 .. BlockWords |-> BigEndian(Reversed(WordBytesOf(b, j)))]

\* The buffer after its words have been converted to host order in place.
HostOrder(b) ==
  [i \in 1 .. BlockLength |->
     b[((i - 1) \div WordBytes) * WordBytes + WordBytes - ((i - 1) % WordBytes)]]

\* memcpy(buffer + at, data, Len(data)), and memset(buffer + at, 0, to - at)
Copy(buffer, at, data) ==
  [i \in 1 .. BlockLength |->
     IF i \in at + 1 .. at + Len(data) THEN data[i - at] ELSE buffer[i]]
Clear(buffer, at, to) ==
  [i \in 1 .. BlockLength |-> IF i \in at + 1 .. to THEN 0 ELSE buffer[i]]

EmptyBuffer == [i \in 1 .. BlockLength |-> 0]

\* What an Update does with its data when the buffer holds used bytes: the blocks it
\* completes, the bytes it leaves in the buffer and where it puts them.
Absorbed(buffer, used, data) ==
  LET free == BlockLength - used
      skip == IF used > 0 THEN free ELSE 0
      whole == (Len(data) - skip) \div BlockLength
      filled == IF used > 0 THEN <<Copy(buffer, used, SubSeq(data, 1, free))>> ELSE <<>>
  IN IF used > 0 /\ Len(data) < free
     THEN [blocks |-> <<>>, left |-> data, at |-> used]
     ELSE [blocks |-> filled \o
             [k \in 1 .. whole |->
                SubSeq(data, skip + (k - 1) * BlockLength + 1, skip + k * BlockLength)],
           left |-> SubSeq(data, skip + whole * BlockLength + 1, Len(data)), at |-> 0]

-----------------------------------------------------------------------------
(* SHA-256 and SHA-512: a count of bits in one counter of two words, or in  *)
(* two words with a carry.                                                  *)

Sha256Init == [chain |-> <<>>, buffer |-> EmptyBuffer, count |-> <<0>>]
Sha512Init == [chain |-> <<>>, buffer |-> EmptyBuffer, count |-> <<0, 0>>]

\* Every complete block passes through the buffer and is converted there.
Sha2Absorb(ctx, used, data, count) ==
  LET a == Absorbed(ctx.buffer, used, data)
      n == Len(a.blocks)
      stale == IF n = 0 THEN ctx.buffer ELSE HostOrder(a.blocks[n])
  IN [chain  |-> ctx.chain \o [k \in 1 .. n |-> WordsBE(a.blocks[k])],
      buffer |-> Copy(stale, a.at, a.left),
      count  |-> count]

Sha256Used(ctx) == (ctx.count[1] \div ByteBits) % BlockLength

Sha256Update(ctx, data) ==
  Sha2Absorb(ctx, Sha256Used(ctx), data,
             <<(ctx.count[1] + ByteBits * Len(data)) % (Radix * Radix)>>)

\* A mutant: what does not fit is lost.
AddIncrementLost(w, n) == <<(w[1] + n) % Radix, w[2]>>

\* ADDINC128 adds less than a word, and carries.
AddIncrement(w, n) ==
  LET low == (w[1] + n) % Radix
  IN <<low, IF low < n THEN (w[2] + 1) % Radix ELSE w[2]>>

\* The data is counted as it is taken: what fills the buffer, each block, the rest.
Sha512Count(w, used, data) ==
  LET free == BlockLength - used
      skip == IF used > 0 THEN free ELSE 0
      whole == (Len(data) - skip) \div BlockLength
      rest == (Len(data) - skip) % BlockLength
      filled == IF used > 0 THEN AddIncrement(w, ByteBits * free) ELSE w
      after[k \in 0 .. whole] ==
        IF k = 0 THEN filled ELSE AddIncrement(after[k - 1], ByteBits * BlockLength)
  IN IF used > 0 /\ Len(data) < free
     THEN AddIncrement(w, ByteBits * Len(data))
     ELSE AddIncrement(after[whole], ByteBits * rest)

Sha512Used(ctx) == (ctx.count[1] \div ByteBits) % BlockLength

Sha512Update(ctx, data) ==
  Sha2Absorb(ctx, Sha512Used(ctx), data, Sha512Count(ctx.count, Sha512Used(ctx), data))

\* The chain after the padding: one block, or two where the length does not fit.
Sha2Last(ctx, used, high, low) ==
  LET marked == Copy(ctx.buffer, used, <<Mark>>)
      full == used + 1 > ShortBlockLength
      first == IF full THEN <<WordsBE(Clear(marked, used + 1, BlockLength))>> ELSE <<>>
      last == Clear(marked, IF full THEN 0 ELSE used + 1, ShortBlockLength)
  IN ctx.chain \o first \o
       <<[j \in 1 .. BlockWords |->
            CASE j = BlockWords - 1 -> high
              [] j = BlockWords -> low
              [] OTHER -> WordsBE(last)[j]]>>

Sha256Final(ctx) ==
  Sha2Last(ctx, Sha256Used(ctx), ctx.count[1] \div Radix, ctx.count[1] % Radix)
Sha512Final(ctx) == Sha2Last(ctx, Sha512Used(ctx), ctx.count[2], ctx.count[1])

Sha256Raw(data) == Sha256Final(Sha256Update(Sha256Init, data))
Sha512Raw(data) == Sha512Final(Sha512Update(Sha512Init, data))

-----------------------------------------------------------------------------
(* RIPEMD-160: a count of bytes in two words, that is turned into bits.     *)

Ripemd160Init == [chain |-> <<>>, buffer |-> EmptyBuffer, count |-> <<0, 0>>]

Ripemd160Used(ctx) == ctx.count[1] % BlockLength

\* Only a block that completes the buffer passes through it.
Ripemd160Update(ctx, data) ==
  LET used == Ripemd160Used(ctx)
      a == Absorbed(ctx.buffer, used, data)
      n == Len(a.blocks)
      stale == IF used > 0 /\ n > 0 THEN a.blocks[1] ELSE ctx.buffer
      low == (ctx.count[1] + Len(data)) % Radix
  IN [chain  |-> ctx.chain \o [k \in 1 .. n |-> WordsLE(a.blocks[k])],
      buffer |-> Copy(stale, a.at, a.left),
      count  |-> <<low, IF low < Len(data) THEN (ctx.count[2] + 1) % Radix
                                           ELSE ctx.count[2]>>]

\* The bytes of a word, the lowest first.
PutLE(w) == [i \in 1 .. WordBytes |-> (w \div 2 ^ (ByteBits * (i - 1))) % 2 ^ ByteBits]

Ripemd160Final(ctx) ==
  LET low == (ctx.count[1] * ByteBits) % Radix
      high == ((ctx.count[1] * ByteBits) \div Radix + ctx.count[2] * ByteBits) % Radix
      last == Ripemd160Used(ctx)
      padn == IF last < ShortBlockLength THEN ShortBlockLength - last
                                         ELSE BlockLength + ShortBlockLength - last
      padding == [i \in 1 .. padn |-> IF i = 1 THEN Mark ELSE 0]
  IN Ripemd160Update(Ripemd160Update(ctx, padding), PutLE(low) \o PutLE(high)).chain

-----------------------------------------------------------------------------
(* SHA-3 and Keccak: a count of the bytes in the buffer.                    *)

Sha3Init == [chain |-> <<>>, buffer |-> EmptyBuffer, count |-> <<0>>]

\* Blocks that are aligned in the caller's memory are not copied.
Sha3Update(ctx, data, aligned) ==
  LET used == ctx.count[1]
      a == Absorbed(ctx.buffer, used, data)
      n == Len(a.blocks)
      stale == IF n > (IF used > 0 THEN 1 ELSE 0) /\ ~aligned THEN a.blocks[n]
               ELSE IF used > 0 /\ n > 0 THEN a.blocks[1] ELSE ctx.buffer
  IN IF used = Finalized THEN ctx
     ELSE [chain  |-> ctx.chain \o [k \in 1 .. n |-> WordsLE(a.blocks[k])],
           buffer |-> Copy(stale, a.at, a.left),
           count  |-> <<(used + Len(data)) % BlockLength>>]

\* sha3_Final marks the end of the data with 6, keccak_Final with 1; the last byte
\* of the block gets the highest bit, and may be the marked one.
SpongeFinal(ctx, mark) ==
  LET used == ctx.count[1]
      marked == Copy(Clear(ctx.buffer, used, BlockLength), used, <<mark>>)
      last == Copy(marked, BlockLength - 1, <<marked[BlockLength] + Mark>>)
  IN IF used = Finalized THEN ctx
     ELSE [ctx EXCEPT !.chain = Append(@, WordsLE(last)), !.buffer = last,
                      !.count = <<Finalized>>]
Sha3Final(ctx) == SpongeFinal(ctx, 6)
KeccakFinal(ctx) == SpongeFinal(ctx, 1)

=============================================================================

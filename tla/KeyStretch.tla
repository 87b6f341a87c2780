----------------------------- MODULE KeyStretch -----------------------------
(* HMAC (hmac.c) and PBKDF2 (pbkdf2.c) over the contexts of HashContext,    *)
(* with the short cuts of the code: padded keys that are hashed once, and   *)
(* blocks of one digest that are transformed without a context.             *)
EXTENDS HashContext, MachineWords

CONSTANT DigestWords(_)   \* the state words after a chain, half a block of them

HashWords == BlockWords \div 2
HashLength == HashWords * WordBytes

\* What is below takes for granted: a block has room for a digest, the mark and the length,
\* and the length of two blocks is in the low word; blocks divide a word's count.
ASSUME StretchAssumption ==
  /\ BlockWords >= HashWords + 3
  /\ (BlockLength + HashLength) * ByteBits < Radix
  /\ Radix % (ByteBits * BlockLength) = 0

\* Words as bytes, the highest byte of a word first.
BytesBE(words) ==
  [i \in 1 .. Len(words) * WordBytes |->
     (words[((i - 1) \div WordBytes) + 1]
        \div 2 ^ (ByteBits * (WordBytes - 1 - ((i - 1) % WordBytes)))) % 2 ^ ByteBits]

Digest(chain) == Evaluated(BytesBE(DigestWords(chain)))

HashInit(h) == IF h = "sha256" THEN Sha256Init ELSE Sha512Init
HashUpdate(h, ctx, data) ==
  IF Len(data) = 0 THEN ctx
  ELSE IF h = "sha256" THEN Sha256Update(ctx, data) ELSE Sha512Update(ctx, data)
LastChain(h, ctx) == IF h = "sha256" THEN Sha256Final(ctx) ELSE Sha512Final(ctx)
HashFinal(h, ctx) == Digest(LastChain(h, ctx))
HashRaw(h, data) == HashFinal(h, HashUpdate(h, HashInit(h), data))

-----------------------------------------------------------------------------
(* HMAC.                                                                    *)

OuterPad == 92 % 2 ^ ByteBits   \* 0x5c
InnerPad == 54 % 2 ^ ByteBits   \* 0x36

\* The key in one block, hashed first if it is longer, under a pad.
KeyPad(h, key, pad) ==
  LET block == Copy(EmptyBuffer, 0, IF Len(key) > BlockLength THEN HashRaw(h, key) ELSE key)
  IN Evaluated([i \in 1 .. BlockLength |-> XorWords(WordBits, block[i], pad)])

HmacInit(h, key) ==
  [outer |-> KeyPad(h, key, OuterPad),
   ctx   |-> HashUpdate(h, HashInit(h), KeyPad(h, key, InnerPad))]
HmacUpdate(h, hctx, msg) == [hctx EXCEPT !.ctx = HashUpdate(h, @, msg)]
HmacFinal(h, hctx) ==
  LET hash == HashFinal(h, hctx.ctx)
      again == HashUpdate(h, HashInit(h), hctx.outer)
  IN HashFinal(h, HashUpdate(h, again, hash))
Hmac(h, key, msg) == HmacFinal(h, HmacUpdate(h, HmacInit(h, key), msg))

\* The states after the padded keys.
HmacPrepare(h, key) ==
  [outer |-> <<Evaluated(WordsBE(KeyPad(h, key, OuterPad)))>>,
   inner |-> <<Evaluated(WordsBE(KeyPad(h, key, InnerPad)))>>]

-----------------------------------------------------------------------------
(* PBKDF2, for keys of one digest.                                          *)

BlockNumber == [i \in 1 .. 2 |-> IF i = 2 THEN 1 ELSE 0]

\* g is a block of its own: a digest, the mark and the length of a padded key and it.
DigestBlock(chain) ==
  DigestWords(chain)
    \o <<Mark * 2 ^ (ByteBits * (WordBytes - 1))>>
    \o [j \in 1 .. BlockWords - HashWords - 2 |-> 0]
    \o <<((BlockLength + HashLength) * ByteBits) % Radix>>

\* The context of the first hash begins after the padded key, with a buffer that holds
\* whatever is on the stack.
AfterKey(h, chain, stack) ==
  [chain |-> chain, buffer |-> stack,
   count |-> IF h = "sha256" THEN <<BlockLength * ByteBits>>
                             ELSE <<(BlockLength * ByteBits) % Radix, 0>>]

\* The keys and g, the block of the first hash, in f too.
Pbkdf2Context(keys, g) ==
  [outer |-> keys.outer, inner |-> keys.inner, g |-> g,
   f |-> SubSeq(g, 1, HashWords), first |-> 1]

FirstBlock(h, keys, salt, stack) ==
  LET salted == HashUpdate(h, HashUpdate(h, AfterKey(h, keys.inner, stack), salt), BlockNumber)
  IN DigestBlock(Append(keys.outer, DigestBlock(LastChain(h, salted))))

Pbkdf2Init(h, pass, salt, stack) ==
  LET keys == HmacPrepare(h, pass) IN Pbkdf2Context(keys, FirstBlock(h, keys, salt, stack))

\* One iteration: the inner and the outer hash of g, added to f.
Iterate(p) ==
  LET inner == DigestBlock(Append(p.inner, p.g))
      g == DigestBlock(Append(p.outer, inner))
  IN [p EXCEPT !.g = g, !.f = Evaluated([j \in 1 .. HashWords |-> XorWords(WordBits, p.f[j], g[j])])]

\* The first call has one iteration behind it.
Pbkdf2Update(p, iterations) ==
  LET after[i \in 0 .. iterations] == IF i <= p.first THEN p ELSE Iterate(after[i - 1])
  IN [after[iterations] EXCEPT !.first = 0]

Pbkdf2Final(p) == Evaluated(BytesBE(p.f))

Pbkdf2(h, pass, salt, iterations, stack) ==
  Pbkdf2Final(Pbkdf2Update(Pbkdf2Init(h, pass, salt, stack), iterations))

-----------------------------------------------------------------------------
(* The definitions of RFC 2104 and RFC 2898.                                *)

HmacReference(h, key, msg) ==
  LET block(pad) == KeyPad(h, key, pad)
  IN HashRaw(h, block(OuterPad) \o HashRaw(h, block(InnerPad) \o msg))

XorDigests(a, b) == Evaluated([i \in 1 .. HashLength |-> XorWords(WordBits, a[i], b[i])])

\* Each hash is that of the one before; all of them are added.
Pbkdf2Reference(h, pass, salt, iterations) ==
  LET after[i \in 1 .. iterations] ==
        IF i = 1
        THEN LET hash == HmacReference(h, pass, salt \o BlockNumber)
             IN [last |-> hash, sum |-> hash]
        ELSE LET before == after[i - 1]
                 hash == HmacReference(h, pass, before.last)
             IN [last |-> hash, sum |-> XorDigests(before.sum, hash)]
  IN after[iterations].sum

=============================================================================

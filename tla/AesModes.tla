------------------------------ MODULE AesModes ------------------------------
(* src/ios/Classes/aes_modes.c, the build without the VIA engine: the modes *)
(* of operation over a block cipher, called with a message in pieces. What  *)
(* a call leaves for the next is the caller's iv or counter block and the   *)
(* place in it, inf.b[2] of the context. The aligned and the bytewise loop  *)
(* of each function compute the same, and are one definition here.          *)
EXTENDS MachineWords, Octets

CONSTANTS
  BlockBytes,       \* AES_BLOCK_SIZE
  BufferBlocks,     \* BFR_BLOCKS: what aes_ctr_crypt enciphers at once
  Encipher(_),      \* aes_encrypt with the key of the context
  Decipher(_),      \* aes_decrypt with the same key
  PlainText,        \* what the caller enciphers or gets back
  FirstIv,          \* its iv or counter block
  Pieces            \* the lengths of the pieces it passes

CipherBlocks == [1 .. BlockBytes -> Byte]

ASSUME ModesAssumption ==
  /\ BlockBytes \in Nat \ {0} /\ BufferBlocks \in Nat \ {0} /\ Pieces \subseteq Nat
  /\ PlainText \in Seq(Byte) /\ FirstIv \in CipherBlocks

\* The cipher makes blocks of blocks, which it can undo.
ASSUME CipherAssumption ==
  \A b \in CipherBlocks : Encipher(b) \in CipherBlocks /\ Decipher(Encipher(b)) = b

\* The law of exponents, for the powers that are written in the counter.
ASSUME CounterAssumption ==
  \A k \in 0 .. BlockBytes - 1 :
    2 ^ (ByteBits * (k + 1)) = 2 ^ (ByteBits * k) * 2 ^ ByteBits

VARIABLE
  stream    \* mode, the context's pos and the caller's iv; how much of the message was
            \* passed, what came out, and whether the last call succeeded

Modes == {"ecb_encrypt", "ecb_decrypt", "cbc_encrypt", "cbc_decrypt",
          "cfb_encrypt", "cfb_decrypt", "ofb_crypt", "ctr_crypt"}

XorBytes(a, b) == Evaluated([i \in 1 .. Len(a) |-> XorWords(ByteBits, a[i], b[i])])
BlockIn(bytes, j) == SubSeq(bytes, (j - 1) * BlockBytes + 1, j * BlockBytes)
Whole(bytes) == Len(bytes) % BlockBytes = 0
Least(m, n) == IF m < n THEN m ELSE n

-----------------------------------------------------------------------------
(* A block, in the loops: the functions take d, the iv, the place and the   *)
(* output so far, and a block.                                              *)

ecb_encrypt(d, b) == [d EXCEPT !.out = @ \o Encipher(b)]
ecb_decrypt(d, b) == [d EXCEPT !.out = @ \o Decipher(b)]
cbc_encrypt(d, b) ==
  LET iv == Encipher(XorBytes(d.iv, b)) IN [d EXCEPT !.iv = iv, !.out = @ \o iv]
cbc_decrypt(d, b) == [d EXCEPT !.iv = b, !.out = @ \o XorBytes(Decipher(b), d.iv)]

\* The feedback modes xor the bytes with the iv from place pos on, and keep there what came
\* out, what went in, or the iv.
XorKept(mode, d, bytes) ==
  LET out == XorBytes(bytes, SubSeq(d.iv, d.pos + 1, d.pos + Len(bytes)))
      kept(i) == CASE mode = "cfb_encrypt" -> out[i]
                   [] mode = "cfb_decrypt" -> bytes[i]
                   [] mode = "ofb_crypt"   -> d.iv[d.pos + i]
  IN [d EXCEPT !.iv = Evaluated([i \in 1 .. BlockBytes |->
                        IF i \in d.pos + 1 .. d.pos + Len(bytes) THEN kept(i - d.pos) ELSE d.iv[i]]),
               !.pos = (@ + Len(bytes)) % BlockBytes,
               !.out = @ \o out]

\* Each block of theirs begins with a freshly enciphered iv; the last may be short.
FeedbackBlock(mode, d, b) == XorKept(mode, [d EXCEPT !.iv = Encipher(@)], b)

OneBlock(mode, d, b) ==
  CASE mode = "ecb_encrypt" -> ecb_encrypt(d, b)
    [] mode = "ecb_decrypt" -> ecb_decrypt(d, b)
    [] mode = "cbc_encrypt" -> cbc_encrypt(d, b)
    [] mode = "cbc_decrypt" -> cbc_decrypt(d, b)
    [] OTHER -> FeedbackBlock(mode, d, b)

WholeBlocks(mode, c, bytes) ==
  LET after[j \in 0 .. Len(bytes) \div BlockBytes] ==
        IF j = 0 THEN c ELSE OneBlock(mode, after[j - 1], BlockIn(bytes, j))
  IN after[Len(bytes) \div BlockBytes]

-----------------------------------------------------------------------------
(* Bytes: the feedback modes.                                               *)

\* How many of n bytes go to the block an earlier call left unfinished.
Started(c, n) == IF c.pos = 0 THEN 0 ELSE Least(BlockBytes - c.pos, n)

\* That block, whole blocks, and what remains.
Feedback(mode, c, bytes) ==
  LET n       == Started(c, Len(bytes))
      partial == IF c.pos = 0 THEN c ELSE XorKept(mode, c, SubSeq(bytes, 1, n))
      rest    == SubSeq(bytes, n + 1, Len(bytes))
      tail    == SubSeq(rest, Len(rest) - (Len(rest) % BlockBytes) + 1, Len(rest))
      blocks  == WholeBlocks(mode, partial, rest)
  IN IF tail = <<>> THEN blocks ELSE FeedbackBlock(mode, blocks, tail)

cfb_encrypt(c, bytes) == Feedback("cfb_encrypt", c, bytes)
cfb_decrypt(c, bytes) == Feedback("cfb_decrypt", c, bytes)
ofb_crypt(c, bytes)   == Feedback("ofb_crypt", c, bytes)

-----------------------------------------------------------------------------
(* The counter mode.                                                        *)

\* aes_ctr_cbuf_inc: the lowest byte is the last, and one that overflows is carried.
ctr_cbuf_inc(cbuf) ==
  Evaluated([i \in 1 .. BlockBytes |->
    IF \A j \in i + 1 .. BlockBytes : cbuf[j] = 2 ^ ByteBits - 1
    THEN (cbuf[i] + 1) % 2 ^ ByteBits ELSE cbuf[i]])

\* A mutant: the place is taken for the start of the next block at the end of every call.
CounterPartialReset(c, bytes) ==
  IF c.pos = 0 THEN c
  ELSE LET n    == Started(c, Len(bytes))
           done == [c EXCEPT !.pos = (@ + n) % BlockBytes,
                             !.out = @ \o XorBytes(SubSeq(bytes, 1, n),
                                                   SubSeq(Encipher(c.iv), c.pos + 1, BlockBytes))]
       IN IF n < Len(bytes) THEN [done EXCEPT !.iv = ctr_cbuf_inc(@), !.pos = 0] ELSE done

\* The block whose bytes before pos were used: the counter goes on when bytes remain.
CounterPartial(c, bytes) ==
  IF c.pos = 0 THEN c
  ELSE LET n    == Started(c, Len(bytes))
           done == [c EXCEPT !.pos = @ + n,
                             !.out = @ \o XorBytes(SubSeq(bytes, 1, n),
                                                   SubSeq(Encipher(c.iv), c.pos + 1, BlockBytes))]
       IN IF n < Len(bytes) THEN [done EXCEPT !.iv = ctr_cbuf_inc(@), !.pos = 0] ELSE done

\* A buffer of bytes: the counter passes the whole blocks only, the place counts the rest.
CounterBuffer(c, bytes) ==
  LET counter[i \in 0 .. Len(bytes) \div BlockBytes] ==
        IF i = 0 THEN c.iv ELSE ctr_cbuf_inc(counter[i - 1])
      pad == [p \in 1 .. Len(bytes) |->
                Encipher(counter[(p - 1) \div BlockBytes])[((p - 1) % BlockBytes) + 1]]
  IN [c EXCEPT !.iv = counter[Len(bytes) \div BlockBytes],
               !.pos = @ + (Len(bytes) % BlockBytes),
               !.out = @ \o XorBytes(bytes, pad)]

ctr_crypt(c, bytes) ==
  LET rest  == SubSeq(bytes, Started(c, Len(bytes)) + 1, Len(bytes))
      size  == BufferBlocks * BlockBytes
      count == (Len(rest) + size - 1) \div size
      after[j \in 0 .. count] ==
        IF j = 0 THEN CounterPartial(c, bytes)
        ELSE CounterBuffer(after[j - 1],
                           SubSeq(rest, (j - 1) * size + 1, Least(j * size, Len(rest))))
  IN after[count]

-----------------------------------------------------------------------------
(* What the modes are, over the whole message.                              *)

\* The counter block i blocks after the first: a number of so many bytes.
CounterBlock(i) ==
  LET number == BigEndian(FirstIv) + i
  IN [j \in 1 .. BlockBytes |-> (number \div 2 ^ (ByteBits * (BlockBytes - j))) % 2 ^ ByteBits]

\* Block j of the message, the last one perhaps shorter.
PlainBlock(j) == SubSeq(PlainText, (j - 1) * BlockBytes + 1, Least(j * BlockBytes, Len(PlainText)))

\* ecb and cbc take whole blocks.
Size(kind) == IF kind \in {"ecb", "cbc"} THEN Len(PlainText) - (Len(PlainText) % BlockBytes) ELSE Len(PlainText)

\* Cipher block j, after cipher block before; in ofb, the pads of these blocks.
CipherBlock(kind, j, before) ==
  CASE kind = "ecb" -> Encipher(PlainBlock(j))
    [] kind = "cbc" -> Encipher(XorBytes(PlainBlock(j), before))
    [] kind = "cfb" -> XorBytes(PlainBlock(j), Encipher(before))
    [] kind = "ofb" -> Encipher(before)
    [] kind = "ctr" -> XorBytes(PlainBlock(j), Encipher(CounterBlock(j - 1)))

\* What a mode makes of the message.
Ciphertext(kind) ==
  LET last == (Size(kind) + BlockBytes - 1) \div BlockBytes
      chain[j \in 0 .. last] ==
        IF j = 0 THEN [before |-> FirstIv, text |-> <<>>]
        ELSE LET block == CipherBlock(kind, j, chain[j - 1].before)
             IN [before |-> block,
                 text |-> chain[j - 1].text
                            \o (IF kind = "ofb" THEN XorBytes(PlainBlock(j), block) ELSE block)]
  IN chain[last].text

Kind(mode) == CASE mode \in {"ecb_encrypt", "ecb_decrypt"} -> "ecb"
                [] mode \in {"cbc_encrypt", "cbc_decrypt"} -> "cbc"
                [] mode \in {"cfb_encrypt", "cfb_decrypt"} -> "cfb"
                [] mode = "ofb_crypt" -> "ofb"
                [] mode = "ctr_crypt" -> "ctr"
Deciphers(mode) == mode \in {"ecb_decrypt", "cbc_decrypt", "cfb_decrypt"}

\* What the caller passes and what must come out.
Passed(mode) == IF Deciphers(mode) THEN Ciphertext(Kind(mode)) ELSE PlainText
Due(mode)    == IF Deciphers(mode) THEN PlainText ELSE Ciphertext(Kind(mode))

-----------------------------------------------------------------------------
Opened(mode) == [mode |-> mode, iv |-> FirstIv, pos |-> 0, passed |-> 0, out |-> <<>>, ok |-> TRUE]

ModesInit == \E mode \in Modes : stream = Opened(mode)

Crypt(mode, c, bytes) ==
  CASE mode = "cfb_encrypt" -> cfb_encrypt(c, bytes)
    [] mode = "cfb_decrypt" -> cfb_decrypt(c, bytes)
    [] mode = "ofb_crypt"   -> ofb_crypt(c, bytes)
    [] mode = "ctr_crypt"   -> ctr_crypt(c, bytes)
    [] OTHER                -> WholeBlocks(mode, c, bytes)

\* The next n bytes of the message; ecb and cbc refuse what is not whole blocks, and
\* change nothing.
Call(n) ==
  LET bytes   == SubSeq(Passed(stream.mode), stream.passed + 1, stream.passed + n)
      refused == Kind(stream.mode) \in {"ecb", "cbc"} /\ ~Whole(bytes)
  IN /\ stream.passed + n <= Size(Kind(stream.mode))
     /\ stream' = IF refused THEN [stream EXCEPT !.ok = FALSE]
                  ELSE [Crypt(stream.mode, stream, bytes) EXCEPT !.passed = @ + n, !.ok = TRUE]

\* aes_mode_reset, then the message again in another mode with its iv.
ModeReset == \E mode \in Modes : stream' = Opened(mode)

ModesNext == (\E n \in Pieces : Call(n)) \/ ModeReset
ModesSpec == ModesInit /\ [][ModesNext]_stream

-----------------------------------------------------------------------------
\* However the message is cut into calls, what comes out is what the mode makes of the
\* whole of it: a block left unfinished by a call is gone on with, at its place and with
\* its counter, by the next (the code's b_pos and cbuf).
CipherStreams == stream.out = SubSeq(Due(stream.mode), 1, stream.passed)

=============================================================================

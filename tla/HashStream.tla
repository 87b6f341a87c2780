----------------------------- MODULE HashStream -----------------------------
(* A message hashed in chunks: one context, its Updates and its Final, for  *)
(* each of the algorithms, and what the standards say has to be transformed *)
(* (FIPS 180-4, FIPS 202, the RIPEMD-160 paper).                            *)
EXTENDS HashContext

CONSTANTS
  Hashes,       \* the algorithms used, among Algorithms
  Chunks,       \* lengths of the chunks a caller passes
  MaxMessage,   \* longest message hashed
  Letters       \* the bytes that are hashed, of which a message is a prefix

Algorithms == {"sha256", "sha512", "ripemd160", "sha3", "keccak"}

ASSUME StreamAssumption ==
  /\ Hashes \subseteq Algorithms /\ Chunks \subseteq Nat /\ MaxMessage \in Nat
  /\ Letters \in [1 .. MaxMessage -> Byte]

VARIABLES
  algorithm,
  ctx,        \* the context
  length,     \* of the message so far
  digest      \* the chains that Final returned, at most two

streamVars == <<algorithm, ctx, length, digest>>

Sponge == {"sha3", "keccak"}

\* Blocks of 512 bits are counted in words of 32, blocks of 1024 in words of 64, and
\* ripemd160_Update takes a length of one word.
ASSUME CountsAssumption ==
  /\ Hashes \subseteq Sponge \/ Radix % (ByteBits * BlockLength) = 0
  /\ "ripemd160" \in Hashes => \A n \in Chunks : n < Radix

InitialContext(h) ==
  CASE h = "sha256" -> Sha256Init
    [] h = "sha512" -> Sha512Init
    [] h = "ripemd160" -> Ripemd160Init
    [] h \in Sponge -> Sha3Init

Chunk(n) == [i \in 1 .. n |-> Letters[length + i]]

StreamInit ==
  /\ algorithm \in Hashes
  /\ ctx = InitialContext(algorithm)
  /\ length = 0
  /\ digest = <<>>

\* The caller passes n bytes more.
Update(h, n, next) ==
  /\ algorithm = h
  /\ digest = <<>>
  /\ length + n <= MaxMessage
  /\ ctx' = next
  /\ length' = length + n
  /\ UNCHANGED <<algorithm, digest>>

UpdateSha256 == \E n \in Chunks : Update("sha256", n, Sha256Update(ctx, Chunk(n)))
UpdateSha512 == \E n \in Chunks : Update("sha512", n, Sha512Update(ctx, Chunk(n)))
UpdateRipemd160 ==
  \E n \in Chunks : Update("ripemd160", n, Ripemd160Update(ctx, Chunk(n)))
UpdateSha3 ==
  \E h \in Sponge, n \in Chunks, aligned \in BOOLEAN :
    Update(h, n, Sha3Update(ctx, Chunk(n), aligned))

\* Final; sha2.c erases the context.
FinishSha256 ==
  /\ algorithm = "sha256" /\ digest = <<>>
  /\ digest' = <<Sha256Final(ctx)>>
  /\ ctx' = Sha256Init
  /\ UNCHANGED <<algorithm, length>>
FinishSha512 ==
  /\ algorithm = "sha512" /\ digest = <<>>
  /\ digest' = <<Sha512Final(ctx)>>
  /\ ctx' = Sha512Init
  /\ UNCHANGED <<algorithm, length>>
FinishRipemd160 ==
  /\ algorithm = "ripemd160" /\ digest = <<>>
  /\ digest' = <<Ripemd160Final(ctx)>>
  /\ UNCHANGED <<algorithm, ctx, length>>

\* sha3.c keeps the context: Final may be called again, and data that comes late
\* is ignored.
FinishSponge ==
  LET final == IF algorithm = "sha3" THEN Sha3Final(ctx) ELSE KeccakFinal(ctx) IN
  /\ algorithm \in Sponge /\ Len(digest) < 2
  /\ ctx' = final
  /\ digest' = Append(digest, final.chain)
  /\ UNCHANGED <<algorithm, length>>
UpdateLate ==
  /\ algorithm \in Sponge /\ Len(digest) = 1
  /\ \E n \in Chunks, aligned \in BOOLEAN :
       /\ length + n <= MaxMessage
       /\ ctx' = Sha3Update(ctx, Chunk(n), aligned)
  /\ UNCHANGED <<algorithm, length, digest>>

StreamNext ==
  \/ UpdateSha256 \/ UpdateSha512 \/ UpdateRipemd160 \/ UpdateSha3
  \/ FinishSha256 \/ FinishSha512 \/ FinishRipemd160 \/ FinishSponge \/ UpdateLate

StreamSpec == StreamInit /\ [][StreamNext]_streamVars

-----------------------------------------------------------------------------
(* The padded message of each standard.                                     *)

Message == [i \in 1 .. length |-> Letters[i]]
Zeros(n) == [i \in 1 .. n |-> 0]

\* As few zeros as make whole blocks of n + extra bytes.
Fill(n, extra) == (BlockLength - ((n + extra) % BlockLength)) % BlockLength

\* The number of bits in two words.
Bits(n) == (n * ByteBits) % (Radix * Radix)
Digit(n, i) == (n \div 2 ^ (ByteBits * i)) % 2 ^ ByteBits
LengthBE(n) == [i \in 1 .. 2 * WordBytes |-> Digit(Bits(n), 2 * WordBytes - i)]
LengthLE(n) == [i \in 1 .. 2 * WordBytes |-> Digit(Bits(n), i - 1)]

Padded(h) ==
  LET zeros == Zeros(Fill(length, 1 + 2 * WordBytes))
      sponge == Fill(length, 2)
      mark == IF h = "sha3" THEN 6 ELSE 1
  IN CASE h \in {"sha256", "sha512"} -> Message \o <<Mark>> \o zeros \o LengthBE(length)
       [] h = "ripemd160" -> Message \o <<Mark>> \o zeros \o LengthLE(length)
       [] h \in Sponge /\ (length + 1) % BlockLength = 0 -> Message \o <<mark + Mark>>
       [] h \in Sponge /\ (length + 1) % BlockLength # 0 ->
            Message \o <<mark>> \o Zeros(sponge) \o <<Mark>>

BlocksOf(h, s) ==
  [k \in 1 .. Len(s) \div BlockLength |->
     LET b == SubSeq(s, (k - 1) * BlockLength + 1, k * BlockLength)
     IN IF h \in {"sha256", "sha512"} THEN WordsBE(b) ELSE WordsLE(b)]

-----------------------------------------------------------------------------
\* Whatever the chunks, and whatever the buffer held before, what is transformed is the
\* padded message of the standard, and Final of a sponge may be repeated (the Update
\* and Final functions of sha2.c, ripemd160.c and sha3.c).
HashesMessage == \A i \in DOMAIN digest : digest[i] = BlocksOf(algorithm, Padded(algorithm))

=============================================================================

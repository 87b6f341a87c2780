------------------------------- MODULE Base58 -------------------------------
(* Base58 with a checksum (base58.c), and what ecdsa.c puts into it: the    *)
(* addresses and the exported keys.  Bytes are below ByteRadix, digits      *)
(* below TextRadix: 256 and 58 in the code.  The digit 0 is the letter 1.   *)
EXTENDS MachineWords

CONSTANTS
  ByteRadix, TextRadix,
  CheckBytes(_),    \* the first four bytes of the double hash of some bytes
  KeyHash(_)        \* the hash of a public key

WordRadix == ByteRadix ^ 4
Checked == 4
Invalid == -1       \* a letter that is no digit

ASSUME Base58Assumption ==
  ByteRadix \in Nat /\ TextRadix \in Nat /\ 1 < TextRadix /\ TextRadix < ByteRadix

Failed == <<>>

\* How many of the first elements of s are zero.
LeadingZeros(s) ==
  CHOOSE n \in 0 .. Len(s) : (\A i \in 1 .. n : s[i] = 0) /\ (n < Len(s) => s[n + 1] # 0)
Drop(s, n) == SubSeq(s, n + 1, Len(s))

-----------------------------------------------------------------------------
(* Encoding.                                                                *)

\* A byte goes into the digits from the last one on, as far as any has come before or
\* there is a carry.
PushByte(buffer, reached, byte) ==
  LET Push[buf \in Seq(Nat), high \in Int, j \in Int, carry \in Nat] ==
        IF ~(j > high \/ carry # 0) THEN <<buf, j>>
        ELSE LET sum == carry + ByteRadix * buf[j + 1]
             IN Push[[buf EXCEPT ![j + 1] = sum % TextRadix], high, j - 1, sum \div TextRadix]
  IN Push[buffer, reached, Len(buffer) - 1, byte]

B58enc(data) ==
  LET zcount == LeadingZeros(data)
      size == ((Len(data) - zcount) * 138) \div 100 + 1
      digits[i \in 1 .. Len(data) + 1, state \in Seq(Nat) \X Int] ==
        IF i > Len(data) THEN state[1]
        ELSE digits[i + 1, PushByte(state[1], state[2], data[i])]
      buf == digits[zcount + 1, <<Evaluated([j \in 1 .. size |-> 0]), size - 1>>]
  IN [i \in 1 .. zcount |-> 0] \o Drop(buf, LeadingZeros(buf))

\* The text needs room for its end.
EncodeCheck(data, strsize) ==
  LET text == B58enc(data \o CheckBytes(data))
  IN IF Len(data) > 128 \/ strsize <= Len(text) THEN Failed ELSE text

-----------------------------------------------------------------------------
(* Decoding.                                                                *)

\* A digit goes into the words, the last one first.
PushDigit(outi, digit) ==
  LET c[j \in 0 .. Len(outi)] ==   \* what the words after j carry
        IF j = Len(outi) THEN digit
        ELSE ((outi[j + 1] * TextRadix + c[j + 1]) \div WordRadix) % 64
  IN [carry |-> c[0],
      outi |-> Evaluated([j \in 1 .. Len(outi) |->
                            (outi[j] * TextRadix + c[j]) % WordRadix])]

\* The first word takes fewer bytes when their number is no multiple of four.
TooBig(pushed, binsz) ==
  \/ pushed.carry # 0
  \/ binsz % 4 # 0 /\ pushed.outi[1] >= ByteRadix ^ (binsz % 4)

BytesOf(outi, binsz) ==
  LET all == Evaluated([i \in 1 .. 4 * Len(outi) |->
               (outi[((i - 1) \div 4) + 1] \div ByteRadix ^ (3 - ((i - 1) % 4))) % ByteRadix])
  IN Drop(all, 4 * Len(outi) - binsz)

\* binsz bytes, and how many of the last of them, and more, are said.
B58tobin(binsz, text) ==
  LET zerocount == LeadingZeros(text)
      words[i \in 1 .. Len(text) + 1, outi \in Seq(Nat)] ==
        IF i > Len(text) THEN outi
        ELSE LET pushed == PushDigit(outi, text[i])
             IN IF text[i] = Invalid \/ TooBig(pushed, binsz) THEN Failed
                ELSE words[i + 1, pushed.outi]
      outi == words[zerocount + 1, Evaluated([j \in 1 .. (binsz + 3) \div 4 |-> 0])]
      bin == BytesOf(outi, binsz)
  IN IF outi = Failed THEN Failed
     ELSE <<bin, binsz - LeadingZeros(bin) + zerocount>>

\* The checksum is right, and there are as many zeros as letters for them.
B58check(bin, text) ==
  /\ Len(bin) >= Checked
  /\ SubSeq(bin, Len(bin) - Checked + 1, Len(bin)) =
       CheckBytes(SubSeq(bin, 1, Len(bin) - Checked))
  /\ LeadingZeros(bin) = LeadingZeros(text)

\* What the caller must see to: a text with as many leading ones as this has to say more
\* bytes than the buffer holds, and the bytes before it are read.
Overlong(text, datalen) ==
  LET said == B58tobin(datalen + Checked, text)
  IN said # Failed /\ said[2] > datalen + Checked

DecodeCheck(text, datalen) ==
  LET said == B58tobin(datalen + Checked, text)
      nd == Drop(said[1], datalen + Checked - said[2])
  IN IF datalen > 128 \/ said = Failed \/ ~B58check(nd, text) THEN Failed
     ELSE SubSeq(nd, 1, Len(nd) - Checked)

-----------------------------------------------------------------------------
(* Addresses and exported keys: a version in as few bytes as it needs, at   *)
(* most four, and the hash of the public key, or the private key and a one. *)

VersionLength(version) ==
  CASE version < ByteRadix -> 1
    [] version >= ByteRadix /\ version < ByteRadix ^ 2 -> 2
    [] version >= ByteRadix ^ 2 /\ version < ByteRadix ^ 3 -> 3
    [] OTHER -> 4
VersionBytes(version) ==
  LET n == VersionLength(version)
  IN Evaluated([i \in 1 .. n |-> (version \div ByteRadix ^ (n - i)) % ByteRadix])

AddressRaw(pub_key, version) == VersionBytes(version) \o KeyHash(pub_key)
GetAddress(pub_key, version, addrsize) ==
  EncodeCheck(AddressRaw(pub_key, version), addrsize)
GetWif(priv_key, version, wifsize) ==
  EncodeCheck(VersionBytes(version) \o priv_key \o <<1>>, wifsize)

\* The address is one of this version, whose hash has hashlen bytes.
AddressDecode(addr, version, hashlen) ==
  LET raw == DecodeCheck(addr, VersionLength(version) + hashlen)
  IN IF /\ Len(raw) = VersionLength(version) + hashlen
        /\ SubSeq(raw, 1, VersionLength(version)) = VersionBytes(version)
     THEN raw ELSE Failed

=============================================================================

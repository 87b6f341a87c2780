----------------------------- MODULE Encodings -----------------------------
(* What is written for a reader and read again: Base58 texts, addresses,    *)
(* exported keys, phrases and signatures.  Something is encoded; what is    *)
(* decoded afterwards is that text, or one that was copied wrong.           *)
EXTENDS Base58, Mnemonic

CONSTANTS
  EncodedData,        \* byte sequences, and the sizes of buffers for their texts
  StringSizes,
  MoreBytes,          \* how much longer a buffer may be than what is decoded into it
  EncodedKeys,        \* keys that are hashed into addresses or exported
  HashLength58,       \* the bytes of a key's hash
  Versions,
  PhraseData,         \* what phrases are made from
  SignatureParts      \* numbers of a signature, as byte sequences of one length

VARIABLE coding   \* what was encoded and its text; what was read, and as what

EncodingInit ==
  coding = [kind |-> "none", given |-> <<>>, version |-> 0, text |-> <<>>, read |-> <<>>,
            wanted |-> 0, told |-> <<>>, at |-> "idle"]

Encoded(kind, given, version, text) ==
  coding' = [kind |-> kind, given |-> given, version |-> version, text |-> text,
             read |-> text, wanted |-> 0, told |-> <<>>, at |-> "coded"]

EncodeData ==
  /\ coding.at = "idle"
  /\ \E data \in EncodedData, strsize \in StringSizes :
       Encoded("data", data, 0, EncodeCheck(data, strsize))
EncodeAddress ==
  /\ coding.at = "idle"
  /\ \E key \in EncodedKeys, version \in Versions, addrsize \in StringSizes :
       Encoded("address", key, version, GetAddress(key, version, addrsize))
EncodeWif ==
  /\ coding.at = "idle"
  /\ \E key \in EncodedKeys, version \in Versions, wifsize \in StringSizes :
       Encoded("data", VersionBytes(version) \o key \o <<1>>, version,
               GetWif(key, version, wifsize))
EncodePhrase ==
  /\ coding.at = "idle"
  /\ \E data \in PhraseData :
       CanEncode(Len(data)) /\ Encoded("phrase", data, 0, MnemonicFromData(data))

\* Signatures for other programs: two integers, the highest bit of each its sign.
DerInteger(part) ==
  LET number == Drop(part, LeadingZeros(part))
      signed == IF 2 * number[1] >= ByteRadix THEN <<0>> \o number ELSE number
  IN <<2, Len(signed)>> \o signed
SigToDer(r, s) ==
  <<48 % ByteRadix, Len(DerInteger(r)) + Len(DerInteger(s))>> \o DerInteger(r) \o DerInteger(s)
EncodeSignature ==
  /\ coding.at = "idle"
  /\ \E r, s \in SignatureParts :
       LeadingZeros(r) < Len(r) /\ LeadingZeros(s) < Len(s)
         /\ Encoded("signature", <<r, s>>, 0, SigToDer(r, s))

\* A copy with one letter or word wrong, or one more in front or at the end.
Miscopied(text, letters) ==
  {[text EXCEPT ![i] = letter] : i \in DOMAIN text, letter \in letters}
    \cup {<<letter>> \o text : letter \in letters} \cup {Append(text, letter) : letter \in letters}
Miscopy ==
  /\ coding.at = "coded" /\ coding.read = coding.text /\ coding.text # <<>>
  /\ coding.kind # "signature"
  /\ \E read \in Miscopied(coding.text, IF coding.kind = "phrase" THEN {NotListed, NoWord, 0}
                                                                 ELSE {Invalid, 0, 1}) :
       coding' = [coding EXCEPT !.read = read]

Told(wanted, told) == coding' = [coding EXCEPT !.wanted = wanted, !.told = told, !.at = "told"]

DecodeData ==
  /\ coding.at = "coded" /\ coding.kind = "data"
  /\ \E more \in MoreBytes :
       LET datalen == Len(coding.given) + more
       IN ~Overlong(coding.read, datalen) /\ Told(datalen, DecodeCheck(coding.read, datalen))
DecodeAddress ==
  /\ coding.at = "coded" /\ coding.kind = "address"
  /\ \E version \in Versions :
       /\ ~Overlong(coding.read, VersionLength(version) + HashLength58)
       /\ Told(version, AddressDecode(coding.read, version, HashLength58))
DecodePhrase ==
  /\ coding.at = "coded" /\ coding.kind = "phrase"
  /\ Told(0, DataFromMnemonic(coding.read))

\* The next thing is encoded.
Forget ==
  /\ coding.at # "idle"
  /\ coding' = [kind |-> "none", given |-> <<>>, version |-> 0, text |-> <<>>,
                read |-> <<>>, wanted |-> 0, told |-> <<>>, at |-> "idle"]

EncodingNext ==
  \/ EncodeData \/ EncodeAddress \/ EncodeWif \/ EncodePhrase \/ EncodeSignature
  \/ Miscopy \/ DecodeData \/ DecodeAddress \/ DecodePhrase \/ Forget

-----------------------------------------------------------------------------
\* The numbers that another program reads from a signature, of as many bytes as they had.
DerNumbers(der, length) ==
  LET number(at) ==
        LET bytes == SubSeq(der, at + 2, at + 1 + der[at + 1])
        IN [i \in 1 .. length |->
              LET from == Len(bytes) - length + i IN IF from < 1 THEN 0 ELSE bytes[from]]
  IN <<number(3), number(5 + der[4])>>
IsUnsigned(der, at) ==
  2 * der[at + 2] < ByteRadix /\ (der[at + 2] = 0 => 2 * der[at + 3] >= ByteRadix)

\* What was written is read as what it was, and nothing else is: a text that is read is
\* the text of its data, whatever was copied wrong, an address is one of its version
\* only, and the phrases of 15 and 21 words are not read at all (base58.c, bip39.c,
\* ecdsa_address_decode, ecdsa_sig_to_der).
DecodesBack ==
  LET whole == coding.at = "told" /\ coding.read = coding.text /\ coding.text # <<>>
      some == coding.at = "told" /\ coding.told # <<>>
  IN CASE coding.kind = "data" ->
            /\ whole /\ coding.wanted >= Len(coding.given) => coding.told = coding.given
            /\ some => B58enc(coding.told \o CheckBytes(coding.told)) = coding.read
       [] coding.kind = "address" ->
            /\ whole => (some <=> coding.wanted = coding.version)
            /\ whole /\ some => coding.told = VersionBytes(coding.version) \o KeyHash(coding.given)
            /\ some => B58enc(coding.told \o CheckBytes(coding.told)) = coding.read
       [] coding.kind = "phrase" ->
            /\ whole => coding.told = IF Len(coding.given) % 8 = 0 THEN coding.given ELSE <<>>
            /\ some => MnemonicFromData(coding.told) = coding.read
       [] coding.kind = "signature" ->
            /\ DerNumbers(coding.text, Len(coding.given[1])) = coding.given
            /\ coding.text[2] = Len(coding.text) - 2
            /\ IsUnsigned(coding.text, 3) /\ IsUnsigned(coding.text, 5 + coding.text[4])
       [] OTHER -> TRUE

=============================================================================

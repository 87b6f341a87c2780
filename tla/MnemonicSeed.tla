---------------------------- MODULE MnemonicSeed ----------------------------
(* mnemonic_to_seed (bip39.c): the seed of a phrase, stretched in parts and *)
(* kept in a ring of the last seeds.                                        *)
EXTENDS KeyStretch

CONSTANTS
  Phrases, Passphrases,   \* sequences of bytes
  MaxPhrase,              \* characters of a phrase, and of a passphrase, that a
  MaxPassphrase,          \*   cache entry has room for
  CacheSize,              \* BIP39_CACHE_SIZE
  Rounds,                 \* BIP39_PBKDF2_ROUNDS
  Parts,                  \* the calls that make these rounds, 16 in the code
  MaxSeeds                \* bound on the seeds asked for

ASSUME SeedAssumption ==
  /\ \A phrase \in Phrases : phrase \in Seq(Byte)
  /\ \A passphrase \in Passphrases : passphrase \in Seq(Byte)
  /\ CacheSize \in Nat \ {0}
  /\ Parts \in Nat \ {0} /\ Rounds \in Nat \ {0} /\ Rounds % Parts = 0

Prefix == <<13, 14>>      \* "mnemonic"
Stack == [i \in 1 .. BlockLength |-> i % 2]
NoSeed == <<>>

VARIABLES
  seedCache,    \* bip39_cache
  seedIndex,    \* bip39_cache_index
  seedCall,     \* the call under way or last ended
  seeds         \* how many seeds have been asked for

seedVars == <<seedCache, seedIndex, seedCall, seeds>>

Unset == [set |-> FALSE, phrase |-> <<>>, passphrase |-> <<>>, seed |-> NoSeed]

SeedInit ==
  /\ seedCache = [i \in 0 .. CacheSize - 1 |-> Unset]
  /\ seedIndex = 0
  /\ seedCall = [phrase |-> <<>>, passphrase |-> <<>>, pctx |-> <<>>, part |-> 0,
                 hit |-> FALSE, seed |-> NoSeed, at |-> "idle"]
  /\ seeds = 0

Cacheable(phrase, passphrase) == Len(phrase) < MaxPhrase /\ Len(passphrase) < MaxPassphrase

\* A mutant: the passphrase is not compared.
MatchesPhrase(entry, phrase, passphrase) == entry.set /\ entry.phrase = phrase

Matches(entry, phrase, passphrase) ==
  entry.set /\ entry.phrase = phrase /\ entry.passphrase = passphrase

\* The entries that answer a request; the first is taken.
Hits(phrase, passphrase) ==
  {i \in DOMAIN seedCache : Matches(seedCache[i], phrase, passphrase)}

FindSeed(phrase, passphrase) ==
  LET hits == Hits(phrase, passphrase) IN
  /\ seedCall.at = "idle" /\ seeds < MaxSeeds
  /\ Cacheable(phrase, passphrase) /\ hits # {}
  /\ \E i \in hits :
       /\ \A j \in hits : i <= j
       /\ seedCall' = [seedCall EXCEPT !.phrase = phrase, !.passphrase = passphrase,
                                       !.hit = TRUE, !.seed = seedCache[i].seed]
  /\ seeds' = seeds + 1
  /\ UNCHANGED <<seedCache, seedIndex>>

StretchSeed(phrase, passphrase) ==
  /\ seedCall.at = "idle" /\ seeds < MaxSeeds
  /\ Cacheable(phrase, passphrase) => Hits(phrase, passphrase) = {}
  /\ seedCall' = [phrase |-> phrase, passphrase |-> passphrase,
                  pctx |-> Pbkdf2Init("sha512", phrase, Prefix \o passphrase, Stack),
                  part |-> 0, hit |-> FALSE, seed |-> NoSeed, at |-> "stretch"]
  /\ seeds' = seeds + 1
  /\ UNCHANGED <<seedCache, seedIndex>>

\* One of the parts, after which the progress callback is called.
StretchPart ==
  /\ seedCall.at = "stretch" /\ seedCall.part < Parts
  /\ seedCall' = [seedCall EXCEPT !.pctx = Pbkdf2Update(@, Rounds \div Parts),
                                  !.part = @ + 1]
  /\ UNCHANGED <<seedCache, seedIndex, seeds>>

KeepSeed ==
  LET seed == Pbkdf2Final(seedCall.pctx) IN
  /\ seedCall.at = "stretch" /\ seedCall.part = Parts
  /\ IF Cacheable(seedCall.phrase, seedCall.passphrase)
     THEN /\ seedCache' = [seedCache EXCEPT ![seedIndex] =
                             [set |-> TRUE, phrase |-> seedCall.phrase,
                              passphrase |-> seedCall.passphrase, seed |-> seed]]
          /\ seedIndex' = (seedIndex + 1) % CacheSize
     ELSE UNCHANGED <<seedCache, seedIndex>>
  /\ seedCall' = [seedCall EXCEPT !.seed = seed, !.pctx = <<>>, !.at = "idle"]
  /\ UNCHANGED seeds

SeedNext ==
  \/ \E phrase \in Phrases, passphrase \in Passphrases :
       FindSeed(phrase, passphrase) \/ StretchSeed(phrase, passphrase)
  \/ StretchPart
  \/ KeepSeed

SeedSpec == SeedInit /\ [][SeedNext]_seedVars

-----------------------------------------------------------------------------
\* Every seed is the one BIP-39 defines for its phrase and passphrase, computed or
\* found (mnemonic_to_seed), whichever requests came before and whatever they evicted.
SeedIsDefined ==
  seedCall.at = "idle" /\ seedCall.seed # NoSeed =>
    seedCall.seed = Pbkdf2Reference("sha512", seedCall.phrase,
                                    Prefix \o seedCall.passphrase, Rounds)

=============================================================================

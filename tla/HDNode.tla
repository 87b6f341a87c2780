------------------------------- MODULE HDNode -------------------------------
(* The tree of keys (bip32.c), on a curve whose group has a small prime     *)
(* order: the point k * G stands as its multiple k.  PointMultiply shows    *)
(* what the curve's own arithmetic computes.                                *)
EXTENDS Integers, Sequences

CONSTANTS
  GroupOrder,     \* the order of the curve's group
  KeyBound,       \* what a private key's bytes can say: 2^256
  Seeds,
  ChainCodes,     \* what the right half of a mac can be
  Mac(_, _),      \* of a key and data: a left half below KeyBound, a right half
  CurveName,      \* the key the seed is hashed with
  Hardened,       \* the child numbers with the highest bit set, and the others
  Unhardened,
  NodeCacheSize, MaxDepth,   \* BIP32_CACHE_SIZE, BIP32_CACHE_MAXDEPTH
  DepthBytes,     \* what the byte of the depth can say: 256
  Paths,          \* what is derived
  MaxLevel        \* how deep a node may be before it is used as another's root

ChildNumbers == Hardened \cup Unhardened
Halves == [left : 0 .. KeyBound - 1, right : ChainCodes]

ASSUME HDNodeAssumption ==
  /\ GroupOrder \in Nat \ {0, 1, 2} /\ KeyBound \in Nat /\ GroupOrder < KeyBound
  /\ 0 \in ChildNumbers /\ Hardened \cap Unhardened = {}
  /\ NodeCacheSize \in Nat \ {0} /\ MaxDepth \in Nat \ {0} /\ DepthBytes \in Nat \ {0}
  /\ \A path \in Paths : path \in Seq(ChildNumbers) /\ Len(path) \in 2 .. MaxDepth + 1

VARIABLES
  keyRoot,     \* the node that is derived from
  ckdCache,    \* private_ckd_cache: whether it has a root, the root, the next index, entries
  keyChild     \* the last child: its root, its path and its node

hdVars == <<keyRoot, ckdCache, keyChild>>

-----------------------------------------------------------------------------
(* Keys.                                                                    *)

\* A compressed public key: its first byte says which of the two points with this x it is.
NoKey == <<0, 0>>
PublicKeyOf(k) ==
  IF 2 * k < GroupOrder THEN <<2, k>> ELSE <<3, GroupOrder - k>>
IsPublicKey(key) == key[1] \in {2, 3}
PointOf(key) == IF key[1] = 2 THEN key[2] ELSE GroupOrder - key[2]

FillPublicKey(n) ==
  IF n.public_key[1] # 0 THEN n
  ELSE [n EXCEPT !.public_key = PublicKeyOf(n.private_key)]

FromXprv(depth, child_num, chain_code, private_key) ==
  [depth |-> depth, child_num |-> child_num, chain_code |-> chain_code,
   private_key |-> private_key, public_key |-> NoKey]
CanBeXprv(private_key) == private_key \in 1 .. GroupOrder - 1

FromXpub(depth, child_num, chain_code, public_key) ==
  [depth |-> depth, child_num |-> child_num, chain_code |-> chain_code,
   private_key |-> 0, public_key |-> public_key]

\* The seed is hashed until its left half is a key.
FromSeed(seed) ==
  LET hash[I \in Halves] ==
        IF CanBeXprv(I.left) THEN FromXprv(0, 0, I.right, I.left)
        ELSE hash[Mac(CurveName, I)]
  IN hash[Mac(CurveName, seed)]

-----------------------------------------------------------------------------
(* Children.                                                                *)

\* What is hashed: for a hardened child the private key, or the public one; when that is
\* no use the right half goes in, with a one before it.
Data(first, key, i) == <<first, key, i>>

\* A mac's left half, added to the parent's key k; a left half that is no key, or whose sum
\* with the parent's is none, is not taken: the mac is made again.
ChildKey(left, k) == (left + k) % GroupOrder
Accepts(left, k) == left < GroupOrder /\ ChildKey(left, k) # 0
AcceptedMac(chain_code, data, i, k) ==
  LET try[I \in Halves] ==
        IF Accepts(I.left, k) THEN I ELSE try[Mac(chain_code, Data(1, I.right, i))]
  IN try[Mac(chain_code, data)]

Derived(n, i, I, private_key, public_key) ==
  [depth |-> n.depth + 1, child_num |-> i, chain_code |-> I.right,
   private_key |-> private_key, public_key |-> public_key]

PrivateCkd(n, i) ==
  LET filled == FillPublicKey(n)
      data == IF i \in Hardened THEN Data(0, n.private_key, i)
              ELSE Data(filled.public_key[1], filled.public_key[2], i)
      I == AcceptedMac(n.chain_code, data, i, n.private_key)
  IN Derived(n, i, I, ChildKey(I.left, n.private_key), NoKey)

\* A mutant: the first mac is taken, whatever it is.
PublicChildOnce(point, public_key, chain_code, i) ==
  LET I == Mac(chain_code, Data(public_key[1], public_key[2], i))
  IN <<I, PublicKeyOf(ChildKey(I.left, point))>>

\* point_add of the parent's point to left * G; the sum may be the point at infinity.
PublicChild(point, public_key, chain_code, i) ==
  LET I == AcceptedMac(chain_code, Data(public_key[1], public_key[2], i), i, point)
  IN <<I, PublicKeyOf(ChildKey(I.left, point))>>

\* A hardened child, or a node whose public key was never filled in, has no public
\* derivation.
CanPublicCkd(n, i) == i \in Unhardened /\ IsPublicKey(n.public_key)
PublicCkd(n, i) ==
  LET child == PublicChild(PointOf(n.public_key), n.public_key, n.chain_code, i)
  IN Derived(n, i, child[1], 0, child[2])

\* The address is the child's public key, hashed.
AddressOptimized(point, public_key, chain_code, i) ==
  PublicChild(point, public_key, chain_code, i)[2]
AddressOf(n) == FillPublicKey(n).public_key

\* The children along a path, one after the other.
Along(n, path) ==
  LET child[k \in 0 .. Len(path)] ==
        IF k = 0 THEN n ELSE PrivateCkd(child[k - 1], path[k])
  IN child[Len(path)]

-----------------------------------------------------------------------------
(* The cache of parents, a ring.                                            *)

EmptyEntry ==
  [set |-> FALSE, depth |-> 0, i |-> [k \in 1 .. MaxDepth |-> 0], node |-> <<>>]
EmptyRing == [j \in 0 .. NodeCacheSize - 1 |-> EmptyEntry]

\* A mutant: an entry of a longer path matches as well.
IsEntryAlong(entry, path) == entry.set /\ \A k \in 1 .. Len(path) : entry.i[k] = path[k]

IsEntryOf(entry, path) ==
  /\ entry.set /\ entry.depth = Len(path)
  /\ \A k \in 1 .. Len(path) : entry.i[k] = path[k]

EntryFor(path, n) ==
  [set |-> TRUE, depth |-> Len(path),
   i |-> [k \in 1 .. MaxDepth |-> IF k <= Len(path) THEN path[k] ELSE 0], node |-> n]

\* Another root clears the cache.
WithRoot(cache, n) ==
  IF cache.root = <<n>> THEN cache
  ELSE [root |-> <<n>>, index |-> 0, ring |-> EmptyRing]

Found(cache, path) == {j \in DOMAIN cache.ring : IsEntryOf(cache.ring[j], path)}
First(indices) == CHOOSE j \in indices : \A other \in indices : j <= other

Save(cache, path, n) ==
  [cache EXCEPT !.ring[cache.index] = EntryFor(path, n),
                !.index = (cache.index + 1) % NodeCacheSize]

\* The parent of a path's last child, and the cache afterwards.
ParentCached(cache, n, path) ==
  LET rooted == WithRoot(cache, n)
      found == Found(rooted, path)
      parent == IF found # {} THEN rooted.ring[First(found)].node ELSE Along(n, path)
  IN <<parent, IF found # {} THEN rooted ELSE Save(rooted, path, parent)>>

Front(path) == SubSeq(path, 1, Len(path) - 1)
Last(path) == path[Len(path)]

-----------------------------------------------------------------------------
(* A node as the data of its text, and back.  The text itself is Base58's.  *)

SerializePublic(n, fingerprint) ==
  [version |-> "public", depth |-> n.depth % DepthBytes, fingerprint |-> fingerprint,
   child_num |-> n.child_num, chain_code |-> n.chain_code, first |-> n.public_key[1],
   key |-> n.public_key[2]]
SerializePrivate(n, fingerprint) ==
  [version |-> "private", depth |-> n.depth % DepthBytes, fingerprint |-> fingerprint,
   child_num |-> n.child_num, chain_code |-> n.chain_code, first |-> 0,
   key |-> n.private_key]

CanDeserialize(data) ==
  data.version = "public" \/ (data.version = "private" /\ data.first = 0)
Deserialize(data) ==
  IF data.version = "public"
  THEN FromXpub(data.depth, data.child_num, data.chain_code, <<data.first, data.key>>)
  ELSE FromXprv(data.depth, data.child_num, data.chain_code, data.key)

\* The hash of the public key, which is filled in.
Fingerprint(n) == FillPublicKey(n).public_key

-----------------------------------------------------------------------------
HDInit ==
  /\ \E seed \in Seeds : keyRoot = FromSeed(seed)
  /\ ckdCache = [root |-> <<>>, index |-> 0, ring |-> EmptyRing]
  /\ keyChild = <<>>

Begin ==
  /\ \E seed \in Seeds : keyRoot' = FromSeed(seed)
  /\ UNCHANGED <<ckdCache, keyChild>>

\* hdnode_fill_public_key of the root; so do the fingerprint and the address.
FillRoot ==
  /\ keyRoot' = FillPublicKey(keyRoot)
  /\ UNCHANGED <<ckdCache, keyChild>>

\* hdnode_private_ckd_cached.
DeriveCached(path) ==
  LET cached == ParentCached(ckdCache, keyRoot, Front(path))
  IN /\ keyRoot.private_key # 0
     /\ ckdCache' = cached[2]
     /\ keyChild' = [root |-> keyRoot, path |-> path,
                     node |-> PrivateCkd(cached[1], Last(path))]
     /\ UNCHANGED keyRoot

\* hdnode_private_ckd, which a path of one child comes to as well: the cache stays.
DerivePrivate(i) ==
  /\ keyRoot.private_key # 0
  /\ keyChild' = [root |-> keyRoot, path |-> <<i>>, node |-> PrivateCkd(keyRoot, i)]
  /\ UNCHANGED <<keyRoot, ckdCache>>

\* hdnode_public_ckd.
DerivePublic(i) ==
  /\ CanPublicCkd(keyRoot, i)
  /\ keyChild' = [root |-> keyRoot, path |-> <<i>>, node |-> PublicCkd(keyRoot, i)]
  /\ UNCHANGED <<keyRoot, ckdCache>>

\* The child goes on as a root, by way of its text: with its private key, or, once its
\* public key is filled in, without.
Reopen(data) ==
  /\ keyChild.node.depth <= MaxLevel
  /\ CanDeserialize(data) /\ keyRoot' = Deserialize(data)
  /\ UNCHANGED <<ckdCache, keyChild>>
ReopenPrivate ==
  /\ keyChild # <<>> /\ keyChild.node.private_key # 0
  /\ Reopen(SerializePrivate(FillPublicKey(keyChild.node), Fingerprint(keyChild.root)))
ReopenPublic ==
  /\ keyChild # <<>>
  /\ Reopen(SerializePublic(FillPublicKey(keyChild.node), Fingerprint(keyChild.root)))

HDNext ==
  \/ Begin \/ FillRoot \/ ReopenPrivate \/ ReopenPublic
  \/ \E path \in Paths : DeriveCached(path)
  \/ \E i \in ChildNumbers : DerivePrivate(i) \/ DerivePublic(i)

HDSpec == HDInit /\ [][HDNext]_hdVars

-----------------------------------------------------------------------------
\* A child found through the cache is the child the path leads to from its root: no entry
\* of another root, of a shorter path or overwritten in the ring is taken for its parent.
CachedAsDerived ==
  keyChild # <<>> /\ Len(keyChild.path) > 1 =>
    keyChild.node = PrivateCkd(Along(keyChild.root, Front(keyChild.path)), Last(keyChild.path))

\* Who has the public key of a node derives the public keys and the chain codes, and so the
\* addresses, of the children its private key has, also where a mac has to be retried.
PublicFollowsPrivate ==
  keyRoot.private_key # 0 =>
    \A i \in Unhardened :
      LET filled == FillPublicKey(keyRoot)
          watched == FromXpub(keyRoot.depth, keyRoot.child_num, keyRoot.chain_code,
                              filled.public_key)
          child == FillPublicKey(PrivateCkd(keyRoot, i))
      IN /\ PublicCkd(watched, i) = [child EXCEPT !.private_key = 0]
         /\ AddressOptimized(keyRoot.private_key, filled.public_key, keyRoot.chain_code, i)
              = AddressOf(child)

=============================================================================

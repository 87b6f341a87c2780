-------------------------- MODULE KeysAndFees_proofs -------------------------
(***************************************************************************)
(* Proofs about what a transaction is signed and paid with.                *)
(*                                                                         *)
(* Keys: HDNode, for any curve, mac, seeds, paths and size of the ring,    *)
(* and AlmostInverse, for every prime and every number below it.  Fees and *)
(* gas: TransactionDetails, for any tips, any base fees of eight wei or    *)
(* more, and any call, whose gas is written as text and read again.        *)
(*                                                                         *)
(* A child that is found through the cache is the child the path leads to  *)
(* from its root: the ring outlives every root it was filled for, and what *)
(* is true of it all the time is that each entry is the node at its own    *)
(* path below the root the ring remembers, which need not be the root that *)
(* is derived from.                                                        *)
(*                                                                         *)
(* Public derivation follows private derivation, where the code's search   *)
(* for a mac ends: every node is a key, and both derivations search among  *)
(* the same macs and add the same number to the same key.                  *)
(*                                                                         *)
(* The algorithm of bn_inverse ends with the inverse.  Two congruences are *)
(* kept by every step, x * r = -u * 2^k and x * s = v * 2^k modulo the     *)
(* prime.  When u and v have become equal they divide the prime, so that   *)
(* both are 1; the division by 2^k that follows may drop the power because *)
(* the prime divides none.                                                 *)
(*                                                                         *)
(* The fees of gas_estimation.  A block raises the base fee by an eighth   *)
(* at most, or by one wei where an eighth is none.  Five blocks make less  *)
(* than twice the base fee of it (9/8 to the fifth power is 1.80), and so  *)
(* the fee that was made from the block that was read, although the gas    *)
(* price may be of a later one, is enough for as many blocks as remain of  *)
(* the five.                                                               *)
(***************************************************************************)
EXTENDS HDNode, AlmostInverse, TransactionDetails, Induction

Indices == 0 .. NodeCacheSize - 1

\* The path of an entry, of which its depth says how much counts.
EntryPath(e) == [k \in 1 .. e.depth |-> e.i[k]]

EntryOK(e, root) ==
  e.set => root # <<>> /\ e.node = Along(root[1], EntryPath(e))

CacheOK(c) ==
  /\ c = [root |-> c.root, index |-> c.index, ring |-> c.ring]
  /\ c.index \in Indices
  /\ c.ring = [j \in Indices |-> c.ring[j]]
  /\ \A j \in Indices : EntryOK(c.ring[j], c.root)

\* The inductive invariant: the cache, and what is claimed of the last child.
CacheInv == CacheOK(ckdCache) /\ CachedAsDerived

-----------------------------------------------------------------------------
\* A path without its last child.
LEMMA FrontIsPath ==
  ASSUME NEW path \in Paths
  PROVE  /\ Len(Front(path)) \in 1 .. MaxDepth
         /\ Front(path) = [k \in 1 .. Len(Front(path)) |-> path[k]]
  BY HDNodeAssumption DEF Front

\* What a lookup finds is the node at the path that is looked for.
LEMMA FoundIsNode ==
  ASSUME NEW c, CacheOK(c), NEW path \in Paths, Found(c, Front(path)) # {}
  PROVE  /\ c.root # <<>>
         /\ c.ring[First(Found(c, Front(path)))].node = Along(c.root[1], Front(path))
<1> DEFINE found == Found(c, Front(path))
           e == c.ring[First(found)]
<1>1. found \in SUBSET Indices
  BY DEF Found, CacheOK
<1>2. First(found) \in found
  <2>1. \E j \in found : \A other \in found : j <= other
    <3>1. found \in SUBSET Nat
      BY <1>1, HDNodeAssumption DEF Indices
    <3>2. found # {}
      OBVIOUS
    <3> HIDE DEF found
    <3> QED BY <3>1, <3>2, Smallest
  <2> HIDE DEF found
  <2> QED BY <2>1 DEF First
<1>3. First(found) \in Indices /\ IsEntryOf(e, Front(path))
  BY <1>1, <1>2 DEF Found
<1>4. EntryOK(e, c.root)
  BY <1>3 DEF CacheOK
<1>5. EntryPath(e) = Front(path)
  BY <1>3, FrontIsPath DEF IsEntryOf, EntryPath
<1> QED BY <1>3, <1>4, <1>5 DEF EntryOK, IsEntryOf

\* Another root leaves no entry behind.
LEMMA RootedOK ==
  ASSUME NEW c, CacheOK(c), NEW n
  PROVE  CacheOK(WithRoot(c, n)) /\ WithRoot(c, n).root = <<n>>
<1>1. CASE c.root = <<n>>
  BY <1>1 DEF WithRoot
<1>2. CASE c.root # <<n>>
  <2>1. \A j \in Indices : EmptyRing[j] = EmptyEntry
    BY DEF EmptyRing, Indices
  <2>2. EmptyRing = [j \in Indices |-> EmptyRing[j]]
    BY <2>1 DEF EmptyRing, Indices
  <2>3. \A root : EntryOK(EmptyEntry, root)
    BY DEF EntryOK, EmptyEntry
  <2>4. 0 \in Indices
    BY HDNodeAssumption DEF Indices
  <2> QED BY <1>2, <2>1, <2>2, <2>3, <2>4 DEF WithRoot, CacheOK
<1> QED BY <1>1, <1>2

\* An entry is saved with the path it is the node of.
LEMMA SaveOK ==
  ASSUME NEW c, CacheOK(c), NEW path \in Paths, c.root # <<>>
  PROVE  CacheOK(Save(c, Front(path), Along(c.root[1], Front(path))))
<1> DEFINE front == Front(path)
           node == Along(c.root[1], front)
           d == Save(c, front, node)
           e == EntryFor(front, node)
<1>1. EntryPath(e) = front
  <2>1. e.depth = Len(front) /\ e.i = [k \in 1 .. MaxDepth |-> IF k <= Len(front) THEN front[k] ELSE 0]
    BY DEF EntryFor
  <2>2. Len(front) \in 1 .. MaxDepth /\ front = [k \in 1 .. Len(front) |-> path[k]]
    BY FrontIsPath
  <2>3. MaxDepth \in Nat
    BY HDNodeAssumption
  <2> HIDE DEF front, e
  <2>4. \A k \in 1 .. Len(front) : e.i[k] = front[k]
    BY <2>1, <2>2, <2>3
  <2>5. EntryPath(e) = [k \in 1 .. Len(front) |-> front[k]]
    BY <2>1, <2>4 DEF EntryPath
  <2> QED BY <2>2, <2>5
<1>2. EntryOK(e, c.root)
  BY <1>1 DEF EntryOK, EntryFor
<1> HIDE DEF front, node, e
<1>3. /\ d = [root |-> c.root, index |-> (c.index + 1) % NodeCacheSize,
              ring |-> [c.ring EXCEPT ![c.index] = e]]
  <2>1. c = [root |-> c.root, index |-> c.index, ring |-> c.ring]
    BY DEF CacheOK
  <2>2. d = [c EXCEPT !.ring[c.index] = e, !.index = (c.index + 1) % NodeCacheSize]
    BY DEF Save, e
  <2> HIDE DEF d
  <2>3. d = [[c EXCEPT !.ring[c.index] = e] EXCEPT !.index = (c.index + 1) % NodeCacheSize]
    BY <2>2, Zenon
  <2>4. [c EXCEPT !.ring[c.index] = e]
          = [root |-> c.root, index |-> c.index, ring |-> [c.ring EXCEPT ![c.index] = e]]
    BY <2>1
  <2> QED BY <2>3, <2>4
<1>4. (c.index + 1) % NodeCacheSize \in Indices
  BY HDNodeAssumption DEF CacheOK, Indices
<1>5. \A j \in Indices : EntryOK([c.ring EXCEPT ![c.index] = e][j], c.root)
  BY <1>2 DEF CacheOK
<1>6. [c.ring EXCEPT ![c.index] = e] = [j \in Indices |-> [c.ring EXCEPT ![c.index] = e][j]]
  BY DEF CacheOK
<1>7. CacheOK(d)
  BY <1>3, <1>4, <1>5, <1>6 DEF CacheOK
<1> QED BY <1>7 DEF front, node

\* The parent, found or derived, is the node at the path to it.
LEMMA ParentIsDerived ==
  ASSUME NEW c, CacheOK(c), NEW n, NEW path \in Paths
  PROVE  /\ ParentCached(c, n, Front(path))[1] = Along(n, Front(path))
         /\ CacheOK(ParentCached(c, n, Front(path))[2])
<1> DEFINE rooted == WithRoot(c, n)
<1>1. CacheOK(rooted) /\ rooted.root = <<n>> /\ rooted.root # <<>> /\ rooted.root[1] = n
  BY RootedOK
<1> HIDE DEF rooted
<1>2. CASE Found(rooted, Front(path)) # {}
  <2>1. rooted.ring[First(Found(rooted, Front(path)))].node = Along(n, Front(path))
    BY <1>1, <1>2, FoundIsNode
  <2> QED BY <1>1, <1>2, <2>1 DEF ParentCached, rooted
<1>3. CASE Found(rooted, Front(path)) = {}
  <2>1. CacheOK(Save(rooted, Front(path), Along(n, Front(path))))
    BY <1>1, SaveOK
  <2> QED BY <1>3, <2>1 DEF ParentCached, rooted
<1> QED BY <1>2, <1>3

-----------------------------------------------------------------------------
\* An empty ring claims nothing.
LEMMA InitHolds == HDInit => CacheInv
<1> SUFFICES ASSUME HDInit PROVE CacheInv
  OBVIOUS
<1>1. \A j \in Indices : EmptyRing[j] = EmptyEntry
  BY DEF EmptyRing, Indices
<1>2. EmptyRing = [j \in Indices |-> EmptyRing[j]]
  BY <1>1 DEF EmptyRing, Indices
<1>3. EntryOK(EmptyEntry, <<>>)
  BY DEF EntryOK, EmptyEntry
<1>4. 0 \in Indices
  BY HDNodeAssumption DEF Indices
<1>5. CacheOK(ckdCache)
  BY <1>1, <1>2, <1>3, <1>4 DEF HDInit, CacheOK
<1> QED BY <1>5 DEF CacheInv, CachedAsDerived, HDInit

\* Only DeriveCached touches the ring; the other steps that make a child make one of a path
\* of one, of which nothing is claimed.
LEMMA StepHolds == CacheInv /\ [HDNext]_hdVars => CacheInv'
<1> SUFFICES ASSUME CacheInv, [HDNext]_hdVars PROVE CacheInv'
  OBVIOUS
<1>1. CASE Begin
  BY <1>1 DEF CacheInv, CachedAsDerived, Begin
<1>2. CASE FillRoot
  BY <1>2 DEF CacheInv, CachedAsDerived, FillRoot
<1>3. CASE ReopenPrivate
  BY <1>3 DEF CacheInv, CachedAsDerived, ReopenPrivate, Reopen
<1>4. CASE ReopenPublic
  BY <1>4 DEF CacheInv, CachedAsDerived, ReopenPublic, Reopen
<1>5. ASSUME NEW path \in Paths, DeriveCached(path) PROVE CacheInv'
  <2> DEFINE cached == ParentCached(ckdCache, keyRoot, Front(path))
  <2>1. cached[1] = Along(keyRoot, Front(path)) /\ CacheOK(cached[2])
    BY ParentIsDerived DEF CacheInv
  <2> HIDE DEF cached
  <2>2. /\ ckdCache' = cached[2]
        /\ keyChild' = [root |-> keyRoot, path |-> path,
                        node |-> PrivateCkd(cached[1], Last(path))]
    BY <1>5 DEF DeriveCached, cached
  <2>3. CacheOK(ckdCache)'
    BY <2>1, <2>2
  <2>4. CachedAsDerived'
    BY <2>1, <2>2 DEF CachedAsDerived
  <2> QED BY <2>3, <2>4 DEF CacheInv
<1>6. ASSUME NEW i \in ChildNumbers, DerivePrivate(i) \/ DerivePublic(i) PROVE CacheInv'
  <2>1. keyChild'.path = <<i>> /\ UNCHANGED ckdCache
    BY <1>6 DEF DerivePrivate, DerivePublic
  <2>2. ~(Len(keyChild'.path) > 1)
    BY <2>1
  <2> QED BY <2>1, <2>2 DEF CacheInv, CachedAsDerived
<1>7. CASE UNCHANGED hdVars
  BY <1>7 DEF CacheInv, CachedAsDerived, hdVars
<1> QED BY <1>1, <1>2, <1>3, <1>4, <1>5, <1>6, <1>7 DEF HDNext

\* The inductive invariant: the cache of hdnode_private_ckd_cached never holds a node under
\* a path that does not lead to it from the cache's root.
THEOREM CacheIsSound == HDSpec => []CacheInv
<1> QED BY InitHolds, StepHolds, PTL DEF HDSpec

\* A child found through the cache is the child the path leads to from its root.
THEOREM CachedChild == HDSpec => []CachedAsDerived
<1>1. CacheInv => CachedAsDerived
  BY DEF CacheInv
<1> QED BY CacheIsSound, <1>1, PTL

-----------------------------------------------------------------------------
(* Macs that are made again.  A half is refused or Good; next says which   *)
(* halves are tried after one that is refused.                             *)

\* Wherever the halves that are tried begin, one of them is good.
Ends(Good, next) ==
  \A X \in SUBSET Halves : X # {} => \E I \in X : I \in Good \/ next[I] \notin X

\* X has all that is tried after its members.
Closed(X, Good, next) == \A K \in X \ Good : next[K] \in X

\* What may be tried from I on.
Onward(I, Good, next) ==
  {J \in Halves : \A X \in SUBSET Halves : I \in X /\ Closed(X, Good, next) => J \in X}

LEMMA OnwardIsClosed ==
  ASSUME NEW Good, NEW next \in [Halves -> Halves], NEW I \in Halves
  PROVE  /\ I \in Onward(I, Good, next) /\ Onward(I, Good, next) \in SUBSET Halves
         /\ Closed(Onward(I, Good, next), Good, next)
  BY DEF Onward, Closed

\* What is tried from a refused half on is tried from the next one on; from a good one
\* on, nothing is.
LEMMA OnwardIs ==
  ASSUME NEW Good, NEW next \in [Halves -> Halves], NEW I \in Halves
  PROVE  /\ I \in Good => Onward(I, Good, next) = {I}
         /\ I \notin Good => Onward(I, Good, next) = {I} \cup Onward(next[I], Good, next)
<1>1. ASSUME I \in Good PROVE Onward(I, Good, next) = {I}
  <2>1. {I} \in SUBSET Halves /\ I \in {I} /\ Closed({I}, Good, next)
    BY <1>1 DEF Closed
  <2>2. Onward(I, Good, next) \subseteq {I}
    BY <2>1 DEF Onward
  <2> QED BY <2>2, OnwardIsClosed
<1>2. ASSUME I \notin Good PROVE Onward(I, Good, next) = {I} \cup Onward(next[I], Good, next)
  <2> DEFINE X == {I} \cup Onward(next[I], Good, next)
  <2>1. next[I] \in Halves
    OBVIOUS
  <2>2. /\ next[I] \in Onward(next[I], Good, next)
        /\ Onward(next[I], Good, next) \in SUBSET Halves
        /\ Closed(Onward(next[I], Good, next), Good, next)
    BY <2>1, OnwardIsClosed
  <2>3. X \in SUBSET Halves /\ I \in X /\ Closed(X, Good, next)
    BY <2>2 DEF Closed
  <2>4. Onward(I, Good, next) \subseteq X
    BY <2>3 DEF Onward
  <2>5. Onward(next[I], Good, next) \subseteq Onward(I, Good, next)
    <3>1. next[I] \in Onward(I, Good, next)
      BY <1>2, OnwardIsClosed DEF Closed
    <3>2. Onward(I, Good, next) \in SUBSET Halves /\ Closed(Onward(I, Good, next), Good, next)
      BY OnwardIsClosed
    <3> QED BY <3>1, <3>2 DEF Onward
  <2> QED BY <2>4, <2>5, OnwardIsClosed
<1> QED BY <1>1, <1>2

\* The recursion of the code's loop has a solution.
Retries(f, Good, next, out) ==
  f = [I \in Halves |-> IF I \in Good THEN out[I] ELSE f[next[I]]]

LEMMA RetryExists ==
  ASSUME NEW Good, NEW next \in [Halves -> Halves], NEW out
  PROVE  \E f : Retries(f, Good, next, out)
<1> DEFINE reached == [I \in Halves |-> Onward(I, Good, next) \cap Good]
           f == [I \in Halves |-> out[CHOOSE J : J \in reached[I]]]
<1>1. ASSUME NEW I \in Halves, I \in Good PROVE reached[I] = {I}
  BY <1>1, OnwardIs
<1>2. ASSUME NEW I \in Halves, I \notin Good PROVE reached[I] = reached[next[I]]
  BY <1>2, OnwardIs
<1> HIDE DEF reached
<1>3. ASSUME NEW I \in Halves, I \in Good PROVE f[I] = out[I]
  <2>1. (CHOOSE J : J \in reached[I]) = I
    BY <1>1, <1>3
  <2> QED BY <2>1
<1>4. ASSUME NEW I \in Halves, I \notin Good PROVE f[I] = f[next[I]]
  BY <1>2, <1>4
<1>5. f = [I \in Halves |-> f[I]]
  OBVIOUS
<1> HIDE DEF f
<1>6. Retries(f, Good, next, out)
  BY <1>3, <1>4, <1>5 DEF Retries
<1> QED BY <1>6

\* What f gives is what a good half gives.
GivesGood(f, Good, out) == \A I \in Halves : \E J \in Good : f[I] = out[J]

LEMMA RetryEnds ==
  ASSUME NEW Good \in SUBSET Halves, NEW next \in [Halves -> Halves], NEW out, NEW f,
         Ends(Good, next), Retries(f, Good, next, out)
  PROVE  GivesGood(f, Good, out)
<1> DEFINE X == {I \in Halves : \A J \in Good : f[I] # out[J]}
<1>1. SUFFICES ASSUME X # {} PROVE FALSE
  BY DEF GivesGood
<1>2. PICK I \in X : I \in Good \/ next[I] \notin X
  BY <1>1 DEF Ends
<1>3. f[I] = IF I \in Good THEN out[I] ELSE f[next[I]]
  BY <1>2 DEF Retries
<1>4. next[I] \in Halves
  BY <1>2
<1> QED BY <1>2, <1>3, <1>4

-----------------------------------------------------------------------------
(* Keys.                                                                   *)

\* What is hashed: a private key, a public one, or the right half of a mac that was refused.
MacData ==
  {Data(first, key, i) : first \in 0 .. 3, key \in (0 .. GroupOrder) \cup ChainCodes,
                         i \in ChildNumbers}

RootTries == [I \in Halves |-> Mac(CurveName, I)]
ChildTries(c, i) == [I \in Halves |-> Mac(c, Data(1, I.right, i))]

KeyNumbers == 1 .. GroupOrder - 1

\* The code tries until it has a key: macs are made of two halves, and none is refused
\* for ever.
MacAssumption ==
  /\ \A c \in ChainCodes, data \in MacData : Mac(c, data) \in Halves
  /\ \A seed \in Seeds \cup Halves : Mac(CurveName, seed) \in Halves
  /\ Ends({I \in Halves : CanBeXprv(I.left)}, RootTries)
  /\ \A c \in ChainCodes, i \in ChildNumbers, k \in KeyNumbers :
       Ends({I \in Halves : Accepts(I.left, k)}, ChildTries(c, i))

\* A mac that is taken is accepted.
LEMMA MacAccepted ==
  ASSUME MacAssumption, NEW c \in ChainCodes, NEW data \in MacData, NEW i \in ChildNumbers,
         NEW k \in KeyNumbers
  PROVE  AcceptedMac(c, data, i, k) \in Halves /\ Accepts(AcceptedMac(c, data, i, k).left, k)
<1> DEFINE Good == {I \in Halves : Accepts(I.left, k)}
           next == ChildTries(c, i)
           out == [I \in Halves |-> I]
           Is(f) == f = [I \in Halves |-> IF Accepts(I.left, k) THEN I
                                          ELSE f[Mac(c, Data(1, I.right, i))]]
<1>1. \A I \in Halves : Data(1, I.right, i) \in MacData
  BY DEF MacData, Halves
<1>2. next \in [Halves -> Halves]
  BY <1>1 DEF MacAssumption, ChildTries
<1>3. Ends(Good, next)
  BY DEF MacAssumption
<1>4. \A f : Retries(f, Good, next, out) <=> Is(f)
  <2>1. ASSUME NEW f, NEW I \in Halves
        PROVE  (IF I \in Good THEN out[I] ELSE f[next[I]])
                 = (IF Accepts(I.left, k) THEN I ELSE f[Mac(c, Data(1, I.right, i))])
    BY DEF ChildTries
  <2> HIDE DEF Good, next, out
  <2> QED BY <2>1 DEF Retries
<1>5. \E f : Retries(f, Good, next, out)
  <2> HIDE DEF Good, next, out
  <2> QED BY <1>2, RetryExists
<1> DEFINE try == CHOOSE f : Is(f)
<1>6. Is(try)
  BY <1>4, <1>5
<1>7. AcceptedMac(c, data, i, k) = try[Mac(c, data)]
  BY DEF AcceptedMac
<1> HIDE DEF try
<1>8. GivesGood(try, Good, out)
  <2>1. Retries(try, Good, next, out) /\ Good \in SUBSET Halves
    BY <1>4, <1>6
  <2> HIDE DEF Good, next, out, Is
  <2> QED BY <1>2, <1>3, <2>1, RetryEnds
<1>9. Mac(c, data) \in Halves
  BY DEF MacAssumption
<1> QED BY <1>7, <1>8, <1>9 DEF GivesGood

\* So is that of a root.
LEMMA RootAccepted ==
  ASSUME MacAssumption, NEW seed \in Seeds
  PROVE  \E I \in Halves : CanBeXprv(I.left) /\ FromSeed(seed) = FromXprv(0, 0, I.right, I.left)
<1> DEFINE Good == {I \in Halves : CanBeXprv(I.left)}
           next == RootTries
           out == [I \in Halves |-> FromXprv(0, 0, I.right, I.left)]
           Is(f) == f = [I \in Halves |-> IF CanBeXprv(I.left) THEN FromXprv(0, 0, I.right, I.left)
                                          ELSE f[Mac(CurveName, I)]]
<1>2. next \in [Halves -> Halves]
  BY DEF MacAssumption, RootTries
<1>3. Ends(Good, next)
  BY DEF MacAssumption
<1>4. \A f : Retries(f, Good, next, out) <=> Is(f)
  <2>1. ASSUME NEW f, NEW I \in Halves
        PROVE  (IF I \in Good THEN out[I] ELSE f[next[I]])
                 = (IF CanBeXprv(I.left) THEN FromXprv(0, 0, I.right, I.left)
                    ELSE f[Mac(CurveName, I)])
    BY DEF RootTries
  <2> HIDE DEF Good, next, out
  <2> QED BY <2>1 DEF Retries
<1>5. \E f : Retries(f, Good, next, out)
  <2> HIDE DEF Good, next, out
  <2> QED BY <1>2, RetryExists
<1> DEFINE hash == CHOOSE f : Is(f)
<1>6. Is(hash)
  BY <1>4, <1>5
<1>7. FromSeed(seed) = hash[Mac(CurveName, seed)]
  BY DEF FromSeed
<1> HIDE DEF hash
<1>8. GivesGood(hash, Good, out)
  <2>1. Retries(hash, Good, next, out) /\ Good \in SUBSET Halves
    BY <1>4, <1>6
  <2> HIDE DEF Good, next, out, Is
  <2> QED BY <1>2, <1>3, <2>1, RetryEnds
<1>9. Mac(CurveName, seed) \in Halves
  BY DEF MacAssumption
<1> QED BY <1>7, <1>8, <1>9 DEF GivesGood

-----------------------------------------------------------------------------
(* Nodes.                                                                  *)

PublicKeys == {PublicKeyOf(k) : k \in KeyNumbers}

\* A node with a private key, to which the public key belongs once it is filled in.
PrivateNodes ==
  {n \in [depth : Nat, child_num : ChildNumbers, chain_code : ChainCodes,
          private_key : KeyNumbers, public_key : {NoKey} \cup PublicKeys] :
     n.public_key \in {NoKey, PublicKeyOf(n.private_key)}}

\* A node without.
PublicNodes ==
  [depth : Nat, child_num : ChildNumbers, chain_code : ChainCodes,
   private_key : {0}, public_key : PublicKeys]

\* The inductive invariant: every node, the root and the child, is one of these.
KeyInv ==
  /\ keyRoot \in PrivateNodes \cup PublicNodes
  /\ keyChild # <<>> => keyChild.node \in PrivateNodes \cup PublicNodes

\* A public key stands for its point.
LEMMA KeyIsPoint ==
  ASSUME NEW k \in KeyNumbers
  PROVE  /\ PublicKeyOf(k) = <<PublicKeyOf(k)[1], PublicKeyOf(k)[2]>>
         /\ PublicKeyOf(k)[1] \in {2, 3} /\ PublicKeyOf(k)[2] \in 0 .. GroupOrder
         /\ PointOf(PublicKeyOf(k)) = k
  BY HDNodeAssumption DEF KeyNumbers, PublicKeyOf, PointOf

LEMMA ChildIsKey ==
  ASSUME NEW k \in KeyNumbers, NEW left \in Nat, Accepts(left, k)
  PROVE  ChildKey(left, k) \in KeyNumbers
  BY HDNodeAssumption DEF KeyNumbers, Accepts, ChildKey

LEMMA NodesAre ==
  /\ GroupOrder \in Nat
  /\ \A n \in PrivateNodes :
       /\ n.depth \in Nat /\ n.child_num \in ChildNumbers /\ n.chain_code \in ChainCodes
       /\ n.private_key \in KeyNumbers /\ n.private_key # 0
       /\ n.public_key \in {NoKey, PublicKeyOf(n.private_key)}
       /\ n = [depth |-> n.depth, child_num |-> n.child_num, chain_code |-> n.chain_code,
               private_key |-> n.private_key, public_key |-> n.public_key]
  /\ \A n \in PublicNodes :
       /\ n.depth \in Nat /\ n.child_num \in ChildNumbers /\ n.chain_code \in ChainCodes
       /\ n.private_key = 0 /\ n.public_key \in PublicKeys
       /\ n = [depth |-> n.depth, child_num |-> n.child_num, chain_code |-> n.chain_code,
               private_key |-> n.private_key, public_key |-> n.public_key]
<1>1. GroupOrder \in Nat /\ 0 \notin KeyNumbers
  BY HDNodeAssumption DEF KeyNumbers
<1> QED BY <1>1 DEF PrivateNodes, PublicNodes

\* A node of a private key, with its public key or not.
LEMMA PrivateIs ==
  ASSUME NEW depth \in Nat, NEW i \in ChildNumbers, NEW code \in ChainCodes,
         NEW k \in KeyNumbers, NEW key \in {NoKey, PublicKeyOf(k)}
  PROVE  [depth |-> depth, child_num |-> i, chain_code |-> code,
          private_key |-> k, public_key |-> key] \in PrivateNodes
  BY DEF PrivateNodes, PublicKeys

LEMMA PublicIs ==
  ASSUME NEW depth \in Nat, NEW i \in ChildNumbers, NEW code \in ChainCodes, NEW key \in PublicKeys
  PROVE  [depth |-> depth, child_num |-> i, chain_code |-> code,
          private_key |-> 0, public_key |-> key] \in PublicNodes
  BY DEF PublicNodes

\* Filling in gives each node the public key of its private one, and nothing else.
LEMMA FilledIs ==
  /\ \A n \in PrivateNodes :
       FillPublicKey(n) = [depth |-> n.depth, child_num |-> n.child_num,
                           chain_code |-> n.chain_code, private_key |-> n.private_key,
                           public_key |-> PublicKeyOf(n.private_key)]
  /\ \A n \in PublicNodes : FillPublicKey(n) = n
<1>1. ASSUME NEW n \in PrivateNodes
      PROVE  FillPublicKey(n) = [depth |-> n.depth, child_num |-> n.child_num,
                                 chain_code |-> n.chain_code, private_key |-> n.private_key,
                                 public_key |-> PublicKeyOf(n.private_key)]
  <2> DEFINE key == PublicKeyOf(n.private_key)
  <2>1. key[1] # 0
    BY NodesAre, KeyIsPoint
  <2> HIDE DEF key
  <2>2. CASE n.public_key = NoKey
    <3>1. n.public_key[1] = 0
      BY <2>2 DEF NoKey
    <3>2. FillPublicKey(n) = [n EXCEPT !.public_key = key]
      BY <3>1 DEF FillPublicKey, key
    <3> QED BY <3>2, NodesAre DEF key
  <2>3. CASE n.public_key = key
    <3>1. FillPublicKey(n) = n
      BY <2>1, <2>3 DEF FillPublicKey
    <3> QED BY <2>3, <3>1, NodesAre DEF key
  <2> QED BY <2>2, <2>3, NodesAre DEF key
<1>2. ASSUME NEW n \in PublicNodes PROVE FillPublicKey(n) = n
  <2>1. n.public_key[1] # 0
    BY NodesAre, KeyIsPoint DEF PublicKeys
  <2> QED BY <2>1 DEF FillPublicKey
<1> QED BY <1>1, <1>2

LEMMA FilledNode ==
  /\ \A n \in PrivateNodes : FillPublicKey(n) \in PrivateNodes
  /\ \A n \in PublicNodes : FillPublicKey(n) \in PublicNodes
<1>1. ASSUME NEW n \in PrivateNodes PROVE FillPublicKey(n) \in PrivateNodes
  BY FilledIs, NodesAre, PrivateIs
<1> QED BY <1>1, FilledIs

\* The mac a private child is made of.
PrivateMac(n, i) ==
  AcceptedMac(n.chain_code,
              IF i \in Hardened THEN Data(0, n.private_key, i)
              ELSE Data(PublicKeyOf(n.private_key)[1], PublicKeyOf(n.private_key)[2], i),
              i, n.private_key)

LEMMA PrivateChildIs ==
  ASSUME NEW n \in PrivateNodes, NEW i
  PROVE  PrivateCkd(n, i) =
           [depth |-> n.depth + 1, child_num |-> i, chain_code |-> PrivateMac(n, i).right,
            private_key |-> ChildKey(PrivateMac(n, i).left, n.private_key), public_key |-> NoKey]
<1>1. FillPublicKey(n).public_key = PublicKeyOf(n.private_key)
  BY FilledIs
<1> QED BY <1>1 DEF PrivateCkd, PrivateMac, Derived

\* A private key's child is a private key.
LEMMA PrivateChild ==
  ASSUME MacAssumption, NEW n \in PrivateNodes, NEW i \in ChildNumbers
  PROVE  PrivateCkd(n, i) \in PrivateNodes
<1> DEFINE k == n.private_key
           data == IF i \in Hardened THEN Data(0, k, i)
                   ELSE Data(PublicKeyOf(k)[1], PublicKeyOf(k)[2], i)
           I == PrivateMac(n, i)
<1>1. n.depth \in Nat /\ n.chain_code \in ChainCodes /\ k \in KeyNumbers /\ GroupOrder \in Nat
  BY NodesAre
<1> HIDE DEF k
<1>2. k \in 0 .. GroupOrder
  BY <1>1 DEF KeyNumbers
<1>3. data \in MacData
  <2>1. Data(0, k, i) \in MacData
    BY <1>2 DEF MacData
  <2>2. Data(PublicKeyOf(k)[1], PublicKeyOf(k)[2], i) \in MacData
    <3> DEFINE first == PublicKeyOf(k)[1]
               key == PublicKeyOf(k)[2]
    <3>1. first \in 0 .. 3 /\ key \in 0 .. GroupOrder
      BY <1>1, KeyIsPoint
    <3> HIDE DEF first, key
    <3>2. Data(first, key, i) \in MacData
      BY <3>1 DEF MacData
    <3> QED BY <3>2 DEF first, key
  <2> QED BY <2>1, <2>2
<1>4. I = AcceptedMac(n.chain_code, data, i, k)
  BY DEF PrivateMac, k
<1> HIDE DEF data, I
<1>5. I \in Halves /\ Accepts(I.left, k)
  BY <1>1, <1>3, <1>4, MacAccepted
<1>6. I.left \in Nat /\ I.right \in ChainCodes
  BY <1>5, HDNodeAssumption DEF Halves
<1>7. ChildKey(I.left, k) \in KeyNumbers
  BY <1>1, <1>5, <1>6, ChildIsKey
<1>8. n.depth + 1 \in Nat
  BY <1>1
<1>9. PrivateCkd(n, i) =
        [depth |-> n.depth + 1, child_num |-> i, chain_code |-> I.right,
         private_key |-> ChildKey(I.left, k), public_key |-> NoKey]
  BY PrivateChildIs DEF I, k
<1> QED BY <1>6, <1>7, <1>8, <1>9, PrivateIs

\* A public key's child is a public key, never the point at infinity.
LEMMA PublicChildNode ==
  ASSUME MacAssumption, NEW n \in PrivateNodes \cup PublicNodes, NEW i \in ChildNumbers,
         CanPublicCkd(n, i)
  PROVE  PublicCkd(n, i) \in PublicNodes
<1>1. n.depth \in Nat /\ n.chain_code \in ChainCodes /\ GroupOrder \in Nat
  BY NodesAre
<1>2. PICK k \in KeyNumbers : n.public_key = PublicKeyOf(k)
  <2>1. n.public_key # NoKey
    BY DEF CanPublicCkd, IsPublicKey, NoKey
  <2> QED BY <2>1, NodesAre DEF PublicKeys
<1> DEFINE first == PublicKeyOf(k)[1]
           key == PublicKeyOf(k)[2]
           data == Data(first, key, i)
           I == AcceptedMac(n.chain_code, data, i, k)
<1>3. first \in 0 .. 3 /\ key \in 0 .. GroupOrder /\ PointOf(n.public_key) = k
  BY <1>2, KeyIsPoint
<1>4. data \in MacData
  <2> HIDE DEF first, key
  <2> QED BY <1>3 DEF MacData
<1>5. PublicCkd(n, i) = [depth |-> n.depth + 1, child_num |-> i, chain_code |-> I.right,
                         private_key |-> 0, public_key |-> PublicKeyOf(ChildKey(I.left, k))]
  BY <1>2, <1>3 DEF PublicCkd, PublicChild, Derived
<1> HIDE DEF data, I
<1>6. I \in Halves /\ Accepts(I.left, k)
  BY <1>1, <1>4, MacAccepted DEF I
<1>7. I.left \in Nat /\ I.right \in ChainCodes
  BY <1>6, HDNodeAssumption DEF Halves
<1>8. ChildKey(I.left, k) \in KeyNumbers
  BY <1>6, <1>7, ChildIsKey
<1>9. PublicKeyOf(ChildKey(I.left, k)) \in PublicKeys /\ n.depth + 1 \in Nat
  BY <1>1, <1>8 DEF PublicKeys
<1> QED BY <1>5, <1>7, <1>9, PublicIs

\* So are the descendants along a path.
LEMMA AlongIsNode ==
  ASSUME MacAssumption, NEW n \in PrivateNodes, NEW path, Len(path) \in Nat,
         \A k \in 1 .. Len(path) : path[k] \in ChildNumbers
  PROVE  Along(n, path) \in PrivateNodes
<1> DEFINE len == Len(path)
           step == [k \in Nat |-> [node \in PrivateNodes |->
                     IF k + 1 \in 1 .. len THEN PrivateCkd(node, path[k + 1]) ELSE node]]
           Is(f) == f = [k \in 0 .. len |-> IF k = 0 THEN n ELSE PrivateCkd(f[k - 1], path[k])]
<1>1. step \in [Nat -> [PrivateNodes -> PrivateNodes]]
  <2> SUFFICES ASSUME NEW k \in Nat, NEW node \in PrivateNodes
               PROVE  (IF k + 1 \in 1 .. len THEN PrivateCkd(node, path[k + 1]) ELSE node)
                        \in PrivateNodes
    OBVIOUS
  <2> QED BY PrivateChild
<1>2. PICK h : Solves(h, len, PrivateNodes, n, step)
  <2> HIDE DEF step
  <2> QED BY <1>1, SolutionExists
<1>3. ASSUME NEW k \in 0 .. len - 1 PROVE h[k + 1] = PrivateCkd(h[k], path[k + 1])
  <2>1. k \in Nat /\ k + 1 \in 1 .. len /\ k \in 0 .. len
    OBVIOUS
  <2> HIDE DEF step
  <2>2. h[k] \in PrivateNodes /\ h[k + 1] = step[k][h[k]]
    BY <1>2, <2>1 DEF Solves
  <2> USE DEF step
  <2>3. step[k] = [node \in PrivateNodes |-> PrivateCkd(node, path[k + 1])]
    BY <2>1
  <2> HIDE DEF step
  <2> QED BY <2>2, <2>3
<1>4. Is(h)
  <2>1. h = [k \in 0 .. len |-> h[k]] /\ h[0] = n
    BY <1>2 DEF Solves
  <2>2. ASSUME NEW k \in 0 .. len, k # 0 PROVE h[k] = PrivateCkd(h[k - 1], path[k])
    <3>1. k - 1 \in 0 .. len - 1 /\ (k - 1) + 1 = k
      BY <2>2
    <3> QED BY <1>3, <3>1
  <2> QED BY <2>1, <2>2
<1> DEFINE child == CHOOSE f : Is(f)
<1>5. Is(child)
  BY <1>4
<1>6. Along(n, path) = child[len]
  BY DEF Along
<1> HIDE DEF child
<1> DEFINE S == {k \in Nat : k <= len => child[k] \in PrivateNodes}
<1>7. 0 \in S
  BY <1>5
<1>8. ASSUME NEW k \in Nat, k \in S PROVE k + 1 \in S
  <2> SUFFICES ASSUME k + 1 <= len PROVE child[k + 1] \in PrivateNodes
    OBVIOUS
  <2>1. child[k] \in PrivateNodes /\ k + 1 \in 1 .. len /\ k + 1 # 0 /\ (k + 1) - 1 = k
    BY <1>8
  <2>2. child[k + 1] = PrivateCkd(child[k], path[k + 1])
    BY <1>5, <2>1
  <2> QED BY <2>1, <2>2, PrivateChild
<1> HIDE DEF S
<1>9. \A k \in Nat : k \in S
  BY <1>7, <1>8, SetInduction
<1> QED BY <1>6, <1>9 DEF S

-----------------------------------------------------------------------------
(* Public keys follow private ones.                                        *)

LEMMA KeysInitially ==
  ASSUME MacAssumption, NEW seed \in Seeds
  PROVE  FromSeed(seed) \in PrivateNodes
<1>1. PICK I \in Halves : CanBeXprv(I.left) /\ FromSeed(seed) = FromXprv(0, 0, I.right, I.left)
  BY RootAccepted
<1>2. I.left \in KeyNumbers /\ I.right \in ChainCodes /\ 0 \in ChildNumbers
  BY <1>1, HDNodeAssumption DEF CanBeXprv, KeyNumbers, Halves
<1> QED BY <1>1, <1>2, PrivateIs DEF FromXprv

\* A node is read from its text as it was written, but for a public key that goes with
\* a private one.
LEMMA Reopened ==
  ASSUME NEW n \in PrivateNodes \cup PublicNodes, NEW fingerprint
  PROVE  /\ n.private_key # 0 =>
              Deserialize(SerializePrivate(FillPublicKey(n), fingerprint)) \in PrivateNodes
         /\ Deserialize(SerializePublic(FillPublicKey(n), fingerprint)) \in PublicNodes
<1> DEFINE f == FillPublicKey(n)
<1>1. f \in PrivateNodes \cup PublicNodes /\ f.private_key = n.private_key
  BY FilledIs, FilledNode
<1>2. f.public_key \in PublicKeys
  <2>1. CASE n \in PrivateNodes
    BY <2>1, FilledIs, NodesAre DEF PublicKeys
  <2>2. CASE n \in PublicNodes
    BY <2>2, FilledIs, NodesAre
  <2> QED BY <2>1, <2>2
<1>3. f.public_key = <<f.public_key[1], f.public_key[2]>>
  BY <1>2, KeyIsPoint DEF PublicKeys
<1>4. f.depth % DepthBytes \in Nat /\ f.child_num \in ChildNumbers /\ f.chain_code \in ChainCodes
  BY <1>1, NodesAre, HDNodeAssumption
<1> HIDE DEF f
<1>5. ASSUME n.private_key # 0
      PROVE  Deserialize(SerializePrivate(f, fingerprint)) \in PrivateNodes
  <2>1. f.private_key \in KeyNumbers
    BY <1>1, <1>5, NodesAre
  <2>2. Deserialize(SerializePrivate(f, fingerprint))
          = FromXprv(f.depth % DepthBytes, f.child_num, f.chain_code, f.private_key)
    BY DEF Deserialize, SerializePrivate
  <2> QED BY <1>4, <2>1, <2>2, PrivateIs DEF FromXprv
<1>6. Deserialize(SerializePublic(f, fingerprint)) \in PublicNodes
  <2>1. Deserialize(SerializePublic(f, fingerprint))
          = FromXpub(f.depth % DepthBytes, f.child_num, f.chain_code, f.public_key)
    BY <1>3 DEF Deserialize, SerializePublic
  <2> QED BY <1>2, <1>4, <2>1, PublicIs DEF FromXpub
<1> QED BY <1>5, <1>6 DEF f

\* Every step keeps the nodes what they are.
LEMMA KeysKept ==
  ASSUME MacAssumption, KeyInv, CacheInv, [HDNext]_hdVars
  PROVE  KeyInv'
<1> DEFINE Nodes == PrivateNodes \cup PublicNodes
<1>0. /\ keyRoot \in Nodes /\ (keyChild # <<>> => keyChild.node \in Nodes)
      /\ \A n \in Nodes : n.private_key # 0 => n \in PrivateNodes
  BY NodesAre DEF KeyInv
<1> HIDE DEF Nodes
<1>1. CASE Begin
  <2>1. keyRoot' \in PrivateNodes
    BY <1>1, KeysInitially DEF Begin
  <2> QED BY <1>0, <1>1, <2>1 DEF KeyInv, Begin, Nodes
<1>2. CASE FillRoot
  <2>1. FillPublicKey(keyRoot) \in Nodes
    BY <1>0, FilledNode DEF Nodes
  <2> QED BY <1>0, <1>2, <2>1 DEF KeyInv, FillRoot, Nodes
<1>3. CASE ReopenPrivate
  <2>1. keyChild # <<>> /\ keyChild.node \in Nodes /\ keyChild.node.private_key # 0
    BY <1>0, <1>3 DEF ReopenPrivate
  <2>2. keyRoot' \in PrivateNodes /\ UNCHANGED keyChild
    BY <1>3, <2>1, Reopened DEF ReopenPrivate, Reopen, Nodes
  <2> QED BY <2>1, <2>2 DEF KeyInv, Nodes
<1>4. CASE ReopenPublic
  <2>1. keyChild # <<>> /\ keyChild.node \in Nodes
    BY <1>0, <1>4 DEF ReopenPublic
  <2>2. keyRoot' \in PublicNodes /\ UNCHANGED keyChild
    BY <1>4, <2>1, Reopened DEF ReopenPublic, Reopen, Nodes
  <2> QED BY <2>1, <2>2 DEF KeyInv, Nodes
<1>5. ASSUME NEW path \in Paths, DeriveCached(path) PROVE KeyInv'
  <2> DEFINE front == Front(path)
             cached == ParentCached(ckdCache, keyRoot, front)
  <2>1. cached[1] = Along(keyRoot, front)
    BY ParentIsDerived DEF CacheInv
  <2>2. keyRoot \in PrivateNodes
    BY <1>0, <1>5 DEF DeriveCached
  <2>3. /\ Len(front) \in Nat /\ \A k \in 1 .. Len(front) : front[k] \in ChildNumbers
        /\ Last(path) \in ChildNumbers
    BY HDNodeAssumption DEF Front, Last
  <2>4. /\ UNCHANGED keyRoot
        /\ keyChild' = [root |-> keyRoot, path |-> path, node |-> PrivateCkd(cached[1], Last(path))]
    BY <1>5 DEF DeriveCached
  <2> HIDE DEF front, cached
  <2>5. cached[1] \in PrivateNodes
    BY <2>1, <2>2, <2>3, AlongIsNode
  <2>6. PrivateCkd(cached[1], Last(path)) \in PrivateNodes
    BY <2>3, <2>5, PrivateChild
  <2> QED BY <2>2, <2>4, <2>6 DEF KeyInv
<1>6. ASSUME NEW i \in ChildNumbers, DerivePrivate(i) PROVE KeyInv'
  <2>1. keyRoot \in PrivateNodes
    BY <1>0, <1>6 DEF DerivePrivate
  <2>2. PrivateCkd(keyRoot, i) \in PrivateNodes
    BY <2>1, PrivateChild
  <2> QED BY <1>6, <2>1, <2>2 DEF KeyInv, DerivePrivate
<1>7. ASSUME NEW i \in ChildNumbers, DerivePublic(i) PROVE KeyInv'
  <2>1. PublicCkd(keyRoot, i) \in PublicNodes
    BY <1>0, <1>7, PublicChildNode DEF DerivePublic, Nodes
  <2> QED BY <1>0, <1>7, <2>1 DEF KeyInv, DerivePublic, Nodes
<1>8. CASE UNCHANGED hdVars
  BY <1>8 DEF KeyInv, hdVars
<1> QED BY <1>1, <1>2, <1>3, <1>4, <1>5, <1>6, <1>7, <1>8 DEF HDNext

\* Both derivations of a child make the same mac of the same public key, and add it to
\* the same number.
LEMMA DerivationsAgree ==
  KeyInv => PublicFollowsPrivate
<1> SUFFICES ASSUME KeyInv, keyRoot.private_key # 0, NEW i \in Unhardened
             PROVE  LET filled == FillPublicKey(keyRoot)
                        watched == FromXpub(keyRoot.depth, keyRoot.child_num, keyRoot.chain_code,
                                            filled.public_key)
                        child == FillPublicKey(PrivateCkd(keyRoot, i))
                    IN /\ PublicCkd(watched, i) = [child EXCEPT !.private_key = 0]
                       /\ AddressOptimized(keyRoot.private_key, filled.public_key,
                                           keyRoot.chain_code, i)
                            = AddressOf(child)
  BY DEF PublicFollowsPrivate
<1> DEFINE n == keyRoot
           k == n.private_key
           key == PublicKeyOf(k)
           watched == FromXpub(n.depth, n.child_num, n.chain_code, key)
           I == AcceptedMac(n.chain_code, Data(key[1], key[2], i), i, k)
           sum == ChildKey(I.left, k)
           child == FillPublicKey(PrivateCkd(n, i))
<1>1. n \in PrivateNodes /\ k \in KeyNumbers /\ i \notin Hardened
  BY NodesAre, HDNodeAssumption DEF KeyInv
<1>2. FillPublicKey(n).public_key = key /\ PointOf(key) = k
  BY <1>1, FilledIs, KeyIsPoint
<1>3. PublicCkd(watched, i)
        = [depth |-> n.depth + 1, child_num |-> i, chain_code |-> I.right,
           private_key |-> 0, public_key |-> PublicKeyOf(sum)]
  BY <1>2 DEF PublicCkd, PublicChild, Derived, FromXpub
<1>4. PrivateCkd(n, i)
        = [depth |-> n.depth + 1, child_num |-> i, chain_code |-> I.right,
           private_key |-> sum, public_key |-> NoKey]
  BY <1>1, PrivateChildIs DEF PrivateMac
<1>5. AddressOptimized(k, key, n.chain_code, i) = PublicKeyOf(sum)
  BY DEF AddressOptimized, PublicChild
<1> HIDE DEF n, k, key, I, sum
<1>6. child = [depth |-> n.depth + 1, child_num |-> i, chain_code |-> I.right,
               private_key |-> sum, public_key |-> PublicKeyOf(sum)]
  BY <1>4 DEF FillPublicKey, NoKey
<1>7. PublicKeyOf(sum)[1] # 0
  BY DEF PublicKeyOf
<1>8. AddressOf(child) = PublicKeyOf(sum)
  BY <1>6, <1>7 DEF AddressOf, FillPublicKey
<1>9. PublicCkd(watched, i) = [child EXCEPT !.private_key = 0]
  BY <1>3, <1>6
<1> QED BY <1>2, <1>5, <1>8, <1>9 DEF n, k

\* Where the code's search for a mac ends: every node is a private key with its own public
\* key or none, or a public key, and neither is ever zero or the point at infinity.
THEOREM KeysAreKeys ==
  ASSUME MacAssumption
  PROVE  HDSpec => []KeyInv
<1>1. HDInit => KeyInv
  BY KeysInitially DEF HDInit, KeyInv
<1>2. KeyInv /\ CacheInv /\ [HDNext]_hdVars => KeyInv'
  BY KeysKept
<1> QED BY <1>1, <1>2, CacheIsSound, PTL DEF HDSpec

\* For any curve and mac, who has the public key of a node derives the public keys, the
\* chain codes and the addresses of the children its private key has, also where macs are
\* refused and made again.
THEOREM PublicDerivation ==
  ASSUME MacAssumption
  PROVE  HDSpec => []PublicFollowsPrivate
<1> QED BY KeysAreKeys, DerivationsAgree, PTL


-----------------------------------------------------------------------------
(* The inverse.                                                             *)

Looping == phase \in {"halve", "compare"}

TypeInv ==
  /\ prime \in InversePrimes /\ x \in 1 .. prime - 1
  /\ u \in Nat /\ v \in Nat /\ r \in Nat /\ s \in Nat /\ scale \in Nat
  /\ even \in {"u", "v"} /\ phase \in {"halve", "compare", "divide", "done"}

\* What holds until u and v are equal.  That r is positive as soon as u may have changed
\* makes s smaller than the prime in the end.
LoopInv ==
  Looping =>
    /\ u > 0 /\ v > 0 /\ s > 0 /\ v <= x
    /\ u * s + v * r = prime
    /\ Divides(prime, x * r + u * scale)
    /\ Divides(prime, x * s - v * scale)
    /\ r = 0 => u = prime /\ even = "v"

DivideInv ==
  ~Looping =>
    /\ s <= prime - 1
    /\ Divides(prime, x * s - scale)
    /\ phase = "done" => scale = 1

InverseInv == TypeInv /\ LoopInv /\ DivideInv

-----------------------------------------------------------------------------
(* Arithmetic.                                                              *)

\* A multiple of what the prime divides.
LEMMA DividesMultiple ==
  ASSUME NEW p \in Int, NEW n \in Int, NEW t \in Int, Divides(p, n)
  PROVE  Divides(p, t * n)
<1>1. PICK q \in Int : n = q * p
  BY DEF Divides
<1>2. t * n = (t * q) * p
  BY <1>1
<1> QED BY <1>2 DEF Divides

LEMMA DividesSum ==
  ASSUME NEW p \in Int, NEW m \in Int, NEW n \in Int, Divides(p, m), Divides(p, n)
  PROVE  Divides(p, m + n)
<1>1. PICK a \in Int, b \in Int : m = a * p /\ n = b * p
  BY DEF Divides
<1>2. a + b \in Int /\ m + n = (a + b) * p
  BY <1>1
<1> QED BY <1>2, Zenon DEF Divides

\* A positive number is divided by none that is greater.
LEMMA NotDivided ==
  ASSUME NEW p \in Nat, NEW n \in 1 .. p - 1
  PROVE  ~Divides(p, n)
<1> SUFFICES ASSUME NEW q \in Int, n = q * p PROVE FALSE
  BY DEF Divides
<1>1. CASE q <= 0
  <2>1. q * p <= 0
    BY <1>1
  <2> QED BY <2>1
<1>2. CASE q >= 1
  <2>1. q * p >= p
    BY <1>2
  <2> QED BY <2>1
<1> QED BY <1>1, <1>2

\* A product grows with its factor.
LEMMA Monotone ==
  ASSUME NEW m \in Nat, NEW n \in Nat, NEW t \in Nat, m >= n
  PROVE  m * t >= n * t
<1>1. (m - n) * t >= 0
  OBVIOUS
<1>2. (m - n) * t = m * t - n * t
  OBVIOUS
<1> QED BY <1>1, <1>2

\* One of two factors is smaller than the product, or the other is one.
LEMMA QuotientBelow ==
  ASSUME NEW n \in Nat, NEW m \in Nat, NEW t \in Nat \ {0}, n = m * t
  PROVE  m <= n /\ (n > 0 => m > 0)
<1>1. m * t >= m
  OBVIOUS
<1>2. m = 0 => m * t = 0
  OBVIOUS
<1> QED BY <1>1, <1>2

-----------------------------------------------------------------------------
\* At first both congruences are equations.
LEMMA InverseInitHolds == ASSUME InverseAssumption PROVE AlmostInit => InverseInv
<1> SUFFICES ASSUME AlmostInit PROVE InverseInv
  OBVIOUS
<1>1. TypeInv
  BY DEF AlmostInit, TypeInv, InverseAssumption
<1>2. prime \in Nat /\ x \in Nat /\ prime > 0
  BY DEF AlmostInit, InverseAssumption
<1>3. x * r + u * scale = 1 * prime
  BY <1>2 DEF AlmostInit
<1>4. x * s - v * scale = 0 * prime
  BY <1>2 DEF AlmostInit
<1>5. Divides(prime, x * r + u * scale) /\ Divides(prime, x * s - v * scale)
  BY <1>3, <1>4 DEF Divides
<1>6. u * s + v * r = prime
  BY <1>2 DEF AlmostInit
<1> QED BY <1>1, <1>2, <1>5, <1>6 DEF AlmostInit, InverseInv, LoopInv, DivideInv, Looping

\* Halving u keeps u * s and scales the second congruence.
LEMMA HalveUHolds ==
  ASSUME InverseAssumption, InverseInv, HalveU PROVE InverseInv'
<1>1. PICK t \in Powers : u = u' * t /\ s' = s * t /\ scale' = scale * t
  BY DEF HalveU
<1>2. /\ t \in Nat \ {0} /\ u' \in Nat /\ s' \in Nat /\ scale' \in Nat
      /\ u \in Nat /\ v \in Nat /\ r \in Nat /\ s \in Nat /\ scale \in Nat
      /\ x \in Nat /\ prime \in Nat
  <2>1. /\ u \in Nat /\ v \in Nat /\ r \in Nat /\ s \in Nat /\ scale \in Nat
        /\ x \in Nat /\ prime \in Nat
    BY DEF InverseAssumption, InverseInv, TypeInv
  <2>2. t \in Nat \ {0} /\ u' \in Nat
    BY DEF HalveU, InverseAssumption
  <2>3. s * t \in Nat /\ scale * t \in Nat
    BY <2>1, <2>2
  <2> QED BY <1>1, <2>1, <2>2, <2>3
<1>3. UNCHANGED <<prime, x, v, r, even>> /\ Looping /\ Looping' /\ even = "u"
  BY DEF HalveU, Looping
<1>4. TypeInv'
  BY <1>2, <1>3 DEF InverseInv, TypeInv, HalveU, Looping
<1>5. u' > 0 /\ s' > 0
  <2>1. u > 0 /\ s > 0
    BY <1>3 DEF InverseInv, LoopInv
  <2>2. u' > 0
    BY <1>1, <1>2, <2>1, QuotientBelow
  <2>3. s * t > 0
    BY <1>2, <2>1
  <2> QED BY <1>1, <2>2, <2>3
<1>6. u' * s' + v' * r' = prime'
  <2>1. u' * (s * t) = (u' * t) * s
    BY <1>2
  <2> QED BY <1>1, <1>3, <2>1 DEF InverseInv, LoopInv
<1>7. Divides(prime, x * r + u' * scale')
  <2>1. u' * (scale * t) = (u' * t) * scale
    BY <1>2
  <2> QED BY <1>1, <1>3, <2>1 DEF InverseInv, LoopInv
<1>8. Divides(prime, x * s' - v * scale')
  <2>1. x * (s * t) - v * (scale * t) = t * (x * s - v * scale)
    BY <1>2
  <2> DEFINE d == x * s - v * scale
  <2>2. Divides(prime, d)
    BY <1>3 DEF InverseInv, LoopInv
  <2>3. d \in Int /\ t \in Int /\ prime \in Int
    BY <1>2
  <2> HIDE DEF d
  <2>4. Divides(prime, t * d)
    BY <2>2, <2>3, DividesMultiple
  <2> USE DEF d
  <2> QED BY <1>1, <2>1, <2>4
<1>9. r # 0 /\ v <= x /\ v > 0
  BY <1>3 DEF InverseInv, LoopInv
<1> QED BY <1>3, <1>4, <1>5, <1>6, <1>7, <1>8, <1>9 DEF InverseInv, LoopInv, DivideInv

\* Halving v keeps v * r and scales the first congruence.
LEMMA HalveVHolds ==
  ASSUME InverseAssumption, InverseInv, HalveV PROVE InverseInv'
<1>1. PICK t \in Powers : v = v' * t /\ r' = r * t /\ scale' = scale * t
  BY DEF HalveV
<1>2. /\ t \in Nat \ {0} /\ v' \in Nat /\ r' \in Nat /\ scale' \in Nat
      /\ u \in Nat /\ v \in Nat /\ r \in Nat /\ s \in Nat /\ scale \in Nat
      /\ x \in Nat /\ prime \in Nat
  <2>1. /\ u \in Nat /\ v \in Nat /\ r \in Nat /\ s \in Nat /\ scale \in Nat
        /\ x \in Nat /\ prime \in Nat
    BY DEF InverseAssumption, InverseInv, TypeInv
  <2>2. t \in Nat \ {0} /\ v' \in Nat
    BY DEF HalveV, InverseAssumption
  <2>3. r * t \in Nat /\ scale * t \in Nat
    BY <2>1, <2>2
  <2> QED BY <1>1, <2>1, <2>2, <2>3
<1>3. UNCHANGED <<prime, x, u, s, even>> /\ Looping /\ Looping' /\ even = "v"
  BY DEF HalveV, Looping
<1>4. TypeInv'
  BY <1>2, <1>3 DEF InverseInv, TypeInv, HalveV, Looping
<1>5. v' > 0 /\ v' <= x
  <2>1. v > 0 /\ v <= x
    BY <1>3 DEF InverseInv, LoopInv
  <2>2. v' > 0 /\ v' <= v
    BY <1>1, <1>2, <2>1, QuotientBelow
  <2> QED BY <1>2, <2>1, <2>2
<1>6. u' * s' + v' * r' = prime'
  <2>1. v' * (r * t) = (v' * t) * r
    BY <1>2
  <2> QED BY <1>1, <1>3, <2>1 DEF InverseInv, LoopInv
<1>7. Divides(prime, x * s - v' * scale')
  <2>1. v' * (scale * t) = (v' * t) * scale
    BY <1>2
  <2> QED BY <1>1, <1>3, <2>1 DEF InverseInv, LoopInv
<1>8. Divides(prime, x * r' + u * scale')
  <2>1. x * (r * t) + u * (scale * t) = t * (x * r + u * scale)
    BY <1>2
  <2> DEFINE d == x * r + u * scale
  <2>2. Divides(prime, d)
    BY <1>3 DEF InverseInv, LoopInv
  <2>3. d \in Int /\ t \in Int /\ prime \in Int
    BY <1>2
  <2> HIDE DEF d
  <2>4. Divides(prime, t * d)
    BY <2>2, <2>3, DividesMultiple
  <2> USE DEF d
  <2> QED BY <1>1, <2>1, <2>4
<1>9. u > 0 /\ s > 0 /\ (r' = 0 => u = prime)
  <2>1. r # 0 => r * t # 0
    BY <1>2
  <2> QED BY <1>1, <1>3, <2>1 DEF InverseInv, LoopInv
<1> QED BY <1>3, <1>4, <1>5, <1>6, <1>7, <1>8, <1>9 DEF InverseInv, LoopInv, DivideInv

\* The first congruence takes the second in.
LEMMA SubtractVHolds ==
  ASSUME InverseAssumption, InverseInv, SubtractV PROVE InverseInv'
<1>1. /\ u > v /\ u' = u - v /\ r' = r + s /\ even' = "u"
      /\ UNCHANGED <<prime, x, v, s, scale>> /\ Looping /\ Looping'
  BY DEF SubtractV, Looping
<1>2. /\ u \in Nat /\ v \in Nat /\ r \in Nat /\ s \in Nat /\ scale \in Nat
      /\ x \in Nat /\ prime \in Nat
  BY DEF InverseAssumption, InverseInv, TypeInv
<1>3. TypeInv'
  BY <1>1, <1>2 DEF InverseInv, TypeInv, SubtractV
<1>4. /\ u > 0 /\ v > 0 /\ s > 0 /\ v <= x /\ u * s + v * r = prime
      /\ Divides(prime, x * r + u * scale) /\ Divides(prime, x * s - v * scale)
  BY <1>1 DEF InverseInv, LoopInv
<1>5. (u - v) * s + v * (r + s) = u * s + v * r
  BY <1>2
<1>6. x * (r + s) + (u - v) * scale = (x * r + u * scale) + (x * s - v * scale)
  BY <1>2
<1>7. x * r + u * scale \in Int /\ x * s - v * scale \in Int
  BY <1>2
<1>8. Divides(prime, x * (r + s) + (u - v) * scale)
  BY <1>2, <1>4, <1>6, <1>7, DividesSum
<1>9. u' > 0 /\ r' # 0
  BY <1>1, <1>2, <1>4
<1> QED BY <1>1, <1>3, <1>4, <1>5, <1>8, <1>9 DEF InverseInv, LoopInv, DivideInv

\* The second congruence takes the first in.
LEMMA SubtractUHolds ==
  ASSUME InverseAssumption, InverseInv, SubtractU PROVE InverseInv'
<1>1. /\ v > u /\ v' = v - u /\ s' = s + r /\ even' = "v"
      /\ UNCHANGED <<prime, x, u, r, scale>> /\ Looping /\ Looping'
  BY DEF SubtractU, Looping
<1>2. /\ u \in Nat /\ v \in Nat /\ r \in Nat /\ s \in Nat /\ scale \in Nat
      /\ x \in Nat /\ prime \in Nat
  BY DEF InverseAssumption, InverseInv, TypeInv
<1>3. TypeInv'
  BY <1>1, <1>2 DEF InverseInv, TypeInv, SubtractU
<1>4. /\ u > 0 /\ v > 0 /\ s > 0 /\ v <= x /\ u * s + v * r = prime
      /\ Divides(prime, x * r + u * scale) /\ Divides(prime, x * s - v * scale)
      /\ r = 0 => u = prime
  BY <1>1 DEF InverseInv, LoopInv
<1>5. u * (s + r) + (v - u) * r = u * s + v * r
  BY <1>2
<1>6. x * (s + r) - (v - u) * scale = (x * r + u * scale) + (x * s - v * scale)
  BY <1>2
<1>7. x * r + u * scale \in Int /\ x * s - v * scale \in Int
  BY <1>2
<1>8. Divides(prime, x * (s + r) - (v - u) * scale)
  BY <1>2, <1>4, <1>6, <1>7, DividesSum
<1>9. v' > 0 /\ s' > 0 /\ v' <= x
  BY <1>1, <1>2, <1>4
<1> QED BY <1>1, <1>3, <1>4, <1>5, <1>8, <1>9 DEF InverseInv, LoopInv, DivideInv

\* Equal numbers divide the prime and are below it: they are one.
LEMMA EqualHolds ==
  ASSUME InverseAssumption, InverseInv, Equal PROVE InverseInv'
<1>1. /\ u = v /\ phase' = "divide" /\ Looping /\ ~Looping'
      /\ UNCHANGED <<prime, x, u, v, r, s, scale, even>>
  BY DEF Equal, Looping
<1>2. /\ u \in Nat /\ v \in Nat /\ r \in Nat /\ s \in Nat /\ scale \in Nat
      /\ x \in 1 .. prime - 1 /\ prime \in InversePrimes /\ prime \in Nat
  BY DEF InverseAssumption, InverseInv, TypeInv
<1>3. /\ u > 0 /\ s > 0 /\ v <= x /\ u * s + v * r = prime
      /\ Divides(prime, x * s - v * scale) /\ (r = 0 => u = prime)
  BY <1>1 DEF InverseInv, LoopInv
<1>4. u * (s + r) = prime
  BY <1>1, <1>2, <1>3
<1>5. Divides(prime, s + r)
  <2>1. u * (s + r) = 1 * prime
    BY <1>2, <1>4
  <2>2. Divides(prime, u * (s + r))
    BY <2>1 DEF Divides
  <2>3. u \in 1 .. prime - 1
    BY <1>1, <1>2, <1>3
  <2>4. u \in Int /\ s + r \in Int
    BY <1>2
  <2> QED BY <1>2, <2>2, <2>3, <2>4, NotDivided DEF InverseAssumption
<1>6. u = 1
  <2>1. PICK q \in Int : s + r = q * prime
    BY <1>5 DEF Divides
  <2>2. q >= 1
    <3>1. q <= 0 => q * prime <= 0
      BY <1>2
    <3> QED BY <1>2, <1>3, <2>1, <3>1
  <2>3. q * prime >= prime
    BY <1>2, <2>2
  <2>4. u >= 2 => u * (s + r) >= 2 * (s + r)
    BY <1>2
  <2>5. prime > 0
    BY <1>2
  <2> QED BY <1>2, <1>3, <1>4, <2>1, <2>3, <2>4, <2>5
<1>7. s <= prime - 1
  <2>1. s + r = prime
    BY <1>2, <1>4, <1>6
  <2>2. r # 0
    BY <1>1, <1>2, <1>3
  <2> QED BY <1>2, <2>1, <2>2
<1>8. Divides(prime, x * s - scale)
  <2>1. v * scale = scale
    BY <1>1, <1>2, <1>6
  <2> QED BY <1>3, <2>1
<1> QED BY <1>1, <1>7, <1>8 DEF InverseInv, TypeInv, LoopInv, DivideInv

\* The prime divides t times what it should divide, and not t.
LEMMA DivideHolds ==
  ASSUME InverseAssumption, InverseInv, Divide PROVE InverseInv'
<1>1. PICK t \in Powers : scale = scale' * t /\ \E q \in 0 .. t - 1 : s + q * prime = s' * t
  BY DEF Divide
<1>2. PICK q \in 0 .. t - 1 : s + q * prime = s' * t
  BY <1>1
<1>3. /\ ~Looping /\ ~Looping' /\ scale' \in Nat /\ s' \in Nat
      /\ UNCHANGED <<prime, x, u, v, r, even>>
  BY DEF Divide, Looping
<1>4. /\ t \in Nat \ {0} /\ q \in Nat /\ q <= t - 1 /\ s \in Nat /\ scale \in Nat
      /\ x \in Nat /\ prime \in InversePrimes /\ prime \in Nat /\ prime > 0
  BY <1>1, <1>2 DEF InverseAssumption, InverseInv, TypeInv
<1>5. s <= prime - 1 /\ Divides(prime, x * s - scale)
  BY <1>3 DEF InverseInv, DivideInv
<1>6. s' <= prime - 1
  <2>1. q * prime <= (t - 1) * prime
    BY <1>4
  <2>2. (t - 1) * prime = prime * t - prime
    BY <1>4
  <2>3. s' * t <= prime * t - 1
    <3> DEFINE a == q * prime
               b == prime * t
               c == s' * t
    <3>1. a \in Int /\ b \in Int /\ c \in Int
      BY <1>3, <1>4
    <3>2. s + a = c
      BY <1>2, Zenon
    <3>3. a <= b - prime
      BY <2>1, <2>2
    <3> HIDE DEF a, b, c
    <3>4. c <= b - 1
      BY <1>4, <1>5, <3>1, <3>2, <3>3
    <3> QED BY <3>4 DEF b, c
  <2>4. s' >= prime => s' * t >= prime * t
    BY <1>3, <1>4, Monotone
  <2>5. prime * t \in Int /\ s' * t \in Int
    BY <1>3, <1>4
  <2>6. ~(s' >= prime)
    BY <2>3, <2>4, <2>5
  <2> QED BY <1>3, <1>4, <2>6
<1>7. Divides(prime, x * s' - scale')
  <2>1. x * (s' * t) - scale' * t = (x * s - scale) + (x * q) * prime
    <3>1. x * (s + q * prime) = x * s + (x * q) * prime
      BY <1>4
    <3>2. x * s \in Int /\ (x * q) * prime \in Int
      BY <1>4
    <3> QED BY <1>1, <1>2, <1>4, <3>1, <3>2
  <2>2. t * (x * s' - scale') = x * (s' * t) - scale' * t
    BY <1>3, <1>4
  <2>3. Divides(prime, (x * q) * prime)
    BY <1>4 DEF Divides
  <2>4. Divides(prime, t * (x * s' - scale'))
    BY <1>4, <1>5, <2>1, <2>2, <2>3, DividesSum
  <2>5. ~Divides(prime, t)
    BY <1>4 DEF InverseAssumption
  <2>6. t \in Int /\ x * s' - scale' \in Int
    BY <1>3, <1>4
  <2> QED BY <1>4, <2>4, <2>5, <2>6 DEF InverseAssumption
<1>8. TypeInv'
  BY <1>3 DEF InverseInv, TypeInv, Divide
<1> QED BY <1>3, <1>6, <1>7, <1>8 DEF InverseInv, LoopInv, DivideInv, Divide

\* Every step keeps the invariant.
LEMMA InverseStepHolds ==
  ASSUME InverseAssumption PROVE InverseInv /\ [AlmostNext]_inverseVars => InverseInv'
<1> SUFFICES ASSUME InverseInv, [AlmostNext]_inverseVars PROVE InverseInv'
  OBVIOUS
<1>1. CASE UNCHANGED inverseVars
  BY <1>1 DEF inverseVars, InverseInv, TypeInv, LoopInv, DivideInv, Looping
<1> QED BY <1>1, HalveUHolds, HalveVHolds, SubtractVHolds, SubtractUHolds, EqualHolds,
           DivideHolds DEF AlmostNext

\* What the almost inverse algorithm of bn_inverse keeps true, for all primes and numbers.
THEOREM InverseInvariant == ASSUME InverseAssumption PROVE AlmostSpec => []InverseInv
<1>1. AlmostInit => InverseInv
  BY InverseInitHolds
<1>2. InverseInv /\ [AlmostNext]_inverseVars => InverseInv'
  BY InverseStepHolds
<1> QED BY <1>1, <1>2, PTL DEF AlmostSpec

\* What bn_inverse returns is the inverse of its input modulo the prime.
THEOREM InverseComputed == ASSUME InverseAssumption PROVE AlmostSpec => []Inverse
<1>1. InverseInv => Inverse
  BY DEF InverseInv, DivideInv, Looping, Inverse
<1> QED BY <1>1, InverseInvariant, PTL

\* The result of bn_inverse needs no reduction.
THEOREM ResultIsReduced == ASSUME InverseAssumption PROVE AlmostSpec => []ResultReduced
<1>1. InverseInv => ResultReduced
  BY DEF InverseInv, TypeInv, DivideInv, Looping, ResultReduced, InverseAssumption
<1> QED BY <1>1, InverseInvariant, PTL

\* The numbers that share a register of bn_inverse fit into it together.
THEOREM RegistersShared == ASSUME InverseAssumption PROVE AlmostSpec => []Shared
<1>1. InverseInv => Shared
  BY DEF InverseInv, TypeInv, LoopInv, Looping, Shared
<1> QED BY <1>1, InverseInvariant, PTL

-----------------------------------------------------------------------------
(* Fees and gas.                                                            *)

\* The powers of nine and of eight, from the 0th to the 5th.
Nines  == <<1, 9, 81, 729, 6561, 59049>>
Eights == <<1, 8, 64, 512, 4096, 32768>>

\* What a base fee b can grow to in n blocks, and what a small one can, is at most fee.
LastsFor(n, fee, b) ==
  /\ fee * Eights[n + 1] >= b * Nines[n + 1]
  /\ fee * Eights[n + 1] >= 8 * Nines[n + 1]

\* The base fee has grown in n blocks since it was first.
GrownFrom(n, first, b) ==
  b \in Nat /\ b >= 7 /\ (b * Eights[n + 1] <= first * Nines[n + 1] \/ b <= 8)

FirstFee(b) == b = Legacy \/ (b \in Nat /\ b >= 8)

FeeInv ==
  /\ blocks \in Nat
  /\ stage \in {"estimate", "block", "price", "made", "threw"}
  /\ stage \in {"estimate", "block"} => FirstFee(base)
  /\ stage = "price" => block \in Nat /\ block >= 8 /\ base \in Nat
  /\ stage = "price" /\ blocks <= 5 => GrownFrom(blocks, block, base)
  /\ stage = "made" => base \in Nat /\ fees.max \in Int
  /\ stage = "made" /\ blocks <= 5 => LastsFor(5 - blocks, fees.max, base)

-----------------------------------------------------------------------------
\* One block more.
LEMMA Raised ==
  ASSUME NEW b \in Nat,
         NEW c, c \in {b - b \div 8, b, b + IF b \div 8 = 0 THEN 1 ELSE b \div 8}
  PROVE  c \in Nat /\ (8 * c <= 9 * b \/ c <= 8) /\ (b >= 7 => c >= 7)
<1>1. b \div 8 \in Nat /\ 8 * (b \div 8) <= b /\ b < 8 * (b \div 8) + 8
  OBVIOUS
<1> DEFINE e == b \div 8
<1>2. e \in Nat /\ 8 * e <= b /\ b < 8 * e + 8
  BY <1>1
<1>3. c = b - e \/ c = b \/ (e = 0 /\ c = b + 1) \/ (e # 0 /\ c = b + e)
  BY DEF e
<1> HIDE DEF e
<1> QED BY <1>2, <1>3

LEMMA GrowsOn ==
  ASSUME NEW n \in 0 .. 4, NEW first \in Nat, first >= 8, NEW b \in Nat, GrownFrom(n, first, b),
         NEW c \in Nat, 8 * c <= 9 * b \/ c <= 8, b >= 7 => c >= 7
  PROVE  GrownFrom(n + 1, first, c)
<1>1. CASE n = 0 BY <1>1 DEF GrownFrom, Nines, Eights
<1>2. CASE n = 1 BY <1>2 DEF GrownFrom, Nines, Eights
<1>3. CASE n = 2 BY <1>3 DEF GrownFrom, Nines, Eights
<1>4. CASE n = 3 BY <1>4 DEF GrownFrom, Nines, Eights
<1>5. CASE n = 4 BY <1>5 DEF GrownFrom, Nines, Eights
<1> QED BY <1>1, <1>2, <1>3, <1>4, <1>5

LEMMA LastsOn ==
  ASSUME NEW n \in 0 .. 4, NEW fee \in Int, NEW b \in Nat, LastsFor(n + 1, fee, b),
         NEW c \in Nat, 8 * c <= 9 * b \/ c <= 8
  PROVE  LastsFor(n, fee, c)
<1>1. CASE n = 0 BY <1>1 DEF LastsFor, Nines, Eights
<1>2. CASE n = 1 BY <1>2 DEF LastsFor, Nines, Eights
<1>3. CASE n = 2 BY <1>3 DEF LastsFor, Nines, Eights
<1>4. CASE n = 3 BY <1>4 DEF LastsFor, Nines, Eights
<1>5. CASE n = 4 BY <1>5 DEF LastsFor, Nines, Eights
<1> QED BY <1>1, <1>2, <1>3, <1>4, <1>5

\* A fee of twice the base fee, and more, lasts for five blocks.
LEMMA DoubleLasts ==
  ASSUME NEW b \in Nat, b >= 8, NEW fee \in Int, fee >= 2 * b
  PROVE  LastsFor(5, fee, b)
BY DEF LastsFor, Nines, Eights

\* A fee of the base fee that was read and the gas price, n blocks later, and a tenth of
\* it, lasts for the others of the five.
LEMMA PriceLasts ==
  ASSUME NEW n \in 0 .. 5, NEW first \in Nat, first >= 8, NEW b \in Nat, GrownFrom(n, first, b),
         NEW fee \in Int, 10 * fee >= 10 * first + 11 * b - 9
  PROVE  LastsFor(5 - n, fee, b)
<1>1. CASE n = 0 BY <1>1 DEF GrownFrom, LastsFor, Nines, Eights
<1>2. CASE n = 1 BY <1>2 DEF GrownFrom, LastsFor, Nines, Eights
<1>3. CASE n = 2 BY <1>3 DEF GrownFrom, LastsFor, Nines, Eights
<1>4. CASE n = 3 BY <1>4 DEF GrownFrom, LastsFor, Nines, Eights
<1>5. CASE n = 4 BY <1>5 DEF GrownFrom, LastsFor, Nines, Eights
<1>6. CASE n = 5 BY <1>6 DEF GrownFrom, LastsFor, Nines, Eights
<1> QED BY <1>1, <1>2, <1>3, <1>4, <1>5, <1>6

-----------------------------------------------------------------------------
\* The base fees at first are those the theorem speaks of.
FeesAssumption == \A b \in BaseFees : b = Legacy \/ b >= 8

LEMMA FeesBegin == ASSUME FeesAssumption PROVE Init => FeeInv
  BY DetailsAssumption DEF FeesAssumption, Init, FeeInv, FirstFee

\* The block that is read is the first of those that are counted.
LEMMA BlockReadHolds == ASSUME FeeInv, BlockRead PROVE FeeInv'
<1>1. FirstFee(base) /\ block' = base /\ base' = base /\ blocks' = 0
  BY DEF FeeInv, BlockRead
<1>2. CASE base = Legacy
  BY <1>1, <1>2 DEF FeeInv, BlockRead
<1>3. CASE base # Legacy /\ maker = "feeData"
  <2>1. stage' = "price" /\ base \in Nat /\ base >= 8
    BY <1>1, <1>3 DEF BlockRead, FirstFee
  <2>2. GrownFrom(0, base, base)
    BY <2>1 DEF GrownFrom, Nines, Eights
  <2> QED BY <1>1, <2>1, <2>2 DEF FeeInv
<1>4. CASE base # Legacy /\ maker # "feeData"
  <2>1. /\ stage' = "made" /\ base \in Nat /\ base >= 8
        /\ fees'.max = MaxFee(base, FixedTip)
    BY <1>1, <1>4 DEF BlockRead, FirstFee
  <2>2. fees'.max \in Int /\ fees'.max >= 2 * base
    BY <2>1, DetailsAssumption DEF MaxFee
  <2>3. LastsFor(5, fees'.max, base)
    BY <2>1, <2>2, DoubleLasts
  <2> QED BY <1>1, <2>1, <2>2, <2>3 DEF FeeInv
<1> QED BY <1>2, <1>3, <1>4

\* The gas price is at least the base fee of the moment.
LEMMA PriceReadHolds == ASSUME FeeInv, PriceRead PROVE FeeInv'
<1>1. PICK tip \in Tips : fees'.max = MaxFee(block, PriorityFee(base + tip, block))
  BY DEF PriceRead
<1>2. /\ stage = "price" /\ stage' = "made" /\ UNCHANGED <<base, blocks, block>>
      /\ block \in Nat /\ block >= 8 /\ base \in Nat /\ tip \in Nat /\ blocks \in Nat
  BY DetailsAssumption DEF PriceRead, FeeInv
<1> DEFINE price10 == ((base + tip) * 10) \div 100
<1>3. price10 \in Nat /\ 10 * price10 >= base + tip - 9
  BY <1>2
<1>4. fees'.max = block * 2 + (base + tip + price10 - block)
  BY <1>1 DEF MaxFee, PriorityFee
<1> HIDE DEF price10
<1>5. fees'.max \in Int /\ 10 * fees'.max >= 10 * block + 11 * base - 9
  BY <1>2, <1>3, <1>4
<1>6. ASSUME blocks <= 5 PROVE LastsFor(5 - blocks, fees'.max, base)
  <2>1. GrownFrom(blocks, block, base) /\ blocks \in 0 .. 5
    BY <1>2, <1>6 DEF FeeInv
  <2> QED BY <1>2, <1>5, <2>1, PriceLasts
<1> QED BY <1>2, <1>5, <1>6 DEF FeeInv

\* One block less remains.
LEMMA NextBlockHolds == ASSUME FeeInv, NextBlock PROVE FeeInv'
<1>1. /\ stage \in {"price", "made"} /\ base \in Nat /\ blocks \in Nat
      /\ blocks' = blocks + 1 /\ UNCHANGED <<stage, block, fees>>
  BY DEF FeeInv, NextBlock, detailVars
<1>2. base' \in {base - base \div 8, base, base + IF base \div 8 = 0 THEN 1 ELSE base \div 8}
  BY DEF NextBlock
<1>3. base' \in Nat /\ (8 * base' <= 9 * base \/ base' <= 8) /\ (base >= 7 => base' >= 7)
  <2> DEFINE b == base
             c == base'
  <2>1. b \in Nat /\ c \in {b - b \div 8, b, b + IF b \div 8 = 0 THEN 1 ELSE b \div 8}
    BY <1>1, <1>2
  <2> HIDE DEF b, c
  <2>2. c \in Nat /\ (8 * c <= 9 * b \/ c <= 8) /\ (b >= 7 => c >= 7)
    BY <2>1, Raised
  <2> QED BY <2>2 DEF b, c
<1>4. ASSUME stage = "price", blocks' <= 5 PROVE GrownFrom(blocks', block, base')
  <2>1. blocks \in 0 .. 4 /\ GrownFrom(blocks, block, base) /\ block \in Nat /\ block >= 8
    BY <1>1, <1>4 DEF FeeInv
  <2> QED BY <1>1, <1>3, <2>1, GrowsOn
<1>5. ASSUME stage = "made", blocks' <= 5 PROVE LastsFor(5 - blocks', fees.max, base')
  <2> DEFINE n == 4 - blocks
  <2>1. n \in 0 .. 4 /\ 5 - blocks' = n /\ 5 - blocks = n + 1
    BY <1>1, <1>5
  <2>2. LastsFor(n + 1, fees.max, base) /\ fees.max \in Int
    BY <1>1, <1>5, <2>1 DEF FeeInv
  <2> HIDE DEF n
  <2> QED BY <1>1, <1>3, <2>1, <2>2, LastsOn
<1> QED BY <1>1, <1>3, <1>4, <1>5 DEF FeeInv

\* The other steps change neither the fees nor the blocks.
LEMMA FeesStep == FeeInv /\ [Next]_vars => FeeInv'
<1> SUFFICES ASSUME FeeInv, [Next]_vars PROVE FeeInv'
  OBVIOUS
<1>1. CASE GasEstimated
  BY <1>1 DEF FeeInv, GasEstimated
<1>2. CASE BuildRelayRequest
  BY <1>2 DEF FeeInv, BuildRelayRequest
<1>3. CASE UNCHANGED vars
  BY <1>3 DEF FeeInv, vars, detailVars
<1> QED BY <1>1, <1>2, <1>3, BlockReadHolds, PriceReadHolds, NextBlockHolds DEF Next

\* The maximal fee of FeeData.getFeeData, and that of getExecuteMetatransactionTx, covers
\* the base fee of five blocks, for any base fee of eight wei or more, any tip and any call.
THEOREM FeesLast == ASSUME FeesAssumption PROVE Spec => []FeeLasts
<1>1. Init => FeeInv
  BY FeesBegin
<1>2. FeeInv /\ [Next]_vars => FeeInv'
  BY FeesStep
<1>3. FeeInv => FeeLasts
  <2> SUFFICES ASSUME FeeInv, stage = "made", blocks <= 5 PROVE base <= fees.max
    BY DEF FeeLasts
  <2>1. /\ LastsFor(5 - blocks, fees.max, base) /\ blocks \in 0 .. 5
        /\ base \in Nat /\ fees.max \in Int
    BY DEF FeeInv
  <2> QED BY <2>1 DEF LastsFor, Nines, Eights
<1> QED BY <1>1, <1>2, <1>3, PTL DEF Spec

-----------------------------------------------------------------------------
(* Texts.  The digits of a number are written by recursion over the number *)
(* and read by recursion over the text; that what is read is what was      *)
(* written is proved by induction over both.                               *)

\* y are the values of the prefixes of a text.
Prefixes(y, digits) ==
  /\ y \in [0 .. Len(digits) -> Nat]
  /\ y[0] = 0
  /\ \A k \in 0 .. Len(digits) - 1 : y[k + 1] = 16 * y[k] + digits[k + 1]

LEMMA ValueIs ==
  ASSUME NEW z \in Seq(Nat)
  PROVE  \E y : Prefixes(y, z) /\ Value(z) = y[Len(z)]
<1> DEFINE n == Len(z)
           step == [k \in Nat |-> [m \in Nat |-> IF k + 1 \in 1 .. n THEN 16 * m + z[k + 1] ELSE 0]]
           Is(y) == y = [i \in 0 .. n |-> IF i = 0 THEN 0 ELSE 16 * y[i - 1] + z[i]]
<1>1. n \in Nat /\ \A i \in 1 .. n : z[i] \in Nat
  OBVIOUS
<1>2. step \in [Nat -> [Nat -> Nat]]
  BY <1>1
<1>3. PICK h : Solves(h, n, Nat, 0, step)
  BY <1>1, <1>2, SolutionExists
<1>4. ASSUME NEW k \in 0 .. n - 1 PROVE h[k + 1] = 16 * h[k] + z[k + 1]
  <2>1. k \in Nat /\ k + 1 \in 1 .. n /\ k \in 0 .. n
    BY <1>1
  <2> HIDE DEF step
  <2>3. h[k] \in Nat /\ h[k + 1] = step[k][h[k]]
    BY <1>3, <2>1 DEF Solves
  <2> USE DEF step
  <2>2. step[k] = [m \in Nat |-> 16 * m + z[k + 1]]
    BY <2>1
  <2> QED BY <2>1, <2>2, <2>3
<1>5. Is(h)
  BY <1>1, <1>3, <1>4 DEF Solves
<1>6. Value(z) = (CHOOSE y : Is(y))[n]
  BY DEF Value
<1> DEFINE y == CHOOSE y : Is(y)
<1>7. Is(y)
  BY <1>5
<1> HIDE DEF y
<1>8. y[0] = 0 /\ \A k \in 0 .. n - 1 : y[k + 1] = 16 * y[k] + z[k + 1]
  BY <1>1, <1>7
<1> DEFINE S == {k \in Nat : k <= n => y[k] \in Nat}
<1>9. 0 \in S
  BY <1>8
<1>10. ASSUME NEW k \in Nat, k \in S PROVE k + 1 \in S
  BY <1>1, <1>8, <1>10
<1> HIDE DEF S
<1>11. \A k \in Nat : k \in S
  BY <1>9, <1>10, SetInduction
<1>12. y \in [0 .. n -> Nat]
  <2>1. \A i \in 0 .. n : y[i] \in Nat
    BY <1>1, <1>11 DEF S
  <2>2. \E F : y = [i \in 0 .. n |-> F[i]]
    <3> DEFINE F == [i \in 0 .. n |-> IF i = 0 THEN 0 ELSE 16 * y[i - 1] + z[i]]
    <3>1. y = [i \in 0 .. n |-> F[i]]
      BY ONLY <1>7
    <3> HIDE DEF F
    <3> QED BY ONLY <3>1
  <2> HIDE DEF Is
  <2> QED BY ONLY <2>1, <2>2
<1>13. Prefixes(y, z)
  BY <1>8, <1>12 DEF Prefixes
<1> QED BY <1>6, <1>13 DEF y

LEMMA ValueOfNone == Value(<<>>) = 0
<1>1. <<>> \in Seq(Nat) /\ Len(<<>>) = 0
  OBVIOUS
<1>2. PICK y : Prefixes(y, <<>>) /\ Value(<<>>) = y[Len(<<>>)]
  BY <1>1, ValueIs
<1> QED BY <1>1, <1>2 DEF Prefixes

\* A digit more.
LEMMA ValueAppended ==
  ASSUME NEW z \in Seq(Nat), NEW d \in Nat
  PROVE  Value(Append(z, d)) = 16 * Value(z) + d /\ Value(z) \in Nat
<1> DEFINE t == Append(z, d)
           n == Len(z)
<1>1. n \in Nat /\ t \in Seq(Nat) /\ Len(t) = n + 1 /\ t[n + 1] = d
      /\ \A i \in 1 .. n : t[i] = z[i]
  OBVIOUS
<1>2. PICK y : Prefixes(y, z) /\ Value(z) = y[n]
  BY ValueIs
<1>3. PICK w : Prefixes(w, t) /\ Value(t) = w[n + 1]
  BY <1>1, ValueIs
<1> DEFINE S == {k \in Nat : k <= n => w[k] = y[k]}
<1>4. 0 \in S
  BY <1>2, <1>3 DEF Prefixes
<1>5. ASSUME NEW k \in Nat, k \in S PROVE k + 1 \in S
  <2> SUFFICES ASSUME k + 1 <= n PROVE w[k + 1] = y[k + 1]
    OBVIOUS
  <2>1. k \in 0 .. Len(z) - 1 /\ k \in 0 .. Len(t) - 1 /\ k + 1 \in 1 .. n /\ w[k] = y[k]
    BY <1>1, <1>5
  <2>2. w[k + 1] = 16 * w[k] + t[k + 1] /\ y[k + 1] = 16 * y[k] + z[k + 1]
    BY <1>2, <1>3, <2>1 DEF Prefixes
  <2> QED BY <1>1, <2>1, <2>2
<1> HIDE DEF S
<1>6. \A k \in Nat : k \in S
  BY <1>4, <1>5, SetInduction
<1>7. w[n] = y[n]
  BY <1>1, <1>6 DEF S
<1>8. w[n + 1] = 16 * w[n] + t[n + 1]
  <2>1. n \in 0 .. Len(t) - 1
    BY <1>1
  <2> QED BY <1>3, <2>1 DEF Prefixes
<1>9. y[n] \in Nat
  BY <1>1, <1>2 DEF Prefixes
<1> QED BY <1>1, <1>2, <1>3, <1>7, <1>8, <1>9

-----------------------------------------------------------------------------
\* The digits of a number are those of its quotient and its remainder.
LEMMA DigitsAre ==
  ASSUME NEW radix \in Nat, radix >= 2
  PROVE  \A n \in Nat :
           /\ n < radix => Digits(n, radix) = <<n>>
           /\ n >= radix => Digits(n, radix) = Append(Digits(n \div radix, radix), n % radix)
<1> DEFINE T == Seq(Nat)
           Of(g) == [k \in Nat |-> IF k < radix THEN <<k>> ELSE Append(g[k \div radix], k % radix)]
           F == [g \in [Nat -> T] |-> Of(g)]
           f == CHOOSE f : f = Of(f)
<1>1. \A k \in Nat : k >= radix => k \div radix \in 0 .. k - 1
  OBVIOUS
<1>2. \A k \in Nat : k % radix \in Nat /\ k \div radix \in Nat
  OBVIOUS
<1>3. ASSUME NEW g \in [Nat -> T] PROVE Of(g) \in [Nat -> T]
  <2> SUFFICES ASSUME NEW k \in Nat
               PROVE  (IF k < radix THEN <<k>> ELSE Append(g[k \div radix], k % radix)) \in Seq(Nat)
    OBVIOUS
  <2> DEFINE q == k \div radix
             j == k % radix
  <2>1. q \in Nat /\ j \in Nat
    BY <1>2
  <2> HIDE DEF q, j
  <2>2. g[q] \in Seq(Nat)
    BY <2>1
  <2>3. Append(g[q], j) \in Seq(Nat) /\ <<k>> \in Seq(Nat)
    BY <2>1, <2>2
  <2> QED BY <2>3 DEF q, j
<1>4. LooksBelow(F, T)
  <2>1. F \in [[Nat -> T] -> [Nat -> T]]
    BY <1>3
  <2>2. ASSUME NEW g \in [Nat -> T], NEW h \in [Nat -> T], NEW n \in Nat,
               \A i \in 0 .. n - 1 : g[i] = h[i]
        PROVE  F[g][n] = F[h][n]
    <3> DEFINE q == n \div radix
    <3>1. n >= radix => q \in 0 .. n - 1
      BY <1>1
    <3> HIDE DEF q
    <3>2. n >= radix => g[q] = h[q]
      BY <2>2, <3>1
    <3>3. n >= radix \/ n < radix
      OBVIOUS
    <3> QED BY <3>2, <3>3 DEF q
  <2> HIDE DEF F, T
  <2> QED BY <2>1, <2>2 DEF LooksBelow
<1>5. PICK h : FixedPoint(h, F, T)
  <2>1. <<>> \in T
    OBVIOUS
  <2> HIDE DEF T, F
  <2> QED BY <1>4, <2>1, GeneralRecursion
<1>6. h = Of(h)
  BY <1>5 DEF FixedPoint
<1>7. f = Of(f)
  BY <1>6
<1>8. \A n \in Nat : Digits(n, radix) = f[n]
  BY DEF Digits
<1> HIDE DEF f
<1>9. TAKE n \in Nat
<1>10. f[n] = IF n < radix THEN <<n>> ELSE Append(f[n \div radix], n % radix)
  BY <1>7
<1>11. /\ n < radix => f[n] = <<n>>
       /\ n >= radix => f[n] = Append(f[n \div radix], n % radix)
  BY <1>10
<1> QED BY <1>2, <1>8, <1>11

\* Each of them is below the radix.
LEMMA DigitsBelow ==
  ASSUME NEW radix \in Nat, radix >= 2
  PROVE  \A n \in Nat : Digits(n, radix) \in Seq(0 .. radix - 1) /\ Digits(n, radix) # <<>>
<1> DEFINE digits(n) == Digits(n, radix)
           S == {n \in Nat : digits(n) \in Seq(0 .. radix - 1) /\ digits(n) # <<>>}
<1>1. \A n \in Nat : /\ n < radix => digits(n) = <<n>>
                     /\ n >= radix => digits(n) = Append(digits(n \div radix), n % radix)
  BY DigitsAre
<1> HIDE DEF digits
<1>2. ASSUME NEW n \in Nat, \A k \in 0 .. n - 1 : k \in S PROVE n \in S
  <2>1. CASE n < radix
    <3>1. digits(n) = <<n>> /\ n \in 0 .. radix - 1
      BY <1>1, <2>1
    <3>2. <<n>> \in Seq(0 .. radix - 1) /\ <<n>> # <<>>
      BY <3>1
    <3> QED BY <3>1, <3>2
  <2>2. CASE n >= radix
    <3> DEFINE q == n \div radix
               j == n % radix
    <3>1. q \in 0 .. n - 1 /\ j \in 0 .. radix - 1
      BY <2>2
    <3>2. digits(n) = Append(digits(q), j)
      BY <1>1, <2>2
    <3> HIDE DEF q, j
    <3> DEFINE d == digits(q)
    <3>3. d \in Seq(0 .. radix - 1)
      BY <1>2, <3>1
    <3> HIDE DEF d
    <3>4. Append(d, j) \in Seq(0 .. radix - 1) /\ Append(d, j) # <<>>
      BY <3>1, <3>3
    <3> QED BY <3>2, <3>4 DEF d
  <2> QED BY <2>1, <2>2
<1> HIDE DEF S
<1>3. \A n \in Nat : n \in S
  BY <1>2, GeneralSetInduction
<1> QED BY <1>3 DEF S, digits

\* The value of the digits of a number is the number.
LEMMA DigitsRead == \A n \in Nat : Value(Digits(n, 16)) = n
<1> DEFINE digits(n) == Digits(n, 16)
           S == {n \in Nat : Value(digits(n)) = n}
<1>1. /\ \A n \in Nat : /\ n < 16 => digits(n) = <<n>>
                        /\ n >= 16 => digits(n) = Append(digits(n \div 16), n % 16)
      /\ \A n \in Nat : digits(n) \in Seq(0 .. 15)
  <2>1. 16 \in Nat /\ 16 >= 2 /\ 16 - 1 = 15
    OBVIOUS
  <2>2. \A n \in Nat : digits(n) \in Seq(0 .. 16 - 1)
    BY <2>1, DigitsBelow
  <2> QED BY <2>1, <2>2, DigitsAre
<1> HIDE DEF digits
<1>2. ASSUME NEW n \in Nat, \A k \in 0 .. n - 1 : k \in S PROVE n \in S
  <2>1. CASE n < 16
    <3>1. <<>> \in Seq(Nat) /\ digits(n) = Append(<<>>, n)
      BY <1>1, <2>1
    <3>2. Value(Append(<<>>, n)) = 16 * Value(<<>>) + n
      BY <3>1, ValueAppended
    <3> QED BY <3>1, <3>2, ValueOfNone
  <2>2. CASE n >= 16
    <3> DEFINE q == n \div 16
               j == n % 16
    <3>1. q \in 0 .. n - 1 /\ j \in Nat /\ n = 16 * q + j
      BY <2>2
    <3>2. digits(n) = Append(digits(q), j)
      BY <1>1, <2>2
    <3> HIDE DEF q, j
    <3>3. digits(q) \in Seq(Nat)
      <4>1. digits(q) \in Seq(0 .. 15)
        BY <1>1, <3>1
      <4> QED BY <4>1
    <3>4. Value(digits(q)) = q
      BY <1>2, <3>1
    <3>5. Value(digits(n)) = 16 * q + j
      BY <3>1, <3>2, <3>3, <3>4, ValueAppended
    <3> QED BY <3>1, <3>5
  <2> QED BY <2>1, <2>2
<1> HIDE DEF S
<1>3. \A n \in Nat : n \in S
  BY <1>2, GeneralSetInduction
<1> QED BY <1>3 DEF S, digits

-----------------------------------------------------------------------------
\* What is cut from a text behind its prefix is the text.
LEMMA PrefixCut ==
  ASSUME NEW S, NEW a \in S, NEW b \in S, NEW t \in Seq(S)
  PROVE  LET z == <<a, b>> \o t IN z \in Seq(S) /\ SubSeq(z, 3, Len(z)) = t
<1> DEFINE z == <<a, b>> \o t
<1>1. /\ z \in Seq(S) /\ Len(z) = 2 + Len(t) /\ Len(t) \in Nat
      /\ \A i \in 1 .. Len(t) : z[2 + i] = t[i]
  OBVIOUS
<1> HIDE DEF z
<1>2. Len(SubSeq(z, 3, Len(z))) = Len(t)
  BY <1>1
<1>3. SubSeq(z, 3, Len(z)) \in Seq(S)
  BY <1>1
<1>4. \A i \in 1 .. Len(t) : SubSeq(z, 3, Len(z))[i] = t[i]
  BY <1>1
<1>5. SubSeq(z, 3, Len(z)) = t
  BY <1>2, <1>3, <1>4
<1> QED BY <1>1, <1>5 DEF z

\* BigInt.toRadixString and BigInt.parse are inverse, negative numbers included.
LEMMA TextParsed ==
  ASSUME NEW n \in Int
  PROVE  /\ Text(n, 16) \in Seq(Characters)
         /\ Parse(Text(n, 16)) = n
<1>1. ASSUME NEW k \in Nat
      PROVE  /\ Digits(k, 16) \in Seq(0 .. 15) /\ Digits(k, 16) # <<>> /\ Value(Digits(k, 16)) = k
  <2>1. 16 \in Nat /\ 16 >= 2 /\ 16 - 1 = 15
    OBVIOUS
  <2>2. Digits(k, 16) \in Seq(0 .. 16 - 1) /\ Digits(k, 16) # <<>>
    BY <2>1, DigitsBelow
  <2> QED BY <2>1, <2>2, DigitsRead
<1>2. CASE n >= 0
  <2> DEFINE d == Digits(n, 16)
  <2>1. d \in Seq(0 .. 15) /\ d # <<>> /\ Value(d) = n
    BY <1>1, <1>2
  <2>2. Text(n, 16) = d
    BY <1>2 DEF Text
  <2> HIDE DEF d
  <2>3. Head(d) \in 0 .. 15
    BY <2>1
  <2>4. d \in Seq(Characters)
    BY <2>1 DEF Characters
  <2>5. Parse(d) = Value(d)
    BY <2>3 DEF Parse, Minus
  <2> QED BY <2>1, <2>2, <2>4, <2>5
<1>3. CASE n < 0
  <2> DEFINE d == Digits(-n, 16)
  <2>1. d \in Seq(0 .. 15) /\ d # <<>> /\ Value(d) = -n
    BY <1>1, <1>3
  <2>2. Text(n, 16) = <<Minus>> \o d
    BY <1>3 DEF Text
  <2> HIDE DEF d
  <2>3. d \in Seq(Characters) /\ Minus \in Characters
    BY <2>1 DEF Characters, Minus
  <2>4. /\ <<Minus>> \o d \in Seq(Characters)
        /\ Head(<<Minus>> \o d) = Minus /\ Tail(<<Minus>> \o d) = d
    BY <2>3
  <2>5. Parse(<<Minus>> \o d) = -Value(d)
    BY <2>4 DEF Parse
  <2>6. -(-n) = n
    OBVIOUS
  <2> QED BY <2>1, <2>2, <2>4, <2>5, <2>6
<1> QED BY <1>2, <1>3

\* Gas in hexadecimal is read as what it was.
LEMMA HexParsed ==
  ASSUME NEW n \in Int
  PROVE  Hex(n) \in Seq(Characters) /\ ParseGas(Hex(n)) = n
<1> DEFINE t == Text(n, 16)
<1>1. t \in Seq(Characters) /\ Parse(t) = n
  BY TextParsed
<1> HIDE DEF t
<1>2. 0 \in Characters /\ LetterX \in Characters
  BY DEF Characters, LetterX
<1>3. Hex(n) = <<0, LetterX>> \o t
  BY DEF Hex, t
<1>4. Hex(n) \in Seq(Characters) /\ SubSeq(Hex(n), 3, Len(Hex(n))) = t
  BY <1>1, <1>2, <1>3, PrefixCut
<1> QED BY <1>1, <1>4 DEF ParseGas

\* Gas in decimal is read as some number.
LEMMA DecimalParsed ==
  ASSUME NEW n \in Nat, n >= 100
  PROVE  Text(n, 10) \in Seq(Characters) /\ ParseGas(Text(n, 10)) \in Int
<1> DEFINE digits(k) == Digits(k, 10)
           q == n \div 10
           p == q \div 10
           t == digits(n)
<1>1. /\ \A k \in Nat : k >= 10 => digits(k) = Append(digits(k \div 10), k % 10)
      /\ \A k \in Nat : digits(k) \in Seq(0 .. 9) /\ digits(k) # <<>>
  <2>1. 10 \in Nat /\ 10 >= 2 /\ 10 - 1 = 9
    OBVIOUS
  <2>2. \A k \in Nat : digits(k) \in Seq(0 .. 10 - 1) /\ digits(k) # <<>>
    BY <2>1, DigitsBelow
  <2> QED BY <2>1, <2>2, DigitsAre
<1>2. Text(n, 10) = t
  BY DEF Text
<1> HIDE DEF digits
<1>3. q \in Nat /\ q >= 10 /\ p \in Nat
  OBVIOUS
<1>4. t = Append(digits(q), n % 10) /\ digits(q) = Append(digits(p), q % 10)
  <2>1. n \in Nat /\ n >= 10
    OBVIOUS
  <2>2. digits(n) = Append(digits(n \div 10), n % 10)
    BY <1>1, <2>1
  <2> HIDE DEF q
  <2>3. digits(q) = Append(digits(q \div 10), q % 10)
    BY <1>1, <1>3
  <2> QED BY <2>2, <2>3 DEF q
<1> HIDE DEF q, p, t
<1>5. /\ t \in Seq(0 .. 9) /\ digits(q) \in Seq(0 .. 9) /\ digits(p) \in Seq(0 .. 9)
      /\ digits(p) # <<>>
  BY <1>1, <1>3 DEF t
<1>6. Len(digits(p)) \in Nat /\ Len(digits(p)) >= 1
  BY <1>5
<1>7. Len(t) \in Nat /\ Len(t) >= 3
  BY <1>4, <1>5, <1>6
<1> DEFINE l == SubSeq(t, 3, Len(t))
<1>8. l \in Seq(0 .. 9) /\ l # <<>>
  <2>1. 3 \in 1 .. Len(t) + 1 /\ Len(t) \in 3 - 1 .. Len(t)
    BY <1>7
  <2>2. l \in Seq(0 .. 9) /\ Len(l) = Len(t) - 3 + 1
    BY <1>5, <1>7, <2>1
  <2>3. Len(l) # 0
    BY <1>7, <2>2
  <2> HIDE DEF l
  <2> QED BY <2>2, <2>3
<1>9. ParseGas(t) = Parse(l)
  BY DEF ParseGas
<1> HIDE DEF l
<1>10. Head(l) # Minus /\ l \in Seq(Nat)
  BY <1>8 DEF Minus
<1>11. Parse(l) = Value(l)
  BY <1>10 DEF Parse
<1>12. Value(l) \in Nat
  BY <1>10, ValueAppended
<1>13. t \in Seq(Characters)
  BY <1>5 DEF Characters
<1> QED BY <1>2, <1>9, <1>11, <1>12, <1>13

-----------------------------------------------------------------------------
\* What a call costs is a number; the node estimates more than nothing.
LEMMA CostIs ==
  ASSUME maker \in Makers, payload \in Payloads[maker], cost \in Costs
  PROVE  /\ payload \in [zero : Nat, nonzero : Nat] /\ cost \in Nat
         /\ CalculateCalldataCost(payload) \in Nat
         /\ NodeEstimate \in Nat /\ NodeEstimate >= 21000
         /\ NodeEstimate = 21000 + 4 * payload.zero + 16 * payload.nonzero + cost
         /\ CalculateCalldataCost(payload) = 2 * (payload.zero + payload.nonzero) * gtxDataNonZero
<1>1. payload \in [zero : Nat, nonzero : Nat] /\ cost \in Nat
      /\ gtxDataNonZero \in Nat /\ gtxDataZero \in Nat
  BY DetailsAssumption
<1>2. payload.zero \in Nat /\ payload.nonzero \in Nat
  BY <1>1
<1>3. NodeEstimate = 21000 + 4 * payload.zero + 16 * payload.nonzero + cost
  BY DEF NodeEstimate, Intrinsic
<1> DEFINE n == 2 * (payload.zero + payload.nonzero)
<1>4. n \in Nat /\ CalculateCalldataCost(payload) = 0 * gtxDataZero + n * gtxDataNonZero
  BY <1>2 DEF CalculateCalldataCost
<1>5. n * gtxDataNonZero \in Nat /\ 0 * gtxDataZero = 0
  BY <1>1, <1>4
<1>6. CalculateCalldataCost(payload) = n * gtxDataNonZero /\ n * gtxDataNonZero \in Nat
  <2> HIDE DEF n
  <2> QED BY <1>4, <1>5
<1> QED BY <1>1, <1>2, <1>3, <1>6

\* The gas is the estimate, lowered once for each relay; as the README shows it, it is
\* in decimal until it is lowered.
GasOK ==
  \/ stage = "estimate" /\ relays = 0 /\ gas = <<>>
  \/ /\ stage # "estimate" /\ maker # "readme"
     /\ gas = Hex(Lowered(relays))
     /\ relays > 0 => request = Lowered(relays)
  \/ /\ stage # "estimate" /\ maker = "readme"
     /\ IF relays = 0 THEN gas = Text(estimate, 10) ELSE \E g \in Int : gas = Hex(g)

GasInv ==
  /\ maker \in Makers /\ payload \in Payloads[maker] /\ cost \in Costs
  /\ stage \in {"estimate", "block", "price", "made", "threw"}
  /\ estimate \in Nat /\ relays \in Nat /\ blocks \in Nat /\ price \in Nat
  /\ stage # "estimate" => estimate = NodeEstimate
  /\ fees.max \in Int /\ fees.priority \in Int /\ request \in Int
  /\ stage \in {"price", "made"} => block \in Nat /\ base \in Nat
  /\ base \in Nat \cup {Legacy}
  /\ GasOK

LEMMA LoweredIs ==
  ASSUME estimate \in Nat, CalculateCalldataCost(payload) \in Nat, NEW n \in Nat
  PROVE  /\ Lowered(n) \in Int /\ Lowered(n + 1) = Lowered(n) - CalculateCalldataCost(payload)
         /\ Lowered(0) = estimate
<1> DEFINE c == CalculateCalldataCost(payload)
<1>1. c \in Nat
  OBVIOUS
<1> HIDE DEF c
<1>2. \A k \in Nat : Lowered(k) = estimate - k * c
  BY DEF Lowered, c
<1>3. n * c \in Nat /\ (n + 1) * c = n * c + c /\ 0 * c = 0
  BY <1>1
<1> QED BY <1>1, <1>2, <1>3 DEF c

LEMMA GasInit == Init => GasInv
  BY DetailsAssumption DEF Init, GasInv, GasOK, Legacy

\* The steps that leave the gas alone.
LEMMA GasLeft ==
  ASSUME GasInv, UNCHANGED <<maker, payload, cost, estimate, gas, request, relays>>,
         (stage = "estimate" <=> stage' = "estimate")
  PROVE  GasOK'
BY DEF GasInv, GasOK, Lowered

LEMMA EstimatedKeeps == ASSUME GasInv, GasEstimated PROVE GasInv'
<1>1. NodeEstimate \in Nat /\ CalculateCalldataCost(payload) \in Nat
  BY CostIs DEF GasInv
<1>2. /\ stage = "estimate" /\ stage' = "block" /\ relays = 0 /\ estimate' = NodeEstimate
      /\ gas' = IF maker = "readme" THEN Text(NodeEstimate, 10) ELSE Hex(NodeEstimate)
      /\ UNCHANGED <<maker, payload, cost, fees, block, price, request, relays, base, blocks>>
  BY DEF GasInv, GasOK, GasEstimated
<1>3. Lowered(0)' = NodeEstimate
  <2>1. estimate' - 0 * CalculateCalldataCost(payload) = NodeEstimate
    BY <1>1, <1>2
  <2> QED BY <1>2, <2>1 DEF Lowered
<1>4. relays' = 0 /\ Lowered(relays)' = NodeEstimate
  BY <1>2, <1>3 DEF Lowered
<1>5. GasOK'
  BY <1>2, <1>4 DEF GasOK
<1>6. NodeEstimate' = NodeEstimate
  BY <1>2 DEF NodeEstimate
<1> QED BY <1>1, <1>2, <1>5, <1>6 DEF GasInv

LEMMA FeesAreIntegers ==
  ASSUME NEW b \in Int, NEW p \in Int
  PROVE  MaxFee(b, p) \in Int /\ PriorityFee(b, p) \in Int
BY DEF MaxFee, PriorityFee

LEMMA BlockReadKeeps == ASSUME GasInv, BlockRead PROVE GasInv'
<1>1. /\ stage = "block" /\ stage' \in {"threw", "price", "made"} /\ block' = base /\ blocks' = 0
      /\ stage' # "threw" => base # Legacy
      /\ fees' = fees \/ fees' = [max |-> MaxFee(base, FixedTip), priority |-> FixedTip]
      /\ UNCHANGED <<maker, payload, cost, estimate, gas, price, request, relays, base>>
  BY DEF BlockRead
<1>2. base \in Int /\ FixedTip \in Int
  BY DetailsAssumption DEF GasInv, Legacy
<1>3. fees'.max \in Int /\ fees'.priority \in Int
  <2>1. CASE fees' = fees
    BY <2>1 DEF GasInv
  <2>2. CASE fees' = [max |-> MaxFee(base, FixedTip), priority |-> FixedTip]
    BY <1>2, <2>2, FeesAreIntegers
  <2> QED BY <1>1, <2>1, <2>2
<1>4. GasOK'
  BY <1>1, GasLeft
<1>5. NodeEstimate' = NodeEstimate
  BY <1>1 DEF NodeEstimate
<1> QED BY <1>1, <1>3, <1>4, <1>5 DEF GasInv

LEMMA PriceReadKeeps == ASSUME GasInv, PriceRead PROVE GasInv'
<1>1. PICK tip \in Tips :
        /\ price' = base + tip
        /\ fees' = [max |-> MaxFee(block, PriorityFee(base + tip, block)),
                    priority |-> PriorityFee(base + tip, block)]
  BY DEF PriceRead
<1>2. /\ stage = "price" /\ stage' = "made" /\ base \in Nat /\ block \in Nat /\ tip \in Nat
      /\ UNCHANGED <<maker, payload, cost, estimate, gas, block, request, relays, base, blocks>>
  BY DetailsAssumption DEF PriceRead, GasInv
<1>3. price' \in Nat /\ fees'.max \in Int /\ fees'.priority \in Int
  <2>1. base + tip \in Nat
    BY <1>2
  <2> QED BY <1>1, <1>2, <2>1, FeesAreIntegers
<1>4. GasOK'
  BY <1>2, GasLeft
<1>5. NodeEstimate' = NodeEstimate
  BY <1>2 DEF NodeEstimate
<1> QED BY <1>2, <1>3, <1>4, <1>5 DEF GasInv

\* What is in the details is read, lowered and written, in hexadecimal.
LEMMA RequestKeeps == ASSUME GasInv, BuildRelayRequest PROVE GasInv'
<1> DEFINE c == CalculateCalldataCost(payload)
<1>1. /\ stage = "made" /\ relays' = relays + 1 /\ relays \in Nat /\ estimate \in Nat
      /\ gas' = Hex(ParseGas(gas) - c) /\ request' = ParseGas(gas')
      /\ UNCHANGED <<maker, payload, cost, stage, estimate, fees, block, price, base, blocks>>
  BY DEF GasInv, BuildRelayRequest, EstimateGasWithoutCallData
<1>2. c \in Nat /\ NodeEstimate >= 21000
  BY CostIs DEF GasInv
<1>3. ParseGas(gas) \in Int /\ (maker # "readme" => ParseGas(gas) = Lowered(relays))
  <2>1. CASE maker # "readme"
    <3>1. gas = Hex(Lowered(relays))
      BY <1>1, <2>1 DEF GasInv, GasOK
    <3>2. Lowered(relays) \in Int
      BY <1>1, <1>2, LoweredIs
    <3> QED BY <3>1, <3>2, HexParsed
  <2>2. CASE maker = "readme" /\ relays = 0
    <3>1. gas = Text(estimate, 10)
      BY <1>1, <2>2 DEF GasInv, GasOK
    <3>2. estimate \in Nat /\ estimate >= 100
      BY <1>1, <1>2 DEF GasInv
    <3> QED BY <2>2, <3>1, <3>2, DecimalParsed
  <2>3. CASE maker = "readme" /\ relays # 0
    <3>1. PICK g \in Int : gas = Hex(g)
      BY <1>1, <2>3 DEF GasInv, GasOK
    <3> QED BY <2>3, <3>1, HexParsed
  <2> QED BY <2>1, <2>2, <2>3
<1> DEFINE n == ParseGas(gas) - c
<1>4. n \in Int /\ gas' = Hex(n)
  BY <1>1, <1>2, <1>3
<1>5. request' = n
  BY <1>1, <1>4, HexParsed
<1>6. maker # "readme" => n = Lowered(relays + 1)
  BY <1>1, <1>2, <1>3, LoweredIs
<1>7. Lowered(relays)' = Lowered(relays + 1)
  BY <1>1 DEF Lowered
<1> HIDE DEF n
<1>8. GasOK'
  <2>1. CASE maker = "readme"
    <3>1. relays' # 0 /\ \E g \in Int : gas' = Hex(g)
      BY <1>1, <1>4
    <3> QED BY <1>1, <2>1, <3>1 DEF GasOK
  <2>2. CASE maker # "readme"
    BY <1>1, <1>4, <1>5, <1>6, <1>7, <2>2 DEF GasOK
  <2> QED BY <2>1, <2>2
<1>9. NodeEstimate' = NodeEstimate
  BY <1>1 DEF NodeEstimate
<1>10. relays' \in Nat
  BY <1>1
<1> QED BY <1>1, <1>4, <1>5, <1>8, <1>9, <1>10 DEF GasInv

LEMMA NextBlockKeeps == ASSUME GasInv, NextBlock PROVE GasInv'
<1>1. /\ stage \in {"price", "made"} /\ base \in Nat /\ blocks' = blocks + 1 /\ blocks \in Nat
      /\ UNCHANGED <<maker, payload, cost, stage, estimate, gas, fees, block, price, request,
                     relays>>
  BY DEF GasInv, NextBlock, detailVars
<1>2. base' \in Nat
  <2> DEFINE e == base \div 8
  <2>1. e \in Nat /\ e <= base
    BY <1>1
  <2>2. base' = base - e \/ base' = base \/ base' = base + e \/ base' = base + 1
    BY DEF NextBlock
  <2> HIDE DEF e
  <2> QED BY <1>1, <2>1, <2>2
<1>3. GasOK'
  BY <1>1, GasLeft
<1>4. NodeEstimate' = NodeEstimate
  BY <1>1 DEF NodeEstimate
<1> QED BY <1>1, <1>2, <1>3, <1>4 DEF GasInv

LEMMA GasStep == GasInv /\ [Next]_vars => GasInv'
<1> SUFFICES ASSUME GasInv, [Next]_vars PROVE GasInv'
  OBVIOUS
<1>1. CASE UNCHANGED vars
  <2>1. UNCHANGED <<maker, payload, cost, stage, estimate, gas, fees, block, price, request,
                    relays, base, blocks>>
    BY <1>1 DEF vars, detailVars
  <2>2. GasOK'
    BY <2>1, GasLeft
  <2>3. NodeEstimate' = NodeEstimate
    BY <2>1 DEF NodeEstimate
  <2> QED BY <2>1, <2>2, <2>3 DEF GasInv
<1> QED BY <1>1, EstimatedKeeps, BlockReadKeeps, PriceReadKeeps, RequestKeeps, NextBlockKeeps
        DEF Next

LEMMA GasInvariant == Spec => []GasInv
BY GasInit, GasStep, PTL DEF Spec

\* The details and the chain are of their types, for any constants: the text of the gas is
\* one that can be parsed whoever has made it, and no fee is made from a block without one.
THEOREM DetailsTyped == Spec => []TypeOK
<1>1. GasInv => TypeOK
  <2> SUFFICES ASSUME GasInv PROVE TypeOK
    OBVIOUS
  <2>1. gas \in Seq(Characters)
    <3>1. CASE gas = <<>>
      BY <3>1
    <3>2. CASE gas = Hex(Lowered(relays))
      <4>1. CalculateCalldataCost(payload) \in Nat
        BY CostIs DEF GasInv
      <4>2. Lowered(relays) \in Int
        BY <4>1, LoweredIs DEF GasInv
      <4> QED BY <3>2, <4>2, HexParsed
    <3>3. CASE \E g \in Int : gas = Hex(g)
      BY <3>3, HexParsed
    <3>4. CASE stage # "estimate" /\ gas = Text(estimate, 10)
      <4>1. NodeEstimate >= 21000
        BY CostIs DEF GasInv
      <4>2. estimate \in Nat /\ estimate >= 100
        BY <3>4, <4>1 DEF GasInv
      <4> QED BY <3>4, <4>2, DecimalParsed
    <3> QED BY <3>1, <3>2, <3>3, <3>4 DEF GasInv, GasOK
  <2> QED BY <2>1 DEF GasInv, TypeOK
<1> QED BY <1>1, GasInvariant, PTL

\* Where the gas is given in hexadecimal, the request asks for the estimate less the call
\* data's cost for each time the details were relayed, for any call, price of a byte and
\* number of relays.  What is lowered is read from the text that was written before.
THEOREM RequestAsEstimated == Spec => []GasAsEstimated
<1>1. GasInv => GasAsEstimated
  BY DEF GasInv, GasOK, GasAsEstimated
<1> QED BY <1>1, GasInvariant, PTL

\* The SDK's own calls have at most 750 bytes, and a byte costs 16.
ShortCalls ==
  /\ gtxDataNonZero = 16
  /\ \A m \in Makers \cap {"feeData", "metaTransaction"} : \A data \in Payloads[m] :
       data.zero + data.nonzero <= 750

\* The request has the gas the call itself needs, for calls of up to 750 bytes: what they
\* cost when they are counted by characters is not more than what the node's estimate has
\* for them and for the transaction itself.
THEOREM RequestCoversCall == ASSUME ShortCalls PROVE Spec => []GasCoversCall
<1>1. GasInv => GasCoversCall
  <2> SUFFICES ASSUME GasInv, relays = 1, maker \in {"feeData", "metaTransaction"}
               PROVE  request >= cost
    BY DEF GasCoversCall
  <2> DEFINE c == CalculateCalldataCost(payload)
  <2>1. /\ c \in Nat /\ NodeEstimate = 21000 + 4 * payload.zero + 16 * payload.nonzero + cost
        /\ cost \in Nat /\ payload.zero \in Nat /\ payload.nonzero \in Nat
    BY CostIs DEF GasInv
  <2>2. c <= 21000 + 4 * payload.zero + 16 * payload.nonzero
    <3>1. payload.zero + payload.nonzero <= 750 /\ gtxDataNonZero = 16
      BY DEF ShortCalls, GasInv
    <3>2. c = 2 * (payload.zero + payload.nonzero) * 16
      BY <3>1, CostIs DEF GasInv
    <3> HIDE DEF c
    <3> QED BY <2>1, <3>1, <3>2
  <2>3. request = Lowered(1) /\ estimate = NodeEstimate
    BY DEF GasInv, GasOK
  <2> HIDE DEF c
  <2>4. Lowered(1) = estimate - c
    BY <2>1, <2>3 DEF Lowered, c
  <2> QED BY <2>1, <2>2, <2>3, <2>4
<1> QED BY <1>1, GasInvariant, PTL

=============================================================================

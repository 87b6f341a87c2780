------------------------------ MODULE Induction ------------------------------
(***************************************************************************)
(* Induction and recursion over the natural numbers, stated of sets and    *)
(* functions: the provers cannot apply a theorem to an operator, but they  *)
(* can to a set of numbers, and a definition is proved for all numbers by  *)
(* taking the set of those it holds for.                                   *)
(***************************************************************************)
EXTENDS Integers, WellFoundedInduction, TLAPS

LEMMA NatWellFounded == IsWellFoundedOn(OpToRel(<, Nat), Nat)
  BY NatLessThanWellFounded, Zenon

\* A set of numbers has a least one.
LEMMA Smallest ==
  ASSUME NEW S \in SUBSET Nat, S # {}
  PROVE  \E m \in S : \A k \in S : m <= k
<1> DEFINE less == OpToRel(<, Nat)
<1>1. \A x, y \in Nat : x < y => <<x, y>> \in less
  BY DEF OpToRel
<1>2. IsWellFoundedOn(less, Nat)
  BY NatWellFounded
<1> HIDE DEF less
<1>3. PICK m \in S : \A k \in S : ~ (<<k, m>> \in less)
  BY <1>2, WFMin
<1>4. \A k \in S : m <= k
  <2> TAKE k \in S
  <2>1. k \in Nat /\ m \in Nat /\ ~ (k < m)
    BY <1>1, <1>3
  <2> QED BY <2>1
<1> QED BY <1>4

\* Induction.
LEMMA SetInduction ==
  ASSUME NEW S, 0 \in S, \A n \in Nat : n \in S => n + 1 \in S
  PROVE  \A n \in Nat : n \in S
<1> SUFFICES ASSUME Nat \ S # {} PROVE FALSE
  OBVIOUS
<1>1. PICK m \in Nat \ S : \A k \in Nat \ S : m <= k
  BY Smallest
<1>2. m # 0 /\ m - 1 \in Nat /\ m - 1 \in S
  BY <1>1
<1>3. (m - 1) + 1 = m
  BY <1>1
<1> QED BY <1>1, <1>2, <1>3

\* Induction from all smaller numbers.
LEMMA GeneralSetInduction ==
  ASSUME NEW S, \A n \in Nat : (\A k \in 0 .. n - 1 : k \in S) => n \in S
  PROVE  \A n \in Nat : n \in S
<1> SUFFICES ASSUME Nat \ S # {} PROVE FALSE
  OBVIOUS
<1>1. PICK m \in Nat \ S : \A k \in Nat \ S : m <= k
  BY Smallest
<1>2. ASSUME NEW k \in 0 .. m - 1 PROVE k \in S
  BY <1>1
<1> QED BY <1>1, <1>2

-----------------------------------------------------------------------------
(* Primitive recursion: step[i] takes the value at i to the one at i + 1.  *)

\* h is what the recursion makes of the numbers up to n.
Solves(h, n, T, first, step) ==
  /\ h \in [0 .. n -> T]
  /\ h[0] = first
  /\ \A k \in 0 .. n - 1 : h[k + 1] = step[k][h[k]]

\* Two solutions agree where both are defined.
LEMMA SolutionsAgree ==
  ASSUME NEW T, NEW first, NEW step, NEW m \in Nat, NEW n \in Nat, NEW g, NEW h,
         Solves(g, m, T, first, step), Solves(h, n, T, first, step)
  PROVE  \A k \in Nat : k <= m /\ k <= n => g[k] = h[k]
<1> DEFINE S == {k \in Nat : k <= m /\ k <= n => g[k] = h[k]}
<1>1. 0 \in S
  BY DEF Solves
<1>2. ASSUME NEW k \in Nat, k \in S PROVE k + 1 \in S
  <2> SUFFICES ASSUME k + 1 <= m, k + 1 <= n PROVE g[k + 1] = h[k + 1]
    OBVIOUS
  <2>1. k \in 0 .. m - 1 /\ k \in 0 .. n - 1 /\ g[k] = h[k]
    BY <1>2
  <2> QED BY <2>1 DEF Solves
<1> HIDE DEF S
<1>3. \A k \in Nat : k \in S
  BY <1>1, <1>2, SetInduction
<1> QED BY <1>3 DEF S

\* There is a solution.
LEMMA SolutionExists ==
  ASSUME NEW T, NEW first \in T, NEW step \in [Nat -> [T -> T]]
  PROVE  \A n \in Nat : \E h : Solves(h, n, T, first, step)
<1> DEFINE S == {n \in Nat : \E h : Solves(h, n, T, first, step)}
<1>1. 0 \in S
  <2> DEFINE h == [i \in 0 .. 0 |-> first]
  <2>1. Solves(h, 0, T, first, step)
    BY DEF Solves
  <2> QED BY <2>1
<1>2. ASSUME NEW n \in Nat, n \in S PROVE n + 1 \in S
  <2>1. PICK h : Solves(h, n, T, first, step)
    BY <1>2
  <2> DEFINE g == [i \in 0 .. n + 1 |-> IF i = n + 1 THEN step[n][h[n]] ELSE h[i]]
  <2>2. step[n][h[n]] \in T
    BY <2>1 DEF Solves
  <2>3. g \in [0 .. n + 1 -> T]
    BY <2>1, <2>2 DEF Solves
  <2>4. g[0] = first
    BY <2>1 DEF Solves
  <2>5. ASSUME NEW k \in 0 .. n PROVE g[k + 1] = step[k][g[k]]
    <3>1. CASE k = n
      BY <3>1
    <3>2. CASE k # n
      <4>1. k \in 0 .. n - 1 /\ k + 1 \in 0 .. n /\ k + 1 # n + 1 /\ k # n + 1
        BY <3>2
      <4>2. g[k + 1] = h[k + 1] /\ g[k] = h[k]
        BY <4>1
      <4> QED BY <2>1, <4>1, <4>2 DEF Solves
    <3> QED BY <3>1, <3>2
  <2> HIDE DEF g
  <2>6. Solves(g, n + 1, T, first, step)
    BY <2>3, <2>4, <2>5 DEF Solves
  <2> QED BY <2>6
<1> HIDE DEF S
<1>3. \A n \in Nat : n \in S
  BY <1>1, <1>2, SetInduction
<1> QED BY <1>3 DEF S

\* One function for all numbers.
SolvesAll(f, T, first, step) ==
  f \in [Nat -> T] /\ f[0] = first /\ \A n \in Nat : f[n + 1] = step[n][f[n]]

LEMMA PrimitiveRecursion ==
  ASSUME NEW T, NEW first \in T, NEW step \in [Nat -> [T -> T]]
  PROVE  \E f : SolvesAll(f, T, first, step)
<1> DEFINE up == [n \in Nat |-> CHOOSE h : Solves(h, n, T, first, step)]
           f == [n \in Nat |-> up[n][n]]
<1>1. \A n \in Nat : Solves(up[n], n, T, first, step)
  BY SolutionExists
<1> HIDE DEF up
<1>2. \A n \in Nat : f[n] \in T /\ f[n] = up[n][n]
  BY <1>1 DEF Solves
<1>3. f[0] = first
  BY <1>1, <1>2 DEF Solves
<1>4. ASSUME NEW n \in Nat PROVE f[n + 1] = step[n][f[n]]
  <2>1. up[n + 1][n] = up[n][n]
    <3>1. /\ Solves(up[n + 1], n + 1, T, first, step) /\ Solves(up[n], n, T, first, step)
          /\ n + 1 \in Nat /\ n <= n + 1 /\ n <= n
      BY <1>1
    <3> DEFINE g == up[n + 1]
               h == up[n]
               m == n + 1
    <3>2. /\ Solves(g, m, T, first, step) /\ Solves(h, n, T, first, step)
          /\ m \in Nat
      BY <3>1
    <3> HIDE DEF f, g, h, m
    <3>3. \A k \in Nat : k <= m /\ k <= n => g[k] = h[k]
      BY <3>2, SolutionsAgree
    <3>4. g[n] = h[n]
      BY <3>1, <3>3 DEF m
    <3> QED BY <3>4 DEF g, h
  <2>2. n \in 0 .. (n + 1) - 1
    OBVIOUS
  <2>3. up[n + 1][n + 1] = step[n][up[n + 1][n]]
    BY <1>1, <2>2 DEF Solves
  <2> QED BY <1>2, <2>1, <2>3
<1>5. f \in [Nat -> T]
  BY <1>2
<1> HIDE DEF f
<1> QED BY <1>3, <1>4, <1>5 DEF SolvesAll

\* The same step again and again.
Repeats(h, T, first, F) ==
  h \in [Nat -> T] /\ h[0] = first /\ \A n \in Nat : h[n + 1] = F[h[n]]

LEMMA Repetition ==
  ASSUME NEW T, NEW first \in T, NEW F \in [T -> T]
  PROVE  \E h : Repeats(h, T, first, F)
<1> DEFINE step == [k \in Nat |-> F]
<1>1. step \in [Nat -> [T -> T]] /\ \A k \in Nat : step[k] = F
  OBVIOUS
<1> HIDE DEF step
<1>2. PICK h : SolvesAll(h, T, first, step)
  BY <1>1, PrimitiveRecursion
<1>3. Repeats(h, T, first, F)
  BY <1>1, <1>2 DEF SolvesAll, Repeats
<1> QED BY <1>3

-----------------------------------------------------------------------------
(* Recursion from all smaller numbers: F makes a function of a function,   *)
(* and what it makes at n depends on the values below n only.              *)
LooksBelow(F, T) ==
  /\ F \in [[Nat -> T] -> [Nat -> T]]
  /\ \A g, h \in [Nat -> T] : \A n \in Nat :
       (\A i \in 0 .. n - 1 : g[i] = h[i]) => F[g][n] = F[h][n]

FixedPoint(f, F, T) == f \in [Nat -> T] /\ f = F[f]

LEMMA GeneralRecursion ==
  ASSUME NEW T, T # {}, NEW F, LooksBelow(F, T)
  PROVE  \E f : FixedPoint(f, F, T)
<1> DEFINE D == [Nat -> T]
<1>1. PICK a : a \in T
  OBVIOUS
<1>2. \A g, h \in D : \A n \in Nat :
        (\A i \in 0 .. n - 1 : g[i] = h[i]) => F[g][n] = F[h][n]
  BY DEF LooksBelow
<1>3. PICK h \in [Nat -> D] : \A k \in Nat : h[k + 1] = F[h[k]]
  <2> DEFINE none == [x \in Nat |-> a]
  <2>1. none \in D /\ F \in [D -> D]
    BY <1>1 DEF LooksBelow
  <2> HIDE DEF D, none
  <2>2. PICK h : Repeats(h, D, none, F)
    BY <2>1, Repetition
  <2> QED BY <2>2 DEF Repeats
<1>4. \A k \in Nat : \A x \in Nat : x < k => h[k][x] = h[k + 1][x]
  <2> DEFINE S == {k \in Nat : \A x \in Nat : x < k => h[k][x] = h[k + 1][x]}
  <2>1. 0 \in S
    OBVIOUS
  <2>2. ASSUME NEW k \in Nat, k \in S PROVE k + 1 \in S
    <3> SUFFICES ASSUME NEW x \in Nat, x < k + 1 PROVE h[k + 1][x] = h[k + 1 + 1][x]
      OBVIOUS
    <3>1. h[k] \in D /\ h[k + 1] \in D
      BY <1>3
    <3>2. \A i \in 0 .. x - 1 : h[k][i] = h[k + 1][i]
      BY <2>2
    <3>3. F[h[k]][x] = F[h[k + 1]][x]
      <4> HIDE DEF D
      <4> QED BY <1>2, <3>1, <3>2
    <3>4. k + 1 \in Nat
      OBVIOUS
    <3>5. h[k + 1] = F[h[k]] /\ h[k + 1 + 1] = F[h[k + 1]]
      BY <1>3, <3>4
    <3> QED BY <3>3, <3>5
  <2> HIDE DEF S
  <2>3. \A k \in Nat : k \in S
    BY <2>1, <2>2, SetInduction
  <2> QED BY <2>3 DEF S
<1>5. ASSUME NEW x \in Nat PROVE \A k \in Nat : k > x => h[k][x] = h[x + 1][x]
  <2> DEFINE S == {k \in Nat : k > x => h[k][x] = h[x + 1][x]}
  <2>1. 0 \in S
    OBVIOUS
  <2>2. ASSUME NEW k \in Nat, k \in S PROVE k + 1 \in S
    <3>1. CASE k > x
      <4>1. h[k][x] = h[x + 1][x]
        BY <2>2, <3>1
      <4>2. h[k + 1][x] = h[k][x]
        BY <1>4, <3>1
      <4> QED BY <4>1, <4>2
    <3>2. CASE k = x BY <3>2
    <3>3. CASE k < x BY <3>3
    <3> QED BY <3>1, <3>2, <3>3
  <2> HIDE DEF S
  <2>3. \A k \in Nat : k \in S
    BY <2>1, <2>2, SetInduction
  <2> QED BY <2>3 DEF S
<1> DEFINE f == [x \in Nat |-> h[x + 1][x]]
<1>6. f \in D
  BY <1>3
<1>7. ASSUME NEW x \in Nat PROVE F[f][x] = f[x]
  <2>1. \A i \in 0 .. x - 1 : f[i] = h[x][i]
    BY <1>5
  <2>2. F[f][x] = F[h[x]][x]
    <3>1. h[x] \in D
      BY <1>3
    <3>2. \A g \in D : (\A i \in 0 .. x - 1 : f[i] = g[i]) => F[f][x] = F[g][x]
      <4> HIDE DEF f, D
      <4> QED BY <1>2, <1>6
    <3> HIDE DEF f, D
    <3> QED BY <3>1, <3>2, <2>1
  <2> QED BY <1>3, <2>2
<1>8. F[f] \in D
  BY <1>6 DEF LooksBelow
<1> HIDE DEF f
<1>9. f = F[f]
  BY <1>6, <1>7, <1>8
<1> QED BY <1>6, <1>9 DEF FixedPoint

=============================================================================

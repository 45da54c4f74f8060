----------------------------- MODULE Induction -----------------------------
(***************************************************************************)
(* Induction over the natural numbers and definition by recursion, stated  *)
(* about sets and functions.  The models define by recursion what a page   *)
(* shows, what a reply announces and the like; the proofs about them cite  *)
(* these facts.  The library states them about operators, which the        *)
(* provers cannot instantiate.                                             *)
(***************************************************************************)
EXTENDS WellFoundedInduction, FiniteSetTheorems, TLAPS

(* A set of natural numbers that is not empty has a least element.          *)
LEMMA LeastNumber ==
  ASSUME NEW T, T \subseteq Nat, T # {}
  PROVE  \E x \in T : \A y \in T : x <= y
<1> DEFINE R == {ss \in Nat \X Nat : ss[1] < ss[2]}
<1>1. IsWellFoundedOn(R, Nat)
  <2>1. OpToRel(<, Nat) = R
    BY Zenon DEF OpToRel
  <2> QED
    BY <2>1, NatLessThanWellFounded, Zenon
<1>2. \A x, y \in Nat : x < y => <<x, y>> \in R
  OBVIOUS
<1> HIDE DEF R
<1>3. PICK x \in T : \A y \in T : <<y, x>> \notin R
  BY <1>1, WFMin, Zenon
<1>4. \A y \in T : ~ (y < x)
  BY <1>2, <1>3
<1> QED
  BY <1>4

(* A set that has 0 and the successor of each of its numbers has them all.  *)
LEMMA Induction ==
  ASSUME NEW S, 0 \in S, \A n \in Nat : n \in S => n + 1 \in S
  PROVE  \A n \in Nat : n \in S
<1> SUFFICES ASSUME Nat \ S # {} PROVE FALSE
  OBVIOUS
<1>1. PICK x \in Nat \ S : \A y \in Nat \ S : x <= y
  BY LeastNumber
<1>2. x # 0 /\ x - 1 \in Nat /\ x - 1 \in S
  BY <1>1
<1> QED
  BY <1>1, <1>2

(* A rule gives for every number the value that follows from the one before *)
(* it; a function follows the rule from a first value on.                   *)
IsRule(F, S) == F \in [Nat -> [S -> S]]
FollowsRule(g, S, a, F) ==
  /\ g \in [Nat -> S]
  /\ g[0] = a
  /\ \A n \in Nat \ {0} : g[n] = F[n][g[n - 1]]

(* There is a function that follows a rule.                                 *)
LEMMA Recursion ==
  ASSUME NEW S, NEW a \in S, NEW F, IsRule(F, S)
  PROVE  \E g : FollowsRule(g, S, a, F)
<1> USE DEF IsRule, FollowsRule
<1> DEFINE Upto(n) == {g \in [0 .. n -> S] :
                         g[0] = a /\ \A m \in 1 .. n : g[m] = F[m][g[m - 1]]}
           Done == {n \in Nat : Upto(n) # {}}
<1>1. \A n \in Nat : Upto(n) # {}
  <2>1. 0 \in Done
    <3>1. [m \in 0 .. 0 |-> a] \in Upto(0)
      OBVIOUS
    <3> QED
      BY <3>1
  <2>2. ASSUME NEW n \in Nat, n \in Done PROVE n + 1 \in Done
    <3>1. PICK g \in [0 .. n -> S] : g[0] = a /\ \A m \in 1 .. n : g[m] = F[m][g[m - 1]]
      BY <2>2
    <3>2. F[n + 1][g[n]] \in S
      BY <3>1
    <3> DEFINE h == [m \in 0 .. n + 1 |-> IF m = n + 1 THEN F[n + 1][g[n]] ELSE g[m]]
    <3>3. h \in [0 .. n + 1 -> S]
      BY <3>1, <3>2
    <3>4. h[0] = a
      BY <3>1
    <3>5. ASSUME NEW m \in 1 .. n + 1 PROVE h[m] = F[m][h[m - 1]]
      <4>1. CASE m = n + 1
        BY <4>1
      <4>2. CASE m # n + 1
        BY <3>1, <4>2
      <4> QED
        BY <4>1, <4>2
    <3> HIDE DEF h
    <3>6. h \in Upto(n + 1)
      BY <3>3, <3>4, <3>5
    <3> QED
      BY <3>6
  <2> HIDE DEF Done
  <2>3. \A n \in Nat : n \in Done
    BY <2>1, <2>2, Induction
  <2> QED
    BY <2>3 DEF Done
<1>2. ASSUME NEW n \in Nat, NEW k \in Nat, n <= k, NEW g \in Upto(n), NEW h \in Upto(k)
      PROVE  g[n] = h[n]
  <2> DEFINE Same == {m \in Nat : m <= n => g[m] = h[m]}
  <2>1. 0 \in Same
    OBVIOUS
  <2>2. ASSUME NEW m \in Nat, m \in Same PROVE m + 1 \in Same
    BY <1>2, <2>2
  <2> HIDE DEF Same
  <2>3. \A m \in Nat : m \in Same
    BY <2>1, <2>2, Induction
  <2> QED
    BY <2>3 DEF Same
<1> DEFINE f == [n \in Nat |-> CHOOSE g : g \in Upto(n)]
           value == [n \in Nat |-> f[n][n]]
<1>3. \A n \in Nat : f[n] \in Upto(n)
  <2> HIDE DEF Upto
  <2> QED
    BY <1>1
<1> HIDE DEF f
<1>4. value \in [Nat -> S]
  BY <1>3
<1>5. value[0] = a
  BY <1>3
<1>6. ASSUME NEW n \in Nat \ {0} PROVE value[n] = F[n][value[n - 1]]
  <2>1. f[n] \in Upto(n) /\ f[n - 1] \in Upto(n - 1)
    BY <1>3
  <2>2. f[n][n] = F[n][f[n][n - 1]]
    BY <2>1
  <2> HIDE DEF Upto
  <2>3. f[n][n - 1] = f[n - 1][n - 1]
    BY <1>2, <2>1
  <2> QED
    BY <2>2, <2>3
<1> HIDE DEF value
<1> QED
  BY <1>4, <1>5, <1>6

(* The same up to a bound N, as functions on 0 .. N are defined.            *)
LEMMA InductionUpto ==
  ASSUME NEW N \in Nat, NEW S, 0 \in S, \A n \in 1 .. N : n - 1 \in S => n \in S
  PROVE  \A n \in 0 .. N : n \in S
<1> DEFINE T == {n \in Nat : n <= N => n \in S}
<1>1. 0 \in T
  OBVIOUS
<1>2. ASSUME NEW n \in Nat, n \in T PROVE n + 1 \in T
  BY <1>2
<1> HIDE DEF T
<1>3. \A n \in Nat : n \in T
  BY <1>1, <1>2, Induction
<1> QED
  BY <1>3 DEF T

IsRuleUpto(N, F, S) == F \in [1 .. N -> [S -> S]]
FollowsUpto(g, N, S, a, F) ==
  /\ g \in [0 .. N -> S]
  /\ g[0] = a
  /\ \A n \in 1 .. N : g[n] = F[n][g[n - 1]]

LEMMA RecursionUpto ==
  ASSUME NEW N \in Nat, NEW S, NEW a \in S, NEW F, IsRuleUpto(N, F, S)
  PROVE  \E g : FollowsUpto(g, N, S, a, F)
<1> USE DEF IsRuleUpto, FollowsUpto
<1> DEFINE G == [n \in Nat |-> IF n \in 1 .. N THEN F[n] ELSE [s \in S |-> s]]
<1>1. G \in [Nat -> [S -> S]]
  OBVIOUS
<1>2. \A n \in 1 .. N : G[n] = F[n]
  OBVIOUS
<1> HIDE DEF G
<1>3. IsRule(G, S)
  BY <1>1 DEF IsRule
<1>4. PICK g : FollowsRule(g, S, a, G)
  BY <1>3, Recursion
<1> DEFINE h == [n \in 0 .. N |-> g[n]]
<1>5. h \in [0 .. N -> S] /\ h[0] = a
  BY <1>4 DEF FollowsRule
<1>6. ASSUME NEW n \in 1 .. N PROVE h[n] = F[n][h[n - 1]]
  BY <1>2, <1>4 DEF FollowsRule
<1> HIDE DEF h
<1> QED
  BY <1>5, <1>6
=============================================================================

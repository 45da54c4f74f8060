-------------------------- MODULE RpcSocketProofs --------------------------
(***************************************************************************)
(* Proofs about RpcSocket and Api: for any clients, requests and programs, *)
(* every request is in exactly one place until it is answered, a reply is  *)
(* one object, and that to a restart tells what was done.                  *)
(***************************************************************************)
EXTENDS RpcSocket, Induction, SequenceTheorems

-----------------------------------------------------------------------------
(* The replies.  Packed gives the objects missing after every token; the    *)
(* lemmas follow it through the parts a reply is put together from.         *)

Text == {"error", "why", "request", "the request", "danced", "true", "results", "program",
         "process wasn't running", "field", "args", "arg", "instances", "programs", "created"}

Token == [header : {"map", "array"}, size : Nat] \cup [scalar : Text] \cup [number : Int]

LEMMA Tokens ==
  /\ \A n \in Nat : /\ MapOf(n) \in Token /\ ArrayOf(n) \in Token
                    /\ \A m \in Nat \ {0} : /\ Packed(m, MapOf(n)) = (m - 1) + 2 * n
                                            /\ Packed(m, ArrayOf(n)) = (m - 1) + n
  /\ \A x \in Text : Scalar(x) \in Token /\ \A m \in Nat \ {0} : Packed(m, Scalar(x)) = m - 1
  /\ \A i \in Int : Number(i) \in Token /\ \A m \in Nat \ {0} : Packed(m, Number(i)) = m - 1
  /\ \A t \in Token, m \in Int : Packed(m, t) \in Int
<1>1. \A n \in Nat : /\ MapOf(n) \in Token /\ ArrayOf(n) \in Token
                     /\ \A m \in Nat \ {0} : /\ Packed(m, MapOf(n)) = (m - 1) + 2 * n
                                             /\ Packed(m, ArrayOf(n)) = (m - 1) + n
  BY DEF MapOf, ArrayOf, Token, Packed
<1>2. \A x \in Text : Scalar(x) \in Token /\ \A m \in Nat \ {0} : Packed(m, Scalar(x)) = m - 1
  BY DEF Scalar, Token, Packed
<1>3. \A i \in Int : Number(i) \in Token /\ \A m \in Nat \ {0} : Packed(m, Number(i)) = m - 1
  BY DEF Number, Token, Packed
<1>4. \A t \in Token, m \in Int : Packed(m, t) \in Int
  <2> SUFFICES ASSUME NEW t \in Token, NEW m \in Int PROVE Packed(m, t) \in Int
    OBVIOUS
  <2>1. CASE t \in [header : {"map", "array"}, size : Nat]
    <3>1. t.size \in Nat /\ 2 * t.size \in Int
      BY <2>1
    <3> QED
      BY <3>1 DEF Packed
  <2>2. CASE t \in [scalar : Text] \cup [number : Int]
    <3>1. "header" \notin DOMAIN t
      BY <2>2
    <3> QED
      BY <3>1 DEF Packed
  <2> QED
    BY <2>1, <2>2 DEF Token
<1> QED
  BY <1>1, <1>2, <1>3, <1>4

(* What is missing is counted token by token.                               *)
LEMMA MissingSteps ==
  ASSUME NEW s \in Seq(Token), NEW m \in Int
  PROVE  \E left \in [0 .. Len(s) -> Int] :
           /\ left[0] = m /\ Missing(m, s) = left[Len(s)]
           /\ \A n \in 1 .. Len(s) : left[n] = Packed(left[n - 1], s[n])
<1> DEFINE F == [n \in 1 .. Len(s) |-> [k \in Int |-> Packed(k, s[n])]]
           Is(g) == g = [n \in 0 .. Len(s) |-> IF n = 0 THEN m ELSE Packed(g[n - 1], s[n])]
           left == CHOOSE g : Is(g)
<1>1. Len(s) \in Nat /\ \A n \in 1 .. Len(s) : s[n] \in Token
  BY LenProperties
<1>2. F \in [1 .. Len(s) -> [Int -> Int]]
  BY <1>1, Tokens
<1>3. \A n \in 1 .. Len(s), k \in Int : F[n][k] = Packed(k, s[n])
  OBVIOUS
<1> HIDE DEF F
<1>4. PICK g \in [0 .. Len(s) -> Int] :
        g[0] = m /\ \A n \in 1 .. Len(s) : g[n] = F[n][g[n - 1]]
  <2>1. IsRuleUpto(Len(s), F, Int)
    BY <1>2 DEF IsRuleUpto
  <2>2. \E g : FollowsUpto(g, Len(s), Int, m, F)
    BY <1>1, <2>1, RecursionUpto
  <2> QED
    BY <2>2 DEF FollowsUpto
<1>5. \A n \in 1 .. Len(s) : g[n] = Packed(g[n - 1], s[n])
  BY <1>1, <1>3, <1>4
<1>6. Is(g)
  <2>1. \A n \in 0 .. Len(s) : g[n] = IF n = 0 THEN m ELSE Packed(g[n - 1], s[n])
    BY <1>1, <1>4, <1>5
  <2> QED
    BY <2>1
<1>7. Is(left)
  <2> HIDE DEF Is
  <2> QED
    BY <1>6, Zenon
<1>8. Missing(m, s) = left[Len(s)]
  BY Zenon DEF Missing
<1>9. left[0] = m /\ \A n \in 1 .. Len(s) : left[n] = Packed(left[n - 1], s[n])
  <2> HIDE DEF left
  <2> QED
    BY <1>1, <1>7
<1> HIDE DEF left, Is
<1> DEFINE Same == {n \in 0 .. Len(s) : left[n] = g[n]}
<1>10. \A n \in 0 .. Len(s) : n \in Same
  <2>1. 0 \in Same
    BY <1>1, <1>4, <1>9
  <2>2. \A n \in 1 .. Len(s) : n - 1 \in Same => n \in Same
    BY <1>1, <1>5, <1>9
  <2> HIDE DEF Same
  <2> QED
    BY <1>1, <2>1, <2>2, InductionUpto
<1> QED
  BY <1>1, <1>4, <1>5, <1>8, <1>10

LEMMA MissingType ==
  ASSUME NEW s \in Seq(Token), NEW m \in Int
  PROVE  Missing(m, s) \in Int
<1>1. PICK left \in [0 .. Len(s) -> Int] : Missing(m, s) = left[Len(s)]
  BY MissingSteps
<1>2. Len(s) \in 0 .. Len(s)
  BY LenProperties
<1> QED
  BY <1>1, <1>2

(* A reply packed in two parts.                                             *)
LEMMA MissingConcat ==
  ASSUME NEW s \in Seq(Token), NEW t \in Seq(Token), NEW m \in Int
  PROVE  /\ s \o t \in Seq(Token)
         /\ Missing(m, s \o t) = Missing(Missing(m, s), t)
<1> DEFINE st == s \o t
           k == Missing(m, s)
<1>1. /\ st \in Seq(Token) /\ Len(s) \in Nat /\ Len(t) \in Nat /\ Len(st) = Len(s) + Len(t)
      /\ \A n \in 1 .. Len(s) : st[n] = s[n]
      /\ \A n \in 1 .. Len(t) : st[n + Len(s)] = t[n]
  BY ConcatProperties, LenProperties
<1>2. k \in Int
  BY MissingType
<1> HIDE DEF st, k
<1>3. PICK f \in [0 .. Len(s) -> Int] :
        /\ f[0] = m /\ Missing(m, s) = f[Len(s)]
        /\ \A n \in 1 .. Len(s) : f[n] = Packed(f[n - 1], s[n])
  BY MissingSteps
<1>4. PICK g \in [0 .. Len(t) -> Int] :
        /\ g[0] = k /\ Missing(k, t) = g[Len(t)]
        /\ \A n \in 1 .. Len(t) : g[n] = Packed(g[n - 1], t[n])
  BY <1>2, MissingSteps
<1>5. PICK h \in [0 .. Len(st) -> Int] :
        /\ h[0] = m /\ Missing(m, st) = h[Len(st)]
        /\ \A n \in 1 .. Len(st) : h[n] = Packed(h[n - 1], st[n])
  BY <1>1, MissingSteps
<1> DEFINE First == {n \in 0 .. Len(s) : h[n] = f[n]}
           Second == {n \in 0 .. Len(t) : h[n + Len(s)] = g[n]}
<1>6. \A n \in 0 .. Len(s) : n \in First
  <2>1. 0 \in First
    BY <1>1, <1>3, <1>5
  <2>2. ASSUME NEW n \in 1 .. Len(s), n - 1 \in First PROVE n \in First
    <3>1. h[n] = Packed(h[n - 1], s[n]) /\ f[n] = Packed(f[n - 1], s[n])
      BY <1>1, <1>3, <1>5
    <3> QED
      BY <1>1, <2>2, <3>1
  <2> HIDE DEF First
  <2> QED
    BY <1>1, <2>1, <2>2, InductionUpto
<1>7. \A n \in 0 .. Len(t) : n \in Second
  <2>1. 0 \in Second
    BY <1>1, <1>3, <1>4, <1>6 DEF k
  <2>2. ASSUME NEW n \in 1 .. Len(t), n - 1 \in Second PROVE n \in Second
    <3>1. n + Len(s) \in 1 .. Len(st) /\ n + Len(s) - 1 = (n - 1) + Len(s)
      BY <1>1
    <3>2. st[n + Len(s)] = t[n]
      BY <1>1
    <3>3. h[n + Len(s)] = Packed(h[(n - 1) + Len(s)], t[n])
      BY <1>5, <3>1, <3>2
    <3>4. g[n] = Packed(g[n - 1], t[n])
      BY <1>4
    <3> QED
      BY <2>2, <3>3, <3>4
  <2> HIDE DEF Second
  <2> QED
    BY <1>1, <2>1, <2>2, InductionUpto
<1>8. Len(t) \in 0 .. Len(t) /\ Len(st) = Len(t) + Len(s)
  BY <1>1
<1>9. Missing(m, st) = Missing(k, t)
  BY <1>4, <1>5, <1>7, <1>8
<1> QED
  BY <1>1, <1>9 DEF st, k

LEMMA MissingOne ==
  ASSUME NEW x \in Token, NEW m \in Int
  PROVE  <<x>> \in Seq(Token) /\ Missing(m, <<x>>) = Packed(m, x)
<1>1. <<x>> \in Seq(Token) /\ Len(<<x>>) = 1 /\ <<x>>[1] = x
  OBVIOUS
<1> DEFINE s == <<x>>
<1> HIDE DEF s
<1>2. s \in Seq(Token) /\ Len(s) = 1 /\ s[1] = x
  BY <1>1 DEF s
<1>3. PICK f \in [0 .. Len(s) -> Int] :
        /\ f[0] = m /\ Missing(m, s) = f[Len(s)]
        /\ \A n \in 1 .. Len(s) : f[n] = Packed(f[n - 1], s[n])
  BY <1>2, MissingSteps
<1>4. Missing(m, s) = Packed(m, x)
  BY <1>2, <1>3
<1> QED
  BY <1>1, <1>4 DEF s

(* Scalars: one object each.                                                *)
AreScalars(s) == \A n \in 1 .. Len(s), k \in Nat \ {0} : Packed(k, s[n]) = k - 1

LEMMA MissingScalars ==
  ASSUME NEW s \in Seq(Token), NEW m \in Int, Len(s) <= m, AreScalars(s)
  PROVE  Missing(m, s) = m - Len(s)
<1>1. Len(s) \in Nat
  BY LenProperties
<1>2. PICK f \in [0 .. Len(s) -> Int] :
        /\ f[0] = m /\ Missing(m, s) = f[Len(s)]
        /\ \A n \in 1 .. Len(s) : f[n] = Packed(f[n - 1], s[n])
  BY MissingSteps
<1> DEFINE T == {n \in 0 .. Len(s) : f[n] = m - n}
<1>3. 0 \in T
  BY <1>1, <1>2
<1>4. ASSUME NEW n \in 1 .. Len(s), n - 1 \in T PROVE n \in T
  <2>1. f[n - 1] = m - (n - 1) /\ f[n - 1] \in Nat \ {0}
    BY <1>1, <1>4
  <2>2. f[n] = Packed(f[n - 1], s[n])
    BY <1>2
  <2>3. f[n] = f[n - 1] - 1
    BY <2>1, <2>2 DEF AreScalars
  <2> QED
    BY <1>1, <2>1, <2>3
<1> HIDE DEF T
<1>5. \A n \in 0 .. Len(s) : n \in T
  BY <1>1, <1>3, <1>4, InductionUpto
<1> QED
  BY <1>1, <1>2, <1>5 DEF T

-----------------------------------------------------------------------------
(* A reply is put together part by part.                                    *)
Join(s, t) == s \o t
AreParts(S, n, T) == \A k \in 1 .. n : S[k] \in Seq(T)
ArePutTogether(parts, S, n, T) ==
  /\ parts \in [0 .. n -> Seq(T)]
  /\ parts[0] = <<>> /\ Concat(S, n) = parts[n]
  /\ \A k \in 1 .. n : parts[k] = Join(parts[k - 1], S[k])

LEMMA ConcatSteps ==
  ASSUME NEW T, NEW n \in Nat, NEW S, AreParts(S, n, T)
  PROVE  \E parts : ArePutTogether(parts, S, n, T)
<1> DEFINE F == [k \in 1 .. n |-> [s \in Seq(T) |-> Join(s, S[k])]]
           Is(g) == g = [k \in 0 .. n |-> IF k = 0 THEN <<>> ELSE Join(g[k - 1], S[k])]
           parts == CHOOSE g : Is(g)
<1>1. F \in [1 .. n -> [Seq(T) -> Seq(T)]]
  <2>1. \A k \in 1 .. n, s \in Seq(T) : Join(s, S[k]) \in Seq(T)
    BY ConcatProperties DEF Join, AreParts
  <2> QED
    BY <2>1
<1>2. \A k \in 1 .. n, s \in Seq(T) : F[k][s] = Join(s, S[k])
  OBVIOUS
<1> HIDE DEF F
<1>3. PICK g \in [0 .. n -> Seq(T)] :
        g[0] = <<>> /\ \A k \in 1 .. n : g[k] = F[k][g[k - 1]]
  <2>1. IsRuleUpto(n, F, Seq(T)) /\ <<>> \in Seq(T)
    BY <1>1 DEF IsRuleUpto
  <2>2. \E g : FollowsUpto(g, n, Seq(T), <<>>, F)
    BY <2>1, RecursionUpto
  <2> QED
    BY <2>2 DEF FollowsUpto
<1>4. \A k \in 1 .. n : g[k] = Join(g[k - 1], S[k])
  <2>1. \A k \in 1 .. n : g[k - 1] \in Seq(T)
    BY <1>3
  <2> QED
    BY <1>2, <1>3, <2>1
<1>5. Is(g)
  <2>1. ASSUME NEW k \in 0 .. n
        PROVE  g[k] = IF k = 0 THEN <<>> ELSE Join(g[k - 1], S[k])
    <3>1. CASE k = 0
      BY <1>3, <3>1
    <3>2. CASE k # 0
      <4>1. k \in 1 .. n
        BY <3>2
      <4> QED
        BY <1>4, <3>2, <4>1
    <3> QED
      BY <3>1, <3>2
  <2> QED
    BY <2>1
<1>6. Is(parts)
  <2> HIDE DEF Is
  <2> QED
    BY <1>5, Zenon
<1>7. Concat(S, n) = parts[n]
  BY Zenon DEF Concat, Join
<1>8. parts[0] = <<>> /\ \A k \in 1 .. n : parts[k] = Join(parts[k - 1], S[k])
  <2> HIDE DEF parts
  <2> QED
    BY <1>6
<1> HIDE DEF parts, Is
<1> DEFINE Same == {k \in 0 .. n : parts[k] = g[k]}
<1>9. \A k \in 0 .. n : k \in Same
  <2>1. 0 \in Same
    BY <1>3, <1>8
  <2>2. ASSUME NEW k \in 1 .. n, k - 1 \in Same PROVE k \in Same
    BY <1>4, <1>8, <2>2
  <2> HIDE DEF Same
  <2> QED
    BY <2>1, <2>2, InductionUpto
<1>10. Concat(S, n) = g[n]
  BY <1>7, <1>9
<1>11. ArePutTogether(g, S, n, T)
  BY <1>3, <1>4, <1>10 DEF ArePutTogether
<1> QED
  BY <1>11

LEMMA ConcatType ==
  ASSUME NEW T, NEW n \in Nat, NEW S, AreParts(S, n, T)
  PROVE  Concat(S, n) \in Seq(T)
<1>1. PICK parts : ArePutTogether(parts, S, n, T)
  BY ConcatSteps
<1> QED
  BY <1>1 DEF ArePutTogether

(* Parts that are one entry of a map each: together they are as many        *)
(* entries as there are parts.                                              *)
LEMMA MissingParts ==
  ASSUME NEW n \in Nat, NEW S, AreParts(S, n, Token), NEW m \in Nat,
         \A k \in 1 .. n, x \in Nat : x >= 2 => Missing(x, S[k]) = x - 2
  PROVE  Missing(m + 2 * n, Concat(S, n)) = m
<1>1. PICK parts : ArePutTogether(parts, S, n, Token)
  BY ConcatSteps
<1> USE DEF ArePutTogether
<1> DEFINE T == {k \in 0 .. n : Missing(m + 2 * n, parts[k]) = m + 2 * n - 2 * k}
<1>2. 0 \in T
  <2>1. <<>> \in Seq(Token) /\ Len(<<>>) = 0 /\ AreScalars(<<>>)
    BY DEF AreScalars
  <2>2. Missing(m + 2 * n, <<>>) = m + 2 * n - Len(<<>>)
    <3> DEFINE e == <<>>
               x == m + 2 * n
    <3>1. e \in Seq(Token) /\ Len(e) <= x /\ AreScalars(e) /\ x \in Int
      BY <2>1
    <3> HIDE DEF e, x
    <3>2. Missing(x, e) = x - Len(e)
      BY <3>1, MissingScalars
    <3> QED
      BY <3>2 DEF e, x
  <2> QED
    BY <1>1, <2>1, <2>2
<1>3. ASSUME NEW k \in 1 .. n, k - 1 \in T PROVE k \in T
  <2> DEFINE x == Missing(m + 2 * n, parts[k - 1])
  <2>1. x = m + 2 * n - 2 * (k - 1) /\ x \in Nat /\ x >= 2
    BY <1>3
  <2>2. parts[k] = Join(parts[k - 1], S[k]) /\ parts[k - 1] \in Seq(Token)
    BY <1>1
  <2>3. Missing(m + 2 * n, parts[k]) = Missing(x, S[k])
    BY <2>2, MissingConcat DEF Join, AreParts
  <2> HIDE DEF x
  <2>4. Missing(m + 2 * n, parts[k]) = x - 2
    BY <2>1, <2>3
  <2> QED
    BY <2>1, <2>4
<1> HIDE DEF T
<1>4. \A k \in 0 .. n : k \in T
  BY <1>2, <1>3, InductionUpto
<1> QED
  BY <1>1, <1>4 DEF T

(* Parts of which only one has anything in it.                              *)
OnlyOne(S, n, j) == \A k \in 1 .. n : k # j => S[k] = <<>>

LEMMA OnlyPart ==
  ASSUME NEW T, NEW n \in Nat, NEW S, AreParts(S, n, T),
         NEW j \in 1 .. n, OnlyOne(S, n, j)
  PROVE  Concat(S, n) = S[j]
<1>1. PICK parts : ArePutTogether(parts, S, n, T)
  BY ConcatSteps
<1> USE DEF ArePutTogether
<1> DEFINE D == {k \in 0 .. n : parts[k] = IF k < j THEN <<>> ELSE S[j]}
<1>2. 0 \in D
  BY <1>1
<1>3. ASSUME NEW k \in 1 .. n, k - 1 \in D PROVE k \in D
  <2>1. parts[k] = Join(parts[k - 1], S[k]) /\ S[k] \in Seq(T)
    BY <1>1 DEF AreParts
  <2>2. \A s \in Seq(T) : Join(s, <<>>) = s /\ Join(<<>>, s) = s
    BY ConcatEmptySeq DEF Join
  <2>3. parts[k - 1] \in Seq(T) /\ parts[k - 1] = IF k - 1 < j THEN <<>> ELSE S[j]
    BY <1>1, <1>3
  <2> HIDE DEF ArePutTogether
  <2>4. CASE k < j
    <3>1. S[k] = <<>> /\ parts[k - 1] = <<>>
      BY <2>3, <2>4 DEF OnlyOne
    <3>2. parts[k] = <<>>
      BY <2>1, <2>2, <3>1
    <3> QED
      BY <2>4, <3>2
  <2>5. CASE k = j
    <3>1. parts[k - 1] = <<>>
      BY <2>3, <2>5
    <3> QED
      BY <2>1, <2>2, <2>5, <3>1
  <2>6. CASE k > j
    <3>1. S[k] = <<>> /\ parts[k - 1] = S[j]
      BY <2>3, <2>6 DEF OnlyOne
    <3> QED
      BY <2>1, <2>2, <2>3, <2>6, <3>1
  <2> QED
    BY <2>4, <2>5, <2>6
<1> HIDE DEF D
<1>4. \A k \in 0 .. n : k \in D
  BY <1>2, <1>3, InductionUpto
<1>5. n \in D /\ ~(n < j)
  BY <1>4
<1> HIDE DEF ArePutTogether
<1>6. parts[n] = S[j]
  BY <1>5 DEF D
<1> QED
  BY <1>1, <1>6 DEF ArePutTogether

-----------------------------------------------------------------------------
LEMMA MissingTwo ==
  ASSUME NEW x \in Token, NEW y \in Token, NEW m \in Int
  PROVE  <<x, y>> \in Seq(Token) /\ Missing(m, <<x, y>>) = Packed(Packed(m, x), y)
<1> DEFINE s == <<x, y>>
<1>1. s \in Seq(Token) /\ Len(s) = 2 /\ s[1] = x /\ s[2] = y
  OBVIOUS
<1> HIDE DEF s
<1>2. PICK f \in [0 .. Len(s) -> Int] :
        /\ f[0] = m /\ Missing(m, s) = f[Len(s)]
        /\ \A n \in 1 .. Len(s) : f[n] = Packed(f[n - 1], s[n])
  BY <1>1, MissingSteps
<1>3. f[1] = Packed(m, x)
  BY <1>1, <1>2
<1>4. f[2] = Packed(f[1], y)
  BY <1>1, <1>2
<1>5. Missing(m, s) = Packed(Packed(m, x), y)
  BY <1>1, <1>2, <1>3, <1>4
<1> QED
  BY <1>1, <1>5 DEF s

LEMMA MissingThree ==
  ASSUME NEW x \in Token, NEW y \in Token, NEW z \in Token, NEW m \in Int
  PROVE  /\ <<x, y, z>> \in Seq(Token)
         /\ Missing(m, <<x, y, z>>) = Packed(Packed(Packed(m, x), y), z)
<1> DEFINE s == <<x, y, z>>
<1>1. s \in Seq(Token) /\ Len(s) = 3 /\ s[1] = x /\ s[2] = y /\ s[3] = z
  OBVIOUS
<1> HIDE DEF s
<1>2. PICK f \in [0 .. Len(s) -> Int] :
        /\ f[0] = m /\ Missing(m, s) = f[Len(s)]
        /\ \A n \in 1 .. Len(s) : f[n] = Packed(f[n - 1], s[n])
  BY <1>1, MissingSteps
<1>3. f[1] = Packed(m, x)
  BY <1>1, <1>2
<1>4. f[2] = Packed(f[1], y)
  BY <1>1, <1>2
<1>5. f[3] = Packed(f[2], z)
  BY <1>1, <1>2
<1>6. Missing(m, s) = Packed(Packed(Packed(m, x), y), z)
  BY <1>1, <1>2, <1>3, <1>4, <1>5
<1> QED
  BY <1>1, <1>6 DEF s

LEMMA FieldsAreScalars ==
  ASSUME NEW n \in Nat
  PROVE  Fields(n) \in Seq(Token) /\ Len(Fields(n)) = 2 * n /\ AreScalars(Fields(n))
<1>1. 2 * n \in Nat
  OBVIOUS
<1>2. Scalar("field") \in Token
  <2>1. "field" \in Text
    BY DEF Text
  <2> QED
    BY <2>1, Tokens, Zenon
<1>3. Fields(n) \in Seq(Token) /\ Len(Fields(n)) = 2 * n
  BY <1>1, <1>2 DEF Fields
<1>4. \A k \in 1 .. Len(Fields(n)) : Fields(n)[k] = Scalar("field")
  BY <1>3 DEF Fields
<1>5. \A k \in Nat \ {0} : Packed(k, Scalar("field")) = k - 1
  BY DEF Scalar, Packed
<1> QED
  BY <1>3, <1>4, <1>5 DEF AreScalars

(* Packing s, with x objects missing before and y after it.                 *)
Leads(x, s, y) == x \in Int /\ s \in Seq(Token) /\ y \in Int /\ Missing(x, s) = y

LEMMA LeadsConcat ==
  ASSUME NEW x, NEW s, NEW y, NEW t, NEW z, Leads(x, s, y), Leads(y, t, z)
  PROVE  Leads(x, s \o t, z)
BY MissingConcat DEF Leads

LEMMA LeadsTwo ==
  ASSUME NEW x \in Int, NEW a \in Token, NEW b \in Token, NEW y,
         y = Packed(Packed(x, a), b)
  PROVE  Leads(x, <<a, b>>, y)
<1>1. Packed(x, a) \in Int
  BY Tokens
<1>2. y \in Int
  BY <1>1, Tokens
<1> QED
  BY <1>2, MissingTwo DEF Leads

LEMMA LeadsScalars ==
  ASSUME NEW s \in Seq(Token), AreScalars(s), NEW x \in Int, NEW y \in Int,
         Len(s) <= x, y = x - Len(s)
  PROVE  Leads(x, s, y)
BY MissingScalars DEF Leads

(* The headers of an instance and of a program count what follows them.     *)
LEMMA InstanceStatusIsOneEntry ==
  ASSUME NEW k \in Nat, NEW x \in Nat, x >= 2, NEW y, y = x - 2
  PROVE  Leads(x, <<Number(k), MapOf(5)>> \o Fields(5), y)
<1> DEFINE a == Number(k)
           b == MapOf(5)
           s == <<a, b>>
           f == Fields(5)
           z == x + 8
<1>1. a \in Token /\ b \in Token /\ z = Packed(Packed(x, a), b)
  BY DEF Number, MapOf, Packed, Token
<1>2. f \in Seq(Token) /\ Len(f) = 10 /\ AreScalars(f)
  <2>1. 5 \in Nat /\ 2 * 5 = 10
    OBVIOUS
  <2>2. 5 \in Nat => f \in Seq(Token) /\ Len(f) = 2 * 5 /\ AreScalars(f)
    BY FieldsAreScalars, Zenon
  <2> HIDE DEF f
  <2> QED
    BY <2>1, <2>2
<1> HIDE DEF a, b, f
<1>3. z \in Int /\ Len(f) <= z /\ y = z - Len(f) /\ y \in Int
  BY <1>2
<1> HIDE DEF z
<1>4. Leads(x, s, z)
  BY <1>1, LeadsTwo
<1>5. Leads(z, f, y)
  BY <1>2, <1>3, LeadsScalars
<1> HIDE DEF s
<1>6. Leads(x, s \o f, y)
  BY <1>4, <1>5, LeadsConcat
<1> QED
  BY <1>6 DEF s, a, b, f

LEMMA ProgramsType ==
  ASSUME NEW p \in DOMAIN Programs
  PROVE  Programs[p].nprocs \in Nat /\ Programs[p].args_len \in Nat
<1>1. p \in 1 .. Len(Programs) /\ Programs \in [1 .. Len(Programs) ->
                                                [name : Seq(STRING), nprocs : Nat, args_len : Nat]]
  BY ApiAssumption, LenProperties
<1>2. Programs[p] \in [name : Seq(STRING), nprocs : Nat, args_len : Nat]
  BY <1>1
<1> QED
  BY <1>2

(* Entries that follow each other, as many as the header announced.         *)
IsOneEntry(s) == s \in Seq(Token) /\ \A x \in Nat, y \in Nat : x = y + 2 => Leads(x, s, y)

LEMMA LeadsEntries ==
  ASSUME NEW n \in Nat, NEW S, \A k \in 1 .. n : IsOneEntry(S[k]),
         NEW x, NEW y \in Nat, x = y + 2 * n
  PROVE  Leads(x, Concat(S, n), y)
<1>1. AreParts(S, n, Token)
  BY DEF IsOneEntry, AreParts
<1>2. \A k \in 1 .. n, v \in Nat : v >= 2 => Missing(v, S[k]) = v - 2
  <2> SUFFICES ASSUME NEW k \in 1 .. n, NEW v \in Nat, v >= 2
               PROVE  Missing(v, S[k]) = v - 2
    OBVIOUS
  <2> DEFINE w == v - 2
  <2>1. w \in Nat /\ v = w + 2
    OBVIOUS
  <2> HIDE DEF w
  <2>2. Leads(v, S[k], w)
    BY <2>1 DEF IsOneEntry
  <2> QED
    BY <2>2 DEF Leads, w
<1>3. Missing(y + 2 * n, Concat(S, n)) = y
  BY <1>1, <1>2, MissingParts
<1>4. Concat(S, n) \in Seq(Token)
  BY <1>1, ConcatType
<1> QED
  BY <1>3, <1>4 DEF Leads

LEMMA ProgramStatusIsOneEntry ==
  ASSUME NEW p \in DOMAIN Programs
  PROVE  IsOneEntry(ProgramStatus(p))
<1> DEFINE n == Programs[p].nprocs
           len == Programs[p].args_len
           arg == [k \in 1 .. len |-> Scalar("arg")]
           each == [k \in 1 .. n |-> <<Number(k - 1), MapOf(5)>> \o Fields(5)]
           a1 == Scalar("program")
           a2 == StatusHeader
           b1 == Scalar("args")
           b2 == ArrayOf(len)
           c1 == Scalar("instances")
           c2 == MapOf(n)
<1>1. n \in Nat /\ len \in Nat
  BY ProgramsType
<1> HIDE DEF n, len
<1>2. a1 \in Token /\ b1 \in Token /\ c1 \in Token
  BY Zenon, Tokens DEF Text
<1>3. a2 \in Token /\ b2 \in Token /\ c2 \in Token
  BY <1>1 DEF StatusHeader, MapOf, ArrayOf, Token
<1>4. Fields(1) \in Seq(Token) /\ Len(Fields(1)) = 2 /\ AreScalars(Fields(1))
  <2>1. 1 \in Nat /\ 2 * 1 = 2
    OBVIOUS
  <2>2. 1 \in Nat => Fields(1) \in Seq(Token) /\ Len(Fields(1)) = 2 * 1 /\ AreScalars(Fields(1))
    BY FieldsAreScalars, Zenon
  <2> QED
    BY <2>1, <2>2
<1>5. Fields(5) \in Seq(Token) /\ Len(Fields(5)) = 10 /\ AreScalars(Fields(5))
  <2>1. 5 \in Nat /\ 2 * 5 = 10
    OBVIOUS
  <2>2. 5 \in Nat => Fields(5) \in Seq(Token) /\ Len(Fields(5)) = 2 * 5 /\ AreScalars(Fields(5))
    BY FieldsAreScalars, Zenon
  <2> QED
    BY <2>1, <2>2
<1>6. arg \in Seq(Token) /\ Len(arg) = len /\ AreScalars(arg)
  <2>1. Scalar("arg") \in Token /\ \A k \in Nat \ {0} : Packed(k, Scalar("arg")) = k - 1
    BY Zenon, Tokens DEF Text
  <2> DEFINE a == Scalar("arg")
             r == [k \in 1 .. len |-> a]
  <2> HIDE DEF a
  <2>2. r \in Seq(Token) /\ Len(r) = len /\ \A k \in 1 .. Len(r) : r[k] = a
    BY <1>1, <2>1 DEF a
  <2> HIDE DEF r
  <2>3. AreScalars(r)
    BY <2>1, <2>2 DEF AreScalars, a
  <2> QED
    BY <2>2, <2>3 DEF r, a
<1>7. \A k \in 1 .. n : IsOneEntry(each[k])
  <2> SUFFICES ASSUME NEW k \in 1 .. n PROVE IsOneEntry(each[k])
    OBVIOUS
  <2> DEFINE i == k - 1
             s == <<Number(i), MapOf(5)>> \o Fields(5)
  <2>1. each[k] = s /\ i \in Nat
    BY <1>1
  <2> HIDE DEF each, i
  <2>2. \A x \in Nat, y \in Nat : x = y + 2 => Leads(x, s, y)
    <3> SUFFICES ASSUME NEW x \in Nat, NEW y \in Nat, x = y + 2 PROVE Leads(x, s, y)
      OBVIOUS
    <3>1. x >= 2 /\ y = x - 2
      OBVIOUS
    <3> QED
      BY <2>1, <3>1, InstanceStatusIsOneEntry
  <2>3. s \in Seq(Token)
    <3>1. 0 \in Nat /\ 2 \in Nat /\ 2 = 0 + 2
      OBVIOUS
    <3>2. Leads(2, s, 0)
      BY <2>2, <3>1, Zenon
    <3> QED
      BY <3>2, Zenon DEF Leads
  <2> HIDE DEF s
  <2> QED
    BY <2>1, <2>2, <2>3 DEF IsOneEntry
<1> SUFFICES /\ ProgramStatus(p) \in Seq(Token)
             /\ \A x \in Nat, y \in Nat : x = y + 2 => Leads(x, ProgramStatus(p), y)
  BY DEF IsOneEntry
<1>8. ASSUME NEW x \in Nat, NEW y \in Nat, x = y + 2
      PROVE  Leads(x, ProgramStatus(p), y)
  <2> DEFINE x1 == y + 16
             x2 == y + 14
             x3 == y + 12 + len
             x4 == y + 12
             x5 == y + 2
             x6 == y + 2 * n
             f1 == Fields(1)
             f5 == Fields(5)
             total == Concat(each, n)
  <2>1. /\ x1 = Packed(Packed(x, a1), a2) /\ x3 = Packed(Packed(x2, b1), b2)
        /\ x6 = Packed(Packed(x5, c1), c2)
    BY <1>1, <1>8 DEF Scalar, StatusHeader, MapOf, ArrayOf, Packed
  <2>2. /\ x \in Int /\ x1 \in Int /\ x2 \in Int /\ x3 \in Int /\ x4 \in Int /\ x5 \in Int
        /\ x6 \in Int
    BY <1>1
  <2>3. Leads(x, <<a1, a2>>, x1) /\ Leads(x2, <<b1, b2>>, x3) /\ Leads(x5, <<c1, c2>>, x6)
    <3> HIDE DEF a1, a2, b1, b2, c1, c2, x1, x2, x3, x5, x6
    <3> QED
      BY <1>2, <1>3, <2>1, <2>2, LeadsTwo
  <2>4. Leads(x1, f1, x2)
    <3> HIDE DEF f1
    <3>1. f1 \in Seq(Token) /\ AreScalars(f1) /\ Len(f1) = 2
      BY <1>4 DEF f1
    <3>2. Len(f1) <= x1 /\ x2 = x1 - Len(f1)
      BY <3>1
    <3> HIDE DEF x1, x2
    <3> QED
      BY <2>2, <3>1, <3>2, LeadsScalars
  <2>5. Leads(x3, arg, x4)
    <3> HIDE DEF arg
    <3>1. Len(arg) <= x3 /\ x4 = x3 - Len(arg)
      BY <1>1, <1>6
    <3> HIDE DEF x3, x4
    <3> QED
      BY <1>6, <2>2, <3>1, LeadsScalars
  <2>6. Leads(x4, f5, x5)
    <3> HIDE DEF f5
    <3>1. f5 \in Seq(Token) /\ AreScalars(f5) /\ Len(f5) = 10
      BY <1>5 DEF f5
    <3>2. Len(f5) <= x4 /\ x5 = x4 - Len(f5)
      BY <3>1
    <3> HIDE DEF x4, x5
    <3> QED
      BY <2>2, <3>1, <3>2, LeadsScalars
  <2>7. Leads(x6, total, y)
    <3>1. x6 = y + 2 * n
      OBVIOUS
    <3> HIDE DEF x6, each
    <3> QED
      BY <1>1, <1>7, <3>1, LeadsEntries
  <2>8. ProgramStatus(p) =
          <<a1, a2>> \o f1 \o <<b1, b2>> \o arg \o f5 \o <<c1, c2>> \o total
    BY Zenon DEF ProgramStatus, n, len
  <2> HIDE DEF a1, a2, b1, b2, c1, c2, x1, x2, x3, x4, x5, x6, f1, f5, arg, total
  <2>9. Leads(x, <<a1, a2>> \o f1, x2)
    BY <2>3, <2>4, LeadsConcat, Zenon
  <2>10. Leads(x, <<a1, a2>> \o f1 \o <<b1, b2>>, x3)
    BY <2>3, <2>9, LeadsConcat, Zenon
  <2>11. Leads(x, <<a1, a2>> \o f1 \o <<b1, b2>> \o arg, x4)
    BY <2>5, <2>10, LeadsConcat, Zenon
  <2>12. Leads(x, <<a1, a2>> \o f1 \o <<b1, b2>> \o arg \o f5, x5)
    BY <2>6, <2>11, LeadsConcat, Zenon
  <2>13. Leads(x, <<a1, a2>> \o f1 \o <<b1, b2>> \o arg \o f5 \o <<c1, c2>>, x6)
    BY <2>3, <2>12, LeadsConcat, Zenon
  <2>14. Leads(x, <<a1, a2>> \o f1 \o <<b1, b2>> \o arg \o f5 \o <<c1, c2>> \o total, y)
    BY <2>7, <2>13, LeadsConcat, Zenon
  <2> QED
    BY <2>8, <2>14, Zenon
<1>9. ProgramStatus(p) \in Seq(Token)
  <2>1. 0 \in Nat /\ 2 \in Nat /\ 2 = 0 + 2
    OBVIOUS
  <2>2. Leads(2, ProgramStatus(p), 0)
    BY <1>8, <2>1, Zenon
  <2> QED
    BY <2>2, Zenon DEF Leads
<1> QED
  BY <1>8, <1>9

LEMMA LeadsThree ==
  ASSUME NEW x \in Int, NEW a \in Token, NEW b \in Token, NEW c \in Token, NEW y,
         y = Packed(Packed(Packed(x, a), b), c)
  PROVE  Leads(x, <<a, b, c>>, y)
<1>1. Packed(x, a) \in Int
  BY Tokens
<1>2. Packed(Packed(x, a), b) \in Int
  BY <1>1, Tokens
<1>3. y \in Int
  BY <1>2, Tokens
<1> QED
  BY <1>3, MissingThree DEF Leads

(* The replies, one by one.  A reply is one object if it leads from one     *)
(* object missing to none.                                                  *)
LEMMA StatusIsOneObject ==
  ASSUME NEW obj, Got(obj_get(obj, program, "raw")) =>
                    Named(obj_get(obj, program, "raw")) = DOMAIN Programs
  PROVE  IsOneObject(api_request_status(obj))
<1> DEFINE n == Len(Programs)
           each == [p \in DOMAIN Programs |->
                      IF Got(obj_get(obj, program, "raw"))
                           /\ p \notin Named(obj_get(obj, program, "raw")) THEN <<>>
                      ELSE ProgramStatus(p)]
           a == MapOf(1)
           b == Scalar("programs")
           c == MapOf(n)
           x == 1
           y == 2 * n
           z == 0
           total == Concat(each, n)
<1>1. n \in Nat /\ DOMAIN Programs = 1 .. n
  BY ApiAssumption, LenProperties
<1>2. \A k \in 1 .. n : IsOneEntry(each[k])
  <2>1. \A k \in 1 .. n : each[k] = ProgramStatus(k)
    BY <1>1
  <2> HIDE DEF each
  <2> QED
    BY <1>1, <2>1, ProgramStatusIsOneEntry
<1>3. a \in Token /\ c \in Token /\ b \in Token
  <2>1. b \in Token
    BY Zenon, Tokens DEF Text
  <2> HIDE DEF n
  <2> QED
    BY <1>1, <2>1 DEF MapOf, Token
<1>4. x \in Int /\ y \in Int /\ z \in Nat /\ y = Packed(Packed(Packed(x, a), b), c)
  BY <1>1 DEF MapOf, Scalar, Packed
<1>5. y = z + 2 * n
  BY <1>1
<1>6. api_request_status(obj) = <<a, b, c>> \o total
  BY Zenon DEF api_request_status
<1> HIDE DEF a, b, c, x, y, z, each, n
<1>7. Leads(x, <<a, b, c>>, y)
  BY <1>3, <1>4, LeadsThree
<1>8. Leads(y, total, z)
  BY <1>1, <1>2, <1>4, <1>5, LeadsEntries
<1> HIDE DEF total
<1>9. Leads(x, <<a, b, c>> \o total, z)
  BY <1>7, <1>8, LeadsConcat, Zenon
<1> QED
  BY <1>6, <1>9, Zenon DEF Leads, IsOneObject, x, z

(* The results of one program, with the header chosen by inst.              *)
LEMMA ResultsAreEntries ==
  ASSUME NEW p \in DOMAIN Programs, NEW inst \in -1 .. Programs[p].nprocs - 1, NEW live
  PROVE  Leads(1, <<MapOf(1), Scalar("program"), RestartHeader(p, inst)>>
                    \o RestartResults(p, inst, live), 0)
<1> DEFINE n == Programs[p].nprocs
           result(i) == <<Number(i), Scalar(IF <<p, i>> \in live THEN "true"
                                            ELSE NotRunning)>>
           each == [k \in 1 .. n |-> LET i == k - 1
                                     IN IF ~Chosen(inst, i) THEN <<>> ELSE result(i)]
           size == IF inst = -1 THEN n ELSE 1
           a == MapOf(1)
           b == Scalar("program")
           c == MapOf(size)
           x == 1
           y == 2 * size
           z == 0
           total == Concat(each, n)
<1>1. n \in Nat
  BY ProgramsType
<1>2. \A i \in Nat : IsOneEntry(result(i))
  <2> SUFFICES ASSUME NEW i \in Nat PROVE IsOneEntry(result(i))
    OBVIOUS
  <2> DEFINE text == IF <<p, i>> \in live THEN "true" ELSE NotRunning
             d == Number(i)
             e == Scalar(text)
  <2>1. text \in Text
    BY Zenon DEF Text, NotRunning
  <2> HIDE DEF text
  <2>2. d \in Token /\ e \in Token
    BY <2>1, Tokens
  <2>3. \A v \in Nat, w \in Nat : v = w + 2 => w = Packed(Packed(v, d), e)
    BY DEF Number, Scalar, Packed
  <2> DEFINE s == <<d, e>>
  <2> HIDE DEF d, e
  <2>4. \A v \in Nat, w \in Nat : v = w + 2 => Leads(v, s, w)
    <3> SUFFICES ASSUME NEW v \in Nat, NEW w \in Nat, v = w + 2 PROVE Leads(v, s, w)
      OBVIOUS
    <3>1. w = Packed(Packed(v, d), e) /\ v \in Int
      BY <2>3
    <3> QED
      BY <2>2, <3>1, LeadsTwo
  <2>5. s \in Seq(Token)
    BY <2>2
  <2> HIDE DEF s
  <2>6. IsOneEntry(s)
    BY <2>4, <2>5 DEF IsOneEntry
  <2> QED
    BY <2>6, Zenon DEF s, d, e, text
<1>3. c \in Token /\ a \in Token /\ b \in Token
  <2>1. b \in Token
    BY Zenon, Tokens DEF Text
  <2>2. size \in Nat /\ 1 \in Nat
    BY <1>1
  <2> HIDE DEF size
  <2> QED
    BY <2>1, <2>2 DEF MapOf, Token
<1>4. x \in Int /\ y \in Int /\ z \in Nat /\ y = Packed(Packed(Packed(x, a), b), c)
  <2>1. size \in Nat
    BY <1>1
  <2> HIDE DEF size
  <2> QED
    BY <2>1 DEF MapOf, Scalar, Packed
<1>5. Leads(x, <<a, b, c>>, y)
  <2> HIDE DEF a, b, c, x, y
  <2> QED
    BY <1>3, <1>4, LeadsThree
<1> HIDE DEF result
<1>6. Leads(y, total, z)
  <2>1. CASE inst = -1
    <3>1. \A k \in 1 .. n : each[k] = result(k - 1) /\ k - 1 \in Nat
      BY <1>1, <2>1 DEF Chosen
    <3>2. y = z + 2 * n
      BY <1>1, <2>1
    <3> HIDE DEF each, y, z, n
    <3>3. \A k \in 1 .. n : IsOneEntry(each[k])
      BY <1>1, <1>2, <3>1
    <3> QED
      BY <1>1, <1>4, <3>2, <3>3, LeadsEntries
  <2>2. CASE inst # -1
    <3> DEFINE j == inst + 1
    <3>1. inst \in Nat /\ j \in 1 .. n /\ j - 1 = inst
      BY <1>1, <2>2
    <3>2. \A k \in 1 .. n : each[k] = IF k = j THEN result(inst) ELSE <<>>
      BY <1>1, <3>1 DEF Chosen
    <3>3. y = z + 2
      BY <2>2
    <3> HIDE DEF each, j
    <3>4. result(inst) \in Seq(Token) /\ Leads(y, result(inst), z)
      <4>1. IsOneEntry(result(inst))
        BY <1>2, <3>1
      <4>2. y \in Nat /\ z \in Nat
        BY <3>3
      <4> HIDE DEF y, z
      <4> QED
        BY <3>3, <4>1, <4>2 DEF IsOneEntry
    <3>5. AreParts(each, n, Token)
      <4>1. <<>> \in Seq(Token)
        OBVIOUS
      <4> QED
        BY <3>2, <3>4, <4>1 DEF AreParts
    <3> HIDE DEF n, y, z
    <3>6. OnlyOne(each, n, j)
      BY <3>2 DEF OnlyOne
    <3>7. total = each[j]
      BY <1>1, <3>1, <3>5, <3>6, OnlyPart
    <3> QED
      BY <3>1, <3>2, <3>4, <3>7
  <2> QED
    BY <2>1, <2>2
<1>7. RestartResults(p, inst, live) = total
  BY Zenon DEF RestartResults, result
<1>8. RestartHeader(p, inst) = c
  BY Zenon DEF RestartHeader
<1> HIDE DEF a, b, c, y, total
<1>9. Leads(x, <<a, b, c>> \o total, z)
  BY <1>5, <1>6, LeadsConcat, Zenon
<1> QED
  BY <1>7, <1>8, <1>9, Zenon DEF a, b

LEMMA ErrorIsOneObject == IsOneObject(api_respond_error)
<1> DEFINE a == MapOf(2)
           b == Scalar("error")
           c == Scalar("why")
           d == Scalar("request")
           e == Scalar("the request")
           x == 1
           y == 3
           z == 0
<1>1. b \in Token /\ c \in Token /\ d \in Token /\ e \in Token
  BY Zenon, Tokens DEF Text
<1>2. a \in Token
  BY DEF MapOf, Token
<1>3. /\ x \in Int /\ y \in Int /\ y = Packed(Packed(x, a), b)
      /\ z = Packed(Packed(Packed(y, c), d), e)
  BY DEF MapOf, Scalar, Packed
<1>4. api_respond_error = <<a, b, c, d, e>>
  BY DEF api_respond_error
<1> HIDE DEF a, b, c, d, e, x, y, z
<1>5. <<a, b, c, d, e>> = <<a, b>> \o <<c, d, e>>
  OBVIOUS
<1>6. Leads(x, <<a, b>>, y)
  BY <1>1, <1>2, <1>3, LeadsTwo
<1>7. Leads(y, <<c, d, e>>, z)
  BY <1>1, <1>3, LeadsThree
<1>8. Leads(x, <<a, b>> \o <<c, d, e>>, z)
  BY <1>6, <1>7, LeadsConcat, Zenon
<1> QED
  BY <1>4, <1>5, <1>8, Zenon DEF Leads, IsOneObject, x, z

LEMMA DanceIsOneObject == IsOneObject(api_request_dance)
<1> DEFINE a == MapOf(1)
           b == Scalar("danced")
           c == Scalar("true")
           x == 1
           z == 0
<1>1. b \in Token /\ c \in Token
  BY Zenon, Tokens DEF Text
<1>2. a \in Token
  BY DEF MapOf, Token
<1>3. x \in Int /\ z = Packed(Packed(Packed(x, a), b), c)
  BY DEF MapOf, Scalar, Packed
<1>4. api_request_dance = <<a, b, c>>
  BY DEF api_request_dance
<1> HIDE DEF a, b, c, x, z
<1>5. Leads(x, <<a, b, c>>, z)
  BY <1>1, <1>2, <1>3, LeadsThree
<1> QED
  BY <1>4, <1>5, Zenon DEF Leads, IsOneObject, x, z

LEMMA CreatedIsOneObject == IsOneObject(<<Scalar("created")>>)
<1> DEFINE a == Scalar("created")
           x == 1
<1>1. a \in Token
  BY Zenon, Tokens DEF Text
<1>2. x \in Int /\ Packed(x, a) = 0
  BY DEF Scalar, Packed
<1> HIDE DEF a, x
<1>3. Missing(x, <<a>>) = 0
  BY <1>1, <1>2, MissingOne
<1> QED
  BY <1>3, Zenon DEF IsOneObject, a, x

LEMMA RestartIsOneObject ==
  ASSUME NEW obj, NEW live,
         Got(obj_get(obj, program, "raw")) =>
           /\ Cardinality(Named(obj_get(obj, program, "raw"))) = 1
           /\ \A p \in Named(obj_get(obj, program, "raw")) :
                InstanceField(obj) \in -1 .. Programs[p].nprocs - 1
  PROVE  IsOneObject(api_request_restart(obj, live))
<1>1. CASE ~Got(obj_get(obj, program, "raw"))
  <2>1. api_request_restart(obj, live) = api_respond_error
    BY <1>1, Zenon DEF api_request_restart
  <2> QED
    BY <2>1, ErrorIsOneObject
<1>2. CASE Got(obj_get(obj, program, "raw"))
  <2> DEFINE named == Named(obj_get(obj, program, "raw"))
             inst == InstanceField(obj)
             n == Len(Programs)
             part(p) == <<MapOf(1), Scalar("program"), RestartHeader(p, inst)>>
                          \o RestartResults(p, inst, live)
             each == [p \in DOMAIN Programs |-> IF p \notin named THEN <<>> ELSE part(p)]
             total == Concat(each, n)
             a == MapOf(1)
             b == Scalar("results")
             x == 1
             z == 0
  <2>1. api_request_restart(obj, live) = <<a, b>> \o total
    BY <1>2, Zenon DEF api_request_restart
  <2>2. n \in Nat /\ DOMAIN Programs = 1 .. n
    BY ApiAssumption, LenProperties
  <2>3. PICK q \in 1 .. n : named = {q}
    <3>1. named \subseteq 1 .. n
      BY <2>2 DEF Named
    <3> HIDE DEF n
    <3>2. IsFiniteSet(1 .. n)
      BY <2>2, FS_Interval
    <3>3. IsFiniteSet(named)
      BY <3>1, <3>2, FS_Subset
    <3>4. \E q : named = {q}
      BY <1>2, <3>3, FS_Singleton
    <3> QED
      BY <3>1, <3>4
  <2>4. inst \in -1 .. Programs[q].nprocs - 1
    BY <1>2, <2>3
  <2> HIDE DEF inst
  <2>5. Leads(x, part(q), z)
    BY <2>2, <2>3, <2>4, ResultsAreEntries
  <2> HIDE DEF part, named, n
  <2>6. each[q] = part(q) /\ OnlyOne(each, n, q)
    BY <2>2, <2>3 DEF OnlyOne
  <2>7. AreParts(each, n, Token)
    <3>1. <<>> \in Seq(Token) /\ part(q) \in Seq(Token)
      BY <2>5 DEF Leads
    <3> HIDE DEF each
    <3> QED
      BY <2>6, <3>1 DEF AreParts, OnlyOne
  <2> HIDE DEF each
  <2>8. total = each[q]
    BY <2>2, <2>3, <2>6, <2>7, OnlyPart
  <2>9. Leads(x, <<a, b>>, x)
    <3>1. a \in Token /\ b \in Token
      <4>1. b \in Token
        BY Zenon, Tokens DEF Text
      <4> QED
        BY <4>1 DEF MapOf, Token
    <3>2. x \in Int /\ x = Packed(Packed(x, a), b)
      BY DEF MapOf, Scalar, Packed
    <3> HIDE DEF a, b, x
    <3> QED
      BY <3>1, <3>2, LeadsTwo
  <2> HIDE DEF a, b, x, z, total
  <2>10. Leads(x, <<a, b>> \o total, z)
    BY <2>5, <2>6, <2>8, <2>9, LeadsConcat, Zenon
  <2> QED
    BY <2>1, <2>10, Zenon DEF Leads, IsOneObject, x, z
<1> QED
  BY <1>1, <1>2

LEMMA MethodsDiffer ==
  /\ dance # restart /\ dance # status /\ dance # create
  /\ restart # status /\ restart # create /\ status # create
BY DEF dance, restart, status, create

(* Whatever a well-posed request asks for, the reply is one object.         *)
LEMMA ReplyIsOneObject ==
  ASSUME NEW obj, WellPosed(obj), NEW live
  PROVE  IsOneObject(rpc_reply(obj, live))
<1>1. CASE Method(obj) = dance
  BY <1>1, DanceIsOneObject, MethodsDiffer DEF rpc_reply
<1>2. CASE Method(obj) = restart
  <2>1. IsOneObject(api_request_restart(obj, live))
    BY <1>2, RestartIsOneObject, Zenon DEF WellPosed
  <2> QED
    BY <1>2, <2>1, MethodsDiffer DEF rpc_reply
<1>3. CASE Method(obj) = status
  <2>1. IsOneObject(api_request_status(obj))
    BY <1>3, StatusIsOneObject, Zenon DEF WellPosed
  <2> QED
    BY <1>3, <2>1, MethodsDiffer DEF rpc_reply
<1>4. CASE Method(obj) = create
  <2>1. IsOneObject(api_request_create(obj))
    BY CreatedIsOneObject, ErrorIsOneObject, Zenon DEF api_request_create
  <2> QED
    BY <1>4, <2>1, MethodsDiffer DEF rpc_reply
<1>5. CASE Method(obj) \notin {dance, restart, status, create}
  BY <1>5, ErrorIsOneObject DEF rpc_reply
<1> QED
  BY <1>1, <1>2, <1>3, <1>4, <1>5

-----------------------------------------------------------------------------
(* The results a reply has.                                                 *)
IsResult(r, k, text, x) ==
  /\ k \in 1 .. Len(r) - 1
  /\ "number" \in DOMAIN r[k] /\ r[k + 1] = Scalar(text)
  /\ x = r[k].number

\* No result is half in s and half in what follows it.
IsClosed(s) == s = <<>> \/ "number" \notin DOMAIN s[Len(s)]

LEMMA ResultsAre ==
  ASSUME NEW r \in Seq(Token), NEW text
  PROVE  \A x : x \in ResultFor(r, text) <=> \E k : IsResult(r, k, text, x)
<1>1. Len(r) \in Nat /\ DOMAIN r = 1 .. Len(r)
  BY LenProperties
<1>2. DOMAIN r \ {Len(r)} = 1 .. Len(r) - 1
  BY <1>1
<1> QED
  BY <1>2 DEF ResultFor, IsResult

LEMMA ResultsOfConcat ==
  ASSUME NEW s \in Seq(Token), NEW t \in Seq(Token), IsClosed(s), IsClosed(t), NEW text
  PROVE  /\ ResultFor(s \o t, text) = ResultFor(s, text) \cup ResultFor(t, text)
         /\ IsClosed(s \o t)
<1> DEFINE st == s \o t
<1>1. /\ st \in Seq(Token) /\ Len(s) \in Nat /\ Len(t) \in Nat /\ Len(st) = Len(s) + Len(t)
      /\ \A n \in 1 .. Len(s) : st[n] = s[n]
      /\ \A n \in 1 .. Len(t) : st[n + Len(s)] = t[n]
  BY ConcatProperties, LenProperties
<1>2. (s = <<>> <=> Len(s) = 0) /\ (t = <<>> <=> Len(t) = 0) /\ (st = <<>> <=> Len(st) = 0)
  BY <1>1, EmptySeq
<1> HIDE DEF st
<1>3. IsClosed(st)
  <2>1. CASE Len(t) = 0
    BY <1>1, <1>2, <2>1 DEF IsClosed
  <2>2. CASE Len(t) # 0
    <3>1. st[Len(t) + Len(s)] = t[Len(t)]
      BY <1>1, <2>2
    <3> QED
      BY <1>1, <1>2, <2>2, <3>1 DEF IsClosed
  <2> QED
    BY <2>1, <2>2
<1>4. ASSUME NEW x, NEW k, IsResult(s, k, text, x) PROVE IsResult(st, k, text, x)
  <2>1. k \in 1 .. Len(s) /\ k + 1 \in 1 .. Len(s) /\ k \in 1 .. Len(st) - 1
    BY <1>1, <1>4 DEF IsResult
  <2>2. st[k] = s[k] /\ st[k + 1] = s[k + 1]
    BY <1>1, <2>1
  <2> QED
    BY <1>4, <2>1, <2>2 DEF IsResult
<1>5. ASSUME NEW x, NEW k, IsResult(t, k, text, x) PROVE IsResult(st, k + Len(s), text, x)
  <2> DEFINE l == k + Len(s)
  <2>1. k \in 1 .. Len(t) /\ k + 1 \in 1 .. Len(t) /\ l \in 1 .. Len(st) - 1
        /\ (k + 1) + Len(s) = l + 1
    BY <1>1, <1>5 DEF IsResult
  <2>2. st[l] = t[k]
    BY <1>1, <2>1
  <2>3. st[(k + 1) + Len(s)] = t[k + 1]
    BY <1>1, <2>1
  <2> HIDE DEF l
  <2>4. st[l + 1] = t[k + 1]
    BY <2>1, <2>3
  <2>5. IsResult(st, l, text, x)
    BY <1>5, <2>1, <2>2, <2>4 DEF IsResult
  <2> QED
    BY <2>5 DEF l
<1>6. ASSUME NEW x, NEW k, IsResult(st, k, text, x)
      PROVE  IsResult(s, k, text, x) \/ IsResult(t, k - Len(s), text, x)
  <2>1. k \in 1 .. Len(st) - 1 /\ k \in Int
    BY <1>1, <1>6 DEF IsResult
  <2>2. CASE k < Len(s)
    <3>1. k \in 1 .. Len(s) /\ k + 1 \in 1 .. Len(s) /\ k \in 1 .. Len(s) - 1
      BY <1>1, <2>1, <2>2
    <3>2. st[k] = s[k] /\ st[k + 1] = s[k + 1]
      BY <1>1, <3>1
    <3> QED
      BY <1>6, <3>1, <3>2 DEF IsResult
  <2>3. CASE k = Len(s)
    <3>1. k \in 1 .. Len(s) /\ s # <<>>
      BY <1>1, <1>2, <2>1, <2>3
    <3>2. st[k] = s[k] /\ "number" \notin DOMAIN s[k]
      BY <1>1, <2>3, <3>1 DEF IsClosed
    <3> QED
      BY <1>6, <3>2 DEF IsResult
  <2>4. CASE k > Len(s)
    <3> DEFINE l == k - Len(s)
    <3>1. l \in 1 .. Len(t) /\ l + 1 \in 1 .. Len(t) /\ l \in 1 .. Len(t) - 1
          /\ l + Len(s) = k /\ (l + 1) + Len(s) = k + 1
      BY <1>1, <2>1, <2>4
    <3> HIDE DEF l
    <3>2. st[l + Len(s)] = t[l]
      BY <1>1, <3>1
    <3>3. st[(l + 1) + Len(s)] = t[l + 1]
      BY <1>1, <3>1
    <3>4. st[k] = t[l] /\ st[k + 1] = t[l + 1]
      BY <3>1, <3>2, <3>3
    <3>5. IsResult(t, l, text, x)
      BY <1>6, <3>1, <3>4 DEF IsResult
    <3> QED
      BY <3>5 DEF l
  <2> QED
    BY <1>1, <2>1, <2>2, <2>3, <2>4
<1>7. \A x : x \in ResultFor(st, text)
               <=> x \in ResultFor(s, text) \/ x \in ResultFor(t, text)
  <2> SUFFICES ASSUME NEW x
               PROVE  x \in ResultFor(st, text)
                        <=> x \in ResultFor(s, text) \/ x \in ResultFor(t, text)
    OBVIOUS
  <2>1. /\ x \in ResultFor(st, text) <=> \E k : IsResult(st, k, text, x)
        /\ x \in ResultFor(s, text) <=> \E k : IsResult(s, k, text, x)
        /\ x \in ResultFor(t, text) <=> \E k : IsResult(t, k, text, x)
    BY <1>1, ResultsAre, Zenon
  <2> QED
    BY <1>4, <1>5, <1>6, <2>1, Zenon
<1>8. ResultFor(st, text) = ResultFor(s, text) \cup ResultFor(t, text)
  BY <1>7
<1> QED
  BY <1>3, <1>8 DEF st

\* Headers and texts are no results.
HasNoNumber(s) == \A k \in 1 .. Len(s) : "number" \notin DOMAIN s[k]

LEMMA NoResults ==
  ASSUME NEW s \in Seq(Token), HasNoNumber(s), NEW text
  PROVE  ResultFor(s, text) = {} /\ IsClosed(s)
<1>1. Len(s) \in Nat /\ (s = <<>> <=> Len(s) = 0)
  BY LenProperties, EmptySeq
<1>2. \A x : x \notin ResultFor(s, text)
  <2>1. \A x, k : ~ IsResult(s, k, text, x)
    BY <1>1 DEF IsResult, HasNoNumber
  <2> QED
    BY <2>1, ResultsAre, Zenon
<1>3. IsClosed(s)
  BY <1>1 DEF IsClosed, HasNoNumber
<1> QED
  BY <1>2, <1>3

LEMMA OneResult ==
  ASSUME NEW i \in Nat, NEW text \in Text, NEW wanted \in Text
  PROVE  /\ <<Number(i), Scalar(text)>> \in Seq(Token)
         /\ IsClosed(<<Number(i), Scalar(text)>>)
         /\ ResultFor(<<Number(i), Scalar(text)>>, wanted) = IF text = wanted THEN {i} ELSE {}
<1> DEFINE a == Number(i)
           b == Scalar(text)
           s == <<a, b>>
<1>1. /\ a \in Token /\ b \in Token /\ "number" \in DOMAIN a /\ a.number = i
      /\ "number" \notin DOMAIN b
      /\ b = Scalar(wanted) <=> text = wanted
  <2>1. a \in Token /\ b \in Token
    BY Tokens
  <2> QED
    BY <2>1 DEF Number, Scalar
<1> HIDE DEF a, b
<1>2. s \in Seq(Token) /\ Len(s) = 2 /\ s[1] = a /\ s[2] = b /\ s # <<>>
  BY <1>1
<1> HIDE DEF s
<1>3. IsClosed(s)
  BY <1>1, <1>2 DEF IsClosed
<1>4. \A x, k : IsResult(s, k, wanted, x) <=> k = 1 /\ text = wanted /\ x = i
  BY <1>1, <1>2 DEF IsResult
<1>5. \A x : x \in ResultFor(s, wanted) <=> text = wanted /\ x = i
  BY <1>2, <1>4, ResultsAre, Zenon
<1>6. ResultFor(s, wanted) = IF text = wanted THEN {i} ELSE {}
  BY <1>5
<1> QED
  BY <1>2, <1>3, <1>6 DEF s, a, b

Outcomes == {"true", NotRunning}

(* The results of one program, put together: exactly the instances chosen   *)
(* that have the result wanted.                                             *)
LEMMA ResultsOfProgram ==
  ASSUME NEW p \in DOMAIN Programs, NEW inst, NEW live,
         NEW wanted \in Outcomes
  PROVE  /\ RestartResults(p, inst, live) \in Seq(Token)
         /\ IsClosed(RestartResults(p, inst, live))
         /\ ResultFor(RestartResults(p, inst, live), wanted) =
              {i \in 0 .. Programs[p].nprocs - 1 :
                 Chosen(inst, i) /\ (<<p, i>> \in live <=> wanted = "true")}
<1> DEFINE n == Programs[p].nprocs
           text(i) == IF <<p, i>> \in live THEN "true" ELSE NotRunning
           result(i) == <<Number(i), Scalar(text(i))>>
           each == [k \in 1 .. n |-> LET i == k - 1
                                     IN IF ~Chosen(inst, i) THEN <<>> ELSE result(i)]
           Hits(m) == {i \in 0 .. m - 1 : Chosen(inst, i) /\ text(i) = wanted}
<1>1. n \in Nat
  BY ProgramsType
<1> HIDE DEF n
<1>2. wanted \in Text /\ \A i : text(i) \in Text
  BY Zenon DEF Text, Outcomes, NotRunning
<1>3. \A i : text(i) = wanted <=> (<<p, i>> \in live <=> wanted = "true")
  BY Zenon DEF Outcomes, NotRunning
<1> HIDE DEF text
<1>4. \A i \in Nat : /\ result(i) \in Seq(Token) /\ IsClosed(result(i))
                     /\ ResultFor(result(i), wanted) = IF text(i) = wanted THEN {i} ELSE {}
  BY <1>2, OneResult
<1>5. /\ <<>> \in Seq(Token) /\ IsClosed(<<>>) /\ ResultFor(<<>>, wanted) = {}
  <2> DEFINE e == <<>>
  <2>1. e \in Seq(Token) /\ HasNoNumber(e)
    BY DEF HasNoNumber
  <2> HIDE DEF e
  <2>2. ResultFor(e, wanted) = {} /\ IsClosed(e)
    BY <2>1, NoResults
  <2> QED
    BY <2>1, <2>2 DEF e
<1> HIDE DEF result
<1>6. \A k \in 1 .. n :
        /\ each[k] \in Seq(Token) /\ IsClosed(each[k])
        /\ ResultFor(each[k], wanted) =
             IF Chosen(inst, k - 1) /\ text(k - 1) = wanted THEN {k - 1} ELSE {}
  <2> SUFFICES ASSUME NEW k \in 1 .. n
               PROVE  /\ each[k] \in Seq(Token) /\ IsClosed(each[k])
                      /\ ResultFor(each[k], wanted) =
                           IF Chosen(inst, k - 1) /\ text(k - 1) = wanted THEN {k - 1} ELSE {}
    OBVIOUS
  <2> DEFINE i == k - 1
  <2>1. i \in Nat
    BY <1>1
  <2>2. each[k] = IF ~Chosen(inst, i) THEN <<>> ELSE result(i)
    OBVIOUS
  <2> HIDE DEF each, i
  <2>3. /\ each[k] \in Seq(Token) /\ IsClosed(each[k])
        /\ ResultFor(each[k], wanted) = IF Chosen(inst, i) /\ text(i) = wanted THEN {i} ELSE {}
    <3>1. CASE Chosen(inst, i)
      BY <1>4, <2>1, <2>2, <3>1
    <3>2. CASE ~Chosen(inst, i)
      BY <1>5, <2>2, <3>2
    <3> QED
      BY <3>1, <3>2
  <2> QED
    BY <2>3 DEF i
<1> HIDE DEF each
<1>7. AreParts(each, n, Token)
  BY <1>6 DEF AreParts
<1>8. PICK parts : ArePutTogether(parts, each, n, Token)
  BY <1>1, <1>7, ConcatSteps
<1> DEFINE D == {m \in 0 .. n : IsClosed(parts[m]) /\ ResultFor(parts[m], wanted) = Hits(m)}
<1>9. \A m \in 0 .. n : parts[m] \in Seq(Token)
  BY <1>8 DEF ArePutTogether
<1>10. 0 \in D
  <2>1. parts[0] = <<>> /\ 0 \in 0 .. n
    BY <1>1, <1>8 DEF ArePutTogether
  <2>2. Hits(0) = {}
    OBVIOUS
  <2> QED
    BY <1>5, <2>1, <2>2
<1>11. ASSUME NEW m \in 1 .. n, m - 1 \in D PROVE m \in D
  <2> DEFINE l == m - 1
  <2>1. l \in 0 .. n /\ m = l + 1 /\ l \in Nat /\ m \in 0 .. n
    BY <1>1
  <2>2. parts[l] \in Seq(Token) /\ IsClosed(parts[l]) /\ ResultFor(parts[l], wanted) = Hits(l)
    BY <1>9, <1>11, <2>1
  <2>3. parts[m] = parts[l] \o each[m]
    BY <1>8, Zenon DEF ArePutTogether, Join
  <2>4. /\ each[m] \in Seq(Token) /\ IsClosed(each[m])
        /\ ResultFor(each[m], wanted) = IF Chosen(inst, l) /\ text(l) = wanted THEN {l} ELSE {}
    BY <1>6
  <2>5. Hits(m) = Hits(l) \cup IF Chosen(inst, l) /\ text(l) = wanted THEN {l} ELSE {}
    <3> HIDE DEF l
    <3>1. \A i : i \in 0 .. m - 1 <=> i \in 0 .. l - 1 \/ i = l
      BY <2>1
    <3> QED
      BY <3>1
  <2> HIDE DEF Hits, l
  <2>6. IsClosed(parts[m]) /\ ResultFor(parts[m], wanted) = Hits(m)
    BY <1>2, <2>2, <2>3, <2>4, <2>5, ResultsOfConcat
  <2> QED
    BY <2>1, <2>6
<1> HIDE DEF D
<1>12. n \in D
  BY <1>1, <1>10, <1>11, InductionUpto
<1>13. RestartResults(p, inst, live) = Concat(each, n)
  BY Zenon DEF RestartResults, each, result, text, n
<1>14. RestartResults(p, inst, live) = parts[n] /\ parts[n] \in Seq(Token)
  BY <1>1, <1>8, <1>9, <1>13 DEF ArePutTogether
<1>15. ResultFor(parts[n], wanted) = Hits(n) /\ IsClosed(parts[n])
  BY <1>12 DEF D
<1>16. Hits(n) = {i \in 0 .. Programs[p].nprocs - 1 :
                   Chosen(inst, i) /\ (<<p, i>> \in live <=> wanted = "true")}
  BY <1>3 DEF n
<1> QED
  BY <1>14, <1>15, <1>16

(* A restart of one program: the results in the whole reply.                *)
LEMMA ResultsOfReply ==
  ASSUME NEW obj, NEW live, NEW wanted \in Outcomes, Got(obj_get(obj, program, "raw")),
         NEW p \in DOMAIN Programs, Named(obj_get(obj, program, "raw")) = {p},
         InstanceField(obj) \in -1 .. Programs[p].nprocs - 1
  PROVE  ResultFor(api_request_restart(obj, live), wanted) =
           {i \in 0 .. Programs[p].nprocs - 1 :
              Chosen(InstanceField(obj), i) /\ (<<p, i>> \in live <=> wanted = "true")}
<1> DEFINE inst == InstanceField(obj)
           named == Named(obj_get(obj, program, "raw"))
           n == Len(Programs)
           results == RestartResults(p, inst, live)
           first == <<MapOf(1), Scalar("results")>>
           second == <<MapOf(1), Scalar("program"), RestartHeader(p, inst)>>
           part(q) == <<MapOf(1), Scalar("program"), RestartHeader(q, inst)>>
                        \o RestartResults(q, inst, live)
           each == [q \in DOMAIN Programs |-> IF q \notin named THEN <<>> ELSE part(q)]
           total == Concat(each, n)
           Wanted == {i \in 0 .. Programs[p].nprocs - 1 :
                        Chosen(inst, i) /\ (<<p, i>> \in live <=> wanted = "true")}
<1>1. api_request_restart(obj, live) = first \o total
  BY Zenon DEF api_request_restart
<1>2. n \in Nat /\ DOMAIN Programs = 1 .. n
  BY ApiAssumption, LenProperties
<1>3. results \in Seq(Token) /\ IsClosed(results) /\ ResultFor(results, wanted) = Wanted
  BY ResultsOfProgram
<1>4. part(p) = second \o results
  OBVIOUS
<1>5. first \in Seq(Token) /\ HasNoNumber(first)
  <2> DEFINE a == MapOf(1)
             b == Scalar("results")
  <2>1. a \in Token /\ b \in Token
    <3>1. b \in Token
      BY Zenon, Tokens DEF Text
    <3> QED
      BY <3>1 DEF MapOf, Token
  <2>2. "number" \notin DOMAIN a /\ "number" \notin DOMAIN b
    BY DEF MapOf, Scalar
  <2> HIDE DEF a, b
  <2>3. <<a, b>> \in Seq(Token) /\ HasNoNumber(<<a, b>>)
    BY <2>1, <2>2 DEF HasNoNumber
  <2> QED
    BY <2>3 DEF a, b
<1>6. second \in Seq(Token) /\ HasNoNumber(second)
  <2> DEFINE size == IF inst = -1 THEN Programs[p].nprocs ELSE 1
             a == MapOf(1)
             b == Scalar("program")
             c == RestartHeader(p, inst)
  <2>1. size \in Nat
    BY ProgramsType
  <2> HIDE DEF size
  <2>2. c = MapOf(size)
    BY Zenon DEF RestartHeader, size
  <2>3. a \in Token /\ b \in Token /\ c \in Token
    <3>1. b \in Token
      BY Zenon, Tokens DEF Text
    <3> HIDE DEF c
    <3> QED
      BY <2>1, <2>2, <3>1 DEF MapOf, Token
  <2>4. "number" \notin DOMAIN a /\ "number" \notin DOMAIN b /\ "number" \notin DOMAIN c
    <3> HIDE DEF c
    <3> QED
      BY <2>2 DEF MapOf, Scalar
  <2> HIDE DEF a, b, c
  <2>5. <<a, b, c>> \in Seq(Token) /\ HasNoNumber(<<a, b, c>>)
    BY <2>3, <2>4 DEF HasNoNumber
  <2> QED
    BY <2>5 DEF a, b, c
<1> HIDE DEF results, first, second, part, Wanted
<1>7. part(p) \in Seq(Token) /\ IsClosed(part(p)) /\ ResultFor(part(p), wanted) = Wanted
  <2>1. ResultFor(second, wanted) = {} /\ IsClosed(second)
    BY <1>6, NoResults
  <2>2. second \o results \in Seq(Token)
    BY <1>3, <1>6, ConcatProperties
  <2>3. /\ ResultFor(second \o results, wanted) = ResultFor(second, wanted) \cup ResultFor(results, wanted)
        /\ IsClosed(second \o results)
    BY <1>3, <1>6, <2>1, ResultsOfConcat
  <2> QED
    BY <1>3, <1>4, <2>1, <2>2, <2>3
<1>8. total = part(p)
  <2> HIDE DEF named, n
  <2>1. named = {p}
    BY DEF named
  <2>2. each[p] = part(p) /\ OnlyOne(each, n, p) /\ p \in 1 .. n
    BY <1>2, <2>1 DEF OnlyOne
  <2>3. AreParts(each, n, Token)
    <3>1. <<>> \in Seq(Token)
      OBVIOUS
    <3> HIDE DEF each
    <3> QED
      BY <1>7, <2>2, <3>1 DEF AreParts, OnlyOne
  <2> HIDE DEF each
  <2> QED
    BY <1>2, <2>2, <2>3, OnlyPart
<1> HIDE DEF total
<1>9. ResultFor(first \o total, wanted) = Wanted
  <2>1. ResultFor(first, wanted) = {} /\ IsClosed(first)
    BY <1>5, NoResults
  <2>2. ResultFor(first \o total, wanted) = ResultFor(first, wanted) \cup ResultFor(total, wanted)
    BY <1>5, <1>7, <1>8, <2>1, ResultsOfConcat
  <2> QED
    BY <1>7, <1>8, <2>1, <2>2
<1> QED
  BY <1>1, <1>9 DEF Wanted

-----------------------------------------------------------------------------
\* A queue in which nobody is twice is no longer than there are clients.
LEMMA QueueIsShort ==
  ASSUME NEW q \in Seq(Clients), IsInjective(q)
  PROVE  Len(q) <= Cardinality(Clients)
<1>1. Len(q) \in Nat /\ q \in [1 .. Len(q) -> Clients]
  BY LenProperties
<1>2. q \in Injection(1 .. Len(q), Clients)
  BY <1>1 DEF Injection
<1>3. Cardinality(1 .. Len(q)) = Len(q)
  BY <1>1, FS_Interval
<1>4. Cardinality(1 .. Len(q)) <= Cardinality(Clients)
  BY <1>2, FS_Injection, ClientAssumption
<1> QED
  BY <1>3, <1>4

(* What appending and taking the head do to the clients of a queue in which *)
(* nobody is twice.                                                         *)
LEMMA AppendedQueue ==
  ASSUME NEW q \in Seq(Clients), IsInjective(q), NEW c \in Clients \ Range(q)
  PROVE  /\ Append(q, c) \in Seq(Clients) /\ IsInjective(Append(q, c))
         /\ Range(Append(q, c)) = Range(q) \cup {c}
<1> DEFINE a == Append(q, c)
<1>1. /\ a \in Seq(Clients) /\ Len(a) = Len(q) + 1 /\ a[Len(q) + 1] = c
      /\ \A n \in 1 .. Len(q) : a[n] = q[n]
  BY AppendProperties
<1>2. DOMAIN a = 1 .. Len(a) /\ DOMAIN q = 1 .. Len(q) /\ Len(q) \in Nat
  BY <1>1, LenProperties
<1> HIDE DEF a
<1>3. \A n \in DOMAIN a : n = Len(q) + 1 \/ n \in DOMAIN q
  BY <1>1, <1>2
<1>4. IsInjective(a)
  BY <1>1, <1>2, <1>3 DEF IsInjective, Range
<1>5. Range(a) = Range(q) \cup {c}
  BY <1>1, <1>2, <1>3 DEF Range
<1> QED
  BY <1>1, <1>4, <1>5 DEF a

LEMMA ShortenedQueue ==
  ASSUME NEW q \in Seq(Clients), IsInjective(q), q # <<>>
  PROVE  /\ Head(q) \in Range(q)
         /\ Tail(q) \in Seq(Clients) /\ IsInjective(Tail(q))
         /\ Range(Tail(q)) = Range(q) \ {Head(q)}
<1> DEFINE t == Tail(q)
<1>1. /\ t \in Seq(Clients) /\ Len(t) = Len(q) - 1
      /\ \A n \in 1 .. Len(t) : t[n] = q[n + 1]
  BY HeadTailProperties
<1>2. DOMAIN t = 1 .. Len(t) /\ DOMAIN q = 1 .. Len(q) /\ Len(q) \in Nat \ {0}
  BY <1>1, LenProperties, EmptySeq
<1>3. Head(q) = q[1]
  OBVIOUS
<1> HIDE DEF t
<1>4. \A n \in DOMAIN t : n + 1 \in DOMAIN q /\ n + 1 # 1 /\ t[n] = q[n + 1]
  BY <1>1, <1>2
<1>5. \A n \in DOMAIN q : n = 1 \/ (n - 1 \in DOMAIN t /\ t[n - 1] = q[n])
  BY <1>1, <1>2
<1>6. IsInjective(t)
  BY <1>1, <1>2, <1>4 DEF IsInjective
<1>7. 1 \in DOMAIN q /\ Head(q) \in Range(q)
  BY <1>2, <1>3 DEF Range
<1>8. \A n \in DOMAIN t : t[n] \in Range(q) /\ t[n] # q[1]
  BY <1>4, <1>7 DEF IsInjective, Range
<1>9. \A n \in DOMAIN q : q[n] = q[1] \/ \E m \in DOMAIN t : t[m] = q[n]
  BY <1>5
<1>10. Range(t) = Range(q) \ {Head(q)}
  BY <1>3, <1>8, <1>9 DEF Range
<1> QED
  BY <1>1, <1>6, <1>7, <1>10 DEF t

-----------------------------------------------------------------------------
(* What the kernel holds and the records agree in, besides the socket.      *)
PidsOK ==
  /\ pid \in [Instances -> Pids \cup {NoPid, ForkFailed}]
  /\ holder \in [Pids -> Instances \cup {Outsider, NULL}]
  /\ signalled \subseteq Held /\ immune \subseteq Held
  /\ PidsAreRecorded

SocketOK ==
  /\ sent \in [Clients -> Messages \cup {NULL}]
  /\ DOMAIN received = Clients
  /\ \A c \in Clients : received[c] # NULL => sent[c] # NULL
  /\ queue \in Seq(Clients) /\ Len(queue) <= Cardinality(Clients)
  /\ owing \in Clients \cup {NULL}
  /\ readable \in BOOLEAN
  /\ EveryRequestIsSomewhere

LEMMA InvIsBoth == (Inv <=> SocketOK /\ PidsOK) /\ (Inv' <=> SocketOK' /\ PidsOK')
BY DEF Inv, TypeOK, SocketOK, PidsOK

LEMMA InitInv == Init => Inv
<1> SUFFICES ASSUME Init PROVE Inv
  OBVIOUS
<1>1. queue \in Seq(Clients) /\ IsInjective(queue) /\ Range(queue) = {}
  BY DEF Init, IsInjective, Range
<1>2. EveryRequestIsSomewhere
  BY <1>1 DEF Init, EveryRequestIsSomewhere, Waiting
<1>3. SocketOK
  BY <1>1, <1>2, QueueIsShort DEF Init, SocketOK
<1>4. PidsOK
  BY PidAssumption DEF Init, PidsOK, PidsAreRecorded, Held
<1> QED
  BY <1>3, <1>4, InvIsBoth

(* A step that leaves the pids alone and adds held ones to those signalled. *)
LEMMA PidsStay ==
  ASSUME PidsOK, UNCHANGED <<pid, kernel>>, signalled' \subseteq Held
  PROVE  PidsOK'
BY DEF PidsOK, PidsAreRecorded, Held, kernel

(* A new request: the client did not wait, so it is nowhere yet.            *)
LEMMA SendsInv ==
  ASSUME Inv, NEW c \in Clients, NEW m \in Messages, ClientSends(c, m)
  PROVE  Inv'
<1>1. /\ sent[c] = NULL /\ sent' = [sent EXCEPT ![c] = m] /\ queue' = Append(queue, c)
      /\ readable' \in BOOLEAN
      /\ UNCHANGED <<received, owing, pid, kernel, signalled>>
  BY DEF ClientSends, Inv, TypeOK
<1>2. m # NULL /\ received[c] = NULL
  BY <1>1, ClientAssumption DEF Inv, TypeOK
<1>3. Waiting' = Waiting \cup {c} /\ c \notin Waiting
  BY <1>1, <1>2 DEF Waiting, Inv, TypeOK
<1>4. c \notin Range(queue) /\ c # owing
  BY <1>3, ClientAssumption DEF Inv, EveryRequestIsSomewhere
<1>5. /\ queue' \in Seq(Clients) /\ IsInjective(queue')
      /\ Range(queue') = Range(queue) \cup {c}
  BY <1>1, <1>4, AppendedQueue DEF Inv, TypeOK, EveryRequestIsSomewhere
<1>6. EveryRequestIsSomewhere'
  BY <1>1, <1>3, <1>4, <1>5 DEF Inv, EveryRequestIsSomewhere
<1>7. SocketOK'
  BY <1>1, <1>2, <1>5, <1>6, QueueIsShort DEF Inv, TypeOK, SocketOK
<1>8. PidsOK'
  BY <1>1, InvIsBoth, PidsStay DEF PidsOK
<1> QED
  BY <1>7, <1>8, InvIsBoth

LEMMA ReceivesInv ==
  ASSUME Inv, NEW c \in Clients, ClientReceives(c)
  PROVE  Inv'
<1>1. /\ received[c] # NULL
      /\ sent' = [sent EXCEPT ![c] = NULL] /\ received' = [received EXCEPT ![c] = NULL]
      /\ UNCHANGED <<queue, owing, readable, pid, kernel, signalled>>
  BY DEF ClientReceives
<1>2. Waiting' = Waiting
  BY <1>1 DEF Waiting, Inv, TypeOK
<1>3. EveryRequestIsSomewhere'
  BY <1>1, <1>2 DEF Inv, EveryRequestIsSomewhere
<1>4. SocketOK'
  BY <1>1, <1>3 DEF Inv, TypeOK, SocketOK
<1>5. PidsOK'
  BY <1>1, InvIsBoth, PidsStay DEF PidsOK
<1> QED
  BY <1>4, <1>5, InvIsBoth

(* The request at the head is answered, or becomes a debt nobody pays.      *)
LEMMA HandleInv ==
  ASSUME Inv, ~OutOfStep, queue # <<>>, queue' = Tail(queue), rpc_handle(Head(queue)),
         readable' \in BOOLEAN, UNCHANGED <<sent, pid, kernel>>
  PROVE  Inv'
<1> DEFINE c == Head(queue)
<1>1. /\ c \in Range(queue) /\ queue' \in Seq(Clients) /\ IsInjective(queue')
      /\ Range(queue') = Range(queue) \ {c}
  BY ShortenedQueue DEF Inv, TypeOK, EveryRequestIsSomewhere
<1>2. c \in Waiting /\ owing = NULL /\ c \in Clients /\ c # NULL
  BY <1>1, ClientAssumption DEF Inv, EveryRequestIsSomewhere, OutOfStep, Waiting
<1>3. Len(queue') <= Cardinality(Clients)
  BY <1>1, QueueIsShort
<1> HIDE DEF c
<1>4. CASE sent[c] = Garbage
  <2>1. owing' = c /\ UNCHANGED <<received, signalled>>
    BY <1>4 DEF c, rpc_handle
  <2>2. Waiting' = Waiting
    BY <2>1 DEF Waiting
  <2>3. EveryRequestIsSomewhere'
    BY <1>1, <1>2, <2>1, <2>2 DEF Inv, EveryRequestIsSomewhere
  <2>4. SocketOK'
    BY <1>1, <1>2, <1>3, <2>1, <2>3 DEF Inv, TypeOK, SocketOK
  <2>5. PidsOK'
    BY <2>1, InvIsBoth, PidsStay DEF PidsOK
  <2> QED
    BY <2>4, <2>5, InvIsBoth
<1>5. CASE sent[c] # Garbage
  <2> DEFINE reply == rpc_reply(sent[c], Reached)
  <2>1. /\ received' = [received EXCEPT ![c] = reply] /\ owing' = NULL
        /\ signalled' = signalled \cup {pid[x] : x \in Terminated(sent[c], Reached)}
    BY <1>5 DEF c, rpc_handle
  <2>2. sent[c] \in Requests /\ sent[c] # NULL
    BY <1>2, <1>5 DEF Inv, TypeOK, Waiting, Messages
  <2>3. reply # NULL
    BY <2>2, ReplyAssumption DEF Reached
  <2>4. \A x \in Terminated(sent[c], Reached) : pid[x] \in Held
    BY DEF Terminated, Reached
  <2>5. PidsOK'
    BY <2>1, <2>4, InvIsBoth, PidsStay DEF PidsOK
  <2> HIDE DEF reply
  <2>6. Waiting' = Waiting \ {c}
    BY <1>2, <2>1, <2>3 DEF Waiting, Inv, TypeOK
  <2>7. EveryRequestIsSomewhere'
    BY <1>1, <1>2, <2>1, <2>6, ClientAssumption DEF Inv, TypeOK, EveryRequestIsSomewhere
  <2>8. SocketOK'
    BY <1>1, <1>2, <1>3, <2>1, <2>2, <2>7 DEF Inv, TypeOK, SocketOK
  <2> QED
    BY <2>5, <2>8, InvIsBoth
<1> QED
  BY <1>4, <1>5

LEMMA CallbackInv ==
  ASSUME Inv, rpc_cb
  PROVE  Inv'
<1>1. readable' \in BOOLEAN /\ UNCHANGED <<sent, pid, kernel>> /\ rpc_receive
  BY DEF rpc_cb
<1>2. CASE OutOfStep \/ queue = <<>>
  <2>1. UNCHANGED <<received, queue, owing, signalled>>
    BY <1>1, <1>2 DEF rpc_receive
  <2>2. SocketOK'
    BY <1>1, <2>1, InvIsBoth DEF SocketOK, EveryRequestIsSomewhere, Waiting
  <2>3. PidsOK'
    BY <1>1, <2>1, InvIsBoth, PidsStay DEF PidsOK
  <2> QED
    BY <2>2, <2>3, InvIsBoth
<1>3. CASE ~OutOfStep /\ queue # <<>>
  <2>1. queue' = Tail(queue) /\ rpc_handle(Head(queue))
    BY <1>1, <1>3 DEF rpc_receive
  <2> QED
    BY <1>1, <1>3, <2>1, HandleInv
<1> QED
  BY <1>2, <1>3

(* Processes come, end and change their user; the socket is left alone.     *)
ProcessStep ==
  \/ \E x \in Instances : ForkFails(x) \/ \E q \in Pids : ProcessStarts(x, q)
  \/ \E q \in Pids : OutsiderComes(q) \/ ProcessEnds(q) \/ ChangesUser(q)

LEMMA ProcessesLeaveTheSocket == ProcessStep => UNCHANGED socket
BY DEF ProcessStep, ForkFails, ProcessStarts, OutsiderComes, ProcessEnds, ChangesUser

LEMMA ProcessInv ==
  ASSUME Inv, ProcessStep
  PROVE  Inv'
<1> USE DEF PidsOK, PidsAreRecorded, Held
<1>1. PidsOK
  BY InvIsBoth
<1>2. ASSUME NEW x \in Instances, ForkFails(x) PROVE PidsOK'
  BY <1>1, <1>2 DEF ForkFails, HasProcess, kernel
<1>3. ASSUME NEW x \in Instances, NEW q \in Pids, ProcessStarts(x, q) PROVE PidsOK'
  <2>1. /\ \A h \in Pids : holder[h] # x
        /\ pid' = [pid EXCEPT ![x] = q] /\ holder' = [holder EXCEPT ![q] = x]
        /\ immune' = immune /\ signalled' = signalled
    BY <1>3 DEF ProcessStarts, HasProcess
  <2>2. x # NULL
    BY PidAssumption
  <2> QED
    BY <1>1, <2>1, <2>2
<1>4. ASSUME NEW q \in Pids, OutsiderComes(q) PROVE PidsOK'
  BY <1>1, <1>4, PidAssumption DEF OutsiderComes
<1>5. ASSUME NEW q \in Pids, ProcessEnds(q) PROVE PidsOK'
  BY <1>1, <1>5, PidAssumption DEF ProcessEnds
<1>6. ASSUME NEW q \in Pids, ChangesUser(q) PROVE PidsOK'
  BY <1>1, <1>6 DEF ChangesUser
<1>7. PidsOK'
  BY <1>2, <1>3, <1>4, <1>5, <1>6 DEF ProcessStep
<1>8. SocketOK'
  BY ProcessesLeaveTheSocket, InvIsBoth DEF socket, SocketOK, EveryRequestIsSomewhere, Waiting
<1> QED
  BY <1>7, <1>8, InvIsBoth

LEMMA NextInv == Inv /\ [Next]_vars => Inv'
<1> SUFFICES ASSUME Inv, [Next]_vars PROVE Inv'
  OBVIOUS
<1>1. ASSUME NEW c \in Clients, NEW m \in Messages, ClientSends(c, m) PROVE Inv'
  BY <1>1, SendsInv
<1>2. ASSUME NEW c \in Clients, ClientReceives(c) PROVE Inv'
  BY <1>2, ReceivesInv
<1>3. CASE ProcessStep
  BY <1>3, ProcessInv
<1>4. CASE rpc_cb
  BY <1>4, CallbackInv
<1>5. CASE UNCHANGED vars
  BY <1>5, InvIsBoth, PidsStay
     DEF vars, socket, SocketOK, PidsOK, EveryRequestIsSomewhere, Waiting
<1> QED
  BY <1>1, <1>2, <1>3, <1>4, <1>5 DEF Next, ProcessStep

(* A request that was not answered is in the queue, once, or is the one a   *)
(* reply is owed for; nothing else is in either place.                      *)
THEOREM RequestInvariance == Spec => []Inv
<1>1. Init => Inv
  BY InitInv
<1>2. Inv /\ [Next]_vars => Inv'
  BY NextInv
<1> QED
  BY <1>1, <1>2, PTL DEF Spec

-----------------------------------------------------------------------------
(* A request that has a reply after a step had the same before it, or is    *)
(* the one the step handled.                                                *)
Handled(c) ==
  /\ ~Answered(c) /\ sent[c] \in Requests /\ sent'[c] = sent[c]
  /\ received'[c] = rpc_reply(sent[c], Reached)
  /\ signalled' = signalled \cup {pid[x] : x \in Terminated(sent[c], Reached)}

LEMMA RepliesComeFromTheHandler ==
  ASSUME Inv, [Next]_vars, NEW c \in Clients, Answered(c)'
  PROVE  \/ Answered(c) /\ sent'[c] = sent[c] /\ received'[c] = received[c]
         \/ Handled(c)
<1> DEFINE Goal == \/ Answered(c) /\ sent'[c] = sent[c] /\ received'[c] = received[c]
                   \/ Handled(c)
<1>1. ASSUME NEW d \in Clients, NEW m \in Messages, ClientSends(d, m) PROVE Goal
  <2>1. /\ sent[d] = NULL /\ sent' = [sent EXCEPT ![d] = m] /\ received' = received
    BY <1>1 DEF ClientSends
  <2>2. received[d] = NULL
    BY <2>1 DEF Inv, TypeOK
  <2> QED
    BY <2>1, <2>2 DEF Answered, Inv, TypeOK
<1>2. ASSUME NEW d \in Clients, ClientReceives(d) PROVE Goal
  <2>1. sent' = [sent EXCEPT ![d] = NULL] /\ received' = [received EXCEPT ![d] = NULL]
    BY <1>2 DEF ClientReceives
  <2> QED
    BY <2>1 DEF Answered, Inv, TypeOK
<1>3. ASSUME UNCHANGED <<sent, received>> PROVE Goal
  BY <1>3 DEF Answered
<1>4. CASE ProcessStep
  BY <1>3, <1>4, ProcessesLeaveTheSocket DEF socket
<1>5. CASE rpc_cb
  <2>1. rpc_receive /\ sent' = sent
    BY <1>5 DEF rpc_cb
  <2>2. CASE OutOfStep \/ queue = <<>>
    BY <1>3, <2>1, <2>2 DEF rpc_receive
  <2>3. CASE ~OutOfStep /\ queue # <<>>
    <3> DEFINE d == Head(queue)
    <3>1. rpc_handle(d)
      BY <2>1, <2>3 DEF rpc_receive
    <3>2. d \in Waiting
      BY <2>3, ShortenedQueue DEF Inv, TypeOK, EveryRequestIsSomewhere
    <3> HIDE DEF d
    <3>3. CASE sent[d] = Garbage
      BY <1>3, <2>1, <3>1, <3>3 DEF rpc_handle
    <3>4. CASE sent[d] # Garbage
      <4>1. /\ received' = [received EXCEPT ![d] = rpc_reply(sent[d], Reached)]
            /\ signalled' = signalled \cup {pid[x] : x \in Terminated(sent[d], Reached)}
        BY <3>1, <3>4 DEF rpc_handle
      <4>2. d \in Clients /\ sent[d] \in Requests /\ received[d] = NULL
        BY <3>2, <3>4 DEF Waiting, Messages, Inv, TypeOK
      <4>3. CASE c = d
        BY <2>1, <4>1, <4>2, <4>3 DEF Handled, Answered, Inv, TypeOK
      <4>4. CASE c # d
        BY <2>1, <4>1, <4>2, <4>4 DEF Answered, Inv, TypeOK
      <4> QED
        BY <4>3, <4>4
    <3> QED
      BY <3>3, <3>4
  <2> QED
    BY <2>2, <2>3
<1>6. CASE UNCHANGED vars
  BY <1>3, <1>6 DEF vars, socket
<1> QED
  BY <1>1, <1>2, <1>4, <1>5, <1>6 DEF Next, ProcessStep

(* For a well-posed request the headers of the reply announce what it       *)
(* contains, however many programs, instances and arguments there are and   *)
(* whatever processes kill() reaches: the client unpacks one object.        *)
THEOREM RepliesUnpack == Spec => []RepliesAreObjects
<1>1. Init => RepliesAreObjects
  BY DEF Init, RepliesAreObjects, Answered
<1>2. Inv /\ RepliesAreObjects /\ [Next]_vars => RepliesAreObjects'
  <2> SUFFICES ASSUME Inv, RepliesAreObjects, [Next]_vars, NEW c \in Clients,
                      Answered(c)', WellPosed(sent[c])'
               PROVE  IsOneObject(received[c])'
    BY DEF RepliesAreObjects
  <2>1. WellPosed(sent'[c]) <=> WellPosed(sent[c])'
    BY DEF WellPosed
  <2>2. CASE Answered(c) /\ sent'[c] = sent[c] /\ received'[c] = received[c]
    BY <2>2 DEF RepliesAreObjects, WellPosed, IsOneObject
  <2>3. CASE Handled(c)
    <3>1. IsOneObject(rpc_reply(sent[c], Reached))
      BY <2>1, <2>3, ReplyIsOneObject DEF Handled
    <3> QED
      BY <2>3, <3>1 DEF Handled
  <2> QED
    BY <2>2, <2>3, RepliesComeFromTheHandler
<1> QED
  BY <1>1, <1>2, RequestInvariance, PTL DEF Spec

(* The instances of p that the reply says were signalled, and the others.   *)
Hit(c, p)  == {<<p, i>> : i \in ResultFor(received'[c], "true")}
Miss(c, p) == {<<p, i>> : i \in ResultFor(received'[c], NotRunning)}

ResultsAreReached(c, p) ==
  /\ Hit(c, p) \cup Miss(c, p) =
       {x \in Instances : x[1] = p /\ (InstanceField(sent[c]) = -1
                                       \/ InstanceField(sent[c]) = x[2])}
  /\ signalled' = signalled \cup {pid[x] : x \in Hit(c, p)}
  /\ Hit(c, p) \subseteq Reached /\ Miss(c, p) \cap Reached = {}

(* The results of a restart, taken from the reply to it.                    *)
LEMMA RestartHandledIsTrue ==
  ASSUME NEW c \in Clients, Handled(c), Method(sent[c]) = restart,
         Got(obj_get(sent[c], program, "raw")), WellPosed(sent[c]), NEW p,
         Named(obj_get(sent[c], program, "raw")) = {p}
  PROVE  ResultsAreReached(c, p)
<1> DEFINE obj == sent[c]
           inst == InstanceField(obj)
           n == Programs[p].nprocs
           no == NotRunning
           reply == api_request_restart(obj, Reached)
           hit == Hit(c, p)
           miss == Miss(c, p)
<1>1. p \in DOMAIN Programs
  BY DEF Named
<1>2. inst \in -1 .. n - 1
  BY DEF WellPosed
<1>3. received'[c] = reply
  BY MethodsDiffer DEF Handled, rpc_reply
<1>4. n \in Nat
  BY <1>1, ProgramsType
<1>5. "true" \in Outcomes /\ no \in Outcomes /\ no # "true"
  BY Zenon DEF Outcomes, NotRunning
<1>6. /\ hit = {<<p, i>> : i \in ResultFor(received'[c], "true")}
      /\ miss = {<<p, i>> : i \in ResultFor(received'[c], no)}
  BY Zenon DEF Hit, Miss
<1>7. Got(obj_get(obj, program, "raw")) /\ Named(obj_get(obj, program, "raw")) = {p}
  OBVIOUS
<1>8. Terminated(obj, Reached) =
        {x \in Instances : x[1] \in {p} /\ Chosen(inst, x[2])} \cap Reached
  BY DEF Terminated, RestartTargets
<1>9. signalled' = signalled \cup {pid[x] : x \in Terminated(obj, Reached)}
  BY DEF Handled
<1> HIDE DEF no, obj, hit, miss
<1>10. ResultFor(reply, "true") = {i \in 0 .. n - 1 : Chosen(inst, i) /\ <<p, i>> \in Reached}
  <2>1. ResultFor(reply, "true") =
          {i \in 0 .. n - 1 : Chosen(inst, i) /\ (<<p, i>> \in Reached <=> "true" = "true")}
    BY <1>1, <1>2, <1>5, <1>7, ResultsOfReply
  <2> QED
    BY <2>1, Zenon
<1>11. ResultFor(reply, no) = {i \in 0 .. n - 1 : Chosen(inst, i) /\ <<p, i>> \notin Reached}
  <2>1. ResultFor(reply, no) =
          {i \in 0 .. n - 1 : Chosen(inst, i) /\ (<<p, i>> \in Reached <=> no = "true")}
    BY <1>1, <1>2, <1>5, <1>7, ResultsOfReply
  <2> QED
    BY <1>5, <2>1, Zenon
<1> HIDE DEF reply
<1>12. /\ hit = {<<p, i>> : i \in {k \in 0 .. n - 1 : Chosen(inst, k) /\ <<p, k>> \in Reached}}
       /\ miss = {<<p, i>> : i \in {k \in 0 .. n - 1 : Chosen(inst, k) /\ <<p, k>> \notin Reached}}
  BY <1>3, <1>6, <1>10, <1>11, Zenon
<1>13. \A i \in 0 .. n - 1 : <<p, i>> \in Instances
  BY <1>1 DEF Instances
<1>14. \A x \in Instances : x[1] = p => x[2] \in 0 .. n - 1 /\ x = <<p, x[2]>>
  BY DEF Instances
<1> HIDE DEF n, inst
<1>15. \A i \in 0 .. n - 1 : Chosen(inst, i) <=> inst = -1 \/ inst = i
  BY <1>2, <1>4 DEF Chosen
<1>16. Terminated(obj, Reached) = hit
  <2>1. \A x \in Terminated(obj, Reached) : x \in hit
    <3> SUFFICES ASSUME NEW x \in Instances, x[1] = p, Chosen(inst, x[2]), x \in Reached
                 PROVE  x \in hit
      BY <1>8
    <3> DEFINE i == x[2]
    <3>1. i \in 0 .. n - 1 /\ x = <<p, i>> /\ Chosen(inst, i)
      BY <1>14
    <3> HIDE DEF i
    <3>2. <<p, i>> \in Reached
      BY <3>1
    <3>3. <<p, i>> \in hit
      BY <1>12, <3>1, <3>2
    <3> QED
      BY <3>1, <3>3
  <2>2. \A x \in hit : x \in Terminated(obj, Reached)
    <3> SUFFICES ASSUME NEW i \in 0 .. n - 1, Chosen(inst, i), <<p, i>> \in Reached
                 PROVE  <<p, i>> \in Terminated(obj, Reached)
      BY <1>12
    <3> QED
      BY <1>8, <1>13
  <2> QED
    BY <2>1, <2>2
<1>17. hit \cup miss = {x \in Instances : x[1] = p /\ (inst = -1 \/ inst = x[2])}
  <2>1. ASSUME NEW x \in Instances, x[1] = p, inst = -1 \/ inst = x[2]
        PROVE  x \in hit \cup miss
    <3> DEFINE i == x[2]
    <3>1. i \in 0 .. n - 1 /\ x = <<p, i>> /\ Chosen(inst, i)
      BY <1>14, <1>15, <2>1
    <3> HIDE DEF i
    <3> QED
      BY <1>12, <3>1
  <2>2. ASSUME NEW x \in hit \cup miss
        PROVE  x \in Instances /\ x[1] = p /\ (inst = -1 \/ inst = x[2])
    <3>1. PICK i \in 0 .. n - 1 : x = <<p, i>> /\ Chosen(inst, i)
      BY <1>12, <2>2
    <3> QED
      BY <1>13, <1>15, <3>1
  <2> QED
    BY <2>1, <2>2
<1>18. hit \subseteq Reached /\ miss \cap Reached = {}
  BY <1>12
<1> QED
  BY <1>9, <1>16, <1>17, <1>18 DEF obj, inst, hit, miss, ResultsAreReached

(* A restart reply tells what kill() did for every instance asked for, and  *)
(* every one that has a process the daemon may signal is among those it     *)
(* reports true for.                                                        *)
THEOREM RestartRepliesAreTrue == Spec => RestartReplyIsTrue
<1>1. ASSUME Inv, [Next]_vars, NEW c \in Clients, RestartAnswered(c) PROVE AnswerIsTrue(c)
  <2> DEFINE named == Named(obj_get(sent[c], program, "raw"))
             p == CHOOSE q \in named : TRUE
  <2>1. Handled(c)
    BY <1>1, RepliesComeFromTheHandler DEF RestartAnswered
  <2>2. named = {p}
    <3>1. Cardinality(named) = 1
      BY <1>1 DEF RestartAnswered, WellPosed
    <3>2. IsFiniteSet(named)
      <4>1. named \subseteq 1 .. Len(Programs) /\ Len(Programs) \in Nat
        BY ApiAssumption, LenProperties DEF Named
      <4>2. IsFiniteSet(1 .. Len(Programs))
        BY <4>1, FS_Interval
      <4> QED
        BY <4>1, <4>2, FS_Subset
    <3> HIDE DEF named
    <3>3. \E q : named = {q}
      BY <3>1, <3>2, FS_Singleton
    <3> QED
      BY <3>3
  <2> HIDE DEF p
  <2>3. /\ Method(sent[c]) = restart /\ WellPosed(sent[c])
        /\ Got(obj_get(sent[c], program, "raw"))
    BY <1>1 DEF RestartAnswered
  <2>4. ResultsAreReached(c, p)
    BY <2>1, <2>2, <2>3, RestartHandledIsTrue
  <2>5. Hit(c, p) \cup Miss(c, p) \subseteq Instances
    BY <2>4 DEF ResultsAreReached
  <2>6. \A x \in Instances : HasProcess(x) => pid[x] \in Held /\ holder[pid[x]] = x
    BY <1>1, PidAssumption DEF Inv, TypeOK, PidsAreRecorded, HasProcess, Held
  <2>7. \A x \in Hit(c, p) : /\ pid[x] \in Held \ immune
                             /\ HasProcess(x) => holder[pid[x]] = x
    BY <2>4, <2>5, <2>6 DEF Reached, ResultsAreReached
  <2>8. \A x \in Miss(c, p) : HasProcess(x) => holder[pid[x]] = x /\ pid[x] \in immune
    BY <2>4, <2>5, <2>6 DEF Reached, ResultsAreReached
  <2> QED
    BY <2>4, <2>7, <2>8, Zenon DEF AnswerIsTrue, p, Hit, Miss, ResultsAreReached
<1>2. Inv /\ [Next]_vars => [\A c \in Clients : RestartAnswered(c) => AnswerIsTrue(c)]_vars
  BY <1>1
<1> QED
  BY <1>2, RequestInvariance, PTL DEF Spec, RestartReplyIsTrue
=============================================================================

------------------------- MODULE EventStreamProofs -------------------------
(***************************************************************************)
(* Proofs about EventStream: for any instances, pages and bounds, what the *)
(* web server receives last and what a page shows are true.                *)
(***************************************************************************)
EXTENDS EventStream, ProcessStateProofs, Induction, SequenceTheorems, FiniteSetTheorems

Shown == [Instances -> SUBSET Classes]

-----------------------------------------------------------------------------
(* The page: what a sequence of messages makes of the elements.             *)

LEMMA OneUpdate ==
  ASSUME NEW shown \in Shown, NEW m \in Message
  PROVE  /\ update_program(shown, m) \in Shown
         /\ \A i \in Instances \ {m.instance} : update_program(shown, m)[i] = shown[i]
         /\ m.event \in Classes => update_program(shown, m)[m.instance] = {m.event}
<1> DEFINE i == m.instance
           name == m.event
<1>1. i \in Instances
  BY DEF Message
<1>2. \A x \in SUBSET Classes : eventify(x, name) \in SUBSET Classes
  BY DEF eventify, Classes
<1>3. \A x \in SUBSET Classes : name \in Classes => eventify(x, name) = {name}
  BY DEF eventify, Classes
<1>4. name \in Classes => name \in dispatch
  BY DEF Classes, dispatch
<1> HIDE DEF i, name
<1>5. CASE name \in dispatch
  <2>1. update_program(shown, m) = [shown EXCEPT ![i] = eventify(@, name)]
    BY <1>5 DEF update_program, i, name
  <2>2. update_program(shown, m) \in Shown
    BY <1>1, <1>2, <2>1 DEF Shown
  <2>3. \A j \in Instances \ {i} : update_program(shown, m)[j] = shown[j]
    BY <2>1 DEF Shown
  <2>4. update_program(shown, m)[i] = eventify(shown[i], name) /\ shown[i] \in SUBSET Classes
    BY <1>1, <2>1 DEF Shown
  <2> QED
    BY <1>3, <2>2, <2>3, <2>4 DEF i, name
<1>6. CASE name \notin dispatch
  BY <1>4, <1>6 DEF update_program, i, name
<1> QED
  BY <1>5, <1>6

(* The updates one by one.                                                  *)
AreUpdates(f, shown, s) ==
  /\ f \in [0 .. Len(s) -> Shown]
  /\ f[0] = shown /\ Updated(shown, s) = f[Len(s)]
  /\ \A n \in 1 .. Len(s) : f[n] = update_program(f[n - 1], s[n])

LEMMA UpdateSteps ==
  ASSUME NEW shown \in Shown, NEW s \in Seq(Message)
  PROVE  \E f : AreUpdates(f, shown, s)
<1> DEFINE F == [n \in 1 .. Len(s) |-> [x \in Shown |-> update_program(x, s[n])]]
           Is(g) == g = [n \in 0 .. Len(s) |-> IF n = 0 THEN shown
                                               ELSE update_program(g[n - 1], s[n])]
           after == CHOOSE g : Is(g)
<1>1. Len(s) \in Nat /\ \A n \in 1 .. Len(s) : s[n] \in Message
  BY LenProperties
<1>2. F \in [1 .. Len(s) -> [Shown -> Shown]]
  <2>1. \A n \in 1 .. Len(s), x \in Shown : update_program(x, s[n]) \in Shown
    BY <1>1, OneUpdate
  <2> HIDE DEF Shown
  <2> QED
    BY <2>1
<1>3. \A n \in 1 .. Len(s), x \in Shown : F[n][x] = update_program(x, s[n])
  OBVIOUS
<1> HIDE DEF F
<1>4. PICK g : FollowsUpto(g, Len(s), Shown, shown, F)
  <2>1. IsRuleUpto(Len(s), F, Shown)
    BY <1>2 DEF IsRuleUpto
  <2> QED
    BY <1>1, <2>1, RecursionUpto
<1>5. g \in [0 .. Len(s) -> Shown] /\ g[0] = shown
  BY <1>4 DEF FollowsUpto
<1>6. ASSUME NEW n \in 1 .. Len(s) PROVE g[n] = update_program(g[n - 1], s[n])
  <2>1. g[n] = F[n][g[n - 1]]
    BY <1>4 DEF FollowsUpto
  <2>2. g[n - 1] \in Shown
    BY <1>1, <1>5
  <2> QED
    BY <1>3, <2>1, <2>2
<1>7. Is(g)
  <2>1. ASSUME NEW n \in 0 .. Len(s)
        PROVE  g[n] = IF n = 0 THEN shown ELSE update_program(g[n - 1], s[n])
    <3>1. CASE n = 0
      BY <1>5, <3>1
    <3>2. CASE n # 0
      <4>1. n \in 1 .. Len(s)
        BY <1>1, <3>2
      <4> QED
        BY <1>6, <3>2, <4>1
    <3> QED
      BY <3>1, <3>2
  <2> QED
    BY <1>5, <2>1
<1>8. Is(after)
  <2> HIDE DEF Is
  <2> QED
    BY <1>7, Zenon
<1>9. Updated(shown, s) = after[Len(s)]
  BY Zenon DEF Updated
<1>10. after[0] = shown /\ \A n \in 1 .. Len(s) : after[n] = update_program(after[n - 1], s[n])
  <2> HIDE DEF after
  <2> QED
    BY <1>1, <1>8
<1> HIDE DEF after, Is
<1> DEFINE Same == {n \in 0 .. Len(s) : after[n] = g[n]}
<1>11. \A n \in 0 .. Len(s) : n \in Same
  <2>1. 0 \in Same
    BY <1>1, <1>5, <1>10
  <2>2. ASSUME NEW n \in 1 .. Len(s), n - 1 \in Same PROVE n \in Same
    BY <1>1, <1>6, <1>10, <2>2
  <2> HIDE DEF Same
  <2> QED
    BY <1>1, <2>1, <2>2, InductionUpto
<1>12. Updated(shown, s) = g[Len(s)]
  BY <1>1, <1>9, <1>11
<1>13. AreUpdates(g, shown, s)
  BY <1>5, <1>6, <1>12 DEF AreUpdates
<1> QED
  BY <1>13

(* The last message of an instance decides what its element shows.          *)
LEMMA LastUpdateDecides ==
  ASSUME NEW shown \in Shown, NEW s \in Seq(Message), NEW i \in Instances
  PROVE  /\ Updated(shown, s) \in Shown
         /\ i \notin InstancesIn(s) => Updated(shown, s)[i] = shown[i]
         /\ \A n : IsLast(n, i, s) /\ s[n].event \in Classes => Updated(shown, s)[i] = {s[n].event}
<1>1. PICK f : AreUpdates(f, shown, s)
  BY UpdateSteps
<1>2. /\ Len(s) \in Nat /\ DOMAIN s = 1 .. Len(s) /\ \A n \in 1 .. Len(s) : s[n] \in Message
      /\ Len(s) \in 0 .. Len(s)
  BY LenProperties
<1>3. /\ f \in [0 .. Len(s) -> Shown] /\ f[0] = shown /\ Updated(shown, s) = f[Len(s)]
      /\ \A n \in 1 .. Len(s) : f[n] = update_program(f[n - 1], s[n])
  BY <1>1 DEF AreUpdates
<1> HIDE DEF Shown
<1>4. \A n \in 1 .. Len(s) : f[n - 1] \in Shown /\ f[n] \in Shown
  BY <1>2, <1>3
<1>5. \A n \in 1 .. Len(s) : /\ s[n].instance # i => f[n][i] = f[n - 1][i]
                             /\ s[n].instance = i /\ s[n].event \in Classes => f[n][i] = {s[n].event}
  <2> SUFFICES ASSUME NEW n \in 1 .. Len(s)
               PROVE  /\ s[n].instance # i => f[n][i] = f[n - 1][i]
                      /\ s[n].instance = i /\ s[n].event \in Classes => f[n][i] = {s[n].event}
    OBVIOUS
  <2>1. f[n] = update_program(f[n - 1], s[n]) /\ s[n] \in Message /\ f[n - 1] \in Shown
    BY <1>2, <1>3, <1>4
  <2> DEFINE x == f[n - 1]
             m == s[n]
  <2> HIDE DEF x, m
  <2>2. x \in Shown /\ m \in Message
    BY <2>1 DEF x, m
  <2>3. /\ \A j \in Instances \ {m.instance} : update_program(x, m)[j] = x[j]
        /\ m.event \in Classes => update_program(x, m)[m.instance] = {m.event}
    BY <2>2, OneUpdate
  <2> QED
    BY <2>1, <2>3 DEF x, m
<1>6. ASSUME i \notin InstancesIn(s) PROVE Updated(shown, s)[i] = shown[i]
  <2> DEFINE T == {n \in 0 .. Len(s) : f[n][i] = shown[i]}
  <2>1. 0 \in T
    BY <1>2, <1>3
  <2>2. \A n \in 1 .. Len(s) : s[n].instance # i
    BY <1>2, <1>6 DEF InstancesIn
  <2>3. ASSUME NEW n \in 1 .. Len(s), n - 1 \in T PROVE n \in T
    BY <1>5, <2>2, <2>3
  <2> HIDE DEF T
  <2>4. Len(s) \in T
    BY <1>2, <2>1, <2>3, InductionUpto
  <2> QED
    BY <1>3, <2>4 DEF T
<1>7. ASSUME NEW n, IsLast(n, i, s), s[n].event \in Classes
      PROVE  Updated(shown, s)[i] = {s[n].event}
  <2>1. /\ n \in 1 .. Len(s) /\ s[n].instance = i
        /\ \A l \in 1 .. Len(s) : s[l].instance = i => l <= n
    BY <1>2, <1>7 DEF IsLast
  <2> DEFINE T == {k \in 0 .. Len(s) : n <= k => f[k][i] = {s[n].event}}
  <2>2. 0 \in T
    BY <1>2, <2>1
  <2>3. ASSUME NEW k \in 1 .. Len(s), k - 1 \in T PROVE k \in T
    <3>1. CASE k < n
      BY <2>1, <3>1
    <3>2. CASE k = n
      BY <1>5, <1>7, <2>1, <3>2
    <3>3. CASE k > n
      <4>1. s[k].instance # i /\ f[k - 1][i] = {s[n].event}
        BY <2>1, <2>3, <3>3
      <4> QED
        BY <1>5, <4>1
    <3> QED
      BY <2>1, <3>1, <3>2, <3>3
  <2> HIDE DEF T
  <2>4. Len(s) \in T
    BY <1>2, <2>2, <2>3, InductionUpto
  <2> QED
    BY <1>2, <1>3, <2>1, <2>4 DEF T
<1>8. Updated(shown, s) \in Shown
  BY <1>2, <1>3
<1> QED
  BY <1>6, <1>7, <1>8

-----------------------------------------------------------------------------
(* Sequences of messages: the last one of an instance.                      *)

LEMMA SomeLast ==
  ASSUME NEW s \in Seq(Message), NEW i \in InstancesIn(s)
  PROVE  \E n : IsLast(n, i, s)
<1>1. Len(s) \in Nat /\ DOMAIN s = 1 .. Len(s)
  BY LenProperties
<1> DEFINE T == {k \in Nat : \E n \in 1 .. Len(s) : s[n].instance = i /\ k = Len(s) - n}
<1>2. T \subseteq Nat /\ T # {}
  <2>1. PICK n \in 1 .. Len(s) : s[n].instance = i
    BY <1>1 DEF InstancesIn
  <2>2. Len(s) - n \in Nat
    BY <1>1
  <2> QED
    BY <2>1, <2>2
<1> HIDE DEF T
<1>3. PICK k \in T : \A l \in T : k <= l
  BY <1>2, LeastNumber
<1>4. PICK n \in 1 .. Len(s) : s[n].instance = i /\ k = Len(s) - n
  BY <1>3 DEF T
<1>5. ASSUME NEW l \in 1 .. Len(s), s[l].instance = i PROVE l <= n
  <2>1. Len(s) - l \in T
    <3>1. Len(s) - l \in Nat
      BY <1>1
    <3> QED
      BY <1>5, <3>1 DEF T
  <2> QED
    BY <1>1, <1>3, <1>4, <2>1
<1>6. IsLast(n, i, s)
  BY <1>1, <1>4, <1>5 DEF IsLast
<1> QED
  BY <1>6

LEMMA OneLast ==
  ASSUME NEW s \in Seq(Message), NEW i, NEW n, NEW l, IsLast(n, i, s), IsLast(l, i, s)
  PROVE  n = l
<1>1. n \in Int /\ l \in Int
  BY LenProperties DEF IsLast
<1>2. n <= l /\ l <= n
  BY DEF IsLast
<1> QED
  BY <1>1, <1>2

LEMMA LastOfIsLast ==
  ASSUME NEW s \in Seq(Message), NEW i \in InstancesIn(s)
  PROVE  IsLast(LastOf(i, s), i, s)
<1>1. PICK n : IsLast(n, i, s)
  BY SomeLast
<1> DEFINE P(k) == s[k].instance = i /\ \A l \in DOMAIN s : s[l].instance = i => l <= k
<1>2. n \in DOMAIN s /\ P(n)
  BY <1>1 DEF IsLast
<1>3. LastOf(i, s) = CHOOSE k \in DOMAIN s : P(k)
  BY Zenon DEF LastOf
<1> HIDE DEF P
<1>4. LastOf(i, s) \in DOMAIN s /\ P(LastOf(i, s))
  BY <1>2, <1>3, Zenon
<1> QED
  BY <1>4 DEF P, IsLast

(* In a sequence of two parts.                                              *)
LEMMA ConcatMessages ==
  ASSUME NEW s \in Seq(Message), NEW t \in Seq(Message)
  PROVE  /\ s \o t \in Seq(Message) /\ Len(s) \in Nat /\ Len(t) \in Nat
         /\ Len(s \o t) = Len(s) + Len(t)
         /\ \A n \in 1 .. Len(s) : (s \o t)[n] = s[n]
         /\ \A n \in 1 .. Len(t) : (s \o t)[n + Len(s)] = t[n]
BY ConcatProperties, LenProperties

\* st consists of s and t.
Joins(st, s, t) == s \in Seq(Message) /\ t \in Seq(Message) /\ st = s \o t

\* The last message of i is m.
HasLast(s, i, m) == \E n : IsLast(n, i, s) /\ s[n] = m

LEMMA LastOfConcat ==
  ASSUME NEW st, NEW s, NEW t, Joins(st, s, t)
  PROVE  /\ st \in Seq(Message) /\ Len(st) = Len(s) + Len(t)
         /\ InstancesIn(st) = InstancesIn(s) \cup InstancesIn(t)
         /\ \A i, n : i \notin InstancesIn(t) => (IsLast(n, i, st) <=> IsLast(n, i, s))
         /\ \A i, n : IsLast(n, i, s) => st[n] = s[n]
         /\ \A i, n : IsLast(n, i, t) => HasLast(st, i, t[n])
<1>0. s \in Seq(Message) /\ t \in Seq(Message) /\ st = s \o t
  BY DEF Joins
<1>1. /\ st \in Seq(Message) /\ Len(s) \in Nat /\ Len(t) \in Nat /\ Len(st) = Len(s) + Len(t)
      /\ \A n \in 1 .. Len(s) : st[n] = s[n]
      /\ \A n \in 1 .. Len(t) : st[n + Len(s)] = t[n]
  BY <1>0, ConcatProperties, LenProperties
<1>2. DOMAIN s = 1 .. Len(s) /\ DOMAIN t = 1 .. Len(t) /\ DOMAIN st = 1 .. Len(st)
  BY <1>0, <1>1, LenProperties
<1>3. \A n \in 1 .. Len(st) :
        \/ n \in 1 .. Len(s) /\ st[n] = s[n]
        \/ \E l \in 1 .. Len(t) : n = l + Len(s) /\ st[n] = t[l]
  <2> SUFFICES ASSUME NEW n \in 1 .. Len(st), n \notin 1 .. Len(s)
               PROVE  \E l \in 1 .. Len(t) : n = l + Len(s) /\ st[n] = t[l]
    BY <1>1
  <2> DEFINE l == n - Len(s)
  <2>1. l \in 1 .. Len(t) /\ n = l + Len(s)
    BY <1>1
  <2> HIDE DEF l
  <2>2. st[n] = t[l]
    BY <1>1, <2>1
  <2> QED
    BY <2>1, <2>2
<1>4. \A l \in 1 .. Len(t) : l + Len(s) \in 1 .. Len(st) /\ st[l + Len(s)] = t[l]
  <2> SUFFICES ASSUME NEW l \in 1 .. Len(t)
               PROVE  l + Len(s) \in 1 .. Len(st) /\ st[l + Len(s)] = t[l]
    OBVIOUS
  <2>1. st[l + Len(s)] = t[l]
    BY <1>1
  <2>2. l + Len(s) \in 1 .. Len(st)
    BY <1>1
  <2> QED
    BY <2>1, <2>2
<1>5. \A n \in 1 .. Len(s) : n \in 1 .. Len(st) /\ st[n] = s[n]
  BY <1>1
<1>6. InstancesIn(st) = InstancesIn(s) \cup InstancesIn(t)
  <2>1. ASSUME NEW x \in InstancesIn(st) PROVE x \in InstancesIn(s) \cup InstancesIn(t)
    <3>1. PICK n \in 1 .. Len(st) : x = st[n].instance
      BY <1>2, <2>1 DEF InstancesIn
    <3> QED
      BY <1>2, <1>3, <3>1 DEF InstancesIn
  <2>2. ASSUME NEW x \in InstancesIn(s) PROVE x \in InstancesIn(st)
    BY <1>2, <1>5, <2>2 DEF InstancesIn
  <2>3. ASSUME NEW x \in InstancesIn(t) PROVE x \in InstancesIn(st)
    <3>1. PICK l \in 1 .. Len(t) : x = t[l].instance
      BY <1>2, <2>3 DEF InstancesIn
    <3>2. l + Len(s) \in DOMAIN st /\ x = st[l + Len(s)].instance
      BY <1>2, <1>4, <3>1
    <3> QED
      BY <3>2, Zenon DEF InstancesIn
  <2> QED
    BY <2>1, <2>2, <2>3
<1>7. ASSUME NEW i, NEW n, IsLast(n, i, t)
      PROVE  HasLast(st, i, t[n])
  <2>1. n \in 1 .. Len(t) /\ t[n].instance = i /\ \A l \in 1 .. Len(t) : t[l].instance = i => l <= n
    BY <1>2, <1>7 DEF IsLast
  <2> DEFINE k == n + Len(s)
  <2>2. k \in 1 .. Len(st) /\ st[k] = t[n]
    BY <1>4, <2>1
  <2>3. ASSUME NEW l \in 1 .. Len(st), st[l].instance = i PROVE l <= k
    <3>1. CASE l \in 1 .. Len(s)
      BY <1>1, <2>1, <3>1
    <3>2. CASE l \notin 1 .. Len(s)
      <4>1. PICK x \in 1 .. Len(t) : l = x + Len(s) /\ st[l] = t[x]
        BY <1>3, <3>2
      <4>2. x <= n
        BY <2>1, <2>3, <4>1
      <4> QED
        BY <1>1, <2>1, <4>1, <4>2
    <3> QED
      BY <3>1, <3>2
  <2> HIDE DEF k
  <2>4. IsLast(k, i, st)
    BY <1>2, <2>1, <2>2, <2>3 DEF IsLast
  <2> QED
    BY <2>2, <2>4 DEF HasLast
<1>8. ASSUME NEW i, i \notin InstancesIn(t), NEW n PROVE IsLast(n, i, st) <=> IsLast(n, i, s)
  <2>1. \A l \in 1 .. Len(t) : t[l].instance # i
    BY <1>2, <1>8 DEF InstancesIn
  <2>2. \A l \in 1 .. Len(st) : st[l].instance = i => l \in 1 .. Len(s) /\ st[l] = s[l]
    BY <1>3, <2>1
  <2>3. IsLast(n, i, s) => IsLast(n, i, st)
    BY <1>2, <1>5, <2>2 DEF IsLast
  <2>4. IsLast(n, i, st) => IsLast(n, i, s)
    BY <1>2, <1>5, <2>2 DEF IsLast
  <2> QED
    BY <2>3, <2>4
<1>9. \A i, n : IsLast(n, i, s) => st[n] = s[n]
  BY <1>2, <1>5 DEF IsLast
<1> QED
  BY <1>1, <1>6, <1>7, <1>8, <1>9

LEMMA PartsOf ==
  ASSUME NEW st, NEW s, NEW t, Joins(st, s, t)
  PROVE  /\ s \in Seq(Message) /\ t \in Seq(Message)
         /\ st \in Seq(Message) /\ Len(st) = Len(s) + Len(t)
         /\ InstancesIn(st) = InstancesIn(s) \cup InstancesIn(t)
<1>1. s \in Seq(Message) /\ t \in Seq(Message)
  BY DEF Joins
<1>2. /\ st \in Seq(Message) /\ Len(st) = Len(s) + Len(t)
      /\ InstancesIn(st) = InstancesIn(s) \cup InstancesIn(t)
  BY LastOfConcat
<1> QED
  BY <1>1, <1>2

LEMMA LastOfFirst ==
  ASSUME NEW st, NEW s, NEW t, Joins(st, s, t),
         NEW i, i \notin InstancesIn(t), NEW n
  PROVE  /\ IsLast(n, i, st) <=> IsLast(n, i, s)
         /\ IsLast(n, i, s) => st[n] = s[n]
BY LastOfConcat

LEMMA LastOfSecond ==
  ASSUME NEW st, NEW s, NEW t, Joins(st, s, t), NEW i, NEW n, IsLast(n, i, t)
  PROVE  \E k : IsLast(k, i, st) /\ st[k] = t[n]
BY LastOfConcat DEF HasLast

(* The last message comes from the second part if that has one of i.       *)
LEMMA LastOfJoined ==
  ASSUME NEW st, NEW s, NEW t, Joins(st, s, t), NEW i, NEW n, IsLast(n, i, st)
  PROVE  \/ i \in InstancesIn(t) /\ \E l : IsLast(l, i, t) /\ st[n] = t[l]
         \/ i \notin InstancesIn(t) /\ IsLast(n, i, s) /\ st[n] = s[n]
<1>0. t \in Seq(Message) /\ st \in Seq(Message)
  BY PartsOf
<1>1. CASE i \in InstancesIn(t)
  <2>1. PICK l : IsLast(l, i, t)
    BY <1>0, <1>1, SomeLast
  <2>2. PICK k : IsLast(k, i, st) /\ st[k] = t[l]
    BY <2>1, LastOfSecond
  <2>3. n = k
    BY <1>0, <2>2, OneLast
  <2> QED
    BY <1>1, <2>1, <2>2, <2>3
<1>2. CASE i \notin InstancesIn(t)
  BY <1>2, LastOfFirst
<1> QED
  BY <1>1, <1>2

\* A sequence of messages about one instance, and what it ends with.
IsAbout(s, i) == s \in Seq(Message) /\ \A n \in 1 .. Len(s) : s[n].instance = i
EndsWith(s, i, m) == IsAbout(s, i) /\ Len(s) # 0 /\ s[Len(s)] = m

LEMMA LastOfOne ==
  ASSUME NEW i, NEW m, NEW s, EndsWith(s, i, m)
  PROVE  /\ s \in Seq(Message) /\ Len(s) \in Nat \ {0} /\ InstancesIn(s) = {i}
         /\ IsLast(Len(s), i, s) /\ s[Len(s)] = m
<1>1. s \in Seq(Message) /\ \A n \in 1 .. Len(s) : s[n].instance = i
  BY DEF EndsWith, IsAbout
<1>2. Len(s) \in Nat \ {0} /\ DOMAIN s = 1 .. Len(s) /\ s[Len(s)] = m
  BY <1>1, LenProperties DEF EndsWith
<1>3. InstancesIn(s) = {i}
  <2>1. \A x : x \in InstancesIn(s) <=> x = i
    BY <1>1, <1>2 DEF InstancesIn
  <2> QED
    BY <2>1
<1>4. IsLast(Len(s), i, s)
  BY <1>1, <1>2 DEF IsLast
<1> QED
  BY <1>1, <1>2, <1>3, <1>4

LEMMA EndOfConcat ==
  ASSUME NEW i, NEW m, NEW s, NEW t, IsAbout(s, i), EndsWith(t, i, m)
  PROVE  EndsWith(s \o t, i, m)
<1>1. /\ s \in Seq(Message) /\ t \in Seq(Message)
      /\ \A n \in 1 .. Len(s) : s[n].instance = i
      /\ \A n \in 1 .. Len(t) : t[n].instance = i
      /\ Len(t) # 0 /\ t[Len(t)] = m
  BY DEF EndsWith, IsAbout
<1> DEFINE st == s \o t
<1>2. /\ st \in Seq(Message) /\ Len(s) \in Nat /\ Len(t) \in Nat /\ Len(st) = Len(s) + Len(t)
      /\ \A n \in 1 .. Len(s) : st[n] = s[n]
      /\ \A n \in 1 .. Len(t) : st[n + Len(s)] = t[n]
  BY <1>1, ConcatProperties, LenProperties
<1> HIDE DEF st
<1>3. ASSUME NEW n \in 1 .. Len(st) PROVE st[n].instance = i
  <2>1. CASE n <= Len(s)
    BY <1>1, <1>2, <2>1
  <2>2. CASE n > Len(s)
    <3> DEFINE l == n - Len(s)
    <3>1. l \in 1 .. Len(t) /\ n = l + Len(s)
      BY <1>2, <2>2
    <3> HIDE DEF l
    <3>2. st[n] = t[l]
      BY <1>2, <3>1
    <3> QED
      BY <1>1, <3>1, <3>2
  <2> QED
    BY <1>2, <2>1, <2>2
<1>4. Len(st) # 0 /\ st[Len(st)] = m
  <2>1. st[Len(t) + Len(s)] = t[Len(t)]
    BY <1>1, <1>2
  <2> QED
    BY <1>1, <1>2, <2>1
<1> QED
  BY <1>2, <1>3, <1>4 DEF st, EndsWith, IsAbout

(* The head of a sequence and the rest; a prefix and the rest.              *)
LEMMA HeadAndTail ==
  ASSUME NEW s \in Seq(Message), s # <<>>
  PROVE  /\ Head(s) \in Message /\ Tail(s) \in Seq(Message) /\ <<Head(s)>> \in Seq(Message)
         /\ s = <<Head(s)>> \o Tail(s)
         /\ Len(<<Head(s)>>) = 1 /\ InstancesIn(<<Head(s)>>) = {Head(s).instance}
         /\ IsLast(1, Head(s).instance, <<Head(s)>>) /\ <<Head(s)>>[1] = Head(s)
<1> DEFINE h == Head(s)
           t == Tail(s)
           one == <<h>>
<1>1. /\ h \in Message /\ t \in Seq(Message) /\ Len(t) = Len(s) - 1 /\ h = s[1]
      /\ \A n \in 1 .. Len(t) : t[n] = s[n + 1]
  BY HeadTailProperties
<1>2. Len(s) \in Nat \ {0}
  BY LenProperties, EmptySeq
<1> HIDE DEF h, t
<1>3. one \in Seq(Message) /\ Len(one) = 1 /\ one[1] = h /\ DOMAIN one = 1 .. 1
  BY <1>1
<1> HIDE DEF one
<1>4. one \o t \in Seq(Message) /\ Len(one \o t) = Len(s)
      /\ \A n \in 1 .. Len(s) : (one \o t)[n] = s[n]
  <2> DEFINE ot == one \o t
  <2>1. /\ ot \in Seq(Message) /\ Len(ot) = Len(one) + Len(t) /\ Len(t) \in Nat
        /\ \A n \in 1 .. Len(one) : ot[n] = one[n]
        /\ \A n \in 1 .. Len(t) : ot[n + Len(one)] = t[n]
    BY <1>1, <1>3, ConcatMessages, Zenon
  <2> HIDE DEF ot
  <2>2. Len(ot) = Len(s)
    BY <1>1, <1>2, <1>3, <2>1
  <2>3. ASSUME NEW n \in 1 .. Len(s) PROVE ot[n] = s[n]
    <3>1. CASE n = 1
      BY <1>1, <1>3, <2>1, <3>1
    <3>2. CASE n # 1
      <4> DEFINE l == n - 1
      <4>1. l \in 1 .. Len(t) /\ n = l + 1
        BY <1>1, <1>2, <3>2
      <4> HIDE DEF l
      <4>2. ot[l + Len(one)] = t[l] /\ t[l] = s[l + 1]
        BY <1>1, <2>1, <4>1
      <4> QED
        BY <1>3, <4>1, <4>2
    <3> QED
      BY <3>1, <3>2
  <2> QED
    BY <2>1, <2>2, <2>3 DEF ot
<1>5. s = one \o t
  BY <1>4, SeqEqual
<1>6. InstancesIn(one) = {h.instance}
  <2>1. \A x : x \in InstancesIn(one) <=> x = h.instance
    BY <1>3 DEF InstancesIn
  <2> QED
    BY <2>1
<1>7. IsLast(1, h.instance, one)
  BY <1>3 DEF IsLast
<1> QED
  BY <1>1, <1>3, <1>5, <1>6, <1>7 DEF h, t, one

LEMMA PrefixAndRest ==
  ASSUME NEW s \in Seq(Message), NEW n \in 0 .. Len(s)
  PROVE  /\ SubSeq(s, 1, n) \in Seq(Message) /\ SubSeq(s, n + 1, Len(s)) \in Seq(Message)
         /\ s = SubSeq(s, 1, n) \o SubSeq(s, n + 1, Len(s))
         /\ Len(SubSeq(s, 1, n)) <= Len(s)
<1>1. Len(s) \in Nat
  BY LenProperties
<1> DEFINE a == SubSeq(s, 1, n)
           b == SubSeq(s, n + 1, Len(s))
<1>2. a \in Seq(Message) /\ Len(a) = n /\ \A k \in 1 .. n : a[k] = s[k]
  BY <1>1, SubSeqProperties
<1>3. /\ b \in Seq(Message) /\ Len(b) = Len(s) - n
      /\ \A k \in 1 .. Len(s) - n : b[k] = s[n + k]
  BY <1>1, SubSeqProperties
<1>4. a \o b = SubSeq(s, 1, Len(s))
  <2>1. 1 \in 1 .. Len(s) + 1 /\ n \in 1 - 1 .. Len(s) /\ Len(s) \in n .. Len(s)
    BY <1>1
  <2> QED
    BY <2>1, ConcatAdjacentSubSeq, Zenon
<1>5. s = a \o b
  BY <1>4, SubSeqFull
<1> HIDE DEF a, b
<1>6. Len(a) <= Len(s)
  BY <1>1, <1>2
<1> QED
  BY <1>2, <1>3, <1>5, <1>6, Zenon DEF a, b

-----------------------------------------------------------------------------
(* What the daemon publishes of a move.                                     *)

LEMMA PublishedMessage ==
  ASSUME NEW i \in Instances, NEW r \in Process, r.state # "zero"
  PROVE  publish_proc_event(i, r) \in Message /\ publish_proc_event(i, r).instance = i
<1> DEFINE none == [code |-> NULL]
           code == [code |-> r.exit_status]
           signal == [signal |-> SignalName(r.exit_signal)]
           Outcomes == [code : Int \cup {NULL}] \cup [signal : (1 .. 31) \cup {NULL}]
<1>1. r.state \in ProcessStates \ {"zero"} /\ r.exit_status \in Int
  BY DEF Process
<1>2. none \in Outcomes
  OBVIOUS
<1>3. code \in Outcomes
  BY <1>1
<1>4. signal \in Outcomes
  BY DEF SignalName
<1>5. Outcome(r) \in {none, code, signal}
  BY DEF Outcome
<1> HIDE DEF none, code, signal
<1>6. Outcome(r) \in Outcomes
  BY <1>2, <1>3, <1>4, <1>5
<1> HIDE DEF Outcomes
<1>7. [instance |-> i, event |-> r.state, outcome |-> Outcome(r)] \in
        [instance : Instances, event : ProcessStates \ {"zero"}, outcome : Outcomes]
  BY <1>1, <1>6
<1> QED
  BY <1>7 DEF publish_proc_event, Message, Outcomes

LEMMA OneMessage ==
  ASSUME NEW i \in Instances, NEW r \in Process, r.state # "zero"
  PROVE  EndsWith(<<publish_proc_event(i, r)>>, i, publish_proc_event(i, r))
<1> DEFINE m == publish_proc_event(i, r)
           s == <<m>>
<1>1. m \in Message /\ m.instance = i
  BY PublishedMessage
<1> HIDE DEF m
<1>2. s \in Seq(Message) /\ Len(s) = 1 /\ s[1] = m
  BY <1>1
<1> HIDE DEF s
<1>3. EndsWith(s, i, m)
  BY <1>1, <1>2 DEF EndsWith, IsAbout
<1> QED
  BY <1>3 DEF s, m

(* Whatever a move publishes on the way, it ends with the state moved to.   *)
LEMMA MovePublished ==
  ASSUME NEW i \in Instances, NEW from, NEW to \in Process, to.state # "zero"
  PROVE  EndsWith(pn_proc_state_cb(i, from, to), i, publish_proc_event(i, to))
<1> DEFINE m == publish_proc_event(i, to)
           flap == [to EXCEPT !.state = "backoff"]
           b == publish_proc_event(i, flap)
<1>1. EndsWith(<<m>>, i, m)
  BY OneMessage
<1>2. flap \in Process /\ flap.state # "zero"
  BY DEF Process, ProcessStates
<1> HIDE DEF flap
<1>3. EndsWith(<<b>>, i, b)
  BY <1>2, OneMessage
<1>4. CASE Flapping(from, to.state)
  <2>1. pn_proc_state_cb(i, from, to) = <<b, m>>
    BY <1>4, Zenon DEF pn_proc_state_cb, flap
  <2> HIDE DEF m, b
  <2>2. <<b, m>> = <<b>> \o <<m>>
    OBVIOUS
  <2>3. IsAbout(<<b>>, i)
    BY <1>3 DEF EndsWith
  <2>4. EndsWith(<<b>> \o <<m>>, i, m)
    BY <1>1, <2>3, EndOfConcat
  <2> QED
    BY <2>1, <2>2, <2>4, Zenon DEF m
<1>5. CASE ~Flapping(from, to.state)
  <2>1. pn_proc_state_cb(i, from, to) = <<m>>
    BY <1>5, Zenon DEF pn_proc_state_cb
  <2> QED
    BY <1>1, <2>1, Zenon
<1> QED
  BY <1>4, <1>5

-----------------------------------------------------------------------------
(* A step of the daemon: the record of i becomes r, and r is published.     *)

LEMMA OutcomeIsEnd ==
  ASSUME NEW r, NEW end \in Statuses \cup {NULL}, IsRecorded(r, end),
         r.state \notin {"exited", "backoff"}
  PROVE  Outcome(r) = EndOf(end)
<1>1. CASE end = NULL
  BY <1>1 DEF IsRecorded, Outcome, EndOf
<1>2. CASE end # NULL /\ end.signaled
  <2>1. r.exit_signal = end.value /\ end.value # 0
    BY <1>2, StreamAssumption DEF IsRecorded
  <2> QED
    BY <1>2, <2>1 DEF Outcome, EndOf
<1>3. CASE end # NULL /\ ~end.signaled
  BY <1>3 DEF IsRecorded, Outcome, EndOf
<1> QED
  BY <1>1, <1>2, <1>3

LEMMA DaemonInv ==
  ASSUME IInv, NEW i \in Instances,
         NEW r \in Process, r.state \in Classes, proc' = [proc EXCEPT ![i] = r],
         NEW end \in Statuses \cup {NULL}, ended' = [ended EXCEPT ![i] = end],
         IsRecorded(r, end),
         NEW events, EndsWith(events, i, publish_proc_event(i, r)), zmq_send(i, events),
         state_cb' \in BOOLEAN, UNCHANGED <<web, lost>>
  PROVE  IInv'
<1> DEFINE m == publish_proc_event(i, r)
<1>1. /\ TypeOK /\ ConnectionsAreListeners /\ RecordsAreTrue /\ StreamIsTrue /\ PageIsTrue
  BY DEF IInv
<1>2. UNCHANGED <<subscribed, listeners, page, lost>>
  BY DEF web
<1>3. /\ events \in Seq(Message) /\ Len(events) \in Nat \ {0} /\ InstancesIn(events) = {i}
      /\ IsLast(Len(events), i, events) /\ events[Len(events)] = m
  BY LastOfOne
<1>4. eventstream \in Seq(Message) /\ proc \in [Instances -> Process]
      /\ ended \in [Instances -> Statuses \cup {NULL}]
  BY <1>1 DEF TypeOK
<1>5. /\ proc'[i] = r /\ ended'[i] = end
      /\ \A j \in Instances \ {i} : proc'[j] = proc[j] /\ ended'[j] = ended[j]
  BY <1>4
<1>6. m.event = r.state /\ (r.state # "exited" => m.outcome = EndOf(end))
  BY OutcomeIsEnd DEF publish_proc_event, Classes
<1> HIDE DEF m
<1>7. RecordsAreTrue'
  <2>1. \A j \in Instances : proc'[j].state \in {"zero"} \cup Classes /\ IsRecorded(proc'[j], ended'[j])
    BY <1>1, <1>5 DEF RecordsAreTrue
  <2> QED
    BY <2>1 DEF RecordsAreTrue, IsRecorded
<1>8. ConnectionsAreListeners'
  BY <1>1, <1>2 DEF ConnectionsAreListeners
<1>9. CASE subscribed
  <2>1. /\ Len(eventstream) + Len(events) <= QueueBound
        /\ eventstream' = eventstream \o events /\ gap' = gap \ {i}
    BY <1>9 DEF zmq_send
  <2>2. Joins(eventstream', eventstream, events)
    BY <1>3, <1>4, <2>1 DEF Joins
  <2>3. /\ eventstream' \in Seq(Message) /\ Len(eventstream') <= QueueBound
        /\ InstancesIn(eventstream') = InstancesIn(eventstream) \cup {i}
    BY <1>3, <2>1, <2>2, PartsOf
  <2>4. TypeOK'
    BY <1>1, <1>2, <2>1, <2>3 DEF TypeOK
  <2>5. StreamIsTrue'
    <3>1. ASSUME NEW j \in Instances, j \notin gap'
          PROVE  Tells(eventstream', j, proc'[j].state, ended'[j])
      <4> SUFFICES ASSUME NEW n \in DOMAIN eventstream', IsLast(n, j, eventstream')
                   PROVE  /\ eventstream'[n].event = proc'[j].state
                          /\ eventstream'[n].event # "exited" =>
                               eventstream'[n].outcome = EndOf(ended'[j])
        BY DEF Tells
      <4>1. CASE j = i
        <5>1. PICK l : IsLast(l, i, events) /\ eventstream'[n] = events[l]
          BY <1>3, <2>2, <4>1, LastOfJoined
        <5>2. l = Len(events)
          BY <1>3, <5>1, OneLast
        <5> QED
          BY <1>3, <1>5, <1>6, <4>1, <5>1, <5>2
      <4>2. CASE j # i
        <5>1. IsLast(n, j, eventstream) /\ eventstream'[n] = eventstream[n]
          BY <1>3, <2>2, <4>2, LastOfJoined
        <5>2. j \notin gap /\ n \in DOMAIN eventstream
          BY <2>1, <3>1, <4>2, <5>1 DEF IsLast
        <5>3. Tells(eventstream, j, proc[j].state, ended[j])
          BY <1>1, <5>2 DEF StreamIsTrue
        <5> QED
          BY <1>5, <4>2, <5>1, <5>2, <5>3 DEF Tells
      <4> QED
        BY <4>1, <4>2
    <3> QED
      BY <3>1 DEF StreamIsTrue
  <2>6. PageIsTrue'
    <3> SUFFICES ASSUME NEW p \in Pages, NEW j \in Instances,
                        j \notin gap', j \notin lost'[p], j \notin InstancesIn(eventstream')
                 PROVE  Knows(page'[p], j, proc'[j].state)
      BY DEF PageIsTrue
    <3>1. j # i /\ j \notin gap /\ j \notin lost[p] /\ j \notin InstancesIn(eventstream)
      BY <1>2, <2>1, <2>3
    <3>2. proc'[j] = proc[j]
      BY <1>5, <3>1
    <3> QED
      BY <1>1, <1>2, <3>1, <3>2 DEF PageIsTrue
  <2> QED
    BY <1>7, <1>8, <2>4, <2>5, <2>6 DEF IInv
<1>10. CASE ~subscribed
  <2>1. gap' = gap \cup {i} /\ eventstream' = eventstream
    BY <1>10 DEF zmq_send
  <2>2. TypeOK'
    BY <1>1, <1>2, <2>1 DEF TypeOK
  <2>3. \A j \in Instances : j \notin gap' => j \notin gap /\ proc'[j] = proc[j] /\ ended'[j] = ended[j]
    BY <1>5, <2>1
  <2>4. StreamIsTrue'
    BY <1>1, <2>1, <2>3 DEF StreamIsTrue
  <2>5. PageIsTrue'
    BY <1>1, <1>2, <2>1, <2>3 DEF PageIsTrue
  <2> QED
    BY <1>7, <1>8, <2>2, <2>4, <2>5 DEF IInv
<1> QED
  BY <1>9, <1>10

LEMMA MoveKeepsEnd ==
  ASSUME NEW p \in Process, NEW to \in ProcessStates
  PROVE  /\ pn_proc_move_state(p, to).exit_status = p.exit_status
         /\ pn_proc_move_state(p, to).exit_signal = p.exit_signal
BY DEF pn_proc_move_state, Process

LEMMA ExitedRecordsEnd ==
  ASSUME NEW p \in Process, NEW status \in Statuses
  PROVE  IsRecorded(pn_proc_exited(p, status), status)
<1> DEFINE code == IF status.signaled THEN -1 ELSE status.value
           sig  == IF status.signaled THEN status.value ELSE 0
           q    == [p EXCEPT !.exit_status = code, !.exit_signal = sig]
<1>1. status \in WaitStatus /\ status # NULL
  BY StreamAssumption
<1>2. code \in Int /\ sig \in Int
  BY <1>1 DEF WaitStatus
<1>3. q \in Process /\ q.exit_status = code /\ q.exit_signal = sig
  <2> HIDE DEF code, sig
  <2> QED
    BY <1>2 DEF Process
<1>4. pn_proc_exited(p, status) = pn_proc_move_state(q, "exited") /\ "exited" \in ProcessStates
  BY DEF pn_proc_exited, ProcessStates
<1> HIDE DEF q
<1>5. /\ pn_proc_exited(p, status).exit_status = code
      /\ pn_proc_exited(p, status).exit_signal = sig
  BY <1>3, <1>4, MoveKeepsEnd
<1> QED
  BY <1>1, <1>5 DEF IsRecorded

\* What the invariant says of one instance.
LEMMA OfInstance ==
  ASSUME IInv, NEW i \in Instances
  PROVE  /\ proc[i] \in Process /\ ended[i] \in Statuses \cup {NULL}
         /\ IsRecorded(proc[i], ended[i])
         /\ state_cb \in BOOLEAN /\ ended = [ended EXCEPT ![i] = ended[i]]
         /\ proc \in [Instances -> Process] /\ ended \in [Instances -> Statuses \cup {NULL}]
BY DEF IInv, TypeOK, RecordsAreTrue

\* A move that keeps how the instance ended.
LEMMA MoveInv ==
  ASSUME IInv, NEW i \in Instances,
         NEW r \in Process, r.state \in Classes, proc' = [proc EXCEPT ![i] = r],
         r.exit_status = proc[i].exit_status, r.exit_signal = proc[i].exit_signal,
         NEW events, EndsWith(events, i, publish_proc_event(i, r)), zmq_send(i, events),
         state_cb' \in BOOLEAN, UNCHANGED <<web, ended, lost>>
  PROVE  IInv'
<1>1. ended[i] \in Statuses \cup {NULL} /\ ended' = [ended EXCEPT ![i] = ended[i]]
  BY OfInstance
<1>2. IsRecorded(r, ended[i])
  BY OfInstance DEF IsRecorded
<1> QED
  BY <1>1, <1>2, DaemonInv

LEMMA StartInv ==
  ASSUME IInv, NEW i \in Instances, start(i)
  PROVE  IInv'
<1> DEFINE new == pn_proc_move_state(proc[i], "new")
           r == pn_proc_move_state(new, "starting")
           before == IF state_cb THEN pn_proc_state_cb(i, proc[i], new) ELSE <<>>
           starting == pn_proc_state_cb(i, new, r)
<1>1. proc[i] \in Process /\ proc \in [Instances -> Process] /\ state_cb \in BOOLEAN
  BY OfInstance
<1>2. "new" \in ProcessStates /\ "starting" \in ProcessStates /\ "starting" \in Classes
  BY DEF ProcessStates, Classes
<1>3. /\ new \in Process /\ new.state = "new"
      /\ new.exit_status = proc[i].exit_status /\ new.exit_signal = proc[i].exit_signal
  BY <1>1, <1>2, MoveState, MoveKeepsEnd
<1>4. proc' = [proc EXCEPT ![i] = r] /\ proc'[i] = r
  BY <1>1 DEF start, Begin
<1>5. zmq_send(i, before \o starting) /\ state_cb' = TRUE /\ UNCHANGED <<web, ended, lost>>
  BY <1>4 DEF start
<1> HIDE DEF new
<1>6. /\ r \in Process /\ r.state = "starting"
      /\ r.exit_status = proc[i].exit_status /\ r.exit_signal = proc[i].exit_signal
  BY <1>2, <1>3, MoveState, MoveKeepsEnd
<1>7. IsAbout(before, i)
  <2>1. EndsWith(pn_proc_state_cb(i, proc[i], new), i, publish_proc_event(i, new))
    BY <1>3, MovePublished
  <2>2. IsAbout(pn_proc_state_cb(i, proc[i], new), i)
    BY <2>1 DEF EndsWith
  <2>3. IsAbout(<<>>, i)
    BY DEF IsAbout
  <2> QED
    BY <2>2, <2>3
<1> HIDE DEF r, before
<1>8. EndsWith(starting, i, publish_proc_event(i, r))
  BY <1>6, MovePublished
<1> HIDE DEF starting
<1> DEFINE events == before \o starting
<1>9. EndsWith(events, i, publish_proc_event(i, r))
  BY <1>7, <1>8, EndOfConcat
<1>10. zmq_send(i, events)
  BY <1>5
<1> HIDE DEF events
<1> QED
  BY <1>2, <1>4, <1>5, <1>6, <1>9, <1>10, MoveInv

\* A restart and the success of a start.
LEMMA TimerInv ==
  ASSUME IInv, NEW i \in Instances, child_timer_cb(i) \/ running_state_timer_cb(i)
  PROVE  IInv'
<1>1. proc[i] \in Process /\ proc \in [Instances -> Process] /\ state_cb \in BOOLEAN
  BY OfInstance
<1>2. PICK to \in {"starting", "running"} :
        /\ proc' = [proc EXCEPT ![i] = pn_proc_move_state(proc[i], to)]
        /\ zmq_send(i, pn_proc_state_cb(i, proc[i], proc'[i]))
        /\ UNCHANGED <<web, state_cb, ended, lost>>
  BY DEF child_timer_cb, running_state_timer_cb, Restart, Settle
<1>3. to \in ProcessStates /\ to \in Classes /\ to # "zero"
  BY <1>2 DEF ProcessStates, Classes
<1> DEFINE r == pn_proc_move_state(proc[i], to)
           events == pn_proc_state_cb(i, proc[i], r)
<1>4. /\ r \in Process /\ r.state = to
      /\ r.exit_status = proc[i].exit_status /\ r.exit_signal = proc[i].exit_signal
  BY <1>1, <1>3, MoveState, MoveKeepsEnd
<1>5. proc' = [proc EXCEPT ![i] = r] /\ proc'[i] = r
  BY <1>1, <1>2
<1>6. zmq_send(i, events) /\ state_cb' \in BOOLEAN /\ UNCHANGED <<web, ended, lost>>
  BY <1>1, <1>2, <1>5
<1> HIDE DEF r
<1>7. EndsWith(events, i, publish_proc_event(i, r))
  BY <1>3, <1>4, MovePublished
<1> HIDE DEF events
<1> QED
  BY <1>3, <1>4, <1>5, <1>6, <1>7, MoveInv

LEMMA ChildEndsInv ==
  ASSUME IInv, NEW i \in Instances, NEW status \in Statuses, child_proc_cb(i, status)
  PROVE  IInv'
<1>1. /\ proc[i] \in Process /\ proc \in [Instances -> Process] /\ state_cb \in BOOLEAN
      /\ ended \in [Instances -> Statuses \cup {NULL}]
  BY OfInstance
<1>2. status \in WaitStatus
  BY StreamAssumption
<1> DEFINE r == pn_proc_exited(proc[i], status)
           events == pn_proc_state_cb(i, proc[i], r)
<1>3. r \in Process /\ r.state = "exited" /\ IsRecorded(r, status)
  BY <1>1, <1>2, Exited, ExitedRecordsEnd
<1>4. proc' = [proc EXCEPT ![i] = r] /\ proc'[i] = r
  BY <1>1 DEF child_proc_cb, End
<1>5. /\ zmq_send(i, events) /\ ended' = [ended EXCEPT ![i] = status]
      /\ state_cb' \in BOOLEAN /\ UNCHANGED <<web, lost>>
  BY <1>1, <1>4 DEF child_proc_cb
<1> HIDE DEF r
<1>6. EndsWith(events, i, publish_proc_event(i, r))
  BY <1>3, MovePublished
<1> HIDE DEF events
<1>7. r.state \in Classes
  BY <1>3 DEF Classes
<1> QED
  BY <1>3, <1>4, <1>5, <1>6, <1>7, DaemonInv

-----------------------------------------------------------------------------
(* The steps of the links, the web server and the pages: no record changes. *)

LEMMA RecordsStay ==
  ASSUME IInv, UNCHANGED <<proc, ended>>
  PROVE  RecordsAreTrue'
BY DEF IInv, RecordsAreTrue, IsRecorded

LEMMA SubscribesInv ==
  ASSUME IInv, Subscribes
  PROVE  IInv'
<1>1. UNCHANGED <<proc, state_cb, eventstream, listeners, page, ended, gap, lost>>
  BY DEF Subscribes, history
<1>2. TypeOK' /\ ConnectionsAreListeners'
  BY <1>1 DEF Subscribes, IInv, TypeOK, ConnectionsAreListeners
<1>3. StreamIsTrue' /\ PageIsTrue'
  BY <1>1 DEF IInv, StreamIsTrue, PageIsTrue
<1> QED
  BY <1>1, <1>2, <1>3, RecordsStay DEF IInv

(* What is cut off is in gap, what arrives ends as before.                  *)
LEMMA LinkBreaksInv ==
  ASSUME IInv, LinkBreaks
  PROVE  IInv'
<1>1. PICK n \in 0 .. Len(eventstream) :
        /\ eventstream' = SubSeq(eventstream, 1, n)
        /\ gap' = gap \cup InstancesIn(SubSeq(eventstream, n + 1, Len(eventstream)))
  BY DEF LinkBreaks
<1> DEFINE rest == SubSeq(eventstream, n + 1, Len(eventstream))
<1>2. /\ UNCHANGED <<proc, state_cb, listeners, page, ended, lost>> /\ subscribed' = FALSE
      /\ TypeOK /\ StreamIsTrue /\ PageIsTrue /\ ConnectionsAreListeners
  BY DEF LinkBreaks, IInv
<1>3. eventstream \in Seq(Message) /\ Len(eventstream) <= QueueBound /\ QueueBound \in Nat
  BY <1>2, StreamAssumption DEF TypeOK
<1>4. /\ eventstream' \in Seq(Message) /\ rest \in Seq(Message)
      /\ eventstream = eventstream' \o rest /\ Len(eventstream') <= Len(eventstream)
  BY <1>1, <1>3, PrefixAndRest
<1>5. gap' = gap \cup InstancesIn(rest)
  BY <1>1
<1> HIDE DEF rest
<1>6. Joins(eventstream, eventstream', rest)
  BY <1>4 DEF Joins
<1>7. InstancesIn(eventstream) = InstancesIn(eventstream') \cup InstancesIn(rest)
  BY <1>6, PartsOf
<1>8. InstancesIn(rest) \subseteq Instances
  <2>1. \A k \in DOMAIN rest : rest[k] \in Message
    BY <1>4, LenProperties
  <2> QED
    BY <2>1 DEF InstancesIn, Message
<1>9. TypeOK'
  <2>1. Len(eventstream') <= QueueBound
    BY <1>3, <1>4, LenProperties
  <2> QED
    BY <1>2, <1>4, <1>5, <1>8, <2>1 DEF TypeOK
<1>10. ConnectionsAreListeners'
  BY <1>2 DEF ConnectionsAreListeners
<1>11. StreamIsTrue'
  <2> SUFFICES ASSUME NEW i \in Instances, i \notin gap'
               PROVE  Tells(eventstream', i, proc'[i].state, ended'[i])
    BY DEF StreamIsTrue
  <2>1. Tells(eventstream, i, proc[i].state, ended[i]) /\ i \notin InstancesIn(rest)
    BY <1>2, <1>5 DEF StreamIsTrue
  <2>2. ASSUME NEW k \in DOMAIN eventstream', IsLast(k, i, eventstream')
        PROVE  IsLast(k, i, eventstream) /\ eventstream[k] = eventstream'[k] /\ k \in DOMAIN eventstream
    <3>1. IsLast(k, i, eventstream) /\ eventstream[k] = eventstream'[k]
      BY <1>6, <2>1, <2>2, LastOfFirst
    <3> QED
      BY <3>1 DEF IsLast
  <2> QED
    BY <1>2, <2>1, <2>2 DEF Tells
<1>12. PageIsTrue'
  BY <1>2, <1>5, <1>7 DEF PageIsTrue
<1> QED
  BY <1>2, <1>9, <1>10, <1>11, <1>12, RecordsStay DEF IInv

LEMMA OfPage ==
  ASSUME IInv, NEW p \in Pages
  PROVE  /\ page[p] \in Page /\ page[p].inbox \in Seq(Message) /\ page[p].shown \in Shown
         /\ page[p].conn \in Nat /\ page[p].handlers \in Nat \ {0}
         /\ page \in [Pages -> Page]
         /\ page[p].inbox # <<>> => page[p].up
BY StreamAssumption DEF IInv, TypeOK, Page, Shown

(* The step a page takes alone, when it changes neither records nor stream. *)
LEMMA OnePageInv ==
  ASSUME IInv, UNCHANGED <<proc, state_cb, subscribed, eventstream, ended, gap>>,
         NEW p \in Pages, NEW pg \in Page, page' = [page EXCEPT ![p] = pg],
         pg.inbox # <<>> => pg.up,
         NEW missed \in SUBSET Instances, lost' = [lost EXCEPT ![p] = missed],
         listeners' \subseteq Pages \X (1 .. MaxConnections), ConnectionsAreListeners',
         \A i \in Instances :
           i \notin gap /\ i \notin missed /\ i \notin InstancesIn(eventstream)
             => Knows(pg, i, proc[i].state)
  PROVE  IInv'
<1>1. TypeOK /\ StreamIsTrue /\ PageIsTrue
  BY DEF IInv
<1>2. page \in [Pages -> Page] /\ lost \in [Pages -> SUBSET Instances]
  BY <1>1 DEF TypeOK
<1>3. /\ page'[p] = pg /\ lost'[p] = missed
      /\ \A q \in Pages \ {p} : page'[q] = page[q] /\ lost'[q] = lost[q]
  BY <1>2
<1>4. TypeOK'
  <2>1. page' \in [Pages -> Page] /\ lost' \in [Pages -> SUBSET Instances]
    BY <1>2
  <2>2. \A q \in Pages : page'[q].inbox # <<>> => page'[q].up
    BY <1>1, <1>3 DEF TypeOK
  <2> QED
    BY <1>1, <2>1, <2>2 DEF TypeOK
<1>5. StreamIsTrue'
  BY <1>1 DEF StreamIsTrue
<1>6. PageIsTrue'
  <2> SUFFICES ASSUME NEW q \in Pages, NEW i \in Instances,
                      i \notin gap, i \notin lost'[q], i \notin InstancesIn(eventstream)
               PROVE  Knows(page'[q], i, proc[i].state)
    BY DEF PageIsTrue
  <2>1. CASE q = p
    BY <1>3, <2>1
  <2>2. CASE q # p
    BY <1>1, <1>3, <2>2 DEF PageIsTrue
  <2> QED
    BY <2>1, <2>2
<1> QED
  BY <1>4, <1>5, <1>6, RecordsStay DEF IInv

LEMMA LostStays ==
  ASSUME IInv, NEW p \in Pages, lost' = lost
  PROVE  lost[p] \in SUBSET Instances /\ lost' = [lost EXCEPT ![p] = lost[p]]
BY DEF IInv, TypeOK

(* A page has no more connections than there are listeners, so the next one *)
(* is below the bound as long as they are.                                  *)
LEMMA ConnectionBelow ==
  ASSUME IInv, NEW p \in Pages, Cardinality(listeners) < MaxConnections
  PROVE  page[p].conn + 1 \in 1 .. MaxConnections
<1> DEFINE n == page[p].conn
           own == {p} \X (1 .. n)
<1>1. n \in Nat /\ MaxConnections \in Nat
  BY OfPage, StreamAssumption
<1>2. IsFiniteSet(listeners) /\ own \in SUBSET listeners
  BY DEF IInv, ConnectionsAreListeners
<1> HIDE DEF n
<1>3. Cardinality(own) = n
  <2>1. IsFiniteSet({p}) /\ Cardinality({p}) = 1
    BY FS_Singleton
  <2>2. IsFiniteSet(1 .. n) /\ Cardinality(1 .. n) = n
    BY <1>1, FS_Interval
  <2>3. Cardinality(own) = Cardinality({p}) * Cardinality(1 .. n)
    BY <2>1, <2>2, FS_Product
  <2> QED
    BY <1>1, <2>1, <2>2, <2>3
<1> HIDE DEF own
<1>4. Cardinality(own) <= Cardinality(listeners)
  BY <1>2, FS_Subset
<1>5. Cardinality(listeners) \in Nat
  BY <1>2, FS_CardinalityType
<1> QED
  BY <1>1, <1>3, <1>4, <1>5 DEF n

LEMMA new_socketio_clientInv ==
  ASSUME IInv, NEW p \in Pages, new_socketio_client(p)
  PROVE  IInv'
<1> DEFINE n == page[p].conn
           pg == [page[p] EXCEPT !.conn = n + 1, !.up = TRUE]
           x == <<p, n + 1>>
<1>1. /\ page' = [page EXCEPT ![p] = pg] /\ Cardinality(listeners) < MaxConnections
      /\ listeners' = listeners \cup {x}
      /\ UNCHANGED <<proc, state_cb, subscribed, eventstream, ended, gap, lost>>
  <2>1. page' = [page EXCEPT ![p].conn = @ + 1, ![p].up = TRUE] /\ page \in [Pages -> Page]
    BY OfPage DEF new_socketio_client
  <2>2. page' = [page EXCEPT ![p] = pg]
    BY <2>1
  <2> QED
    BY <2>2 DEF new_socketio_client, history
<1>2. page[p] \in Page /\ n \in Nat /\ MaxConnections \in Nat /\ page \in [Pages -> Page]
  BY OfPage, StreamAssumption
<1>3. n + 1 \in 1 .. MaxConnections
  BY <1>1, ConnectionBelow
<1>4. /\ pg \in Page /\ pg.up /\ pg.conn = n + 1
      /\ pg.inbox = page[p].inbox /\ pg.shown = page[p].shown
  <2> DEFINE conn == n + 1
             on == TRUE
  <2>1. conn \in 0 .. MaxConnections /\ on \in BOOLEAN
    BY <1>2, <1>3
  <2>2. pg = [page[p] EXCEPT !.conn = conn, !.up = on]
    OBVIOUS
  <2> HIDE DEF n, conn, on, pg
  <2>3. /\ pg \in Page /\ pg.up = on /\ pg.conn = conn
        /\ pg.inbox = page[p].inbox /\ pg.shown = page[p].shown
    BY <1>2, <2>1, <2>2 DEF Page
  <2> QED
    BY <2>3 DEF conn, on
<1>5. page'[p] = pg /\ \A q \in Pages \ {p} : page'[q] = page[q]
  BY <1>1, <1>2
<1> HIDE DEF pg
<1>6. ConnectionsAreListeners'
  <2>1. /\ IsFiniteSet(listeners) /\ Cardinality(listeners) \in Nat
        /\ \A q \in Pages : {q} \X (1 .. page[q].conn) \subseteq listeners
    BY FS_CardinalityType DEF IInv, ConnectionsAreListeners
  <2>2. /\ IsFiniteSet(listeners')
        /\ Cardinality(listeners') = IF x \in listeners THEN Cardinality(listeners)
                                     ELSE Cardinality(listeners) + 1
    BY <1>1, <2>1, FS_AddElement
  <2>3. Cardinality(listeners') <= MaxConnections
    BY <1>1, <1>2, <2>1, <2>2
  <2>4. ASSUME NEW q \in Pages, NEW k \in 1 .. page'[q].conn PROVE <<q, k>> \in listeners'
    <3>1. CASE q = p /\ k = n + 1
      BY <1>1, <3>1
    <3>2. CASE q = p /\ k # n + 1
      <4>1. k \in 1 .. n
        BY <1>2, <1>4, <1>5, <2>4, <3>2
      <4> QED
        BY <1>1, <2>1, <3>2, <4>1
    <3>3. CASE q # p
      BY <1>1, <1>5, <2>1, <2>4, <3>3
    <3> QED
      BY <3>1, <3>2, <3>3
  <2> QED
    BY <2>2, <2>3, <2>4 DEF ConnectionsAreListeners
<1>7. listeners' \subseteq Pages \X (1 .. MaxConnections)
  BY <1>1, <1>3 DEF IInv, TypeOK
<1>8. \A i \in Instances :
        i \notin gap /\ i \notin lost[p] /\ i \notin InstancesIn(eventstream)
          => Knows(pg, i, proc[i].state)
  BY <1>4 DEF IInv, PageIsTrue, Knows
<1>9. lost[p] \in SUBSET Instances /\ lost' = [lost EXCEPT ![p] = lost[p]]
  BY <1>1, LostStays
<1> QED
  BY <1>1, <1>4, <1>6, <1>7, <1>8, <1>9, OnePageInv

\* A page that has no more connections than before.
LEMMA ListenersStay ==
  ASSUME IInv, NEW p \in Pages, NEW pg \in Page, page' = [page EXCEPT ![p] = pg],
         pg.conn = page[p].conn, listeners' = listeners
  PROVE  listeners' \subseteq Pages \X (1 .. MaxConnections) /\ ConnectionsAreListeners'
<1>1. \A q \in Pages : page'[q].conn = page[q].conn
  BY OfPage
<1> QED
  BY <1>1 DEF IInv, TypeOK, ConnectionsAreListeners

LEMMA connectInv ==
  ASSUME IInv, NEW p \in Pages, connect(p)
  PROVE  IInv'
<1> DEFINE old == page[p]
           pg == [old EXCEPT !.up = FALSE, !.handlers = 2 * old.handlers, !.inbox = <<>>]
           missed == lost[p] \cup InstancesIn(old.inbox)
<1>1. /\ page' = [page EXCEPT ![p] = pg] /\ lost' = [lost EXCEPT ![p] = missed]
      /\ UNCHANGED <<proc, state_cb, subscribed, eventstream, listeners, ended, gap>>
  <2>1. page \in [Pages -> Page]
    BY OfPage
  <2>2. lost \in [Pages -> SUBSET Instances]
    BY DEF IInv, TypeOK
  <2>3. page' = [page EXCEPT ![p] = pg]
    BY <2>1 DEF connect
  <2>4. lost' = [lost EXCEPT ![p] = missed]
    BY <2>2 DEF connect
  <2> QED
    BY <2>3, <2>4 DEF connect
<1>2. old \in Page /\ old.handlers \in Nat \ {0} /\ old.inbox \in Seq(Message)
  BY OfPage
<1>3. missed \in SUBSET Instances
  <2>1. \A n \in DOMAIN old.inbox : old.inbox[n] \in Message
    BY <1>2, LenProperties
  <2>2. lost[p] \in SUBSET Instances
    BY DEF IInv, TypeOK
  <2> QED
    BY <2>1, <2>2 DEF InstancesIn, Message
<1>4. /\ pg \in Page /\ pg.inbox = <<>> /\ pg.conn = old.conn /\ pg.shown = old.shown
  <2> DEFINE handlers == 2 * old.handlers
             empty == <<>>
             off == FALSE
  <2>1. empty \in Seq(Message) /\ handlers \in Nat \ {0} /\ off \in BOOLEAN
    BY <1>2
  <2>2. pg = [old EXCEPT !.up = off, !.handlers = handlers, !.inbox = empty]
    OBVIOUS
  <2> HIDE DEF old, handlers, empty, off, pg
  <2>3. pg \in Page /\ pg.inbox = empty /\ pg.conn = old.conn /\ pg.shown = old.shown
    BY <1>2, <2>1, <2>2 DEF Page
  <2> QED
    BY <2>3 DEF empty
<1>5. ASSUME NEW i \in Instances, i \notin gap, i \notin missed, i \notin InstancesIn(eventstream)
      PROVE  Knows(pg, i, proc[i].state)
  <2>1. Knows(old, i, proc[i].state)
    BY <1>5 DEF IInv, PageIsTrue
  <2> QED
    BY <1>4, <1>5, <2>1 DEF Knows
<1> HIDE DEF pg, missed
<1>6. listeners' \subseteq Pages \X (1 .. MaxConnections) /\ ConnectionsAreListeners'
  BY <1>1, <1>4, ListenersStay
<1> QED
  BY <1>1, <1>3, <1>4, <1>5, <1>6, OnePageInv

LEMMA ReloadInv ==
  ASSUME IInv, NEW p \in Pages, Reload(p)
  PROVE  IInv'
<1> DEFINE pg == [NewPage EXCEPT !.conn = page[p].conn]
<1>1. /\ page' = [page EXCEPT ![p] = pg] /\ lost' = [lost EXCEPT ![p] = Instances]
      /\ UNCHANGED <<proc, state_cb, subscribed, eventstream, listeners, ended, gap>>
  BY DEF Reload
<1>2. page[p].conn \in 0 .. MaxConnections
  BY OfPage DEF Page
<1>3. pg \in Page /\ pg.inbox = <<>> /\ pg.conn = page[p].conn
  <2> DEFINE empty == <<>>
             off == FALSE
             nothing == [i \in Instances |-> {}]
             conn == page[p].conn
             new == [conn |-> 0, up |-> off, inbox |-> empty, handlers |-> 1, shown |-> nothing]
  <2>1. pg = [new EXCEPT !.conn = conn]
    BY Zenon DEF NewPage
  <2>2. /\ empty \in Seq(Message) /\ off \in BOOLEAN /\ nothing \in [Instances -> SUBSET Classes]
        /\ conn \in 0 .. MaxConnections /\ 0 \in 0 .. MaxConnections /\ 1 \in Nat \ {0}
    BY <1>2, StreamAssumption
  <2> HIDE DEF pg, empty, nothing, conn, off
  <2>3. new \in Page /\ new.inbox = empty
    BY <2>2 DEF Page
  <2> HIDE DEF new
  <2>4. pg \in Page /\ pg.inbox = empty /\ pg.conn = conn
    BY <2>1, <2>2, <2>3 DEF Page
  <2> QED
    BY <2>4 DEF empty, conn
<1> HIDE DEF pg
<1>4. listeners' \subseteq Pages \X (1 .. MaxConnections) /\ ConnectionsAreListeners'
  BY <1>1, <1>3, ListenersStay
<1> QED
  BY <1>1, <1>3, <1>4, OnePageInv

(* Handled any number of times, a message leaves its own class.             *)
LEMMA HandledMessage ==
  ASSUME NEW shown \in Shown, NEW m \in Message, NEW k \in Nat \ {0},
         NEW handled, handled = [n \in 1 .. k |-> m], NEW i \in Instances
  PROVE  /\ Updated(shown, handled) \in Shown
         /\ m.instance # i => Updated(shown, handled)[i] = shown[i]
         /\ m.instance = i /\ m.event \in Classes => Updated(shown, handled)[i] = {m.event}
<1>1. handled \in Seq(Message) /\ Len(handled) = k /\ \A n \in 1 .. k : handled[n] = m
  OBVIOUS
<1>2. DOMAIN handled = 1 .. k /\ k \in 1 .. k
  OBVIOUS
<1>3. m.instance # i => i \notin InstancesIn(handled)
  BY <1>1, <1>2 DEF InstancesIn
<1>4. m.instance = i => IsLast(k, i, handled) /\ handled[k] = m
  BY <1>1, <1>2 DEF IsLast
<1> QED
  BY <1>1, <1>3, <1>4, LastUpdateDecides

LEMMA OneMessageSeq ==
  ASSUME NEW m \in Message, NEW one, one = <<m>>
  PROVE  /\ one \in Seq(Message) /\ Len(one) = 1 /\ InstancesIn(one) = {m.instance}
         /\ \A i, n : IsLast(n, i, one) => one[n] = m
         /\ IsLast(1, m.instance, one) /\ one[1] = m
<1>1. one \in Seq(Message) /\ Len(one) = 1 /\ one[1] = m /\ DOMAIN one = {1}
  OBVIOUS
<1>2. \A x : x \in InstancesIn(one) <=> x = m.instance
  BY <1>1 DEF InstancesIn
<1>3. \A i, n : IsLast(n, i, one) => one[n] = m
  BY <1>1 DEF IsLast
<1>4. IsLast(1, m.instance, one)
  BY <1>1 DEF IsLast
<1> QED
  BY <1>1, <1>2, <1>3, <1>4

(* The first message and the others, as two parts.                          *)
LEMMA FirstAndRest ==
  ASSUME NEW s \in Seq(Message), s # <<>>
  PROVE  /\ Head(s) \in Message /\ Tail(s) \in Seq(Message)
         /\ Joins(s, <<Head(s)>>, Tail(s))
         /\ Len(Tail(s)) <= Len(s)
<1>1. /\ Head(s) \in Message /\ Tail(s) \in Seq(Message) /\ <<Head(s)>> \in Seq(Message)
      /\ s = <<Head(s)>> \o Tail(s)
  BY HeadAndTail
<1>2. Len(Tail(s)) <= Len(s)
  BY LenProperties, HeadTailProperties
<1> QED
  BY <1>1, <1>2 DEF Joins

LEMMA receiveInv ==
  ASSUME IInv, NEW p \in Pages, receive(p)
  PROVE  IInv'
<1> DEFINE old == page[p]
           m == Head(old.inbox)
           rest == Tail(old.inbox)
           one == <<m>>
           handled == [n \in 1 .. old.handlers |-> m]
           shown == Updated(old.shown, handled)
           pg == [old EXCEPT !.inbox = rest, !.shown = shown]
<1>1. /\ page' = [page EXCEPT ![p] = pg] /\ old.inbox # <<>>
      /\ UNCHANGED <<proc, state_cb, subscribed, eventstream, listeners, ended, gap, lost>>
  <2>1. page \in [Pages -> Page]
    BY OfPage
  <2>2. page' = [page EXCEPT ![p] = pg]
    BY <2>1 DEF receive
  <2> QED
    BY <2>2 DEF receive, history
<1>2. /\ old \in Page /\ old.inbox \in Seq(Message) /\ old.shown \in Shown
      /\ old.handlers \in Nat \ {0} /\ old.up
  BY <1>1, OfPage
<1> HIDE DEF old
<1>3. m \in Message /\ rest \in Seq(Message) /\ Joins(old.inbox, one, rest)
  BY <1>1, <1>2, FirstAndRest
<1> HIDE DEF m, rest
<1>4. /\ InstancesIn(one) = {m.instance}
      /\ IsLast(1, m.instance, one) /\ one[1] = m
  BY <1>3, OneMessageSeq
<1> HIDE DEF one
<1>5. InstancesIn(old.inbox) = {m.instance} \cup InstancesIn(rest)
  BY <1>3, <1>4, PartsOf
<1>6. ASSUME NEW i \in Instances
      PROVE  /\ shown \in Shown
             /\ m.instance # i => shown[i] = old.shown[i]
             /\ m.instance = i /\ m.event \in Classes => shown[i] = {m.event}
  <2> DEFINE k == old.handlers
             before == old.shown
  <2>1. handled = [n \in 1 .. k |-> m] /\ k \in Nat \ {0} /\ before \in Shown
    BY <1>2
  <2> HIDE DEF handled, k, before
  <2> QED
    BY <1>3, <2>1, HandledMessage DEF before
<1>7. m.instance \in Instances /\ m.event # "zero"
  BY <1>3 DEF Message
<1>8. shown \in Shown
  BY <1>6, <1>7
<1> HIDE DEF shown
<1>9. /\ pg \in Page /\ pg.inbox = rest /\ pg.shown = shown
      /\ pg.conn = old.conn /\ pg.up
  BY <1>2, <1>3, <1>8 DEF Page, Shown
<1> HIDE DEF pg
<1>10. ASSUME NEW i \in Instances, i \notin gap, i \notin lost[p], i \notin InstancesIn(eventstream)
       PROVE  Knows(pg, i, proc[i].state)
  <2>1. Knows(old, i, proc[i].state) /\ proc[i].state \in {"zero"} \cup Classes
    BY <1>10 DEF IInv, PageIsTrue, RecordsAreTrue, old
  <2>2. ASSUME NEW n \in DOMAIN rest, IsLast(n, i, rest)
        PROVE  rest[n].event = proc[i].state
    <3>1. PICK k : IsLast(k, i, old.inbox) /\ old.inbox[k] = rest[n]
      BY <1>3, <2>2, LastOfSecond
    <3>2. k \in DOMAIN old.inbox
      BY <3>1 DEF IsLast
    <3> QED
      BY <2>1, <3>1, <3>2 DEF Knows
  <2>3. ASSUME i \notin InstancesIn(rest)
        PROVE  shown[i] = ClassOf(proc[i].state)
    <3>1. CASE m.instance = i
      <4>1. IsLast(1, i, old.inbox) /\ old.inbox[1] = m
        BY <1>3, <1>4, <2>3, <3>1, LastOfFirst
      <4>2. m.event = proc[i].state
        BY <2>1, <4>1 DEF Knows, IsLast
      <4>3. m.event \in Classes /\ ClassOf(m.event) = {m.event}
        BY <1>7, <2>1, <4>2 DEF ClassOf
      <4> QED
        BY <1>6, <3>1, <4>2, <4>3
    <3>2. CASE m.instance # i
      <4>1. i \notin InstancesIn(old.inbox)
        BY <1>5, <2>3, <3>2
      <4> QED
        BY <1>6, <2>1, <3>2, <4>1 DEF Knows
    <3> QED
      BY <3>1, <3>2
  <2> QED
    BY <1>9, <2>2, <2>3 DEF Knows
<1>11. listeners' \subseteq Pages \X (1 .. MaxConnections) /\ ConnectionsAreListeners'
  BY <1>1, <1>9, ListenersStay DEF old
<1>12. lost[p] \in SUBSET Instances /\ lost' = [lost EXCEPT ![p] = lost[p]]
  BY <1>1, LostStays
<1> QED
  BY <1>1, <1>9, <1>10, <1>11, <1>12, OnePageInv

\* What the relay makes of the inbox of one page.
LEMMA Relayed ==
  ASSUME IInv, event, NEW p \in Pages
  PROVE  LET m == Head(eventstream)
             pg == IF Reached(p) THEN [page[p] EXCEPT !.inbox = Append(page[p].inbox, m)] ELSE page[p]
         IN /\ page'[p] = pg /\ pg \in Page /\ pg.conn = page[p].conn /\ pg.shown = page[p].shown
            /\ pg.inbox # <<>> => pg.up
            /\ Reached(p) => Joins(pg.inbox, page[p].inbox, <<m>>)
            /\ ~Reached(p) => pg = page[p]
            /\ lost'[p] = IF Reached(p) THEN lost[p] \ {m.instance} ELSE lost[p] \cup {m.instance}
<1> DEFINE m == Head(eventstream)
           old == page[p]
           inbox == Append(old.inbox, m)
           pg == IF Reached(p) THEN [old EXCEPT !.inbox = inbox] ELSE old
<1>1. /\ page'[p] = pg
      /\ lost'[p] = IF Reached(p) THEN lost[p] \ {m.instance} ELSE lost[p] \cup {m.instance}
  BY DEF event
<1>2. eventstream \in Seq(Message) /\ eventstream # <<>>
  BY DEF event, IInv, TypeOK
<1>3. m \in Message
  BY <1>2, HeadAndTail
<1>4. old \in Page /\ old.inbox \in Seq(Message) /\ (old.inbox # <<>> => old.up)
  BY OfPage
<1>5. Reached(p) => old.up
  BY DEF Reached
<1> HIDE DEF m, old
<1>6. inbox \in Seq(Message) /\ inbox = old.inbox \o <<m>> /\ <<m>> \in Seq(Message)
  BY <1>3, <1>4, AppendProperties, AppendIsConcat
<1>7. Joins(inbox, old.inbox, <<m>>)
  BY <1>4, <1>6 DEF Joins
<1> HIDE DEF inbox
<1>8. /\ pg \in Page /\ pg.conn = old.conn /\ pg.shown = old.shown
      /\ pg.up = old.up /\ pg.inbox = IF Reached(p) THEN inbox ELSE old.inbox
  BY <1>4, <1>6 DEF Page
<1>9. ~Reached(p) => pg = old
  OBVIOUS
<1> HIDE DEF pg
<1> QED
  BY <1>1, <1>4, <1>5, <1>7, <1>8, <1>9 DEF pg, m, old, inbox

LEMMA eventInv ==
  ASSUME IInv, event
  PROVE  IInv'
<1> DEFINE m == Head(eventstream)
           one == <<m>>
<1>1. /\ eventstream' = Tail(eventstream) /\ eventstream # <<>>
      /\ UNCHANGED <<proc, state_cb, subscribed, listeners, ended, gap>>
      /\ page' = [p \in Pages |-> IF Reached(p)
                                  THEN [page[p] EXCEPT !.inbox = Append(@, m)] ELSE page[p]]
      /\ lost' = [p \in Pages |-> IF Reached(p) THEN lost[p] \ {m.instance}
                                  ELSE lost[p] \cup {m.instance}]
  BY DEF event
<1>2. /\ TypeOK /\ StreamIsTrue /\ PageIsTrue /\ ConnectionsAreListeners
      /\ eventstream \in Seq(Message) /\ Len(eventstream) <= QueueBound /\ QueueBound \in Nat
      /\ lost \in [Pages -> SUBSET Instances]
  BY StreamAssumption DEF IInv, TypeOK
<1>3. /\ m \in Message /\ eventstream' \in Seq(Message) /\ Joins(eventstream, one, eventstream')
      /\ Len(eventstream') <= Len(eventstream)
  BY <1>1, <1>2, FirstAndRest
<1>4. ASSUME NEW p \in Pages
      PROVE  LET pg == page'[p]
             IN /\ pg \in Page /\ pg.conn = page[p].conn /\ pg.shown = page[p].shown
                /\ pg.inbox # <<>> => pg.up
                /\ Reached(p) => Joins(pg.inbox, page[p].inbox, one)
                /\ ~Reached(p) => pg = page[p]
                /\ lost'[p] = IF Reached(p) THEN lost[p] \ {m.instance} ELSE lost[p] \cup {m.instance}
  BY Relayed
<1>5. m.instance \in Instances
  BY <1>3 DEF Message
<1>6. lost' \in [Pages -> SUBSET Instances]
  <2>1. \A p \in Pages : lost'[p] \in SUBSET Instances
    BY <1>2, <1>4, <1>5
  <2>2. lost' = [p \in Pages |-> lost'[p]]
    BY <1>1
  <2> QED
    BY <2>1, <2>2
<1>7. page' \in [Pages -> Page]
  <2>1. page' = [p \in Pages |-> page'[p]]
    BY <1>1
  <2>2. \A p \in Pages : page'[p] \in Page
    BY <1>4
  <2> QED
    BY <2>1, <2>2
<1> HIDE DEF m
<1>8. /\ InstancesIn(one) = {m.instance}
      /\ IsLast(1, m.instance, one) /\ one[1] = m
      /\ \A i, n : IsLast(n, i, one) => one[n] = m
  BY <1>3, OneMessageSeq
<1> HIDE DEF one
<1>9. InstancesIn(eventstream) = {m.instance} \cup InstancesIn(eventstream')
  BY <1>3, <1>8, PartsOf
<1>10. TypeOK'
  <2>1. Len(eventstream') <= QueueBound
    BY <1>2, <1>3, LenProperties
  <2>2. \A p \in Pages : page'[p].inbox # <<>> => page'[p].up
    BY <1>4
  <2> QED
    BY <1>1, <1>2, <1>3, <1>6, <1>7, <2>1, <2>2 DEF TypeOK
<1>11. ConnectionsAreListeners'
  <2>1. \A p \in Pages : page'[p].conn = page[p].conn
    BY <1>4
  <2> QED
    BY <1>1, <1>2, <2>1 DEF ConnectionsAreListeners
<1>12. StreamIsTrue'
  <2> SUFFICES ASSUME NEW i \in Instances, i \notin gap,
                      NEW n \in DOMAIN eventstream', IsLast(n, i, eventstream')
               PROVE  /\ eventstream'[n].event = proc[i].state
                      /\ eventstream'[n].event # "exited" => eventstream'[n].outcome = EndOf(ended[i])
    BY <1>1 DEF StreamIsTrue, Tells
  <2>1. PICK k : IsLast(k, i, eventstream) /\ eventstream[k] = eventstream'[n]
    BY <1>3, LastOfSecond
  <2>2. k \in DOMAIN eventstream
    BY <2>1 DEF IsLast
  <2>3. Tells(eventstream, i, proc[i].state, ended[i])
    BY <1>2 DEF StreamIsTrue
  <2> QED
    BY <2>1, <2>2, <2>3 DEF Tells
<1>13. PageIsTrue'
  <2> SUFFICES ASSUME NEW p \in Pages, NEW i \in Instances,
                      i \notin gap, i \notin lost'[p], i \notin InstancesIn(eventstream')
               PROVE  Knows(page'[p], i, proc[i].state)
    BY <1>1 DEF PageIsTrue
  <2> DEFINE old == page[p]
             pg == page'[p]
  <2>1. /\ pg.shown = old.shown
        /\ Reached(p) => Joins(pg.inbox, old.inbox, one)
        /\ ~Reached(p) => pg = old
        /\ lost'[p] = IF Reached(p) THEN lost[p] \ {m.instance} ELSE lost[p] \cup {m.instance}
    BY <1>4
  <2> HIDE DEF old, pg
  <2>2. CASE i = m.instance
    <3>1. Joins(pg.inbox, old.inbox, one)
      BY <2>1, <2>2
    <3>2. i \in InstancesIn(one)
      BY <1>8, <2>2
    <3>3. InstancesIn(pg.inbox) = InstancesIn(old.inbox) \cup InstancesIn(one)
      BY <3>1, PartsOf
    <3>4. IsLast(1, i, eventstream) /\ eventstream[1] = m
      BY <1>3, <1>8, <2>2, LastOfFirst
    <3>5. m.event = proc[i].state
      BY <1>2, <3>4 DEF StreamIsTrue, Tells, IsLast
    <3>6. ASSUME NEW n, IsLast(n, i, pg.inbox) PROVE pg.inbox[n] = m
      <4>1. PICK l : IsLast(l, i, one) /\ pg.inbox[n] = one[l]
        BY <3>1, <3>2, <3>6, LastOfJoined
      <4> QED
        BY <1>8, <4>1
    <3>7. Knows(pg, i, proc[i].state)
      BY <3>2, <3>3, <3>5, <3>6 DEF Knows
    <3> QED
      BY <3>7 DEF pg
  <2>3. CASE i # m.instance
    <3>1. i \notin InstancesIn(one) /\ i \notin InstancesIn(eventstream)
      BY <1>8, <1>9, <2>3
    <3>2. i \notin lost[p]
      BY <2>1, <2>3
    <3>3. Knows(old, i, proc[i].state)
      BY <1>2, <3>1, <3>2 DEF PageIsTrue, old
    <3>4. CASE Reached(p)
      <4>1. Joins(pg.inbox, old.inbox, one)
        BY <2>1, <3>4
      <4>2. InstancesIn(pg.inbox) = InstancesIn(old.inbox) \cup InstancesIn(one)
        BY <4>1, PartsOf
      <4>3. ASSUME NEW n, IsLast(n, i, pg.inbox)
            PROVE  n \in DOMAIN old.inbox /\ IsLast(n, i, old.inbox) /\ pg.inbox[n] = old.inbox[n]
        <5>1. IsLast(n, i, old.inbox) /\ pg.inbox[n] = old.inbox[n]
          BY <3>1, <4>1, <4>3, LastOfFirst
        <5> QED
          BY <5>1 DEF IsLast
      <4>4. Knows(pg, i, proc[i].state)
        BY <2>1, <3>1, <3>3, <4>2, <4>3 DEF Knows
      <4> QED
        BY <4>4 DEF pg
    <3>5. CASE ~Reached(p)
      BY <2>1, <3>3, <3>5 DEF pg
    <3> QED
      BY <3>4, <3>5
  <2> QED
    BY <2>2, <2>3
<1> QED
  BY <1>1, <1>10, <1>11, <1>12, <1>13, RecordsStay DEF IInv

-----------------------------------------------------------------------------
LEMMA InitInv ==
  ASSUME InitStream
  PROVE  IInv
<1>1. /\ proc = [i \in Instances |-> pn_proc_init] /\ state_cb \in BOOLEAN /\ subscribed = FALSE
      /\ eventstream = <<>> /\ listeners = {} /\ page = [p \in Pages |-> NewPage]
      /\ ended = [i \in Instances |-> NULL] /\ gap = {} /\ lost = [p \in Pages |-> {}]
  BY DEF InitStream, Init
<1>2. pn_proc_init \in Process
  BY DEF pn_proc_init, Process, ProcessStates
<1>3. /\ NewPage \in Page /\ NewPage.inbox = <<>> /\ NewPage.conn = 0
      /\ NewPage.shown = [i \in Instances |-> {}]
  BY StreamAssumption DEF NewPage, Page
<1>4. <<>> \in Seq(Message) /\ Len(<<>>) = 0 /\ InstancesIn(<<>>) = {} /\ DOMAIN <<>> = {}
  BY DEF InstancesIn
<1>5. TypeOK
  <2>1. proc \in [Instances -> Process] /\ state_cb \in BOOLEAN /\ subscribed \in BOOLEAN
    BY <1>1, <1>2
  <2>2. eventstream \in Seq(Message) /\ Len(eventstream) <= QueueBound
    BY <1>1, <1>4, StreamAssumption
  <2>3. page \in [Pages -> Page] /\ \A p \in Pages : page[p].inbox # <<>> => page[p].up
    BY <1>1, <1>3
  <2>4. ended \in [Instances -> Statuses \cup {NULL}] /\ lost \in [Pages -> SUBSET Instances]
    BY <1>1
  <2> QED
    BY <1>1, <2>1, <2>2, <2>3, <2>4 DEF TypeOK
<1>6. ConnectionsAreListeners
  <2>1. IsFiniteSet(listeners) /\ Cardinality(listeners) = 0
    BY <1>1, FS_EmptySet
  <2> QED
    BY <1>1, <1>3, <2>1, StreamAssumption DEF ConnectionsAreListeners
<1>7. RecordsAreTrue
  BY <1>1 DEF RecordsAreTrue, IsRecorded, pn_proc_init
<1>8. StreamIsTrue
  BY <1>1, <1>4 DEF StreamIsTrue, Tells
<1>9. PageIsTrue
  BY <1>1, <1>3, <1>4 DEF PageIsTrue, Knows, ClassOf, pn_proc_init
<1> QED
  BY <1>5, <1>6, <1>7, <1>8, <1>9 DEF IInv

LEMMA NextInv ==
  ASSUME IInv, [NextStream]_vars
  PROVE  IInv'
<1>1. ASSUME NEW i \in Instances, start(i) PROVE IInv'
  BY <1>1, StartInv
<1>2. ASSUME NEW i \in Instances, child_timer_cb(i) \/ running_state_timer_cb(i) PROVE IInv'
  BY <1>2, TimerInv
<1>3. ASSUME NEW i \in Instances, NEW status \in Statuses, child_proc_cb(i, status) PROVE IInv'
  BY <1>3, ChildEndsInv
<1>4. CASE Subscribes
  BY <1>4, SubscribesInv
<1>5. CASE LinkBreaks
  BY <1>5, LinkBreaksInv
<1>6. CASE event
  BY <1>6, eventInv
<1>7. ASSUME NEW p \in Pages, new_socketio_client(p) PROVE IInv'
  BY <1>7, new_socketio_clientInv
<1>8. ASSUME NEW p \in Pages, receive(p) PROVE IInv'
  BY <1>8, receiveInv
<1>9. ASSUME NEW p \in Pages, connect(p) PROVE IInv'
  BY <1>9, connectInv
<1>10. ASSUME NEW p \in Pages, Reload(p) PROVE IInv'
  BY <1>10, ReloadInv
<1>11. CASE UNCHANGED vars
  <2>1. UNCHANGED <<proc, state_cb, subscribed, eventstream, listeners, page, ended, gap, lost>>
    BY <1>11 DEF vars
  <2>2. TypeOK' /\ ConnectionsAreListeners'
    BY <2>1 DEF IInv, TypeOK, ConnectionsAreListeners
  <2>3. StreamIsTrue' /\ PageIsTrue'
    BY <2>1 DEF IInv, StreamIsTrue, PageIsTrue
  <2> QED
    BY <2>1, <2>2, <2>3, RecordsStay DEF IInv
<1> QED
  BY <1>1, <1>2, <1>3, <1>4, <1>5, <1>6, <1>7, <1>8, <1>9, <1>10, <1>11 DEF NextStream

(* Types; connections and listeners; what the record keeps of the last end; *)
(* the last message on the link and the page of one that missed nothing.    *)
THEOREM StreamInvariance == SpecStream => []IInv
<1> QED
  BY InitInv, NextInv, PTL DEF SpecStream

LEMMA LastEvent ==
  ASSUME IInv
  PROVE  LastEventIsTrue
<1> SUFFICES ASSUME NEW i \in InstancesIn(eventstream) \ gap
             PROVE  LET m == eventstream[LastOf(i, eventstream)]
                    IN /\ m.event = proc[i].state
                       /\ m.event # "exited" => m.outcome = EndOf(ended[i])
  BY DEF LastEventIsTrue
<1>1. eventstream \in Seq(Message)
  BY DEF IInv, TypeOK
<1>2. i \in Instances
  <2>1. \A n \in DOMAIN eventstream : eventstream[n] \in Message
    BY <1>1, LenProperties
  <2> QED
    BY <2>1 DEF InstancesIn, Message
<1>3. IsLast(LastOf(i, eventstream), i, eventstream)
  BY <1>1, LastOfIsLast
<1>4. Tells(eventstream, i, proc[i].state, ended[i])
  BY <1>2 DEF IInv, StreamIsTrue
<1> QED
  BY <1>3, <1>4 DEF Tells, IsLast

(* A subscriber that believes the last event sent of an instance is right:  *)
(* about the state, also past a "backoff", and about how the run ended that *)
(* a start follows.                                                         *)
THEOREM LastEventsAreTrue == SpecStream => []LastEventIsTrue
<1> QED
  BY StreamInvariance, LastEvent, PTL

LEMMA PageShows ==
  ASSUME IInv
  PROVE  PageShowsState
<1> SUFFICES ASSUME NEW p \in Pages, NEW i \in Instances,
                    page[p].up, i \notin gap, i \in lost[p] => i \in InstancesIn(eventstream)
             PROVE  Settled(p)[i] = ClassOf(proc[i].state)
  BY DEF PageShowsState
<1> DEFINE inbox == page[p].inbox
           shown == page[p].shown
           all == inbox \o eventstream
           state == proc[i].state
<1>1. /\ eventstream \in Seq(Message) /\ inbox \in Seq(Message) /\ shown \in Shown
      /\ state \in {"zero"} \cup Classes
  BY OfPage DEF IInv, TypeOK, RecordsAreTrue
<1>2. Settled(p) = Updated(shown, all)
  BY DEF Settled
<1>3. Joins(all, inbox, eventstream)
  BY <1>1 DEF Joins
<1>4. Tells(eventstream, i, state, ended[i])
  BY DEF IInv, StreamIsTrue
<1>5. i \notin InstancesIn(eventstream) =>
        /\ \A n \in DOMAIN inbox : IsLast(n, i, inbox) => inbox[n].event = state
        /\ i \notin InstancesIn(inbox) => shown[i] = ClassOf(state)
  BY DEF IInv, PageIsTrue, Knows
<1> HIDE DEF inbox, shown, all, state
<1>6. all \in Seq(Message) /\ InstancesIn(all) = InstancesIn(inbox) \cup InstancesIn(eventstream)
  BY <1>3, PartsOf
<1>7. \A n \in DOMAIN all : all[n].event # "zero"
  <2>1. \A n \in DOMAIN all : all[n] \in Message
    BY <1>6, LenProperties
  <2> QED
    BY <2>1 DEF Message
<1>8. ASSUME NEW n, IsLast(n, i, all), all[n].event = state
      PROVE  Updated(shown, all)[i] = ClassOf(state)
  <2>1. state \in Classes
    BY <1>1, <1>7, <1>8 DEF IsLast
  <2>2. Updated(shown, all)[i] = {all[n].event}
    BY <1>1, <1>6, <1>8, <2>1, LastUpdateDecides
  <2> QED
    BY <1>8, <2>1, <2>2 DEF ClassOf, Classes
<1>9. CASE i \in InstancesIn(eventstream)
  <2>1. PICK l : IsLast(l, i, eventstream)
    BY <1>1, <1>9, SomeLast
  <2>2. PICK n : IsLast(n, i, all) /\ all[n] = eventstream[l]
    BY <1>3, <2>1, LastOfSecond
  <2>3. eventstream[l].event = state
    BY <1>4, <2>1 DEF Tells, IsLast
  <2> QED
    BY <1>2, <1>8, <2>2, <2>3 DEF state
<1>10. CASE i \notin InstancesIn(eventstream) /\ i \in InstancesIn(inbox)
  <2>1. PICK l : IsLast(l, i, inbox)
    BY <1>1, <1>10, SomeLast
  <2>2. IsLast(l, i, all) /\ all[l] = inbox[l]
    BY <1>3, <1>10, <2>1, LastOfFirst
  <2>3. inbox[l].event = state
    BY <1>5, <1>10, <2>1 DEF IsLast
  <2> QED
    BY <1>2, <1>8, <2>2, <2>3 DEF state
<1>11. CASE i \notin InstancesIn(eventstream) /\ i \notin InstancesIn(inbox)
  <2>1. Updated(shown, all)[i] = shown[i]
    BY <1>1, <1>6, <1>11, LastUpdateDecides
  <2> QED
    BY <1>2, <1>5, <1>11, <2>1 DEF state
<1> QED
  BY <1>9, <1>10, <1>11

(* A connected page that missed nothing of an instance, or is yet to get an *)
(* event of it, comes to show its state: whatever connections broke, and    *)
(* however often its handlers are registered.                               *)
THEOREM PagesShowTheState == SpecStream => []PageShowsState
<1> QED
  BY StreamInvariance, PageShows, PTL
=============================================================================

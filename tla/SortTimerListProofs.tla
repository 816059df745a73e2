------------------------- MODULE SortTimerListProofs -------------------------
(***************************************************************************)
(* What the methods of SortTimerList make of a list whose pointers lead    *)
(* along a sequence of its timers, in ascending order of expire, whatever  *)
(* the next of the last timer is.                                          *)
(***************************************************************************)
EXTENDS SortTimerList, Induction, FiniteSetTheorems, SequenceTheorems

Typed(L) == L \in [head : Pointers, tail : Pointers,
                   next : [Timers -> Pointers], prev : [Timers -> Pointers]]

Elements(q) == {q[i] : i \in 1..Len(q)}
Distinct(q) == \A i, j \in 1..Len(q) : q[i] = q[j] => i = j
Sorted(q, d) == \A i, j \in 1..Len(q) : i <= j => d[q[i]] <= d[q[j]]

\* The pointers of L lead along q and back.
Links(L, q) ==
    /\ q \in Seq(Timers) /\ Distinct(q)
    /\ Len(q) > 0 => L.head = q[1] /\ L.tail = q[Len(q)]
    /\ \A i \in 1..Len(q) - 1 : L.next[q[i]] = q[i + 1] /\ L.prev[q[i + 1]] = q[i]

\* The list is q: it holds the allocated timers in order. What the last one leads on
\* to, if anything, is another.
Follows(q) ==
    /\ Links(list, q) /\ Elements(q) = live /\ Sorted(q, expire)
    /\ live # {} => list.next[list.tail] # list.tail

\* q with t behind its first k elements, and q without its element j.
Ins(q, k, t) ==
    [i \in 1..Len(q) + 1 |-> IF i <= k THEN q[i] ELSE IF i = k + 1 THEN t ELSE q[i - 1]]
Rem(q, j) == [i \in 1..Len(q) - 1 |-> IF i < j THEN q[i] ELSE q[i + 1]]

\* The first k timers of q expire up to the time e, the others after it.
Splits(q, d, e, k) == \A i \in 1..Len(q) : d[q[i]] <= e <=> i <= k

-----------------------------------------------------------------------------
(***************************************************************************)
(* Walking along next.                                                     *)
(***************************************************************************)
K == Cardinality(Timers)

LEMMA KType == K \in Nat /\ IsFiniteSet(Timers) /\ Null \notin Timers
  BY SortTimerListAssumption, FS_CardinalityType DEF K

\* The recursive definition of Nth.
LEMMA NthSteps ==
    ASSUME NEW L, Typed(L)
    PROVE  /\ Nth(L) \in [0..K + 1 -> Pointers]
           /\ Nth(L)[0] = L.head
           /\ \A n \in 1..K + 1 :
                Nth(L)[n] = IF Nth(L)[n - 1] = Null THEN Null ELSE L.next[Nth(L)[n - 1]]
<1> DEFINE G == [p \in Pointers |-> IF p = Null THEN Null ELSE L.next[p]]
           IsWalk(g) == g = [n \in 0..K + 1 |->
                              IF n = 0 THEN L.head
                              ELSE IF g[n - 1] = Null THEN Null ELSE L.next[g[n - 1]]]
           c == CHOOSE g : IsWalk(g)
           N == K + 1
           a == L.head
<1>1. N \in Nat /\ 0 \in 0..N /\ \A n \in 1..N : n \in 0..N /\ n # 0 /\ n - 1 \in 0..N
  BY KType
<1>2. a \in Pointers
  BY DEF Typed
<1>3. G \in [Pointers -> Pointers]
  BY DEF Typed, Pointers
<1>4. PICK f \in [0..N -> Pointers] : f[0] = a /\ \A n \in 1..N : f[n] = G[f[n - 1]]
  <2>1. \E f \in [0..N -> Pointers] : Iterates(f, a, G, N)
    <3> HIDE DEF a, G, N
    <3> QED
      BY <1>1, <1>2, <1>3, BoundedRecursion
  <2> QED
    BY <2>1 DEF Iterates
<1>5. ASSUME NEW n \in 1..N
      PROVE  f[n] = IF f[n - 1] = Null THEN Null ELSE L.next[f[n - 1]]
  <2>1. f[n - 1] \in Pointers
    BY <1>1, <1>4
  <2> QED
    BY <1>4, <2>1
<1>6. IsWalk(f)
  <2>1. \A n \in 0..N : n # 0 => n \in 1..N
    BY <1>1
  <2> QED
    BY <1>4, <1>5, <2>1
<1>7. IsWalk(c)
  <2> HIDE DEF IsWalk
  <2> QED
    BY <1>6
<1>8. /\ c[0] = f[0]
      /\ \A n \in 1..N : c[n] = IF c[n - 1] = Null THEN Null ELSE L.next[c[n - 1]]
      /\ c = [n \in 0..N |-> c[n]]
  <2> HIDE DEF c
  <2>1. ASSUME NEW n \in 0..N
        PROVE  c[n] = IF n = 0 THEN L.head
                      ELSE IF c[n - 1] = Null THEN Null ELSE L.next[c[n - 1]]
    BY <1>7
  <2>2. DOMAIN c = 0..N /\ c = [n \in DOMAIN c |-> c[n]]
    BY <1>7
  <2> HIDE DEF IsWalk
  <2> QED
    BY <1>1, <1>4, <2>1, <2>2
<1>9. \A n \in 0..N : c[n] = f[n]
  <2> HIDE DEF c, N
  <2>1. SameSteps(c, f, N)
    BY <1>5, <1>8 DEF SameSteps
  <2>2. N \in Nat
    BY <1>1
  <2> QED
    BY <2>1, <2>2, RecursionUnique
<1>10. Nth(L) = c
  BY DEF Nth, K
<1> HIDE DEF c
<1>11. c \in [0..N -> Pointers]
  <2>1. \A n \in 0..N : c[n] \in Pointers
    BY <1>4, <1>9
  <2> QED
    BY <1>8, <2>1
<1> QED
  BY <1>4, <1>8, <1>10, <1>11

\* Distinct timers are not more than there are.
LEMMA LengthBound ==
    ASSUME NEW q \in Seq(Timers), Distinct(q)
    PROVE  /\ Len(q) \in 0..K
           /\ IsFiniteSet(Elements(q)) /\ Cardinality(Elements(q)) = Len(q)
<1>1. Len(q) \in Nat /\ q \in [1..Len(q) -> Timers]
  BY LenProperties
<1>2. q \in Injection(1..Len(q), Timers)
  BY <1>1 DEF Distinct, Injection, IsInjective
<1>3. q \in Bijection(1..Len(q), Elements(q))
  BY <1>1 DEF Distinct, Bijection, Injection, IsInjective, Surjection, Elements
<1>4. IsFiniteSet(1..Len(q)) /\ Cardinality(1..Len(q)) = Len(q)
  BY <1>1, FS_Interval
<1>5. Cardinality(1..Len(q)) <= Cardinality(Timers)
  BY <1>2, KType, FS_Injection
<1>6. ExistsBijection(1..Len(q), Elements(q))
  BY <1>3 DEF ExistsBijection
<1>7. IsFiniteSet(Elements(q)) /\ Cardinality(Elements(q)) = Cardinality(1..Len(q))
  BY <1>4, <1>6, FS_Bijection
<1> QED
  BY <1>1, <1>4, <1>5, <1>7, KType DEF K

LEMMA LeastIs ==
    ASSUME NEW S, S \subseteq Nat, S # {}
    PROVE  Least(S) \in S /\ \A n \in S : Least(S) <= n
  BY LeastNatural DEF Least

\* A walk over next passes the timers of q in order.
LEMMA WalkLinks ==
    ASSUME NEW L, Typed(L), NEW q, Links(L, q)
    PROVE  /\ q \in Seq(Timers) /\ Len(q) \in 0..K /\ K \in Nat
           /\ \A i \in 1..Len(q) : q[i] \in Timers /\ q[i] # Null
           /\ \A n \in 0..Len(q) - 1 : Nth(L)[n] = q[n + 1]
<1>1. q \in Seq(Timers) /\ Len(q) \in 0..K /\ K \in Nat
  BY LengthBound, KType DEF Links
<1>2. \A i \in 1..Len(q) : q[i] \in Timers /\ q[i] # Null
  BY <1>1, KType
<1>3. CASE Len(q) = 0
  BY <1>1, <1>2, <1>3
<1>4. CASE Len(q) > 0
  <2> DEFINE N == Len(q) - 1
             S == {n \in 0..N : Nth(L)[n] = q[n + 1]}
  <2>1. N \in Nat /\ N <= K
    BY <1>1, <1>4
  <2>2. 0 \in S
    BY <1>4, <2>1, NthSteps DEF Links
  <2>3. ASSUME NEW n \in 1..N, n - 1 \in S PROVE n \in S
    <3>1. n \in 1..K + 1 /\ n \in 1..Len(q) /\ n \in 1..Len(q) - 1 /\ n \in 0..N
          /\ (n - 1) + 1 = n
      BY <1>1, <2>1
    <3>2. Nth(L)[n] = IF Nth(L)[n - 1] = Null THEN Null ELSE L.next[Nth(L)[n - 1]]
      BY <3>1, NthSteps
    <3>3. Nth(L)[n - 1] = q[n]
      BY <2>3, <3>1
    <3>4. L.next[q[n]] = q[n + 1]
      BY <3>1 DEF Links
    <3> QED
      BY <1>2, <3>1, <3>2, <3>3, <3>4
  <2>4. 0..N \subseteq S
    <3> HIDE DEF S, N
    <3> QED
      BY <2>1, <2>2, <2>3, BoundedInduction
  <2> QED
    BY <1>1, <1>2, <2>4
<1> QED
  BY <1>1, <1>3, <1>4

\* Chain is the sequence that the pointers lead along.
LEMMA ChainIs ==
    ASSUME Typed(list), NEW q, Links(list, q), Elements(q) = live
    PROVE  Chain = q
<1>1. /\ q \in Seq(Timers) /\ Len(q) \in 0..K /\ K \in Nat
      /\ \A i \in 1..Len(q) : q[i] \in Timers /\ q[i] # Null
      /\ \A n \in 0..Len(q) - 1 : Nth(list)[n] = q[n + 1]
  BY WalkLinks
<1> DEFINE S == {i \in 0..K + 1 : Nth(list)[i] = list.tail}
           m == IF live = {} THEN 0 ELSE 1 + Least(S)
<1>2. Chain = [i \in 1..m |-> Nth(list)[i - 1]]
  BY DEF Chain, K
<1>3. m = Len(q)
  <2>1. CASE Len(q) = 0
    <3>1. live = {}
      BY <1>1, <2>1 DEF Elements
    <3> QED
      BY <2>1, <3>1
  <2>2. CASE Len(q) > 0
    <3>1. live # {} /\ list.tail = q[Len(q)] /\ Len(q) \in 1..Len(q)
      <4>1. Len(q) \in 1..Len(q)
        BY <1>1, <2>2
      <4>2. q[Len(q)] \in live
        BY <4>1 DEF Elements
      <4> QED
        BY <2>2, <4>1, <4>2 DEF Links
    <3>2. Len(q) - 1 \in S /\ S \subseteq Nat
      <4>1. Len(q) - 1 \in 0..Len(q) - 1 /\ Len(q) - 1 \in 0..K + 1 /\ (Len(q) - 1) + 1 = Len(q)
        BY <1>1, <2>2
      <4>2. Nth(list)[Len(q) - 1] = q[Len(q)]
        BY <1>1, <4>1
      <4> QED
        BY <1>1, <3>1, <4>1, <4>2
    <3>3. ASSUME NEW n \in S PROVE Len(q) - 1 <= n
      <4> SUFFICES ASSUME n < Len(q) - 1 PROVE FALSE
        BY <1>1
      <4>1. n \in 0..Len(q) - 1 /\ n + 1 \in 1..Len(q) /\ n + 1 # Len(q)
        BY <1>1
      <4>2. q[n + 1] = q[Len(q)]
        BY <1>1, <3>1, <4>1
      <4> QED
        BY <3>1, <4>1, <4>2 DEF Links, Distinct
    <3>4. Least(S) = Len(q) - 1
      <4> HIDE DEF S
      <4>1. Least(S) \in S /\ Least(S) <= Len(q) - 1
        BY <3>2, LeastIs
      <4>2. Least(S) \in Nat /\ Len(q) - 1 <= Least(S)
        BY <3>2, <3>3, <4>1
      <4> QED
        BY <1>1, <4>1, <4>2
    <3> QED
      BY <1>1, <3>1, <3>4
  <2> QED
    BY <1>1, <2>1, <2>2
<1> HIDE DEF m
<1>4. \A i \in 1..Len(q) : Nth(list)[i - 1] = q[i]
  <2>1. \A i \in 1..Len(q) : i - 1 \in 0..Len(q) - 1 /\ (i - 1) + 1 = i
    BY <1>1
  <2> QED
    BY <1>1, <2>1
<1>5. q = [i \in 1..Len(q) |-> q[i]]
  BY <1>1
<1> QED
  BY <1>2, <1>3, <1>4, <1>5

-----------------------------------------------------------------------------
(***************************************************************************)
(* Sequences with one timer more or less.                                  *)
(***************************************************************************)
LEMMA InsIs ==
    ASSUME NEW q \in Seq(Timers), NEW k \in 0..Len(q), NEW t \in Timers
    PROVE  /\ Ins(q, k, t) \in Seq(Timers) /\ Len(Ins(q, k, t)) = Len(q) + 1
           /\ \A i \in 1..k : Ins(q, k, t)[i] = q[i]
           /\ Ins(q, k, t)[k + 1] = t
           /\ \A i \in k + 1..Len(q) : Ins(q, k, t)[i + 1] = q[i]
<1>1. Len(q) \in Nat /\ k \in Nat /\ k <= Len(q) /\ \A i \in 1..Len(q) : q[i] \in Timers
  OBVIOUS
<1> DEFINE r == Ins(q, k, t)
           n == Len(q) + 1
<1>2. r = [i \in 1..n |-> IF i <= k THEN q[i] ELSE IF i = k + 1 THEN t ELSE q[i - 1]]
  BY DEF Ins
<1>3. ASSUME NEW i \in 1..n
      PROVE  (IF i <= k THEN q[i] ELSE IF i = k + 1 THEN t ELSE q[i - 1]) \in Timers
  <2>1. i <= k => i \in 1..Len(q)
    BY <1>1
  <2>2. ~(i <= k) /\ i # k + 1 => i - 1 \in 1..Len(q)
    BY <1>1
  <2> QED
    BY <1>1, <2>1, <2>2
<1> HIDE DEF r
<1>4. r \in [1..n -> Timers] /\ n \in Nat
  BY <1>1, <1>2, <1>3
<1>5. r \in Seq(Timers) /\ Len(r) = n
  <2> HIDE DEF n
  <2> QED
    BY <1>4
<1>6. \A i \in 1..k : i \in 1..n /\ i <= k
  BY <1>1
<1>7. k + 1 \in 1..n /\ ~(k + 1 <= k)
  BY <1>1
<1>8. \A i \in k + 1..Len(q) : i + 1 \in 1..n /\ ~(i + 1 <= k) /\ i + 1 # k + 1 /\ (i + 1) - 1 = i
  BY <1>1
<1>9. /\ \A i \in 1..k : r[i] = q[i]
      /\ r[k + 1] = t
      /\ \A i \in k + 1..Len(q) : r[i + 1] = q[i]
  BY <1>2, <1>6, <1>7, <1>8
<1> QED
  BY <1>5, <1>9 DEF r

LEMMA RemIs ==
    ASSUME NEW q \in Seq(Timers), NEW j \in 1..Len(q)
    PROVE  /\ Rem(q, j) \in Seq(Timers) /\ Len(Rem(q, j)) = Len(q) - 1
           /\ \A i \in 1..j - 1 : Rem(q, j)[i] = q[i]
           /\ \A i \in j + 1..Len(q) : Rem(q, j)[i - 1] = q[i]
<1>1. Len(q) \in Nat /\ j \in Nat /\ 1 <= j /\ j <= Len(q) /\ \A i \in 1..Len(q) : q[i] \in Timers
  OBVIOUS
<1> DEFINE r == Rem(q, j)
           n == Len(q) - 1
<1>2. r = [i \in 1..n |-> IF i < j THEN q[i] ELSE q[i + 1]]
  BY DEF Rem
<1>3. ASSUME NEW i \in 1..n PROVE (IF i < j THEN q[i] ELSE q[i + 1]) \in Timers
  <2>1. i \in 1..Len(q) /\ i + 1 \in 1..Len(q)
    BY <1>1
  <2> QED
    BY <1>1, <2>1
<1> HIDE DEF r
<1>4. r \in [1..n -> Timers] /\ n \in Nat
  BY <1>1, <1>2, <1>3
<1>5. r \in Seq(Timers) /\ Len(r) = n
  <2> HIDE DEF n
  <2> QED
    BY <1>4
<1>6. \A i \in 1..j - 1 : i \in 1..n /\ i < j
  BY <1>1
<1>7. \A i \in j + 1..Len(q) : i - 1 \in 1..n /\ ~(i - 1 < j) /\ (i - 1) + 1 = i
  BY <1>1
<1>8. /\ \A i \in 1..j - 1 : r[i] = q[i]
      /\ \A i \in j + 1..Len(q) : r[i - 1] = q[i]
  BY <1>2, <1>6, <1>7
<1> QED
  BY <1>5, <1>8 DEF r

\* Which timers there are, and that each is there once.
LEMMA InsElements ==
    ASSUME NEW q \in Seq(Timers), Distinct(q), NEW k \in 0..Len(q),
           NEW t \in Timers, t \notin Elements(q)
    PROVE  Distinct(Ins(q, k, t)) /\ Elements(Ins(q, k, t)) = Elements(q) \cup {t}
<1> DEFINE r == Ins(q, k, t)
<1>1. /\ r \in Seq(Timers) /\ Len(r) = Len(q) + 1
      /\ \A i \in 1..k : r[i] = q[i]
      /\ r[k + 1] = t
      /\ \A i \in k + 1..Len(q) : r[i + 1] = q[i]
  BY InsIs
<1>2. Len(q) \in Nat /\ k \in Nat /\ k <= Len(q)
  OBVIOUS
<1> HIDE DEF r
<1> DEFINE at(i) == IF i <= k THEN i ELSE i - 1
           n == Len(q)
<1>3. ASSUME NEW i \in 1..n + 1, i # k + 1
      PROVE  at(i) \in 1..n /\ r[i] = q[at(i)]
  <2>1. CASE i <= k
    BY <1>1, <1>2, <2>1
  <2>2. CASE i > k
    <3>1. i - 1 \in k + 1..n /\ (i - 1) + 1 = i /\ ~(i <= k)
      BY <1>2, <1>3, <2>2
    <3>2. r[(i - 1) + 1] = q[i - 1]
      BY <1>1, <3>1
    <3> QED
      BY <1>2, <3>1, <3>2
  <2> QED
    BY <1>2, <2>1, <2>2
<1>4. \A i \in 1..n : q[i] # t
  BY DEF Elements
<1>5. ASSUME NEW i \in 1..n + 1, NEW j \in 1..n + 1, r[i] = r[j] PROVE i = j
  <2>1. CASE i = k + 1 \/ j = k + 1
    BY <1>1, <1>3, <1>4, <1>5, <2>1
  <2>2. CASE i # k + 1 /\ j # k + 1
    <3>1. at(i) \in 1..n /\ at(j) \in 1..n /\ q[at(i)] = q[at(j)]
      BY <1>3, <1>5, <2>2
    <3>2. at(i) = at(j)
      <4> HIDE DEF at
      <4> QED
        BY <3>1 DEF Distinct
    <3> QED
      BY <1>2, <2>2, <3>2
  <2> QED
    BY <2>1, <2>2
<1>6. Elements(r) \subseteq Elements(q) \cup {t}
  <2> SUFFICES ASSUME NEW i \in 1..n + 1 PROVE r[i] \in Elements(q) \cup {t}
    BY <1>1 DEF Elements
  <2>1. i # k + 1 => q[at(i)] \in Elements(q)
    BY <1>3 DEF Elements
  <2> QED
    BY <1>1, <1>3, <2>1
<1>7. t \in Elements(r)
  <2>1. k + 1 \in 1..n + 1
    BY <1>2
  <2> QED
    BY <1>1, <2>1 DEF Elements
<1>8. ASSUME NEW i \in 1..n PROVE q[i] \in Elements(r)
  <2>1. CASE i <= k
    <3>1. i \in 1..n + 1 /\ r[i] = q[i]
      BY <1>1, <1>2, <2>1
    <3> QED
      BY <1>1, <3>1 DEF Elements
  <2>2. CASE i > k
    <3>1. i + 1 \in 1..n + 1 /\ r[i + 1] = q[i]
      BY <1>1, <1>2, <2>2
    <3> QED
      BY <1>1, <3>1 DEF Elements
  <2> QED
    BY <1>2, <2>1, <2>2
<1>9. Elements(q) \subseteq Elements(r)
  BY <1>8 DEF Elements
<1>10. Elements(r) = Elements(q) \cup {t}
  BY <1>6, <1>7, <1>9
<1>11. Distinct(r)
  BY <1>1, <1>5 DEF Distinct
<1> QED
  BY <1>10, <1>11 DEF r

LEMMA RemElements ==
    ASSUME NEW q \in Seq(Timers), Distinct(q), NEW j \in 1..Len(q)
    PROVE  Distinct(Rem(q, j)) /\ Elements(Rem(q, j)) = Elements(q) \ {q[j]}
<1> DEFINE r == Rem(q, j)
           n == Len(q)
           at(i) == IF i < j THEN i ELSE i + 1
<1>1. /\ r \in Seq(Timers) /\ Len(r) = n - 1
      /\ \A i \in 1..j - 1 : r[i] = q[i]
      /\ \A i \in j + 1..n : r[i - 1] = q[i]
  BY RemIs
<1>2. n \in Nat /\ j \in Nat /\ 1 <= j /\ j <= n
  OBVIOUS
<1> HIDE DEF r
<1>3. ASSUME NEW i \in 1..n - 1 PROVE at(i) \in 1..n /\ at(i) # j /\ r[i] = q[at(i)]
  <2>1. CASE i < j
    BY <1>1, <1>2, <2>1
  <2>2. CASE i >= j
    <3>1. i + 1 \in j + 1..n /\ (i + 1) - 1 = i /\ ~(i < j)
      BY <1>2, <2>2
    <3>2. r[(i + 1) - 1] = q[i + 1]
      BY <1>1, <3>1
    <3> QED
      BY <1>2, <3>1, <3>2
  <2> QED
    BY <1>2, <2>1, <2>2
<1>4. ASSUME NEW i \in 1..n - 1, NEW x \in 1..n - 1, r[i] = r[x] PROVE i = x
  <2>1. at(i) = at(x)
    <3> HIDE DEF at
    <3> QED
      BY <1>3, <1>4 DEF Distinct
  <2> QED
    BY <1>2, <2>1
<1>5. Distinct(r)
  BY <1>1, <1>4 DEF Distinct
<1>6. Elements(r) \subseteq Elements(q) \ {q[j]}
  <2> SUFFICES ASSUME NEW i \in 1..n - 1 PROVE r[i] \in Elements(q) \ {q[j]}
    BY <1>1 DEF Elements
  <2>1. q[at(i)] \in Elements(q) /\ q[at(i)] # q[j]
    <3> HIDE DEF at
    <3> QED
      BY <1>3 DEF Elements, Distinct
  <2> QED
    BY <1>3, <2>1
<1>7. ASSUME NEW i \in 1..n, i # j PROVE q[i] \in Elements(r)
  <2>1. CASE i < j
    <3>1. i \in 1..n - 1 /\ r[i] = q[i]
      BY <1>1, <1>2, <2>1
    <3> QED
      BY <1>1, <3>1 DEF Elements
  <2>2. CASE i > j
    <3>1. i - 1 \in 1..n - 1 /\ r[i - 1] = q[i]
      BY <1>1, <1>2, <2>2
    <3> QED
      BY <1>1, <3>1 DEF Elements
  <2> QED
    BY <1>2, <1>7, <2>1, <2>2
<1>8. ASSUME NEW x \in Elements(q) \ {q[j]} PROVE x \in Elements(r)
  <2>1. PICK i \in 1..n : x = q[i]
    BY DEF Elements
  <2> QED
    BY <1>7, <2>1
<1> QED
  BY <1>5, <1>6, <1>8 DEF r

-----------------------------------------------------------------------------
(***************************************************************************)
(* Relinking: what the assignments of a method must have done for the      *)
(* pointers to lead along the new sequence.                                *)
(***************************************************************************)
InsPointers(L, q, k, t, M) ==
    /\ M.head = IF k = 0 THEN t ELSE L.head
    /\ M.tail = IF k = Len(q) THEN t ELSE L.tail
    /\ k > 0 => M.next[q[k]] = t /\ M.prev[t] = q[k]
    /\ k < Len(q) => M.next[t] = q[k + 1] /\ M.prev[q[k + 1]] = t
    /\ \A i \in 1..Len(q) - 1 :
        i # k => M.next[q[i]] = L.next[q[i]] /\ M.prev[q[i + 1]] = L.prev[q[i + 1]]

LEMMA LinksIns ==
    ASSUME NEW L, NEW q, Links(L, q), NEW t \in Timers, t \notin Elements(q),
           NEW k \in 0..Len(q), NEW M, InsPointers(L, q, k, t, M)
    PROVE  Links(M, Ins(q, k, t))
<1> DEFINE r == Ins(q, k, t)
           n == Len(q)
<1>1. q \in Seq(Timers) /\ n \in Nat /\ k \in Nat /\ k <= n
  BY DEF Links
<1>2. /\ r \in Seq(Timers) /\ Len(r) = n + 1
      /\ \A i \in 1..k : r[i] = q[i]
      /\ r[k + 1] = t
      /\ \A i \in k + 1..n : r[i + 1] = q[i]
  BY <1>1, InsIs
<1>3. Distinct(r)
  BY <1>1, InsElements DEF Links
<1> HIDE DEF r
<1>I. /\ M.head = IF k = 0 THEN t ELSE L.head
      /\ M.tail = IF k = n THEN t ELSE L.tail
      /\ k > 0 => M.next[q[k]] = t /\ M.prev[t] = q[k]
      /\ k < n => M.next[t] = q[k + 1] /\ M.prev[q[k + 1]] = t
      /\ \A i \in 1..n - 1 :
            i # k => M.next[q[i]] = L.next[q[i]] /\ M.prev[q[i + 1]] = L.prev[q[i + 1]]
  BY DEF InsPointers
<1>4. M.head = r[1]
  <2>1. CASE k = 0
    BY <1>2, <1>I, <2>1
  <2>2. CASE k > 0
    <3>1. 1 \in 1..k /\ n > 0
      BY <1>1, <2>2
    <3> QED
      BY <1>2, <1>I, <2>2, <3>1 DEF Links
  <2> QED
    BY <1>1, <2>1, <2>2
<1>5. M.tail = r[n + 1]
  <2>1. CASE k = n
    BY <1>2, <1>I, <2>1
  <2>2. CASE k < n
    <3>1. n \in k + 1..n /\ n > 0
      BY <1>1, <2>2
    <3> QED
      BY <1>2, <1>I, <2>2, <3>1 DEF Links
  <2> QED
    BY <1>1, <2>1, <2>2
<1>6. ASSUME NEW i \in 1..(n + 1) - 1 PROVE M.next[r[i]] = r[i + 1] /\ M.prev[r[i + 1]] = r[i]
  <2>0. i \in 1..n
    BY <1>1
  <2>1. CASE i < k
    <3>1. i \in 1..k /\ i + 1 \in 1..k /\ i \in 1..n - 1 /\ i # k
      BY <1>1, <2>1
    <3>2. L.next[q[i]] = q[i + 1] /\ L.prev[q[i + 1]] = q[i]
      BY <3>1 DEF Links
    <3> QED
      BY <1>2, <1>I, <3>1, <3>2
  <2>2. CASE i = k
    <3>1. i \in 1..k /\ k > 0
      BY <1>1, <2>2
    <3> QED
      BY <1>2, <1>I, <2>2, <3>1
  <2>3. CASE i = k + 1
    <3>1. k < n /\ k + 1 \in k + 1..n
      BY <1>1, <2>0, <2>3
    <3> QED
      BY <1>2, <1>I, <2>3, <3>1
  <2>4. CASE i > k + 1
    <3>1. i - 1 \in k + 1..n /\ (i - 1) + 1 = i /\ i \in k + 1..n
          /\ i - 1 \in 1..n - 1 /\ i - 1 # k
      BY <1>1, <2>0, <2>4
    <3>2. r[i] = q[i - 1] /\ r[i + 1] = q[i]
      <4>1. r[(i - 1) + 1] = q[i - 1]
        BY <1>2, <3>1
      <4> QED
        BY <1>2, <3>1, <4>1
    <3>3. L.next[q[i - 1]] = q[(i - 1) + 1] /\ L.prev[q[(i - 1) + 1]] = q[i - 1]
      BY <3>1 DEF Links
    <3>4. /\ M.next[q[i - 1]] = L.next[q[i - 1]]
          /\ M.prev[q[(i - 1) + 1]] = L.prev[q[(i - 1) + 1]]
      BY <1>I, <3>1
    <3> QED
      BY <3>1, <3>2, <3>3, <3>4
  <2> QED
    BY <1>1, <2>1, <2>2, <2>3, <2>4
<1> QED
  BY <1>2, <1>3, <1>4, <1>5, <1>6 DEF Links, r

RemPointers(L, q, j, M) ==
    /\ j > 1 => M.head = L.head
    /\ j = 1 /\ Len(q) > 1 => M.head = q[2]
    /\ j < Len(q) => M.tail = L.tail
    /\ j > 1 /\ j = Len(q) => M.tail = q[j - 1]
    /\ j > 1 /\ j < Len(q) => M.next[q[j - 1]] = q[j + 1] /\ M.prev[q[j + 1]] = q[j - 1]
    /\ \A i \in 1..Len(q) - 1 :
        i # j - 1 /\ i # j =>
            M.next[q[i]] = L.next[q[i]] /\ M.prev[q[i + 1]] = L.prev[q[i + 1]]

LEMMA LinksRem ==
    ASSUME NEW L, NEW q, Links(L, q), NEW j \in 1..Len(q), NEW M, RemPointers(L, q, j, M)
    PROVE  Links(M, Rem(q, j))
<1> DEFINE r == Rem(q, j)
           n == Len(q)
<1>1. q \in Seq(Timers) /\ n \in Nat /\ j \in Nat /\ 1 <= j /\ j <= n
  BY DEF Links
<1>2. /\ r \in Seq(Timers) /\ Len(r) = n - 1
      /\ \A i \in 1..j - 1 : r[i] = q[i]
      /\ \A i \in j + 1..n : r[i - 1] = q[i]
  BY <1>1, RemIs
<1>3. Distinct(r)
  BY <1>1, RemElements DEF Links
<1> HIDE DEF r
<1>I. /\ j > 1 => M.head = L.head
      /\ j = 1 /\ n > 1 => M.head = q[2]
      /\ j < n => M.tail = L.tail
      /\ j > 1 /\ j = n => M.tail = q[j - 1]
      /\ j > 1 /\ j < n => M.next[q[j - 1]] = q[j + 1] /\ M.prev[q[j + 1]] = q[j - 1]
      /\ \A i \in 1..n - 1 :
            i # j - 1 /\ i # j =>
                M.next[q[i]] = L.next[q[i]] /\ M.prev[q[i + 1]] = L.prev[q[i + 1]]
  BY DEF RemPointers
<1>4. ASSUME n - 1 > 0 PROVE M.head = r[1]
  <2>1. CASE j = 1
    <3>1. 2 \in j + 1..n /\ 2 - 1 = 1 /\ n > 1
      BY <1>1, <1>4, <2>1
    <3>2. r[2 - 1] = q[2]
      BY <1>2, <3>1
    <3> QED
      BY <1>I, <2>1, <3>1, <3>2
  <2>2. CASE j > 1
    <3>1. 1 \in 1..j - 1 /\ n > 0
      BY <1>1, <2>2
    <3> QED
      BY <1>2, <1>I, <2>2, <3>1 DEF Links
  <2> QED
    BY <1>1, <2>1, <2>2
<1>5. ASSUME n - 1 > 0 PROVE M.tail = r[n - 1]
  <2>1. CASE j = n
    <3>1. n - 1 \in 1..j - 1 /\ j > 1
      BY <1>1, <1>5, <2>1
    <3> QED
      BY <1>2, <1>I, <2>1, <3>1
  <2>2. CASE j < n
    <3>1. n \in j + 1..n /\ n > 0
      BY <1>1, <2>2
    <3> QED
      BY <1>2, <1>I, <2>2, <3>1 DEF Links
  <2> QED
    BY <1>1, <2>1, <2>2
<1>6. ASSUME NEW i \in 1..(n - 1) - 1 PROVE M.next[r[i]] = r[i + 1] /\ M.prev[r[i + 1]] = r[i]
  <2>1. CASE i < j - 1
    <3>1. i \in 1..j - 1 /\ i + 1 \in 1..j - 1 /\ i \in 1..n - 1 /\ i # j - 1 /\ i # j
      BY <1>1, <2>1
    <3>2. L.next[q[i]] = q[i + 1] /\ L.prev[q[i + 1]] = q[i]
      BY <3>1 DEF Links
    <3> QED
      BY <1>2, <1>I, <3>1, <3>2
  <2>2. CASE i = j - 1
    <3>1. i \in 1..j - 1 /\ j > 1 /\ j < n /\ j + 1 \in j + 1..n /\ (j + 1) - 1 = i + 1
      BY <1>1, <2>2
    <3>2. r[(j + 1) - 1] = q[j + 1]
      BY <1>2, <3>1
    <3> QED
      BY <1>2, <1>I, <2>2, <3>1, <3>2
  <2>3. CASE i > j - 1
    <3>0. i \in Nat /\ i >= j /\ i + 2 <= n
      BY <1>1, <2>3
    <3>1. /\ i + 1 \in j + 1..n /\ (i + 1) - 1 = i /\ i + 2 \in j + 1..n /\ (i + 2) - 1 = i + 1
          /\ i + 1 \in 1..n - 1 /\ i + 1 # j - 1 /\ i + 1 # j /\ (i + 1) + 1 = i + 2
      BY <1>1, <3>0
    <3>2. r[(i + 1) - 1] = q[i + 1] /\ r[(i + 2) - 1] = q[i + 2]
      BY <1>2, <3>1
    <3>3. L.next[q[i + 1]] = q[(i + 1) + 1] /\ L.prev[q[(i + 1) + 1]] = q[i + 1]
      BY <3>1 DEF Links
    <3>4. /\ M.next[q[i + 1]] = L.next[q[i + 1]]
          /\ M.prev[q[(i + 1) + 1]] = L.prev[q[(i + 1) + 1]]
      BY <1>I, <3>1
    <3> QED
      BY <3>1, <3>2, <3>3, <3>4
  <2> QED
    BY <1>1, <2>1, <2>2, <2>3
<1> QED
  BY <1>2, <1>3, <1>4, <1>5, <1>6 DEF Links, r

-----------------------------------------------------------------------------
(***************************************************************************)
(* The order of expire.                                                    *)
(***************************************************************************)
LEMMA SortedIns ==
    ASSUME NEW q \in Seq(Timers), NEW d \in [Timers -> Nat], Sorted(q, d),
           NEW t \in Timers, NEW k \in 0..Len(q), Splits(q, d, d[t], k)
    PROVE  Sorted(Ins(q, k, t), d)
<1> DEFINE r == Ins(q, k, t)
           n == Len(q)
<1>1. n \in Nat /\ k \in Nat /\ k <= n
  OBVIOUS
<1>2. /\ Len(r) = n + 1
      /\ \A i \in 1..k : r[i] = q[i]
      /\ r[k + 1] = t
      /\ \A i \in k + 1..n : r[i + 1] = q[i]
  BY InsIs
<1>3. ASSUME NEW i \in 1..n PROVE d[q[i]] \in Nat /\ (d[q[i]] <= d[t] <=> i <= k)
  <2>1. q[i] \in Timers
    OBVIOUS
  <2> QED
    BY <2>1 DEF Splits
<1>4. d[t] \in Nat
  OBVIOUS
<1>5. \A i, j \in 1..n : i <= j => d[q[i]] <= d[q[j]]
  BY DEF Sorted
<1> HIDE DEF r, n
<1>6. ASSUME NEW j \in k + 2..n + 1 PROVE j - 1 \in 1..n /\ r[j] = q[j - 1] /\ ~(j - 1 <= k)
  <2>1. j - 1 \in k + 1..n /\ (j - 1) + 1 = j
    BY <1>1
  <2>2. r[(j - 1) + 1] = q[j - 1]
    BY <1>2, <2>1
  <2> QED
    BY <1>1, <2>1, <2>2
<1>7. ASSUME NEW i \in 1..n + 1, NEW j \in 1..n + 1, i < j PROVE d[r[i]] <= d[r[j]]
  <2>1. CASE j <= k
    <3>1. i \in 1..k /\ j \in 1..k /\ i \in 1..n /\ j \in 1..n /\ i <= j
      BY <1>1, <1>7, <2>1
    <3> QED
      BY <1>2, <1>5, <3>1
  <2>2. CASE j = k + 1
    <3>1. i \in 1..k /\ i \in 1..n /\ i <= k
      BY <1>1, <1>7, <2>2
    <3> QED
      BY <1>2, <1>3, <2>2, <3>1
  <2>3. CASE j > k + 1
    <3>0. j \in k + 2..n + 1
      BY <1>1, <2>3
    <3>1. j - 1 \in 1..n /\ r[j] = q[j - 1] /\ ~(j - 1 <= k)
      BY <1>6, <3>0
    <3>2. CASE i <= k
      <4>1. i \in 1..k /\ i \in 1..n /\ i <= j - 1
        BY <1>1, <2>3, <3>2
      <4> QED
        BY <1>2, <1>5, <3>1, <4>1
    <3>3. CASE i = k + 1
      BY <1>2, <1>3, <1>4, <3>1, <3>3
    <3>4. CASE i > k + 1
      <4>1. i \in k + 2..n + 1 /\ i - 1 <= j - 1
        BY <1>1, <1>7, <3>4
      <4>2. i - 1 \in 1..n /\ r[i] = q[i - 1]
        BY <1>6, <4>1
      <4> QED
        BY <1>5, <3>1, <4>1, <4>2
    <3> QED
      BY <1>1, <3>2, <3>3, <3>4
  <2> QED
    BY <1>1, <2>1, <2>2, <2>3
<1>8. ASSUME NEW i \in 1..n + 1 PROVE d[r[i]] <= d[r[i]]
  <2>1. r[i] \in Timers
    BY <1>2, InsIs DEF r, n
  <2> QED
    BY <2>1
<1>9. \A i, j \in 1..n + 1 : i <= j => d[r[i]] <= d[r[j]]
  BY <1>1, <1>7, <1>8
<1> QED
  BY <1>2, <1>9 DEF Sorted, r

LEMMA SortedRem ==
    ASSUME NEW q \in Seq(Timers), NEW d, Sorted(q, d), NEW j \in 1..Len(q)
    PROVE  Sorted(Rem(q, j), d)
<1> DEFINE r == Rem(q, j)
           n == Len(q)
<1>1. n \in Nat /\ j \in Nat /\ 1 <= j /\ j <= n
  OBVIOUS
<1>2. /\ Len(r) = n - 1
      /\ \A i \in 1..j - 1 : r[i] = q[i]
      /\ \A i \in j + 1..n : r[i - 1] = q[i]
  BY RemIs
<1>3. \A i, x \in 1..n : i <= x => d[q[i]] <= d[q[x]]
  BY DEF Sorted
<1> HIDE DEF r, n
<1> DEFINE at(y) == IF y < j THEN y ELSE y + 1
<1>4. ASSUME NEW i \in 1..n - 1 PROVE at(i) \in 1..n /\ r[i] = q[at(i)]
  <2>1. CASE i < j
    BY <1>1, <1>2, <2>1
  <2>2. CASE i >= j
    <3>1. i + 1 \in j + 1..n /\ (i + 1) - 1 = i /\ ~(i < j)
      BY <1>1, <2>2
    <3>2. r[(i + 1) - 1] = q[i + 1]
      BY <1>2, <3>1
    <3> QED
      BY <1>1, <3>1, <3>2
  <2> QED
    BY <1>1, <2>1, <2>2
<1>5. ASSUME NEW i \in 1..n - 1, NEW x \in 1..n - 1, i <= x PROVE d[r[i]] <= d[r[x]]
  <2>1. at(i) <= at(x)
    BY <1>1, <1>5
  <2> HIDE DEF at
  <2> QED
    BY <1>3, <1>4, <2>1
<1> QED
  BY <1>2, <1>5 DEF Sorted, r

\* A new time of a timer that is not in the sequence does not disturb it.
LEMMA OthersKeep ==
    ASSUME NEW q \in Seq(Timers), NEW t \in Timers, t \notin Elements(q), NEW e \in Nat,
           NEW c \in [Timers -> Nat], NEW d, d = [c EXCEPT ![t] = e]
    PROVE  /\ d \in [Timers -> Nat] /\ d[t] = e
           /\ Sorted(q, c) => Sorted(q, d)
           /\ \A k : Splits(q, d, e, k) <=> Splits(q, c, e, k)
<1>1. d \in [Timers -> Nat] /\ d[t] = e
  OBVIOUS
<1>2. \A i \in 1..Len(q) : d[q[i]] = c[q[i]]
  <2>1. \A i \in 1..Len(q) : q[i] \in Timers /\ q[i] # t
    BY DEF Elements
  <2> QED
    BY <2>1
<1> QED
  BY <1>1, <1>2 DEF Sorted, Splits

\* Where the first timer is that expires later than e.
LEMMA SplitAt ==
    ASSUME NEW q \in Seq(Timers), NEW d \in [Timers -> Nat], Sorted(q, d), NEW e \in Nat
    PROVE  \E k \in 0..Len(q) : Splits(q, d, e, k)
<1> DEFINE S == {i \in 1..Len(q) : e < d[q[i]]}
<1>1. \A i \in 1..Len(q) : d[q[i]] \in Nat
  OBVIOUS
<1>2. Len(q) \in Nat
  OBVIOUS
<1>3. CASE S = {}
  <2>1. \A i \in 1..Len(q) : d[q[i]] <= e
    BY <1>1, <1>3
  <2>2. Splits(q, d, e, Len(q)) /\ Len(q) \in 0..Len(q)
    BY <1>2, <2>1 DEF Splits
  <2> QED
    BY <2>2
<1>4. CASE S # {}
  <2>1. S \subseteq Nat
    OBVIOUS
  <2>2. PICK m \in S : \A n \in S : m <= n
    <3> HIDE DEF S
    <3> QED
      BY <1>4, <2>1, LeastNatural
  <2>3. m \in 1..Len(q) /\ e < d[q[m]] /\ m - 1 \in 0..Len(q)
    BY <1>2, <2>2
  <2>4. ASSUME NEW i \in 1..Len(q) PROVE d[q[i]] <= e <=> i <= m - 1
    <3>1. CASE i < m
      <4>1. i \notin S
        BY <2>2, <2>3, <3>1
      <4> QED
        BY <1>1, <2>3, <3>1, <4>1
    <3>2. CASE i >= m
      <4>1. d[q[m]] <= d[q[i]]
        BY <2>3, <3>2 DEF Sorted
      <4>2. d[q[m]] \in Nat /\ d[q[i]] \in Nat
        BY <1>1, <2>3
      <4> QED
        BY <2>3, <3>2, <4>1, <4>2
    <3> QED
      BY <2>3, <3>1, <3>2
  <2>5. Splits(q, d, e, m - 1)
    BY <2>4 DEF Splits
  <2> QED
    BY <2>3, <2>5
<1> QED
  BY <1>3, <1>4

-----------------------------------------------------------------------------
(***************************************************************************)
(* add_timer                                                               *)
(***************************************************************************)

\* What add_timer(t) makes of L and q: t is behind the timers that expire by its
\* time, and what the last timer leads on to is as it was.
Added(L, q, t, k) ==
    /\ Typed(list') /\ status' = "running"
    /\ Links(list', Ins(q, k, t))
    /\ \/ list'.tail = t /\ list'.next[t] = L.next[t]
       \/ Len(q) > 0 /\ list'.tail = L.tail /\ list'.next[L.tail] = L.next[L.tail]

LEMMA AddLinks ==
    ASSUME NEW L, Typed(L), NEW q, Links(L, q), NEW t \in Timers, t \notin Elements(q),
           Len(q) = 0 => L.head = Null, status = "running",
           expire' \in [Timers -> Nat], Sorted(q, expire'),
           add_timer(L, Elements(q) \cup {t}, t)
    PROVE  \/ \E k \in 0..Len(q) : Splits(q, expire', expire'[t], k) /\ Added(L, q, t, k)
           \/ status' # "running" /\ Len(q) > 0 /\ L.next[L.tail] # Null
<1> DEFINE n == Len(q)
           alive == Elements(q) \cup {t}
           later == Later(alive, t)
<1>1. /\ q \in Seq(Timers) /\ n \in Nat /\ n \in 0..K /\ K \in Nat
      /\ \A i \in 1..n : q[i] \in Timers /\ q[i] # Null /\ q[i] \in alive /\ q[i] # t
      /\ \A i \in 0..n - 1 : Nth(L)[i] = q[i + 1]
  BY WalkLinks DEF Elements
<1>2. /\ L.head \in Pointers /\ L.tail \in Pointers
      /\ L.next \in [Timers -> Pointers] /\ L.prev \in [Timers -> Pointers]
      /\ L = [head |-> L.head, tail |-> L.tail, next |-> L.next, prev |-> L.prev]
      /\ t \in Pointers /\ t # Null /\ Null \notin alive
  BY <1>1, KType DEF Typed, Pointers, Elements
<1>3. n > 0 => L.head = q[1] /\ L.tail = q[n] /\ 1 \in 1..n /\ n \in 1..n
  BY <1>1 DEF Links
<1>4. ASSUME NEW x \in 1..n, NEW y \in 1..n, q[x] = q[y] PROVE x = y
  BY <1>4 DEF Links, Distinct
<1>5. PICK k \in 0..n : Splits(q, expire', expire'[t], k)
  BY <1>1, SplitAt
<1>6. k \in Nat /\ k <= n
  BY <1>1
<1>7. ASSUME NEW i \in 1..n PROVE q[i] \in later <=> i > k
  <2>1. expire'[q[i]] \in Nat /\ expire'[t] \in Nat
    BY <1>1
  <2>2. expire'[q[i]] <= expire'[t] <=> i <= k
    BY <1>5 DEF Splits
  <2> QED
    BY <1>1, <1>6, <2>1, <2>2 DEF Later
<1>8. t \notin later /\ later \subseteq alive
  <2>1. expire'[t] \in Nat
    OBVIOUS
  <2> QED
    BY <2>1 DEF Later
<1> HIDE DEF later, alive, n
<1> SUFFICES ASSUME ~(status' # "running" /\ n > 0 /\ L.next[L.tail] # Null)
             PROVE  Added(L, q, t, k)
  BY <1>5 DEF n
<1>9. CASE AddEmpty(L, t)
  <2>1. n = 0 /\ k = 0
    BY SMTT(30), <1>1, <1>3, <1>6, <1>9 DEF AddEmpty
  <2>2. /\ list' = [L EXCEPT !.head = t, !.tail = t] /\ status' = status
    BY <1>9 DEF AddEmpty, Writes
  <2>3. Typed(list') /\ list'.head = t /\ list'.tail = t /\ list'.next = L.next
    BY <1>2, <2>2 DEF Typed
  <2>4. Links(list', Ins(q, k, t))
    <3>1. \A i \in 1..n - 1 : FALSE
      BY <2>1
    <3>2. InsPointers(L, q, k, t, list')
      BY <2>1, <2>3, <3>1 DEF InsPointers, n
    <3> QED
      BY <1>6, <2>1, <3>2, LinksIns DEF n
  <2> QED
    BY <2>2, <2>3, <2>4 DEF Added
<1>10. CASE AddFront(L, alive, t)
  <2>1. L.head \in later /\ L.head # t /\ L.head # Null
    BY <1>2, <1>8, <1>10 DEF AddFront, later
  <2>2. n > 0 /\ k = 0 /\ L.head = q[1]
    BY <1>1, <1>3, <1>6, <1>7, <2>1 DEF n
  <2>3. /\ list' = [L EXCEPT !.next[t] = L.head, !.prev[L.head] = t, !.head = t]
        /\ status' = status
    BY <1>10 DEF AddFront, Writes
  <2>4. /\ list'.head = t /\ list'.tail = L.tail
        /\ list'.next = [L.next EXCEPT ![t] = q[1]]
        /\ list'.prev = [L.prev EXCEPT ![q[1]] = t]
        /\ list' = [head |-> list'.head, tail |-> list'.tail, next |-> list'.next, prev |-> list'.prev]
    BY <1>2, <2>2, <2>3
  <2>5. q[1] \in Timers /\ q[1] \in Pointers /\ q[1] # t
    BY <1>1, <1>3, <2>2 DEF Pointers
  <2>6. Typed(list')
    <3>1. list'.next \in [Timers -> Pointers] /\ list'.prev \in [Timers -> Pointers]
      BY <1>2, <2>4, <2>5
    <3> QED
      BY <1>2, <2>4, <3>1 DEF Typed
  <2>7. list'.next[t] = q[1] /\ list'.prev[q[1]] = t
    BY <1>2, <2>4, <2>5
  <2>8. ASSUME NEW i \in 1..n - 1
        PROVE  list'.next[q[i]] = L.next[q[i]] /\ list'.prev[q[i + 1]] = L.prev[q[i + 1]]
    <3>1. i \in 1..n /\ i + 1 \in 1..n /\ i + 1 # 1
      BY <1>1
    <3>2. q[i + 1] # q[1]
      BY <1>3, <1>4, <2>2, <3>1
    <3> QED
      BY <1>1, <1>2, <2>4, <2>5, <3>1, <3>2
  <2>9. Links(list', Ins(q, k, t))
    <3>1. InsPointers(L, q, k, t, list')
      BY <1>1, <1>6, <2>2, <2>4, <2>7, <2>8 DEF InsPointers, n
    <3> QED
      BY <1>6, <3>1, LinksIns DEF n
  <2>10. list'.next[L.tail] = L.next[L.tail]
    BY <1>1, <1>2, <1>3, <2>2, <2>4
  <2> QED
    BY <2>2, <2>3, <2>4, <2>6, <2>9, <2>10 DEF Added, n
<1>11. CASE AddBehind(L, alive, t)
  <2> DEFINE stops == Stops(L, alive, later)
             p == Nth(L)[Least(stops)]
             pr == L.prev[p]
             touched == {L.head} \cup IF p = Null THEN {L.tail} ELSE {p, pr}
  <2>1. L.head # Null /\ L.head \notin later
    BY <1>11 DEF AddBehind, later
  <2>2. n > 0 /\ k > 0 /\ L.head = q[1] /\ L.tail = q[n] /\ 1 \in 1..n /\ n \in 1..n
    BY <1>1, <1>3, <1>6, <1>7, <2>1 DEF n
  <2>3. \/ stops = {} /\ Hangs(L)
        \/ stops # {} /\ ~(touched \subseteq alive) /\ Crashes(L)
        \/ /\ stops # {} /\ touched \subseteq alive /\ p # Null
           /\ Writes([L EXCEPT !.next[t] = p, !.prev[t] = pr, !.next[pr] = t, !.prev[p] = t])
        \/ /\ stops # {} /\ touched \subseteq alive /\ p = Null
           /\ Writes([L EXCEPT !.prev[t] = L.tail, !.next[L.tail] = t, !.tail = t])
    BY <1>11 DEF AddBehind, later
  <2>4. /\ stops = {i \in 1..K + 1 : Nth(L)[i] \in later \/ Nth(L)[i] \notin alive}
        /\ stops \subseteq 1..K + 1 /\ stops \subseteq Nat
    BY <1>1 DEF Stops, K
  <2> HIDE DEF stops
  <2>5. ASSUME NEW i \in 1..n - 1 PROVE i \in 1..K + 1 /\ (i \in stops <=> i >= k)
    <3>1. i \in 1..K + 1 /\ i \in 0..n - 1 /\ i + 1 \in 1..n
      BY <1>1
    <3>2. Nth(L)[i] = q[i + 1] /\ q[i + 1] \in alive
      BY <1>1, <3>1
    <3>3. q[i + 1] \in later <=> i >= k
      BY <1>6, <1>7, <3>1
    <3> QED
      BY <2>4, <3>1, <3>2, <3>3
  <2>6. CASE k < n
    <3>1. Least(stops) = k /\ stops # {}
      <4>1. k \in 1..n - 1
        BY <1>1, <1>6, <2>2, <2>6
      <4>2. k \in stops
        BY <1>6, <2>5, <4>1
      <4>3. Least(stops) \in stops /\ Least(stops) <= k
        BY <2>4, <4>2, LeastIs
      <4>4. Least(stops) \in Nat /\ Least(stops) >= 1
        BY <2>4, <4>3
      <4>5. Least(stops) \in 1..n - 1
        BY <1>1, <1>6, <2>6, <4>3, <4>4
      <4>6. Least(stops) >= k
        BY <2>5, <4>3, <4>5
      <4> QED
        BY <1>6, <4>2, <4>3, <4>4, <4>6
    <3>2. k \in 1..n /\ k + 1 \in 1..n /\ k # k + 1 /\ k \in 0..n - 1 /\ k \in 1..n - 1
      BY <1>1, <1>6, <2>2, <2>6
    <3>3. p = q[k + 1] /\ pr = q[k] /\ p \in alive /\ pr \in alive /\ p # Null
      BY <1>1, <3>1, <3>2 DEF Links, n
    <3>4. q[k] \in Timers /\ q[k + 1] \in Timers /\ q[k] # t /\ q[k + 1] # t
          /\ q[k] \in Pointers /\ q[k + 1] \in Pointers
      BY <1>1, <3>2 DEF Pointers
    <3>5. touched \subseteq alive
      BY <1>1, <2>2, <3>3
    <3>6. /\ list' = [L EXCEPT !.next[t] = q[k + 1], !.prev[t] = q[k],
                               !.next[q[k]] = t, !.prev[q[k + 1]] = t]
          /\ status' = status
      BY <2>3, <3>1, <3>3, <3>5 DEF Writes
    <3>7. /\ list'.head = L.head /\ list'.tail = L.tail
          /\ list'.next = [[L.next EXCEPT ![t] = q[k + 1]] EXCEPT ![q[k]] = t]
          /\ list'.prev = [[L.prev EXCEPT ![t] = q[k]] EXCEPT ![q[k + 1]] = t]
          /\ list' = [head |-> list'.head, tail |-> list'.tail,
                      next |-> list'.next, prev |-> list'.prev]
      BY <1>2, <3>6
    <3>8. Typed(list')
      <4>1. list'.next \in [Timers -> Pointers] /\ list'.prev \in [Timers -> Pointers]
        BY ZenonT(40), <1>2, <3>4, <3>7
      <4> QED
        BY <1>2, <3>7, <4>1 DEF Typed
    <3>9. /\ list'.next[t] = q[k + 1] /\ list'.next[q[k]] = t
          /\ list'.prev[t] = q[k] /\ list'.prev[q[k + 1]] = t
      BY <1>2, <3>4, <3>7
    <3>10. ASSUME NEW i \in 1..n PROVE i # k => list'.next[q[i]] = L.next[q[i]]
      <4>1. i # k => q[i] # q[k]
        BY <1>4, <3>2
      <4> QED
        BY <1>1, <1>2, <3>4, <3>7, <4>1
    <3>11. ASSUME NEW i \in 1..n - 1, i # k
           PROVE  list'.next[q[i]] = L.next[q[i]] /\ list'.prev[q[i + 1]] = L.prev[q[i + 1]]
      <4>1. i \in 1..n /\ i + 1 \in 1..n /\ i + 1 # k + 1
        BY <1>1, <1>6, <3>11
      <4>2. q[i + 1] # q[k + 1]
        BY <1>4, <3>2, <4>1
      <4> QED
        BY <1>1, <1>2, <3>4, <3>7, <3>10, <3>11, <4>1, <4>2
    <3>12. Links(list', Ins(q, k, t))
      <4>1. InsPointers(L, q, k, t, list')
        <5>1. /\ list'.head = IF k = 0 THEN t ELSE L.head
              /\ list'.tail = IF k = n THEN t ELSE L.tail
          BY <1>1, <1>6, <2>2, <2>6, <3>7
        <5>2. \A i \in 1..n - 1 : i # k =>
                list'.next[q[i]] = L.next[q[i]] /\ list'.prev[q[i + 1]] = L.prev[q[i + 1]]
          BY <3>11
        <5> QED
          BY <3>9, <5>1, <5>2 DEF InsPointers, n
      <4> QED
        BY <1>6, <4>1, LinksIns DEF n
    <3>13. list'.next[L.tail] = L.next[L.tail]
      BY <2>2, <2>6, <3>10
    <3> QED
      BY <2>2, <3>6, <3>7, <3>8, <3>12, <3>13 DEF Added, n
  <2>7. CASE k = n
    <3>1. later = {}
      <4>1. \A i \in 1..n : q[i] \notin later
        BY <1>1, <1>7, <2>7
      <4> QED
        BY <1>8, <4>1 DEF alive, Elements, n
    <3>2. ASSUME stops # {} PROVE p \notin alive
      BY <2>4, <3>1, <3>2, LeastIs
    <3>3. ~(stops # {} /\ touched \subseteq alive /\ p # Null)
      BY <3>2
    <3>4. status' = "running"
      <4> SUFFICES ASSUME L.next[L.tail] = Null, status' # "running" PROVE FALSE
        BY <2>2
      <4>1. n \in 1..K + 1 /\ n - 1 \in 0..K + 1 /\ n - 1 \in 0..n - 1 /\ (n - 1) + 1 = n
        BY <1>1, <2>2
      <4>2. Nth(L)[n - 1] = q[n] /\ q[n] # Null
        BY <1>1, <2>2, <4>1
      <4>3. Nth(L)[n] = Null
        BY <2>2, <4>1, <4>2, NthSteps
      <4>4. n \in stops
        BY <1>2, <2>4, <4>1, <4>3
      <4>5. Least(stops) \in stops /\ Least(stops) <= n
        BY <2>4, <4>4, LeastIs
      <4>6. Least(stops) = n
        <5>1. Least(stops) \in 1..K + 1
          BY <2>4, <4>5
        <5>2. Least(stops) < n => Least(stops) \in 1..n - 1 /\ ~(Least(stops) >= k)
          BY <1>1, <2>7, <5>1
        <5> QED
          BY <1>1, <2>5, <4>5, <5>1, <5>2
      <4>7. p = Null /\ touched \subseteq alive
        BY <1>1, <2>2, <4>3, <4>6
      <4> QED
        BY <2>3, <4>4, <4>7 DEF Writes
    <3>5. list' = [L EXCEPT !.prev[t] = L.tail, !.next[L.tail] = t, !.tail = t]
      BY <2>3, <3>3, <3>4 DEF Writes, Hangs, Crashes
    <3>6. /\ list'.head = L.head /\ list'.tail = t
          /\ list'.next = [L.next EXCEPT ![q[n]] = t]
          /\ list'.prev = [L.prev EXCEPT ![t] = q[n]]
          /\ list' = [head |-> list'.head, tail |-> list'.tail,
                      next |-> list'.next, prev |-> list'.prev]
      BY <1>2, <2>2, <3>5
    <3>7. q[n] \in Timers /\ q[n] \in Pointers /\ q[n] # t
      BY <1>1, <2>2 DEF Pointers
    <3>8. Typed(list')
      <4>1. list'.next \in [Timers -> Pointers] /\ list'.prev \in [Timers -> Pointers]
        BY <1>2, <3>6, <3>7
      <4> QED
        BY <1>2, <3>6, <4>1 DEF Typed
    <3>9. list'.next[q[n]] = t /\ list'.prev[t] = q[n] /\ list'.next[t] = L.next[t]
      BY <1>2, <3>6, <3>7
    <3>10. ASSUME NEW i \in 1..n - 1
           PROVE  list'.next[q[i]] = L.next[q[i]] /\ list'.prev[q[i + 1]] = L.prev[q[i + 1]]
      <4>1. i \in 1..n /\ i + 1 \in 1..n /\ i # n
        BY <1>1
      <4>2. q[i] # q[n]
        BY <1>4, <2>2, <4>1
      <4> QED
        BY <1>1, <1>2, <3>6, <3>7, <4>1, <4>2
    <3>11. Links(list', Ins(q, k, t))
      <4>1. InsPointers(L, q, k, t, list')
        BY <1>6, <2>2, <2>7, <3>6, <3>9, <3>10 DEF InsPointers, n
      <4> QED
        BY <1>6, <4>1, LinksIns DEF n
    <3> QED
      BY <3>4, <3>6, <3>8, <3>9, <3>11 DEF Added
  <2> QED
    BY <1>1, <1>6, <2>6, <2>7
<1> QED
  BY <1>9, <1>10, <1>11 DEF add_timer, alive

-----------------------------------------------------------------------------
(***************************************************************************)
(* The methods on a list that is followed.                                 *)
(***************************************************************************)

\* A list that is followed, and that has timers, begins and ends with one.
LEMMA FollowsIs ==
    ASSUME ListTypeOK, NEW q, Follows(q)
    PROVE  /\ Typed(list) /\ q \in Seq(Timers) /\ Len(q) \in Nat /\ Distinct(q)
           /\ \A i \in 1..Len(q) : q[i] \in live /\ q[i] \in Timers /\ q[i] # Null
           /\ \A x, y \in 1..Len(q) : q[x] = q[y] => x = y
           /\ live # {} <=> Len(q) > 0
           /\ Len(q) > 0 => list.head = q[1] /\ list.tail = q[Len(q)]
           /\ Len(q) > 0 => list.head \in live /\ list.tail \in live
           /\ Len(q) > 0 => list.next[list.tail] # list.tail
<1>1. Typed(list) /\ q \in Seq(Timers) /\ Len(q) \in Nat /\ Distinct(q)
  BY DEF Follows, Links, ListTypeOK, Typed
<1>2. \A i \in 1..Len(q) : q[i] \in live /\ q[i] \in Timers /\ q[i] # Null
  BY <1>1, KType DEF Follows, Elements
<1>3. \A x, y \in 1..Len(q) : q[x] = q[y] => x = y
  BY <1>1 DEF Distinct
<1>4. live # {} <=> Len(q) > 0
  <2>1. CASE Len(q) = 0
    BY <1>1, <2>1 DEF Follows, Elements
  <2>2. CASE Len(q) > 0
    <3>1. 1 \in 1..Len(q)
      BY <1>1, <2>2
    <3> QED
      BY <1>2, <2>2, <3>1
  <2> QED
    BY <1>1, <2>1, <2>2
<1>5. Len(q) > 0 => /\ list.head = q[1] /\ list.tail = q[Len(q)]
                    /\ 1 \in 1..Len(q) /\ Len(q) \in 1..Len(q)
  BY <1>1 DEF Follows, Links
<1>6. Len(q) > 0 => list.head \in live /\ list.tail \in live
  BY <1>2, <1>5
<1>7. Len(q) > 0 => list.next[list.tail] # list.tail
  BY <1>4 DEF Follows
<1> QED
  BY <1>1, <1>2, <1>3, <1>4, <1>5, <1>6, <1>7

\* What TailLeadsOn comes to on such a list.
LEMMA LeadsOnIs ==
    ASSUME ListTypeOK, NEW q, Follows(q)
    PROVE  TailLeadsOn <=> IF Len(q) > 0 THEN list.next[list.tail] # Null ELSE list.head # Null
  BY FollowsIs DEF TailLeadsOn

\* A new timer goes behind those that expire no later. It gets stuck only on a last
\* timer that leads on.
LEMMA AddFollows ==
    ASSUME ListTypeOK, status = "running", NEW q, Follows(q), live = {} => list.head = Null,
           NEW t \in Timers, t \notin live, NEW e \in Nat, live' = live \cup {t},
           expire' = [expire EXCEPT ![t] = e], add_timer(Fresh(t), live', t),
           ListTypeOK'
    PROVE  \/ /\ \E k \in 0..Len(q) : Splits(q, expire, e, k) /\ Follows(Ins(q, k, t))'
              /\ status' = "running" /\ (TailLeadsOn' => TailLeadsOn)
           \/ status' # "running" /\ TailLeadsOn
<1> DEFINE L == Fresh(t)
<1>1. /\ Typed(list) /\ q \in Seq(Timers) /\ Len(q) \in Nat /\ Distinct(q)
      /\ \A i \in 1..Len(q) : q[i] \in live /\ q[i] \in Timers /\ q[i] # Null
      /\ live # {} <=> Len(q) > 0
      /\ Len(q) > 0 => list.head = q[1] /\ list.tail = q[Len(q)]
      /\ Len(q) > 0 => list.head \in live /\ list.tail \in live
      /\ Len(q) > 0 => list.next[list.tail] # list.tail
  BY FollowsIs
<1>2. /\ list.head \in Pointers /\ list.tail \in Pointers
      /\ list.next \in [Timers -> Pointers] /\ list.prev \in [Timers -> Pointers]
      /\ Null \in Pointers /\ t # Null
  BY <1>1, KType DEF Typed, Pointers
<1>3. /\ L.head = list.head /\ L.tail = list.tail
      /\ L.next = [list.next EXCEPT ![t] = Null] /\ L.prev = [list.prev EXCEPT ![t] = Null]
      /\ L = [head |-> L.head, tail |-> L.tail, next |-> L.next, prev |-> L.prev]
  <2>1. L = [list EXCEPT !.next[t] = Null, !.prev[t] = Null]
    BY DEF Fresh
  <2> HIDE DEF L
  <2> QED
    BY <1>1, <2>1 DEF Typed
<1> HIDE DEF L
<1>4. Typed(L) /\ L.next[t] = Null
  BY <1>2, <1>3 DEF Typed
<1>5. ASSUME NEW x \in live
      PROVE  L.next[x] = list.next[x] /\ L.prev[x] = list.prev[x]
  <2>1. x # t
    OBVIOUS
  <2>2. x \in Timers
    BY DEF ListTypeOK
  <2> QED
    BY <1>2, <1>3, <2>1, <2>2
<1>6. Links(L, q)
  <2>1. Len(q) > 0 => L.head = q[1] /\ L.tail = q[Len(q)]
    BY <1>1, <1>3
  <2>2. ASSUME NEW i \in 1..Len(q) - 1
        PROVE  L.next[q[i]] = q[i + 1] /\ L.prev[q[i + 1]] = q[i]
    <3>1. i \in 1..Len(q) /\ i + 1 \in 1..Len(q)
      BY <1>1
    <3>2. list.next[q[i]] = q[i + 1] /\ list.prev[q[i + 1]] = q[i]
      BY DEF Follows, Links
    <3> QED
      BY <1>1, <1>5, <3>1, <3>2
  <2> QED
    BY <1>1, <2>1, <2>2 DEF Links
<1>7. Elements(q) = live /\ Sorted(q, expire) /\ expire \in [Timers -> Nat] /\ t \notin Elements(q)
  BY DEF Follows, ListTypeOK
<1>8. /\ expire' \in [Timers -> Nat] /\ expire'[t] = e /\ Sorted(q, expire')
      /\ \A k : Splits(q, expire', e, k) <=> Splits(q, expire, e, k)
  BY ZenonT(40), <1>1, <1>7, OthersKeep
<1>9. \/ \E k \in 0..Len(q) : Splits(q, expire', expire'[t], k) /\ Added(L, q, t, k)
      \/ status' # "running" /\ Len(q) > 0 /\ L.next[L.tail] # Null
  <2>1. /\ add_timer(L, Elements(q) \cup {t}, t)
        /\ Len(q) = 0 => L.head = Null
    BY <1>1, <1>3, <1>7 DEF L
  <2> QED
    BY <1>4, <1>6, <1>7, <1>8, <2>1, AddLinks
<1>10. ASSUME status' # "running", Len(q) > 0, L.next[L.tail] # Null PROVE TailLeadsOn
  BY <1>1, <1>3, <1>5, <1>10, LeadsOnIs
<1>11. ASSUME NEW k \in 0..Len(q), Splits(q, expire', expire'[t], k), Added(L, q, t, k)
       PROVE  /\ Splits(q, expire, e, k) /\ Follows(Ins(q, k, t))'
              /\ status' = "running" /\ (TailLeadsOn' => TailLeadsOn)
  <2> DEFINE r == Ins(q, k, t)
  <2>0. Splits(q, expire', expire'[t], k)
    BY <1>11
  <2>1. r \in Seq(Timers) /\ Len(r) = Len(q) + 1 /\ Elements(r) = live' /\ Sorted(r, expire')
    <3>1. r \in Seq(Timers) /\ Len(r) = Len(q) + 1
      BY <1>1, InsIs
    <3>2. Elements(r) = live'
      BY <1>1, <1>7, InsElements
    <3>3. Sorted(r, expire')
      BY <1>1, <1>8, <2>0, SortedIns
    <3> QED
      BY <3>1, <3>2, <3>3
  <2>2. /\ Links(list', r) /\ status' = "running"
        /\ \/ list'.tail = t /\ list'.next[t] = L.next[t]
           \/ Len(q) > 0 /\ list'.tail = L.tail /\ list'.next[L.tail] = L.next[L.tail]
    BY <1>11 DEF Added
  <2> HIDE DEF r
  <2>3. /\ list'.next[list'.tail] # list'.tail
        /\ list'.next[list'.tail] # Null => Len(q) > 0 /\ list.next[list.tail] # Null
    <3>1. CASE list'.tail = t /\ list'.next[t] = L.next[t]
      BY <1>2, <1>4, <3>1
    <3>2. CASE Len(q) > 0 /\ list'.tail = L.tail /\ list'.next[L.tail] = L.next[L.tail]
      BY <1>1, <1>3, <1>5, <3>2
    <3> QED
      BY <2>2, <3>1, <3>2
  <2>4. (Follows(r))'
    BY <2>1, <2>2, <2>3 DEF Follows
  <2>5. TailLeadsOn' => TailLeadsOn
    <3> SUFFICES ASSUME TailLeadsOn' PROVE TailLeadsOn
      OBVIOUS
    <3>1. Len(r) > 0 /\ Len(q) \in Nat
      BY <1>1, <2>1
    <3>2. list'.head = r[1] /\ 1 \in 1..Len(r)
      BY <1>1, <2>1, <2>2, <3>1 DEF Links
    <3>3. list'.head \in live'
      BY <2>1, <3>2 DEF Elements
    <3>4. list'.next[list'.tail] # Null
      BY <3>3 DEF TailLeadsOn
    <3> QED
      BY <2>3, <3>4, LeadsOnIs
  <2> QED
    BY <1>8, <1>11, <2>2, <2>4, <2>5 DEF r
<1> QED
  BY <1>9, <1>10, <1>11

\* Taking a timer out and putting it back where it was.
LEMMA TakenBack ==
    ASSUME NEW q \in Seq(Timers), NEW j \in 1..Len(q)
    PROVE  j - 1 \in 0..Len(Rem(q, j)) /\ Ins(Rem(q, j), j - 1, q[j]) = q
<1> DEFINE o == Rem(q, j)
           k == j - 1
           r == Ins(o, k, q[j])
           n == Len(q)
<1>1. n \in Nat /\ j \in Nat /\ 1 <= j /\ j <= n /\ q[j] \in Timers /\ k \in Nat
  OBVIOUS
<1>2. /\ o \in Seq(Timers) /\ Len(o) = n - 1
      /\ \A i \in 1..j - 1 : o[i] = q[i]
      /\ \A i \in j + 1..n : o[i - 1] = q[i]
  BY RemIs
<1> HIDE DEF o
<1>3. k \in 0..Len(o)
  BY <1>1, <1>2
<1>4. /\ r \in Seq(Timers) /\ Len(r) = n
      /\ \A i \in 1..k : r[i] = o[i]
      /\ r[k + 1] = q[j]
      /\ \A i \in k + 1..n - 1 : r[i + 1] = o[i]
  <2>1. /\ r \in Seq(Timers) /\ Len(r) = Len(o) + 1
        /\ \A i \in 1..k : r[i] = o[i]
        /\ r[k + 1] = q[j]
        /\ \A i \in k + 1..Len(o) : r[i + 1] = o[i]
    <3> HIDE DEF k
    <3> QED
      BY <1>1, <1>2, <1>3, InsIs
  <2>2. Len(o) + 1 = n
    BY <1>1, <1>2
  <2> HIDE DEF r, k
  <2> QED
    BY <1>2, <2>1, <2>2
<1> HIDE DEF r, n
<1>5. ASSUME NEW i \in 1..n PROVE r[i] = q[i]
  <2>1. CASE i < j
    <3>1. i \in 1..k /\ i \in 1..j - 1
      BY <1>1, <2>1
    <3> QED
      BY <1>2, <1>4, <3>1
  <2>2. CASE i = j
    <3>1. i = k + 1
      BY <1>1, <2>2
    <3> QED
      BY <1>4, <2>2, <3>1
  <2>3. CASE i > j
    <3>1. i - 1 \in k + 1..n - 1 /\ (i - 1) + 1 = i /\ i \in j + 1..n
      BY <1>1, <2>3
    <3>2. r[(i - 1) + 1] = o[i - 1] /\ o[i - 1] = q[i]
      BY <1>2, <1>4, <3>1
    <3> QED
      BY <3>1, <3>2
  <2> QED
    BY <1>1, <2>1, <2>2, <2>3
<1>6. r = q
  <2>1. r = [i \in 1..n |-> r[i]] /\ q = [i \in 1..n |-> q[i]]
    BY <1>4 DEF n
  <2> QED
    BY <1>5, <2>1
<1> QED
  BY <1>3, <1>6 DEF r, o

\* adjust_timer takes a timer that is not the last out of the list.
LEMMA UnlinkLinks ==
    ASSUME ListTypeOK, NEW q, Follows(q), NEW j \in 1..Len(q), j < Len(q)
    PROVE  /\ Typed(Unlinked(q[j])) /\ Links(Unlinked(q[j]), Rem(q, j))
           /\ Neighbours(q[j]) \subseteq live
           /\ Unlinked(q[j]).tail = list.tail
           /\ Unlinked(q[j]).next[list.tail] = list.next[list.tail]
           /\ Unlinked(q[j]).next[q[j]] = list.next[q[j]]
<1> DEFINE t == q[j]
           M == Unlinked(t)
           n == Len(q)
<1>1. /\ Typed(list) /\ q \in Seq(Timers) /\ n \in Nat /\ Links(list, q)
      /\ \A i \in 1..n : q[i] \in live /\ q[i] \in Timers /\ q[i] # Null
      /\ \A x, y \in 1..n : q[x] = q[y] => x = y
      /\ list.head = q[1] /\ list.tail = q[n] /\ 1 \in 1..n /\ n \in 1..n
      /\ list = [head |-> list.head, tail |-> list.tail, next |-> list.next, prev |-> list.prev]
  BY FollowsIs DEF Follows, Typed
<1>2. /\ list.head \in Pointers /\ list.tail \in Pointers
      /\ list.next \in [Timers -> Pointers] /\ list.prev \in [Timers -> Pointers]
      /\ Null \in Pointers /\ \A i \in 1..n : q[i] \in Pointers
  BY <1>1 DEF Typed, Pointers
<1>3. /\ j \in 1..n - 1 /\ j + 1 \in 1..n /\ j + 1 # j /\ j # n
      /\ list.next[t] = q[j + 1]
  <2>1. j \in 1..n - 1 /\ j + 1 \in 1..n /\ j + 1 # j /\ j # n
    BY <1>1
  <2> QED
    BY <1>1, <2>1 DEF Links
<1> HIDE DEF n
<1>4. CASE j = 1
  <2>1. t = list.head
    BY <1>1, <1>4
  <2>2. M = [list EXCEPT !.head = q[j + 1], !.prev[q[j + 1]] = Null]
    BY <1>3, <2>1 DEF Unlinked
  <2>3. Neighbours(t) \subseteq live
    BY <1>1, <1>3, <2>1 DEF Neighbours
  <2> HIDE DEF M
  <2>4. /\ M.head = q[j + 1] /\ M.tail = list.tail /\ M.next = list.next
        /\ M.prev = [list.prev EXCEPT ![q[j + 1]] = Null]
        /\ M = [head |-> M.head, tail |-> M.tail, next |-> M.next, prev |-> M.prev]
    BY <1>1, <2>2
  <2>5. Typed(M)
    BY <1>2, <1>3, <2>4 DEF Typed
  <2>6. ASSUME NEW i \in 1..n - 1, i # j - 1, i # j
        PROVE  M.next[q[i]] = list.next[q[i]] /\ M.prev[q[i + 1]] = list.prev[q[i + 1]]
    <3>1. i \in 1..n /\ i + 1 \in 1..n /\ i + 1 # j + 1
      BY <1>1, <2>6
    <3>2. q[i + 1] # q[j + 1]
      BY <1>1, <1>3, <3>1
    <3> QED
      BY <1>1, <1>2, <1>3, <2>4, <3>1, <3>2
  <2>7. RemPointers(list, q, j, M)
    <3>1. ~(j > 1) /\ j + 1 = 2
      BY <1>4
    <3> QED
      BY <2>4, <2>6, <3>1 DEF RemPointers, n
  <2>8. Links(M, Rem(q, j))
    BY <1>1, <2>7, LinksRem
  <2> QED
    BY <2>3, <2>4, <2>5, <2>8 DEF M
<1>5. CASE j > 1
  <2>1. /\ j - 1 \in 1..n /\ j - 1 \in 1..n - 1 /\ (j - 1) + 1 = j
        /\ j - 1 # j /\ j - 1 # n /\ j # 1
    BY <1>1, <1>3, <1>5
  <2>2. t # list.head /\ list.prev[t] = q[j - 1]
    <3>1. list.prev[q[(j - 1) + 1]] = q[j - 1]
      BY <1>1, <2>1 DEF Links, n
    <3> QED
      BY <1>1, <2>1, <3>1 DEF n
  <2>3. M = [list EXCEPT !.next[q[j - 1]] = q[j + 1], !.prev[q[j + 1]] = q[j - 1]]
    BY <1>3, <2>2 DEF Unlinked
  <2>4. Neighbours(t) \subseteq live
    BY <1>1, <1>3, <2>1, <2>2 DEF Neighbours
  <2> HIDE DEF M
  <2>5. /\ M.head = list.head /\ M.tail = list.tail
        /\ M.next = [list.next EXCEPT ![q[j - 1]] = q[j + 1]]
        /\ M.prev = [list.prev EXCEPT ![q[j + 1]] = q[j - 1]]
        /\ M = [head |-> M.head, tail |-> M.tail, next |-> M.next, prev |-> M.prev]
    BY <1>1, <2>3
  <2>6. Typed(M)
    <3>1. M.next \in [Timers -> Pointers] /\ M.prev \in [Timers -> Pointers]
      BY <1>1, <1>2, <1>3, <2>1, <2>5
    <3> QED
      BY <1>2, <2>5, <3>1 DEF Typed
  <2>7. M.next[q[j - 1]] = q[j + 1] /\ M.prev[q[j + 1]] = q[j - 1]
    BY <1>1, <1>2, <1>3, <2>1, <2>5
  <2>8. ASSUME NEW i \in 1..n, i # j - 1 PROVE M.next[q[i]] = list.next[q[i]]
    <3>1. q[i] # q[j - 1]
      BY <1>1, <2>1, <2>8
    <3> QED
      BY <1>1, <1>2, <2>1, <2>5, <3>1
  <2>9. ASSUME NEW i \in 1..n - 1, i # j - 1, i # j
        PROVE  M.next[q[i]] = list.next[q[i]] /\ M.prev[q[i + 1]] = list.prev[q[i + 1]]
    <3>1. i \in 1..n /\ i + 1 \in 1..n /\ i + 1 # j + 1
      BY <1>1, <2>9
    <3>2. q[i + 1] # q[j + 1]
      BY <1>1, <1>3, <3>1
    <3> QED
      BY <1>1, <1>2, <1>3, <2>5, <2>8, <2>9, <3>1, <3>2
  <2>10. RemPointers(list, q, j, M)
    <3>1. ~(j = 1) /\ j # Len(q)
      BY <1>3, <2>1 DEF n
    <3> QED
      BY <2>5, <2>7, <2>9, <3>1 DEF RemPointers, n
  <2>11. Links(M, Rem(q, j))
    BY <1>1, <2>10, LinksRem
  <2>12. M.next[q[n]] = list.next[q[n]] /\ M.next[t] = list.next[t]
    BY <1>1, <1>3, <2>1, <2>8 DEF n
  <2> QED
    BY <1>1, <2>4, <2>5, <2>6, <2>11, <2>12 DEF M
<1> QED
  BY <1>1, <1>3, <1>4, <1>5 DEF n

\* A timer that is put off goes behind those that expire no later than it does now.
\* The last timer leads on afterwards only if it did, or if it is the one moved.
LEMMA AdjustFollows ==
    ASSUME ListTypeOK, status = "running", NEW q, Follows(q), NEW t \in live, NEW e \in Nat,
           expire[t] <= e, expire' = [expire EXCEPT ![t] = e], live' = live, adjust_timer(t),
           ListTypeOK'
    PROVE  \/ /\ \E j \in 1..Len(q) : \E k \in 0..Len(Rem(q, j)) :
                    /\ q[j] = t
                    /\ Splits(Rem(q, j), expire, e, k)
                    /\ Follows(Ins(Rem(q, j), k, t))'
              /\ status' = "running"
              /\ TailLeadsOn' => TailLeadsOn \/ list'.tail \in live \ {list.tail}
           \/ status' # "running" /\ TailLeadsOn
<1>1. /\ Typed(list) /\ q \in Seq(Timers) /\ Len(q) \in Nat /\ Links(list, q) /\ Distinct(q)
      /\ \A i \in 1..Len(q) : q[i] \in live /\ q[i] \in Timers /\ q[i] # Null
      /\ \A x, y \in 1..Len(q) : q[x] = q[y] => x = y
      /\ Sorted(q, expire) /\ Elements(q) = live /\ expire \in [Timers -> Nat]
      /\ Len(q) > 0 => /\ list.head = q[1] /\ list.tail = q[Len(q)]
                       /\ list.head \in live /\ list.tail \in live
                       /\ list.next[list.tail] # list.tail
  BY FollowsIs DEF Follows, ListTypeOK
<1>2. PICK j \in 1..Len(q) : q[j] = t
  BY <1>1 DEF Elements
<1> DEFINE o == Rem(q, j)
           n == Len(q)
<1>3. /\ j \in Nat /\ 1 <= j /\ j <= n /\ n > 0 /\ t \in Timers /\ t # Null
      /\ n \in 1..n /\ 1 \in 1..n
  BY <1>1, <1>2
<1>4. /\ o \in Seq(Timers) /\ Len(o) = n - 1
      /\ \A i \in 1..j - 1 : o[i] = q[i]
      /\ \A i \in j + 1..n : o[i - 1] = q[i]
  BY <1>1, RemIs
<1>5. /\ Distinct(o) /\ Elements(o) = live \ {t} /\ Sorted(o, expire) /\ t \notin Elements(o)
  BY <1>1, <1>2, RemElements, SortedRem
<1> HIDE DEF o
<1>6. /\ expire' \in [Timers -> Nat] /\ expire'[t] = e /\ Sorted(o, expire')
      /\ \A k : Splits(o, expire', e, k) <=> Splits(o, expire, e, k)
  <2>1. /\ o \in Seq(Timers) /\ t \in Timers /\ t \notin Elements(o) /\ e \in Nat
        /\ expire \in [Timers -> Nat] /\ expire' = [expire EXCEPT ![t] = e] /\ Sorted(o, expire)
    BY <1>1, <1>3, <1>4, <1>5 DEF ListTypeOK
  <2> QED
    BY ZenonT(40), <2>1, OthersKeep
<1>7. ASSUME NEW k \in 0..Len(o), Splits(o, expire', e, k)
      PROVE  /\ Ins(o, k, t) \in Seq(Timers) /\ Len(Ins(o, k, t)) = n
             /\ Elements(Ins(o, k, t)) = live /\ Sorted(Ins(o, k, t), expire')
  <2>1. Ins(o, k, t) \in Seq(Timers) /\ Len(Ins(o, k, t)) = n
    <3>1. Len(Ins(o, k, t)) = Len(o) + 1 /\ Ins(o, k, t) \in Seq(Timers)
      BY <1>3, <1>4, InsIs
    <3> QED
      BY <1>1, <1>4, <3>1
  <2>2. Elements(Ins(o, k, t)) = live
    <3>1. Elements(Ins(o, k, t)) = Elements(o) \cup {t}
      BY <1>3, <1>4, <1>5, InsElements
    <3> QED
      BY <1>5, <3>1
  <2>3. Sorted(Ins(o, k, t), expire')
    BY <1>3, <1>4, <1>6, <1>7, SortedIns
  <2> QED
    BY <2>1, <2>2, <2>3
<1>8. CASE InPlace(t) /\ Writes(list)
  <2>1. list' = list /\ status' = status
    BY <1>8 DEF Writes
  <2>2. j < n => list.next[t] = q[j + 1] /\ j + 1 \in 1..n
    <3>1. j < n => j \in 1..n - 1 /\ j + 1 \in 1..n
      BY <1>1, <1>3
    <3> QED
      BY <1>1, <1>2, <3>1 DEF Links
  <2>3. j < n => e < expire[q[j + 1]]
    <3> SUFFICES ASSUME j < n PROVE e < expire[q[j + 1]]
      OBVIOUS
    <3>1. t # list.tail
      BY <1>1, <1>2, <1>3
    <3>2. list.next[t] \in Later(live, t)
      BY <1>1, <1>8, <2>2, <3>1 DEF InPlace
    <3>3. e < expire'[q[j + 1]]
      BY <1>6, <2>2, <3>2 DEF Later
    <3>4. q[j + 1] # t /\ q[j + 1] \in Timers
      BY <1>1, <1>2, <1>3, <2>2
    <3> QED
      BY <1>1, <3>3, <3>4
  <2>4. ASSUME NEW i \in 1..Len(o) PROVE expire[o[i]] <= e <=> i <= j - 1
    <3>1. CASE i < j
      <4>1. i \in 1..j - 1 /\ i \in 1..n /\ i <= j
        BY <1>1, <1>3, <1>4, <3>1
      <4>2. expire[q[i]] <= expire[q[j]]
        BY <1>1, <4>1 DEF Sorted
      <4>3. expire[q[i]] \in Nat /\ expire[q[j]] \in Nat /\ o[i] = q[i]
        BY <1>1, <1>4, <4>1
      <4> QED
        BY <1>2, <4>1, <4>2, <4>3
    <3>2. CASE i >= j
      <4>1. i + 1 \in j + 1..n /\ (i + 1) - 1 = i /\ i + 1 \in 1..n /\ j < n
            /\ j + 1 \in 1..n /\ j + 1 <= i + 1 /\ ~(i <= j - 1)
        BY SMTT(20), <1>1, <1>3, <1>4, <3>2
      <4>2. o[(i + 1) - 1] = q[i + 1]
        BY <1>4, <4>1
      <4>3. expire[q[j + 1]] <= expire[q[i + 1]]
        BY <1>1, <4>1 DEF Sorted
      <4>4. expire[q[j + 1]] \in Nat /\ expire[q[i + 1]] \in Nat
        BY <1>1, <4>1
      <4> QED
        BY <2>3, <4>1, <4>2, <4>3, <4>4
    <3> QED
      BY <1>3, <3>1, <3>2
  <2>5. Splits(o, expire, e, j - 1)
    BY <2>4 DEF Splits
  <2>6. j - 1 \in 0..Len(o) /\ Ins(o, j - 1, t) = q
    BY <1>1, <1>2, TakenBack DEF o
  <2>7. Sorted(q, expire')
    BY <1>6, <1>7, <2>5, <2>6
  <2>8. (Follows(q))'
    BY <1>1, <1>3, <2>1, <2>7 DEF Follows
  <2>9. TailLeadsOn' => TailLeadsOn
    BY <2>1 DEF TailLeadsOn
  <2> QED
    BY <1>2, <2>1, <2>5, <2>6, <2>8, <2>9 DEF o
<1>9. CASE ~InPlace(t)
  <2> DEFINE L == Unlinked(t)
  <2>1. j < n
    <3>1. t # list.tail
      BY <1>9 DEF InPlace
    <3>2. j # n
      BY <1>1, <1>2, <1>3, <3>1
    <3> QED
      BY <1>1, <1>3, <3>2
  <2>2. /\ Typed(L) /\ Links(L, o) /\ Neighbours(t) \subseteq live
        /\ L.tail = list.tail /\ L.next[list.tail] = list.next[list.tail]
        /\ L.next[t] = list.next[t]
    BY <1>2, <2>1, UnlinkLinks DEF o
  <2>3. add_timer(L, live, t)
    BY <1>9, <2>2 DEF adjust_timer
  <2> HIDE DEF L
  <2>4. Elements(o) \cup {t} = live /\ Len(o) > 0 /\ Len(o) # 0
    BY <1>1, <1>3, <1>4, <1>5, <2>1
  <2>5. \/ \E k \in 0..Len(o) : Splits(o, expire', expire'[t], k) /\ Added(L, o, t, k)
        \/ status' # "running" /\ Len(o) > 0 /\ L.next[L.tail] # Null
    BY <1>3, <1>5, <1>6, <2>2, <2>3, <2>4, AddLinks
  <2>6. ASSUME status' # "running", L.next[L.tail] # Null PROVE TailLeadsOn
    BY <1>1, <1>3, <2>2, <2>6, LeadsOnIs
  <2>7. ASSUME NEW k \in 0..Len(o), Splits(o, expire', expire'[t], k), Added(L, o, t, k)
        PROVE  /\ Splits(o, expire, e, k) /\ Follows(Ins(o, k, t))'
               /\ status' = "running"
               /\ TailLeadsOn' => TailLeadsOn \/ list'.tail \in live \ {list.tail}
    <3> DEFINE r == Ins(o, k, t)
    <3>1. /\ r \in Seq(Timers) /\ Len(r) = n /\ Elements(r) = live /\ Sorted(r, expire')
      BY <1>6, <1>7, <2>7
    <3>2. /\ Links(list', r) /\ status' = "running"
          /\ \/ list'.tail = t /\ list'.next[t] = L.next[t]
             \/ list'.tail = L.tail /\ list'.next[L.tail] = L.next[L.tail]
      BY <2>7 DEF Added
    <3> HIDE DEF r
    <3>3. list.next[t] # t /\ t # list.tail
      <4>1. j \in 1..n - 1 /\ j + 1 \in 1..n /\ j + 1 # j /\ j # n
        BY <1>1, <1>3, <2>1
      <4>2. list.next[t] = q[j + 1]
        BY <1>1, <1>2, <4>1 DEF Links
      <4>3. q[j + 1] # q[j] /\ q[j] # q[n]
        BY <1>1, <1>3, <4>1
      <4> QED
        BY <1>1, <1>2, <1>3, <4>2, <4>3
    <3>4. list'.next[list'.tail] # list'.tail
      BY <1>1, <1>3, <2>2, <3>2, <3>3
    <3>5. (Follows(r))'
      BY <3>1, <3>2, <3>4 DEF Follows
    <3>6. TailLeadsOn' => TailLeadsOn \/ list'.tail \in live \ {list.tail}
      <4> SUFFICES ASSUME TailLeadsOn', list'.tail = list.tail PROVE TailLeadsOn
        BY <2>2, <3>2, <3>3
      <4>1. list'.head = r[1] /\ 1 \in 1..Len(r)
        BY <1>3, <3>1, <3>2 DEF Links
      <4>2. list'.head \in live
        BY <3>1, <4>1 DEF Elements
      <4>3. list'.next[list'.tail] # Null
        BY <4>2 DEF TailLeadsOn
      <4>4. list.next[list.tail] # Null
        BY <2>2, <3>2, <3>3, <4>3
      <4> QED
        BY <1>3, <4>4, LeadsOnIs
    <3> QED
      BY <1>6, <2>7, <3>2, <3>5, <3>6 DEF r
  <2> QED
    BY <1>2, <2>5, <2>6, <2>7 DEF o
<1> QED
  BY <1>8, <1>9 DEF adjust_timer

-----------------------------------------------------------------------------
(***************************************************************************)
(* del_timer and tick                                                      *)
(***************************************************************************)

\* Unlinking the timer j of a list, and freeing it.
LEMMA UnlinkedFollows ==
    ASSUME ListTypeOK, NEW q, Follows(q), NEW j \in 1..Len(q),
           RemPointers(list, q, j, list'), live' = live \ {q[j]}, expire' = expire,
           Len(q) > 1 => list'.next[list'.tail] # list'.tail
    PROVE  Follows(Rem(q, j))'
<1>1. q \in Seq(Timers) /\ Len(q) \in Nat /\ Distinct(q) /\ Links(list, q)
  BY FollowsIs DEF Follows
<1>2. Links(list', Rem(q, j))
  BY <1>1, LinksRem
<1>3. Elements(Rem(q, j)) = live' /\ Sorted(Rem(q, j), expire')
  BY <1>1, RemElements, SortedRem DEF Follows
<1>4. live' # {} => Len(q) > 1
  <2> SUFFICES ASSUME Len(q) = 1 PROVE live' = {}
    BY <1>1
  <2>1. Len(Rem(q, j)) = Len(q) - 1
    BY <1>1, RemIs
  <2>2. Len(Rem(q, j)) = 0
    BY <1>1, <2>1
  <2> QED
    BY <1>3, <2>2 DEF Elements
<1> QED
  BY <1>2, <1>3, <1>4 DEF Follows

\* del_timer takes the timer out, unless it is the only one: that is the crash.
LEMMA DelFollows ==
    ASSUME ListTypeOK, status = "running", NEW q, Follows(q), NEW t \in live, del_timer(t)
    PROVE  \/ /\ \E j \in 1..Len(q) : q[j] = t /\ Follows(Rem(q, j))'
              /\ live # {t} /\ live' = live \ {t} /\ expire' = expire
              /\ status' = "running" /\ (TailLeadsOn' => TailLeadsOn)
           \/ /\ live = {t} /\ status' = "crashed"
              /\ UNCHANGED <<list, expire, live>>
<1> DEFINE n == Len(q)
<1>1. /\ Typed(list) /\ q \in Seq(Timers) /\ n \in Nat /\ Links(list, q)
      /\ \A i \in 1..n : q[i] \in live /\ q[i] \in Timers /\ q[i] # Null
      /\ \A x, y \in 1..n : q[x] = q[y] => x = y
      /\ Elements(q) = live
  BY FollowsIs DEF Follows
<1>2. PICK j \in 1..n : q[j] = t
  BY <1>1 DEF Elements
<1>3. /\ n > 0 /\ 1 \in 1..n /\ n \in 1..n /\ j \in Nat /\ 1 <= j /\ j <= n
      /\ list.head = q[1] /\ list.tail = q[n] /\ list.next[list.tail] # list.tail
      /\ n \in 0..K /\ K \in Nat /\ t \in Timers /\ t # Null
  BY <1>1, <1>2, FollowsIs, WalkLinks
<1>4. /\ list.next \in [Timers -> Pointers] /\ list.prev \in [Timers -> Pointers]
      /\ list = [head |-> list.head, tail |-> list.tail, next |-> list.next, prev |-> list.prev]
  BY <1>1 DEF Typed
<1>5. ASSUME NEW i \in 1..n - 1
      PROVE  /\ i \in 1..n /\ i + 1 \in 1..n
             /\ list.next[q[i]] = q[i + 1] /\ list.prev[q[i + 1]] = q[i]
  BY <1>1 DEF Links
<1>6. \A i \in 1..n : q[i] = t <=> i = j
  BY <1>1, <1>2
<1> HIDE DEF n
\* What is left to show of each way: where the timer was, and what its neighbours are.
<1>7. ASSUME j # 1 \/ n > 1,
             NEW M, Frees(t, M), UNCHANGED expire, RemPointers(list, q, j, M),
             M.next \in [Timers -> Pointers], M.prev \in [Timers -> Pointers],
             M = [head |-> M.head, tail |-> M.tail, next |-> M.next, prev |-> M.prev],
             M.tail \in live \ {t}, M.next[M.tail] # M.tail,
             M.head \in live \ {t},
             M.next[M.tail] # Null => TailLeadsOn
      PROVE  /\ \E i \in 1..n : q[i] = t /\ Follows(Rem(q, i))'
             /\ live # {t} /\ live' = live \ {t} /\ expire' = expire
             /\ status' = "running" /\ (TailLeadsOn' => TailLeadsOn)
  <2>1. /\ list' = [M EXCEPT !.next[t] = Null, !.prev[t] = Null]
        /\ status' = status /\ live' = live \ {t}
    BY <1>7 DEF Frees, Writes
  <2>2. /\ list'.head = M.head /\ list'.tail = M.tail
        /\ list'.next = [M.next EXCEPT ![t] = Null] /\ list'.prev = [M.prev EXCEPT ![t] = Null]
    BY <1>7, <2>1
  <2>3. ASSUME NEW x \in Timers, x # t PROVE list'.next[x] = M.next[x] /\ list'.prev[x] = M.prev[x]
    BY <1>7, <2>2, <2>3
  <2>4. list'.next[list'.tail] = M.next[M.tail]
    <3>1. M.tail \in Timers /\ M.tail # t
      BY <1>7 DEF ListTypeOK
    <3> QED
      BY <2>2, <2>3, <3>1
  <2>5. ASSUME NEW i \in 1..n, i # j
        PROVE  list'.next[q[i]] = M.next[q[i]] /\ list'.prev[q[i]] = M.prev[q[i]]
    BY <1>1, <1>6, <2>3, <2>5
  <2>6. RemPointers(list, q, j, list')
    <3>1. /\ j > 1 => list'.head = list.head
          /\ j = 1 /\ n > 1 => list'.head = q[2]
          /\ j < n => list'.tail = list.tail
          /\ j > 1 /\ j = n => list'.tail = q[j - 1]
      BY <1>7, <2>2 DEF RemPointers, n
    <3>2. j > 1 /\ j < n => list'.next[q[j - 1]] = q[j + 1] /\ list'.prev[q[j + 1]] = q[j - 1]
      <4> SUFFICES ASSUME j > 1, j < n
                   PROVE  list'.next[q[j - 1]] = q[j + 1] /\ list'.prev[q[j + 1]] = q[j - 1]
        OBVIOUS
      <4>1. j - 1 \in 1..n /\ j + 1 \in 1..n /\ j - 1 # j /\ j + 1 # j
        BY <1>1, <1>3
      <4>2. M.next[q[j - 1]] = q[j + 1] /\ M.prev[q[j + 1]] = q[j - 1]
        BY <1>7 DEF RemPointers, n
      <4> QED
        BY <2>5, <4>1, <4>2
    <3>3. ASSUME NEW i \in 1..n - 1, i # j - 1, i # j
          PROVE  list'.next[q[i]] = list.next[q[i]] /\ list'.prev[q[i + 1]] = list.prev[q[i + 1]]
      <4>1. i \in 1..n /\ i + 1 \in 1..n /\ i + 1 # j
        BY <1>1, <1>3, <3>3
      <4>2. M.next[q[i]] = list.next[q[i]] /\ M.prev[q[i + 1]] = list.prev[q[i + 1]]
        BY <1>7, <3>3 DEF RemPointers, n
      <4> QED
        BY <2>5, <3>3, <4>1, <4>2
    <3> QED
      BY <3>1, <3>2, <3>3 DEF RemPointers, n
  <2>7. (Follows(Rem(q, j)))'
    BY <1>2, <1>7, <2>1, <2>2, <2>4, <2>6, UnlinkedFollows DEF n
  <2>8. TailLeadsOn' => TailLeadsOn
    BY <1>7, <2>1, <2>2, <2>4 DEF TailLeadsOn
  <2> QED
    BY <1>2, <1>7, <2>1, <2>7, <2>8
<1>8. CASE DelHead(t)
  <2> DEFINE second == list.next[t]
             M == [list EXCEPT !.head = second, !.prev[second] = Null]
  <2>1. j = 1 /\ expire' = expire
    BY <1>1, <1>3, <1>6, <1>8 DEF DelHead, del_timer
  <2>2. \/ second \notin live /\ Crashes(list) /\ UNCHANGED live
        \/ second \in live /\ Frees(t, M)
    BY <1>8 DEF DelHead
  <2>3. CASE n = 1
    <3>1. live = {t}
      <4>1. \A i \in 1..n : i = j
        BY <2>1, <2>3
      <4> QED
        BY <1>1, <1>2, <4>1 DEF Elements, n
    <3>2. second \notin live
      BY <1>2, <1>3, <2>1, <2>3, <3>1
    <3> QED
      BY <2>1, <2>2, <3>1, <3>2 DEF Crashes
  <2>4. CASE n > 1
    <3>1. 1 \in 1..n - 1 /\ 1 + 1 = 2 /\ 2 \in 1..n
      BY <1>1, <2>4
    <3>2. second = q[2] /\ q[2] \in live /\ q[2] # t /\ q[2] \in Pointers /\ q[2] \in Timers
      BY <1>1, <1>2, <1>5, <1>6, <2>1, <3>1 DEF Pointers
    <3>3. Frees(t, M)
      BY <2>2, <3>2
    <3>M. M = [list EXCEPT !.head = q[2], !.prev[q[2]] = Null]
      BY <3>2
    <3> HIDE DEF M, second
    <3>4. /\ M.head = q[2] /\ M.tail = list.tail /\ M.next = list.next
          /\ M.prev = [list.prev EXCEPT ![q[2]] = Null]
          /\ M = [head |-> M.head, tail |-> M.tail, next |-> M.next, prev |-> M.prev]
      BY <1>4, <3>M
    <3>5. M.next \in [Timers -> Pointers] /\ M.prev \in [Timers -> Pointers]
      BY <1>4, <3>2, <3>4 DEF Pointers
    <3>6. ASSUME NEW i \in 1..n - 1, i # j - 1, i # j
          PROVE  M.next[q[i]] = list.next[q[i]] /\ M.prev[q[i + 1]] = list.prev[q[i + 1]]
      <4>1. i \in 1..n /\ i + 1 \in 1..n /\ i + 1 # 2
        BY <1>1, <2>1, <3>6
      <4>2. q[i + 1] # q[2]
        BY <1>1, <3>1, <4>1
      <4> QED
        BY <1>1, <1>4, <3>2, <3>4, <4>1, <4>2
    <3>7. RemPointers(list, q, j, M)
      <4>1. ~(j > 1)
        BY <2>1
      <4> QED
        BY <2>1, <3>4, <3>6, <4>1 DEF RemPointers, n
    <3>8. list.tail \in live \ {t}
      BY <1>1, <1>3, <1>6, <2>1, <2>4
    <3>9. M.next[M.tail] # Null => TailLeadsOn
      BY <3>4, <3>8 DEF TailLeadsOn
    <3> QED
      BY <1>3, <1>7, <2>1, <2>4, <3>2, <3>3, <3>4, <3>5, <3>7, <3>8, <3>9 DEF n
  <2> QED
    BY <1>1, <1>3, <2>3, <2>4
<1>9. CASE DelTail(t)
  <2> DEFINE last == list.prev[t]
             M == [list EXCEPT !.tail = last, !.next[last] = Null]
  <2>1. j = n /\ j > 1 /\ expire' = expire
    BY <1>1, <1>3, <1>6, <1>9 DEF DelTail, del_timer
  <2>2. /\ j - 1 \in 1..n - 1 /\ (j - 1) + 1 = j /\ j - 1 \in 1..n /\ j - 1 # j
    BY <1>1, <1>3, <2>1
  <2>3. last = q[j - 1] /\ q[j - 1] \in live /\ q[j - 1] \in Timers /\ q[j - 1] # t /\ q[j - 1] # Null
    BY <1>1, <1>2, <1>5, <1>6, <2>2
  <2>4. Frees(t, M)
    BY <1>9, <2>3 DEF DelTail
  <2>M. M = [list EXCEPT !.tail = q[j - 1], !.next[q[j - 1]] = Null]
    BY <2>3
  <2> HIDE DEF M, last
  <2>5. /\ M.head = list.head /\ M.tail = q[j - 1] /\ M.prev = list.prev
        /\ M.next = [list.next EXCEPT ![q[j - 1]] = Null]
        /\ M = [head |-> M.head, tail |-> M.tail, next |-> M.next, prev |-> M.prev]
    BY <1>4, <2>M
  <2>6. M.next \in [Timers -> Pointers] /\ M.prev \in [Timers -> Pointers]
        /\ M.next[q[j - 1]] = Null
    BY <1>4, <2>3, <2>5 DEF Pointers
  <2>7. ASSUME NEW i \in 1..n - 1, i # j - 1, i # j
        PROVE  M.next[q[i]] = list.next[q[i]] /\ M.prev[q[i + 1]] = list.prev[q[i + 1]]
    <3>1. q[i] # q[j - 1] /\ q[i] \in Timers
      BY <1>1, <1>5, <2>2, <2>7
    <3> QED
      BY <1>4, <2>5, <3>1
  <2>8. RemPointers(list, q, j, M)
    <3>1. ~(j < n) /\ ~(j = 1)
      BY <1>1, <2>1
    <3> QED
      BY <2>1, <2>5, <2>7, <3>1 DEF RemPointers, n
  <2>9. list.head \in live \ {t}
    BY <1>1, <1>3, <1>6, <2>1
  <2> QED
    BY <1>7, <2>1, <2>3, <2>4, <2>5, <2>6, <2>8, <2>9 DEF n
<1>10. CASE DelMiddle(t)
  <2> DEFINE stops == Stops(list, live, {t})
             found == Nth(list)[Least(stops)]
             p == list.prev[t]
             x == list.next[t]
             M == [list EXCEPT !.next[p] = x, !.prev[x] = p]
  <2>1. j > 1 /\ j < n /\ expire' = expire
    <3>1. t # q[1] /\ t # q[n] /\ expire' = expire
      BY <1>3, <1>10 DEF DelMiddle, del_timer
    <3> QED
      BY <1>1, <1>2, <1>3, <3>1
  <2>2. /\ j - 1 \in 1..n - 1 /\ (j - 1) + 1 = j /\ j \in 1..n - 1
        /\ j - 1 \in 1..n /\ j + 1 \in 1..n /\ j - 1 # j /\ j + 1 # j /\ j - 1 # j + 1
        /\ j - 1 # n
    BY <1>1, <1>3, <2>1
  <2>3. \A i \in 0..n - 1 : Nth(list)[i] = q[i + 1]
    BY <1>1, WalkLinks DEF n
  <2>4. stops = {i \in 1..K + 1 : Nth(list)[i] \in {t} \/ Nth(list)[i] \notin live}
        /\ stops \subseteq Nat
    BY <1>3 DEF Stops, K
  <2> HIDE DEF stops
  <2>5. ASSUME NEW i \in 1..j - 1 PROVE i \in stops <=> i = j - 1
    <3>1. i \in 0..n - 1 /\ i \in 1..K + 1 /\ i + 1 \in 1..n
      BY <1>1, <1>3, <2>1
    <3>2. Nth(list)[i] = q[i + 1] /\ q[i + 1] \in live
      BY <1>1, <2>3, <3>1
    <3>3. q[i + 1] = t <=> i + 1 = j
      BY <1>6, <3>1
    <3> QED
      BY <1>3, <2>4, <3>1, <3>2, <3>3
  <2>6. stops # {} /\ Least(stops) = j - 1
    <3>1. j - 1 \in stops
      BY <1>3, <2>1, <2>5
    <3>2. Least(stops) \in stops /\ Least(stops) <= j - 1
      BY <2>4, <3>1, LeastIs
    <3>3. Least(stops) \in 1..j - 1
      BY <1>3, <2>1, <2>4, <3>2
    <3> QED
      BY <2>5, <3>1, <3>2, <3>3
  <2>7. found = t
    <3>1. j - 1 \in 0..n - 1
      BY <1>1, <1>3
    <3> QED
      BY <1>2, <2>2, <2>3, <2>6, <3>1
  <2>8. /\ p = q[j - 1] /\ x = q[j + 1]
        /\ q[j - 1] \in live /\ q[j + 1] \in live /\ q[j - 1] \in Timers /\ q[j + 1] \in Timers
        /\ q[j - 1] # t /\ q[j + 1] # t /\ q[j - 1] # q[j + 1]
    BY <1>1, <1>2, <1>5, <1>6, <2>2
  <2>9. Frees(t, M)
    <3>1. {found, p, x} \subseteq live /\ found # Null
      BY <1>3, <2>7, <2>8
    <3>2. \/ stops = {} /\ Hangs(list) /\ UNCHANGED live
          \/ stops # {} /\ found = Null /\ UNCHANGED <<list, live, status>>
          \/ /\ stops # {} /\ found # Null /\ ~({found, p, x} \subseteq live)
             /\ Crashes(list) /\ UNCHANGED live
          \/ /\ stops # {} /\ found # Null /\ {found, p, x} \subseteq live
             /\ Frees(t, M)
      BY <1>10 DEF DelMiddle, stops
    <3> HIDE DEF M, found, p, x
    <3> QED
      BY <2>6, <3>1, <3>2
  <2>M. M = [list EXCEPT !.next[q[j - 1]] = q[j + 1], !.prev[q[j + 1]] = q[j - 1]]
    BY <2>8
  <2> HIDE DEF M, p, x, found
  <2>10. /\ M.head = list.head /\ M.tail = list.tail
         /\ M.next = [list.next EXCEPT ![q[j - 1]] = q[j + 1]]
         /\ M.prev = [list.prev EXCEPT ![q[j + 1]] = q[j - 1]]
         /\ M = [head |-> M.head, tail |-> M.tail, next |-> M.next, prev |-> M.prev]
    BY <1>4, <2>M
  <2>11. /\ M.next \in [Timers -> Pointers] /\ M.prev \in [Timers -> Pointers]
         /\ M.next[q[j - 1]] = q[j + 1] /\ M.prev[q[j + 1]] = q[j - 1]
    BY <1>4, <2>8, <2>10 DEF Pointers
  <2>12. ASSUME NEW i \in 1..n, i # j - 1 PROVE M.next[q[i]] = list.next[q[i]]
    <3>1. q[i] # q[j - 1] /\ q[i] \in Timers
      BY <1>1, <2>2, <2>12
    <3> QED
      BY <1>4, <2>10, <3>1
  <2>13. ASSUME NEW i \in 1..n - 1, i # j - 1, i # j
         PROVE  M.next[q[i]] = list.next[q[i]] /\ M.prev[q[i + 1]] = list.prev[q[i + 1]]
    <3>1. i \in 1..n /\ i + 1 \in 1..n /\ i + 1 # j + 1
      BY <1>1, <1>3, <2>13
    <3>2. q[i + 1] # q[j + 1] /\ q[i + 1] \in Timers
      BY <1>1, <2>2, <3>1
    <3> QED
      BY <1>4, <2>10, <2>12, <2>13, <3>1, <3>2
  <2>14. RemPointers(list, q, j, M)
    <3>1. ~(j = 1) /\ j # n
      BY <1>1, <1>3, <2>1
    <3> QED
      BY <2>10, <2>11, <2>13, <3>1 DEF RemPointers, n
  <2>15. M.tail \in live \ {t} /\ M.head \in live \ {t} /\ M.next[M.tail] = list.next[list.tail]
    <3>1. j # n /\ j # 1
      BY <1>1, <1>3, <2>1
    <3>2. M.tail \in live \ {t} /\ M.head \in live \ {t}
      BY <1>1, <1>3, <1>6, <2>10, <3>1
    <3> QED
      BY <1>3, <2>2, <2>10, <2>12, <3>2
  <2>16. M.next[M.tail] # Null => TailLeadsOn
    BY <2>10, <2>15 DEF TailLeadsOn
  <2>17. j # 1 \/ n > 1
    BY <1>3, <2>1
  <2> QED
    BY <1>3, <1>7, <2>1, <2>9, <2>10, <2>11, <2>14, <2>15, <2>16, <2>17 DEF n
<1> QED
  BY <1>8, <1>9, <1>10 DEF del_timer

\* A tick takes the first timer out; it is due.
LEMMA FireFollows ==
    ASSUME ListTypeOK, status = "running", NEW q, Follows(q), NEW now, tick_fires(now)
    PROVE  /\ 1 \in 1..Len(q) /\ q[1] = list.head /\ list.head \in live
           /\ expire[q[1]] <= now
           /\ Follows(Rem(q, 1))' /\ live' = live \ {q[1]} /\ expire' = expire
           /\ status' = "running" /\ (TailLeadsOn' => TailLeadsOn)
<1> DEFINE n == Len(q)
           t == list.head
           N == list.next[t]
<1>1. /\ t \in live /\ expire[t] <= now /\ expire' = expire /\ live' = live \ {t}
      /\ status' = status
      /\ list' = [[list EXCEPT !.head = N] EXCEPT !.next[t] = Null, !.prev[t] = Null]
  BY DEF tick_fires, Frees, Writes, IsDue
<1>2. /\ Typed(list) /\ q \in Seq(Timers) /\ n \in Nat /\ n > 0 /\ Links(list, q)
      /\ \A i \in 1..n : q[i] \in live /\ q[i] \in Timers /\ q[i] # Null
      /\ \A x, y \in 1..n : q[x] = q[y] => x = y
      /\ list.head = q[1] /\ list.tail = q[n] /\ list.next[list.tail] # list.tail
  BY <1>1, FollowsIs DEF Follows
<1>3. 1 \in 1..n /\ n \in 1..n /\ t \in Timers /\ t = q[1]
  BY <1>2
<1>4. /\ list.next \in [Timers -> Pointers] /\ list.prev \in [Timers -> Pointers]
      /\ list = [head |-> list.head, tail |-> list.tail, next |-> list.next, prev |-> list.prev]
  BY <1>2 DEF Typed
<1> HIDE DEF N
<1>5. /\ list'.head = N /\ list'.tail = list.tail
      /\ list'.next = [list.next EXCEPT ![t] = Null] /\ list'.prev = [list.prev EXCEPT ![t] = Null]
  BY <1>1, <1>4
<1>6. ASSUME NEW i \in 1..n, i # 1
      PROVE  list'.next[q[i]] = list.next[q[i]] /\ list'.prev[q[i]] = list.prev[q[i]]
  <2>1. q[i] # t
    BY <1>2, <1>3, <1>6
  <2> QED
    BY <1>2, <1>4, <1>5, <2>1
<1>7. n > 1 => N = q[2] /\ q[2] \in live'
  <2> SUFFICES ASSUME n > 1 PROVE N = q[2] /\ q[2] \in live'
    OBVIOUS
  <2>1. 1 \in 1..n - 1 /\ 1 + 1 = 2 /\ 2 \in 1..n
    BY <1>2
  <2>2. list.next[q[1]] = q[2]
    BY <1>2, <2>1 DEF Links
  <2> QED
    BY <1>1, <1>2, <1>3, <2>1, <2>2 DEF N
<1>8. RemPointers(list, q, 1, list')
  <2>1. ASSUME NEW i \in 1..n - 1, i # 1 - 1, i # 1
        PROVE  list'.next[q[i]] = list.next[q[i]] /\ list'.prev[q[i + 1]] = list.prev[q[i + 1]]
    <3>1. i \in 1..n /\ i + 1 \in 1..n /\ i + 1 # 1
      BY <1>2
    <3> QED
      BY <1>6, <2>1, <3>1
  <2>2. ~(1 > 1)
    OBVIOUS
  <2> QED
    BY <1>5, <1>7, <2>1, <2>2 DEF RemPointers
<1>9. n > 1 => list'.next[list'.tail] = list.next[list.tail] /\ list'.tail \in live'
  <2> SUFFICES ASSUME n > 1
               PROVE  list'.next[list'.tail] = list.next[list.tail] /\ list'.tail \in live'
    OBVIOUS
  <2>1. n # 1
    BY <1>2
  <2> QED
    BY <1>1, <1>2, <1>3, <1>5, <1>6, <2>1
<1>10. (Follows(Rem(q, 1)))'
  BY <1>1, <1>2, <1>3, <1>8, <1>9, UnlinkedFollows
<1>11. TailLeadsOn' => TailLeadsOn
  <2>1. CASE n > 1
    <3> SUFFICES ASSUME TailLeadsOn' PROVE TailLeadsOn
      OBVIOUS
    <3>1. list'.head \in live'
      BY <1>5, <1>7, <2>1
    <3>2. list'.next[list'.tail] # Null
      BY <3>1 DEF TailLeadsOn
    <3>3. list.next[list.tail] # Null /\ list.tail \in live
      BY <1>2, <1>3, <1>9, <2>1, <3>2
    <3> QED
      BY <3>3 DEF TailLeadsOn
  <2>2. CASE n = 1
    <3> SUFFICES ASSUME TailLeadsOn' PROVE TailLeadsOn
      OBVIOUS
    <3>1. t = list.tail /\ list'.tail = t /\ t \notin live'
      BY <1>1, <1>2, <1>5, <2>2
    <3>2. list'.head # Null
      BY <3>1 DEF TailLeadsOn
    <3>3. list.next[list.tail] # Null
      BY <1>5, <3>1, <3>2 DEF N
    <3> QED
      BY <1>1, <3>1, <3>3 DEF TailLeadsOn
  <2>3. n > 1 \/ n = 1
    <3>1. n \in Nat /\ n > 0
      BY <1>2
    <3> HIDE DEF n
    <3> QED
      BY <3>1
  <2> QED
    BY <2>1, <2>2, <2>3
<1> QED
  BY <1>1, <1>3, <1>10, <1>11

\* When its loop ends none of the timers is due.
LEMMA EndsDue ==
    ASSUME ListTypeOK, NEW q, Follows(q), NEW now \in Nat, tick_ends(now)
    PROVE  /\ \A t \in live : expire[t] > now
           /\ live = {} => list.head = Null
<1>1. /\ q \in Seq(Timers) /\ Len(q) \in Nat /\ Elements(q) = live /\ Sorted(q, expire)
      /\ \A i \in 1..Len(q) : q[i] \in live /\ q[i] \in Timers /\ q[i] # Null
      /\ live # {} <=> Len(q) > 0
      /\ Len(q) > 0 => list.head = q[1]
      /\ expire \in [Timers -> Nat] /\ live \subseteq Timers
  BY FollowsIs DEF Follows, ListTypeOK
<1>2. list.head = Null \/ (list.head \in live /\ ~(expire[list.head] <= now))
  BY DEF tick_ends, IsDue
<1>3. ASSUME NEW t \in live PROVE expire[t] > now
  <2>1. PICK i \in 1..Len(q) : q[i] = t
    BY <1>1 DEF Elements
  <2>2. 1 \in 1..Len(q) /\ 1 <= i /\ list.head = q[1] /\ list.head # Null
    BY <1>1, <2>1
  <2>3. expire[q[1]] <= expire[q[i]]
    BY <1>1, <2>2 DEF Sorted
  <2>4. expire[q[1]] \in Nat /\ expire[q[i]] \in Nat
    BY <1>1, <2>2
  <2> QED
    BY <1>2, <2>1, <2>2, <2>3, <2>4
<1> QED
  BY <1>2, <1>3

-----------------------------------------------------------------------------
(***************************************************************************)
(* Types, on any list.                                                     *)
(***************************************************************************)
Statuses == {"running", "hung", "crashed"}

LEMMA NthTyped ==
    ASSUME NEW L, Typed(L), NEW n \in 0..K + 1
    PROVE  Nth(L)[n] \in Pointers
BY NthSteps

\* Writing a pointer into a node, or through NULL, where there is none.
LEMMA Written ==
    ASSUME NEW f \in [Timers -> Pointers], NEW x, NEW y \in Pointers
    PROVE  [f EXCEPT ![x] = y] \in [Timers -> Pointers]
OBVIOUS

LEMMA AddTyped ==
    ASSUME NEW L, Typed(L), NEW alive \in SUBSET Timers, NEW t \in Timers, add_timer(L, alive, t),
           status \in Statuses
    PROVE  Typed(list') /\ status' \in Statuses
<1>1. /\ L.head \in Pointers /\ L.tail \in Pointers
      /\ L.next \in [Timers -> Pointers] /\ L.prev \in [Timers -> Pointers]
      /\ t \in Pointers /\ t # Null
  BY KType DEF Typed, Pointers
<1>2. CASE AddEmpty(L, t)
  BY <1>1, <1>2 DEF AddEmpty, Writes, Typed
<1>3. CASE AddFront(L, alive, t)
  <2>1. /\ list' = [L EXCEPT !.next[t] = L.head, !.prev[L.head] = t, !.head = t]
        /\ status' = status
    BY <1>3 DEF AddFront, Writes
  <2>2. /\ [L.next EXCEPT ![t] = L.head] \in [Timers -> Pointers]
        /\ [L.prev EXCEPT ![L.head] = t] \in [Timers -> Pointers]
    BY <1>1, Written
  <2> QED
    BY <1>1, <2>1, <2>2 DEF Typed
<1>4. CASE AddBehind(L, alive, t)
  <2> DEFINE stops == Stops(L, alive, Later(alive, t))
             p == Nth(L)[Least(stops)]
             q == L.prev[p]
  <2>1. \/ status' \in {"hung", "crashed"} /\ list' = L
        \/ /\ p \in Timers /\ q \in Timers /\ status' = status
           /\ list' = [L EXCEPT !.next[t] = p, !.prev[t] = q, !.next[q] = t, !.prev[p] = t]
        \/ /\ status' = status
           /\ list' = [L EXCEPT !.prev[t] = L.tail, !.next[L.tail] = t, !.tail = t]
    BY <1>4 DEF AddBehind, Hangs, Crashes, Writes
  <2> HIDE DEF p, q
  <2>2. CASE /\ p \in Timers /\ q \in Timers /\ status' = status
             /\ list' = [L EXCEPT !.next[t] = p, !.prev[t] = q, !.next[q] = t, !.prev[p] = t]
    <3>1. p \in Pointers /\ q \in Pointers
      BY <2>2 DEF Pointers
    <3>2. /\ [[L.next EXCEPT ![t] = p] EXCEPT ![q] = t] \in [Timers -> Pointers]
          /\ [[L.prev EXCEPT ![t] = q] EXCEPT ![p] = t] \in [Timers -> Pointers]
      BY <1>1, <3>1, Written
    <3> QED
      BY <1>1, <2>2, <3>2 DEF Typed
  <2>3. CASE /\ status' = status
             /\ list' = [L EXCEPT !.prev[t] = L.tail, !.next[L.tail] = t, !.tail = t]
    <3>1. /\ [L.next EXCEPT ![L.tail] = t] \in [Timers -> Pointers]
          /\ [L.prev EXCEPT ![t] = L.tail] \in [Timers -> Pointers]
      BY <1>1, Written
    <3> QED
      BY <1>1, <2>3, <3>1 DEF Typed
  <2> QED
    BY <2>1, <2>2, <2>3 DEF Statuses
<1> QED
  BY <1>2, <1>3, <1>4 DEF add_timer

LEMMA FreshTyped ==
    ASSUME Typed(list), NEW t \in Timers
    PROVE  Typed(Fresh(t))
<1>1. Null \in Pointers
  BY DEF Pointers
<1> QED
  BY <1>1 DEF Fresh, Typed

LEMMA AdjustTyped ==
    ASSUME ListTypeOK, NEW t \in Timers, adjust_timer(t)
    PROVE  Typed(list') /\ status' \in Statuses
<1>1. /\ list.head \in Pointers /\ list.tail \in Pointers
      /\ list.next \in [Timers -> Pointers] /\ list.prev \in [Timers -> Pointers]
      /\ list.next[t] \in Pointers /\ list.prev[t] \in Pointers /\ Null \in Pointers
      /\ status \in Statuses /\ Typed(list)
  BY DEF ListTypeOK, Typed, Pointers, Statuses
<1>2. /\ [list.prev EXCEPT ![list.next[t]] = Null] \in [Timers -> Pointers]
      /\ [list.next EXCEPT ![list.prev[t]] = list.next[t]] \in [Timers -> Pointers]
      /\ [list.prev EXCEPT ![list.next[t]] = list.prev[t]] \in [Timers -> Pointers]
  BY <1>1, Written
<1>3. Typed(Unlinked(t))
  BY <1>1, <1>2 DEF Unlinked, Typed
<1>4. CASE (InPlace(t) /\ Writes(list)) \/ Crashes(list)
  BY <1>1, <1>4 DEF Writes, Crashes, Statuses
<1>5. CASE add_timer(Unlinked(t), live, t)
  <2>1. live \in SUBSET Timers
    BY DEF ListTypeOK
  <2> QED
    BY <1>1, <1>3, <1>5, <2>1, AddTyped
<1> QED
  BY <1>4, <1>5 DEF adjust_timer

LEMMA FreesTyped ==
    ASSUME NEW L, Typed(L), NEW t \in Timers, Frees(t, L), ListTypeOK
    PROVE  Typed(list') /\ live' \subseteq Timers /\ status' \in Statuses
<1>1. Null \in Pointers
  BY DEF Pointers
<1> QED
  BY <1>1 DEF Frees, Writes, Typed, ListTypeOK, Statuses

LEMMA DelTyped ==
    ASSUME ListTypeOK, NEW t \in Timers, del_timer(t)
    PROVE  ListTypeOK'
<1>1. /\ list.head \in Pointers /\ list.tail \in Pointers
      /\ list.next \in [Timers -> Pointers] /\ list.prev \in [Timers -> Pointers]
      /\ list.next[t] \in Pointers /\ list.prev[t] \in Pointers /\ Null \in Pointers
      /\ status \in Statuses /\ Typed(list) /\ live \subseteq Timers
  BY DEF ListTypeOK, Typed, Pointers, Statuses
<1>2. /\ [list.prev EXCEPT ![list.next[t]] = Null] \in [Timers -> Pointers]
      /\ [list.next EXCEPT ![list.prev[t]] = Null] \in [Timers -> Pointers]
      /\ [list.next EXCEPT ![list.prev[t]] = list.next[t]] \in [Timers -> Pointers]
      /\ [list.prev EXCEPT ![list.next[t]] = list.prev[t]] \in [Timers -> Pointers]
  BY <1>1, Written
<1>3. Typed(list') /\ live' \subseteq Timers /\ status' \in Statuses
  <2>1. CASE DelHead(t)
    <3> DEFINE L == [list EXCEPT !.head = list.next[t], !.prev[list.next[t]] = Null]
    <3>1. Typed(L)
      BY <1>1, <1>2 DEF Typed
    <3>2. (Crashes(list) /\ UNCHANGED live) \/ Frees(t, L)
      BY <2>1 DEF DelHead
    <3> HIDE DEF L
    <3> QED
      BY <1>1, <3>1, <3>2, FreesTyped DEF Crashes, Statuses
  <2>2. CASE DelTail(t)
    <3> DEFINE L == [list EXCEPT !.tail = list.prev[t], !.next[list.prev[t]] = Null]
    <3>1. Typed(L)
      BY <1>1, <1>2 DEF Typed
    <3>2. (Crashes(list) /\ UNCHANGED live) \/ Frees(t, L)
      BY <2>2 DEF DelTail
    <3> HIDE DEF L
    <3> QED
      BY <1>1, <3>1, <3>2, FreesTyped DEF Crashes, Statuses
  <2>3. CASE DelMiddle(t)
    <3> DEFINE L == [list EXCEPT !.next[list.prev[t]] = list.next[t],
                                 !.prev[list.next[t]] = list.prev[t]]
    <3>1. Typed(L)
      BY <1>1, <1>2 DEF Typed
    <3>2. (status' \in Statuses /\ UNCHANGED <<list, live>>) \/ Frees(t, L)
      BY <1>1, <2>3 DEF DelMiddle, Hangs, Crashes, Statuses
    <3> HIDE DEF L
    <3> QED
      BY <1>1, <3>1, <3>2, FreesTyped
  <2> QED
    BY <2>1, <2>2, <2>3 DEF del_timer
<1>4. expire' = expire
  BY DEF del_timer
<1> QED
  BY <1>3, <1>4 DEF ListTypeOK, Typed, Statuses

LEMMA FireTyped ==
    ASSUME ListTypeOK, NEW now, tick_fires(now)
    PROVE  ListTypeOK'
<1> DEFINE L == [list EXCEPT !.head = list.next[list.head]]
<1>1. Typed(L) /\ list.head \in Timers
  BY DEF tick_fires, ListTypeOK, Typed
<1>2. Frees(list.head, L) /\ expire' = expire
  BY DEF tick_fires
<1> HIDE DEF L
<1> QED
  BY <1>1, <1>2, FreesTyped DEF ListTypeOK, Typed, Statuses

-----------------------------------------------------------------------------
(***************************************************************************)
(* What a followed list is to the properties.                              *)
(***************************************************************************)
LEMMA InitFollows ==
    ASSUME ListInit
    PROVE  ListTypeOK /\ Follows(<<>>) /\ list.head = Null
<1>1. /\ list = [head |-> Null, tail |-> Null,
                 next |-> [t \in Timers |-> Null], prev |-> [t \in Timers |-> Null]]
      /\ expire = [t \in Timers |-> 0] /\ live = {} /\ status = "running"
  BY DEF ListInit
<1>2. Null \in Pointers
  BY DEF Pointers
<1>3. ListTypeOK /\ list.head = Null
  BY <1>1, <1>2 DEF ListTypeOK
<1>4. <<>> \in Seq(Timers) /\ Len(<<>>) = 0 /\ 1..0 = {} /\ 1..0 - 1 = {}
  OBVIOUS
<1> QED
  BY <1>1, <1>3, <1>4 DEF Follows, Links, Distinct, Elements, Sorted

LEMMA ChainFollows ==
    ASSUME NEW q
    PROVE  ListTypeOK /\ Follows(q) => Chain = q
<1> SUFFICES ASSUME ListTypeOK, Follows(q) PROVE Chain = q
  OBVIOUS
<1>1. Typed(list) /\ Links(list, q) /\ Elements(q) = live
  BY DEF ListTypeOK, Typed, Follows
<1> QED
  BY <1>1, ChainIs

LEMMA ChainAfter ==
    ASSUME NEW q
    PROVE  (ListTypeOK /\ Follows(q) => Chain = q)'
<1>1. ListTypeOK /\ Follows(q) => Chain = q
  BY ChainFollows
<1> QED
  BY <1>1, PTL

LEMMA FollowsWellFormed ==
    ASSUME ListTypeOK, status = "running" => \E q : Follows(q)
    PROVE  WellFormed
<1> SUFFICES ASSUME status = "running"
             PROVE  /\ live # {} => \E n \in 0..Cardinality(Timers) : Nth(list)[n] = list.tail
                    /\ Linked = live
                    /\ Len(Chain) = Cardinality(live)
                    /\ \A i \in 2..Len(Chain) : list.prev[Chain[i]] = Chain[i - 1]
  BY DEF WellFormed
<1>1. PICK q : Follows(q)
  OBVIOUS
<1>2. /\ Typed(list) /\ Links(list, q) /\ Elements(q) = live /\ Distinct(q) /\ q \in Seq(Timers)
      /\ Chain = q /\ DOMAIN q = 1..Len(q) /\ Len(q) \in Nat
      /\ live # {} <=> Len(q) > 0
      /\ Len(q) > 0 => list.tail = q[Len(q)]
  BY <1>1, FollowsIs, ChainFollows DEF Follows
<1>3. live # {} => \E n \in 0..Cardinality(Timers) : Nth(list)[n] = list.tail
  <2> SUFFICES ASSUME live # {} PROVE \E n \in 0..K : Nth(list)[n] = list.tail
    BY DEF K
  <2>1. Len(q) \in 0..K /\ K \in Nat /\ \A n \in 0..Len(q) - 1 : Nth(list)[n] = q[n + 1]
    BY <1>2, WalkLinks
  <2>2. /\ Len(q) - 1 \in 0..Len(q) - 1 /\ Len(q) - 1 \in 0..K /\ (Len(q) - 1) + 1 = Len(q)
    BY <1>2, <2>1
  <2> QED
    BY <1>2, <2>1, <2>2
<1>4. Linked = live
  BY <1>2 DEF Linked, Elements
<1>5. Len(Chain) = Cardinality(live)
  BY <1>2, LengthBound
<1>6. \A i \in 2..Len(q) : list.prev[q[i]] = q[i - 1]
  <2> SUFFICES ASSUME NEW i \in 2..Len(q) PROVE list.prev[q[i]] = q[i - 1]
    OBVIOUS
  <2>1. i - 1 \in 1..Len(q) - 1 /\ (i - 1) + 1 = i
    BY <1>2
  <2> QED
    BY <1>2, <2>1 DEF Links
<1> QED
  BY <1>2, <1>3, <1>4, <1>5, <1>6
=============================================================================

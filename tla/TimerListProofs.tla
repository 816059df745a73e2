--------------------------- MODULE TimerListProofs ---------------------------
(***************************************************************************)
(* TimerList follows a sorted sequence of its timers until a call gets     *)
(* stuck, whatever adjust_timer has left behind the last of them, and      *)
(* implements TimerQueue.                                                  *)
(***************************************************************************)
EXTENDS TimerList, SortTimerListProofs

(***************************************************************************)
(* The inductive invariant. The third conjunct is what WellFormed needs to *)
(* be inductive: the walk is in ascending order, so that add_timer puts a  *)
(* timer where the order wants it, and what the last timer leads on to is  *)
(* not itself. The fourth is why the early return of add_timer is right.   *)
(***************************************************************************)
IInv ==
    /\ ListTypeOK
    /\ expire \in [Timers -> Times] /\ now \in Times /\ ticking \in BOOLEAN
    /\ status = "running" => \E q : Follows(q)
    /\ status = "running" /\ live = {} /\ ~ticking => list.head = Null

\* What is shown of each step.
Sound ==
    /\ [TQ!TQNext]_TQ!tqvars
    /\ status = "running" /\ status' # "running" =>
            TailLeadsOn \/ \E t \in live : live = {t} /\ del_timer(t)
    /\ ~TailLeadsOn /\ TailLeadsOn' => live' = live /\ list'.tail \in live \ {list.tail}

LEMMA TimesAreNat == Times \subseteq Nat
  BY TimerListAssumption DEF Times

-----------------------------------------------------------------------------
(***************************************************************************)
(* The sequences of TimerQueue.                                            *)
(***************************************************************************)
LEMMA Slice ==
    ASSUME NEW q \in Seq(Timers), NEW m \in 1..Len(q) + 1, NEW n \in m - 1..Len(q)
    PROVE  /\ SubSeq(q, m, n) \in Seq(Timers)
           /\ Len(SubSeq(q, m, n)) = n - m + 1
           /\ \A i \in 1..n - m + 1 : SubSeq(q, m, n)[i] = q[m + i - 1]
<1>1. Len(q) \in Nat
  BY LenProperties
<1>2. /\ SubSeq(q, m, n) \in Seq(Timers)
      /\ Len(SubSeq(q, m, n)) = IF m <= n THEN n - m + 1 ELSE 0
      /\ \A i \in 1..n - m + 1 : SubSeq(q, m, n)[i] = q[m + i - 1]
  BY <1>1, SubSeqProperties
<1> QED
  BY <1>1, <1>2

LEMMA Inserted ==
    ASSUME NEW q \in Seq(Timers), NEW k \in 0..Len(q), NEW t \in Timers
    PROVE  TQ!InsertAt(q, k + 1, t) = Ins(q, k, t)
<1> DEFINE a == SubSeq(q, 1, k)
           o == <<t>>
           b == SubSeq(q, k + 1, Len(q))
           ao == a \o o
           r == ao \o b
           n == Len(q)
<1>1. Len(q) \in Nat /\ k \in Nat /\ k <= Len(q)
  BY LenProperties
<1>2. a \in Seq(Timers) /\ Len(a) = k /\ \A i \in 1..k : a[i] = q[i]
  <2>1. 1 \in 1..Len(q) + 1 /\ k \in 1 - 1..Len(q) /\ k - 1 + 1 = k
    BY <1>1
  <2>2. \A i \in 1..k : 1 + i - 1 = i
    BY <1>1
  <2> QED
    BY <2>1, <2>2, Slice
<1>3. o \in Seq(Timers) /\ Len(o) = 1 /\ o[1] = t
  OBVIOUS
<1>4. b \in Seq(Timers) /\ Len(b) = n - k /\ \A i \in 1..n - k : b[i] = q[k + i]
  <2>1. k + 1 \in 1..Len(q) + 1 /\ n \in (k + 1) - 1..Len(q) /\ n - (k + 1) + 1 = n - k
    BY <1>1
  <2>2. \A i \in 1..n - k : (k + 1) + i - 1 = k + i
    BY <1>1
  <2>3. /\ b \in Seq(Timers) /\ Len(b) = n - (k + 1) + 1
        /\ \A i \in 1..n - (k + 1) + 1 : b[i] = q[(k + 1) + i - 1]
    BY <2>1, Slice
  <2> QED
    BY <2>1, <2>2, <2>3
<1>5. TQ!InsertAt(q, k + 1, t) = r
  <2>1. (k + 1) - 1 = k
    BY <1>1
  <2> QED
    BY <2>1 DEF TQ!InsertAt
<1> HIDE DEF a, b, o
<1>6. /\ ao \in Seq(Timers) /\ Len(ao) = k + 1
      /\ \A i \in 1..k + 1 : ao[i] = IF i <= k THEN a[i] ELSE o[i - k]
  <2>1. /\ ao \in Seq(Timers) /\ Len(ao) = Len(a) + Len(o)
        /\ \A i \in 1..Len(a) + Len(o) : ao[i] = IF i <= Len(a) THEN a[i] ELSE o[i - Len(a)]
    BY <1>2, <1>3, ConcatProperties
  <2> QED
    BY <1>2, <1>3, <2>1
<1> HIDE DEF ao
<1>7. /\ r \in Seq(Timers) /\ Len(r) = n + 1
      /\ \A i \in 1..n + 1 : r[i] = IF i <= k + 1 THEN ao[i] ELSE b[i - (k + 1)]
  <2>1. /\ r \in Seq(Timers) /\ Len(r) = Len(ao) + Len(b)
        /\ \A i \in 1..Len(ao) + Len(b) : r[i] = IF i <= Len(ao) THEN ao[i] ELSE b[i - Len(ao)]
    BY <1>4, <1>6, ConcatProperties
  <2>2. Len(ao) + Len(b) = n + 1
    BY <1>1, <1>4, <1>6
  <2> QED
    BY <1>6, <2>1, <2>2
<1> HIDE DEF r
<1>8. ASSUME NEW i \in 1..n + 1
      PROVE  r[i] = IF i <= k THEN q[i] ELSE IF i = k + 1 THEN t ELSE q[i - 1]
  <2>1. CASE i <= k
    <3>1. i \in 1..k /\ i \in 1..k + 1 /\ i <= k + 1
      BY <1>1, <2>1
    <3> QED
      BY <1>2, <1>6, <1>7, <2>1, <3>1
  <2>2. CASE i = k + 1
    <3>1. i \in 1..k + 1 /\ ~ (i <= k) /\ i - k = 1
      BY <1>1, <2>2
    <3> QED
      BY <1>3, <1>6, <1>7, <2>2, <3>1
  <2>3. CASE i > k + 1
    <3>1. /\ i - (k + 1) \in 1..n - k /\ k + (i - (k + 1)) = i - 1
          /\ ~ (i <= k) /\ ~ (i <= k + 1) /\ i # k + 1
      BY <1>1, <2>3
    <3>2. b[i - (k + 1)] = q[i - 1]
      BY <1>4, <3>1
    <3> QED
      BY <1>7, <3>1, <3>2
  <2> QED
    BY <1>1, <2>1, <2>2, <2>3
<1>9. \A i \in 1..n + 1 : Ins(q, k, t)[i] = r[i]
  BY <1>1, <1>8 DEF Ins
<1>10. Ins(q, k, t) \in Seq(Timers) /\ Len(Ins(q, k, t)) = n + 1
  BY InsIs
<1>11. r = Ins(q, k, t)
  <2> DEFINE s == Ins(q, k, t)
  <2>1. s \in Seq(Timers) /\ Len(s) = n + 1 /\ \A i \in 1..n + 1 : r[i] = s[i]
    BY <1>9, <1>10
  <2> HIDE DEF s
  <2>2. r = s
    BY <1>7, <2>1, SeqEqual
  <2> QED
    BY <2>2 DEF s
<1> QED
  BY <1>5, <1>11

LEMMA Removed ==
    ASSUME NEW q \in Seq(Timers), NEW j \in 1..Len(q)
    PROVE  TQ!RemoveAt(q, j) = Rem(q, j)
<1> DEFINE a == SubSeq(q, 1, j - 1)
           b == SubSeq(q, j + 1, Len(q))
           r == a \o b
           n == Len(q)
<1>1. Len(q) \in Nat /\ j \in Nat /\ 1 <= j /\ j <= Len(q)
  BY LenProperties
<1>2. a \in Seq(Timers) /\ Len(a) = j - 1 /\ \A i \in 1..j - 1 : a[i] = q[i]
  <2>1. 1 \in 1..Len(q) + 1 /\ j - 1 \in 1 - 1..Len(q) /\ (j - 1) - 1 + 1 = j - 1
    BY <1>1
  <2>2. \A i \in 1..j - 1 : 1 + i - 1 = i
    BY <1>1
  <2> QED
    BY <2>1, <2>2, Slice
<1>3. b \in Seq(Timers) /\ Len(b) = n - j /\ \A i \in 1..n - j : b[i] = q[j + i]
  <2>1. j + 1 \in 1..Len(q) + 1 /\ n \in (j + 1) - 1..Len(q) /\ n - (j + 1) + 1 = n - j
    BY <1>1
  <2>2. \A i \in 1..n - j : (j + 1) + i - 1 = j + i
    BY <1>1
  <2>3. /\ b \in Seq(Timers) /\ Len(b) = n - (j + 1) + 1
        /\ \A i \in 1..n - (j + 1) + 1 : b[i] = q[(j + 1) + i - 1]
    BY <2>1, Slice
  <2> QED
    BY <2>1, <2>2, <2>3
<1>4. TQ!RemoveAt(q, j) = r
  BY DEF TQ!RemoveAt
<1> HIDE DEF a, b
<1>5. /\ r \in Seq(Timers) /\ Len(r) = n - 1
      /\ \A i \in 1..n - 1 : r[i] = IF i <= j - 1 THEN a[i] ELSE b[i - (j - 1)]
  <2>1. /\ r \in Seq(Timers) /\ Len(r) = Len(a) + Len(b)
        /\ \A i \in 1..Len(a) + Len(b) : r[i] = IF i <= Len(a) THEN a[i] ELSE b[i - Len(a)]
    BY <1>2, <1>3, ConcatProperties
  <2>2. Len(a) + Len(b) = n - 1
    BY <1>1, <1>2, <1>3
  <2> QED
    BY <1>2, <2>1, <2>2
<1> HIDE DEF r
<1>6. ASSUME NEW i \in 1..n - 1 PROVE r[i] = IF i < j THEN q[i] ELSE q[i + 1]
  <2>1. CASE i < j
    <3>1. i \in 1..j - 1 /\ i <= j - 1
      BY <1>1, <2>1
    <3> QED
      BY <1>2, <1>5, <2>1, <3>1
  <2>2. CASE i >= j
    <3>1. i - (j - 1) \in 1..n - j /\ j + (i - (j - 1)) = i + 1 /\ ~ (i <= j - 1) /\ ~ (i < j)
      BY <1>1, <2>2
    <3> QED
      BY <1>3, <1>5, <3>1
  <2> QED
    BY <1>1, <2>1, <2>2
<1>7. \A i \in 1..n - 1 : Rem(q, j)[i] = r[i]
  BY <1>1, <1>6 DEF Rem
<1> QED
  BY <1>4, <1>5, <1>7, RemIs, SeqEqual

LEMMA SplitsSame ==
    ASSUME NEW q \in Seq(Timers), NEW d, NEW e, NEW k
    PROVE  TQ!Splits(q, d, e, k) <=> Splits(q, d, e, k)
  BY DEF TQ!Splits, Splits

LEMMA PendingIsLive ==
    ASSUME ListTypeOK, NEW q, Follows(q)
    PROVE  /\ Chain = q /\ q \in Seq(Timers) /\ DOMAIN q = 1..Len(q) /\ TQ!Pending = live
<1>1. Chain = q
  BY ChainFollows
<1>2. q \in Seq(Timers) /\ DOMAIN q = 1..Len(q) /\ Elements(q) = live
  BY DEF Follows, Links
<1> QED
  BY <1>1, <1>2 DEF TQ!Pending, Elements

-----------------------------------------------------------------------------
(***************************************************************************)
(* The steps.                                                              *)
(***************************************************************************)

\* A call that gets stuck is GetStuck; it left the last timer leading on, or was
\* asked to delete the only one.
LEMMA StuckStep ==
    ASSUME IInv, status = "running", status' # "running", ListTypeOK',
           expire' \in [Timers -> Times], now' \in Times, ticking' \in BOOLEAN,
           TailLeadsOn \/ (~TailLeadsOn' /\ \E t \in live : live = {t} /\ del_timer(t))
    PROVE  IInv' /\ Sound
<1>1. IInv'
  BY DEF IInv
<1>2. TQ!TQNext
  BY DEF TQ!TQNext, TQ!GetStuck
<1> QED
  BY <1>1, <1>2 DEF Sound

LEMMA AddAction ==
    ASSUME IInv, NEW t \in Timers, NEW e \in Times, Add(t, e)
    PROVE  IInv' /\ Sound
<1>1. /\ status = "running" /\ ~ticking /\ ticking' = ticking /\ now' = now
      /\ t \notin live /\ live' = live \cup {t} /\ expire' = [expire EXCEPT ![t] = e]
      /\ add_timer(Fresh(t), live', t)
  BY DEF Add, Called
<1>2. /\ ListTypeOK /\ expire \in [Timers -> Times] /\ now \in Times /\ e \in Nat
      /\ live = {} => list.head = Null
      /\ expire' \in [Timers -> Times] /\ now' \in Times /\ ticking' \in BOOLEAN
  BY <1>1, TimesAreNat DEF IInv
<1>3. ListTypeOK'
  <2>1. Typed(list) /\ live' \in SUBSET Timers /\ status \in Statuses
    BY <1>1, <1>2 DEF ListTypeOK, Typed, Statuses
  <2>2. Typed(list') /\ status' \in Statuses
    BY <1>1, <2>1, FreshTyped, AddTyped
  <2>3. expire' \in [Timers -> Nat]
    BY <1>2, TimesAreNat
  <2> QED
    BY <2>1, <2>2, <2>3 DEF ListTypeOK, Typed, Statuses
<1>4. PICK q : Follows(q)
  BY <1>1 DEF IInv
<1>5. \/ /\ \E k \in 0..Len(q) : Splits(q, expire, e, k) /\ Follows(Ins(q, k, t))'
         /\ status' = "running" /\ (TailLeadsOn' => TailLeadsOn)
      \/ status' # "running" /\ TailLeadsOn
  BY <1>1, <1>2, <1>3, <1>4, AddFollows
<1>6. CASE status' # "running" /\ TailLeadsOn
  BY <1>1, <1>2, <1>3, <1>6, StuckStep
<1>7. CASE /\ \E k \in 0..Len(q) : Splits(q, expire, e, k) /\ Follows(Ins(q, k, t))'
           /\ status' = "running" /\ (TailLeadsOn' => TailLeadsOn)
  <2>1. PICK k \in 0..Len(q) : Splits(q, expire, e, k) /\ Follows(Ins(q, k, t))'
    BY <1>7
  <2>2. Chain = q /\ q \in Seq(Timers) /\ TQ!Pending = live
    BY <1>2, <1>4, PendingIsLive
  <2>3. Chain' = Ins(q, k, t)
    BY <1>3, <2>1, ChainAfter
  <2>4. TQ!AddTimer(t, e)
    <3>1. TQ!InsertAt(q, k + 1, t) = Ins(q, k, t) /\ TQ!Splits(q, expire, e, k)
      BY <2>1, <2>2, Inserted, SplitsSame
    <3> QED
      BY <1>1, <1>7, <2>1, <2>2, <2>3, <3>1 DEF TQ!AddTimer
  <2>5. TQ!TQNext
    BY <1>1, <2>4 DEF TQ!TQNext
  <2>6. IInv'
    BY <1>1, <1>2, <1>3, <2>1 DEF IInv
  <2> QED
    BY <1>7, <2>5, <2>6 DEF Sound
<1> QED
  BY <1>5, <1>6, <1>7

LEMMA AdjustAction ==
    ASSUME IInv, NEW t \in Timers, NEW e \in Times, Adjust(t, e)
    PROVE  IInv' /\ Sound
<1>1. /\ status = "running" /\ ~ticking /\ ticking' = ticking /\ now' = now
      /\ t \in live /\ e >= expire[t] /\ live' = live /\ expire' = [expire EXCEPT ![t] = e]
      /\ adjust_timer(t)
  BY DEF Adjust, Called
<1>2. /\ ListTypeOK /\ expire \in [Timers -> Times] /\ now \in Times /\ e \in Nat
      /\ expire[t] \in Nat /\ expire[t] <= e
      /\ expire' \in [Timers -> Times] /\ now' \in Times /\ ticking' \in BOOLEAN
  BY <1>1, TimesAreNat DEF IInv
<1>3. ListTypeOK'
  <2>1. Typed(list') /\ status' \in Statuses
    BY <1>1, <1>2, AdjustTyped
  <2>2. expire' \in [Timers -> Nat]
    BY <1>2, TimesAreNat
  <2> QED
    BY <1>1, <1>2, <2>1, <2>2 DEF ListTypeOK, Typed, Statuses
<1>4. PICK q : Follows(q)
  BY <1>1 DEF IInv
<1>5. \/ /\ \E j \in 1..Len(q) : \E k \in 0..Len(Rem(q, j)) :
                /\ q[j] = t
                /\ Splits(Rem(q, j), expire, e, k)
                /\ Follows(Ins(Rem(q, j), k, t))'
         /\ status' = "running"
         /\ TailLeadsOn' => TailLeadsOn \/ list'.tail \in live \ {list.tail}
      \/ status' # "running" /\ TailLeadsOn
  BY <1>1, <1>2, <1>3, <1>4, AdjustFollows
<1>6. CASE status' # "running" /\ TailLeadsOn
  BY <1>1, <1>2, <1>3, <1>6, StuckStep
<1>7. CASE /\ \E j \in 1..Len(q) : \E k \in 0..Len(Rem(q, j)) :
                /\ q[j] = t
                /\ Splits(Rem(q, j), expire, e, k)
                /\ Follows(Ins(Rem(q, j), k, t))'
           /\ status' = "running"
           /\ TailLeadsOn' => TailLeadsOn \/ list'.tail \in live \ {list.tail}
  <2>1. PICK j \in 1..Len(q) : \E k \in 0..Len(Rem(q, j)) :
                /\ q[j] = t
                /\ Splits(Rem(q, j), expire, e, k)
                /\ Follows(Ins(Rem(q, j), k, t))'
    BY <1>7
  <2>2. PICK k \in 0..Len(Rem(q, j)) :
                /\ q[j] = t
                /\ Splits(Rem(q, j), expire, e, k)
                /\ Follows(Ins(Rem(q, j), k, t))'
    BY <2>1
  <2>3. Chain = q /\ q \in Seq(Timers) /\ DOMAIN q = 1..Len(q) /\ TQ!Pending = live
    BY <1>2, <1>4, PendingIsLive
  <2>4. Chain' = Ins(Rem(q, j), k, t)
    BY <1>3, <2>2, ChainAfter
  <2>5. TQ!MoveTimer(t, e)
    <3>1. Rem(q, j) \in Seq(Timers) /\ TQ!RemoveAt(q, j) = Rem(q, j)
      BY <2>3, RemIs, Removed
    <3>2. /\ TQ!InsertAt(Rem(q, j), k + 1, t) = Ins(Rem(q, j), k, t)
          /\ TQ!Splits(Rem(q, j), expire, e, k)
      BY <2>2, <3>1, Inserted, SplitsSame
    <3>3. \E i \in DOMAIN Chain :
            LET others == TQ!RemoveAt(Chain, i)
            IN  /\ Chain[i] = t
                /\ \E x \in 0..Len(others) :
                    /\ TQ!Splits(others, expire, e, x)
                    /\ Chain' = TQ!InsertAt(others, x + 1, t)
      <4>1. /\ j \in DOMAIN Chain /\ Chain[j] = t /\ TQ!RemoveAt(Chain, j) = Rem(q, j)
        BY <2>2, <2>3, <3>1
      <4>2. /\ k \in 0..Len(Rem(q, j)) /\ TQ!Splits(Rem(q, j), expire, e, k)
            /\ Chain' = TQ!InsertAt(Rem(q, j), k + 1, t)
        BY <2>2, <2>4, <3>2
      <4> QED
        BY <4>1, <4>2
    <3>4. t \in TQ!Pending /\ e >= expire[t]
      BY <1>1, <2>3
    <3> QED
      BY <1>1, <1>7, <3>3, <3>4 DEF TQ!MoveTimer
  <2>6. TQ!TQNext
    BY <1>1, <2>5 DEF TQ!TQNext
  <2>7. IInv'
    <3>1. live' # {}
      BY <1>1
    <3> QED
      BY <1>2, <1>3, <2>2, <3>1 DEF IInv
  <2> QED
    BY <1>1, <1>7, <2>6, <2>7 DEF Sound
<1> QED
  BY <1>5, <1>6, <1>7

LEMMA DelAction ==
    ASSUME IInv, NEW t \in Timers, Del(t)
    PROVE  IInv' /\ Sound
<1>1. /\ status = "running" /\ ~ticking /\ ticking' = ticking /\ now' = now
      /\ t \in live /\ del_timer(t) /\ expire' = expire
  BY DEF Del, Called, del_timer
<1>2. /\ ListTypeOK /\ expire \in [Timers -> Times] /\ now \in Times /\ live \subseteq Timers
      /\ expire' \in [Timers -> Times] /\ now' \in Times /\ ticking' \in BOOLEAN
  BY <1>1 DEF IInv, ListTypeOK
<1>3. ListTypeOK'
  BY <1>1, <1>2, DelTyped
<1>4. PICK q : Follows(q)
  BY <1>1 DEF IInv
<1>5. \/ /\ \E j \in 1..Len(q) : q[j] = t /\ Follows(Rem(q, j))'
         /\ live # {t} /\ live' = live \ {t} /\ expire' = expire
         /\ status' = "running" /\ (TailLeadsOn' => TailLeadsOn)
      \/ /\ live = {t} /\ status' = "crashed"
         /\ UNCHANGED <<list, expire, live>>
  BY <1>1, <1>2, <1>4, DelFollows
<1>6. CASE /\ live = {t} /\ status' = "crashed"
           /\ UNCHANGED <<list, expire, live>>
  <2>1. TailLeadsOn' <=> TailLeadsOn
    BY <1>6 DEF TailLeadsOn
  <2>2. \E u \in live : live = {u} /\ del_timer(u)
    BY <1>1, <1>6
  <2>3. status' # "running"
    BY <1>6
  <2>4. TailLeadsOn \/ (~TailLeadsOn' /\ \E u \in live : live = {u} /\ del_timer(u))
    BY <2>1, <2>2
  <2> QED
    BY <1>1, <1>2, <1>3, <2>3, <2>4, StuckStep
<1>7. CASE /\ \E j \in 1..Len(q) : q[j] = t /\ Follows(Rem(q, j))'
           /\ live # {t} /\ live' = live \ {t} /\ expire' = expire
           /\ status' = "running" /\ (TailLeadsOn' => TailLeadsOn)
  <2>1. PICK j \in 1..Len(q) : q[j] = t /\ Follows(Rem(q, j))'
    BY <1>7
  <2>2. Chain = q /\ q \in Seq(Timers) /\ DOMAIN q = 1..Len(q) /\ TQ!Pending = live
    BY <1>2, <1>4, PendingIsLive
  <2>3. Chain' = Rem(q, j)
    BY <1>3, <2>1, ChainAfter
  <2>4. TQ!RemoveTimer(t)
    <3>1. TQ!RemoveAt(q, j) = Rem(q, j)
      BY <2>2, Removed
    <3>2. j \in DOMAIN Chain /\ Chain[j] = t /\ Chain' = TQ!RemoveAt(Chain, j)
      BY <2>1, <2>2, <2>3, <3>1
    <3> QED
      BY <1>1, <1>7, <3>2 DEF TQ!RemoveTimer
  <2>5. TQ!TQNext
    BY <1>1, <1>2, <2>4 DEF TQ!TQNext
  <2>6. IInv'
    <3>1. live' # {}
      BY <1>1, <1>7
    <3> QED
      BY <1>2, <1>3, <2>1, <3>1 DEF IInv
  <2> QED
    BY <1>7, <2>5, <2>6 DEF Sound
<1> QED
  BY <1>5, <1>6, <1>7

\* Nothing of the list changes.
LEMMA ListKept ==
    ASSUME UNCHANGED listvars
    PROVE  /\ Chain' = Chain /\ (ListTypeOK => ListTypeOK')
           /\ \A q : Follows(q)' <=> Follows(q)
           /\ TailLeadsOn' <=> TailLeadsOn
<1>1. list' = list /\ expire' = expire /\ live' = live /\ status' = status
  BY DEF listvars
<1>2. Nth(list)' = Nth(list)
  BY <1>1
<1>3. Chain' = Chain
  BY <1>1, <1>2 DEF Chain
<1> QED
  BY <1>1, <1>3 DEF ListTypeOK, Follows, TailLeadsOn

LEMMA TickAction ==
    ASSUME IInv, TickBegins \/ TickFires \/ TickEnds \/ TickCrashes
    PROVE  IInv' /\ Sound
<1>1. /\ status = "running" /\ now' = now
      /\ ListTypeOK /\ expire \in [Timers -> Times] /\ now \in Nat /\ now \in Times
  BY TimesAreNat DEF IInv, TickBegins, TickFires, TickEnds, TickCrashes
<1>2. PICK q : Follows(q)
  BY <1>1 DEF IInv
<1>3. Chain = q /\ q \in Seq(Timers) /\ DOMAIN q = 1..Len(q) /\ TQ!Pending = live
  BY <1>1, <1>2, PendingIsLive
<1>4. CASE TickBegins
  <2>1. ~ticking /\ ticking' = TRUE /\ UNCHANGED listvars /\ UNCHANGED <<expire, status, live, list>>
    BY <1>4 DEF TickBegins, listvars
  <2>2. Chain' = Chain /\ ListTypeOK' /\ Follows(q)' /\ (TailLeadsOn' <=> TailLeadsOn)
    BY <1>1, <1>2, <2>1, ListKept
  <2>3. TQ!TQNext
    BY <1>1, <2>1, <2>2 DEF TQ!TQNext, TQ!BeginTick
  <2>4. IInv'
    BY <1>1, <2>1, <2>2 DEF IInv
  <2> QED
    BY <1>1, <2>1, <2>2, <2>3, <2>4 DEF Sound
<1>5. CASE TickFires
  <2>1. ticking /\ ticking' = ticking /\ tick_fires(now) /\ ticking \in BOOLEAN
    BY <1>5 DEF TickFires, IInv
  <2>2. /\ 1 \in 1..Len(q) /\ q[1] = list.head /\ list.head \in live
        /\ expire[q[1]] <= now
        /\ Follows(Rem(q, 1))' /\ live' = live \ {q[1]} /\ expire' = expire
        /\ status' = "running" /\ (TailLeadsOn' => TailLeadsOn)
    BY <1>1, <1>2, <2>1, FireFollows
  <2>3. ListTypeOK'
    BY <1>1, <2>1, FireTyped
  <2>4. Chain' = Rem(q, 1)
    BY <2>2, <2>3, ChainAfter
  <2>5. q # <<>> /\ Head(q) = q[1] /\ Tail(q) = Rem(q, 1)
    <3>1. q # <<>> /\ Head(q) = q[1]
      BY <1>3, <2>2
    <3>2. /\ Rem(q, 1) \in Seq(Timers) /\ Len(Rem(q, 1)) = Len(q) - 1
          /\ \A i \in 1..Len(q) - 1 : Rem(q, 1)[i] = q[i + 1]
      <4>1. \A i \in 1..Len(q) - 1 : ~(i < 1)
        BY <1>3
      <4> QED
        BY <1>3, <2>2, <4>1, RemIs DEF Rem
    <3>3. /\ Tail(q) \in Seq(Timers) /\ Len(Tail(q)) = Len(q) - 1
          /\ \A i \in 1..Len(q) - 1 : Tail(q)[i] = q[i + 1]
      BY <1>3, <3>1, HeadTailProperties
    <3>4. Tail(q) = Rem(q, 1)
      <4> DEFINE a == Tail(q)
                 b == Rem(q, 1)
      <4>1. /\ a \in Seq(Timers) /\ b \in Seq(Timers) /\ Len(a) = Len(b)
            /\ \A i \in 1..Len(a) : a[i] = b[i]
        BY <3>2, <3>3
      <4> HIDE DEF a, b
      <4>2. a = b
        BY <4>1, SeqEqual
      <4> QED
        BY <4>2 DEF a, b
    <3> QED
      BY <3>1, <3>4
  <2>6. TQ!FireFirst
    BY <1>1, <1>3, <2>1, <2>2, <2>4, <2>5 DEF TQ!FireFirst
  <2>7. TQ!TQNext
    BY <1>1, <2>6 DEF TQ!TQNext
  <2>8. IInv'
    BY <1>1, <2>1, <2>2, <2>3 DEF IInv
  <2> QED
    BY <2>2, <2>7, <2>8 DEF Sound
<1>6. CASE TickEnds
  <2>1. /\ ticking /\ ticking' = FALSE /\ tick_ends(now)
        /\ UNCHANGED listvars /\ UNCHANGED <<expire, status, live, list>>
    BY <1>6 DEF TickEnds, tick_ends, listvars
  <2>2. Chain' = Chain /\ ListTypeOK' /\ Follows(q)' /\ (TailLeadsOn' <=> TailLeadsOn)
    BY <1>1, <1>2, <2>1, ListKept
  <2>3. /\ \A t \in live : expire[t] > now
        /\ live = {} => list.head = Null
    BY <1>1, <1>2, <2>1, EndsDue
  <2>4. TQ!TQNext
    BY <1>1, <1>3, <2>1, <2>2, <2>3 DEF TQ!TQNext, TQ!EndTick
  <2>5. IInv'
    BY <1>1, <2>1, <2>2, <2>3 DEF IInv
  <2> QED
    BY <1>1, <2>1, <2>2, <2>4, <2>5 DEF Sound
<1>7. CASE TickCrashes
  <2>1. /\ tick_crashes /\ ticking' = ticking /\ ticking \in BOOLEAN
        /\ UNCHANGED <<list, expire, live>> /\ status' = "crashed"
        /\ list.head \notin live \cup {Null}
    BY <1>7 DEF TickCrashes, tick_crashes, Crashes, IInv
  <2>2. TailLeadsOn
    BY <2>1 DEF TailLeadsOn
  <2>3. ListTypeOK'
    BY <1>1, <2>1 DEF ListTypeOK
  <2>4. status' # "running"
    BY <2>1
  <2> QED
    BY <1>1, <2>1, <2>2, <2>3, <2>4, StuckStep
<1> QED
  BY <1>4, <1>5, <1>6, <1>7

LEMMA ElapseAction ==
    ASSUME IInv, Elapse \/ UNCHANGED vars
    PROVE  IInv' /\ Sound
<1>1. UNCHANGED listvars /\ UNCHANGED <<list, expire, live, status, ticking>>
  BY DEF Elapse, Called, vars, listvars
<1>2. /\ Chain' = Chain /\ (ListTypeOK => ListTypeOK')
      /\ \A q : Follows(q)' <=> Follows(q)
      /\ TailLeadsOn' <=> TailLeadsOn
  BY <1>1, ListKept
<1>3. now' \in Times
  BY DEF Elapse, IInv, vars
<1>4. IInv'
  BY <1>1, <1>2, <1>3 DEF IInv
<1>5. [TQ!TQNext]_TQ!tqvars
  <2>1. CASE Elapse
    <3>1. status = "running" /\ ~ticking /\ now' \in {c \in Times : c > now}
      BY <2>1 DEF Elapse, Called
    <3> QED
      BY <1>1, <1>2, <3>1 DEF TQ!TQNext, TQ!Pass
  <2>2. CASE UNCHANGED vars
    <3>1. now' = now
      BY <2>2 DEF vars
    <3> QED
      BY <1>1, <1>2, <3>1 DEF TQ!tqvars
  <2> QED
    BY <2>1, <2>2
<1> QED
  BY <1>1, <1>2, <1>4, <1>5 DEF Sound

LEMMA NextStep == IInv /\ [Next]_vars => IInv' /\ Sound
  BY AddAction, AdjustAction, DelAction, TickAction, ElapseAction DEF Next

LEMMA InitStep == Init => IInv /\ TQ!TQInit
<1> SUFFICES ASSUME Init PROVE IInv /\ TQ!TQInit
  OBVIOUS
<1>1. /\ expire = [t \in Timers |-> 0] /\ live = {} /\ status = "running"
      /\ now = 0 /\ ticking = FALSE
  BY DEF Init, ListInit
<1>2. 0 \in Times
  BY TimerListAssumption DEF Times
<1>3. ListTypeOK /\ expire \in [Timers -> Times] /\ list.head = Null /\ Follows(<<>>)
  BY <1>1, <1>2, InitFollows DEF Init
<1>4. Chain = <<>>
  BY <1>3, ChainFollows
<1> QED
  BY <1>1, <1>2, <1>3, <1>4 DEF IInv, TQ!TQInit

LEMMA IInvIsTypeOK == IInv => TypeOK
<1> SUFFICES ASSUME IInv PROVE TypeOK
  OBVIOUS
<1>1. ASSUME status = "running", live # {} PROVE {list.head, list.tail} \subseteq live
  <2>1. PICK q : Follows(q)
    BY <1>1 DEF IInv
  <2> QED
    BY <1>1, <2>1, FollowsIs DEF IInv
<1> QED
  BY <1>1 DEF IInv, TypeOK

-----------------------------------------------------------------------------
(***************************************************************************)
(* The theorems.                                                           *)
(***************************************************************************)
LEMMA Steps == Spec => []IInv /\ [][Sound]_vars
<1>1. Init => IInv
  BY InitStep
<1> QED
  BY <1>1, NextStep, PTL DEF Spec

(***************************************************************************)
(* The pointers, the times and the status keep their types, and while no   *)
(* call has got stuck head and tail are allocated timers, if there are any.*)
(***************************************************************************)
THEOREM TypeCorrect == Spec => []TypeOK
  BY Steps, IInvIsTypeOK, PTL

(***************************************************************************)
(* Until a call gets stuck next leads from head over every live timer to   *)
(* tail, and prev leads back, for any number of timers and any order of    *)
(* add_timer, adjust_timer, del_timer and tick.                            *)
(***************************************************************************)
THEOREM WellFormedAlways == Spec => []WellFormed
<1>1. IInv => WellFormed
  BY FollowsWellFormed DEF IInv
<1> QED
  BY <1>1, Steps, PTL

(***************************************************************************)
(* Until a call gets stuck the list is a queue sorted by expire, stable,   *)
(* and a tick fires exactly the timers that are due: every call that       *)
(* returns is a call of TimerQueue.                                        *)
(***************************************************************************)
THEOREM ImplementsQueue == Spec => Implements
<1>1. Init => TQ!TQInit
  BY InitStep
<1>2. Sound => [TQ!TQNext]_TQ!tqvars
  BY DEF Sound
<1>3. UNCHANGED vars => UNCHANGED TQ!tqvars
  <2> SUFFICES ASSUME UNCHANGED vars PROVE UNCHANGED TQ!tqvars
    OBVIOUS
  <2>1. UNCHANGED listvars /\ UNCHANGED <<expire, status, now, ticking>>
    BY DEF vars, listvars
  <2> QED
    BY <2>1, ListKept DEF TQ!tqvars
<1> QED
  BY <1>1, <1>2, <1>3, Steps, PTL DEF Spec, Implements, TQ!TQSpec

(***************************************************************************)
(* A call hangs or follows NULL or a freed timer only on a list whose last *)
(* timer leads on, or in del_timer of the only timer.                      *)
(***************************************************************************)
THEOREM StuckOnlyAlways == Spec => StuckOnly
<1>1. Sound => (status = "running" /\ status' # "running" =>
                    TailLeadsOn \/ \E t \in live : live = {t} /\ del_timer(t))
  BY DEF Sound
<1>2. UNCHANGED vars => UNCHANGED listvars
  BY DEF vars
<1> QED
  BY <1>1, <1>2, Steps, PTL DEF StuckOnly

(***************************************************************************)
(* The last timer comes to lead on only by an adjust_timer that has moved  *)
(* a timer to the end; no other call does it, on any list.                 *)
(***************************************************************************)
THEOREM LeadsOnByMoveAlways == Spec => LeadsOnByMove
<1>1. Sound => (~TailLeadsOn /\ TailLeadsOn' =>
                    live' = live /\ list'.tail \in live \ {list.tail})
  BY DEF Sound
<1>2. UNCHANGED vars => UNCHANGED listvars
  BY DEF vars
<1> QED
  BY <1>1, <1>2, Steps, PTL DEF LeadsOnByMove
=============================================================================

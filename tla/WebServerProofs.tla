--------------------------- MODULE WebServerProofs ---------------------------
(***************************************************************************)
(* Theorems about WebServer and ServerLife for any number of workers,      *)
(* descriptors and timers and any bounds: types, the timer list as the     *)
(* server uses it, the timers of the connections, the handshake, the count *)
(* of users, and the alarm. A step of ServerLife is one of WebServer or    *)
(* leaves its variables alone, so that what holds of WebServer holds there.*)
(***************************************************************************)
EXTENDS ServerLife, SortTimerListProofs

-----------------------------------------------------------------------------
(***************************************************************************)
(* The timer list. Until a call gets stuck it follows a sorted sequence of *)
(* the live timers; outside a tick head is NULL when there are none. All   *)
(* the server's calls keep that, whatever the last timer leads on to.      *)
(***************************************************************************)
ListInv ==
    status = "running" =>
        /\ \E q : Follows(q)
        /\ live = {} /\ main # "tick" => list.head = Null

\* The call gets stuck only where StuckOnly says.
StuckStep ==
    status = "running" /\ status' # "running" =>
        TailLeadsOn \/ \E t \in live : live = {t} /\ del_timer(t)

\* What every list operation of the server does.
ListStep == ListTypeOK' /\ ListInv' /\ StuckStep

\* The list does not change, and no tick is left.
LEMMA ListFrame ==
    ASSUME ListTypeOK, ListInv, UNCHANGED listvars,
           main' # "tick" => main # "tick" \/ list.head = Null \/ live # {}
    PROVE  ListStep
<1>1. list' = list /\ expire' = expire /\ live' = live /\ status' = status
  BY DEF listvars
<1>2. ListTypeOK'
  BY <1>1 DEF ListTypeOK
<1>3. \A q : Follows(q)' <=> Follows(q)
  BY <1>1 DEF Follows
<1>4. ListInv'
  BY <1>1, <1>3 DEF ListInv
<1> QED
  BY <1>1, <1>2, <1>4 DEF ListStep, StuckStep

\* del_timer of a live timer.
LEMMA DelStep ==
    ASSUME ListTypeOK, ListInv, status = "running", NEW t \in live, del_timer(t)
    PROVE  /\ ListStep /\ expire' = expire
           /\ live \ {t} \subseteq live' /\ live' \subseteq live
           /\ status' = "running" \/ live' = live
<1>1. t \in Timers
  BY DEF ListTypeOK
<1>2. PICK q : Follows(q)
  BY DEF ListInv
<1>3. \/ /\ \E j \in 1..Len(q) : q[j] = t /\ Follows(Rem(q, j))'
         /\ live # {t} /\ live' = live \ {t} /\ expire' = expire
         /\ status' = "running" /\ (TailLeadsOn' => TailLeadsOn)
      \/ /\ live = {t} /\ status' = "crashed"
         /\ UNCHANGED <<list, expire, live>>
  BY <1>2, DelFollows
<1>4. ListTypeOK'
  BY <1>1, DelTyped
<1>5. ListInv'
  <2> SUFFICES ASSUME status' = "running" PROVE (\E r : Follows(r)') /\ live' # {}
    BY DEF ListInv
  <2>1. PICK j \in 1..Len(q) : Follows(Rem(q, j))'
    BY <1>3
  <2> QED
    BY <1>3, <2>1
<1>6. StuckStep
  BY <1>3 DEF StuckStep
<1> QED
  BY <1>3, <1>4, <1>5, <1>6 DEF ListStep

\* adjust_timer of a live timer, whose new time is no earlier.
LEMMA AdjustStep ==
    ASSUME ListTypeOK, ListInv, status = "running", NEW t \in live, NEW e \in Nat,
           expire[t] <= e, expire' = [expire EXCEPT ![t] = e], live' = live, adjust_timer(t)
    PROVE  ListStep
<1>1. t \in Timers
  BY DEF ListTypeOK
<1>2. PICK q : Follows(q)
  BY DEF ListInv
<1>3. ListTypeOK'
  <2>1. Typed(list') /\ status' \in Statuses
    BY <1>1, AdjustTyped
  <2> QED
    BY <2>1 DEF ListTypeOK, Typed, Statuses
<1>4. \/ /\ \E j \in 1..Len(q) : \E k \in 0..Len(Rem(q, j)) :
                /\ q[j] = t
                /\ Splits(Rem(q, j), expire, e, k)
                /\ Follows(Ins(Rem(q, j), k, t))'
         /\ status' = "running"
         /\ TailLeadsOn' => TailLeadsOn \/ list'.tail \in live \ {list.tail}
      \/ status' # "running" /\ TailLeadsOn
  BY <1>2, <1>3, AdjustFollows
<1>5. ListInv'
  <2> SUFFICES ASSUME status' = "running" PROVE (\E r : Follows(r)') /\ live' # {}
    BY DEF ListInv
  <2>1. PICK j \in 1..Len(q) : \E k \in 0..Len(Rem(q, j)) : Follows(Ins(Rem(q, j), k, t))'
    BY <1>4
  <2> QED
    BY <2>1
<1>6. StuckStep
  BY <1>4 DEF StuckStep
<1> QED
  BY <1>3, <1>5, <1>6 DEF ListStep

\* add_timer of a new timer.
LEMMA AddStep ==
    ASSUME ListTypeOK, ListInv, status = "running", main # "tick",
           NEW t \in Timers, t \notin live, NEW e \in Nat, live' = live \cup {t},
           expire' = [expire EXCEPT ![t] = e], add_timer(Fresh(t), live', t)
    PROVE  ListStep
<1>1. PICK q : Follows(q)
  BY DEF ListInv
<1>2. ListTypeOK'
  <2>1. Typed(list) /\ live' \in SUBSET Timers /\ status \in Statuses
    BY DEF ListTypeOK, Typed, Statuses
  <2>2. Typed(list') /\ status' \in Statuses
    BY <2>1, FreshTyped, AddTyped
  <2> QED
    BY <2>1, <2>2 DEF ListTypeOK, Typed, Statuses
<1>3. live = {} => list.head = Null
  BY DEF ListInv
<1>4. \/ /\ \E k \in 0..Len(q) : Splits(q, expire, e, k) /\ Follows(Ins(q, k, t))'
         /\ status' = "running" /\ (TailLeadsOn' => TailLeadsOn)
      \/ status' # "running" /\ TailLeadsOn
  BY <1>1, <1>2, <1>3, AddFollows
<1>5. ListInv'
  <2> SUFFICES ASSUME status' = "running" PROVE (\E r : Follows(r)') /\ live' # {}
    BY DEF ListInv
  <2>1. PICK k \in 0..Len(q) : Follows(Ins(q, k, t))'
    BY <1>4
  <2> QED
    BY <2>1
<1>6. StuckStep
  BY <1>4 DEF StuckStep
<1> QED
  BY <1>2, <1>5, <1>6 DEF ListStep

\* One timer fires.
LEMMA FireStep ==
    ASSUME ListTypeOK, ListInv, status = "running", main' = "tick", NEW now, tick_fires(now)
    PROVE  ListStep /\ list.head \in live /\ live' = live \ {list.head} /\ expire' = expire
<1>1. PICK q : Follows(q)
  BY DEF ListInv
<1>2. /\ q[1] = list.head /\ list.head \in live
      /\ Follows(Rem(q, 1))' /\ live' = live \ {q[1]} /\ expire' = expire
      /\ status' = "running"
  BY <1>1, FireFollows
<1>3. ListTypeOK'
  BY FireTyped
<1>4. ListInv'
  BY <1>2 DEF ListInv
<1> QED
  BY <1>2, <1>3, <1>4 DEF ListStep, StuckStep

\* Time passes for all of them.
LEMMA PassStep ==
    ASSUME ListTypeOK, ListInv, UNCHANGED <<list, live, status>>, main' = main,
           expire' = [t \in Timers |-> IF expire[t] > 0 THEN expire[t] - 1 ELSE 0]
    PROVE  ListStep /\ \A t \in Timers : expire'[t] <= expire[t]
<1>1. expire \in [Timers -> Nat]
  BY DEF ListTypeOK
<1>2. expire' \in [Timers -> Nat] /\ \A t \in Timers : expire'[t] <= expire[t]
  BY <1>1
<1>3. ListTypeOK'
  BY <1>2 DEF ListTypeOK
<1>4. ASSUME NEW q, Follows(q) PROVE Follows(q)'
  <2>1. Sorted(q, expire')
    <3> SUFFICES ASSUME NEW i \in 1..Len(q), NEW j \in 1..Len(q), i <= j
                 PROVE  expire'[q[i]] <= expire'[q[j]]
      BY DEF Sorted
    <3>1. q[i] \in Timers /\ q[j] \in Timers
      BY <1>4, FollowsIs
    <3>2. expire[q[i]] <= expire[q[j]]
      BY <1>4 DEF Follows, Sorted
    <3> QED
      BY <1>1, <3>1, <3>2
  <2> QED
    BY <1>4, <2>1 DEF Follows
<1>5. ListInv'
  BY <1>4 DEF ListInv
<1> QED
  BY <1>2, <1>3, <1>5 DEF ListStep, StuckStep

-----------------------------------------------------------------------------
(***************************************************************************)
(* Timers and descriptors. The inductive invariant says of every           *)
(* connection main may still touch that its timer is allocated and is its  *)
(* own: of the open ones, of those with an event in the batch, which may   *)
(* be stale, and of the one main spins on. A batch holds one event for a   *)
(* descriptor, so that a timer main has freed is not met again.            *)
(***************************************************************************)
Guarded(c) == timer[c] \in live /\ user_data[timer[c]] = c

Spinning == main \in {"spin", "flag"}

BatchInv ==
    /\ main \in {"wait", "tick"} => batch = {}
    /\ \A e, f \in batch : e[1] = f[1] => e = f
    /\ Spinning => \A e \in batch : e[1] # sockfd

GuardInv ==
    /\ \A c \in open : Guarded(c)
    /\ \A e \in batch : e[1] \in Fds => Guarded(e[1])
    /\ Spinning => Guarded(sockfd)

TimerInv == TypeOK /\ ListInv /\ BatchInv /\ GuardInv

\* What is shown of each step.
Kept == TimerInv' /\ StuckStep

Interests == {"in", "in once", "out once", "off"}

\* What deal_timer does to the list and to the descriptor.
LEMMA DealEffect ==
    ASSUME TypeOK, ListInv, status = "running", NEW c \in Fds, Guarded(c), DealTimer(c)
    PROVE  /\ ListStep /\ expire' = expire
           /\ live \ {timer[c]} \subseteq live' /\ live' \subseteq live
           /\ status' = "running" \/ live' = live
           /\ user_data' \in [Timers -> Fds \cup {NoFd}]
           /\ \A t \in live' : user_data'[t] = user_data[t]
           /\ m_user_count' = m_user_count - 1 /\ m_user_count' \in Int
           /\ open' = open \ {c} /\ hup' \subseteq open'
           /\ interest' \in [Fds -> Interests]
<1>1. del_timer(timer[c]) /\ Forgets /\ timer[c] \in live /\ ListTypeOK
  BY DEF DealTimer, Guarded, TypeOK
<1>2. /\ ListStep /\ expire' = expire
      /\ live \ {timer[c]} \subseteq live' /\ live' \subseteq live
      /\ status' = "running" \/ live' = live
  BY <1>1, DelStep
<1>3. /\ user_data' \in [Timers -> Fds \cup {NoFd}]
      /\ \A t \in live' : user_data'[t] = user_data[t]
  <2>1. live' \subseteq Timers /\ user_data \in [Timers -> Fds \cup {NoFd}]
    BY <1>1, <1>2 DEF ListTypeOK, TypeOK
  <2> QED
    BY <1>1, <2>1 DEF Forgets
<1>4. m_user_count' = m_user_count - 1 /\ m_user_count' \in Int
  <2>1. m_user_count \in Int /\ m_user_count' = m_user_count - 1
    BY DEF TypeOK, DealTimer
  <2> QED
    BY <2>1
<1>5. open' = open \ {c} /\ hup' \subseteq open' /\ interest' \in [Fds -> Interests]
  BY DEF DealTimer, Closing, TypeOK, Interests
<1> QED
  BY <1>2, <1>3, <1>4, <1>5

\* adjust_timer keeps the timers that are in the list.
LEMMA AdjustEffect ==
    ASSUME TypeOK, ListInv, status = "running", NEW c \in Fds, Guarded(c), AdjustTimer(c)
    PROVE  /\ ListStep /\ live' = live /\ user_data' = user_data
           /\ \A t \in live' : expire'[t] <= Span
<1>1. /\ timer[c] \in live /\ ListTypeOK /\ Span \in Nat /\ expire[timer[c]] <= Span
      /\ expire' = [expire EXCEPT ![timer[c]] = Span]
      /\ adjust_timer(timer[c]) /\ live' = live /\ user_data' = user_data
  BY WebServerAssumption DEF AdjustTimer, Guarded, TypeOK
<1>2. ListStep
  BY <1>1, AdjustStep
<1>3. expire \in [Timers -> Nat] /\ live \subseteq Timers /\ \A t \in live : expire[t] <= Span
  BY <1>1 DEF ListTypeOK, TypeOK
<1> QED
  BY <1>1, <1>2, <1>3

\* Main leaves the timers alone and descriptors at most get closed.
LEMMA GuardFrame ==
    ASSUME TypeOK, ListInv, BatchInv, GuardInv, UNCHANGED <<batch, main, sockfd, timing>>,
           open' \subseteq open, TypeOK'
    PROVE  Kept
<1>1. UNCHANGED listvars /\ ListTypeOK
  BY DEF timing, TypeOK
<1>2. ListStep
  BY <1>1, ListFrame DEF ListInv
<1>3. BatchInv' /\ GuardInv'
  BY DEF BatchInv, GuardInv, Guarded, Spinning, timing, listvars
<1> QED
  BY <1>2, <1>3 DEF Kept, TimerInv, ListStep

LEMMA TimerInit == Init => TimerInv
<1> SUFFICES ASSUME Init PROVE TimerInv
  OBVIOUS
<1>1. /\ expire = [t \in Timers |-> 0] /\ live = {} /\ status = "running"
      /\ ListTypeOK /\ list.head = Null /\ Follows(<<>>)
  BY InitFollows DEF Init, ListInit
<1>2. TypeOK
  BY <1>1, WebServerAssumption DEF Init, TypeOK, WorkerPC
<1>3. BatchInv /\ GuardInv
  BY <1>1 DEF Init, BatchInv, GuardInv, Spinning
<1> QED
  BY <1>1, <1>2, <1>3 DEF TimerInv, ListInv

LEMMA EventFd == \A e, c, x : e = <<c, x>> => e[1] = c
OBVIOUS

\* epoll_wait reports only open descriptors, each of them once.
LEMMA ReadyEvents ==
    ASSUME TypeOK, NEW gone \in SUBSET open, NEW sent \in SUBSET open
    PROVE  /\ Ready(gone, sent) \subseteq Fds \X {"in", "out", "hup"}
           /\ \A e \in Ready(gone, sent) : e[1] \in open
           /\ \A e, f \in Ready(gone, sent) : e[1] = f[1] => e = f
<1>1. ASSUME NEW e \in Ready(gone, sent)
      PROVE  \E c \in open :
               \/ e = <<c, "hup">> /\ c \in gone
               \/ e = <<c, "in">> /\ c \notin gone /\ interest[c] \in {"in", "in once"}
               \/ e = <<c, "out">> /\ c \notin gone /\ interest[c] = "out once"
  <2>1. CASE e \in {<<c, "hup">> : c \in {x \in gone : Watched(x, {"in", "in once", "out once"})}}
    BY <2>1 DEF Watched
  <2>2. CASE e \in {<<c, "in">> : c \in {x \in sent \ gone : Watched(x, {"in", "in once"})}}
    BY <2>2 DEF Watched
  <2>3. CASE e \in {<<c, "out">> : c \in {x \in Fds \ gone : Watched(x, {"out once"})}}
    BY <2>3 DEF Watched
  <2> QED
    BY <1>1, <2>1, <2>2, <2>3 DEF Ready
<1>2. ASSUME NEW e \in Ready(gone, sent) PROVE e[1] \in open /\ e \in Fds \X {"in", "out", "hup"}
  <2>1. PICK c \in open : e \in {<<c, "hup">>, <<c, "in">>, <<c, "out">>}
    BY <1>1, <1>2
  <2>2. c \in Fds /\ e[1] = c
    BY <2>1, EventFd DEF TypeOK
  <2> QED
    BY <2>1, <2>2
<1>3. ASSUME NEW e \in Ready(gone, sent), NEW f \in Ready(gone, sent), e[1] = f[1] PROVE e = f
  <2>1. PICK c \in open :
          \/ e = <<c, "hup">> /\ c \in gone
          \/ e = <<c, "in">> /\ c \notin gone /\ interest[c] \in {"in", "in once"}
          \/ e = <<c, "out">> /\ c \notin gone /\ interest[c] = "out once"
    BY <1>1
  <2>2. PICK d \in open :
          \/ f = <<d, "hup">> /\ d \in gone
          \/ f = <<d, "in">> /\ d \notin gone /\ interest[d] \in {"in", "in once"}
          \/ f = <<d, "out">> /\ d \notin gone /\ interest[d] = "out once"
    BY <1>1
  <2>3. e[1] = c /\ f[1] = d
    BY <2>1, <2>2, EventFd
  <2>4. c = d
    BY <1>3, <2>3
  <2>5. CASE c \in gone
    BY <2>1, <2>2, <2>4, <2>5
  <2>6. CASE interest[c] = "out once" /\ c \notin gone
    BY <2>1, <2>2, <2>4, <2>6
  <2>7. CASE interest[c] # "out once" /\ c \notin gone
    BY <2>1, <2>2, <2>4, <2>7
  <2> QED
    BY <2>5, <2>6, <2>7
<1> QED
  BY <1>2, <1>3

\* The workers leave the timers and main alone.
LEMMA WorkerTimer ==
    ASSUME TimerInv, NEW w \in Workers, WorkerStep(w)
    PROVE  Kept
<1>1. TypeOK /\ ListInv /\ BatchInv /\ GuardInv
  BY DEF TimerInv
<1>2. UNCHANGED <<server, timing>>
  BY DEF WorkerStep, WorkerTakes, WorkerReads, WorkerWrites, WorkerFinishes, WorkerFlags,
         WorkerProcesses, WorkerFails, WorkerCloses, WorkerCounts, WorkerRearms
<1>3. /\ UNCHANGED <<m_actormodel, main, batch, sockfd, listvars, list, expire, live, status>>
      /\ UNCHANGED <<timer, user_data>>
  BY <1>2 DEF server, timing, listvars
<1>4. ListTypeOK'
  BY <1>1, <1>3 DEF TypeOK, ListTypeOK
<1> DEFINE Pc(label) == pc' = [pc EXCEPT ![w] = label] /\ label \in WorkerPC
           Same == UNCHANGED <<queue, improv, timer_flag, m_state, m_sockfd, m_user_count>>
                   /\ UNCHANGED <<open, hup, interest>>
<1>5. ASSUME NEW label, Pc(label), label # "idle" => pc[w] # "idle",
             UNCHANGED request \/ (label = "idle" /\ request' = [request EXCEPT ![w] = NoFd]),
             queue' \in Seq(Fds),
             improv' \in [Fds -> {"Event_Processing", "Event_Finish"}],
             timer_flag' \in [Fds -> {0, 1}], m_state' = m_state,
             m_sockfd' \in [Fds -> Fds \cup {NoFd}], m_user_count' \in Int,
             open' \subseteq open, hup' \subseteq open', interest' \in [Fds -> Interests]
      PROVE  TypeOK'
  <2>1. pc' \in [Workers -> WorkerPC] /\ request' \in [Workers -> Fds \cup {NoFd}]
    BY <1>1, <1>5 DEF TypeOK
  <2>2. \A v \in Workers : pc'[v] # "idle" => request'[v] \in Fds
    BY <1>1, <1>5 DEF TypeOK
  <2> HIDE DEF Pc
  <2> QED
    BY <1>1, <1>3, <1>4, <1>5, <2>1, <2>2 DEF TypeOK, Interests
<1>6. /\ queue \in Seq(Fds) /\ improv \in [Fds -> {"Event_Processing", "Event_Finish"}]
      /\ timer_flag \in [Fds -> {0, 1}] /\ m_sockfd \in [Fds -> Fds \cup {NoFd}]
      /\ m_user_count \in Int /\ hup \subseteq open /\ interest \in [Fds -> Interests]
      /\ pc \in [Workers -> WorkerPC] /\ request \in [Workers -> Fds \cup {NoFd}]
      /\ pc[w] # "idle" => request[w] \in Fds
  BY <1>1 DEF TypeOK, Interests
<1>7. CASE WorkerTakes(w)
  <2>1. /\ queue # <<>> /\ queue' = Tail(queue) /\ request' = [request EXCEPT ![w] = Head(queue)]
        /\ UNCHANGED <<improv, timer_flag, m_state, m_sockfd, m_user_count, open, hup, interest>>
        /\ \E label \in {"taken", "processing"} : pc' = [pc EXCEPT ![w] = label]
    BY <1>7 DEF WorkerTakes, conns, kernel
  <2>2. Head(queue) \in Fds /\ queue' \in Seq(Fds)
    BY <1>6, <2>1
  <2>3. TypeOK'
    <3>1. pc' \in [Workers -> WorkerPC] /\ request' \in [Workers -> Fds \cup {NoFd}]
      BY <1>6, <2>1, <2>2 DEF WorkerPC
    <3>2. \A v \in Workers : pc'[v] # "idle" => request'[v] \in Fds
      BY <1>1, <1>6, <2>1, <2>2 DEF TypeOK
    <3> QED
      BY <1>1, <1>3, <1>4, <2>1, <2>2, <3>1, <3>2 DEF TypeOK
  <2> QED
    BY <1>1, <1>3, <2>1, <2>3, GuardFrame DEF timing
<1>8. CASE WorkerReads(w) \/ WorkerWrites(w) \/ WorkerFails(w)
  <2>1. /\ pc[w] # "idle" /\ Same /\ request' = request
        /\ \E label \in WorkerPC : pc' = [pc EXCEPT ![w] = label]
    BY <1>8 DEF WorkerReads, WorkerWrites, WorkerFails, Goto, conns, kernel, WorkerPC
  <2>2. TypeOK'
    BY <1>5, <1>6, <2>1
  <2> QED
    BY <1>1, <1>3, <2>1, <2>2, GuardFrame DEF timing
<1>9. CASE WorkerFinishes(w)
  <2>1. /\ pc[w] # "idle" /\ UNCHANGED <<queue, timer_flag, m_state, m_sockfd, m_user_count, open, hup, interest>>
        /\ improv' = [improv EXCEPT ![request[w]] = "Event_Finish"]
        /\ \/ pc' = [pc EXCEPT ![w] = "processing"] /\ UNCHANGED request
           \/ pc' = [pc EXCEPT ![w] = "flagging"] /\ UNCHANGED request
           \/ pc' = [pc EXCEPT ![w] = "idle"] /\ request' = [request EXCEPT ![w] = NoFd]
    BY <1>9 DEF WorkerFinishes, Goto, Done, kernel
  <2>2. improv' \in [Fds -> {"Event_Processing", "Event_Finish"}]
    BY <1>6, <2>1
  <2>3. {"processing", "flagging", "idle"} \subseteq WorkerPC
    BY DEF WorkerPC
  <2>4. TypeOK'
    BY <1>5, <1>6, <2>1, <2>2, <2>3
  <2> QED
    BY <1>1, <1>3, <2>1, <2>4, GuardFrame DEF timing
<1>10. CASE WorkerFlags(w)
  <2>1. /\ pc[w] # "idle" /\ UNCHANGED <<queue, improv, m_state, m_sockfd, m_user_count, open, hup, interest>>
        /\ timer_flag' = [timer_flag EXCEPT ![request[w]] = 1]
        /\ pc' = [pc EXCEPT ![w] = "idle"] /\ request' = [request EXCEPT ![w] = NoFd]
    BY <1>10 DEF WorkerFlags, Done, kernel
  <2>2. timer_flag' \in [Fds -> {0, 1}] /\ "idle" \in WorkerPC
    BY <1>6, <2>1 DEF WorkerPC
  <2>3. TypeOK'
    BY <1>5, <1>6, <2>1, <2>2
  <2> QED
    BY <1>1, <1>3, <2>1, <2>3, GuardFrame DEF timing
<1>11. CASE WorkerProcesses(w) \/ WorkerRearms(w)
  <2>1. /\ pc[w] # "idle" /\ UNCHANGED <<queue, improv, timer_flag, m_state, m_sockfd, m_user_count, open, hup>>
        /\ pc' = [pc EXCEPT ![w] = "idle"] /\ request' = [request EXCEPT ![w] = NoFd]
        /\ \E events \in {"in once", "out once"} : Rearm(m_sockfd[request[w]], events)
    BY <1>11 DEF WorkerProcesses, WorkerRearms, Done, conns
  <2>2. interest' \in [Fds -> Interests] /\ "idle" \in WorkerPC
    BY <1>6, <2>1 DEF Rearm, Interests, WorkerPC
  <2>3. TypeOK'
    BY <1>5, <1>6, <2>1, <2>2
  <2> QED
    BY <1>1, <1>3, <2>1, <2>3, GuardFrame DEF timing
<1>12. CASE WorkerCloses(w)
  <2>1. /\ pc[w] # "idle" /\ UNCHANGED <<queue, improv, timer_flag, m_state, m_sockfd, m_user_count>>
        /\ pc' = [pc EXCEPT ![w] = "closed"] /\ request' = request
        /\ Closing(m_sockfd[request[w]])
    BY <1>12 DEF WorkerCloses, Goto, conns
  <2>2. open' \subseteq open /\ hup' \subseteq open' /\ interest' \in [Fds -> Interests]
    BY <1>6, <2>1 DEF Closing, Interests
  <2>3. "closed" \in WorkerPC
    BY DEF WorkerPC
  <2>4. TypeOK'
    BY <1>5, <1>6, <2>1, <2>2, <2>3
  <2> QED
    BY <1>1, <1>3, <2>2, <2>4, GuardFrame DEF timing
<1>13. CASE WorkerCounts(w)
  <2>1. /\ pc[w] # "idle" /\ UNCHANGED <<queue, improv, timer_flag, m_state, open, hup, interest>>
        /\ pc' = [pc EXCEPT ![w] = "rearming"] /\ request' = request
        /\ m_sockfd' = [m_sockfd EXCEPT ![request[w]] = NoFd] /\ m_user_count' = m_user_count - 1
    BY <1>13 DEF WorkerCounts, Goto, kernel
  <2>2. m_sockfd' \in [Fds -> Fds \cup {NoFd}] /\ "rearming" \in WorkerPC
    BY <1>6, <2>1 DEF WorkerPC
  <2>3. m_user_count' \in Int
    BY <1>6, <2>1
  <2>4. TypeOK'
    BY <1>5, <1>6, <2>1, <2>2, <2>3
  <2> QED
    BY <1>1, <1>3, <2>1, <2>4, GuardFrame DEF timing
<1> QED
  BY <1>7, <1>8, <1>9, <1>10, <1>11, <1>12, <1>13 DEF WorkerStep

\* A handled event leaves no other for its descriptor.
LEMMA HandlesEffect ==
    ASSUME TimerInv, NEW c \in Fds, NEW x, Handles(c, x)
    PROVE  /\ Guarded(c) /\ main = "batch"
           /\ batch' \subseteq batch /\ \A e \in batch' : e[1] # c
           /\ UNCHANGED m_actormodel
<1> DEFINE event == <<c, x>>
<1>1. /\ event \in batch /\ event[1] = c /\ batch' = batch \ {event} /\ main = "batch"
      /\ UNCHANGED m_actormodel
  BY DEF Handles
<1> HIDE DEF event
<1>2. BatchInv /\ GuardInv
  BY DEF TimerInv
<1>3. Guarded(c)
  BY <1>1, <1>2 DEF GuardInv
<1>4. \A e \in batch' : e[1] # c
  BY <1>1, <1>2 DEF BatchInv
<1> QED
  BY <1>1, <1>3, <1>4

\* Main closes c, whatever brought it there; if that gets stuck, nothing is freed.
LEMMA ClosesTimer ==
    ASSUME TimerInv, status = "running", NEW c \in Fds, Guarded(c), DealTimer(c),
           UNCHANGED <<m_actormodel, timer, queue, pc, request, m_state, m_sockfd>>,
           improv' \in [Fds -> {"Event_Processing", "Event_Finish"}],
           timer_flag' \in [Fds -> {0, 1}],
           sockfd' \in Fds \cup {NoFd},
           batch' \subseteq batch, \A e \in batch' : e[1] # c,
           \/ main' = "batch"
           \/ status' # "running" /\ main' = "flag" /\ sockfd' = c
    PROVE  Kept
<1>1. TypeOK /\ ListInv /\ BatchInv /\ GuardInv
  BY DEF TimerInv
<1>2. /\ ListStep /\ expire' = expire
      /\ live \ {timer[c]} \subseteq live' /\ live' \subseteq live
      /\ status' = "running" \/ live' = live
      /\ user_data' \in [Timers -> Fds \cup {NoFd}]
      /\ \A t \in live' : user_data'[t] = user_data[t]
      /\ m_user_count' = m_user_count - 1 /\ m_user_count' \in Int
      /\ open' = open \ {c} /\ hup' \subseteq open'
      /\ interest' \in [Fds -> Interests]
  BY <1>1, DealEffect
<1>3. TypeOK'
  <2>1. ListTypeOK' /\ \A t \in live' : expire'[t] <= Span /\ user_data'[t] \in Fds
    BY <1>1, <1>2 DEF ListStep, TypeOK
  <2>2. main' \in {"spin", "flag"} => sockfd' \in Fds
    OBVIOUS
  <2>3. main' \in {"wait", "batch", "accept", "spin", "flag", "tick"}
    OBVIOUS
  <2>4. open' \subseteq Fds
    BY <1>1, <1>2 DEF TypeOK
  <2> QED
    BY <1>1, <1>2, <2>1, <2>2, <2>3, <2>4 DEF TypeOK, Interests
<1>4. BatchInv'
  BY <1>1 DEF BatchInv, Spinning
<1>5. ASSUME NEW d, d # c, Guarded(d) PROVE Guarded(d)'
  <2>1. timer[d] # timer[c]
    BY <1>5 DEF Guarded
  <2> QED
    BY <1>2, <1>5, <2>1 DEF Guarded
<1>6. status' # "running" => Guarded(c)'
  BY <1>2 DEF Guarded
<1>7. GuardInv'
  <2>1. \A d \in open' : Guarded(d)'
    BY <1>1, <1>2, <1>5 DEF GuardInv
  <2>2. \A e \in batch' : e[1] \in Fds => Guarded(e[1])'
    BY <1>1, <1>5 DEF GuardInv
  <2>3. Spinning' => timer'[sockfd'] \in live' /\ user_data'[timer'[sockfd']] = sockfd'
    BY <1>6 DEF Spinning, Guarded
  <2> QED
    BY <2>1, <2>2, <2>3 DEF GuardInv, Guarded
<1> QED
  BY <1>2, <1>3, <1>4, <1>7 DEF Kept, TimerInv, ListStep

LEMMA HandleHupTimer ==
    ASSUME TimerInv, status = "running", NEW c \in Fds, HandleHup(c)
    PROVE  Kept
<1>1. /\ Handles(c, "hup") /\ DealTimer(c)
      /\ UNCHANGED <<main, sockfd, timer, queue, pc, request, m_state, m_sockfd>>
      /\ improv' = improv /\ timer_flag' = timer_flag
  BY DEF HandleHup, pool, conns
<1>2. /\ sockfd \in Fds \cup {NoFd} /\ timer_flag \in [Fds -> {0, 1}]
      /\ improv \in [Fds -> {"Event_Processing", "Event_Finish"}]
  BY DEF TimerInv, TypeOK
<1>3. /\ Guarded(c) /\ main = "batch"
      /\ batch' \subseteq batch /\ \A e \in batch' : e[1] # c
      /\ UNCHANGED m_actormodel
  BY <1>1, HandlesEffect
<1> QED
  BY <1>1, <1>2, <1>3, ClosesTimer

\* Main leaves the connections and the timers as they are.
LEMMA MainFrame ==
    ASSUME TimerInv, UNCHANGED <<m_actormodel, timing, queue, pc, request, conns, m_user_count, open>>,
           hup' \subseteq open', interest' \in [Fds -> Interests],
           main' \in {"wait", "batch", "accept", "spin", "flag", "tick"},
           main' # "tick" => main # "tick" \/ list.head = Null \/ live # {},
           sockfd' \in Fds \cup {NoFd}, main' \in {"spin", "flag"} => sockfd' \in Fds,
           batch' \subseteq (Fds \X {"in", "out", "hup"}) \cup {<<ListenFd, "in">>},
           BatchInv', \A e \in batch' : e[1] \in Fds => Guarded(e[1]),
           Spinning' => Guarded(sockfd')
    PROVE  Kept
<1>1. TypeOK /\ ListInv /\ GuardInv
  BY DEF TimerInv
<1>2. UNCHANGED <<listvars, timer, user_data>> /\ UNCHANGED <<expire, live>>
  BY DEF timing, listvars
<1>3. ListStep
  BY <1>1, <1>2, ListFrame DEF TypeOK
<1>4. TypeOK'
  <2>1. UNCHANGED <<improv, timer_flag, m_state, m_sockfd>>
    BY DEF conns
  <2> QED
    BY <1>1, <1>2, <1>3, <2>1 DEF TypeOK, Interests, ListStep
<1>5. GuardInv'
  <2>1. \A d : Guarded(d)' <=> Guarded(d)
    BY <1>2 DEF Guarded
  <2>2. \A d \in open' : Guarded(d)'
    BY <1>1, <2>1 DEF GuardInv
  <2>3. \A e \in batch' : e[1] \in Fds => Guarded(e[1])'
    BY <2>1
  <2>4. Spinning' => timer'[sockfd'] \in live' /\ user_data'[timer'[sockfd']] = sockfd'
    BY <1>2 DEF Guarded
  <2> QED
    BY <2>2, <2>3, <2>4 DEF GuardInv, Guarded
<1> QED
  BY <1>3, <1>4, <1>5 DEF Kept, TimerInv, ListStep

LEMMA EpollWaitTimer ==
    ASSUME TimerInv, EpollWait
    PROVE  Kept
<1>1. TypeOK /\ BatchInv /\ GuardInv
  BY DEF TimerInv
<1>2. PICK gone \in SUBSET open, sent \in SUBSET open :
        /\ hup' = gone
        /\ batch' \subseteq Ready(gone, sent) \cup {<<ListenFd, "in">>}
  BY DEF EpollWait
<1> DEFINE R == Ready(gone, sent)
<1>3. /\ R \subseteq Fds \X {"in", "out", "hup"}
      /\ \A e \in R : e[1] \in open
      /\ \A e, f \in R : e[1] = f[1] => e = f
  BY <1>1, ReadyEvents
<1> HIDE DEF R
<1>4. /\ batch' \subseteq R \cup {<<ListenFd, "in">>} /\ main' = "batch" /\ main = "wait"
      /\ hup' \subseteq open
  BY <1>2 DEF EpollWait, R
<1>5. \A e \in R : e[1] \in Fds
  BY <1>1, <1>3 DEF TypeOK
<1>6. \A e \in batch' : e \in R \/ (e[1] = ListenFd /\ e = <<ListenFd, "in">>)
  BY <1>4, EventFd
<1>7. BatchInv'
  <2>1. ASSUME NEW e \in batch', NEW f \in batch', e[1] = f[1] PROVE e = f
    BY <1>3, <1>5, <1>6, <2>1, WebServerAssumption
  <2> QED
    BY <1>4, <2>1 DEF BatchInv, Spinning
<1>8. \A e \in batch' : e[1] \in Fds => Guarded(e[1])
  BY <1>1, <1>3, <1>6, WebServerAssumption DEF GuardInv
<1>9. interest' \in [Fds -> Interests]
  BY <1>1 DEF EpollWait, TypeOK, Interests
<1>10. UNCHANGED <<m_actormodel, sockfd, timing, queue, pc, request, conns, m_user_count, open>>
  BY DEF EpollWait, pool
<1>11. ~Spinning' /\ main' \notin {"spin", "flag"} /\ sockfd' \in Fds \cup {NoFd}
  BY <1>1, <1>4, <1>10 DEF Spinning, TypeOK
<1>12. batch' \subseteq (Fds \X {"in", "out", "hup"}) \cup {<<ListenFd, "in">>}
  BY <1>3, <1>4
<1>13. hup' \subseteq open'
  BY <1>4, <1>10
<1> QED
  BY <1>4, <1>7, <1>8, <1>9, <1>10, <1>11, <1>12, <1>13, MainFrame

\* When the loop of a tick ends, a list without timers is empty.
LEMMA TickEndsHead ==
    ASSUME TimerInv, status = "running", TickEnds
    PROVE  (live = {} => list.head = Null) /\ \A t \in live : expire[t] > 0
<1>1. PICK q : Follows(q)
  BY DEF TimerInv, ListInv
<1>2. ListTypeOK /\ tick_ends(0)
  BY DEF TimerInv, TypeOK, TickEnds
<1> QED
  BY <1>1, <1>2, EndsDue

\* The steps of main that touch no timer and no connection.
LEMMA PlainTimer ==
    ASSUME TimerInv, status = "running", AcceptNone \/ SpinFinish \/ EndBatch \/ TickEnds
    PROVE  Kept
<1>1. TypeOK /\ BatchInv /\ GuardInv
  BY DEF TimerInv
<1>2. /\ UNCHANGED <<m_actormodel, sockfd, timing, queue, pc, request, conns, m_user_count>>
      /\ UNCHANGED <<open, hup, interest>>
      /\ batch' \subseteq batch
      /\ main' \in {"wait", "batch", "accept", "spin", "flag", "tick"}
      /\ Spinning' => Spinning
      /\ main' \in {"wait", "tick"} => batch' = {}
  BY <1>1 DEF AcceptNone, Accepts, SpinFinish, EndBatch, TickEnds, tick_ends, timing, kernel, pool,
     Spinning, TypeOK, BatchInv
<1>3. BatchInv'
  BY <1>1, <1>2 DEF BatchInv
<1>4. \A e \in batch' : e[1] \in Fds => Guarded(e[1])
  BY <1>1, <1>2 DEF GuardInv
<1>5. Spinning' => Guarded(sockfd')
  BY <1>1, <1>2 DEF GuardInv
<1>6. main' \in {"spin", "flag"} => sockfd' \in Fds
  BY <1>1, <1>2 DEF Spinning, TypeOK
<1>7. /\ sockfd' \in Fds \cup {NoFd} /\ interest' \in [Fds -> Interests]
      /\ batch' \subseteq (Fds \X {"in", "out", "hup"}) \cup {<<ListenFd, "in">>}
      /\ hup' \subseteq open'
  BY <1>1, <1>2 DEF TypeOK, Interests
<1>8. main' # "tick" => main # "tick" \/ list.head = Null \/ live # {}
  BY TickEndsHead DEF AcceptNone, Accepts, SpinFinish, EndBatch
<1> QED
  BY <1>2, <1>3, <1>4, <1>5, <1>6, <1>7, <1>8, MainFrame

\* Main works on c and puts its timer off.
LEMMA AdjustsTimer ==
    ASSUME TimerInv, status = "running", NEW c \in Fds, NEW x, Handles(c, x), AdjustTimer(c),
           UNCHANGED <<timer, m_user_count, open, interest, hup, pc, request>>,
           improv' = improv, timer_flag' = timer_flag, m_sockfd' = m_sockfd,
           queue' \in Seq(Fds),
           m_state' \in [Fds -> {"Read_State", "Write_State"}],
           \/ UNCHANGED <<main, sockfd>>
           \/ main' = "spin" /\ sockfd' = c
    PROVE  Kept
<1>1. TypeOK /\ ListInv /\ BatchInv /\ GuardInv
  BY DEF TimerInv
<1>2. /\ Guarded(c) /\ main = "batch"
      /\ batch' \subseteq batch /\ \A e \in batch' : e[1] # c
      /\ UNCHANGED m_actormodel
  BY HandlesEffect
<1>3. /\ ListStep /\ live' = live /\ user_data' = user_data
      /\ \A t \in live' : expire'[t] <= Span
  BY <1>1, <1>2, AdjustEffect
<1>4. TypeOK'
  <2>1. main' \in {"batch", "spin"} /\ sockfd' \in Fds \cup {NoFd}
        /\ (main' \in {"spin", "flag"} => sockfd' \in Fds)
    BY <1>1, <1>2 DEF TypeOK
  <2> QED
    BY <1>1, <1>2, <1>3, <2>1 DEF TypeOK, ListStep
<1>5. BatchInv'
  BY <1>1, <1>2 DEF BatchInv, Spinning
<1>6. GuardInv'
  <2>1. \A d : Guarded(d)' <=> Guarded(d)
    BY <1>3 DEF Guarded
  <2>2. \A d \in open' : Guarded(d)'
    BY <1>1, <2>1 DEF GuardInv
  <2>3. \A e \in batch' : e[1] \in Fds => Guarded(e[1])'
    BY <1>1, <1>2, <2>1 DEF GuardInv
  <2>4. Spinning' => timer'[sockfd'] \in live' /\ user_data'[timer'[sockfd']] = sockfd'
    BY <1>2, <1>3 DEF Spinning, Guarded
  <2> QED
    BY <2>2, <2>3, <2>4 DEF GuardInv, Guarded
<1> QED
  BY <1>3, <1>4, <1>5, <1>6 DEF Kept, TimerInv, ListStep

LEMMA QueuedType ==
    ASSUME TypeOK, NEW c \in Fds, Queued(c) \/ UNCHANGED queue
    PROVE  queue' \in Seq(Fds)
<1>1. queue \in Seq(Fds)
  BY DEF TypeOK
<1> QED
  BY <1>1 DEF Queued

LEMMA DispatchTimer ==
    ASSUME TimerInv, status = "running", NEW c \in Fds, NEW x,
           NEW state \in {"Read_State", "Write_State"}, Dispatch(c, x, state)
    PROVE  Kept
<1>1. TypeOK
  BY DEF TimerInv
<1>2. /\ Handles(c, x) /\ AdjustTimer(c)
      /\ UNCHANGED <<timer, m_user_count, open, interest, hup, pc, request>>
      /\ improv' = improv /\ timer_flag' = timer_flag /\ m_sockfd' = m_sockfd
      /\ Queued(c) \/ UNCHANGED queue
      /\ (main' = "spin" /\ sockfd' = c) \/ UNCHANGED <<main, sockfd>>
  BY DEF Dispatch, kernel
<1>3. m_state' \in [Fds -> {"Read_State", "Write_State"}]
  BY <1>1 DEF Dispatch, TypeOK
<1> QED
  BY <1>1, <1>2, <1>3, QueuedType, AdjustsTimer

LEMMA ProactorTimer ==
    ASSUME TimerInv, status = "running", NEW c \in Fds, ProactorRead(c) \/ ProactorWrite(c)
    PROVE  Kept
<1>1. TypeOK
  BY DEF TimerInv
<1>2. PICK x \in {"in", "out"} : Handles(c, x)
  BY DEF ProactorRead, ProactorWrite
<1>3. UNCHANGED <<main, sockfd, timer, pc, request, m_state, m_sockfd, m_actormodel>>
      /\ improv' = improv /\ timer_flag' = timer_flag
  BY DEF ProactorRead, ProactorWrite, Handles, pool, conns
<1>4. CASE DealTimer(c) /\ UNCHANGED queue
  <2>1. /\ sockfd \in Fds \cup {NoFd} /\ timer_flag \in [Fds -> {0, 1}]
        /\ improv \in [Fds -> {"Event_Processing", "Event_Finish"}]
    BY <1>1 DEF TypeOK
  <2>2. /\ Guarded(c) /\ main = "batch"
        /\ batch' \subseteq batch /\ \A e \in batch' : e[1] # c
    BY <1>2, HandlesEffect
  <2> QED
    BY <1>3, <1>4, <2>1, <2>2, ClosesTimer
<1>5. CASE /\ AdjustTimer(c) /\ queue' \in Seq(Fds)
           /\ UNCHANGED <<m_user_count, open, interest, hup>>
  <2>1. m_state' \in [Fds -> {"Read_State", "Write_State"}]
    BY <1>1, <1>3 DEF TypeOK
  <2> QED
    BY <1>2, <1>3, <1>5, <2>1, AdjustsTimer
<1>6. (Queued(c) \/ UNCHANGED queue) /\ queue' \in Seq(Fds)
  BY <1>1, QueuedType DEF ProactorRead, ProactorWrite, pool
<1> QED
  BY <1>4, <1>5, <1>6 DEF ProactorRead, ProactorWrite, kernel, pool

\* After the spin main closes the connection or lets it live; if that gets stuck
\* it stays where it is.
LEMMA SpinFlagTimer ==
    ASSUME TimerInv, status = "running", SpinFlag
    PROVE  Kept
<1>1. TypeOK /\ ListInv /\ BatchInv /\ GuardInv
  BY DEF TimerInv
<1>2. /\ main = "flag" /\ UNCHANGED <<m_actormodel, batch, timer, queue, pc, request, m_state, m_sockfd>>
      /\ \/ main' = "batch" /\ sockfd' = NoFd
         \/ status' # "running" /\ UNCHANGED <<main, sockfd>>
  BY DEF SpinFlag, pool
<1>3. /\ sockfd \in Fds /\ Guarded(sockfd) /\ \A e \in batch : e[1] # sockfd
  BY <1>1, <1>2 DEF TypeOK, BatchInv, GuardInv, Spinning
<1>4. /\ improv' \in [Fds -> {"Event_Processing", "Event_Finish"}]
      /\ timer_flag' \in [Fds -> {0, 1}]
  BY <1>1 DEF SpinFlag, TypeOK
<1>5. CASE DealTimer(sockfd)
  <2>1. sockfd' \in Fds \cup {NoFd}
    BY <1>2, <1>3
  <2>2. \/ main' = "batch"
        \/ status' # "running" /\ main' = "flag" /\ sockfd' = sockfd
    BY <1>2
  <2>3. /\ UNCHANGED <<m_actormodel, timer, queue, pc, request, m_state, m_sockfd>>
        /\ batch' \subseteq batch /\ \A e \in batch' : e[1] # sockfd
    BY <1>2, <1>3
  <2> QED
    BY <1>3, <1>4, <1>5, <2>1, <2>2, <2>3, ClosesTimer
<1>6. CASE UNCHANGED <<listvars, user_data, m_user_count, kernel>>
  <2>1. /\ status' = "running" /\ main' = "batch" /\ sockfd' = NoFd
        /\ UNCHANGED <<expire, live, hup, open, interest>>
    BY <1>2, <1>6 DEF listvars, kernel
  <2>2. ListStep
    BY <1>1, <1>2, <1>6, ListFrame DEF TypeOK
  <2>3. TypeOK'
    BY <1>1, <1>2, <1>4, <1>6, <2>1, <2>2 DEF TypeOK, ListStep
  <2>4. BatchInv'
    BY <1>1, <1>2, <2>1 DEF BatchInv, Spinning
  <2>5. GuardInv'
    BY <1>1, <1>2, <1>6, <2>1 DEF GuardInv, Guarded, Spinning
  <2> QED
    BY <2>2, <2>3, <2>4, <2>5 DEF Kept, TimerInv, ListStep
<1> QED
  BY <1>5, <1>6 DEF SpinFlag

\* cb_func closes the connection of the first timer, which is freed.
LEMMA TickFiresTimer ==
    ASSUME TimerInv, status = "running", TickFires
    PROVE  Kept
<1> DEFINE t == list.head
<1>1. TypeOK /\ ListInv /\ BatchInv /\ GuardInv
  BY DEF TimerInv
<1>2. /\ main = "tick" /\ UNCHANGED <<m_actormodel, main, batch, sockfd, timer, pool, conns>>
      /\ tick_fires(0) /\ Forgets /\ Closing(user_data[t]) /\ m_user_count' = m_user_count - 1
  BY DEF TickFires, server
<1>3. ListStep /\ t \in live /\ live' = live \ {t} /\ expire' = expire
  BY <1>1, <1>2, FireStep DEF TypeOK
<1> HIDE DEF t
<1>4. batch' = {} /\ ~Spinning'
  BY <1>1, <1>2 DEF BatchInv, Spinning
<1>5. open' = open \ {user_data[t]} /\ hup' = hup \ {user_data[t]}
  BY <1>2 DEF Closing
<1>6. /\ user_data' \in [Timers -> Fds \cup {NoFd}]
      /\ \A u \in live' : user_data'[u] = user_data[u]
  <2>1. live' \subseteq Timers /\ user_data \in [Timers -> Fds \cup {NoFd}]
    BY <1>1, <1>3 DEF ListTypeOK, TypeOK
  <2> QED
    BY <1>2, <2>1 DEF Forgets
<1>7. TypeOK'
  <2>1. m_user_count' \in Int
    <3>1. m_user_count \in Int
      BY <1>1 DEF TypeOK
    <3> QED
      BY <1>2, <3>1
  <2>2. interest' \in [Fds -> {"in", "in once", "out once", "off"}]
    BY <1>1, <1>2 DEF TypeOK, Closing
  <2>3. ListTypeOK' /\ \A u \in live' : expire'[u] <= Span /\ user_data'[u] \in Fds
    BY <1>1, <1>3, <1>6 DEF ListStep, TypeOK
  <2>4. open' \subseteq Fds /\ hup' \subseteq open'
    BY <1>1, <1>5 DEF TypeOK
  <2>5. main' = "tick" /\ batch' = {} /\ UNCHANGED <<sockfd, timer, m_actormodel>>
    BY <1>2, <1>4
  <2>6. UNCHANGED <<queue, pc, request, improv, timer_flag, m_state, m_sockfd>>
    BY <1>2 DEF pool, conns
  <2> QED
    BY <1>1, <1>6, <2>1, <2>2, <2>3, <2>4, <2>5, <2>6 DEF TypeOK
<1>8. BatchInv'
  BY <1>4 DEF BatchInv
<1>9. ASSUME NEW d \in open' PROVE Guarded(d)'
  <2>1. Guarded(d) /\ d # user_data[t]
    BY <1>1, <1>5, <1>9 DEF GuardInv
  <2>2. timer[d] # t
    BY <2>1 DEF Guarded
  <2> QED
    BY <1>2, <1>3, <1>6, <2>1, <2>2 DEF Guarded
<1>10. GuardInv'
  BY <1>4, <1>9 DEF GuardInv
<1> QED
  BY <1>3, <1>7, <1>8, <1>10 DEF Kept, TimerInv, ListStep

\* tick() follows a pointer to a timer it has freed itself.
LEMMA TickCrashesTimer ==
    ASSUME TimerInv, status = "running", TickCrashes
    PROVE  Kept
<1>1. TypeOK /\ ListInv /\ BatchInv /\ GuardInv
  BY DEF TimerInv
<1>2. /\ UNCHANGED <<m_actormodel, main, batch, sockfd, timer, user_data, queue, pc, request>>
      /\ UNCHANGED <<improv, timer_flag, m_state, m_sockfd, m_user_count, open, interest, hup>>
      /\ UNCHANGED <<list, expire, live>> /\ status' = "crashed"
      /\ list.head \notin live \cup {Null}
  BY DEF TickCrashes, tick_crashes, Crashes, server, pool, conns, kernel
<1>3. ListStep
  BY <1>1, <1>2 DEF ListStep, ListInv, StuckStep, TailLeadsOn, ListTypeOK, TypeOK
<1>4. TypeOK'
  BY <1>1, <1>2, <1>3 DEF TypeOK, ListStep
<1>5. BatchInv' /\ GuardInv'
  BY <1>1, <1>2 DEF BatchInv, GuardInv, Guarded, Spinning
<1> QED
  BY <1>3, <1>4, <1>5 DEF Kept, TimerInv, ListStep

\* A new connection gets a timer of its own.
LEMMA AcceptTimer ==
    ASSUME TimerInv, status = "running", NEW c \in Fds, NEW t \in Timers, Accept(c, t)
    PROVE  Kept
<1>1. TypeOK /\ ListInv /\ BatchInv /\ GuardInv
  BY DEF TimerInv
<1>2. /\ main \in {"batch", "accept"} /\ main' \in {"batch", "accept"}
      /\ batch' \subseteq batch /\ t \notin live
      /\ open' = open \cup {c} /\ hup' = hup
      /\ user_data' = [user_data EXCEPT ![t] = c]
      /\ timer' = [timer EXCEPT ![c] = t]
      /\ live' = live \cup {t} /\ expire' = [expire EXCEPT ![t] = Span]
      /\ add_timer(Fresh(t), live', t)
      /\ UNCHANGED <<m_actormodel, sockfd, pool>>
  BY DEF Accept, Accepts, AcceptsNext, Connects, SetUp
<1>3. ListStep
  BY <1>1, <1>2, AddStep, WebServerAssumption DEF TypeOK
<1>4. TypeOK'
  <2>1. m_user_count' \in Int
    <3>1. m_user_count \in Int /\ m_user_count' = m_user_count + 1
      BY <1>1 DEF TypeOK, Accept, Connects
    <3> QED
      BY <3>1
  <2>2. /\ improv' \in [Fds -> {"Event_Processing", "Event_Finish"}]
        /\ timer_flag' \in [Fds -> {0, 1}]
        /\ m_state' \in [Fds -> {"Read_State", "Write_State"}]
        /\ m_sockfd' \in [Fds -> Fds \cup {NoFd}]
        /\ interest' \in [Fds -> {"in", "in once", "out once", "off"}]
    BY <1>1 DEF TypeOK, Accept, Connects
  <2>3. /\ user_data' \in [Timers -> Fds \cup {NoFd}]
        /\ timer' \in [Fds -> Timers \cup {NoTimer}]
        /\ open' \subseteq Fds /\ hup' \subseteq open'
    BY <1>1, <1>2 DEF TypeOK
  <2>4. \A u \in live' : expire'[u] <= Span /\ user_data'[u] \in Fds
    <3>1. /\ live \subseteq Timers /\ expire \in [Timers -> Nat] /\ Span \in Nat
          /\ user_data \in [Timers -> Fds \cup {NoFd}]
          /\ \A u \in live : expire[u] <= Span /\ user_data[u] \in Fds
      BY <1>1, WebServerAssumption DEF TypeOK, ListTypeOK
    <3> QED
      BY <1>2, <3>1
  <2>5. UNCHANGED <<queue, pc, request>>
    BY <1>2 DEF pool
  <2> QED
    BY <1>1, <1>2, <1>3, <2>1, <2>2, <2>3, <2>4, <2>5 DEF TypeOK, ListStep
<1>5. BatchInv' /\ ~Spinning'
  BY <1>1, <1>2 DEF BatchInv, Spinning
<1>6. Guarded(c)'
  BY <1>1, <1>2 DEF Guarded, TypeOK
<1>7. ASSUME NEW d \in Fds, Guarded(d) PROVE Guarded(d)'
  <2>1. CASE d # c
    <3>1. timer'[d] = timer[d] /\ timer[d] \in Timers /\ timer[d] # t
      BY <1>1, <1>2, <1>7, <2>1 DEF Guarded, TypeOK, ListTypeOK
    <3>2. user_data'[timer[d]] = d
      BY <1>1, <1>2, <1>7, <3>1 DEF Guarded, TypeOK
    <3> QED
      BY <1>2, <1>7, <3>1, <3>2 DEF Guarded
  <2> QED
    BY <1>6, <2>1
<1>8. open \subseteq Fds
  BY <1>1 DEF TypeOK
<1>9. GuardInv'
  BY <1>1, <1>2, <1>5, <1>6, <1>7, <1>8 DEF GuardInv
<1> QED
  BY <1>3, <1>4, <1>5, <1>9 DEF Kept, TimerInv, ListStep

LEMMA TimePassesTimer ==
    ASSUME TimerInv, TimePasses
    PROVE  Kept
<1>1. TypeOK /\ ListInv /\ BatchInv /\ GuardInv
  BY DEF TimerInv
<1>2. /\ UNCHANGED <<m_actormodel, main, batch, sockfd, timer, user_data, queue, pc, request>>
      /\ UNCHANGED <<improv, timer_flag, m_state, m_sockfd, m_user_count, open, interest, hup>>
      /\ UNCHANGED <<list, live, status>>
      /\ expire' = [t \in Timers |-> IF expire[t] > 0 THEN expire[t] - 1 ELSE 0]
  BY DEF TimePasses, server, pool, conns, kernel
<1>3. ListStep /\ \A t \in Timers : expire'[t] <= expire[t]
  BY <1>1, <1>2, PassStep DEF TypeOK
<1>4. \A t \in live' : expire'[t] <= Span
  <2>1. /\ live \subseteq Timers /\ expire \in [Timers -> Nat] /\ expire' \in [Timers -> Nat]
        /\ \A t \in live : expire[t] <= Span
    BY <1>1, <1>3 DEF TypeOK, ListTypeOK, ListStep
  <2> QED
    BY <1>2, <1>3, <2>1, WebServerAssumption
<1>5. TypeOK'
  BY <1>1, <1>2, <1>3, <1>4 DEF TypeOK, ListStep
<1>6. BatchInv' /\ GuardInv'
  BY <1>1, <1>2 DEF BatchInv, GuardInv, Guarded, Spinning
<1> QED
  BY <1>3, <1>5, <1>6 DEF Kept, TimerInv, ListStep

LEMMA TimerStep == TimerInv /\ [Next]_vars => Kept
<1> SUFFICES ASSUME TimerInv, [Next]_vars PROVE Kept
  OBVIOUS
<1>1. CASE UNCHANGED vars
  <2>1. /\ UNCHANGED <<m_actormodel, main, batch, sockfd, timing, queue, pc, request>>
        /\ UNCHANGED <<listvars, expire, live, timer, user_data, status>>
        /\ UNCHANGED <<improv, timer_flag, m_state, m_sockfd, m_user_count, open, interest, hup>>
    BY <1>1 DEF vars, server, pool, conns, kernel, timing, listvars
  <2>2. TypeOK /\ ListInv /\ BatchInv /\ GuardInv
    BY DEF TimerInv
  <2>3. ListStep
    BY <2>1, <2>2, ListFrame DEF TypeOK
  <2>4. TypeOK'
    BY <2>1, <2>2, <2>3 DEF TypeOK, ListStep
  <2>5. open' \subseteq open
    BY <2>1
  <2> QED
    BY <2>1, <2>2, <2>4, <2>5, GuardFrame
<1>2. CASE status = "running" /\ MainStep
  BY <1>2, EpollWaitTimer, PlainTimer, SpinFlagTimer, TickFiresTimer, TickCrashesTimer, AcceptTimer,
     HandleHupTimer, ProactorTimer, DispatchTimer DEF MainStep
<1> QED
  BY <1>1, <1>2, TimePassesTimer, WorkerTimer DEF Next

\* The timer invariant holds, and every step is sound for the list.
LEMMA TimerSteps == Spec => []TimerInv /\ [][Kept]_vars
<1>1. Kept => TimerInv'
  BY DEF Kept
<1> QED
  BY <1>1, TimerInit, TimerStep, PTL DEF Spec

(***************************************************************************)
(* The variables always have their types, every timer that is allocated    *)
(* knows its connection and is due within Span.                            *)
(***************************************************************************)
THEOREM TypeCorrect == Spec => []TypeOK
<1>1. TimerInv => TypeOK
  BY DEF TimerInv
<1> QED
  BY <1>1, TimerSteps, PTL

(***************************************************************************)
(* Main never follows a pointer in users_timer to a freed timer: what it   *)
(* looks up for an event of a stale batch or after a spin is allocated.    *)
(***************************************************************************)
THEOREM NoFreedTimer == Spec => []TimerLive
<1>1. TimerInv => TimerLive
  BY DEF TimerInv, GuardInv, Guarded, TimerLive, Spinning
<1> QED
  BY <1>1, TimerSteps, PTL

(***************************************************************************)
(* Every open connection has a timer that will close it, also when its     *)
(* descriptor was closed by a worker and handed out again; until a call of *)
(* the list gets stuck, tick() reaches that timer from head.               *)
(***************************************************************************)
THEOREM NoLeakedDescriptor == Spec => []TimerGuards
<1>1. TimerInv => TimerGuards
  <2> SUFFICES ASSUME TimerInv, NEW c \in open
               PROVE  Guarded(c) /\ (status = "running" => timer[c] \in Linked)
    BY DEF TimerGuards, Guarded
  <2>1. Guarded(c)
    BY DEF TimerInv, GuardInv
  <2>2. WellFormed
    BY FollowsWellFormed DEF TimerInv, ListInv, TypeOK
  <2> QED
    BY <2>1, <2>2 DEF Guarded, WellFormed
<1> QED
  BY <1>1, TimerSteps, PTL

(***************************************************************************)
(* The methods of the list, called as the event loop calls them, hang or   *)
(* crash only on a list whose last timer leads on, or where deal_timer     *)
(* deletes the only timer.                                                 *)
(***************************************************************************)
THEOREM StuckOnlyAlways == Spec => StuckOnly
<1>1. Kept => (status = "running" /\ status' # "running" =>
                   TailLeadsOn \/ \E t \in live : live = {t} /\ del_timer(t))
  BY DEF Kept, StuckStep
<1>2. UNCHANGED vars => UNCHANGED listvars
  BY DEF vars, timing
<1> QED
  BY <1>1, <1>2, TimerSteps, PTL DEF StuckOnly

(***************************************************************************)
(* A tick that returns has fired every timer that was due, however many    *)
(* timers there are and wherever adjust_timer has put them.                *)
(***************************************************************************)
THEOREM TickCompleteAlways == Spec => TickComplete
<1>1. TimerInv /\ [Next]_vars => (main = "tick" /\ main' # "tick" => \A t \in live : expire[t] > 0)
  <2> SUFFICES ASSUME TimerInv, [Next]_vars, main = "tick", main' # "tick"
               PROVE  \A t \in live : expire[t] > 0
    OBVIOUS
  <2>1. ASSUME NEW w \in Workers, WorkerStep(w) PROVE main' = main
    BY <2>1 DEF WorkerStep, WorkerTakes, WorkerReads, WorkerWrites, WorkerFinishes, WorkerFlags,
       WorkerProcesses, WorkerFails, WorkerCloses, WorkerCounts, WorkerRearms, server
  <2>2. status = "running" /\ MainStep
    BY <2>1 DEF Next, TimePasses, vars, server
  <2>3. TickEnds
    BY <2>2 DEF MainStep, EpollWait, AcceptNone, Accepts, Accept, SpinFinish, SpinFlag, EndBatch,
       TickFires, TickCrashes, HandleHup, ProactorRead, ProactorWrite, Dispatch, Handles, server
  <2> QED
    BY <2>2, <2>3, TickEndsHead
<1> QED
  BY <1>1, TimerSteps, PTL DEF Spec, TickComplete

-----------------------------------------------------------------------------
(***************************************************************************)
(* The handshake of reactor mode in WebServer, proved for any number of    *)
(* workers and descriptors and any bound of the pool.                      *)
(*                                                                         *)
(* Handshake counts tasks; the inductive invariant says where the one task *)
(* is: in the queue or with one worker. It also shows that the bound of    *)
(* the pool never refuses the task, as the queue is empty then.            *)
(***************************************************************************)

InQueue == queue = <<sockfd>> /\ Unanswered = {}
WithWorker == queue = <<>> /\ \E w \in Workers : Unanswered = {w} /\ request[w] = sockfd
NoTask == queue = <<>> /\ Unanswered = {}

HandshakeInv ==
    m_actormodel = "Reactor" =>
        /\ Waiting => InQueue \/ WithWorker
        /\ ~Waiting => NoTask
        /\ \A c \in Fds : improv[c] = "Event_Finish" => Spinning /\ c = sockfd

\* What the steps that leave the pool alone preserve.
LEMMA HandshakeFrame ==
    ASSUME HandshakeInv, UNCHANGED <<m_actormodel, queue, pc, request, improv>>,
           \/ UNCHANGED <<main, sockfd>>
           \/ main \notin {"spin", "flag"} /\ main' \notin {"spin", "flag"}
    PROVE  HandshakeInv'
BY DEF HandshakeInv, Waiting, InQueue, WithWorker, NoTask, Unanswered, Spinning

\* A worker moves on without answering a task.
LEMMA UnansweredFrame ==
    ASSUME TypeOK, HandshakeInv, NEW w \in Workers, NEW label, pc' = [pc EXCEPT ![w] = label],
           pc[w] \in {"taken", "read", "written", "failed"} <=> label \in {"taken", "read", "written", "failed"},
           \A v \in Unanswered : request'[v] = request[v],
           UNCHANGED <<m_actormodel, main, sockfd, queue, improv>>
    PROVE  HandshakeInv'
<1>1. Unanswered' = Unanswered
  BY DEF TypeOK, Unanswered
<1>2. Waiting' <=> Waiting
  BY DEF Waiting
<1>3. WithWorker => WithWorker'
  BY <1>1 DEF WithWorker
<1> QED
  BY <1>1, <1>2, <1>3 DEF HandshakeInv, InQueue, NoTask, Spinning

LEMMA HandshakeInit == Init => HandshakeInv
BY DEF Init, HandshakeInv, Waiting, NoTask, Unanswered

LEMMA HandshakeMain ==
    ASSUME TypeOK, HandshakeInv, MainStep
    PROVE  HandshakeInv'
<1>1. CASE EpollWait \/ AcceptNone \/ EndBatch \/ TickFires \/ TickEnds \/ TickCrashes
  BY <1>1, HandshakeFrame DEF EpollWait, AcceptNone, Accepts, EndBatch, TickFires, TickEnds, TickCrashes,
     server, pool, conns
<1>2. ASSUME NEW c \in Fds, HandleHup(c) PROVE HandshakeInv'
  BY <1>2, HandshakeFrame DEF HandleHup, Handles, pool, conns
<1>3. ASSUME NEW c \in Fds, ProactorRead(c) \/ ProactorWrite(c) PROVE HandshakeInv'
  BY <1>3 DEF ProactorRead, ProactorWrite, Handles, HandshakeInv
<1>4. ASSUME NEW c \in Fds, NEW t \in Timers, Accept(c, t) PROVE HandshakeInv'
  <2>1. /\ main \in {"batch", "accept"} /\ main' \in {"batch", "accept"}
        /\ improv' = [improv EXCEPT ![c] = "Event_Processing"]
    BY <1>4 DEF Accept, Accepts, AcceptsNext, Connects
  <2>2. UNCHANGED <<m_actormodel, sockfd, queue, pc, request>>
    BY <1>4 DEF Accept, Connects, pool
  <2>3. \A d \in Fds : improv'[d] = "Event_Finish" => improv[d] = "Event_Finish"
    BY <2>1 DEF TypeOK
  <2> QED
    BY <2>1, <2>2, <2>3 DEF HandshakeInv, Waiting, NoTask, Unanswered, Spinning
<1>5. ASSUME NEW c \in Fds, NEW x, NEW state, Dispatch(c, x, state) PROVE HandshakeInv'
  <2>1. CASE UNCHANGED <<queue, m_state, main, sockfd>>
    BY <1>5, <2>1, HandshakeFrame DEF Dispatch, Handles
  <2>2. CASE Queued(c) /\ main' = "spin" /\ sockfd' = c
    <3>1. /\ m_actormodel = "Reactor" /\ main = "batch" /\ UNCHANGED <<m_actormodel, pc, improv>>
      BY <1>5 DEF Dispatch, Handles
    <3>2. NoTask /\ \A d \in Fds : improv[d] = "Event_Processing"
      BY <3>1 DEF HandshakeInv, Waiting, Spinning, TypeOK
    <3>3. queue' = <<c>>
      <4>1. queue = <<>> /\ Accepting
        BY <3>2, WebServerAssumption DEF NoTask, Accepting
      <4> QED
        BY <2>2, <4>1 DEF Queued
    <3>4. Unanswered' = {}
      BY <3>1, <3>2 DEF NoTask, Unanswered
    <3>5. Waiting'
      BY <2>2, <3>1, <3>2 DEF Waiting
    <3> QED
      BY <2>2, <3>1, <3>2, <3>3, <3>4, <3>5 DEF HandshakeInv, InQueue
  <2> QED
    BY <1>5, <2>1, <2>2 DEF Dispatch
<1>6. CASE SpinFinish
  <2>1. /\ main = "spin" /\ main' = "flag" /\ improv[sockfd] = "Event_Finish"
        /\ UNCHANGED <<m_actormodel, sockfd, queue, pc, request, improv>>
    BY <1>6 DEF SpinFinish, pool, conns
  <2>2. ~Waiting /\ ~Waiting'
    BY <2>1 DEF Waiting
  <2> QED
    BY <2>1, <2>2 DEF HandshakeInv, NoTask, Unanswered, Spinning
<1>7. CASE SpinFlag
  <2>1. main = "flag" /\ UNCHANGED <<m_actormodel, queue, pc, request>>
    BY <1>7 DEF SpinFlag, pool
  <2>2. CASE UNCHANGED <<timer_flag, improv, main, sockfd>>
    BY <2>1, <2>2, HandshakeFrame
  <2>3. CASE main' = "batch" /\ improv' = [improv EXCEPT ![sockfd] = "Event_Processing"]
    <3>1. ~Waiting /\ ~Waiting'
      BY <2>1, <2>3 DEF Waiting
    <3>2. m_actormodel = "Reactor" => \A c \in Fds : improv'[c] # "Event_Finish"
      BY <2>3 DEF HandshakeInv, TypeOK
    <3> QED
      BY <2>1, <3>1, <3>2 DEF HandshakeInv, NoTask, Unanswered
  <2> QED
    BY <1>7, <2>2, <2>3 DEF SpinFlag
<1> QED
  BY <1>1, <1>2, <1>3, <1>4, <1>5, <1>6, <1>7 DEF MainStep

LEMMA HandshakeWorker ==
    ASSUME TypeOK, HandshakeInv, NEW w \in Workers, WorkerStep(w)
    PROVE  HandshakeInv'
<1>1. CASE m_actormodel # "Reactor"
  <2>1. UNCHANGED m_actormodel
    BY DEF WorkerStep, WorkerTakes, WorkerReads, WorkerWrites, WorkerFinishes, WorkerFlags,
           WorkerProcesses, WorkerFails, WorkerCloses, WorkerCounts, WorkerRearms, server
  <2> QED
    BY <1>1, <2>1 DEF HandshakeInv
<1>2. CASE m_actormodel = "Reactor"
  <2>1. CASE WorkerTakes(w)
    <3>1. /\ queue # <<>> /\ request' = [request EXCEPT ![w] = Head(queue)] /\ queue' = Tail(queue)
          /\ pc' = [pc EXCEPT ![w] = "taken"]
          /\ UNCHANGED <<m_actormodel, main, sockfd, improv>>
      BY <1>2, <2>1 DEF WorkerTakes, server, conns
    <3>2. Waiting /\ InQueue
      BY <1>2, <3>1 DEF HandshakeInv, NoTask, WithWorker
    <3>3. queue' = <<>> /\ request'[w] = sockfd
      <4>1. queue = <<sockfd>> /\ w \in DOMAIN request
        BY <3>2 DEF InQueue, TypeOK
      <4> QED
        BY <3>1, <4>1
    <3>4. Unanswered' = {w}
      BY <3>1, <3>2 DEF InQueue, Unanswered, TypeOK
    <3>5. Waiting' /\ WithWorker'
      BY <3>1, <3>2, <3>3, <3>4 DEF Waiting, WithWorker
    <3> QED
      BY <3>1, <3>5 DEF HandshakeInv, Spinning
  <2>2. CASE WorkerReads(w)
    <3>1. PICK label \in {"read", "failed"} : pc' = [pc EXCEPT ![w] = label]
      BY <2>2 DEF WorkerReads, Goto
    <3> QED
      BY <2>2, <3>1, UnansweredFrame DEF WorkerReads, Goto, server, conns
  <2>3. CASE WorkerWrites(w)
    <3>1. PICK label \in {"written", "failed"} : pc' = [pc EXCEPT ![w] = label]
      BY <2>3 DEF WorkerWrites, Goto
    <3> QED
      BY <2>3, <3>1, UnansweredFrame DEF WorkerWrites, Goto, server, conns
  <2>4. CASE WorkerFinishes(w)
    <3>1. /\ pc[w] \in {"read", "written", "failed"}
          /\ improv' = [improv EXCEPT ![request[w]] = "Event_Finish"]
          /\ \E label \in {"processing", "flagging", "idle"} : pc' = [pc EXCEPT ![w] = label]
          /\ UNCHANGED <<m_actormodel, main, sockfd, queue>>
      BY <2>4 DEF WorkerFinishes, Goto, Done, server
    <3>2. w \in Unanswered
      BY <3>1 DEF Unanswered
    <3>3. Waiting /\ queue = <<>> /\ Unanswered = {w} /\ request[w] = sockfd
      BY <1>2, <3>2 DEF HandshakeInv, NoTask, InQueue, WithWorker
    <3>4. main = "spin" /\ sockfd \in Fds /\ improv'[sockfd] = "Event_Finish"
      BY <3>1, <3>3 DEF Waiting, TypeOK
    <3>5. ~Waiting' /\ Spinning'
      BY <3>1, <3>4 DEF Waiting, Spinning
    <3>6. Unanswered' = {}
      BY <3>1, <3>3 DEF Unanswered, TypeOK
    <3>7. \A c \in Fds : improv'[c] = "Event_Finish" => c = sockfd
      BY <1>2, <3>1, <3>3 DEF HandshakeInv, TypeOK
    <3> QED
      BY <3>1, <3>3, <3>5, <3>6, <3>7 DEF HandshakeInv, NoTask
  <2>5. CASE WorkerFlags(w)
    <3>1. pc[w] = "flagging" /\ pc' = [pc EXCEPT ![w] = "idle"] /\ request' = [request EXCEPT ![w] = NoFd]
      BY <2>5 DEF WorkerFlags, Done
    <3>2. \A v \in Unanswered : request'[v] = request[v]
      BY <3>1 DEF Unanswered, TypeOK
    <3> QED
      BY <2>5, <3>1, <3>2, UnansweredFrame DEF WorkerFlags, server
  <2>6. CASE WorkerProcesses(w) \/ WorkerRearms(w)
    <3>1. /\ pc[w] \in {"processing", "rearming"} /\ pc' = [pc EXCEPT ![w] = "idle"]
          /\ request' = [request EXCEPT ![w] = NoFd]
      BY <2>6 DEF WorkerProcesses, WorkerRearms, Done
    <3>2. \A v \in Unanswered : request'[v] = request[v]
      BY <3>1 DEF Unanswered, TypeOK
    <3> QED
      BY <2>6, <3>1, <3>2, UnansweredFrame DEF WorkerProcesses, WorkerRearms, server, conns
  <2>7. CASE WorkerFails(w) \/ WorkerCloses(w) \/ WorkerCounts(w)
    <3>1. PICK label \in {"rearming", "closing", "closed"} :
            /\ pc[w] \in {"processing", "closing", "closed"} /\ pc' = [pc EXCEPT ![w] = label]
            /\ request' = request
      BY <2>7 DEF WorkerFails, WorkerCloses, WorkerCounts, Goto
    <3> QED
      BY <2>7, <3>1, UnansweredFrame DEF WorkerFails, WorkerCloses, WorkerCounts, server, conns
  <2> QED
    BY <2>1, <2>2, <2>3, <2>4, <2>5, <2>6, <2>7 DEF WorkerStep
<1> QED
  BY <1>1, <1>2

LEMMA HandshakeStep == TypeOK /\ HandshakeInv /\ [Next]_vars => HandshakeInv'
<1> SUFFICES ASSUME TypeOK, HandshakeInv, [Next]_vars PROVE HandshakeInv'
  OBVIOUS
<1>1. CASE UNCHANGED vars
  BY <1>1, HandshakeFrame DEF vars, server, pool, conns
<1>2. CASE TimePasses
  BY <1>2, HandshakeFrame DEF TimePasses, server, pool, conns
<1> QED
  BY <1>1, <1>2, HandshakeMain, HandshakeWorker DEF Next

LEMMA HandshakeImplied == TypeOK /\ HandshakeInv => Handshake
<1> SUFFICES ASSUME TypeOK, HandshakeInv, m_actormodel = "Reactor"
             PROVE  /\ Len(queue) + Cardinality(Unanswered) = IF Waiting THEN 1 ELSE 0
                    /\ \A i \in DOMAIN queue : queue[i] = sockfd
                    /\ \A w \in Unanswered : request[w] = sockfd
                    /\ \A c \in Fds : improv[c] = "Event_Finish" => main \in {"spin", "flag"} /\ c = sockfd
  BY DEF Handshake
<1>1. \A c \in Fds : improv[c] = "Event_Finish" => main \in {"spin", "flag"} /\ c = sockfd
  BY DEF HandshakeInv, Spinning
<1>2. Cardinality({}) = 0
  BY FS_EmptySet
<1>3. CASE ~Waiting
  BY <1>1, <1>2, <1>3 DEF HandshakeInv, NoTask
<1>4. CASE Waiting /\ InQueue
  <2>1. Len(queue) = 1 /\ \A i \in DOMAIN queue : queue[i] = sockfd
    BY <1>4 DEF InQueue
  <2> QED
    BY <1>1, <1>2, <1>4, <2>1 DEF InQueue
<1>5. CASE Waiting /\ WithWorker
  <2>1. PICK w \in Workers : Unanswered = {w} /\ request[w] = sockfd
    BY <1>5 DEF WithWorker
  <2>2. Cardinality(Unanswered) = 1
    BY <2>1, FS_Singleton
  <2>3. Len(queue) = 0 /\ DOMAIN queue = {}
    BY <1>5 DEF WithWorker
  <2> QED
    BY <1>1, <1>5, <2>1, <2>2, <2>3
<1> QED
  BY <1>3, <1>4, <1>5 DEF HandshakeInv

\* In reactor mode a task is with one worker or in the queue exactly while main
\* spins for it, and improv is set for no other connection.
THEOREM HandshakeHolds == Spec => []Handshake
<1>1. Init => TypeOK /\ HandshakeInv
  BY TimerInit, HandshakeInit DEF TimerInv
<1>2. TypeOK /\ HandshakeInv /\ [Next]_vars => HandshakeInv'
  BY HandshakeStep
<1> QED
  BY <1>1, <1>2, TypeCorrect, HandshakeImplied, PTL DEF Spec

-----------------------------------------------------------------------------
(***************************************************************************)
(* m_user_count of WebServer never exceeds the open connections, apart     *)
(* from those a worker is in the middle of closing. The bound is inductive *)
(* once the types are known: whoever closes a descriptor counts down, and  *)
(* a descriptor that was closed before only makes the count smaller.       *)
(***************************************************************************)

ClosedBy == {w \in Workers : pc[w] = "closed"}

\* The counts are numbers.
LEMMA CountsFinite ==
    ASSUME TypeOK
    PROVE  /\ IsFiniteSet(open) /\ Cardinality(open) \in Nat
           /\ IsFiniteSet(ClosedBy) /\ Cardinality(ClosedBy) \in Nat
           /\ m_user_count \in Int
<1>1. open \subseteq Fds /\ ClosedBy \subseteq Workers /\ m_user_count \in Int
  BY DEF TypeOK, ClosedBy
<1>2. IsFiniteSet(open) /\ IsFiniteSet(ClosedBy)
  BY <1>1, FS_Subset, WebServerAssumption
<1> QED
  BY <1>1, <1>2, FS_CardinalityType

\* Closing a descriptor that is open, or is not, takes away one at most.
LEMMA ClosingCount ==
    ASSUME TypeOK, NEW c, Closing(c)
    PROVE  Cardinality(open') \in Nat /\ Cardinality(open') >= Cardinality(open) - 1
<1>1. open' = open \ {c}
  BY DEF Closing
<1>2. IsFiniteSet(open) /\ Cardinality(open) \in Nat
  BY CountsFinite
<1>3. CASE c \in open
  <2>1. Cardinality(open') = Cardinality(open) - 1 /\ Cardinality(open') \in Nat
    BY <1>1, <1>2, <1>3, FS_RemoveElement, FS_CardinalityType
  <2> QED
    BY <1>2, <2>1
<1>4. CASE c \notin open
  <2>1. open' = open
    BY <1>1, <1>4
  <2> QED
    BY <1>2, <2>1
<1> QED
  BY <1>3, <1>4

\* Main closes and counts down.
LEMMA ClosingCounted ==
    ASSUME TypeOK, NeverOvercounts, NEW c, Closing(c), m_user_count' = m_user_count - 1, pc' = pc
    PROVE  NeverOvercounts'
<1>1. ClosedBy' = ClosedBy
  BY DEF ClosedBy
<1>2. /\ Cardinality(open) \in Nat /\ Cardinality(ClosedBy) \in Nat /\ m_user_count \in Int
      /\ Cardinality(open') \in Nat /\ Cardinality(open') >= Cardinality(open) - 1
  BY CountsFinite, ClosingCount
<1>3. m_user_count <= Cardinality(open) + Cardinality(ClosedBy)
  BY DEF NeverOvercounts, ClosedBy
<1>4. m_user_count' <= Cardinality(open') + Cardinality(ClosedBy')
  BY <1>1, <1>2, <1>3
<1> QED
  BY <1>4 DEF NeverOvercounts, ClosedBy

\* Nothing is closed, opened or counted.
LEMMA CountFrame ==
    ASSUME NeverOvercounts, m_user_count' = m_user_count, open' = open, ClosedBy' = ClosedBy
    PROVE  NeverOvercounts'
BY DEF NeverOvercounts, ClosedBy

LEMMA CountInit == Init => NeverOvercounts
<1> SUFFICES ASSUME Init PROVE NeverOvercounts
  OBVIOUS
<1>1. open = {} /\ ClosedBy = {} /\ m_user_count = 0
  BY DEF Init, ClosedBy
<1>2. Cardinality({}) = 0
  BY FS_EmptySet
<1> QED
  BY <1>1, <1>2 DEF NeverOvercounts, ClosedBy

LEMMA CountMain ==
    ASSUME TypeOK, NeverOvercounts, MainStep
    PROVE  NeverOvercounts'
<1>1. CASE EpollWait \/ AcceptNone \/ SpinFinish \/ EndBatch \/ TickEnds \/ TickCrashes
  BY <1>1, CountFrame DEF EpollWait, AcceptNone, SpinFinish, EndBatch, TickEnds, TickCrashes,
     pool, kernel, ClosedBy
<1>2. CASE SpinFlag
  <2>1. pc' = pc
    BY <1>2 DEF SpinFlag, pool
  <2>2. CASE DealTimer(sockfd)
    BY <2>1, <2>2, ClosingCounted DEF DealTimer
  <2>3. CASE UNCHANGED <<m_user_count, kernel>>
    BY <2>1, <2>3, CountFrame DEF kernel, ClosedBy
  <2> QED
    BY <1>2, <2>2, <2>3 DEF SpinFlag
<1>3. CASE TickFires
  BY <1>3, ClosingCounted DEF TickFires, pool
<1>4. ASSUME NEW c \in Fds, NEW t \in Timers, Accept(c, t) PROVE NeverOvercounts'
  <2>1. ClosedBy' = ClosedBy /\ open' = open \cup {c} /\ c \notin open /\ m_user_count' = m_user_count + 1
    BY <1>4 DEF Accept, Connects, pool, ClosedBy
  <2>2. /\ IsFiniteSet(open) /\ Cardinality(open) \in Nat /\ Cardinality(ClosedBy) \in Nat
        /\ m_user_count \in Int
    BY CountsFinite
  <2>3. Cardinality(open') = Cardinality(open) + 1
    BY <2>1, <2>2, FS_AddElement
  <2>4. m_user_count <= Cardinality(open) + Cardinality(ClosedBy)
    BY DEF NeverOvercounts, ClosedBy
  <2>5. m_user_count' <= Cardinality(open') + Cardinality(ClosedBy')
    BY <2>1, <2>2, <2>3, <2>4
  <2> QED
    BY <2>5 DEF NeverOvercounts, ClosedBy
<1>5. ASSUME NEW c \in Fds, HandleHup(c) PROVE NeverOvercounts'
  BY <1>5, ClosingCounted DEF HandleHup, DealTimer, pool
<1>6. ASSUME NEW c \in Fds, ProactorRead(c) \/ ProactorWrite(c) PROVE NeverOvercounts'
  <2>1. pc' = pc
    BY <1>6 DEF ProactorRead, ProactorWrite, pool
  <2>2. CASE DealTimer(c)
    BY <2>1, <2>2, ClosingCounted DEF DealTimer
  <2>3. CASE m_user_count' = m_user_count /\ open' = open
    BY <2>1, <2>3, CountFrame DEF ClosedBy
  <2> QED
    BY <1>6, <2>2, <2>3 DEF ProactorRead, ProactorWrite, kernel
<1>7. ASSUME NEW c \in Fds, NEW x, NEW state, Dispatch(c, x, state) PROVE NeverOvercounts'
  BY <1>7, CountFrame DEF Dispatch, kernel, ClosedBy
<1> QED
  BY <1>1, <1>2, <1>3, <1>4, <1>5, <1>6, <1>7 DEF MainStep

LEMMA CountWorker ==
    ASSUME TypeOK, NeverOvercounts, NEW w \in Workers, WorkerStep(w)
    PROVE  NeverOvercounts'
<1>1. m_user_count <= Cardinality(open) + Cardinality(ClosedBy)
  BY DEF NeverOvercounts, ClosedBy
<1>2. /\ IsFiniteSet(open) /\ Cardinality(open) \in Nat
      /\ IsFiniteSet(ClosedBy) /\ Cardinality(ClosedBy) \in Nat
      /\ m_user_count \in Int
  BY CountsFinite
<1>3. CASE WorkerCloses(w)
  <2>1. /\ m_user_count' = m_user_count /\ Closing(m_sockfd[request[w]])
        /\ pc[w] = "closing" /\ pc' = [pc EXCEPT ![w] = "closed"]
    BY <1>3 DEF WorkerCloses, Goto
  <2>2. ClosedBy' = ClosedBy \cup {w} /\ w \notin ClosedBy
    BY <2>1 DEF ClosedBy, TypeOK
  <2>3. Cardinality(ClosedBy') = Cardinality(ClosedBy) + 1
    BY <1>2, <2>2, FS_AddElement
  <2>4. Cardinality(open') \in Nat /\ Cardinality(open') >= Cardinality(open) - 1
    BY <2>1, ClosingCount
  <2>5. m_user_count' <= Cardinality(open') + Cardinality(ClosedBy')
    BY <1>1, <1>2, <2>1, <2>3, <2>4
  <2> QED
    BY <2>5 DEF NeverOvercounts, ClosedBy
<1>4. CASE WorkerCounts(w)
  <2>1. /\ m_user_count' = m_user_count - 1 /\ open' = open
        /\ pc[w] = "closed" /\ pc' = [pc EXCEPT ![w] = "rearming"]
    BY <1>4 DEF WorkerCounts, Goto, kernel
  <2>2. ClosedBy' = ClosedBy \ {w} /\ w \in ClosedBy
    BY <2>1 DEF ClosedBy, TypeOK
  <2>3. Cardinality(ClosedBy') = Cardinality(ClosedBy) - 1
    BY <1>2, <2>2, FS_RemoveElement
  <2>4. m_user_count' <= Cardinality(open') + Cardinality(ClosedBy')
    BY <1>1, <1>2, <2>1, <2>3
  <2> QED
    BY <2>4 DEF NeverOvercounts, ClosedBy
<1>5. ASSUME NEW label \in WorkerPC \ {"closed"}, pc[w] # "closed", pc' = [pc EXCEPT ![w] = label],
             m_user_count' = m_user_count, open' = open
      PROVE  NeverOvercounts'
  <2>1. ClosedBy' = ClosedBy
    BY <1>5 DEF ClosedBy, TypeOK
  <2> QED
    BY <1>5, <2>1, CountFrame
<1>6. CASE \/ WorkerTakes(w) \/ WorkerReads(w) \/ WorkerWrites(w) \/ WorkerFinishes(w)
           \/ WorkerFlags(w) \/ WorkerProcesses(w) \/ WorkerFails(w) \/ WorkerRearms(w)
  <2>1. /\ m_user_count' = m_user_count /\ open' = open /\ pc[w] # "closed"
        /\ \E label \in WorkerPC \ {"closed"} : pc' = [pc EXCEPT ![w] = label]
    BY <1>6 DEF WorkerTakes, WorkerReads, WorkerWrites, WorkerFinishes, WorkerFlags, WorkerProcesses,
       WorkerFails, WorkerRearms, Goto, Done, kernel, WorkerPC
  <2> QED
    BY <1>5, <2>1
<1> QED
  BY <1>3, <1>4, <1>6 DEF WorkerStep

LEMMA CountStep == TypeOK /\ NeverOvercounts /\ [Next]_vars => NeverOvercounts'
<1> SUFFICES ASSUME TypeOK, NeverOvercounts, [Next]_vars PROVE NeverOvercounts'
  OBVIOUS
<1>1. CASE UNCHANGED vars
  BY <1>1, CountFrame DEF vars, pool, kernel, ClosedBy
<1>2. CASE TimePasses
  BY <1>2, CountFrame DEF TimePasses, pool, kernel, ClosedBy
<1> QED
  BY <1>1, <1>2, CountMain, CountWorker DEF Next

\* m_user_count never exceeds the open connections and those being closed: at
\* the limit MAX_FD there really are that many, so nobody is refused for long.
THEOREM CountBound == Spec => []NeverOvercounts
<1> QED
  BY CountInit, CountStep, TypeCorrect, PTL DEF Spec

-----------------------------------------------------------------------------
(***************************************************************************)
(* The signals, for any size of the pipe. A step of ServerLife is a step   *)
(* of WebServer or leaves its variables alone, so that the invariants of   *)
(* WebServer hold and only the signals need one of their own.              *)
(***************************************************************************)

LEMMA LifeStepIsStep == [LifeNext]_lifevars => [Next]_vars
<1> SUFFICES ASSUME [LifeNext]_lifevars PROVE [Next]_vars
  OBVIOUS
<1>1. CASE AlarmRings \/ TermArrives \/ DealWithSignal \/ UNCHANGED lifevars
  BY <1>1 DEF AlarmRings, TermArrives, DealWithSignal, lifevars
<1>2. CASE LifeTime
  BY <1>2 DEF LifeTime, Next
<1>3. ASSUME NEW w \in Workers, LifeWorker(w) PROVE Next
  BY <1>3 DEF LifeWorker, Next
<1>4. CASE status = "running" /\ (LifeEpollWait \/ LifeEndBatch \/ LifeTickEnds)
  BY <1>4 DEF LifeEpollWait, LifeEndBatch, LifeTickEnds, Next, MainStep
<1>5. CASE status = "running" /\ OtherEvent
  BY <1>5 DEF OtherEvent, Next, MainStep
<1> QED
  BY <1>1, <1>2, <1>3, <1>4, <1>5 DEF LifeNext, LifeMain

Flags == /\ sigevent \in BOOLEAN /\ timeout \in BOOLEAN
         /\ stop_server \in BOOLEAN /\ running \in BOOLEAN

PipeType ==
    /\ alarm \in {"armed", "off"}
    /\ pipe \in [Signals -> Nat]
    /\ pipe["ALRM"] + pipe["TERM"] <= PipeSize

\* The alarm is set, or its signal unread, or the tick still to be done, and no
\* two of these: a SIGALRM that finds the pipe full finds it full of SIGTERM.
OneAlarm ==
    /\ Pending("ALRM") => alarm = "off" /\ ~timeout
    /\ timeout => alarm = "off"
    /\ main = "tick" => timeout

SignalInv == Flags /\ PipeType /\ OneAlarm /\ AlarmNeverLost

LEMMA SignalInit == LifeInit => SignalInv
<1> SUFFICES ASSUME LifeInit PROVE SignalInv
  OBVIOUS
<1>1. Flags
  BY Zenon DEF LifeInit, Flags
<1>2. /\ alarm = "armed" /\ timeout = FALSE /\ pipe = [sig \in Signals |-> 0]
      /\ pipe["ALRM"] = 0 /\ pipe["TERM"] = 0
  BY DEF LifeInit, Signals
<1>3. PipeType
  BY <1>2, PipeAssumption DEF PipeType
<1>4. OneAlarm /\ AlarmNeverLost
  BY <1>2 DEF OneAlarm, AlarmNeverLost, Pending, LifeInit, Init
<1> QED
  BY <1>1, <1>3, <1>4 DEF SignalInv

\* What the clock, the clients and the workers do leaves the signals alone, and
\* so do the events of a batch other than that of the pipe.
SignalAction ==
    \/ AlarmRings \/ TermArrives
    \/ running /\ (LifeEpollWait \/ DealWithSignal \/ LifeEndBatch \/ LifeTickEnds)

Unsignalled == UNCHANGED <<alarm, signals>> /\ (main' = "tick" => main = "tick")

LEMMA SignalFrame == [LifeNext]_lifevars => SignalAction \/ Unsignalled
<1> SUFFICES ASSUME [LifeNext]_lifevars PROVE SignalAction \/ Unsignalled
  OBVIOUS
<1> USE DEF Unsignalled
<1>1. CASE UNCHANGED lifevars
  BY <1>1 DEF lifevars, vars, server
<1>2. CASE LifeTime
  BY <1>2 DEF LifeTime, TimePasses, server
<1>3. CASE OtherEvent
  BY <1>3 DEF OtherEvent, AcceptNone, Accepts, AcceptsNext, SpinFinish, SpinFlag, TickFires,
     TickCrashes, Accept, HandleHup, ProactorRead, ProactorWrite, Dispatch, server
<1>4. ASSUME NEW w \in Workers, LifeWorker(w) PROVE Unsignalled
  BY <1>4 DEF LifeWorker, WorkerStep, WorkerTakes, WorkerReads, WorkerWrites, WorkerFinishes,
     WorkerFlags, WorkerProcesses, WorkerFails, WorkerCloses, WorkerCounts, WorkerRearms, server
<1>5. CASE LifeMain
  BY <1>3, <1>5, Zenon DEF LifeMain, SignalAction
<1>6. CASE AlarmRings \/ TermArrives
  BY <1>6 DEF SignalAction
<1> QED
  BY <1>1, <1>2, <1>4, <1>5, <1>6 DEF LifeNext

LEMMA FlagsStep == Flags /\ [LifeNext]_lifevars => Flags'
<1> SUFFICES ASSUME Flags, [LifeNext]_lifevars PROVE Flags'
  OBVIOUS
<1>1. CASE AlarmRings \/ TermArrives
  BY <1>1, Zenon DEF AlarmRings, TermArrives, Flags
<1>2. CASE LifeEpollWait
  BY <1>2, Zenon DEF LifeEpollWait, Flags
<1>3. CASE DealWithSignal
  BY <1>3, Zenon DEF DealWithSignal, Flags
<1>4. CASE LifeEndBatch
  BY <1>4, Zenon DEF LifeEndBatch, Flags
<1>5. CASE LifeTickEnds
  BY <1>5, Zenon DEF LifeTickEnds, Flags
<1>6. CASE Unsignalled
  BY <1>6, Zenon DEF Unsignalled, signals, Flags
<1> QED
  BY <1>1, <1>2, <1>3, <1>4, <1>5, <1>6, SignalFrame DEF SignalAction

LEMMA SignalStep == SignalInv /\ [LifeNext]_lifevars => SignalInv'
<1> SUFFICES ASSUME SignalInv, [LifeNext]_lifevars PROVE SignalInv'
  OBVIOUS
<1> USE PipeAssumption
<1>a. Flags /\ PipeType /\ OneAlarm /\ AlarmNeverLost /\ Flags'
  BY FlagsStep DEF SignalInv
<1>b. /\ "ALRM" \in Signals /\ "TERM" \in Signals /\ pipe["ALRM"] \in Nat /\ pipe["TERM"] \in Nat
  BY <1>a DEF PipeType, Signals
<1> DEFINE Goal == PipeType' /\ OneAlarm' /\ AlarmNeverLost'
<1>1. ASSUME AlarmRings PROVE Goal
  <2>0. main' = main /\ UNCHANGED <<timeout, stop_server, running>>
    BY <1>1 DEF AlarmRings, vars, server
  <2>a. ~timeout /\ ~Pending("ALRM")
    BY <1>1, <1>a DEF AlarmRings, OneAlarm
  <2>1. CASE PipeFull
    <3>1. pipe' = pipe /\ alarm = "armed" /\ alarm' = "off"
      BY <1>1, <2>1 DEF AlarmRings, SigHandler
    <3>2. Pending("TERM")
      BY <3>1, <2>1, <2>a, <1>b DEF Pending, PipeFull
    <3> QED
      BY <2>0, <2>a, <3>1, <3>2, <1>a DEF PipeType, OneAlarm, AlarmNeverLost, Pending
  <2>2. CASE ~PipeFull
    <3>1. pipe' = [pipe EXCEPT !["ALRM"] = @ + 1] /\ alarm' = "off"
      BY <1>1, <2>2 DEF AlarmRings, SigHandler
    <3>2. pipe' \in [Signals -> Nat] /\ pipe'["ALRM"] = pipe["ALRM"] + 1 /\ pipe'["TERM"] = pipe["TERM"]
      BY <3>1, <1>a, <1>b DEF PipeType
    <3> QED
      BY <2>0, <2>a, <3>1, <3>2, <2>2, <1>a, <1>b DEF PipeFull, PipeType, OneAlarm, AlarmNeverLost, Pending
  <2> QED
    BY <2>1, <2>2
<1>2. ASSUME TermArrives PROVE Goal
  <2>0. UNCHANGED <<main, alarm, timeout, stop_server, running>>
    BY <1>2 DEF TermArrives, vars, server
  <2>1. CASE PipeFull
    <3>1. pipe' = pipe
      BY <1>2, <2>1 DEF TermArrives, SigHandler
    <3> QED
      BY <2>0, <3>1, <1>a DEF PipeType, OneAlarm, AlarmNeverLost, Pending
  <2>2. CASE ~PipeFull
    <3>1. pipe' = [pipe EXCEPT !["TERM"] = @ + 1]
      BY <1>2, <2>2 DEF TermArrives, SigHandler
    <3>2. pipe' \in [Signals -> Nat] /\ pipe'["TERM"] = pipe["TERM"] + 1 /\ pipe'["ALRM"] = pipe["ALRM"]
      BY <3>1, <1>a, <1>b DEF PipeType
    <3> QED
      BY <2>0, <3>2, <2>2, <1>a, <1>b DEF PipeFull, PipeType, OneAlarm, AlarmNeverLost, Pending
  <2> QED
    BY <2>1, <2>2
<1>3. ASSUME LifeEpollWait PROVE Goal
  BY <1>3, <1>a DEF LifeEpollWait, EpollWait, PipeType, OneAlarm, AlarmNeverLost, Pending
<1>4. ASSUME DealWithSignal PROVE Goal
  <2>1. pipe' = [sig \in Signals |-> 0] /\ pipe'["ALRM"] = 0 /\ pipe'["TERM"] = 0
    BY <1>4, <1>b DEF DealWithSignal
  <2>2. PipeType'
    BY <2>1, <1>4, <1>a DEF DealWithSignal, PipeType
  <2>3. OneAlarm' /\ AlarmNeverLost'
    <3>1. alarm' = alarm /\ running' = running /\ main' = "batch"
      BY <1>4 DEF DealWithSignal, vars, server
    <3>2. /\ timeout' <=> timeout \/ Pending("ALRM")
          /\ stop_server' <=> stop_server \/ Pending("TERM")
      BY <1>4, <1>a, Zenon DEF DealWithSignal
    <3>3. ~Pending("ALRM")'
      BY <2>1 DEF Pending
    <3> QED
      BY <3>1, <3>2, <3>3, <1>a, Zenon DEF OneAlarm, AlarmNeverLost
  <2> QED
    BY <2>2, <2>3
<1>5. ASSUME running, LifeEndBatch PROVE Goal
  <2>1. UNCHANGED <<alarm, pipe, timeout, stop_server>> /\ running' = (timeout \/ ~stop_server)
    BY <1>5 DEF LifeEndBatch
  <2>2. main' = "tick" => timeout
    BY <1>5 DEF LifeEndBatch
  <2> QED
    BY <2>1, <2>2, <1>5, <1>a DEF PipeType, OneAlarm, AlarmNeverLost, Pending
<1>6. ASSUME LifeTickEnds PROVE Goal
  BY <1>6, <1>a DEF LifeTickEnds, TickEnds, PipeType, OneAlarm, AlarmNeverLost, Pending
<1>7. ASSUME Unsignalled PROVE Goal
  BY <1>7, <1>a DEF Unsignalled, signals, PipeType, OneAlarm, AlarmNeverLost, Pending
<1> HIDE DEF Goal
<1>8. Goal
  BY <1>1, <1>2, <1>3, <1>4, <1>5, <1>6, <1>7, SignalFrame, Zenon DEF SignalAction
<1> QED
  BY <1>8, <1>a DEF Goal, SignalInv

\* No SIGALRM that is dropped by the full pipe stops the timers for good.
THEOREM AlarmNotLost == LifeSpec => []AlarmNeverLost
<1>1. SignalInv => AlarmNeverLost
  BY DEF SignalInv
<1> QED
  BY <1>1, SignalInit, SignalStep, PTL DEF LifeSpec

(***************************************************************************)
(* Every variable of the signals keeps its type, and the pipe its bound.   *)
(***************************************************************************)
THEOREM LifeTypeCorrect == LifeSpec => []LifeTypeOK
<1>1. SignalInv => LifeTypeOK
  BY Zenon DEF SignalInv, Flags, PipeType, LifeTypeOK
<1> QED
  BY <1>1, SignalInit, SignalStep, PTL DEF LifeSpec

(***************************************************************************)
(* What was proved of the event loop holds when signals and time drive it. *)
(***************************************************************************)
COROLLARY ServerSafe ==
    LifeSpec => [](TypeOK /\ Handshake /\ TimerLive /\ TimerGuards /\ NeverOvercounts)
<1>1. LifeInit => Init
  BY DEF LifeInit
<1>2. LifeSpec => Spec
  BY <1>1, LifeStepIsStep, PTL DEF LifeSpec, Spec
<1> QED
  BY <1>2, TypeCorrect, HandshakeHolds, NoFreedTimer, NoLeakedDescriptor, CountBound, PTL
=============================================================================

----------------------------- MODULE WebServer -----------------------------
(***************************************************************************)
(* The event loop of src/src/webserver.cpp with the workers of the thread  *)
(* pool, the connections (HttpConn) they share with it, the timers and the *)
(* descriptors the kernel hands out again once they are closed.            *)
(*                                                                         *)
(* Main handles one event of an epoll_wait batch after the other. In       *)
(* reactor mode it queues the connection and spins on improv until a       *)
(* worker has answered; in proactor mode it reads and writes itself.       *)
(* Descriptors are closed by main (hang-up, failed read, timeout) and by   *)
(* workers (close_conn, when no response can be made); both count          *)
(* m_user_count down, and only main removes the timer.                     *)
(*                                                                         *)
(* The pool is the FIFO that TaskQueue specifies. The timers are the list  *)
(* of SortTimerList, pointers and all: a call that gets stuck there stops  *)
(* main ("hung") or the process ("crashed"). Every timer gets the same     *)
(* 3 * TIMESLOT, Span, and expire is counted from the present: a new timer *)
(* expires no earlier than any other, and it is due at 0, where it stays.  *)
(*                                                                         *)
(* The bytes of a request and what process() makes of them are             *)
(* nondeterministic, as is the result of write(), whose body is empty.     *)
(* Connected sockets are level triggered, as config.hpp configures them;   *)
(* the listening one is either.                                            *)
(***************************************************************************)
EXTENDS SortTimerList

CONSTANTS Workers,      \* the threads of the pool
          Fds,          \* the descriptors accept() may return
          Span,         \* 3 * TIMESLOT
          MAX_FD,       \* the limit of m_user_count
          MaxRequests,  \* m_max_requests of the pool
          m_listen_trig_mode,   \* of the listening socket: "LT" or "ET"
          MaxDrift,     \* bound: no accept once m_user_count is below -MaxDrift
          ListenFd,     \* m_listenfd
          NoFd,         \* -1 in m_sockfd
          NoTimer       \* an uninitialised client_data::timer

ASSUME WebServerAssumption ==
    /\ IsFiniteSet(Workers) /\ Workers # {}
    /\ IsFiniteSet(Fds) /\ ListenFd \notin Fds /\ NoFd \notin Fds
    /\ Span \in Nat \ {0} /\ NoTimer \notin Timers
    /\ m_listen_trig_mode \in {"LT", "ET"}
    /\ MAX_FD \in Nat /\ MaxDrift \in Nat /\ MaxRequests \in Nat \ {0}

VARIABLES
    m_actormodel,     \* "Reactor" or "Proactor"
    main,             \* where main is: "wait", "batch", "accept", "spin", "flag", "tick"
    batch,            \* the events of the last epoll_wait still to be handled
    sockfd,           \* the connection main spins on
    timer,            \* users_timer[fd].timer
    user_data,        \* the descriptor a timer closes
    queue,            \* the requests waiting in the pool
    pc,               \* where each worker is
    request,          \* the connection it works on
    improv, timer_flag, m_state, m_sockfd,   \* the fields of users[fd]
    m_user_count,
    open,             \* the client descriptors that are open
    interest,         \* what epoll watches them for
    hup               \* those whose peer has closed

server == <<m_actormodel, main, batch, sockfd>>
timing == <<listvars, timer, user_data>>
pool == <<queue, pc, request>>
conns == <<improv, timer_flag, m_state, m_sockfd>>
kernel == <<open, interest, hup>>
vars == <<server, timing, pool, conns, m_user_count, kernel>>

WorkerPC == {"idle", "taken", "read", "written", "failed", "flagging", "processing",
             "closing", "closed", "rearming"}

Init ==
    /\ m_actormodel \in {"Reactor", "Proactor"}
    /\ main = "wait" /\ batch = {} /\ sockfd = NoFd
    /\ ListInit
    /\ timer = [c \in Fds |-> NoTimer]
    /\ user_data = [t \in Timers |-> NoFd]
    /\ queue = <<>>
    /\ pc = [w \in Workers |-> "idle"]
    /\ request = [w \in Workers |-> NoFd]
    /\ improv = [c \in Fds |-> "Event_Processing"]
    /\ timer_flag = [c \in Fds |-> 0]
    /\ m_state = [c \in Fds |-> "Read_State"]
    /\ m_sockfd = [c \in Fds |-> NoFd]
    /\ m_user_count = 0
    /\ open = {} /\ hup = {}
    /\ interest = [c \in Fds |-> "off"]

(***************************************************************************)
(* The kernel and the clients.                                             *)
(***************************************************************************)
\* close(c), which takes c out of epoll; nothing happens when c is not open.
Closing(c) ==
    /\ open' = open \ {c}
    /\ hup' = hup \ {c}
    /\ interest' = [interest EXCEPT ![c] = "off"]

\* epoll_ctl(EPOLL_CTL_MOD) of whatever descriptor c is now; fails when it is closed.
Rearm(c, events) ==
    IF c \in open THEN interest' = [interest EXCEPT ![c] = events] ELSE UNCHANGED interest

-----------------------------------------------------------------------------
(***************************************************************************)
(* Main: eventLoop(), dealclientdata(), dealwithread(), dealwithwrite().   *)
(***************************************************************************)

Watched(c, events) == c \in open /\ interest[c] \in events

\* The events of the clients when those in gone have closed their end and those in
\* sent have sent something.
Ready(gone, sent) ==
    {<<c, "hup">> : c \in {x \in gone : Watched(x, {"in", "in once", "out once"})}}
    \cup {<<c, "in">> : c \in {x \in sent \ gone : Watched(x, {"in", "in once"})}}
    \cup {<<c, "out">> : c \in {x \in Fds \ gone : Watched(x, {"out once"})}}

\* epoll_wait() returns, with what the clients have done by then, which nobody else
\* looks at; the connections armed with EPOLLONESHOT are disarmed.
EpollWait ==
    /\ main = "wait"
    /\ \E gone \in {s \in SUBSET open : hup \subseteq s}, sent \in SUBSET open,
          new \in {{}, {<<ListenFd, "in">>}} :
        /\ hup' = gone
        /\ batch' = Ready(gone, sent) \cup new
    /\ interest' = [c \in Fds |->
                        IF interest[c] # "in" /\ \E e \in batch' : e[1] = c THEN "off" ELSE interest[c]]
    /\ main' = "batch"
    /\ UNCHANGED <<m_actormodel, sockfd, timing, pool, conns, m_user_count, open>>

Handles(c, event) ==
    /\ main = "batch"
    /\ <<c, event>> \in batch
    /\ batch' = batch \ {<<c, event>>}
    /\ UNCHANGED <<m_actormodel>>

\* dealclientdata() calls accept(): once for an event of the listening socket, or,
\* where it is edge triggered, again and again until there is nobody to accept.
Accepts ==
    \/ /\ main = "batch"
       /\ <<ListenFd, "in">> \in batch
       /\ batch' = batch \ {<<ListenFd, "in">>}
    \/ main = "accept" /\ UNCHANGED batch

AcceptsNext == main' = IF m_listen_trig_mode = "ET" THEN "accept" ELSE "batch"

\* timer(c, address), up to the timer: init() of users[c], and users_timer[c].
Connects(c, t) ==
    /\ c \notin open /\ t \notin live
    /\ m_user_count \in -MaxDrift..MAX_FD - 1
    /\ open' = open \cup {c}
    /\ interest' = [interest EXCEPT ![c] = "in"]
    /\ m_user_count' = m_user_count + 1
    /\ m_sockfd' = [m_sockfd EXCEPT ![c] = c]
    /\ m_state' = [m_state EXCEPT ![c] = "Read_State"]
    /\ timer_flag' = [timer_flag EXCEPT ![c] = 0]
    /\ improv' = [improv EXCEPT ![c] = "Event_Processing"]
    /\ timer' = [timer EXCEPT ![c] = t]
    /\ UNCHANGED <<pool, hup>>

\* What the new timer t is given before it is added.
SetUp(c, t) ==
    /\ live' = live \cup {t}
    /\ user_data' = [user_data EXCEPT ![t] = c]
    /\ expire' = [expire EXCEPT ![t] = Span]

\* Mutant: the new timer is not put in the list.
AcceptUntimed(c, t) ==
    /\ Accepts /\ AcceptsNext
    /\ Connects(c, t) /\ SetUp(c, t)
    /\ Writes(Fresh(t))
    /\ UNCHANGED <<m_actormodel, sockfd>>

\* Mutant: the new timer does not know its connection.
AcceptUnbound(c, t) ==
    /\ Accepts /\ AcceptsNext
    /\ Connects(c, t)
    /\ live' = live \cup {t}
    /\ expire' = [expire EXCEPT ![t] = Span]
    /\ add_timer(Fresh(t), live', t)
    /\ UNCHANGED <<m_actormodel, sockfd, user_data>>

\* accept() returns the descriptor c; it becomes a connection with a timer.
Accept(c, t) ==
    /\ Accepts /\ AcceptsNext
    /\ Connects(c, t) /\ SetUp(c, t)
    /\ add_timer(Fresh(t), live', t)
    /\ UNCHANGED <<m_actormodel, sockfd>>

\* accept() fails, or too many users: show_error closes the new descriptor. Either
\* ends the loop of the edge-triggered socket, whoever else is waiting.
AcceptNone ==
    /\ Accepts
    /\ main' = "batch"
    /\ UNCHANGED <<m_actormodel, sockfd, timing, pool, conns, m_user_count, kernel>>

\* What is left of user_data when a timer is freed.
Forgets == user_data' = [t \in Timers |-> IF t \in live' THEN user_data[t] ELSE NoFd]

\* Following a pointer to a timer that has been freed.
Dangles == Crashes(list) /\ UNCHANGED <<expire, live, user_data>>

\* Mutant: deal_timer does not count the connection down.
DealTimerUncounted(c) ==
    /\ Closing(c)
    /\ UNCHANGED m_user_count
    /\ \/ timer[c] \in live /\ del_timer(timer[c]) /\ Forgets
       \/ timer[c] \notin live /\ Dangles

\* deal_timer(timer, c): cb_func and del_timer.
DealTimer(c) ==
    /\ Closing(c)
    /\ m_user_count' = m_user_count - 1
    /\ \/ timer[c] \in live /\ del_timer(timer[c]) /\ Forgets
       \/ timer[c] \notin live /\ Dangles

\* adjust_timer(timer)
AdjustTimer(c) ==
    \/ /\ timer[c] \in live
       /\ expire' = [expire EXCEPT ![timer[c]] = Span]
       /\ adjust_timer(timer[c])
       /\ UNCHANGED <<live, user_data>>
    \/ timer[c] \notin live /\ Dangles

HandleHup(c) ==
    /\ Handles(c, "hup")
    /\ DealTimer(c)
    /\ UNCHANGED <<main, sockfd, timer, pool, conns>>

Accepting == Len(queue) <= MaxRequests

\* append_p, or append, whose result nobody looks at.
Queued(c) == queue' = IF Accepting THEN Append(queue, c) ELSE queue

\* Reactor: put the timer off, queue the connection, then spin.
Dispatch(c, event, state) ==
    /\ m_actormodel = "Reactor"
    /\ Handles(c, event)
    /\ AdjustTimer(c)
    /\ \/ /\ status' = "running"
          /\ Queued(c)
          /\ m_state' = IF Accepting THEN [m_state EXCEPT ![c] = state] ELSE m_state
          /\ main' = "spin"
          /\ sockfd' = c
       \/ status' # "running" /\ UNCHANGED <<queue, m_state, main, sockfd>>
    /\ UNCHANGED <<timer, pc, request, improv, timer_flag, m_sockfd, m_user_count, kernel>>

SpinFinish ==
    /\ main = "spin"
    /\ improv[sockfd] = "Event_Finish"
    /\ main' = "flag"
    /\ UNCHANGED <<m_actormodel, batch, sockfd, timing, pool, conns, m_user_count, kernel>>

\* Mutant: improv is not reset for the next event.
SpinNoReset ==
    /\ main = "flag"
    /\ \/ timer_flag[sockfd] = 1 /\ DealTimer(sockfd)
       \/ timer_flag[sockfd] = 0 /\ UNCHANGED <<listvars, user_data, m_user_count, kernel>>
    /\ \/ /\ status' = "running"
          /\ timer_flag' = [timer_flag EXCEPT ![sockfd] = 0]
          /\ main' = "batch"
          /\ sockfd' = NoFd
       \/ status' # "running" /\ UNCHANGED <<timer_flag, main, sockfd>>
    /\ UNCHANGED <<m_actormodel, batch, timer, pool, improv, m_state, m_sockfd>>

\* The worker has answered: main looks at the flag and leaves the loop.
SpinFlag ==
    /\ main = "flag"
    /\ \/ timer_flag[sockfd] = 1 /\ DealTimer(sockfd)
       \/ timer_flag[sockfd] = 0 /\ UNCHANGED <<listvars, user_data, m_user_count, kernel>>
    /\ \/ /\ status' = "running"
          /\ timer_flag' = [timer_flag EXCEPT ![sockfd] = 0]
          /\ improv' = [improv EXCEPT ![sockfd] = "Event_Processing"]
          /\ main' = "batch"
          /\ sockfd' = NoFd
       \/ status' # "running" /\ UNCHANGED <<timer_flag, improv, main, sockfd>>
    /\ UNCHANGED <<m_actormodel, batch, timer, pool, m_state, m_sockfd>>

\* read_once() may succeed. It may always fail: another thread has read what there
\* was, or the buffer is full, as m_read_idx is never reset during a connection.
Receives(c) == m_sockfd[c] = c /\ c \in open

\* Proactor: main reads and queues the request, or closes the connection.
ProactorRead(c) ==
    /\ m_actormodel = "Proactor"
    /\ Handles(c, "in")
    /\ \/ /\ Receives(c)
          /\ Queued(c)
          /\ AdjustTimer(c)
          /\ UNCHANGED <<m_user_count, kernel>>
       \/ DealTimer(c) /\ UNCHANGED queue
    /\ UNCHANGED <<main, sockfd, timer, pc, request, conns>>

\* Proactor: write() may answer anything.
ProactorWrite(c) ==
    /\ m_actormodel = "Proactor"
    /\ Handles(c, "out")
    /\ \/ AdjustTimer(c) /\ UNCHANGED <<m_user_count, kernel>>
       \/ DealTimer(c)
    /\ UNCHANGED <<main, sockfd, timer, pool, conns>>

\* The batch is done; a SIGALRM may have been read from the pipe.
EndBatch ==
    /\ main = "batch"
    /\ batch = {}
    /\ main' \in {"wait", "tick"}
    /\ UNCHANGED <<m_actormodel, batch, sockfd, timing, pool, conns, m_user_count, kernel>>

\* Mutant: tick() frees the timer and leaves its connection alone.
FreesOnly ==
    /\ main = "tick"
    /\ tick_fires(0) /\ Forgets
    /\ UNCHANGED <<server, timer, pool, conns, m_user_count, kernel>>

\* tick() runs cb_func of the first timer and frees it.
TickFires ==
    /\ main = "tick"
    /\ tick_fires(0) /\ Forgets
    /\ Closing(user_data[list.head])
    /\ m_user_count' = m_user_count - 1
    /\ UNCHANGED <<server, timer, pool, conns>>

TickEnds ==
    /\ main = "tick"
    /\ tick_ends(0)
    /\ main' = "wait"
    /\ UNCHANGED <<m_actormodel, batch, sockfd, timer, user_data, pool, conns, m_user_count, kernel>>

TickCrashes ==
    /\ main = "tick"
    /\ tick_crashes
    /\ UNCHANGED <<server, timer, user_data, pool, conns, m_user_count, kernel>>

\* A second passes. tick() reads the time once: what becomes due while it runs
\* is left for the next one, so that the clock may wait.
TimePasses ==
    /\ main # "tick"
    /\ \E t \in live : expire[t] > 0
    /\ expire' = [t \in Timers |-> IF expire[t] > 0 THEN expire[t] - 1 ELSE 0]
    /\ UNCHANGED <<server, list, live, status, timer, user_data, pool, conns, m_user_count, kernel>>

-----------------------------------------------------------------------------
(***************************************************************************)
(* The workers: run() of the pool from line 134, and HttpConn.             *)
(***************************************************************************)
Goto(w, label) == pc' = [pc EXCEPT ![w] = label] /\ UNCHANGED request

\* Back to the top of the loop, where the local request is gone.
Done(w) == pc' = [pc EXCEPT ![w] = "idle"] /\ request' = [request EXCEPT ![w] = NoFd]

WorkerTakes(w) ==
    /\ pc[w] = "idle"
    /\ queue # <<>>
    /\ request' = [request EXCEPT ![w] = Head(queue)]
    /\ queue' = Tail(queue)
    /\ pc' = [pc EXCEPT ![w] = IF m_actormodel = "Reactor" THEN "taken" ELSE "processing"]
    /\ UNCHANGED <<server, timing, conns, m_user_count, kernel>>

WorkerReads(w) ==
    /\ pc[w] = "taken"
    /\ m_state[request[w]] = "Read_State"
    /\ \/ Receives(request[w]) /\ Goto(w, "read")
       \/ Goto(w, "failed")
    /\ UNCHANGED <<server, timing, queue, conns, m_user_count, kernel>>

WorkerWrites(w) ==
    /\ pc[w] = "taken"
    /\ m_state[request[w]] = "Write_State"
    /\ \E ok \in BOOLEAN : Goto(w, IF ok THEN "written" ELSE "failed")
    /\ UNCHANGED <<server, timing, queue, conns, m_user_count, kernel>>

\* Mutant: a failed task is not answered.
FinishSuccessOnly(w) ==
    /\ pc[w] \in {"read", "written", "failed"}
    /\ improv' = IF pc[w] = "failed" THEN improv ELSE [improv EXCEPT ![request[w]] = "Event_Finish"]
    /\ \/ pc[w] = "read" /\ Goto(w, "processing")
       \/ pc[w] = "written" /\ Done(w)
       \/ pc[w] = "failed" /\ Goto(w, "flagging")
    /\ UNCHANGED <<server, timing, queue, timer_flag, m_state, m_sockfd, m_user_count, kernel>>

\* improv = Event_Finish, the first thing in each of the four branches.
WorkerFinishes(w) ==
    /\ pc[w] \in {"read", "written", "failed"}
    /\ improv' = [improv EXCEPT ![request[w]] = "Event_Finish"]
    /\ \/ pc[w] = "read" /\ Goto(w, "processing")
       \/ pc[w] = "written" /\ Done(w)
       \/ pc[w] = "failed" /\ Goto(w, "flagging")
    /\ UNCHANGED <<server, timing, queue, timer_flag, m_state, m_sockfd, m_user_count, kernel>>

\* timer_flag = 1, the second.
WorkerFlags(w) ==
    /\ pc[w] = "flagging"
    /\ timer_flag' = [timer_flag EXCEPT ![request[w]] = 1]
    /\ Done(w)
    /\ UNCHANGED <<server, timing, queue, improv, m_state, m_sockfd, m_user_count, kernel>>

\* process() needs more input or has made a response, and arms the descriptor.
WorkerProcesses(w) ==
    /\ pc[w] = "processing"
    /\ \E events \in {"in once", "out once"} : Rearm(m_sockfd[request[w]], events)
    /\ Done(w)
    /\ UNCHANGED <<server, timing, queue, conns, m_user_count, open, hup>>

\* process_write failed: close_conn tests m_sockfd.
WorkerFails(w) ==
    /\ pc[w] = "processing"
    /\ Goto(w, IF m_sockfd[request[w]] = NoFd THEN "rearming" ELSE "closing")
    /\ UNCHANGED <<server, timing, queue, conns, m_user_count, kernel>>

\* removefd
WorkerCloses(w) ==
    /\ pc[w] = "closing"
    /\ Closing(m_sockfd[request[w]])
    /\ Goto(w, "closed")
    /\ UNCHANGED <<server, timing, queue, conns, m_user_count>>

\* The rest of close_conn.
WorkerCounts(w) ==
    /\ pc[w] = "closed"
    /\ m_sockfd' = [m_sockfd EXCEPT ![request[w]] = NoFd]
    /\ m_user_count' = m_user_count - 1
    /\ Goto(w, "rearming")
    /\ UNCHANGED <<server, timing, queue, improv, timer_flag, m_state, kernel>>

\* modfd of m_sockfd, which may be the next client's by now.
WorkerRearms(w) ==
    /\ pc[w] = "rearming"
    /\ Rearm(m_sockfd[request[w]], "out once")
    /\ Done(w)
    /\ UNCHANGED <<server, timing, queue, conns, m_user_count, open, hup>>

-----------------------------------------------------------------------------

MainStep ==
    \/ EpollWait \/ AcceptNone \/ SpinFinish \/ SpinFlag \/ EndBatch
    \/ TickFires \/ TickEnds \/ TickCrashes
    \/ \E c \in Fds, t \in Timers : Accept(c, t)
    \/ \E c \in Fds :
        \/ HandleHup(c) \/ ProactorRead(c) \/ ProactorWrite(c)
        \/ Dispatch(c, "in", "Read_State") \/ Dispatch(c, "out", "Write_State")

WorkerStep(w) ==
    \/ WorkerTakes(w) \/ WorkerReads(w) \/ WorkerWrites(w) \/ WorkerFinishes(w)
    \/ WorkerFlags(w) \/ WorkerProcesses(w) \/ WorkerFails(w) \/ WorkerCloses(w)
    \/ WorkerCounts(w) \/ WorkerRearms(w)

\* A main that hangs leaves the workers running; a crash is undefined behaviour,
\* and nothing is said of what follows.
Next ==
    \/ status = "running" /\ (MainStep \/ TimePasses)
    \/ status # "crashed" /\ \E w \in Workers : WorkerStep(w)

Spec == Init /\ [][Next]_vars

-----------------------------------------------------------------------------

\* Types; every timer that is allocated knows its connection.
TypeOK ==
    /\ m_actormodel \in {"Reactor", "Proactor"}
    /\ main \in {"wait", "batch", "accept", "spin", "flag", "tick"}
    /\ batch \subseteq (Fds \X {"in", "out", "hup"}) \cup {<<ListenFd, "in">>}
    /\ sockfd \in Fds \cup {NoFd}
    /\ main \in {"spin", "flag"} => sockfd \in Fds
    /\ ListTypeOK
    /\ timer \in [Fds -> Timers \cup {NoTimer}]
    /\ user_data \in [Timers -> Fds \cup {NoFd}]
    /\ \A t \in live : expire[t] <= Span /\ user_data[t] \in Fds
    /\ queue \in Seq(Fds)
    /\ pc \in [Workers -> WorkerPC]
    /\ request \in [Workers -> Fds \cup {NoFd}]
    /\ \A w \in Workers : pc[w] # "idle" => request[w] \in Fds
    /\ improv \in [Fds -> {"Event_Processing", "Event_Finish"}]
    /\ timer_flag \in [Fds -> {0, 1}]
    /\ m_state \in [Fds -> {"Read_State", "Write_State"}]
    /\ m_sockfd \in [Fds -> Fds \cup {NoFd}]
    /\ m_user_count \in Int
    /\ open \subseteq Fds /\ hup \subseteq open
    /\ interest \in [Fds -> {"in", "in once", "out once", "off"}]

\* The workers whose task has not been answered.
Unanswered == {w \in Workers : pc[w] \in {"taken", "read", "written", "failed"}}

(***************************************************************************)
(* The handshake of reactor mode: a task is unanswered exactly while main  *)
(* spins without an answer, it is the one main spins on, and it is one;    *)
(* an answer is there only for the spin it belongs to.                     *)
(***************************************************************************)
Waiting == main = "spin" /\ improv[sockfd] = "Event_Processing"

Handshake ==
    m_actormodel = "Reactor" =>
        /\ Len(queue) + Cardinality(Unanswered) = IF Waiting THEN 1 ELSE 0
        /\ \A i \in DOMAIN queue : queue[i] = sockfd
        /\ \A w \in Unanswered : request[w] = sockfd
        /\ \A c \in Fds : improv[c] = "Event_Finish" => main \in {"spin", "flag"} /\ c = sockfd

\* The pointer in users_timer that main follows next is never one to a freed timer,
\* in a batch that is stale or after a spin.
TimerLive ==
    /\ \A e \in batch : e[1] \in Fds => timer[e[1]] \in live
    /\ main \in {"spin", "flag"} => timer[sockfd] \in live

\* No descriptor leaks: an open connection has a timer of its own and, as long as
\* no call got stuck, tick() gets there: it is linked from head.
TimerGuards ==
    \A c \in open :
        /\ timer[c] \in live /\ user_data[timer[c]] = c
        /\ status = "running" => timer[c] \in Linked

\* m_user_count is never above the number of connections, so that the limit
\* MAX_FD refuses nobody for long; a worker inside close_conn is the exception.
NeverOvercounts ==
    m_user_count <= Cardinality(open) + Cardinality({w \in Workers : pc[w] = "closed"})

(***************************************************************************)
(* A tick that returns has fired every timer that was due when it began,   *)
(* also after adjust_timer has led the last timer back into the list.      *)
(***************************************************************************)
TickComplete == [][main = "tick" /\ main' # "tick" => \A t \in live : expire[t] > 0]_vars

(***************************************************************************)
(* improv is "the mark that the task is complete" and timer_flag "whether  *)
(* the timer must be deleted": main reads the flag when the worker is done *)
(* with it.                                                                *)
(***************************************************************************)
FlagInTime ==
    [][SpinFlag => \A w \in Workers : pc[w] = "flagging" => request[w] # sockfd]_vars

(***************************************************************************)
(* The comment at cb_func: "closes one connection, the number of clients   *)
(* goes down by one".                                                      *)
(***************************************************************************)
Quiet == main = "wait" /\ queue = <<>> /\ \A w \in Workers : pc[w] = "idle"

UserCount == Quiet => m_user_count = Cardinality(open)
=============================================================================

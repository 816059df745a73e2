---------------------------- MODULE ThreadPool -----------------------------
(***************************************************************************)
(* ThreadPool<T> of src/src/threadpool/threadpool.hpp: append and append_p *)
(* on the caller's side, run() on the workers' side, over a std::list      *)
(* guarded by m_queuelocker and counted by the semaphore m_queuestat.      *)
(*                                                                         *)
(* Each step is one operation another thread can observe: taking and       *)
(* releasing the mutex, front() and pop_front() (two calls, kept apart so  *)
(* that the mutex has something to protect), sem_post and sem_wait.        *)
(* sem_wait may also return with EINTR, because SIGALRM and SIGTERM are    *)
(* installed without SA_RESTART; sem::wait then returns false and run()    *)
(* goes on without looking at it.                                          *)
(*                                                                         *)
(* What a worker does with the task it took (the calls into HttpConn and   *)
(* the database pool) is the single step Execute here.                     *)
(***************************************************************************)
EXTENDS Integers, Sequences, FiniteSets

CONSTANTS Workers,      \* the detached threads that run()
          Producers,    \* the threads that append (the server has one, main)
          Requests,     \* the T* objects; one may be queued several times
          MaxRequests,  \* m_max_requests
          NoThread,     \* "nobody" as holder of the mutex
          NoRequest     \* an uninitialised T* request

ASSUME PoolAssumption ==
    /\ IsFiniteSet(Workers) /\ Workers # {}
    /\ IsFiniteSet(Producers)
    /\ Workers \cap Producers = {}
    /\ NoThread \notin Workers \cup Producers
    /\ NoRequest \notin Requests
    /\ MaxRequests \in Nat \ {0}

VARIABLES m_workqueue,    \* the list of waiting requests, oldest first
          m_queuelocker,  \* the thread that holds the mutex, or NoThread
          m_queuestat,    \* the value of the semaphore
          m_state,        \* HttpConn::m_state of each request
          pc,             \* where each thread is in append or run
          request,        \* the argument of append, the local of run
          state           \* the state argument of append, NoState in append_p

vars == <<m_workqueue, m_queuelocker, m_queuestat, m_state, pc, request, state>>

Threads == Producers \cup Workers

RequestStates == {"Read_State", "Write_State"}
NoState == "no state argument"

ProducerPC == {"idle", "appending", "pushed", "posting"}
WorkerPC == {"waiting", "blocked", "woken", "holding", "front", "popped", "executing"}

\* The program counters at which a thread is between lock() and unlock().
Critical == {"appending", "pushed", "holding", "front", "popped"}

Goto(t, label) == pc' = [pc EXCEPT ![t] = label]

Init ==
    /\ m_workqueue = <<>>
    /\ m_queuelocker = NoThread
    /\ m_queuestat = 0
    /\ m_state = [r \in Requests |-> "Read_State"]
    /\ pc = [t \in Threads |-> IF t \in Producers THEN "idle" ELSE "waiting"]
    /\ request = [t \in Threads |-> NoRequest]
    /\ state = [p \in Producers |-> NoState]

(***************************************************************************)
(* append(request, state) and, with s = NoState, append_p(request).        *)
(***************************************************************************)
AppendLock(p, r, s) ==
    /\ pc[p] = "idle"
    /\ m_queuelocker = NoThread
    /\ m_queuelocker' = p
    /\ request' = [request EXCEPT ![p] = r]
    /\ state' = [state EXCEPT ![p] = s]
    /\ Goto(p, "appending")
    /\ UNCHANGED <<m_workqueue, m_queuestat, m_state>>

QueueFull == Len(m_workqueue) > MaxRequests

\* The early return: unlock and refuse.
AppendFull(p) ==
    /\ pc[p] = "appending"
    /\ QueueFull
    /\ m_queuelocker' = NoThread
    /\ Goto(p, "idle")
    /\ UNCHANGED <<m_workqueue, m_queuestat, m_state, request, state>>

AppendPush(p) ==
    /\ pc[p] = "appending"
    /\ ~QueueFull
    /\ m_workqueue' = Append(m_workqueue, request[p])
    /\ m_state' = IF state[p] = NoState THEN m_state
                  ELSE [m_state EXCEPT ![request[p]] = state[p]]
    /\ Goto(p, "pushed")
    /\ UNCHANGED <<m_queuelocker, m_queuestat, request, state>>

AppendUnlock(p) ==
    /\ pc[p] = "pushed"
    /\ m_queuelocker' = NoThread
    /\ Goto(p, "posting")
    /\ UNCHANGED <<m_workqueue, m_queuestat, m_state, request, state>>

\* Mutant: the semaphore is posted only on the empty-to-nonempty edge.
PostOnEdge(p) ==
    /\ pc[p] = "posting"
    /\ m_queuestat' = IF Len(m_workqueue) = 1 THEN m_queuestat + 1 ELSE m_queuestat
    /\ Goto(p, "idle")
    /\ UNCHANGED <<m_workqueue, m_queuelocker, m_state, request, state>>

AppendPost(p) ==
    /\ pc[p] = "posting"
    /\ m_queuestat' = m_queuestat + 1
    /\ Goto(p, "idle")
    /\ UNCHANGED <<m_workqueue, m_queuelocker, m_state, request, state>>

(***************************************************************************)
(* run()                                                                   *)
(***************************************************************************)

\* Mutant: a wait that does not block at zero.
WaitUnblocked(w) ==
    /\ pc[w] \in {"waiting", "blocked"}
    /\ m_queuestat' = m_queuestat - 1
    /\ Goto(w, "woken")
    /\ UNCHANGED <<m_workqueue, m_queuelocker, m_state, request, state>>

RunWait(w) ==
    /\ pc[w] \in {"waiting", "blocked"}
    /\ m_queuestat > 0
    /\ m_queuestat' = m_queuestat - 1
    /\ Goto(w, "woken")
    /\ UNCHANGED <<m_workqueue, m_queuelocker, m_state, request, state>>

RunBlock(w) ==
    /\ pc[w] = "waiting"
    /\ m_queuestat = 0
    /\ Goto(w, "blocked")
    /\ UNCHANGED <<m_workqueue, m_queuelocker, m_queuestat, m_state, request, state>>

\* A signal handler ran on w while it was blocked: sem_wait returns EINTR, even
\* when the semaphore has been posted in the meantime.
RunInterrupted(w) ==
    /\ pc[w] = "blocked"
    /\ Goto(w, "woken")
    /\ UNCHANGED <<m_workqueue, m_queuelocker, m_queuestat, m_state, request, state>>

\* Mutant: the workers do not exclude one another.
LockWithoutMutex(w) ==
    /\ pc[w] = "woken"
    /\ m_queuelocker \notin Producers
    /\ m_queuelocker' = w
    /\ Goto(w, "holding")
    /\ UNCHANGED <<m_workqueue, m_queuestat, m_state, request, state>>

RunLock(w) ==
    /\ pc[w] = "woken"
    /\ m_queuelocker = NoThread
    /\ m_queuelocker' = w
    /\ Goto(w, "holding")
    /\ UNCHANGED <<m_workqueue, m_queuestat, m_state, request, state>>

\* Nothing queued: unlock and continue.
RunEmpty(w) ==
    /\ pc[w] = "holding"
    /\ m_workqueue = <<>>
    /\ m_queuelocker' = NoThread
    /\ Goto(w, "waiting")
    /\ UNCHANGED <<m_workqueue, m_queuestat, m_state, request, state>>

RunFront(w) ==
    /\ pc[w] = "holding"
    /\ m_workqueue # <<>>
    /\ request' = [request EXCEPT ![w] = Head(m_workqueue)]
    /\ Goto(w, "front")
    /\ UNCHANGED <<m_workqueue, m_queuelocker, m_queuestat, m_state, state>>

RunPop(w) ==
    /\ pc[w] = "front"
    /\ m_workqueue' = IF m_workqueue = <<>> THEN <<>> ELSE Tail(m_workqueue)
    /\ Goto(w, "popped")
    /\ UNCHANGED <<m_queuelocker, m_queuestat, m_state, request, state>>

RunUnlock(w) ==
    /\ pc[w] = "popped"
    /\ m_queuelocker' = NoThread
    /\ Goto(w, "executing")
    /\ UNCHANGED <<m_workqueue, m_queuestat, m_state, request, state>>

\* The call into the task and the jump back to the top of the loop.
Execute(w) ==
    /\ pc[w] = "executing"
    /\ Goto(w, "waiting")
    /\ UNCHANGED <<m_workqueue, m_queuelocker, m_queuestat, m_state, request, state>>

-----------------------------------------------------------------------------

\* What p still does by itself once it has entered append.
AppendStep(p) == AppendFull(p) \/ AppendPush(p) \/ AppendUnlock(p) \/ AppendPost(p)

\* What w does by itself once it holds the mutex or a task.
RunStep(w) ==
    RunEmpty(w) \/ RunFront(w) \/ RunPop(w) \/ RunUnlock(w) \/ Execute(w)

Next ==
    \/ \E p \in Producers :
        \/ \E r \in Requests, s \in RequestStates \cup {NoState} : AppendLock(p, r, s)
        \/ AppendStep(p)
    \/ \E w \in Workers :
        RunWait(w) \/ RunBlock(w) \/ RunInterrupted(w) \/ RunLock(w) \/ RunStep(w)

Spec == Init /\ [][Next]_vars

(***************************************************************************)
(* The scheduler runs every thread that can run, and a worker that keeps   *)
(* asking for the mutex gets it some time (strong fairness: the mutex may  *)
(* be taken and released any number of times before). Nobody owes the pool *)
(* another append, and no signal has to arrive.                            *)
(***************************************************************************)
Fairness ==
    /\ \A p \in Producers : WF_vars(AppendStep(p))
    /\ \A w \in Workers : WF_vars(RunWait(w)) /\ SF_vars(RunLock(w)) /\ WF_vars(RunStep(w))

FairSpec == Spec /\ Fairness

-----------------------------------------------------------------------------

\* Every variable keeps the type its C++ declaration gives it.
TypeOK ==
    /\ m_workqueue \in Seq(Requests)
    /\ m_queuelocker \in Threads \cup {NoThread}
    /\ m_queuestat \in Nat
    /\ m_state \in [Requests -> RequestStates]
    /\ pc \in [Threads -> ProducerPC \cup WorkerPC]
    /\ \A t \in Threads : pc[t] \in IF t \in Producers THEN ProducerPC ELSE WorkerPC
    /\ request \in [Threads -> Requests \cup {NoRequest}]
    /\ \A p \in Producers : pc[p] # "idle" => request[p] \in Requests
    /\ state \in [Producers -> RequestStates \cup {NoState}]

\* Workers that will look at the queue before they sleep again.
Woken == {w \in Workers : pc[w] \in {"woken", "holding", "front"}}

\* Producers that have queued a task and not yet posted the semaphore.
Posting == {p \in Producers : pc[p] \in {"pushed", "posting"}}

(***************************************************************************)
(* No lost wake-up: every waiting task is covered by a unit of the         *)
(* semaphore, by a worker on its way to the queue, or by a producer on its *)
(* way to post. Interrupted waits only add to the right-hand side.         *)
(***************************************************************************)
NoLostWakeup ==
    Len(m_workqueue) <= m_queuestat + Cardinality(Woken) + Cardinality(Posting)

(***************************************************************************)
(* The pool implements TaskQueue: a worker runs the task it has popped     *)
(* until it comes back for another.                                        *)
(***************************************************************************)
Running ==
    [w \in Workers |-> IF pc[w] \in {"popped", "executing"} THEN request[w] ELSE NoRequest]

TQ == INSTANCE TaskQueue
        WITH Tasks <- Requests, NoTask <- NoRequest,
             pending <- m_workqueue, running <- Running

\* Tasks are started in FIFO order, each by exactly one worker, none invented,
\* none dropped, and a refused append changes nothing.
FifoOnce == TQ!TQSpec

\* A waiting task never stays beside an idle worker: under the pool's fairness
\* some worker starts it.
TasksStart == TQ!TQFairSpec
=============================================================================

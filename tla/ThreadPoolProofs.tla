-------------------------- MODULE ThreadPoolProofs --------------------------
(***************************************************************************)
(* Theorems about ThreadPool for every number of workers and producers,    *)
(* every set of requests and every MaxRequests.                            *)
(*                                                                         *)
(* The inductive invariant is IInv: the type invariant, mutual exclusion   *)
(* on the queue (LockInv), what a worker between front() and pop_front()   *)
(* relies on (FrontInv), and what waits: its cover and its bound.          *)
(***************************************************************************)
EXTENDS ThreadPool, FiniteSetTheorems, TLAPS

\* Whoever is between lock() and unlock() is the holder of the mutex.
LockInv == \A t \in Threads : pc[t] \in Critical => m_queuelocker = t

\* The task a worker has read with front() is still the head when it pops, and
\* a worker that has popped has a real task.
FrontInv ==
    \A w \in Workers :
        /\ pc[w] = "front" => m_workqueue # <<>> /\ request[w] = Head(m_workqueue)
        /\ pc[w] \in {"popped", "executing"} => request[w] \in Requests

\* The size check of append compares with > before the push: one more than m_max_requests.
QueueBound == Len(m_workqueue) <= MaxRequests + 1

IInv == TypeOK /\ LockInv /\ FrontInv /\ NoLostWakeup /\ QueueBound

-----------------------------------------------------------------------------

\* Every step keeps the types.
LEMMA TypeStep == TypeOK /\ FrontInv /\ [Next]_vars => TypeOK'
<1> SUFFICES ASSUME TypeOK, FrontInv, [Next]_vars PROVE TypeOK'
  OBVIOUS
<1> USE PoolAssumption DEF TypeOK, Threads, ProducerPC, WorkerPC, Goto, Critical
<1>1. ASSUME NEW p \in Producers, NEW r \in Requests,
             NEW s \in RequestStates \cup {NoState}, AppendLock(p, r, s)
      PROVE TypeOK'
  BY <1>1 DEF AppendLock
<1>2. ASSUME NEW p \in Producers, AppendFull(p) PROVE TypeOK'
  BY <1>2 DEF AppendFull
<1>3. ASSUME NEW p \in Producers, AppendPush(p) PROVE TypeOK'
  <2>1. request[p] \in Requests /\ state[p] \in RequestStates \cup {NoState}
    BY <1>3 DEF AppendPush
  <2>2. m_state' \in [Requests -> RequestStates]
    BY <2>1, <1>3 DEF AppendPush
  <2> QED
    BY <2>1, <2>2, <1>3 DEF AppendPush
<1>4. ASSUME NEW p \in Producers, AppendUnlock(p) PROVE TypeOK'
  BY <1>4 DEF AppendUnlock
<1>5. ASSUME NEW p \in Producers, AppendPost(p) PROVE TypeOK'
  BY <1>5 DEF AppendPost
<1>6. ASSUME NEW w \in Workers, RunWait(w) PROVE TypeOK'
  BY <1>6 DEF RunWait
<1>7. ASSUME NEW w \in Workers, RunBlock(w) \/ RunInterrupted(w) PROVE TypeOK'
  BY <1>7 DEF RunBlock, RunInterrupted
<1>8. ASSUME NEW w \in Workers, RunLock(w) PROVE TypeOK'
  BY <1>8 DEF RunLock
<1>9. ASSUME NEW w \in Workers, RunEmpty(w) PROVE TypeOK'
  BY <1>9 DEF RunEmpty
<1>10. ASSUME NEW w \in Workers, RunFront(w) PROVE TypeOK'
  <2>1. Head(m_workqueue) \in Requests
    BY <1>10 DEF RunFront
  <2> QED
    BY <2>1, <1>10 DEF RunFront
<1>11. ASSUME NEW w \in Workers, RunPop(w) PROVE TypeOK'
  <2>1. m_workqueue # <<>>
    BY <1>11 DEF RunPop, FrontInv
  <2>2. m_workqueue' \in Seq(Requests)
    BY <2>1, <1>11 DEF RunPop
  <2> QED
    BY <2>2, <1>11 DEF RunPop
<1>12. ASSUME NEW w \in Workers, RunUnlock(w) PROVE TypeOK'
  BY <1>12 DEF RunUnlock
<1>13. ASSUME NEW w \in Workers, Execute(w) PROVE TypeOK'
  BY <1>13 DEF Execute
<1>14. CASE UNCHANGED vars
  BY <1>14 DEF vars
<1> QED
  BY <1>1, <1>2, <1>3, <1>4, <1>5, <1>6, <1>7, <1>8, <1>9, <1>10, <1>11, <1>12,
     <1>13, <1>14 DEF Next, AppendStep, RunStep

\* The mutex is taken only when free, and only its holder is inside.
LEMMA LockStep == TypeOK /\ LockInv /\ [Next]_vars => LockInv'
<1> SUFFICES ASSUME TypeOK, LockInv, [Next]_vars PROVE LockInv'
  OBVIOUS
<1> USE PoolAssumption DEF TypeOK, LockInv, Threads, Goto, Critical
<1>1. ASSUME NEW p \in Producers, NEW r \in Requests,
             NEW s \in RequestStates \cup {NoState}, AppendLock(p, r, s)
      PROVE LockInv'
  BY <1>1 DEF AppendLock
<1>2. ASSUME NEW p \in Producers, AppendStep(p) PROVE LockInv'
  BY <1>2 DEF AppendStep, AppendFull, AppendPush, AppendUnlock, AppendPost
<1>3. ASSUME NEW w \in Workers, RunWait(w) \/ RunBlock(w) \/ RunInterrupted(w)
      PROVE LockInv'
  BY <1>3 DEF RunWait, RunBlock, RunInterrupted
<1>4. ASSUME NEW w \in Workers, RunLock(w) PROVE LockInv'
  BY <1>4 DEF RunLock
<1>5. ASSUME NEW w \in Workers, RunStep(w) PROVE LockInv'
  BY <1>5 DEF RunStep, RunEmpty, RunFront, RunPop, RunUnlock, Execute
<1>6. CASE UNCHANGED vars
  BY <1>6 DEF vars
<1> QED
  BY <1>1, <1>2, <1>3, <1>4, <1>5, <1>6 DEF Next

\* Nobody changes the queue while a worker is between front() and pop_front().
LEMMA FrontStep == TypeOK /\ LockInv /\ FrontInv /\ [Next]_vars => FrontInv'
<1> SUFFICES ASSUME TypeOK, LockInv, FrontInv, [Next]_vars PROVE FrontInv'
  OBVIOUS
<1> USE PoolAssumption DEF TypeOK, FrontInv, Threads, Goto
<1>1. ASSUME NEW p \in Producers, NEW r \in Requests,
             NEW s \in RequestStates \cup {NoState}, AppendLock(p, r, s)
      PROVE FrontInv'
  BY <1>1 DEF AppendLock
<1>2. ASSUME NEW p \in Producers, AppendFull(p) \/ AppendUnlock(p) \/ AppendPost(p)
      PROVE FrontInv'
  BY <1>2 DEF AppendFull, AppendUnlock, AppendPost
<1>3. ASSUME NEW p \in Producers, AppendPush(p) PROVE FrontInv'
  <2>1. \A w \in Workers : pc[w] # "front"
    BY <1>3 DEF AppendPush, LockInv, Critical
  <2> QED
    BY <2>1, <1>3 DEF AppendPush
<1>4. ASSUME NEW w \in Workers,
             RunWait(w) \/ RunBlock(w) \/ RunInterrupted(w) \/ RunLock(w) \/ RunEmpty(w)
      PROVE FrontInv'
  BY <1>4 DEF RunWait, RunBlock, RunInterrupted, RunLock, RunEmpty
<1>5. ASSUME NEW w \in Workers, RunFront(w) PROVE FrontInv'
  BY <1>5 DEF RunFront
<1>6. ASSUME NEW w \in Workers, RunPop(w) PROVE FrontInv'
  <2>1. \A v \in Workers \ {w} : pc[v] # "front"
    BY <1>6 DEF RunPop, LockInv, Critical
  <2>2. request[w] \in Requests
    BY <1>6 DEF RunPop
  <2> QED
    BY <2>1, <2>2, <1>6 DEF RunPop
<1>7. ASSUME NEW w \in Workers, RunUnlock(w) \/ Execute(w) PROVE FrontInv'
  BY <1>7 DEF RunUnlock, Execute
<1>8. CASE UNCHANGED vars
  BY <1>8 DEF vars
<1> QED
  BY <1>1, <1>2, <1>3, <1>4, <1>5, <1>6, <1>7, <1>8 DEF Next, AppendStep, RunStep

\* The size check of append is made under the mutex that the push needs.
LEMMA QueueStep == TypeOK /\ FrontInv /\ QueueBound /\ [Next]_vars => QueueBound'
<1> SUFFICES ASSUME TypeOK, FrontInv, QueueBound, [Next]_vars PROVE QueueBound'
  OBVIOUS
<1> USE PoolAssumption DEF TypeOK, QueueBound
<1>1. ASSUME NEW p \in Producers, AppendPush(p) PROVE QueueBound'
  BY <1>1 DEF AppendPush, QueueFull, Threads
<1>2. ASSUME NEW w \in Workers, RunPop(w) PROVE QueueBound'
  BY <1>2 DEF RunPop, FrontInv
<1>3. CASE UNCHANGED m_workqueue
  BY <1>3
<1> QED
  BY <1>1, <1>2, <1>3 DEF Next, AppendStep, RunStep, AppendLock, AppendFull,
     AppendUnlock, AppendPost, RunWait, RunBlock, RunInterrupted, RunLock, RunEmpty,
     RunFront, RunUnlock, Execute, vars

\* The two sets NoLostWakeup counts are finite.
LEMMA CountedFinite ==
    /\ IsFiniteSet(Woken) /\ Cardinality(Woken) \in Nat
    /\ IsFiniteSet(Posting) /\ Cardinality(Posting) \in Nat
<1>1. IsFiniteSet(Woken) /\ IsFiniteSet(Posting)
  BY FS_Subset, PoolAssumption DEF Woken, Posting
<1> QED
  BY <1>1, FS_CardinalityType

\* A task enters the queue together with a pending post, a unit turns into a
\* woken worker, and a woken worker leaves only with a task or past an empty
\* queue.
LEMMA WakeupStep == TypeOK /\ FrontInv /\ NoLostWakeup /\ [Next]_vars => NoLostWakeup'
<1> SUFFICES ASSUME TypeOK, FrontInv, NoLostWakeup, [Next]_vars PROVE NoLostWakeup'
  OBVIOUS
<1>a. /\ Len(m_workqueue) \in Nat /\ m_queuestat \in Nat
      /\ Len(m_workqueue) <= m_queuestat + Cardinality(Woken) + Cardinality(Posting)
  BY DEF TypeOK, NoLostWakeup
<1>b. /\ IsFiniteSet(Woken) /\ Cardinality(Woken) \in Nat
      /\ IsFiniteSet(Posting) /\ Cardinality(Posting) \in Nat
  BY CountedFinite
<1>c. /\ pc \in [Threads -> ProducerPC \cup WorkerPC] /\ Workers \subseteq Threads
      /\ Producers \subseteq Threads /\ Workers \cap Producers = {}
  BY PoolAssumption DEF TypeOK, Threads
<1>1. ASSUME NEW p \in Producers, AppendPush(p) PROVE NoLostWakeup'
  <2>1. Woken' = Woken
    BY <1>1, <1>c DEF AppendPush, Goto, Woken
  <2>2. Posting' = Posting \cup {p} /\ p \notin Posting
    BY <1>1, <1>c DEF AppendPush, Goto, Posting
  <2>3. Cardinality(Posting') = Cardinality(Posting) + 1
    BY <2>2, <1>b, FS_AddElement
  <2>4. Len(m_workqueue') = Len(m_workqueue) + 1 /\ m_queuestat' = m_queuestat
    BY <1>1, <1>c DEF AppendPush, TypeOK
  <2> QED
    BY <2>1, <2>3, <2>4, <1>a, <1>b DEF NoLostWakeup
<1>2. ASSUME NEW p \in Producers, AppendPost(p) PROVE NoLostWakeup'
  <2>1. Woken' = Woken
    BY <1>2, <1>c DEF AppendPost, Goto, Woken
  <2>2. Posting' = Posting \ {p} /\ p \in Posting
    BY <1>2, <1>c DEF AppendPost, Goto, Posting
  <2>3. Cardinality(Posting') = Cardinality(Posting) - 1
    BY <2>2, <1>b, FS_RemoveElement
  <2>4. m_workqueue' = m_workqueue /\ m_queuestat' = m_queuestat + 1
    BY <1>2 DEF AppendPost
  <2> QED
    BY <2>1, <2>3, <2>4, <1>a, <1>b DEF NoLostWakeup
<1>3. ASSUME NEW w \in Workers, RunWait(w) \/ RunInterrupted(w) PROVE NoLostWakeup'
  <2>1. Posting' = Posting
    BY <1>3, <1>c DEF RunWait, RunInterrupted, Goto, Posting
  <2>2. Woken' = Woken \cup {w} /\ w \notin Woken
    BY <1>3, <1>c DEF RunWait, RunInterrupted, Goto, Woken
  <2>3. Cardinality(Woken') = Cardinality(Woken) + 1
    BY <2>2, <1>b, FS_AddElement
  <2>4. m_workqueue' = m_workqueue /\ m_queuestat' \in {m_queuestat, m_queuestat - 1}
    BY <1>3 DEF RunWait, RunInterrupted
  <2> QED
    BY <2>1, <2>3, <2>4, <1>a, <1>b DEF NoLostWakeup
<1>4. ASSUME NEW w \in Workers, RunEmpty(w) PROVE NoLostWakeup'
  <2>1. Len(m_workqueue') = 0 /\ m_queuestat' = m_queuestat
    BY <1>4 DEF RunEmpty
  <2>2. Cardinality(Woken') \in Nat /\ Cardinality(Posting') \in Nat
    <3>1. IsFiniteSet(Woken') /\ IsFiniteSet(Posting')
      BY FS_Subset, PoolAssumption DEF Woken, Posting
    <3> QED
      BY <3>1, FS_CardinalityType
  <2> QED
    BY <2>1, <2>2, <1>a DEF NoLostWakeup
<1>5. ASSUME NEW w \in Workers, RunPop(w) PROVE NoLostWakeup'
  <2>1. Posting' = Posting
    BY <1>5, <1>c DEF RunPop, Goto, Posting
  <2>2. Woken' = Woken \ {w} /\ w \in Woken
    BY <1>5, <1>c DEF RunPop, Goto, Woken
  <2>3. Cardinality(Woken') = Cardinality(Woken) - 1
    BY <2>2, <1>b, FS_RemoveElement
  <2>4. m_workqueue # <<>>
    BY <1>5 DEF RunPop, FrontInv
  <2>5. Len(m_workqueue') = Len(m_workqueue) - 1 /\ m_queuestat' = m_queuestat
    BY <2>4, <1>5 DEF RunPop, TypeOK
  <2> QED
    BY <2>1, <2>3, <2>5, <1>a, <1>b DEF NoLostWakeup
<1>6. ASSUME NEW p \in Producers,
             \/ \E r \in Requests, s \in RequestStates \cup {NoState} : AppendLock(p, r, s)
             \/ AppendFull(p) \/ AppendUnlock(p)
      PROVE NoLostWakeup'
  <2>1. Woken' = Woken /\ Posting' = Posting
    BY <1>6, <1>c DEF AppendLock, AppendFull, AppendUnlock, Goto, Woken, Posting
  <2>2. m_workqueue' = m_workqueue /\ m_queuestat' = m_queuestat
    BY <1>6 DEF AppendLock, AppendFull, AppendUnlock
  <2> QED
    BY <2>1, <2>2, <1>a DEF NoLostWakeup
<1>7. ASSUME NEW w \in Workers,
             RunBlock(w) \/ RunLock(w) \/ RunFront(w) \/ RunUnlock(w) \/ Execute(w)
      PROVE NoLostWakeup'
  <2>1. Woken' = Woken /\ Posting' = Posting
    BY <1>7, <1>c DEF RunBlock, RunLock, RunFront, RunUnlock, Execute, Goto, Woken, Posting
  <2>2. m_workqueue' = m_workqueue /\ m_queuestat' = m_queuestat
    BY <1>7 DEF RunBlock, RunLock, RunFront, RunUnlock, Execute
  <2> QED
    BY <2>1, <2>2, <1>a DEF NoLostWakeup
<1>8. CASE UNCHANGED vars
  BY <1>8, <1>a DEF vars, NoLostWakeup, Woken, Posting
<1> QED
  BY <1>1, <1>2, <1>3, <1>4, <1>5, <1>6, <1>7, <1>8 DEF Next, AppendStep, RunStep

-----------------------------------------------------------------------------

LEMMA InitIInv == Init => IInv
<1> SUFFICES ASSUME Init PROVE IInv
  OBVIOUS
<1>1. TypeOK
  BY PoolAssumption DEF Init, TypeOK, Threads, ProducerPC, WorkerPC, RequestStates
<1>2. LockInv /\ FrontInv /\ QueueBound
  BY PoolAssumption DEF Init, LockInv, FrontInv, QueueBound, Threads, Critical
<1>3. NoLostWakeup
  BY CountedFinite DEF Init, NoLostWakeup
<1> QED
  BY <1>1, <1>2, <1>3 DEF IInv

LEMMA NextIInv == IInv /\ [Next]_vars => IInv'
  BY TypeStep, LockStep, FrontStep, WakeupStep, QueueStep DEF IInv

\* The invariant of the pool, for any number of threads and requests.
THEOREM Invariance == Spec => []IInv
  BY InitIInv, NextIInv, PTL DEF Spec

\* Every variable of the pool keeps the type its declaration gives it.
THEOREM TypeCorrect == Spec => []TypeOK
<1>1. IInv => TypeOK
  BY DEF IInv
<1> QED
  BY <1>1, Invariance, PTL

\* No task waits without a semaphore unit, a woken worker or a post to come,
\* however the signal handlers interrupt the waits of run().
THEOREM NoWakeupLost == Spec => []NoLostWakeup
<1>1. IInv => NoLostWakeup
  BY DEF IInv
<1> QED
  BY <1>1, Invariance, PTL

\* The queue never holds more than m_max_requests + 1 tasks, which is one more than
\* threadpool.hpp allows in the comments of lines 11 and 28.
THEOREM QueueBounded == Spec => []QueueBound
<1>1. IInv => QueueBound
  BY DEF IInv
<1> QED
  BY <1>1, Invariance, PTL

-----------------------------------------------------------------------------

\* A push is the abstract Submit, a pop the abstract Start, the end of a task
\* the abstract Finish; every other step is invisible to the callers.
LEMMA StepSimulation == IInv /\ [Next]_vars => [TQ!TQNext]_(TQ!tqvars)
<1> SUFFICES ASSUME IInv, [Next]_vars PROVE [TQ!TQNext]_(TQ!tqvars)
  OBVIOUS
<1>a. /\ pc \in [Threads -> ProducerPC \cup WorkerPC] /\ Workers \subseteq Threads
      /\ request \in [Threads -> Requests \cup {NoRequest}]
      /\ Producers \subseteq Threads /\ Workers \cap Producers = {}
      /\ m_workqueue \in Seq(Requests) /\ NoRequest \notin Requests
      /\ FrontInv
  BY PoolAssumption DEF IInv, TypeOK, Threads
<1> USE DEF Goto, Running
<1>1. ASSUME NEW p \in Producers, AppendPush(p) PROVE TQ!TQNext
  <2>2. request[p] \in Requests
    BY <1>1 DEF AppendPush, IInv, TypeOK
  <2>3. Running' = Running
    BY <1>1, <1>a DEF AppendPush
  <2> QED
    BY <2>2, <2>3, <1>1 DEF AppendPush, TQ!TQNext, TQ!Submit
<1>2. ASSUME NEW w \in Workers, RunPop(w) PROVE TQ!TQNext
  <2>1. m_workqueue # <<>> /\ request[w] = Head(m_workqueue) /\ m_workqueue' = Tail(m_workqueue)
    BY <1>2, <1>a DEF RunPop, FrontInv
  <2>2. Running[w] = NoRequest
    BY <1>2 DEF RunPop
  <2>3. Running' = [Running EXCEPT ![w] = Head(m_workqueue)]
    BY <2>1, <1>2, <1>a DEF RunPop
  <2> QED
    BY <2>1, <2>2, <2>3 DEF TQ!TQNext, TQ!Start
<1>3. ASSUME NEW w \in Workers, Execute(w) PROVE TQ!TQNext
  <2>1. Running[w] # NoRequest
    BY <1>3, <1>a DEF Execute, FrontInv
  <2>2. Running' = [Running EXCEPT ![w] = NoRequest]
    BY <1>3, <1>a DEF Execute
  <2> QED
    BY <2>1, <2>2, <1>3 DEF Execute, TQ!TQNext, TQ!Finish
<1>4. ASSUME NEW p \in Producers,
             \/ \E r \in Requests, s \in RequestStates \cup {NoState} : AppendLock(p, r, s)
             \/ AppendFull(p) \/ AppendUnlock(p) \/ AppendPost(p)
      PROVE UNCHANGED TQ!tqvars
  <2>1. Running' = Running
    BY <1>4, <1>a DEF AppendLock, AppendFull, AppendUnlock, AppendPost
  <2> QED
    BY <2>1, <1>4 DEF AppendLock, AppendFull, AppendUnlock, AppendPost, TQ!tqvars
<1>5. ASSUME NEW w \in Workers,
             \/ RunWait(w) \/ RunBlock(w) \/ RunInterrupted(w) \/ RunLock(w)
             \/ RunEmpty(w) \/ RunFront(w) \/ RunUnlock(w)
      PROVE UNCHANGED TQ!tqvars
  <2>1. Running' = Running
    BY <1>5, <1>a DEF RunWait, RunBlock, RunInterrupted, RunLock, RunEmpty, RunFront, RunUnlock
  <2>2. m_workqueue' = m_workqueue
    BY <1>5 DEF RunWait, RunBlock, RunInterrupted, RunLock, RunEmpty, RunFront, RunUnlock
  <2> QED
    BY <2>1, <2>2 DEF TQ!tqvars
<1>6. CASE UNCHANGED vars
  BY <1>6 DEF vars, TQ!tqvars
<1> QED
  BY <1>1, <1>2, <1>3, <1>4, <1>5, <1>6 DEF Next, AppendStep, RunStep

\* The pool starts its tasks in FIFO order, each by one worker, none invented
\* and none dropped.
THEOREM PoolImplementsTaskQueue == Spec => FifoOnce
<1>1. Init => TQ!TQInit
  BY PoolAssumption DEF Init, TQ!TQInit, Running, Threads
<1> QED
  BY <1>1, Invariance, StepSimulation, PTL DEF Spec, FifoOnce, TQ!TQSpec
=============================================================================

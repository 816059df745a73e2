----------------------------- MODULE TaskQueue -----------------------------
(***************************************************************************)
(* What the thread pool promises its callers, without semaphore, mutex or  *)
(* program counters: accepted tasks wait in FIFO order, the head of the    *)
(* queue is handed to exactly one idle worker, and a refused task leaves   *)
(* no trace. How many may wait is not said here.                           *)
(***************************************************************************)
EXTENDS Integers, Sequences

CONSTANTS Workers,    \* the threads that execute tasks
          Tasks,      \* what is submitted (one object may be submitted again)
          NoTask      \* the value of running[w] for an idle worker

VARIABLES pending,    \* accepted tasks nobody has started, oldest first
          running     \* the task each worker executes

tqvars == <<pending, running>>

TQInit ==
    /\ pending = <<>>
    /\ running = [w \in Workers |-> NoTask]

Submit(t) ==
    /\ pending' = Append(pending, t)
    /\ UNCHANGED running

Start(w) ==
    /\ running[w] = NoTask
    /\ pending # <<>>
    /\ running' = [running EXCEPT ![w] = Head(pending)]
    /\ pending' = Tail(pending)

Finish(w) ==
    /\ running[w] # NoTask
    /\ running' = [running EXCEPT ![w] = NoTask]
    /\ UNCHANGED pending

TQNext ==
    \/ \E t \in Tasks : Submit(t)
    \/ \E w \in Workers : Start(w) \/ Finish(w)

TQSpec == TQInit /\ [][TQNext]_tqvars

(***************************************************************************)
(* No task waits for ever beside an idle worker.                           *)
(***************************************************************************)
TQFairSpec == TQSpec /\ WF_tqvars(\E w \in Workers : Start(w))
=============================================================================

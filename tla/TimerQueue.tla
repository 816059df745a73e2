----------------------------- MODULE TimerQueue -----------------------------
(***************************************************************************)
(* What SortTimerList promises its callers, without pointers: the pending  *)
(* timers in ascending order of expire, timers with the same expire in the *)
(* order they were added or moved, and a tick that fires exactly the timers*)
(* that are due, from the front. This goes until a call gets stuck; then   *)
(* nothing is promised.                                                    *)
(***************************************************************************)
EXTENDS Integers, SequencesExt

CONSTANTS Timers,  \* the UtilTimer objects
          Times    \* the values of expire and of the clock

VARIABLES queue,    \* the pending timers, the next to fire first
          due,      \* expire of each pending timer
          clock,    \* time(nullptr)
          ticking,  \* whether a tick is on its way
          stuck     \* whether a call has got stuck

tqvars == <<queue, due, clock, ticking, stuck>>

Pending == {queue[i] : i \in DOMAIN queue}

\* The first k timers of q expire up to the time e, the others after it.
Splits(q, d, e, k) == \A i \in DOMAIN q : d[q[i]] <= e <=> i <= k

TQInit ==
    /\ queue = <<>> /\ due \in [Timers -> Times] /\ clock \in Times
    /\ ticking = FALSE /\ stuck = FALSE

AddTimer(t, e) ==
    /\ ~ticking /\ t \notin Pending
    /\ \E k \in 0..Len(queue) :
        Splits(queue, due, e, k) /\ queue' = InsertAt(queue, k + 1, t)
    /\ due' = [due EXCEPT ![t] = e]
    /\ UNCHANGED <<clock, ticking, stuck>>

MoveTimer(t, e) ==
    /\ ~ticking /\ t \in Pending
    /\ e >= due[t]
    /\ \E j \in DOMAIN queue :
        LET others == RemoveAt(queue, j)
        IN  /\ queue[j] = t
            /\ \E k \in 0..Len(others) :
                Splits(others, due, e, k) /\ queue' = InsertAt(others, k + 1, t)
    /\ due' = [due EXCEPT ![t] = e]
    /\ UNCHANGED <<clock, ticking, stuck>>

RemoveTimer(t) ==
    /\ ~ticking
    /\ \E j \in DOMAIN queue : queue[j] = t /\ queue' = RemoveAt(queue, j)
    /\ UNCHANGED <<due, clock, ticking, stuck>>

BeginTick ==
    /\ ~ticking /\ ticking' = TRUE
    /\ UNCHANGED <<queue, due, clock, stuck>>

\* Each step of a tick fires the first timer, if it is due.
FireFirst ==
    /\ ticking /\ queue # <<>>
    /\ due[Head(queue)] <= clock
    /\ queue' = Tail(queue)
    /\ UNCHANGED <<due, clock, ticking, stuck>>

\* A tick ends when none that is due is left.
EndTick ==
    /\ ticking
    /\ \A t \in Pending : due[t] > clock
    /\ ticking' = FALSE
    /\ UNCHANGED <<queue, due, clock, stuck>>

Pass ==
    /\ ~ticking
    /\ clock' \in {c \in Times : c > clock}
    /\ UNCHANGED <<queue, due, ticking, stuck>>

GetStuck == stuck' = TRUE

TQNext ==
    /\ ~stuck
    /\ \/ \E t \in Timers, e \in Times : AddTimer(t, e) \/ MoveTimer(t, e)
       \/ \E t \in Timers : RemoveTimer(t)
       \/ BeginTick \/ FireFirst \/ EndTick
       \/ Pass
       \/ GetStuck

TQSpec == TQInit /\ [][TQNext]_tqvars
=============================================================================

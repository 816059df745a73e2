----------------------------- MODULE TimerList -----------------------------
(***************************************************************************)
(* SortTimerList under every sequence of calls: timers are created with    *)
(* any time, put off, deleted, and fired by tick(). The server, which gives*)
(* every timer the same time, makes some of these sequences (WebServer),   *)
(* the unit tests others.                                                  *)
(***************************************************************************)
EXTENDS SortTimerList

CONSTANT MaxTime  \* bound of the clock and of expire

ASSUME TimerListAssumption == MaxTime \in Nat

VARIABLES now,     \* time(nullptr); cur_stamp while tick() runs
          ticking  \* whether tick() is in its loop

vars == <<listvars, now, ticking>>

Times == 0..MaxTime

Init == ListInit /\ now = 0 /\ ticking = FALSE

Called == status = "running" /\ ~ticking /\ UNCHANGED ticking

\* A caller creates a timer and adds it.
Add(t, e) ==
    /\ Called
    /\ t \notin live
    /\ live' = live \cup {t}
    /\ expire' = [expire EXCEPT ![t] = e]
    /\ add_timer(Fresh(t), live', t)
    /\ UNCHANGED now

\* A caller puts a timer off.
Adjust(t, e) ==
    /\ Called
    /\ t \in live
    /\ e >= expire[t]
    /\ expire' = [expire EXCEPT ![t] = e]
    /\ adjust_timer(t)
    /\ UNCHANGED <<live, now>>

Del(t) ==
    /\ Called
    /\ t \in live
    /\ del_timer(t)
    /\ UNCHANGED now

TickBegins ==
    /\ status = "running"
    /\ ~ticking /\ ticking' = TRUE
    /\ UNCHANGED <<listvars, now>>

TickFires ==
    /\ status = "running" /\ ticking
    /\ tick_fires(now)
    /\ UNCHANGED <<now, ticking>>

TickEnds ==
    /\ status = "running" /\ ticking
    /\ tick_ends(now)
    /\ ticking' = FALSE
    /\ UNCHANGED now

TickCrashes ==
    /\ status = "running" /\ ticking
    /\ tick_crashes
    /\ UNCHANGED <<now, ticking>>

\* tick() has read the time before its loop.
Elapse ==
    /\ Called
    /\ now' \in {c \in Times : c > now}
    /\ UNCHANGED listvars

Next ==
    \/ \E t \in Timers, e \in Times : Add(t, e) \/ Adjust(t, e)
    \/ \E t \in Timers : Del(t)
    \/ TickBegins \/ TickFires \/ TickEnds \/ TickCrashes
    \/ Elapse

Spec == Init /\ [][Next]_vars

-----------------------------------------------------------------------------

\* Types; head and tail are allocated as long as any timer is.
TypeOK ==
    /\ ListTypeOK
    /\ expire \in [Timers -> Times] /\ now \in Times /\ ticking \in BOOLEAN
    /\ status = "running" /\ live # {} => {list.head, list.tail} \subseteq live

(***************************************************************************)
(* The list implements TimerQueue for any callers, until a call gets stuck.*)
(***************************************************************************)
TQ == INSTANCE TimerQueue
        WITH queue <- Chain, due <- expire, clock <- now, stuck <- status # "running"

\* Sorted and stable, and a tick fires exactly the due timers, in order.
Implements == TQ!TQSpec

(***************************************************************************)
(* What the comment on tick says it walks: "the timers in ascending order".*)
(***************************************************************************)
Ascending ==
    \A t \in live : list.next[t] \in live => expire[t] <= expire[list.next[t]]
=============================================================================

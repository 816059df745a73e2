--------------------------- MODULE SortTimerList ---------------------------
(***************************************************************************)
(* The methods of SortTimerList, src/src/timer/lst_timer.cpp, at the level *)
(* of its pointers: head, tail and the prev and next of every UtilTimer.   *)
(* TimerList and WebServer extend this module and call them. Only the main *)
(* thread does, so that a call is one step; tick() is one step for each    *)
(* timer, as its callbacks meet the other threads.                         *)
(*                                                                         *)
(* A call gets stuck when a loop over next finds neither what it looks for *)
(* nor NULL (status "hung"), or when it dereferences NULL or memory that   *)
(* is not allocated (status "crashed"): that is undefined, and nothing is  *)
(* said of what follows.                                                   *)
(***************************************************************************)
EXTENDS Integers, Sequences, FiniteSets

CONSTANTS Timers,  \* the addresses `new UtilTimer` may return
          Null

ASSUME SortTimerListAssumption == IsFiniteSet(Timers) /\ Null \notin Timers

VARIABLES list,    \* head, tail and the two pointers of every timer
          expire,  \* expire of every timer
          live,    \* the timers that are allocated
          status   \* "running", "hung" or "crashed"

listvars == <<list, expire, live, status>>

ListInit ==
    /\ list = [head |-> Null, tail |-> Null,
               next |-> [t \in Timers |-> Null], prev |-> [t \in Timers |-> Null]]
    /\ expire = [t \in Timers |-> 0]
    /\ live = {}
    /\ status = "running"

Writes(L) == list' = L /\ UNCHANGED status
Hangs(L) == list' = L /\ status' = "hung"
Crashes(L) == list' = L /\ status' = "crashed"

\* The node n steps of next after head.
Nth(L) ==
    LET f[n \in 0..Cardinality(Timers) + 1] ==
            IF n = 0 THEN L.head
            ELSE IF f[n - 1] = Null THEN Null ELSE L.next[f[n - 1]]
    IN  f

\* After how many steps of next a loop stops: at a node it looks for or one it
\* cannot read. On a cycle of other nodes it never does.
Stops(L, alive, found) ==
    {n \in 1..Cardinality(Timers) + 1 : Nth(L)[n] \in found \/ Nth(L)[n] \notin alive}

Least(S) == CHOOSE n \in S : \A m \in S : n <= m

(***************************************************************************)
(* add_timer(t), called when the list is L, the allocated timers are alive *)
(* and expire' has been written.                                           *)
(***************************************************************************)
Later(alive, t) == {p \in alive : expire'[t] < expire'[p]}

AddEmpty(L, t) ==
    /\ L.head = Null
    /\ Writes([L EXCEPT !.head = t, !.tail = t])

AddFront(L, alive, t) ==
    /\ L.head \in Later(alive, t)
    /\ Writes([L EXCEPT !.next[t] = L.head, !.prev[L.head] = t, !.head = t])

\* The loop stops at p, the first node that expires later, or at NULL.
AddBehind(L, alive, t) ==
    LET stops == Stops(L, alive, Later(alive, t))
        p == Nth(L)[Least(stops)]
        q == L.prev[p]
        touched == {L.head} \cup IF p = Null THEN {L.tail} ELSE {p, q}
    IN  /\ L.head # Null
        /\ L.head \notin Later(alive, t)
        /\ \/ stops = {} /\ Hangs(L)
           \/ stops # {} /\ ~(touched \subseteq alive) /\ Crashes(L)
           \/ /\ stops # {} /\ touched \subseteq alive /\ p # Null
              /\ Writes([L EXCEPT !.next[t] = p, !.prev[t] = q, !.next[q] = t, !.prev[p] = t])
           \/ /\ stops # {} /\ touched \subseteq alive /\ p = Null
              /\ Writes([L EXCEPT !.prev[t] = L.tail, !.next[L.tail] = t, !.tail = t])

add_timer(L, alive, t) == AddEmpty(L, t) \/ AddFront(L, alive, t) \/ AddBehind(L, alive, t)

\* What the constructor of UtilTimer writes.
Fresh(t) == [list EXCEPT !.next[t] = Null, !.prev[t] = Null]

(***************************************************************************)
(* adjust_timer(t), after its caller has written expire'.                  *)
(***************************************************************************)

\* The early returns: t is last, or still expires before its successor.
InPlace(t) == t = list.tail \/ list.next[t] = Null \/ list.next[t] \in Later(live, t)

Unlinked(t) ==
    IF t = list.head
    THEN [list EXCEPT !.head = list.next[t], !.prev[list.next[t]] = Null]
    ELSE [list EXCEPT !.next[list.prev[t]] = list.next[t], !.prev[list.next[t]] = list.prev[t]]

\* The nodes around t that unlinking reads or writes.
Neighbours(t) == {list.next[t]} \cup IF t = list.head THEN {} ELSE {list.prev[t]}

adjust_timer(t) ==
    \/ InPlace(t) /\ Writes(list)
    \/ ~InPlace(t) /\ ~(Neighbours(t) \subseteq live) /\ Crashes(list)
    \/ ~InPlace(t) /\ Neighbours(t) \subseteq live /\ add_timer(Unlinked(t), live, t)

(***************************************************************************)
(* del_timer(t)                                                            *)
(***************************************************************************)
\* Nothing reads what a freed timer held; its pointers are set to NULL here.
Frees(t, L) ==
    /\ Writes([L EXCEPT !.next[t] = Null, !.prev[t] = Null])
    /\ live' = live \ {t}

DelHead(t) ==
    LET second == list.next[t]
    IN  /\ t = list.head
        /\ \/ second \notin live /\ Crashes(list) /\ UNCHANGED live
           \/ second \in live /\ Frees(t, [list EXCEPT !.head = second, !.prev[second] = Null])

\* Mutant: tail stays where it is.
DelTailKept(t) ==
    LET last == list.prev[t]
    IN  /\ t # list.head /\ t = list.tail
        /\ \/ last \notin live /\ Crashes(list) /\ UNCHANGED live
           \/ last \in live /\ Frees(t, [list EXCEPT !.next[last] = Null])

\* Mutant: the timer before it still leads to it.
DelTailLinked(t) ==
    LET last == list.prev[t]
    IN  /\ t # list.head /\ t = list.tail
        /\ \/ last \notin live /\ Crashes(list) /\ UNCHANGED live
           \/ last \in live /\ Frees(t, [list EXCEPT !.tail = last])

DelTail(t) ==
    LET last == list.prev[t]
    IN  /\ t # list.head /\ t = list.tail
        /\ \/ last \notin live /\ Crashes(list) /\ UNCHANGED live
           \/ last \in live /\ Frees(t, [list EXCEPT !.tail = last, !.next[last] = Null])

\* Mutant: the successor keeps its old prev.
DelHalf(t) ==
    /\ t \notin {list.head, list.tail}
    /\ Frees(t, [list EXCEPT !.next[list.prev[t]] = list.next[t]])

\* The loop looks for t; "not in the list" is printed when it finds NULL.
DelMiddle(t) ==
    LET stops == Stops(list, live, {t})
        found == Nth(list)[Least(stops)]
        p == list.prev[t]
        n == list.next[t]
    IN  /\ t \notin {list.head, list.tail}
        /\ \/ stops = {} /\ Hangs(list) /\ UNCHANGED live
           \/ stops # {} /\ found = Null /\ UNCHANGED <<list, live, status>>
           \/ /\ stops # {} /\ found # Null /\ ~({found, p, n} \subseteq live)
              /\ Crashes(list) /\ UNCHANGED live
           \/ /\ stops # {} /\ found # Null /\ {found, p, n} \subseteq live
              /\ Frees(t, [list EXCEPT !.next[p] = n, !.prev[n] = p])

del_timer(t) == (DelHead(t) \/ DelTail(t) \/ DelMiddle(t)) /\ UNCHANGED expire

(***************************************************************************)
(* tick(), one iteration: cb_func of the first timer, and the timer is     *)
(* freed. What follows it becomes head, allocated or not; prev of the new  *)
(* head and, when the list runs empty, tail point at freed memory.         *)
(***************************************************************************)

\* Mutant: a timer fires only after its time.
DueLate(p, now) == expire[p] < now
IsDue(p, now) == expire[p] <= now

tick_fires(now) ==
    /\ list.head \in live
    /\ IsDue(list.head, now)
    /\ Frees(list.head, [list EXCEPT !.head = list.next[list.head]])
    /\ UNCHANGED expire

\* The loop ends: there is no timer, or the first is not due.
tick_ends(now) ==
    /\ list.head = Null \/ (list.head \in live /\ ~IsDue(list.head, now))
    /\ UNCHANGED listvars

\* The loop reads expire of a timer that has been freed.
tick_crashes ==
    /\ list.head \notin live \cup {Null}
    /\ Crashes(list)
    /\ UNCHANGED <<expire, live>>

-----------------------------------------------------------------------------

Pointers == Timers \cup {Null}

ListTypeOK ==
    /\ list \in [head : Pointers, tail : Pointers,
                 next : [Timers -> Pointers], prev : [Timers -> Pointers]]
    /\ expire \in [Timers -> Nat]
    /\ live \subseteq Timers
    /\ status \in {"running", "hung", "crashed"}

\* The timers in the order next reaches them, from head to tail; meaningful when
\* there are any and the walk comes to tail.
Chain ==
    LET n == IF live = {} THEN 0
             ELSE 1 + Least({i \in 0..Cardinality(Timers) + 1 : Nth(list)[i] = list.tail})
    IN  [i \in 1..n |-> Nth(list)[i - 1]]

Linked == {Chain[i] : i \in DOMAIN Chain}

(***************************************************************************)
(* While no call has got stuck, next leads from head over every live timer *)
(* once, and ends at tail, and prev leads back. Nothing is said of the     *)
(* next of tail, nor of prev of head, which may dangle after a tick and    *)
(* which nothing reads.                                                    *)
(***************************************************************************)
WellFormed ==
    status = "running" =>
        /\ live # {} => \E n \in 0..Cardinality(Timers) : Nth(list)[n] = list.tail
        /\ Linked = live
        /\ Len(Chain) = Cardinality(live)
        /\ \A i \in 2..Len(Chain) : list.prev[Chain[i]] = Chain[i - 1]

\* The next of the last timer is not NULL: it leads back into the list, or to
\* memory that has been freed since; or tick() has followed it there already.
TailLeadsOn ==
    \/ list.tail \in live /\ list.next[list.tail] # Null
    \/ list.head \notin live \cup {Null}

(***************************************************************************)
(* A call gets stuck only on a list whose last timer leads on, or where    *)
(* del_timer deletes the only timer.                                       *)
(***************************************************************************)
StuckOnly ==
    [][status = "running" /\ status' # "running" =>
        TailLeadsOn \/ \E t \in live : live = {t} /\ del_timer(t)]_listvars

\* Only adjust_timer makes the last timer lead on, with a timer it moves there.
LeadsOnByMove ==
    [][~TailLeadsOn /\ TailLeadsOn' =>
        live' = live /\ list'.tail \in live \ {list.tail}]_listvars
=============================================================================

------------------------------- MODULE Logger -------------------------------
(***************************************************************************)
(* Logger and BlockQueue of src/src/logger: threads that call write_log()  *)
(* and, in asynchronous mode, the thread that waits for lines on a queue.  *)
(*                                                                         *)
(* write_log() counts the line and opens the next file in one critical     *)
(* section, formats into the shared m_buf in a second, and writes in a     *)
(* third.                                                                  *)
(*                                                                         *)
(* push() calls full() while it holds b_lock, and full() locks it again.   *)
(* The mutex is a default one and the program runs on Linux, where the     *)
(* thread then waits for itself for ever (pc "locked"): no line gets into  *)
(* the queue, none is taken out, and whoever needs b_lock next waits too.  *)
(* So `que` is always empty here, and it and the writing of the flushing   *)
(* thread have no part in the model.                                       *)
(*                                                                         *)
(* A line is its writer and a date is a day. Which file m_fp is, and how   *)
(* many lines that file has, is left out: fopen(..., "a") may come back to *)
(* a file of before.                                                       *)
(***************************************************************************)
EXTENDS Integers, FiniteSets

CONSTANTS Writers,        \* the threads that log
          m_split_lines,  \* lines after which the next file is opened
          MaxCount,       \* bound: nobody calls write_log once m_count is there
          MaxDay,         \* bound: the last day
          NoThread,       \* "nobody" as holder of a mutex
          NoLine          \* an empty buffer

ASSUME LoggerAssumption ==
    /\ NoThread \notin Writers /\ NoLine \notin Writers
    /\ m_split_lines \in Nat \ {0}
    /\ MaxCount \in Nat /\ MaxDay \in Nat \ {0}

VARIABLES
    m_is_async,  \* whether lines go through the queue
    today,       \* the day outside
    m_count, m_today, m_buf,
    buffered,    \* the threads with a line in the stdio buffer of m_fp
    m_mutex,     \* the holder of m_mutex
    b_lock,      \* the holder of b_lock
    pc,          \* where each writer is
    my_tm,       \* its date
    log_str,     \* its copy of the line
    flusher      \* where the thread of flush_log_thread() is

counting == <<m_count, m_today>>
vars == <<m_is_async, today, counting, m_buf, buffered, m_mutex, b_lock, pc, my_tm, log_str,
          flusher>>

\* init() has succeeded.
Init ==
    /\ m_is_async \in BOOLEAN
    /\ today = 1 /\ m_today = 1 /\ m_count = 0 /\ buffered = {}
    /\ m_buf = NoLine
    /\ m_mutex = NoThread /\ b_lock = NoThread
    /\ pc = [t \in Writers |-> "idle"]
    /\ my_tm = [t \in Writers |-> 1]
    /\ log_str = [t \in Writers |-> NoLine]
    /\ flusher = IF m_is_async THEN "pop" ELSE "none"

Midnight ==
    /\ today < MaxDay
    /\ today' = today + 1
    /\ UNCHANGED <<m_is_async, counting, m_buf, buffered, m_mutex, b_lock, pc, my_tm, log_str,
                   flusher>>

-----------------------------------------------------------------------------
(***************************************************************************)
(* write_log().                                                            *)
(***************************************************************************)
Goto(t, from, to) == pc[t] = from /\ pc' = [pc EXCEPT ![t] = to]

\* The time is read before any lock is taken. localtime() returns a buffer that
\* all threads share: the date may be that of another thread between here and Count.
Call(t) ==
    /\ Goto(t, "idle", "called")
    /\ m_count < MaxCount
    /\ \E day \in {today} \cup {my_tm[u] : u \in {v \in Writers : pc[v] = "called"}} :
        my_tm' = [my_tm EXCEPT ![t] = day]
    /\ UNCHANGED <<m_is_async, today, counting, m_buf, buffered, m_mutex, b_lock, log_str, flusher>>

\* First critical section: count the line, open the file of the day or the next
\* one. fclose() writes out what the stdio buffer of the old one holds.
Count(t) ==
    /\ Goto(t, "called", "counted")
    /\ m_mutex = NoThread
    /\ LET newDay == m_today # my_tm[t]
           rotates == newDay \/ (m_count + 1) % m_split_lines = 0
       IN  /\ m_count' = IF newDay THEN 0 ELSE m_count + 1
           /\ buffered' = IF rotates THEN {} ELSE buffered
    /\ m_today' = my_tm[t]
    /\ UNCHANGED <<m_is_async, today, m_buf, m_mutex, b_lock, my_tm, log_str, flusher>>

\* Mutant: the buffer is written without the lock.
FormatUnlocked(t) ==
    /\ Goto(t, "counted", "formatted")
    /\ m_buf' = t
    /\ UNCHANGED <<m_is_async, today, counting, buffered, m_mutex, b_lock, my_tm, log_str, flusher>>

\* Second critical section: format the line in m_buf ...
Format(t) ==
    /\ Goto(t, "counted", "formatted")
    /\ m_mutex = NoThread
    /\ m_mutex' = t
    /\ m_buf' = t
    /\ UNCHANGED <<m_is_async, today, counting, buffered, b_lock, my_tm, log_str, flusher>>

\* Mutant: the lock is not released.
CopyLocked(t) ==
    /\ Goto(t, "formatted", "copied")
    /\ log_str' = [log_str EXCEPT ![t] = m_buf]
    /\ UNCHANGED <<m_is_async, today, counting, m_buf, buffered, m_mutex, b_lock, my_tm, flusher>>

\* ... and copy it out.
Copy(t) ==
    /\ Goto(t, "formatted", "copied")
    /\ log_str' = [log_str EXCEPT ![t] = m_buf]
    /\ m_mutex' = NoThread
    /\ UNCHANGED <<m_is_async, today, counting, m_buf, buffered, b_lock, my_tm, flusher>>

\* m_is_async && !m_log_queue->full(): to the queue, which is never full, or to the
\* file. full() takes b_lock and releases it again.
Choose(t) ==
    /\ m_is_async => b_lock = NoThread
    /\ Goto(t, "copied", IF m_is_async THEN "pushing" ELSE "putting")
    /\ UNCHANGED <<m_is_async, today, counting, m_buf, buffered, m_mutex, b_lock, my_tm, log_str,
                   flusher>>

\* push() takes b_lock and calls full(), which waits for b_lock: nothing follows.
Push(t) ==
    /\ Goto(t, "pushing", "locked")
    /\ b_lock = NoThread
    /\ b_lock' = t
    /\ UNCHANGED <<m_is_async, today, counting, m_buf, buffered, m_mutex, my_tm, log_str, flusher>>

\* Mutant: the caller does not go on to flush().
PutReturns(t) ==
    /\ Goto(t, "putting", "idle")
    /\ m_mutex = NoThread
    /\ buffered' = buffered \cup {t}
    /\ UNCHANGED <<m_is_async, today, counting, m_buf, m_mutex, b_lock, my_tm, log_str, flusher>>

\* Third critical section: fputs().
Put(t) ==
    /\ Goto(t, "putting", "flushing")
    /\ m_mutex = NoThread
    /\ buffered' = buffered \cup {t}
    /\ UNCHANGED <<m_is_async, today, counting, m_buf, m_mutex, b_lock, my_tm, log_str, flusher>>

\* Every LOG_ macro calls flush() next.
Flush(t) ==
    /\ Goto(t, "flushing", "idle")
    /\ m_mutex = NoThread
    /\ buffered' = {}
    /\ UNCHANGED <<m_is_async, today, counting, m_buf, m_mutex, b_lock, my_tm, log_str, flusher>>

(***************************************************************************)
(* pop(), called by async_write_log(): the queue is empty, and the thread  *)
(* waits on the condition variable, which may return although nobody       *)
(* called. The wait gives b_lock up and needs it to return.                *)
(***************************************************************************)
Pop ==
    /\ flusher = "pop"
    /\ b_lock = NoThread
    /\ flusher' = "waiting"
    /\ UNCHANGED <<m_is_async, today, counting, m_buf, buffered, m_mutex, b_lock, pc, my_tm, log_str>>

Spurious ==
    /\ flusher = "waiting"
    /\ flusher' = "pop"
    /\ UNCHANGED <<m_is_async, today, counting, m_buf, buffered, m_mutex, b_lock, pc, my_tm, log_str>>

-----------------------------------------------------------------------------

Write(t) ==
    \/ Count(t) \/ Format(t) \/ Copy(t) \/ Choose(t) \/ Push(t) \/ Put(t) \/ Flush(t)

Next ==
    \/ Midnight \/ Pop \/ Spurious
    \/ \E t \in Writers : Call(t) \/ Write(t)

Spec == Init /\ [][Next]_vars

\* Every writer runs and no mutex passes one over for ever, which a futex gives
\* in practice. Nobody has to log.
FairSpec == Spec /\ \A t \in Writers : SF_vars(Write(t))

-----------------------------------------------------------------------------

PC == {"idle", "called", "counted", "formatted", "copied", "pushing", "locked", "putting",
       "flushing"}

\* Types; whoever holds a mutex between two steps is inside its critical section.
TypeOK ==
    /\ m_is_async \in BOOLEAN
    /\ today \in 1..MaxDay /\ m_today \in 1..MaxDay
    /\ m_count \in Nat /\ buffered \subseteq Writers
    /\ m_buf \in Writers \cup {NoLine}
    /\ m_mutex \in Writers \cup {NoThread} /\ b_lock \in Writers \cup {NoThread}
    /\ pc \in [Writers -> PC]
    /\ m_mutex # NoThread => pc[m_mutex] = "formatted"
    /\ b_lock # NoThread => pc[b_lock] = "locked"
    /\ my_tm \in [Writers -> 1..MaxDay]
    /\ log_str \in [Writers -> Writers \cup {NoLine}]
    /\ flusher \in {"none", "pop", "waiting"}

\* The line a thread takes out of the shared m_buf is its own.
OwnLine ==
    \A t \in Writers : pc[t] \in {"copied", "pushing", "locked", "putting"} => log_str[t] = t

\* What a thread has put in the file is out of the stdio buffer when its LOG_ macro
\* returns, whoever flushed it or opened the next file meanwhile.
Durable == \A t \in buffered : pc[t] = "flushing"

\* In synchronous mode a LOG_ macro returns. Nothing is said of the other mode.
LogReturns == \A t \in Writers : pc[t] # "idle" /\ ~m_is_async ~> pc[t] = "idle"
=============================================================================

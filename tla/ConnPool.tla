------------------------------ MODULE ConnPool ------------------------------
(***************************************************************************)
(* ConnectionPool and ConnectionRAII of src/src/CGImysql: a list of MySQL  *)
(* handles guarded by `lock`, a semaphore `reserve` that counts them, and  *)
(* the threads that take a handle, use it and give it back when the        *)
(* ConnectionRAII leaves its scope.                                        *)
(*                                                                         *)
(* GetConnection looks at conn_list.size() before it takes the lock,       *)
(* ignores what reserve.wait() returns, and calls front() without checking *)
(* the list again; front() of an empty std::list ends the process here     *)
(* (pc "aborted"). The destructor of the singleton runs DestroyPool when   *)
(* main returns, while the detached workers still run, and then destroys   *)
(* reserve, conn_list and lock (exit "gone"). Every step of a thread uses  *)
(* one of these three: from there on the behaviour is undefined, and the   *)
(* specification ends.                                                     *)
(***************************************************************************)
EXTENDS Integers, Sequences, FiniteSets

CONSTANTS Threads,     \* the threads that use the pool
          SqlNums,     \* the values of sql_num, the number of handles
          Interrupts,  \* whether a signal handler may run on a blocked thread
          MayExit,     \* whether main returns while the threads run
          Null,        \* nullptr
          NoThread,    \* "nobody" as holder of lock
          Main         \* the thread that runs the destructor

ASSUME ConnPoolAssumption ==
    /\ IsFiniteSet(Threads)
    /\ SqlNums \subseteq Nat \ {0}
    /\ Null \notin Nat
    /\ NoThread \notin Threads /\ Main \notin Threads /\ Main # NoThread
    /\ Interrupts \in BOOLEAN /\ MayExit \in BOOLEAN

VARIABLES max_conn,   \* the number of handles init() has opened
          conn_list,  \* the free handles, and any nullptr given back
          lock,       \* the holder of the mutex, or NoThread
          reserve,    \* the value of the semaphore
          free_conn,  \* what GetFreeConn() returns
          cur_conn,   \* handles in use, as the pool counts them
          pc,         \* where each thread is
          conn,       \* the local of GetConnection, then ConnectionRAII::conRAII
          exit,       \* how far main is with DestroyPool
          closed      \* the handles mysql_close() was called on

vars == <<max_conn, conn_list, lock, reserve, free_conn, cur_conn, pc, conn, exit, closed>>

\* The handles, numbered in the order in which init() opens them.
Conns == 1..max_conn

Listed == {conn_list[i] : i \in DOMAIN conn_list}

Goto(t, label) == pc' = [pc EXCEPT ![t] = label]

\* init() of the pool has succeeded: every handle is free.
Init ==
    /\ max_conn \in SqlNums
    /\ conn_list = [i \in 1..max_conn |-> i]
    /\ lock = NoThread
    /\ reserve = max_conn
    /\ free_conn = max_conn
    /\ cur_conn = 0
    /\ pc = [t \in Threads |-> "idle"]
    /\ conn = [t \in Threads |-> Null]
    /\ exit = "running"
    /\ closed = {}

(***************************************************************************)
(* GetConnection(), called by the constructor of ConnectionRAII.           *)
(***************************************************************************)

\* The unlocked size check: nullptr when the list looks empty.
GetCheck(t) ==
    /\ pc[t] = "idle"
    /\ IF Len(conn_list) = 0
       THEN Goto(t, "using") /\ conn' = [conn EXCEPT ![t] = Null]
       ELSE Goto(t, "reserving") /\ UNCHANGED conn
    /\ UNCHANGED <<max_conn, conn_list, lock, reserve, free_conn, cur_conn, exit, closed>>

\* Mutant: the wait does not block at zero.
WaitUnblocked(t) ==
    /\ pc[t] \in {"reserving", "blocked"}
    /\ reserve' = reserve - 1
    /\ Goto(t, "reserved")
    /\ UNCHANGED <<max_conn, conn_list, lock, free_conn, cur_conn, conn, exit, closed>>

ReserveWait(t) ==
    /\ pc[t] \in {"reserving", "blocked"}
    /\ reserve > 0
    /\ reserve' = reserve - 1
    /\ Goto(t, "reserved")
    /\ UNCHANGED <<max_conn, conn_list, lock, free_conn, cur_conn, conn, exit, closed>>

ReserveBlock(t) ==
    /\ pc[t] = "reserving"
    /\ reserve = 0
    /\ Goto(t, "blocked")
    /\ UNCHANGED <<max_conn, conn_list, lock, reserve, free_conn, cur_conn, conn, exit, closed>>

\* EINTR: wait() returns false and GetConnection goes on.
ReserveInterrupted(t) ==
    /\ Interrupts
    /\ pc[t] = "blocked"
    /\ Goto(t, "reserved")
    /\ UNCHANGED <<max_conn, conn_list, lock, reserve, free_conn, cur_conn, conn, exit, closed>>

\* Mutant: the list is read without the lock.
GetUnlocked(t) ==
    /\ pc[t] = "reserved"
    /\ UNCHANGED lock
    /\ Goto(t, "getting")
    /\ UNCHANGED <<max_conn, conn_list, reserve, free_conn, cur_conn, conn, exit, closed>>

GetLock(t) ==
    /\ pc[t] = "reserved"
    /\ lock = NoThread
    /\ lock' = t
    /\ Goto(t, "getting")
    /\ UNCHANGED <<max_conn, conn_list, reserve, free_conn, cur_conn, conn, exit, closed>>

GetFront(t) ==
    /\ pc[t] = "getting"
    /\ IF conn_list = <<>>
       THEN Goto(t, "aborted") /\ UNCHANGED conn
       ELSE Goto(t, "front") /\ conn' = [conn EXCEPT ![t] = Head(conn_list)]
    /\ UNCHANGED <<max_conn, conn_list, lock, reserve, free_conn, cur_conn, exit, closed>>

\* pop_front() and the two counters.
GetPop(t) ==
    /\ pc[t] = "front"
    /\ conn_list # <<>>
    /\ conn_list' = Tail(conn_list)
    /\ free_conn' = free_conn - 1
    /\ cur_conn' = cur_conn + 1
    /\ Goto(t, "popped")
    /\ UNCHANGED <<max_conn, lock, reserve, conn, exit, closed>>

GetUnlock(t) ==
    /\ pc[t] = "popped"
    /\ lock' = NoThread
    /\ Goto(t, "using")
    /\ UNCHANGED <<max_conn, conn_list, reserve, free_conn, cur_conn, conn, exit, closed>>

(***************************************************************************)
(* ReleaseConnection(conRAII), called by the destructor of ConnectionRAII  *)
(* whatever GetConnection had returned.                                    *)
(***************************************************************************)
ReleaseLock(t) ==
    /\ pc[t] = "using"
    /\ lock = NoThread
    /\ lock' = t
    /\ Goto(t, "releasing")
    /\ UNCHANGED <<max_conn, conn_list, reserve, free_conn, cur_conn, conn, exit, closed>>

\* Mutant: the handle is counted but not put back.
PushMissing(t) ==
    /\ pc[t] = "releasing"
    /\ free_conn' = free_conn + 1
    /\ cur_conn' = cur_conn - 1
    /\ Goto(t, "pushed")
    /\ UNCHANGED <<max_conn, conn_list, lock, reserve, conn, exit, closed>>

ReleasePush(t) ==
    /\ pc[t] = "releasing"
    /\ conn_list' = Append(conn_list, conn[t])
    /\ free_conn' = free_conn + 1
    /\ cur_conn' = cur_conn - 1
    /\ Goto(t, "pushed")
    /\ UNCHANGED <<max_conn, lock, reserve, conn, exit, closed>>

ReleaseUnlock(t) ==
    /\ pc[t] = "pushed"
    /\ lock' = NoThread
    /\ Goto(t, "posting")
    /\ UNCHANGED <<max_conn, conn_list, reserve, free_conn, cur_conn, conn, exit, closed>>

\* Mutant: a unit is posted only when the semaphore has run out.
PostWhenZero(t) ==
    /\ pc[t] = "posting"
    /\ reserve' = IF reserve = 0 THEN 1 ELSE reserve
    /\ Goto(t, "idle")
    /\ UNCHANGED <<max_conn, conn_list, lock, free_conn, cur_conn, conn, exit, closed>>

\* Mutant: a nullptr is put in the list and not posted.
PostHandlesOnly(t) ==
    /\ pc[t] = "posting"
    /\ reserve' = IF conn[t] = Null THEN reserve ELSE reserve + 1
    /\ Goto(t, "idle")
    /\ UNCHANGED <<max_conn, conn_list, lock, free_conn, cur_conn, conn, exit, closed>>

ReleasePost(t) ==
    /\ pc[t] = "posting"
    /\ reserve' = reserve + 1
    /\ Goto(t, "idle")
    /\ UNCHANGED <<max_conn, conn_list, lock, free_conn, cur_conn, conn, exit, closed>>

(***************************************************************************)
(* DestroyPool(), from the destructor of the singleton.                    *)
(***************************************************************************)

DestroyLock ==
    /\ MayExit
    /\ exit = "running"
    /\ lock = NoThread
    /\ lock' = Main
    /\ exit' = "destroying"
    /\ UNCHANGED <<max_conn, conn_list, reserve, free_conn, cur_conn, pc, conn, closed>>

\* Mutant: the closed handles stay in the list.
ClearMissing ==
    /\ exit = "destroying"
    /\ exit' = "cleared"
    /\ closed' = closed \cup (Listed \ {Null})
    /\ UNCHANGED <<max_conn, conn_list, free_conn, cur_conn, lock, reserve, pc, conn>>

\* Handles in use are not in the list and stay open; the semaphore keeps its value.
DestroyClear ==
    /\ exit = "destroying"
    /\ exit' = "cleared"
    /\ IF conn_list = <<>>
       THEN UNCHANGED <<conn_list, free_conn, cur_conn, closed>>
       ELSE /\ closed' = closed \cup (Listed \ {Null})
            /\ conn_list' = <<>>
            /\ free_conn' = 0
            /\ cur_conn' = 0
    /\ UNCHANGED <<max_conn, lock, reserve, pc, conn>>

DestroyUnlock ==
    /\ exit = "cleared"
    /\ exit' = "destroyed"
    /\ lock' = NoThread
    /\ UNCHANGED <<max_conn, conn_list, reserve, free_conn, cur_conn, pc, conn, closed>>

\* The rest of the destructor, in one step: the semaphore, the list with whatever
\* has been given back since, and the mutex are no more, whoever is in them.
DestroyMembers ==
    /\ exit = "destroyed"
    /\ exit' = "gone"
    /\ UNCHANGED <<max_conn, conn_list, lock, reserve, free_conn, cur_conn, pc, conn, closed>>

-----------------------------------------------------------------------------

Aborted == \E t \in Threads : pc[t] = "aborted"

UserStep(t) ==
    \/ GetCheck(t) \/ ReserveWait(t) \/ ReserveBlock(t) \/ ReserveInterrupted(t)
    \/ GetLock(t) \/ GetFront(t) \/ GetPop(t) \/ GetUnlock(t)
    \/ ReleaseLock(t) \/ ReleasePush(t) \/ ReleaseUnlock(t) \/ ReleasePost(t)

Next ==
    /\ ~Aborted /\ exit # "gone"
    /\ \/ \E t \in Threads : UserStep(t)
       \/ DestroyLock \/ DestroyClear \/ DestroyUnlock \/ DestroyMembers

Spec == Init /\ [][Next]_vars

(***************************************************************************)
(* Every thread runs, and neither the semaphore nor the mutex passes a     *)
(* thread over for ever (strong fairness, which a futex gives in practice  *)
(* and POSIX does not promise). The task a worker runs with its connection *)
(* ends. No thread has to ask for another connection.                      *)
(***************************************************************************)
Fairness ==
    \A t \in Threads :
        SF_vars(\/ ReserveWait(t) \/ GetLock(t) \/ GetFront(t) \/ GetPop(t) \/ GetUnlock(t)
                \/ ReleaseLock(t) \/ ReleasePush(t) \/ ReleaseUnlock(t) \/ ReleasePost(t))

FairSpec == Spec /\ Fairness

-----------------------------------------------------------------------------

PC == {"idle", "reserving", "blocked", "reserved", "getting", "front", "popped", "using",
       "releasing", "pushed", "posting", "aborted"}

\* Types. The counters are signed: a nullptr that is given back, or a handle
\* given back after DestroyPool, takes cur_conn below zero.
TypeOK ==
    /\ max_conn \in SqlNums
    /\ conn_list \in Seq(Conns \cup {Null})
    /\ lock \in Threads \cup {NoThread, Main}
    /\ reserve \in Nat
    /\ free_conn \in Int /\ cur_conn \in Int
    /\ pc \in [Threads -> PC]
    /\ conn \in [Threads -> Conns \cup {Null}]
    /\ exit \in {"running", "destroying", "cleared", "destroyed", "gone"}
    /\ closed \subseteq Conns

\* The threads that own a handle: after pop_front(), until it is back.
Owners == {t \in Threads : pc[t] \in {"popped", "using", "releasing"}}

\* The threads that are past the semaphore and have not popped.
Passed == {t \in Threads : pc[t] \in {"reserved", "getting", "front"}}

\* The threads that have given a handle back and not yet posted.
Unposted == {t \in Threads : pc[t] \in {"pushed", "posting"}}

(***************************************************************************)
(* A MySQL handle, which is not thread safe, has one owner: it is used by  *)
(* at most one thread, and is not free at the same time, nor free twice.   *)
(***************************************************************************)
OneOwner ==
    /\ \A t, u \in Owners : t # u /\ conn[t] = conn[u] => conn[t] = Null
    /\ \A t \in Owners : conn[t] \in Listed => conn[t] = Null
    /\ \A i, j \in DOMAIN conn_list :
        i # j /\ conn_list[i] = conn_list[j] => conn_list[i] = Null

(***************************************************************************)
(* What DestroyPool has closed is never used or handed out again, although *)
(* the workers outlive it, as long as the pool itself exists.              *)
(***************************************************************************)
NoUseAfterClose ==
    /\ \A t \in Owners : conn[t] \notin closed
    /\ exit # "destroying" => Listed \cap closed = {}

\* Until DestroyPool has the lock, handles do not disappear: each is free or owned.
\* Nothing is said about the handles in use when it comes: it does not close them.
NoneLost ==
    exit = "running" => \A c \in Conns : c \in Listed \/ \E t \in Owners : conn[t] = c

\* pop_front() is never reached with an empty list.
NeverAborts == ~Aborted

\* The default configuration: as many handles as threads, while main runs.
Enough == Cardinality(Threads) <= max_conn /\ exit = "running"

\* Then pop_front() always finds an element, although signals arrive ...
NeverAbortsEnough == Enough => ~Aborted

\* ... GetConnection never answers nullptr ...
NeverNull == Enough => \A t \in Owners : conn[t] # Null

\* ... and never waits for a handle, so that no signal can make its wait fail.
NeverBlocks == Enough => \A t \in Threads : pc[t] = "reserving" => reserve > 0

\* A thread that has passed the size check gets its turn, unless the process ends.
Served ==
    \A t \in Threads :
        pc[t] = "reserving" ~> pc[t] = "using" \/ Aborted \/ exit # "running"
=============================================================================

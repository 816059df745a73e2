--------------------------- MODULE ConnPoolProofs ---------------------------
(***************************************************************************)
(* Theorems about ConnPool for every set of threads and handles:           *)
(*  - OneOwner, NoUseAfterClose and NoneLost, whatever the signals do and  *)
(*    whenever main returns (Ownership);                                   *)
(*  - NeverAborts while main runs, if no wait is interrupted (Safe) or if  *)
(*    there are no more threads than handles (Enough);                     *)
(*  - NeverNull and NeverBlocks in the latter case.                        *)
(* The last two rest on two counts: Accounting, which ties the semaphore   *)
(* to the length of the list, and Conserved, which ties the list to the    *)
(* threads that own a handle.                                              *)
(***************************************************************************)
EXTENDS ConnPool, FiniteSetTheorems, TLAPS

Critical == {"getting", "front", "popped", "releasing", "pushed"}

\* Only the holder of lock is between lock() and unlock().
LockInv ==
    /\ \A t \in Threads : pc[t] \in Critical => lock = t
    /\ exit \in {"destroying", "cleared"} => lock = Main

\* What a thread has read with front() is still the head of the list.
FrontInv ==
    \A t \in Threads :
        pc[t] = "front" => conn_list # <<>> /\ conn[t] = Head(conn_list)

\* Nothing is closed before DestroyPool has emptied the list.
ClosedInv == exit \in {"running", "destroying"} => closed = {}

Ownership ==
    TypeOK /\ LockInv /\ FrontInv /\ ClosedInv /\ OneOwner /\ NoUseAfterClose

-----------------------------------------------------------------------------

LEMMA NullHandle == TypeOK => Null \notin Conns
  BY ConnPoolAssumption DEF TypeOK, Conns

LEMMA SameHandles == [Next]_vars => max_conn' = max_conn /\ Conns' = Conns
  BY DEF Next, UserStep, vars, Conns, GetCheck, ReserveWait, ReserveBlock,
     ReserveInterrupted, GetLock, GetFront, GetPop, GetUnlock, ReleaseLock, ReleasePush,
     ReleaseUnlock, ReleasePost, DestroyLock, DestroyClear, DestroyUnlock, DestroyMembers

LEMMA TypeStep == TypeOK /\ FrontInv /\ [Next]_vars => TypeOK'
<1> SUFFICES ASSUME TypeOK, FrontInv, [Next]_vars PROVE TypeOK'
  OBVIOUS
<1> USE ConnPoolAssumption, SameHandles DEF TypeOK, PC, Goto
<1>1. ASSUME NEW t \in Threads,
             GetCheck(t) \/ ReserveWait(t) \/ ReserveBlock(t) \/ ReserveInterrupted(t)
      PROVE TypeOK'
  BY <1>1 DEF GetCheck, ReserveWait, ReserveBlock, ReserveInterrupted
<1>2. ASSUME NEW t \in Threads, GetLock(t) \/ GetFront(t) \/ GetUnlock(t)
      PROVE TypeOK'
  BY <1>2 DEF GetLock, GetFront, GetUnlock
<1>3. ASSUME NEW t \in Threads, GetPop(t) PROVE TypeOK'
  BY <1>3 DEF GetPop
<1>4. ASSUME NEW t \in Threads,
             ReleaseLock(t) \/ ReleaseUnlock(t) \/ ReleasePost(t)
      PROVE TypeOK'
  BY <1>4 DEF ReleaseLock, ReleaseUnlock, ReleasePost
<1>5. ASSUME NEW t \in Threads, ReleasePush(t) PROVE TypeOK'
  BY <1>5 DEF ReleasePush
<1>6. CASE DestroyLock \/ DestroyUnlock
  BY <1>6 DEF DestroyLock, DestroyUnlock
<1>7. CASE DestroyClear
  <2>1. Listed \ {Null} \subseteq Conns
    BY DEF Listed
  <2>2. closed' = closed \/ closed' = closed \cup (Listed \ {Null})
    BY <1>7 DEF DestroyClear
  <2>3. closed' \subseteq Conns
    BY <2>1, <2>2
  <2>4. conn_list' \in Seq(Conns \cup {Null}) /\ free_conn' \in Int /\ cur_conn' \in Int
    <3>1. CASE conn_list = <<>>
      BY <3>1, <1>7 DEF DestroyClear
    <3>2. CASE conn_list # <<>>
      BY <3>2, <1>7 DEF DestroyClear
    <3> QED
      BY <3>1, <3>2
  <2>5. UNCHANGED <<lock, reserve, pc, conn>> /\ exit' = "cleared"
    BY <1>7 DEF DestroyClear
  <2> QED
    BY <2>3, <2>4, <2>5
<1>8. CASE DestroyMembers
  BY <1>8 DEF DestroyMembers
<1>9. CASE UNCHANGED vars
  BY <1>9 DEF vars
<1> QED
  BY <1>1, <1>2, <1>3, <1>4, <1>5, <1>6, <1>7, <1>8, <1>9 DEF Next, UserStep

LEMMA LockStep == TypeOK /\ LockInv /\ [Next]_vars => LockInv'
<1> SUFFICES ASSUME TypeOK, LockInv, [Next]_vars PROVE LockInv'
  OBVIOUS
<1> USE ConnPoolAssumption DEF TypeOK, LockInv, Critical, Goto
<1>1. ASSUME NEW t \in Threads,
             GetCheck(t) \/ ReserveWait(t) \/ ReserveBlock(t) \/ ReserveInterrupted(t)
      PROVE LockInv'
  BY <1>1 DEF GetCheck, ReserveWait, ReserveBlock, ReserveInterrupted
<1>2. ASSUME NEW t \in Threads, GetLock(t) \/ GetFront(t) \/ GetPop(t) \/ GetUnlock(t)
      PROVE LockInv'
  BY <1>2 DEF GetLock, GetFront, GetPop, GetUnlock
<1>3. ASSUME NEW t \in Threads,
             ReleaseLock(t) \/ ReleasePush(t) \/ ReleaseUnlock(t) \/ ReleasePost(t)
      PROVE LockInv'
  BY <1>3 DEF ReleaseLock, ReleasePush, ReleaseUnlock, ReleasePost
<1>4. CASE DestroyLock \/ DestroyClear \/ DestroyUnlock \/ DestroyMembers
  BY <1>4 DEF DestroyLock, DestroyClear, DestroyUnlock, DestroyMembers
<1>5. CASE UNCHANGED vars
  BY <1>5 DEF vars
<1> QED
  BY <1>1, <1>2, <1>3, <1>4, <1>5 DEF Next, UserStep

LEMMA FrontStep == TypeOK /\ LockInv /\ FrontInv /\ [Next]_vars => FrontInv'
<1> SUFFICES ASSUME TypeOK, LockInv, FrontInv, [Next]_vars PROVE FrontInv'
  OBVIOUS
<1> USE ConnPoolAssumption DEF TypeOK, LockInv, FrontInv, Critical, Goto
<1>1. ASSUME NEW t \in Threads,
             GetCheck(t) \/ ReserveWait(t) \/ ReserveBlock(t) \/ ReserveInterrupted(t)
      PROVE FrontInv'
  BY <1>1 DEF GetCheck, ReserveWait, ReserveBlock, ReserveInterrupted
<1>2. ASSUME NEW t \in Threads, GetLock(t) \/ GetFront(t) \/ GetPop(t) \/ GetUnlock(t)
      PROVE FrontInv'
  BY <1>2 DEF GetLock, GetFront, GetPop, GetUnlock
<1>3. ASSUME NEW t \in Threads,
             ReleaseLock(t) \/ ReleasePush(t) \/ ReleaseUnlock(t) \/ ReleasePost(t)
      PROVE FrontInv'
  BY <1>3 DEF ReleaseLock, ReleasePush, ReleaseUnlock, ReleasePost
<1>4. CASE DestroyLock \/ DestroyClear \/ DestroyUnlock \/ DestroyMembers
  BY <1>4 DEF DestroyLock, DestroyClear, DestroyUnlock, DestroyMembers
<1>5. CASE UNCHANGED vars
  BY <1>5 DEF vars
<1> QED
  BY <1>1, <1>2, <1>3, <1>4, <1>5 DEF Next, UserStep

LEMMA ClosedStep == ClosedInv /\ [Next]_vars => ClosedInv'
  BY DEF ClosedInv, Next, UserStep, vars, GetCheck, ReserveWait, ReserveBlock,
     ReserveInterrupted, GetLock, GetFront, GetPop, GetUnlock, ReleaseLock, ReleasePush,
     ReleaseUnlock, ReleasePost, DestroyLock, DestroyClear, DestroyUnlock, DestroyMembers

\* The steps that move no handle keep OneOwner and NoUseAfterClose.
LEMMA QuietStep ==
    ASSUME TypeOK, OneOwner, NoUseAfterClose,
           UNCHANGED <<conn_list, closed>>,
           exit = "destroying" => exit' = "destroying",
           \A t \in Owners' : conn'[t] = Null \/ (t \in Owners /\ conn'[t] = conn[t])
    PROVE  OneOwner' /\ NoUseAfterClose'
<1>1. Listed' = Listed
  BY DEF Listed
<1>2. OneOwner'
  BY <1>1 DEF OneOwner
<1>3. NoUseAfterClose'
  BY <1>1, NullHandle DEF NoUseAfterClose, TypeOK
<1> QED
  BY <1>2, <1>3

\* A handle moves from the head of the list to one thread, from one thread to
\* the end of the list, or out of both.
LEMMA OwnerStep == Ownership /\ [Next]_vars => OneOwner' /\ NoUseAfterClose'
<1> SUFFICES ASSUME Ownership, [Next]_vars PROVE OneOwner' /\ NoUseAfterClose'
  OBVIOUS
<1> USE ConnPoolAssumption
<1>a. TypeOK /\ LockInv /\ FrontInv /\ ClosedInv /\ OneOwner /\ NoUseAfterClose
  BY DEF Ownership
<1>b. /\ pc \in [Threads -> PC] /\ conn \in [Threads -> Conns \cup {Null}]
      /\ conn_list \in Seq(Conns \cup {Null})
  BY <1>a DEF TypeOK
<1>1. ASSUME NEW t \in Threads, GetCheck(t) PROVE OneOwner' /\ NoUseAfterClose'
  <2>1. UNCHANGED <<conn_list, closed, exit>>
    BY <1>1 DEF GetCheck
  <2>2. \A u \in Owners' : conn'[u] = Null \/ (u \in Owners /\ conn'[u] = conn[u])
    BY <1>1, <1>b DEF GetCheck, Goto, Owners
  <2> QED
    BY <2>1, <2>2, <1>a, QuietStep
<1>2. ASSUME NEW t \in Threads,
             \/ ReserveWait(t) \/ ReserveBlock(t) \/ ReserveInterrupted(t)
             \/ GetLock(t) \/ GetFront(t)
      PROVE OneOwner' /\ NoUseAfterClose'
  <2>1. UNCHANGED <<conn_list, closed, exit>>
    BY <1>2 DEF ReserveWait, ReserveBlock, ReserveInterrupted, GetLock, GetFront
  <2>2. \A u \in Owners' : u \in Owners /\ conn'[u] = conn[u]
    BY <1>2, <1>b DEF ReserveWait, ReserveBlock, ReserveInterrupted, GetLock, GetFront, Goto, Owners
  <2> QED
    BY <2>1, <2>2, <1>a, QuietStep
<1>3. ASSUME NEW t \in Threads,
             GetUnlock(t) \/ ReleaseLock(t) \/ ReleaseUnlock(t) \/ ReleasePost(t)
      PROVE OneOwner' /\ NoUseAfterClose'
  <2>1. UNCHANGED <<conn_list, closed, exit, conn>>
    BY <1>3 DEF GetUnlock, ReleaseLock, ReleaseUnlock, ReleasePost
  <2>2. Owners' \subseteq Owners
    BY <1>3, <1>b DEF GetUnlock, ReleaseLock, ReleaseUnlock, ReleasePost, Goto, Owners
  <2> QED
    BY <2>1, <2>2, <1>a, QuietStep
<1>4. ASSUME NEW t \in Threads, GetPop(t) PROVE OneOwner' /\ NoUseAfterClose'
  <2>1. /\ conn_list # <<>> /\ conn[t] = conn_list[1] /\ 1 \in DOMAIN conn_list
        /\ UNCHANGED <<conn, closed, exit>>
    BY <1>4, <1>a, <1>b DEF GetPop, FrontInv
  <2>2. \A i \in DOMAIN conn_list' :
           i \in Nat /\ i >= 1 /\ i + 1 \in DOMAIN conn_list /\ conn_list'[i] = conn_list[i + 1]
    BY <1>4, <1>b, <2>1 DEF GetPop
  <2>3. Owners' = Owners \cup {t}
    BY <1>4, <1>b DEF GetPop, Goto, Owners
  <2>4. Listed' \subseteq Listed /\ conn[t] \in Listed
    BY <2>1, <2>2 DEF Listed
  <2>5. conn[t] \in Listed' => conn[t] = Null
    BY <2>1, <2>2, <1>a DEF Listed, OneOwner
  <2>6. \A i, j \in DOMAIN conn_list' :
           i # j /\ conn_list'[i] = conn_list'[j] => conn_list'[i] = Null
    BY <2>2, <1>a DEF OneOwner
  <2>7. OneOwner'
    BY <2>1, <2>3, <2>4, <2>5, <2>6, <1>a DEF OneOwner
  <2>8. exit # "destroying"
    BY <1>4, <1>a DEF GetPop, LockInv, Critical
  <2> QED
    BY <2>1, <2>3, <2>4, <2>7, <2>8, <1>a DEF NoUseAfterClose
<1>5. ASSUME NEW t \in Threads, ReleasePush(t) PROVE OneOwner' /\ NoUseAfterClose'
  <2>1. /\ t \in Owners /\ Owners' = Owners \ {t} /\ UNCHANGED <<conn, closed, exit>>
    BY <1>5, <1>b DEF ReleasePush, Goto, Owners
  <2>2. /\ Len(conn_list) \in Nat
        /\ DOMAIN conn_list = 1..Len(conn_list)
        /\ DOMAIN conn_list' = 1..(Len(conn_list) + 1)
        /\ \A i \in DOMAIN conn_list : conn_list'[i] = conn_list[i]
        /\ conn_list'[Len(conn_list) + 1] = conn[t]
    BY <1>5, <1>b DEF ReleasePush
  <2>3. Listed' = Listed \cup {conn[t]}
    BY <2>2 DEF Listed
  <2>4. \A i \in DOMAIN conn_list : conn_list[i] = conn[t] => conn[t] = Null
    BY <2>1, <1>a DEF OneOwner, Listed
  <2>5. \A i, j \in DOMAIN conn_list' :
           i # j /\ conn_list'[i] = conn_list'[j] => conn_list'[i] = Null
    BY <2>2, <2>4, <1>a DEF OneOwner
  <2>6. OneOwner'
    BY <2>1, <2>3, <2>5, <1>a DEF OneOwner
  <2> QED
    BY <2>1, <2>3, <2>6, <1>a DEF NoUseAfterClose
<1>6. CASE DestroyLock
  <2>1. UNCHANGED <<conn_list, closed, pc, conn>> /\ closed = {} /\ closed' = {}
    BY <1>6, <1>a DEF DestroyLock, ClosedInv
  <2> QED
    BY <2>1, <1>a DEF OneOwner, NoUseAfterClose, Owners, Listed
<1>7. CASE DestroyClear
  <2>1. /\ closed = {} /\ closed' \subseteq Listed \ {Null} /\ UNCHANGED <<pc, conn>>
        /\ conn_list' = <<>>
    BY <1>7, <1>a DEF DestroyClear, ClosedInv
  <2>2. Listed' = {} /\ Owners' = Owners
    BY <2>1 DEF Listed, Owners
  <2> QED
    BY <2>1, <2>2, <1>a DEF OneOwner, NoUseAfterClose
<1>8. CASE DestroyUnlock
  <2>1. UNCHANGED <<conn_list, closed, pc, conn>> /\ exit = "cleared"
    BY <1>8 DEF DestroyUnlock
  <2>2. Listed' = Listed /\ Owners' = Owners
    BY <2>1 DEF Listed, Owners
  <2> QED
    BY <2>1, <2>2, <1>a DEF OneOwner, NoUseAfterClose
<1>9. CASE DestroyMembers
  <2>1. UNCHANGED <<conn_list, closed, pc, conn>> /\ exit = "destroyed"
    BY <1>9 DEF DestroyMembers
  <2>2. Listed' = Listed /\ Owners' = Owners
    BY <2>1 DEF Listed, Owners
  <2> QED
    BY <2>1, <2>2, <1>a DEF OneOwner, NoUseAfterClose
<1>10. CASE UNCHANGED vars
  BY <1>10, <1>a DEF vars, OneOwner, NoUseAfterClose, Owners, Listed
<1> QED
  BY <1>1, <1>2, <1>3, <1>4, <1>5, <1>6, <1>7, <1>8, <1>9, <1>10 DEF Next, UserStep

LEMMA RunningBefore == [Next]_vars /\ exit' = "running" => exit = "running"
  BY DEF Next, UserStep, vars, GetCheck, ReserveWait, ReserveBlock,
     ReserveInterrupted, GetLock, GetFront, GetPop, GetUnlock, ReleaseLock, ReleasePush,
     ReleaseUnlock, ReleasePost, DestroyLock, DestroyClear, DestroyUnlock, DestroyMembers

\* A handle leaves the list for the thread that pops it, and a thread gives
\* it back to the list.
LEMMA NoneLostStep == Ownership /\ NoneLost /\ [Next]_vars => NoneLost'
<1> SUFFICES ASSUME Ownership, NoneLost, [Next]_vars, exit' = "running", NEW c \in Conns
             PROVE  c \in Listed' \/ \E t \in Owners' : conn'[t] = c
  BY SameHandles DEF NoneLost
<1> USE ConnPoolAssumption
<1>a. /\ pc \in [Threads -> PC] /\ conn \in [Threads -> Conns \cup {Null}]
      /\ conn_list \in Seq(Conns \cup {Null}) /\ FrontInv /\ c # Null
  BY DEF Ownership, TypeOK, Conns
<1>b. c \in Listed \/ \E t \in Owners : conn[t] = c
  BY RunningBefore DEF NoneLost
<1> DEFINE Goal == c \in Listed' \/ \E t \in Owners' : conn'[t] = c
<1>1. ASSUME NEW t \in Threads, GetCheck(t) PROVE Goal
  <2>1. Listed' = Listed
    BY <1>1 DEF GetCheck, Listed
  <2>2. \A u \in Owners : u \in Owners' /\ conn'[u] = conn[u]
    BY <1>1, <1>a DEF GetCheck, Goto, Owners
  <2> QED
    BY <2>1, <2>2, <1>b
<1>2. ASSUME NEW t \in Threads,
             \/ ReserveWait(t) \/ ReserveBlock(t) \/ ReserveInterrupted(t)
             \/ GetLock(t) \/ GetFront(t) \/ GetUnlock(t)
             \/ ReleaseLock(t) \/ ReleaseUnlock(t) \/ ReleasePost(t)
      PROVE Goal
  <2>1. Listed' = Listed
    BY <1>2 DEF ReserveWait, ReserveBlock, ReserveInterrupted, GetLock, GetFront, GetUnlock,
       ReleaseLock, ReleaseUnlock, ReleasePost, Listed
  <2>2. \A u \in Owners : u \in Owners' /\ conn'[u] = conn[u]
    BY <1>2, <1>a DEF ReserveWait, ReserveBlock, ReserveInterrupted, GetLock, GetFront,
       GetUnlock, ReleaseLock, ReleaseUnlock, ReleasePost, Goto, Owners
  <2> QED
    BY <2>1, <2>2, <1>b
<1>3. ASSUME NEW t \in Threads, GetPop(t) PROVE Goal
  <2>1. /\ t \in Owners' /\ conn' = conn /\ Owners \subseteq Owners'
        /\ conn[t] = conn_list[1]
    BY <1>3, <1>a DEF GetPop, Goto, Owners, FrontInv
  <2>2. ASSUME NEW i \in DOMAIN conn_list, conn_list[i] = c PROVE Goal
    <3>1. CASE i = 1
      BY <3>1, <2>1, <2>2
    <3>2. CASE i # 1
      <4>1. i - 1 \in DOMAIN conn_list' /\ conn_list'[i - 1] = c
        BY <3>2, <2>2, <1>3, <1>a DEF GetPop
      <4> QED
        BY <4>1 DEF Listed
    <3> QED
      BY <3>1, <3>2
  <2> QED
    BY <2>1, <2>2, <1>b DEF Listed
<1>4. ASSUME NEW t \in Threads, ReleasePush(t) PROVE Goal
  <2>1. /\ conn' = conn /\ Owners' = Owners \ {t}
        /\ conn_list' = Append(conn_list, conn[t])
    BY <1>4, <1>a DEF ReleasePush, Goto, Owners
  <2>2. /\ DOMAIN conn_list' = DOMAIN conn_list \cup {Len(conn_list) + 1}
        /\ \A i \in DOMAIN conn_list : conn_list'[i] = conn_list[i]
        /\ conn_list'[Len(conn_list) + 1] = conn[t]
    BY <2>1, <1>a
  <2>3. Listed' = Listed \cup {conn[t]}
    BY <2>2 DEF Listed
  <2> QED
    BY <2>1, <2>3, <1>b
<1>5. ASSUME UNCHANGED vars PROVE Goal
  BY <1>5, <1>b DEF vars, Listed, Owners
<1>6. ~DestroyLock /\ ~DestroyClear /\ ~DestroyUnlock /\ ~DestroyMembers
  BY DEF DestroyLock, DestroyClear, DestroyUnlock, DestroyMembers
<1> HIDE DEF Goal
<1>7. Goal
  BY <1>1, <1>2, <1>3, <1>4, <1>5, <1>6 DEF Next, UserStep
<1> QED
  BY <1>7 DEF Goal

LEMMA InitOwnership == Init => Ownership
<1> SUFFICES ASSUME Init PROVE Ownership
  OBVIOUS
<1> USE ConnPoolAssumption
<1>1. max_conn \in Nat
  BY DEF Init
<1>2. /\ conn_list \in [1..max_conn -> Conns] /\ DOMAIN conn_list = 1..max_conn
      /\ \A i, j \in 1..max_conn : conn_list[i] = conn_list[j] => i = j
  BY DEF Init, Conns
<1>3. conn_list \in Seq(Conns \cup {Null})
  BY <1>1, <1>2
<1>4. TypeOK
  BY <1>1, <1>3 DEF Init, TypeOK, PC
<1>5. Owners = {} /\ LockInv /\ FrontInv /\ ClosedInv
  BY DEF Init, Owners, LockInv, Critical, FrontInv, ClosedInv
<1>6. OneOwner /\ NoUseAfterClose
  BY <1>2, <1>5 DEF Init, OneOwner, NoUseAfterClose
<1> QED
  BY <1>4, <1>5, <1>6 DEF Ownership

LEMMA NextOwnership == Ownership /\ [Next]_vars => Ownership'
  BY TypeStep, LockStep, FrontStep, ClosedStep, OwnerStep DEF Ownership

LEMMA OwnershipInvariant == Spec => []Ownership
  BY InitOwnership, NextOwnership, PTL DEF Spec

\* The counters may go wrong, but never a type.
THEOREM TypeCorrect == Spec => []TypeOK
<1>1. Ownership => TypeOK
  BY DEF Ownership
<1> QED
  BY <1>1, OwnershipInvariant, PTL

\* A MySQL handle never has two owners, for any number of threads and handles,
\* with or without signals, before and after main returns.
THEOREM OneOwnerAlways == Spec => []OneOwner
<1>1. Ownership => OneOwner
  BY DEF Ownership
<1> QED
  BY <1>1, OwnershipInvariant, PTL

\* A worker that outlives DestroyPool never uses a handle it has closed.
THEOREM NeverUsedAfterClose == Spec => []NoUseAfterClose
<1>1. Ownership => NoUseAfterClose
  BY DEF Ownership
<1> QED
  BY <1>1, OwnershipInvariant, PTL

\* No handle is ever lost, whoever takes it and whatever main does.
THEOREM NoneLostAlways == Spec => []NoneLost
<1>1. Init => NoneLost
  BY DEF Init, NoneLost, Listed, Conns
<1>2. Ownership /\ NoneLost /\ [Next]_vars => NoneLost'
  BY NoneLostStep
<1> QED
  BY <1>1, <1>2, OwnershipInvariant, PTL DEF Spec

-----------------------------------------------------------------------------

\* Every handle in the list is covered by a unit of the semaphore, by a thread
\* that has taken a unit and not yet popped, or by a post still to come.
Accounting == reserve + Cardinality(Passed) + Cardinality(Unposted) = Len(conn_list)

\* Handles are free or owned; none disappears and no nullptr takes a place.
Conserved == Len(conn_list) + Cardinality(Owners) = max_conn

Running == exit = "running" /\ ~Aborted

\* Inductive while main runs and no wait is interrupted.
CountInv == Ownership /\ Running /\ Accounting

\* No thread has met an empty list or a semaphore at zero.
NullFree ==
    /\ Null \notin Listed
    /\ \A t \in Threads : pc[t] \in {"front", "popped", "using", "releasing"} => conn[t] # Null
    /\ \A t \in Threads : pc[t] # "blocked"

\* Inductive while main runs, with at most max_conn threads.
EnoughInv == CountInv /\ Conserved /\ NullFree

LEMMA CountedFinite ==
    /\ IsFiniteSet(Passed) /\ Cardinality(Passed) \in Nat
    /\ IsFiniteSet(Unposted) /\ Cardinality(Unposted) \in Nat
    /\ IsFiniteSet(Owners) /\ Cardinality(Owners) \in Nat
<1>1. IsFiniteSet(Passed) /\ IsFiniteSet(Unposted) /\ IsFiniteSet(Owners)
  BY FS_Subset, ConnPoolAssumption DEF Passed, Unposted, Owners
<1> QED
  BY <1>1, FS_CardinalityType

\* A thread past the semaphore finds a handle in the list.
LEMMA PassedFindsHandle ==
    ASSUME TypeOK, Accounting, NEW t \in Passed
    PROVE  conn_list # <<>>
<1>1. Cardinality(Passed) # 0
  BY CountedFinite, FS_EmptySet
<1>2. Len(conn_list) # 0
  BY <1>1, CountedFinite DEF Accounting, TypeOK
<1> QED
  BY <1>2

\* One step of the counts. GetCheck answering nullptr is left to the callers of
\* the lemma: it adds an owner without a handle.
LEMMA CountStep ==
    ASSUME CountInv, exit' = "running", [Next]_vars,
           \A t \in Threads : ~ReserveInterrupted(t)
    PROVE  /\ CountInv'
           /\ Conserved /\ (\A t \in Threads : GetCheck(t) => Len(conn_list) # 0) => Conserved'
<1> USE ConnPoolAssumption
<1>a. TypeOK /\ FrontInv /\ Ownership' /\ Running /\ Accounting
  BY NextOwnership DEF CountInv, Ownership
<1>b. /\ pc \in [Threads -> PC] /\ conn_list \in Seq(Conns \cup {Null})
      /\ Len(conn_list) \in Nat /\ reserve \in Nat
  BY <1>a DEF TypeOK
<1>c. /\ IsFiniteSet(Passed) /\ Cardinality(Passed) \in Nat
      /\ IsFiniteSet(Unposted) /\ Cardinality(Unposted) \in Nat
      /\ IsFiniteSet(Owners) /\ Cardinality(Owners) \in Nat
  BY CountedFinite
<1>d. max_conn \in Nat /\ max_conn' = max_conn
  BY <1>a, SameHandles DEF TypeOK
<1> DEFINE Moved == Conserved /\ (\A t \in Threads : GetCheck(t) => Len(conn_list) # 0) => Conserved'
<1>e. \A t \in Threads : pc[t] # "aborted"
  BY <1>a DEF Running, Aborted
<1>1. ASSUME NEW t \in Threads, GetCheck(t) PROVE Running' /\ Accounting' /\ Moved
  <2>1. Running'
    BY <1>1, <1>a, <1>b, <1>e DEF GetCheck, Goto, Running, Aborted
  <2>2. Passed' = Passed /\ Unposted' = Unposted
    BY <1>1, <1>b DEF GetCheck, Goto, Passed, Unposted
  <2>3. Len(conn_list) # 0 => Owners' = Owners
    BY <1>1, <1>b DEF GetCheck, Goto, Owners
  <2>4. conn_list' = conn_list /\ reserve' = reserve
    BY <1>1 DEF GetCheck
  <2> QED
    BY <1>1, <2>1, <2>2, <2>3, <2>4, <1>a, <1>d DEF Accounting, Conserved
<1>2. ASSUME NEW t \in Threads, ReserveWait(t) PROVE Running' /\ Accounting' /\ Moved
  <2>1. Running'
    BY <1>2, <1>a, <1>b, <1>e DEF ReserveWait, Goto, Running, Aborted
  <2>2. Passed' = Passed \cup {t} /\ t \notin Passed /\ Unposted' = Unposted /\ Owners' = Owners
    BY <1>2, <1>b DEF ReserveWait, Goto, Passed, Unposted, Owners
  <2>3. Cardinality(Passed') = Cardinality(Passed) + 1
    BY <2>2, <1>c, FS_AddElement
  <2>4. conn_list' = conn_list /\ reserve' = reserve - 1
    BY <1>2 DEF ReserveWait
  <2> QED
    BY <2>1, <2>2, <2>3, <2>4, <1>a, <1>b, <1>c, <1>d DEF Accounting, Conserved
<1>3. ASSUME NEW t \in Threads,
             ReserveBlock(t) \/ GetLock(t) \/ GetUnlock(t) \/ ReleaseLock(t) \/ ReleaseUnlock(t)
      PROVE Running' /\ Accounting' /\ Moved
  <2>1. Running'
    BY <1>3, <1>a, <1>b, <1>e
    DEF ReserveBlock, GetLock, GetUnlock, ReleaseLock, ReleaseUnlock, Goto, Running, Aborted
  <2>2. Passed' = Passed /\ Unposted' = Unposted /\ Owners' = Owners
    BY <1>3, <1>b
    DEF ReserveBlock, GetLock, GetUnlock, ReleaseLock, ReleaseUnlock, Goto, Passed, Unposted, Owners
  <2>3. conn_list' = conn_list /\ reserve' = reserve
    BY <1>3 DEF ReserveBlock, GetLock, GetUnlock, ReleaseLock, ReleaseUnlock
  <2> QED
    BY <2>1, <2>2, <2>3, <1>a, <1>d DEF Accounting, Conserved
<1>4. ASSUME NEW t \in Threads, GetFront(t) PROVE Running' /\ Accounting' /\ Moved
  <2>1. t \in Passed
    BY <1>4 DEF GetFront, Passed
  <2>2. conn_list # <<>>
    BY <2>1, <1>a, PassedFindsHandle
  <2>3. Running'
    BY <2>2, <1>4, <1>a, <1>b, <1>e DEF GetFront, Goto, Running, Aborted
  <2>4. Passed' = Passed /\ Unposted' = Unposted /\ Owners' = Owners
    BY <2>2, <1>4, <1>b DEF GetFront, Goto, Passed, Unposted, Owners
  <2>5. conn_list' = conn_list /\ reserve' = reserve
    BY <1>4 DEF GetFront
  <2> QED
    BY <2>3, <2>4, <2>5, <1>a, <1>d DEF Accounting, Conserved
<1>5. ASSUME NEW t \in Threads, GetPop(t) PROVE Running' /\ Accounting' /\ Moved
  <2>1. Running'
    BY <1>5, <1>a, <1>b, <1>e DEF GetPop, Goto, Running, Aborted
  <2>2. /\ Passed' = Passed \ {t} /\ t \in Passed /\ Unposted' = Unposted
        /\ Owners' = Owners \cup {t} /\ t \notin Owners
    BY <1>5, <1>b DEF GetPop, Goto, Passed, Unposted, Owners
  <2>3. Cardinality(Passed') = Cardinality(Passed) - 1
    BY <2>2, <1>c, FS_RemoveElement
  <2>4. Cardinality(Owners') = Cardinality(Owners) + 1
    BY <2>2, <1>c, FS_AddElement
  <2>5. Len(conn_list') = Len(conn_list) - 1 /\ reserve' = reserve
    BY <1>5, <1>b DEF GetPop
  <2> QED
    BY <2>1, <2>2, <2>3, <2>4, <2>5, <1>a, <1>b, <1>c, <1>d DEF Accounting, Conserved
<1>6. ASSUME NEW t \in Threads, ReleasePush(t) PROVE Running' /\ Accounting' /\ Moved
  <2>1. Running'
    BY <1>6, <1>a, <1>b, <1>e DEF ReleasePush, Goto, Running, Aborted
  <2>2. /\ Unposted' = Unposted \cup {t} /\ t \notin Unposted /\ Passed' = Passed
        /\ Owners' = Owners \ {t} /\ t \in Owners
    BY <1>6, <1>b DEF ReleasePush, Goto, Passed, Unposted, Owners
  <2>3. Cardinality(Unposted') = Cardinality(Unposted) + 1
    BY <2>2, <1>c, FS_AddElement
  <2>4. Cardinality(Owners') = Cardinality(Owners) - 1
    BY <2>2, <1>c, FS_RemoveElement
  <2>5. Len(conn_list') = Len(conn_list) + 1 /\ reserve' = reserve
    BY <1>6, <1>a, <1>b DEF ReleasePush, TypeOK
  <2> QED
    BY <2>1, <2>2, <2>3, <2>4, <2>5, <1>a, <1>b, <1>c, <1>d DEF Accounting, Conserved
<1>7. ASSUME NEW t \in Threads, ReleasePost(t) PROVE Running' /\ Accounting' /\ Moved
  <2>1. Running'
    BY <1>7, <1>a, <1>b, <1>e DEF ReleasePost, Goto, Running, Aborted
  <2>2. Unposted' = Unposted \ {t} /\ t \in Unposted /\ Passed' = Passed /\ Owners' = Owners
    BY <1>7, <1>b DEF ReleasePost, Goto, Passed, Unposted, Owners
  <2>3. Cardinality(Unposted') = Cardinality(Unposted) - 1
    BY <2>2, <1>c, FS_RemoveElement
  <2>4. conn_list' = conn_list /\ reserve' = reserve + 1
    BY <1>7 DEF ReleasePost
  <2> QED
    BY <2>1, <2>2, <2>3, <2>4, <1>a, <1>b, <1>c, <1>d DEF Accounting, Conserved
<1>8. ~DestroyLock /\ ~DestroyClear /\ ~DestroyUnlock /\ ~DestroyMembers
  BY DEF DestroyLock, DestroyClear, DestroyUnlock, DestroyMembers
<1>9. ASSUME UNCHANGED vars PROVE Running' /\ Accounting' /\ Moved
  BY <1>9, <1>a, <1>d DEF vars, Running, Aborted, Accounting, Conserved, Passed, Unposted, Owners
<1> HIDE DEF Moved
<1>10. ASSUME Next PROVE Running' /\ Accounting' /\ Moved
  <2>1. PICK t \in Threads : UserStep(t)
    BY <1>8, <1>10 DEF Next
  <2> QED
    BY <2>1, <1>1, <1>2, <1>3, <1>4, <1>5, <1>6, <1>7 DEF UserStep
<1>11. CountInv' /\ Moved
  BY <1>9, <1>10, <1>a DEF CountInv
<1> QED
  BY <1>11 DEF Moved

LEMMA InitCount == Init => CountInv /\ Conserved /\ NullFree
<1> SUFFICES ASSUME Init PROVE CountInv /\ Conserved /\ NullFree
  OBVIOUS
<1> USE ConnPoolAssumption
<1>1. Ownership
  BY InitOwnership
<1>2. Passed = {} /\ Unposted = {} /\ Owners = {}
  BY DEF Init, Passed, Unposted, Owners
<1>3. max_conn \in Nat
  BY DEF Init
<1>4. conn_list \in [1..max_conn -> Conns] /\ Len(conn_list) = max_conn
  BY <1>3 DEF Init, Conns
<1>5. Accounting /\ Conserved
  BY <1>2, <1>3, <1>4, FS_EmptySet DEF Init, Accounting, Conserved
<1>6. Running /\ NullFree
  BY <1>4 DEF Init, Running, Aborted, NullFree, Listed
<1> QED
  BY <1>1, <1>5, <1>6 DEF CountInv

\* The three sets of counted threads are disjoint: together with a thread in
\* none of them they are at most all the threads.
LEMMA CountedThreads ==
    ASSUME NEW t \in Threads, t \notin Passed \cup Unposted \cup Owners
    PROVE  Cardinality(Passed) + Cardinality(Unposted) + Cardinality(Owners) < Cardinality(Threads)
<1> USE ConnPoolAssumption
<1>1. Passed \cap Unposted = {} /\ (Passed \cup Unposted) \cap Owners = {}
  BY DEF Passed, Unposted, Owners
<1>2. /\ IsFiniteSet(Passed \cup Unposted)
      /\ Cardinality(Passed \cup Unposted) = Cardinality(Passed) + Cardinality(Unposted)
  <2>1. Cardinality(Passed \cap Unposted) = 0
    BY <1>1, FS_EmptySet
  <2>2. /\ IsFiniteSet(Passed \cup Unposted)
        /\ Cardinality(Passed \cup Unposted) = 
              Cardinality(Passed) + Cardinality(Unposted) - Cardinality(Passed \cap Unposted)
    <3>1. IsFiniteSet(Passed) /\ IsFiniteSet(Unposted)
      BY CountedFinite
    <3> QED
      BY <3>1, FS_Union, Zenon
  <2> QED
    BY <2>1, <2>2, CountedFinite
<1> DEFINE All == Passed \cup Unposted \cup Owners
<1>3. /\ IsFiniteSet(All)
      /\ Cardinality(All) = Cardinality(Passed) + Cardinality(Unposted) + Cardinality(Owners)
  <2>1. Cardinality((Passed \cup Unposted) \cap Owners) = 0
    BY <1>1, FS_EmptySet
  <2>2. /\ IsFiniteSet(All)
        /\ Cardinality(All) =
              Cardinality(Passed \cup Unposted) + Cardinality(Owners)
                - Cardinality((Passed \cup Unposted) \cap Owners)
    <3>1. IsFiniteSet(Owners)
      BY CountedFinite
    <3> QED
      BY <3>1, <1>2, FS_Union, Zenon
  <2> QED
    BY <2>1, <2>2, <1>2, CountedFinite
<1>4. All \in SUBSET (Threads \ {t})
  BY DEF Passed, Unposted, Owners
<1>5. IsFiniteSet(Threads \ {t}) /\ Cardinality(Threads \ {t}) = Cardinality(Threads) - 1
  BY FS_RemoveElement
<1>6. Cardinality(All) <= Cardinality(Threads \ {t})
  BY <1>4, <1>5, FS_Subset
<1>7. Cardinality(Threads) \in Nat /\ Cardinality(All) \in Nat
  BY <1>3, FS_CardinalityType
<1> QED
  BY <1>3, <1>5, <1>6, <1>7

\* With at most max_conn threads, a thread that is not counted finds both a
\* handle in the list and a unit in the semaphore.
LEMMA EnoughLeft ==
    ASSUME EnoughInv, Cardinality(Threads) <= max_conn,
           NEW t \in Threads, t \notin Passed \cup Unposted \cup Owners
    PROVE  Len(conn_list) # 0 /\ reserve > 0
<1>1. Cardinality(Passed) + Cardinality(Unposted) + Cardinality(Owners) < Cardinality(Threads)
  BY CountedThreads
<1>2. Cardinality(Threads) \in Nat /\ max_conn \in Nat
  BY ConnPoolAssumption, FS_CardinalityType DEF EnoughInv, CountInv, Ownership, TypeOK
<1>3. Len(conn_list) \in Nat /\ reserve \in Nat
  BY DEF EnoughInv, CountInv, Ownership, TypeOK
<1>4. /\ reserve + Cardinality(Passed) + Cardinality(Unposted) = Len(conn_list)
      /\ Len(conn_list) + Cardinality(Owners) = max_conn
  BY DEF EnoughInv, CountInv, Accounting, Conserved
<1> QED
  BY <1>1, <1>2, <1>3, <1>4, CountedFinite

\* So no step of such a pool meets an empty list or blocks.
LEMMA EnoughStep ==
    ASSUME EnoughInv, Cardinality(Threads) <= max_conn, exit' = "running", [Next]_vars
    PROVE  EnoughInv'
<1> USE ConnPoolAssumption
<1>a. /\ TypeOK /\ FrontInv /\ NullFree /\ CountInv /\ Conserved
      /\ pc \in [Threads -> PC] /\ conn \in [Threads -> Conns \cup {Null}]
      /\ conn_list \in Seq(Conns \cup {Null})
  BY DEF EnoughInv, CountInv, Ownership, TypeOK
<1>b. \A t \in Threads : GetCheck(t) => Len(conn_list) # 0
  BY EnoughLeft DEF GetCheck, Passed, Unposted, Owners
<1>c. \A t \in Threads : ~ReserveBlock(t)
  BY EnoughLeft DEF ReserveBlock, Passed, Unposted, Owners
<1>d. \A t \in Threads : ~ReserveInterrupted(t)
  BY <1>a DEF ReserveInterrupted, NullFree
<1>1. CountInv' /\ Conserved'
  BY <1>a, <1>b, <1>d, CountStep
<1>2. ASSUME NEW t \in Threads, GetCheck(t) PROVE NullFree'
  BY <1>2, <1>a, <1>b DEF GetCheck, Goto, NullFree, Listed
<1>3. ASSUME NEW t \in Threads, ReserveWait(t) \/ GetLock(t) \/ GetUnlock(t) PROVE NullFree'
  BY <1>3, <1>a DEF ReserveWait, GetLock, GetUnlock, Goto, NullFree, Listed
<1>4. ASSUME NEW t \in Threads, GetFront(t) PROVE NullFree'
  <2>1. conn_list # <<>> => Head(conn_list) \in Listed
    BY <1>a DEF Listed
  <2> QED
    BY <2>1, <1>4, <1>a DEF GetFront, Goto, NullFree, Listed
<1>5. ASSUME NEW t \in Threads, GetPop(t) PROVE NullFree'
  <2>1. Listed' \subseteq Listed
    BY <1>5, <1>a DEF GetPop, Listed
  <2> QED
    BY <2>1, <1>5, <1>a DEF GetPop, Goto, NullFree
<1>6. ASSUME NEW t \in Threads, ReleasePush(t) PROVE NullFree'
  <2>1. Listed' \subseteq Listed \cup {conn[t]}
    BY <1>6, <1>a DEF ReleasePush, Listed
  <2>2. conn[t] # Null
    BY <1>6, <1>a DEF ReleasePush, NullFree
  <2> QED
    BY <2>1, <2>2, <1>6, <1>a DEF ReleasePush, Goto, NullFree
<1>7. ASSUME NEW t \in Threads, ReleaseLock(t) \/ ReleaseUnlock(t) \/ ReleasePost(t)
      PROVE NullFree'
  BY <1>7, <1>a DEF ReleaseLock, ReleaseUnlock, ReleasePost, Goto, NullFree, Listed
<1>8. ~DestroyLock /\ ~DestroyClear /\ ~DestroyUnlock /\ ~DestroyMembers
  BY DEF DestroyLock, DestroyClear, DestroyUnlock, DestroyMembers
<1>9. ASSUME UNCHANGED vars PROVE NullFree'
  BY <1>9, <1>a DEF vars, NullFree, Listed
<1>10. ASSUME Next PROVE NullFree'
  <2>1. PICK t \in Threads : UserStep(t)
    BY <1>8, <1>10 DEF Next
  <2> QED
    BY <2>1, <1>c, <1>d, <1>2, <1>3, <1>4, <1>5, <1>6, <1>7 DEF UserStep
<1> QED
  BY <1>1, <1>9, <1>10 DEF EnoughInv

-----------------------------------------------------------------------------

\* Without interrupted waits, front() never meets an empty list while main runs,
\* however many threads share however few handles.
THEOREM NeverAbortsUninterrupted ==
    ASSUME ~Interrupts
    PROVE  Spec => [](exit = "running" => NeverAborts)
<1> DEFINE Inv == exit = "running" => CountInv
<1>1. Init => Inv
  BY InitCount
<1>2. Inv /\ [Next]_vars => Inv'
  BY CountStep, RunningBefore DEF ReserveInterrupted
<1>3. Inv => (exit = "running" => NeverAborts)
  BY DEF CountInv, Running, NeverAborts
<1> QED
  BY <1>1, <1>2, <1>3, PTL DEF Spec

LEMMA EnoughInvariant == Spec => [](Enough => EnoughInv)
<1>1. Init => (Enough => EnoughInv)
  BY InitCount DEF EnoughInv
<1>2. (Enough => EnoughInv) /\ [Next]_vars => (Enough => EnoughInv)'
  BY EnoughStep, RunningBefore, SameHandles DEF Enough
<1> QED
  BY <1>1, <1>2, PTL DEF Spec

\* With at most max_conn threads, as in the default configuration, GetConnection
\* never answers nullptr while main runs ...
THEOREM NeverNullAlways == Spec => []NeverNull
<1>1. (Enough => EnoughInv) => NeverNull
  BY DEF EnoughInv, NullFree, NeverNull, Owners
<1> QED
  BY <1>1, EnoughInvariant, PTL

\* ... never waits ...
THEOREM NeverBlocksAlways == Spec => []NeverBlocks
<1>1. (Enough => EnoughInv) => NeverBlocks
  BY EnoughLeft DEF NeverBlocks, Enough, Passed, Unposted, Owners
<1> QED
  BY <1>1, EnoughInvariant, PTL

\* ... and never pops an empty list, although signals arrive.
THEOREM NeverAbortsAlways == Spec => []NeverAbortsEnough
<1>1. (Enough => EnoughInv) => NeverAbortsEnough
  BY DEF EnoughInv, CountInv, Running, NeverAbortsEnough
<1> QED
  BY <1>1, EnoughInvariant, PTL
=============================================================================

---------------------------- MODULE LoggerProofs ----------------------------
(***************************************************************************)
(* The safety invariants of Logger, for any number of writers and any      *)
(* length of a file, in both modes.                                        *)
(***************************************************************************)
EXTENDS Logger, TLAPS

(***************************************************************************)
(* Types, and whose line is where: between Format and Copy a thread holds  *)
(* m_mutex and m_buf has its line. The holder of a mutex in TypeOK is what *)
(* keeps everybody else out in between.                                    *)
(***************************************************************************)
Holder ==
    /\ \A t \in Writers : pc[t] = "formatted" => m_mutex = t /\ m_buf = t
    /\ \A t \in Writers : pc[t] = "locked" => b_lock = t

Owned == TypeOK /\ Holder /\ OwnLine

LEMMA OwnedInit == Init => Owned
BY LoggerAssumption, SMT DEF Init, Owned, TypeOK, PC, Holder, OwnLine

LEMMA WriterOwns ==
    ASSUME Owned, NEW t \in Writers, Call(t) \/ Write(t)
    PROVE  Owned'
<1> USE LoggerAssumption DEF Goto, PC, Owned, TypeOK, Holder, OwnLine
<1>1. CASE Call(t)
  BY <1>1, SMT DEF Call, counting
<1>2. CASE Count(t)
  <2>1. m_count' \in Nat /\ buffered' \subseteq Writers
    BY <1>2, SMT DEF Count
  <2>2. pc' = [pc EXCEPT ![t] = "counted"] /\ pc[t] = "called" /\ m_today' = my_tm[t]
        /\ UNCHANGED <<m_is_async, today, m_buf, m_mutex, b_lock, my_tm, log_str, flusher>>
    BY <1>2, Zenon DEF Count
  <2> QED
    BY <2>1, <2>2, SMT
<1>3. CASE Format(t)
  BY <1>3, SMT DEF Format, counting
<1>4. CASE Copy(t)
  BY <1>4, SMT DEF Copy, counting
<1>5. CASE Choose(t)
  BY <1>5, SMT DEF Choose, counting
<1>6. CASE Push(t)
  BY <1>6, SMT DEF Push, counting
<1>7. CASE Put(t)
  BY <1>7, SMT DEF Put, counting
<1>8. CASE Flush(t)
  BY <1>8, SMT DEF Flush, counting
<1> QED
  BY <1>1, <1>2, <1>3, <1>4, <1>5, <1>6, <1>7, <1>8 DEF Write

LEMMA OwnedStep == Owned /\ [Next]_vars => Owned'
<1> SUFFICES ASSUME Owned, [Next]_vars PROVE Owned'
  OBVIOUS
<1> USE LoggerAssumption
<1>1. CASE \E t \in Writers : Call(t) \/ Write(t)
  BY <1>1, WriterOwns
<1>2. CASE Midnight
  BY <1>2, SMT DEF Midnight, Owned, TypeOK, Holder, OwnLine, counting
<1>3. CASE Pop \/ Spurious
  BY <1>3, SMT DEF Pop, Spurious, Owned, TypeOK, Holder, OwnLine, counting
<1>4. CASE UNCHANGED vars
  BY <1>4, SMT DEF vars, Owned, TypeOK, Holder, OwnLine, counting
<1> QED
  BY <1>1, <1>2, <1>3, <1>4 DEF Next

LEMMA OwnedAlways == Spec => []Owned
BY OwnedInit, OwnedStep, PTL DEF Spec

\* Types, and the holder of a mutex is inside its critical section.
THEOREM TypeCorrect == Spec => []TypeOK
<1>1. Owned => TypeOK
  BY DEF Owned
<1> QED
  BY <1>1, OwnedAlways, PTL

\* No thread ever takes the line of another out of m_buf.
THEOREM OwnLineAlways == Spec => []OwnLine
<1>1. Owned => OwnLine
  BY DEF Owned
<1> QED
  BY <1>1, OwnedAlways, PTL

-----------------------------------------------------------------------------
(***************************************************************************)
(* The stdio buffer.                                                       *)
(***************************************************************************)

LEMMA DurableStep == TypeOK /\ Durable /\ [Next]_vars => Durable'
<1> SUFFICES ASSUME TypeOK, Durable, [Next]_vars PROVE Durable'
  OBVIOUS
<1> USE LoggerAssumption DEF TypeOK, Durable, Goto
<1>1. ASSUME NEW t \in Writers, Call(t) \/ Write(t) PROVE Durable'
  <2>1. CASE Call(t)
    BY <2>1, SMT DEF Call
  <2>2. CASE Count(t)
    <3>1. buffered' \subseteq buffered /\ pc[t] = "called" /\ pc' = [pc EXCEPT ![t] = "counted"]
      BY <2>2, Zenon DEF Count
    <3> QED
      BY <3>1, SMT
  <2>3. CASE Format(t)
    BY <2>3, SMT DEF Format
  <2>4. CASE Copy(t)
    BY <2>4, SMT DEF Copy
  <2>5. CASE Choose(t)
    BY <2>5, SMT DEF Choose
  <2>6. CASE Push(t)
    BY <2>6, SMT DEF Push
  <2>7. CASE Put(t)
    BY <2>7, SMT DEF Put
  <2>8. CASE Flush(t)
    BY <2>8, SMT DEF Flush
  <2> QED
    BY <1>1, <2>1, <2>2, <2>3, <2>4, <2>5, <2>6, <2>7, <2>8 DEF Write
<1>2. CASE Midnight
  BY <1>2, SMT DEF Midnight
<1>3. CASE Pop \/ Spurious
  BY <1>3, SMT DEF Pop, Spurious
<1>4. CASE UNCHANGED vars
  BY <1>4, SMT DEF vars
<1> QED
  BY <1>1, <1>2, <1>3, <1>4 DEF Next

\* What a thread has put in the file is out of the stdio buffer when LOG_ returns.
THEOREM DurableAlways == Spec => []Durable
<1>1. Init => Durable
  BY DEF Init, Durable
<1> QED
  BY <1>1, DurableStep, TypeCorrect, PTL DEF Spec
=============================================================================

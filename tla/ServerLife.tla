----------------------------- MODULE ServerLife -----------------------------
(***************************************************************************)
(* WebServer with the signals that drive its timers and end it.            *)
(*                                                                         *)
(* alarm() rings once and is set again only by the tick it has caused.     *)
(* The handler of SIGALRM and SIGTERM writes a byte to a non-blocking      *)
(* pipe whose other end is in epoll; main reads the bytes among the events *)
(* of a batch, and only after the batch does it call tick(), which closes  *)
(* the connections whose time is over, or leave the loop.                  *)
(***************************************************************************)
EXTENDS WebServer

CONSTANT PipeSize  \* the bytes the signal pipe holds

ASSUME PipeAssumption == PipeSize \in Nat \ {0}

VARIABLES alarm,        \* "armed" or "off"
          pipe,         \* how many bytes of each signal m_pipefd holds
          sigevent,     \* whether the batch still holds the event of the pipe
          timeout, stop_server,   \* the locals of eventLoop
          running       \* whether eventLoop has not returned

signals == <<pipe, sigevent, timeout, stop_server, running>>
lifevars == <<vars, alarm, signals>>

Signals == {"ALRM", "TERM"}

LifeInit ==
    /\ Init
    /\ alarm = "armed"
    /\ pipe = [sig \in Signals |-> 0] /\ sigevent = FALSE
    /\ timeout = FALSE /\ stop_server = FALSE /\ running = TRUE

Pending(sig) == pipe[sig] > 0

PipeFull == pipe["ALRM"] + pipe["TERM"] >= PipeSize

(***************************************************************************)
(* The clock and the signals.                                              *)
(***************************************************************************)

LifeTime == running /\ status = "running" /\ TimePasses /\ UNCHANGED <<alarm, signals>>

\* Mutant: the byte is put in the pipe whether it fits or not.
HandlerUnbounded(sig) == pipe' = [pipe EXCEPT ![sig] = @ + 1]

\* send() on the non-blocking pipe; a byte that does not fit is dropped.
SigHandler(sig) == pipe' = IF PipeFull THEN pipe ELSE [pipe EXCEPT ![sig] = @ + 1]

AlarmRings ==
    /\ running /\ alarm = "armed"
    /\ alarm' = "off"
    /\ SigHandler("ALRM")
    /\ UNCHANGED <<vars, sigevent, timeout, stop_server, running>>

\* Bound: no more once the first has been read.
TermArrives ==
    /\ running /\ ~stop_server
    /\ SigHandler("TERM")
    /\ UNCHANGED <<vars, alarm, sigevent, timeout, stop_server, running>>

(***************************************************************************)
(* Main.                                                                   *)
(***************************************************************************)

LifeEpollWait ==
    /\ EpollWait
    /\ sigevent' = (\E sig \in Signals : Pending(sig))
    /\ UNCHANGED <<alarm, pipe, timeout, stop_server, running>>

DealWithSignal ==
    /\ main = "batch" /\ sigevent
    /\ sigevent' = FALSE
    /\ timeout' = (timeout \/ Pending("ALRM"))
    /\ stop_server' = (stop_server \/ Pending("TERM"))
    /\ pipe' = [sig \in Signals |-> 0]
    /\ UNCHANGED <<vars, alarm, running>>

\* The other events of WebServer.
OtherEvent ==
    /\ \/ AcceptNone \/ SpinFinish \/ SpinFlag \/ TickFires \/ TickCrashes
       \/ \E c \in Fds, t \in Timers : Accept(c, t)
       \/ \E c \in Fds :
            \/ HandleHup(c) \/ ProactorRead(c) \/ ProactorWrite(c)
            \/ Dispatch(c, "in", "Read_State") \/ Dispatch(c, "out", "Write_State")
    /\ UNCHANGED <<alarm, signals>>

\* The batch is done: tick, or the test of the loop.
LifeEndBatch ==
    /\ ~sigevent
    /\ EndBatch
    /\ main' = IF timeout THEN "tick" ELSE "wait"
    /\ running' = (timeout \/ ~stop_server)
    /\ UNCHANGED <<alarm, pipe, sigevent, timeout, stop_server>>

\* Mutant: the alarm is set again only when a timer is left.
TickRearmsIfAny ==
    /\ TickEnds
    /\ alarm' = IF live = {} THEN alarm ELSE "armed"
    /\ timeout' = FALSE
    /\ running' = ~stop_server
    /\ UNCHANGED <<pipe, sigevent, stop_server>>

\* Mutant: leaving the loop is tested only after a batch without a timeout.
TickForgetsStop ==
    /\ TickEnds
    /\ alarm' = "armed"
    /\ timeout' = FALSE /\ stop_server' = FALSE
    /\ UNCHANGED <<pipe, sigevent, running>>

\* No timer is left, or the first is not due; the alarm is set, the loop tested.
LifeTickEnds ==
    /\ TickEnds
    /\ alarm' = "armed"
    /\ timeout' = FALSE
    /\ running' = ~stop_server
    /\ UNCHANGED <<pipe, sigevent, stop_server>>

-----------------------------------------------------------------------------

LifeMain ==
    /\ running /\ status = "running"
    /\ LifeEpollWait \/ DealWithSignal \/ OtherEvent \/ LifeEndBatch \/ LifeTickEnds

LifeWorker(w) == status # "crashed" /\ WorkerStep(w) /\ UNCHANGED <<alarm, signals>>

\* Once the loop has ended, what the workers still do is all that is left of interest.
LifeNext ==
    \/ status # "crashed" /\ (AlarmRings \/ TermArrives)
    \/ LifeTime \/ LifeMain
    \/ \E w \in Workers : LifeWorker(w)

LifeSpec == LifeInit /\ [][LifeNext]_lifevars

\* The threads are scheduled, the alarm rings and time passes (strong fairness, as
\* LifeTime waits for the end of a tick); nobody has to send anything.
LifeFairSpec ==
    /\ LifeSpec
    /\ WF_lifevars(LifeMain) /\ SF_lifevars(LifeTime)
    /\ WF_lifevars(status # "crashed" /\ AlarmRings)
    /\ \A w \in Workers : WF_lifevars(LifeWorker(w))

-----------------------------------------------------------------------------

\* Types; the pipe is bounded.
LifeTypeOK ==
    /\ alarm \in {"armed", "off"}
    /\ pipe \in [Signals -> Nat] /\ pipe["ALRM"] + pipe["TERM"] <= PipeSize
    /\ sigevent \in BOOLEAN /\ timeout \in BOOLEAN /\ stop_server \in BOOLEAN /\ running \in BOOLEAN

(***************************************************************************)
(* While the loop runs a tick is always to come: the alarm is set, or its  *)
(* signal is on the way through the pipe to timeout; if the pipe was full  *)
(* and dropped it, a SIGTERM is in there that ends the loop.               *)
(***************************************************************************)
AlarmNeverLost ==
    running => \/ alarm = "armed" \/ timeout \/ Pending("ALRM")
               \/ Pending("TERM") \/ stop_server

\* The busy loop in which main waits for a worker ends.
SpinEnds == main = "spin" ~> main # "spin"

Stuck == status # "running"

\* A connection whose time is over is closed, unless it becomes active again.
IdleClosed ==
    \A c \in Fds :
        c \in open /\ expire[timer[c]] = 0 ~>
            c \notin open \/ expire[timer[c]] > 0 \/ ~running \/ Stuck

\* A connection whose peer has closed is closed, also where EPOLLONESHOT keeps
\* main from seeing it.
HupClosed == \A c \in Fds : c \in hup ~> c \notin hup \/ ~running \/ Stuck

\* A SIGTERM in the pipe ends the loop.
TermStops == Pending("TERM") ~> ~running \/ Stuck
=============================================================================

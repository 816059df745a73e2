# CJJ_webserver in TLA+

TLA+ models of the web server of this repository, TLC runs over small instances
and TLAPS proofs for every instance. The program is under `src/src/` in the paths
below; a path without it (`webserver.cpp:229`) is relative to that directory.

1. [The system](#1-the-system)
2. [The modules and the code](#2-the-modules-and-the-code)
3. [What each run checks](#3-what-each-run-checks)
4. [Fairness](#4-fairness)
5. [Where the code disagrees with its own words](#5-where-the-code-disagrees-with-its-own-words)
6. [What is proved](#6-what-is-proved)
7. [What is not modelled](#7-what-is-not-modelled)
8. [Plan](#8-plan)

## 1. The system

One process. `main` builds a `WebServer` and runs its epoll loop; detached worker
threads of a pool run the requests. The defaults of `utils/config.hpp` are
proactor mode, level-triggered sockets, a synchronous log, 8 workers and 8 MySQL
handles; `TIMESLOT` is 5 s and a connection is closed after three of them.

| Component | State | Operations | Interacts with | What makes it correct |
|---|---|---|---|---|
| `locker`, `sem`, `cond` (`lock/locker.hpp`) | a pthread mutex, semaphore, condition variable | `lock`, `unlock`, `wait`, `post`, `signal`, `broadcast` | everything below; nobody looks at the `bool` they return | part of the models of their users |
| `ThreadPool<T>` (`threadpool/threadpool.hpp`) | `m_workqueue`, `m_queuelocker`, `m_queuestat` | `append`, `append_p` (main); `run` (workers) | hands an `HttpConn*` from main to a worker | every accepted task runs once, in order; no task waits beside a sleeping worker |
| `ConnectionPool`, `ConnectionRAII` (`CGImysql/`) | `conn_list`, `lock`, `reserve`, `free_conn`, `cur_conn` | `init`, `GetConnection`, `ReleaseConnection`, `GetFreeConn`, `DestroyPool` | one handle per running request; the singleton is destroyed when `main` returns, under running workers | a handle has one owner and, while main runs, is not lost; a closed one is not used; `front()` finds an element; who waits is served |
| `SortTimerList`, `UtilTimer` (`timer/`) | `head`, `tail`, `prev`, `next`, `expire` | `add_timer`, `adjust_timer`, `del_timer`, `tick` | main only; `tick` calls `cb_func` | sorted, well linked, a tick fires exactly what is due; a call returns and reads no freed timer |
| `Utils` (`timer/lst_timer.cpp`) | the signal pipe, the alarm, the timer list | `sig_handler`, `addsig`, `timer_handler`, `show_error` | SIGALRM and SIGTERM through a non-blocking pipe to main | a tick is always to come; an idle connection is closed; SIGTERM ends the loop |
| `WebServer` (`webserver.cpp`) | `users[]`, `users_timer[]`, `m_epollfd`, `active_user_fds` | `eventLoop`, `dealclientdata`, `dealwithread`, `dealwithwrite`, `dealwithsignal`, `timer`, `adjust_timer`, `deal_timer` | shares `users[fd]` with the workers: `improv`, `timer_flag`, `m_state`, the descriptor | main is never left spinning; the timer it looks up for a connection is allocated; no descriptor leaks; the user count is right |
| `HttpConn`, reading and parsing (`http/http_conn.cpp`, `http_conn_parse.cpp`) | `m_read_buf` and its three indices, `m_check_state`, `m_content_length` | `read_once`, `process_read`, `parse_line`, `parse_request_line`, `parse_headers`, `parse_content` | called by main (proactor) or a worker (reactor) | the answer does not depend on how TCP cuts the request |
| `HttpConn`, answering (`http/http_conn.cpp`, `http_conn_response.cpp`) | `m_write_buf`, `m_user_count` | `process`, `close_conn`, `init`; `write`, `do_request`, `process_write` are empty | `modfd`, `removefd` | a connection is closed and counted once |
| `Logger`, `BlockQueue` (`logger/`) | `m_buf`, `m_count`, `m_today`, `m_fp`, the queue | `init`, `write_log`, `flush`, `push`, `pop`, `full` | any thread logs; in asynchronous mode a thread writes | lines are not mixed up; a line that was written is not left in a buffer; logging returns |
| configuration, `main`, user table | constants; a map filled before any thread runs | straight-line start-up | | |
| `mysql_demo.cpp`, `learning/`, `debug/`, `reference/`, `test/` | | | no part of the server | |

What is hard in it, and hard to test, is listed line by line under `hazards` in
`PROJECT.json`. In short:

* **Main and the workers share connections without a lock.** In reactor mode main
  spins on `improv` until a worker sets it; `timer_flag` follows as a second
  store. Both sides close descriptors, and the kernel hands a closed descriptor
  to the next client, so everything that is remembered by number (the rest of an
  `epoll_wait` batch, a timer, a queued request) may mean someone else by then.
* **Every wait can be interrupted.** SIGALRM and SIGTERM are installed without
  `SA_RESTART` and the result of `sem_wait` is never looked at.
* **The timers hang on one alarm.** It is set again only by the tick it has caused,
  and its signal goes through a pipe that drops what does not fit.
* **Checks outside of a lock.** `GetConnection` tests the length of the list, and
  `write_log` that of the queue, before they take the lock.
* **Static objects are destroyed under running threads.** Workers are detached,
  and the destructor of the connection pool runs when `main` returns.
* **A hand-written doubly linked list**, whose operations leave pointers behind that
  later ones must not follow, and sometimes do.
* **A parser that keeps indices between calls**, may be called after any byte, and
  shares a buffer of fixed size with two ways of reading a socket.

## 2. The modules and the code

```
TaskQueue      <== refined by ==   ThreadPool     <-- ThreadPoolProofs

SortTimerList  <-- SortTimerListProofs (with Induction)
   <-- TimerList  == refines ==>   TimerQueue     <-- TimerListProofs
   <-- WebServer  <-- ServerLife                  <-- WebServerProofs
                  <-- MCWebServer
                                   HttpParser     <-- HttpParserProofs (with Induction)
                                   ConnPool       <-- ConnPoolProofs
                                   Logger         <-- LoggerProofs
```

An arrow `<--` is EXTENDS, from right to left; `TimerListProofs` and
`WebServerProofs` also extend `SortTimerListProofs`.

Variables and actions carry the names of the code. A step of a model is one
operation another thread can observe; what only one thread can see is one step
with the code around it. A definition marked "Mutant" in a comment is a faulty
version of the one that follows it and is used by no specification; it shows that
the properties notice the fault.

**`TaskQueue`** is what the pool promises: a FIFO; `Submit`, `Start`, `Finish`, and
with `TQFairSpec` a waiting task is started. It says nothing of a bound (section 5).

**`ThreadPool`** is `threadpool.hpp` step by step. `AppendLock`, `AppendFull`,
`AppendPush`, `AppendUnlock`, `AppendPost` are `append` and, without a state
argument, `append_p`. `RunWait`, `RunBlock`, `RunInterrupted`, `RunLock`,
`RunEmpty`, `RunFront`, `RunPop`, `RunUnlock`, `Execute` are `run`. `front()` and
`pop_front()` are two steps, so that the mutex has something to protect. The size
test is the `>` of the code.

**`ConnPool`** is `sql_connection_pool.cpp`: `GetCheck` (the unlocked size test),
`ReserveWait`, `ReserveBlock`, `ReserveInterrupted`, `GetLock`, `GetFront`,
`GetPop`, `GetUnlock` are `GetConnection`; `ReleaseLock` ... `ReleasePost` the
destructor of `ConnectionRAII`, which also gives back a `nullptr`;
`DestroyLock`, `DestroyClear`, `DestroyUnlock` are `DestroyPool`. What follows in the
destructor, the end of the mutex, the semaphore and the list under the workers, is
`DestroyMembers`, and there the specification ends: anything may happen then. It also
ends (`pc = "aborted"`) when `front()` and `pop_front()` meet an empty list.
`max_conn`, what `init` was given, is one of `SqlNums`, so that a run has pools with
more threads than handles and pools with enough. `Interrupts` and `MayExit` say what
the environment does.

**`SortTimerList`** is `lst_timer.cpp` on `head`, `tail`, `next` and `prev`: operators
for `add_timer`, `adjust_timer`, `del_timer` and one iteration of `tick`, called by
`TimerList` and `WebServer` alike. A loop that neither finds what it looks for nor
NULL sets `status` to "hung"; any dereference of NULL or of a timer that is not
allocated, to "crashed". Nothing is said of what main does after either.

**`TimerList`** calls them in any order and with any times, **`TimerQueue`** is what
they promise until one gets stuck: the pending timers in ascending order of `expire`,
equal ones in the order they came or were moved, and a tick that fires exactly the due
ones in that order. A time `Splits` the queue behind the timers that expire up to it;
a timer is inserted there.

**`WebServer`** composes the event loop, the workers, the connections, the timers
and the kernel. `main` is where the loop is: in `epoll_wait` ("wait"), in the
batch, in the loop around `accept` of an edge-triggered listening socket
("accept"), spinning on `improv` ("spin"), looking at `timer_flag` ("flag"), in
`tick()`. `m_listen_trig_mode` is a parameter.

| Action | Code |
|---|---|
| `EpollWait` | `epoll_wait`, with what the clients have sent and closed by then; events are handled in any order, `EPOLLONESHOT` disarms |
| `Accept`, `AcceptNone` | `dealclientdata` with `timer()` and `HttpConn::init`; a failing `accept` or a refusal, which also ends the edge-triggered loop (`Accepts`, `AcceptsNext`) |
| `HandleHup` | `deal_timer` on `EPOLLRDHUP`, `EPOLLHUP`, `EPOLLERR` |
| `Dispatch`, `SpinFinish`, `SpinFlag` | `dealwithread` and `dealwithwrite` in reactor mode |
| `ProactorRead`, `ProactorWrite` | the same in proactor mode |
| `EndBatch`, `TickFires`, `TickEnds`, `TickCrashes` | `timer_handler` after a batch in which SIGALRM was read |
| `TimePasses` | a second |
| `WorkerTakes` ... `WorkerFlags` | `run()` from line 134: read or write, then `improv`, then `timer_flag` |
| `WorkerProcesses` | `process()` that arms the descriptor and returns |
| `WorkerFails`, `WorkerCloses`, `WorkerCounts`, `WorkerRearms` | `process()` that fails: the test of `close_conn`, `removefd`, the rest of it, and the `modfd` behind it, each of which reads `m_sockfd` again |

The pool is the FIFO `ThreadPool` was shown to implement. The timers are the pointers of
`SortTimerList`: the server gives every timer the same `3 * TIMESLOT`, `Span`, so that
its `adjust_timer` always moves to the end, and it deletes the only timer when the only
client goes. A model that stopped at either would have little to say: main goes on
until a call really hangs or dereferences what it must not, and `StuckOnly` says when
that is. `expire` is counted down from `Span`, the present being 0, where it stays:
time is monotone here. What a request holds is nondeterministic, and so is the result
of the functions whose bodies are empty: they are declared `bool` and return nothing.
`read_once` may fail at any time: another worker may have read what there was, or the
buffer be full. When main hangs the workers go on; a crash ends the behaviour.

**`ServerLife`** adds to `WebServer` what drives its timers and ends it: the alarm, the
signal pipe, and `timeout` and `stop_server` of `eventLoop`. Each of its steps is one of
`WebServer` with the part of the new state that step sees, or leaves `WebServer` alone.

| Action | Code |
|---|---|
| `LifeTime` | a second (`cur_stamp` is read once per `tick`) |
| `AlarmRings`, `TermArrives`, with `SigHandler` | `sig_handler`: a byte to the pipe, dropped when it is full |
| `LifeEpollWait` | `epoll_wait`, the pipe among the descriptors |
| `DealWithSignal` | `dealwithsignal`: `recv` takes all bytes; anywhere in the batch |
| `OtherEvent` | the other events of the batch and the iterations of `tick()` |
| `LifeEndBatch` | the end of the batch: `timeout` and the loop condition |
| `LifeTickEnds` | `tick()` at the first timer that is not due, then `alarm` and the loop condition |

**`HttpParser`** is `read_once` and the loop of `process_read`. The stream is made
of units (the text of a line, CR, LF, a byte of the body); a piece ends between
any two. `NoLine`, `RequestLine`, `Header`, `Content` are the iterations of the
loop, `parse_line` the function of that name, on the indices of the code. The socket is
level triggered (one `recv` a call) or edge triggered (`recv` until there is nothing,
`ReadOnce`, or until no place is left in the buffer, `ReadFills`: a `recv` of length 0,
which may answer 0 or EAGAIN).

**`Logger`** is `write_log` in its three critical sections (`Count`, `Format` and
`Copy`, `Put`) and the `flush` every `LOG_` macro calls next (`Flush`; `buffered` holds
who has a line in the stdio buffer). The date of a line is that of the call, or, as
`localtime` returns a buffer all threads share, that of another call under way. In
asynchronous mode `push` takes `b_lock` and calls `full`, which waits for `b_lock`: on
Linux, with a default mutex, the caller waits for itself, so that nothing is ever
queued and the flushing thread only waits (`Pop`, `Spurious`). Which file `m_fp` is,
and how many lines that file holds, is left out: `fopen(..., "a")` may come back to a
file of before.

**`MCWebServer`** adds the symmetry of workers, descriptors and timers. The other
modules are checked as they are.

`PROJECT.json` maps each definition to its lines (`map`).

## 3. What each run checks

Every property is broken by some plausible fault of the code: the `mutants` of
`PROJECT.json` name one for each. `FairSpec` is section 4.

| Run | Instance | Shows |
|---|---|---|
| `ThreadPoolLive` | 1 producer, 2 workers, 2 requests, `m_max_requests` 1, interrupts | `NoLostWakeup`, refinement of `TaskQueue` (`FifoOnce`), `TasksStart` |
| `ConnPool` | 3 threads, 1 or 3 handles, interrupts, the destructor at any time | `OneOwner`, `NoUseAfterClose`, `NoneLost`; who passes the size test is `Served`; with as many handles as threads, the default configuration, `NeverAbortsEnough`, `NeverNull`, `NeverBlocks` |
| `TimerList` | 3 timers, times 0..2, all calls in any order | `WellFormed`, refinement of `TimerQueue` until a call gets stuck (`Implements`), `StuckOnly`, `LeadsOnByMove` |
| `WebServerSafe` | 2 descriptors, 2 timers, 1 worker, `Span` 1, both actor models, edge-triggered listening socket | `Handshake`, `TimerLive`, `TimerGuards`, `NeverOvercounts`, `StuckOnly`, `TickComplete` |
| `ServerLife` | 1 descriptor, 2 timers, 1 worker, `Span` 1, pipe of 2, both actor models, fair | `AlarmNeverLost`, `SpinEnds`, `IdleClosed`, `HupClosed`, `TermStops` |
| `HttpParser` | up to 3 header lines, body up to 2, buffer 13 units, level and edge triggered, no cut inside a body | `NeverEarly`, `CompleteIsAnswered` |
| `Logger` | 3 writers, 2 lines per file, midnight, both modes | `OwnLine`, `Durable`, `LogReturns` |
| `ConnPoolInterrupt`, `TimerListMove`, `WebServerCount`, `WebServerFlag`, `HttpParserSplit` | | violated: section 5 |

What some of the properties say that their names do not:

* `NoLostWakeup`: the tasks that wait are never more than the units of the
  semaphore plus the workers on their way to the queue plus the producers on
  their way to post. An interrupted wait spends no unit and may take a task: it
  only adds to the right-hand side.
* `NoneLost`: while main runs, a handle is in the list or owned by a thread. It does not
  speak of the handles that are in use when `DestroyPool` comes (section 5).
* `WellFormed`: until a call gets stuck, `next` leads from `head` over each live timer
  once, to `tail`, and `prev` leads back. It does not say that `tail` is followed by
  NULL, which is what the code breaks. `Implements` is about the sequence from `head` to
  `tail`, so that it holds behind a cycle as well: there too the calls that return do
  what they promise.
* `StuckOnly`: a call hangs or crashes only where the last timer leads on (`TailLeadsOn`:
  its `next` is not NULL, or `tick` has followed it into freed memory), or where
  `del_timer` deletes the only timer. `LeadsOnByMove`: the last timer comes to lead on
  only by an `adjust_timer` that moves another timer to the end. These two are the
  whole cause of what `TimerListMove` shows.
* `TickComplete`: a tick that returns has left no due timer behind, though it stops at
  the first that is not due and the list may have been rearranged at any time before.
* `Handshake`: in reactor mode a task is unanswered exactly while main spins
  without an answer, it is the one main spins on, and an answer is there only for
  the spin it belongs to. That is why ignoring the result of `append` is
  harmless there: the queue is empty whenever main appends. In proactor mode it is
  not empty; the model takes the refused branch.
* `TimerLive`: the pointer main finds in `users_timer` is one to an allocated timer, for
  the event of a stale batch and after a spin. It says nothing of the pointers inside the
  list, which is what `StuckOnly` is about. `TimerGuards`: every open descriptor has an
  allocated timer that will close this very descriptor, though workers close descriptors
  without a word to main and `accept` returns them again at once; and until a call gets
  stuck, `tick` will come to it.
* `NeverOvercounts`: the count is never above the connections that are open or
  just being closed. It does fall below (section 5), so the limit `MAX_FD` lets
  too many in; what it never does is to refuse clients for ever.
* `AlarmNeverLost`: while the loop runs, the alarm is set, or its signal is in the pipe,
  or its tick is to come. A SIGALRM that the full pipe drops is no exception: there is
  never a second one, so that the pipe is full of SIGTERM, and the loop ends.
* `SpinEnds`: the busy loop ends, whatever the list has come to.
* `IdleClosed`: a connection whose timer is due is closed or becomes active again, or
  the loop ends, or a call of the list gets stuck. `HupClosed`: so is one whose peer has
  closed, though `EPOLLONESHOT` may keep main from ever seeing the hang-up: where a worker
  answers with nothing that arms the descriptor again, the timer ends it. `TermStops`: a
  SIGTERM in the pipe ends the loop, also when it is read in the same batch as a SIGALRM.
  All three are conditional: the code's list does get stuck (section 5), and main with it.
* `NeverEarly`, `CompleteIsAnswered`: the answer, and the unit it comes with, are those
  of the stream in one piece. A request the buffer does not hold may be given up; so may,
  edge triggered, one that just fits.
* `Durable`: the line of a `LOG_` macro is out of the stdio buffer when the macro
  returns, whoever flushed it, or opened the next file, in between.
* `LogReturns` is about synchronous mode and says nothing of the other.

### Bounds

Sets are the smallest in which the actors can meet: two workers and a producer
for the pool; one handle for three threads, so that one waits while another
releases and a third runs past the size test, and three for three; three timers, which is
the least with a middle node next to both ends, and with a cycle that does not come back
to `head`. `WebServer` has two descriptors and two timers, with which the list closes its
cycle and the only timer is deleted, and a stale event, a reused descriptor and an old
timer occur together; one worker, which main meets in every state of `close_conn` and of
the handshake. `WebServerCount` and `WebServerFlag` have two workers. `ServerLife` has one
descriptor, which is still reused and still has timers a worker's `close_conn` has left
behind (two `Timers`), in front of it and due with it. A pipe of two bytes is the
smallest that is full with and without a SIGALRM in it. `Span` 1 tells due timers from
those that are not. A buffer of 13 units holds every request of two header lines, the
longest of them to the last place, and none of three whole ones. Three writers are one in
each critical section of the logger.

The counters that would grow without end have named bounds in guards:
SIGTERM in `ServerLife` (no more once the first has been read),
`MaxDrift` (no `accept` once the user count is further below zero than that; the
closings that take it there are not cut), `MaxTime` of
`TimerList` (three instants order three timers, ties included), `MaxCount` and
`MaxDay` of `Logger` (a change of file and one midnight), `MaxHeaders` and
`MaxBody` of `HttpParser`. The semaphore of `ThreadPool` needs none: a worker
blocks, and can be interrupted, only after it has found it at zero, so that the
units nobody needs never exceed the workers. `Timers` bounds the timers alive at once in
`WebServer`, including those a worker's `close_conn` has left behind. The safety
properties are proved in section 6 for any number of workers, descriptors and timers and
any value of these bounds.

Deadlock is checked where a thread can always go on (`ThreadPoolLive`). It is not where the system may stop: after an abort or the destructor
(`ConnPool`), when a call of the list got stuck (`TimerList`, `WebServerSafe`,
`ServerLife`) or SIGTERM ended the loop, once a request is answered (`HttpParser`), and
when the logger has reached its bounds or waits for itself (`Logger`). There the liveness
properties say that nothing stops before.

## 4. Fairness

* `ThreadPool`: weak fairness of each producer inside `append`, of each worker's
  wait and of its own steps; strong fairness of taking the mutex. No one owes the
  pool another `append`, and no signal has to arrive.
* `ConnPool`: strong fairness of each thread over all its steps but the entry
  into `GetConnection`: semaphore and mutex do not pass a thread over for ever.
* `Logger`: the same for writers inside `write_log`. No one has to log.
* `ServerLife`: weak fairness of main, of each worker, and of the alarm, which the
  kernel rings; strong fairness of `LifeTime`, since time passes, but not inside of a
  tick, which reads it once. Clients and senders of SIGTERM owe nothing.

Strong fairness of mutexes and semaphores is what futexes give in practice; POSIX
does not promise it. `improv` and `timer_flag` are plain integers that one thread
writes and another polls, a data race: the models assume the build of
`CMakeLists.txt`, which sets no optimisation level, so that each iteration loads
them and the two stores stay in order. An optimising build may load `improv` once
and spin for ever.

`Served` holds *unless the process ends*: an interrupted wait may abort it
(section 5), and after `DestroyPool` nobody posts what a waiter waits for.

## 5. Where the code disagrees with its own words

Each of these is a run TLC must find violated; `findings` quotes the lines.

* **`ConnPoolInterrupt`.** More threads than handles, and a signal: `reserve.wait()`
  returns false, `GetConnection` goes on without a unit and calls `front()` on an
  empty list. `locker.hpp` says the `bool` tells whether the call succeeded. With
  as many handles as threads no wait ever blocks (`NeverBlocks`, checked and proved).
* **`TimerListMove`.** `adjust_timer` unlinks a timer and adds it again without
  clearing its `next`. When it becomes the last, the list is a cycle, out of
  order; the next insertion at the end never returns, and a tick that fires the last
  timer goes on in freed memory. The server's `adjust_timer` always moves to the end, so
  this is what a second active client meets. `del_timer` of the only timer dereferences
  NULL, which is what a server meets whose only client goes. Both are in the model of the
  server: `StuckOnly` says that there is no third way.
* **`WebServerFlag`.** A worker publishes `improv` and then `timer_flag`
  (`threadpool.hpp:145`); main may read the flag in between, keep the connection whose
  read has failed, and find the late flag in the next event of that descriptor, which
  may belong to the next client by then. The comments of `http_conn.hpp:96` call
  `improv` the mark that the task is complete.
* **`WebServerCount`.** A worker's `close_conn` leaves the timer in the list, and
  main's `cb_func` leaves `m_sockfd` set: a connection that both close is
  counted down twice.
* **`HttpParserSplit`.** When a piece ends inside the body, `process_read` runs
  `parse_line` once more, which moves `m_checked_idx` to the end of what has
  arrived; the next call asks for `m_content_length` bytes behind that. A body
  that comes in two pieces is never complete.

Four more are plain from the code and have no run of their own. The models do what the
code does, and no property or theorem takes either side:

* **The bound of the queue.** `threadpool.hpp:11` and `:28` call `m_max_requests` the
  most that may wait; the test of `:81` and `:99` is `>`, so that the queue takes one more.
  The theorem `QueueBounded` says by how much the code exceeds its comments; `FifoOnce`
  speaks of no bound.
* **`DestroyPool`.** `sql_connection_pool.hpp:17` says that it destroys all connections;
  those in use stay open (`DestroyClear`), and come back to the list of a pool that is
  being destroyed. `NoneLost` is about the time while main runs.
* **`m_split_lines`.** `logger.hpp:43` calls it the maximum of lines. A line is counted
  before it is written, by a thread that may be late; and a thread whose date is from
  before midnight opens the file of the day before again (`logger.cpp:128`, mode "a"),
  with `m_count` at 0. So a file may hold any number of lines, and `Logger` does not count
  them.
* **The asynchronous log.** `logger/readme.md:3` describes one, and `block_queue.hpp:21`
  says of `push` that the producer writes the log to the buffer. It calls `full` with
  `b_lock` held, `full` locks it again, and the first thread that logs waits for ever.
  `Logger` has that state ("locked") and claims nothing for this mode but what holds
  before it. The default configuration logs synchronously.

## 6. What is proved

For every number of threads, handles, requests, descriptors and timers, from the
named assumption of each module (finite sets, distinct special values, bounds
that are natural numbers):

| Theorem | Says |
|---|---|
| `ThreadPoolProofs!TypeCorrect`, `NoWakeupLost`, `QueueBounded` | the invariants of the pool |
| `ThreadPoolProofs!PoolImplementsTaskQueue` | `Spec => FifoOnce`: every step of the pool is a step of the FIFO or a stutter |
| `ConnPoolProofs!TypeCorrect`, `OneOwnerAlways`, `NeverUsedAfterClose`, `NoneLostAlways` | with signals and with the destructor at any time |
| `ConnPoolProofs!NeverAbortsUninterrupted` | no interrupts, main runs: any number of threads and handles |
| `ConnPoolProofs!NeverNullAlways`, `NeverBlocksAlways`, `NeverAbortsAlways` | at most as many threads as handles, main runs; interrupts allowed |
| `TimerListProofs!TypeCorrect`, `WellFormedAlways` | the shape of the list, for any calls, until one gets stuck |
| `TimerListProofs!ImplementsQueue` | `Spec => Implements`: every call on the pointers is the call of `TimerQueue` on the sequence they lead along, or gets stuck |
| `TimerListProofs!StuckOnlyAlways`, `LeadsOnByMoveAlways` | the only ways to get stuck, and where they come from |
| `WebServerProofs!TypeCorrect`, `NoFreedTimer`, `NoLeakedDescriptor` | `TypeOK`, `TimerLive`, `TimerGuards` |
| `WebServerProofs!StuckOnlyAlways`, `TickCompleteAlways` | `StuckOnly` of the server's calls, `TickComplete` |
| `WebServerProofs!HandshakeHolds`, `CountBound` | `Handshake`, `NeverOvercounts` |
| `WebServerProofs!AlarmNotLost`, `LifeTypeCorrect` | `AlarmNeverLost`, `LifeTypeOK`, for a pipe of any size |
| `HttpParserProofs!TypeCorrect`, `NeverEarlyAlways` | any number of header lines, body, buffer, and cuts anywhere |
| `HttpParserProofs!CompleteIsAnsweredAlways` | no cut inside a body (`~SplitsBody`) |
| `LoggerProofs!TypeCorrect`, `OwnLineAlways`, `DurableAlways` | any number of writers, both modes |

The arguments:

* **Pool.** None of the properties is inductive. `IInv` adds `LockInv` (who is
  between `lock()` and `unlock()` holds the mutex) and `FrontInv` (what a worker
  read with `front()` is still the head of the list when it pops). With these a
  pop removes one task of one woken worker, and both sides of `NoLostWakeup` go
  down by one. The refinement uses the same invariant: `RunPop` is `Start`,
  because the head it removes is the task it took.
* **Handles.** `Ownership` is the same pair with `ClosedInv` (nothing is closed
  before the list has been emptied). The counts need more: `Accounting` (each
  listed handle is covered by a unit, a thread past the semaphore, or a post to
  come), which an interrupt breaks; hence the assumption. `NoneLost` is inductive
  with `Ownership`: a `pop_front` removes the handle `front()` gave to the same thread.
  With enough handles `Conserved` and `NullFree` show that the semaphore is positive
  whenever somebody asks, so that nobody blocks and there is no wait to interrupt.
* **Induction.** The provers cannot instantiate an induction schema. `Induction`
  states it about sets, from the well-foundedness of `<`: a non-empty set of numbers
  has a least element (`LeastNatural`), and one that holds 0 and with each number the
  next holds all of them up to a bound (`BoundedInduction`). Functions that are
  defined by recursion up to a bound then exist (`BoundedRecursion`) and are unique
  (`RecursionUnique`). That gives the walk `Nth` of the timer list, and `Headers` of
  the parser, their equations.
* **Timer list.** The invariant is that, until a call gets stuck, there *is* a sequence
  of the live timers, without repetition and in ascending order of `expire`, along which
  the pointers lead there and back (`Follows`). Of the `next` of the last it says only
  that it is not the last itself; so it holds for a cycle, and that is why it is an
  invariant of this code. `NthSteps` and `ChainIs` show that a walk from `head` passes
  the elements of the sequence until it meets `tail`; so there is only one, and it is
  `Chain`. Each call is then seen on the sequence: the loop of `add_timer` stops where
  the time splits it, and there the timer is inserted (`AddLinks`), or the last timer
  leads on and the loop runs in circles or off into freed memory; `del_timer` takes an
  element out (`DelFollows`) or finds the only one; `adjust_timer` does the one after the
  other (`AdjustFollows`), and only it, when the timer goes last with its old `next`,
  makes the last timer lead on; `tick` takes the first (`FireFollows`), and stops where
  nothing is due, because the order holds (`EndsDue`).
* **Server: timers.** `ListInv` is the same for the server's calls: each keeps it or is
  stuck where `StuckOnly` allows (`ListStep`). `TimerGuards` alone is not inductive, as
  main follows `timer[c]` for descriptors that are not open any more. `TimerInv` extends
  it to the events still in the batch and to the connection main spins on (`GuardInv`),
  and needs that a batch has one event per descriptor and none on the one being spun on
  (`BatchInv`). A timer is freed only with the event that leaves the batch. That a
  guarding timer is reached by `tick` is `Follows` again. `TickComplete` is `EndsDue`.
* **Handshake.** `HandshakeInv` splits the count into its three shapes: the task is
  in the queue (`InQueue`), with one worker (`WithWorker`), or there is none
  (`NoTask`).
* **Count.** `NeverOvercounts` is inductive with `TypeOK`; the proof is that no
  step closes a descriptor without counting it down or being about to.
* **Signals.** A step of `ServerLife` is one of `WebServer` or leaves it alone
  (`LifeStepIsStep`), hence `ServerSafe`: what is proved of `WebServer` holds under
  signals. `AlarmNeverLost` alone is not inductive, because of the pipe that drops bytes:
  `OneAlarm` says that there is at most one SIGALRM about (set, in the pipe, or waiting
  for its tick), so that one that is dropped was dropped by SIGTERMs.
* **Logger.** `Owned` adds to the types that who formats or copies holds `m_mutex`
  and has its own line in `m_buf`. `Durable` is inductive with the types.
* **Parser.** `NeverEarly` says nothing of what happens before an answer. `Shape`
  describes the stream: the lines one after the other, the blank one, the body, by
  induction over the header lines. `InHead` says that `m_start_line` is where a line
  ends, that the lines before it were ended by CR LF, the first of them harmless, and
  that none ends between it and `m_checked_idx`; `InBody` that the blank line has been
  read, and with which length; `LoopStatus` that the loop is entered again only after
  a whole line or in the body. `WholeBody`, which needs `~SplitsBody`, is that the
  position the body is measured from has not moved.

Only model-checked: all liveness (`TasksStart`, `Served`, `SpinEnds`, `IdleClosed`,
`HupClosed`, `TermStops`, `LogReturns`), as liveness under fairness is out of the
prover's reach; the safety half of `TasksStart` is `PoolImplementsTaskQueue`. That
`front()` finds an element for more threads than handles *without* interrupts, and
`QueueBounded`, are theorems and no runs.

## 7. What is not modelled

* **Start-up.** `init`, sockets, configuration, the user table: straight-line code
  before any thread runs. A `ConnectionPool::init` that fails midway leaves the
  semaphore at zero with handles in the list; main, which asks for a handle right
  after it (`webserver.cpp:101`), waits for ever. The models begin after it has
  succeeded. So does a `ThreadPool` whose threads were all created.
* **What follows undefined behaviour**: a timer list that has dereferenced NULL or freed
  memory, a connection pool whose members are destroyed under the workers. The
  specifications end there.
* **The destructor of the server**, which deletes the connections under the workers
  after the loop has ended. `ServerLife` ends with the loop, `ConnPool` models
  `DestroyPool`; what a worker does in freed memory has no outcome to state. Nor is the
  destructor of the timer list modelled, and `get_head`.
* **Edge-triggered connections in `WebServer`**, which the defaults do not use
  (`HttpParser` reads both ways), and clients left in the backlog by the loop around
  `accept`. `active_user_fds` is only printed. A clock that is set back.
* **What is not there.** `write`, `do_request`, `process_write` and all of
  `http_conn_response.cpp` have empty bodies or are commented out, login and
  registration included. `process` itself is modelled with any outcome.
* **Buffers as memory.** The NUL written behind a full buffer, the index that a
  failed `recv` decrements, the over-long log line, the file name appended to the url,
  two workers parsing one connection's buffer.
* **A second request on a connection.** What would prepare for it, `init()` at the end
  of `write`, is not there: the parser goes on in the state the first one left.
* **Files of the logger**: `fopen` at a change of file is modelled only as succeeding,
  and not which file it opens. What `push` and `pop` do with a line is never reached.
* `timewait`, `BlockQueue::clear`, `front`, `size`, `empty` have no caller.

## 8. Plan

Order, most important behaviour first; 1 to 7 are done, and so are the proofs of every
safety property a passing run checks.

1. `TaskQueue`, `ThreadPool` with its proofs; `ConnPool` with its proofs.
2. `SortTimerList`, `TimerQueue`, `TimerList`, first for the calls of the unit tests, now
   for any.
3. `WebServer` with `TimerInv`, the handshake and the count.
4. `HttpParser`, `Logger`.
5. `ServerLife`: the signal pipe, the alarm that re-arms itself, SIGTERM, and with
   them the liveness of the server; the late `timer_flag`.
6. `LoggerProofs`; edge-triggered sockets in `WebServer` (listening) and `HttpParser`.
7. `WebServer` over the pointers of the list, with the states its calls get stuck in.
8. A property that only the connection's own idleness or failure closes it, which the
   timer a worker's `close_conn` left behind breaks for the next client; two workers on
   one connection's buffer; a pool whose `init` fails; a second request.

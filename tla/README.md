# The epoll server of Cplusplus-Learn, in TLA+

The repository is a collection of C++ course notes, exercises and small
programs. One of them is a system: the communication server under
`workspace/project/LinuxNetwork/Ngnix-Learn` (below: *NL*), a server in the
manner of nginx, written against Linux epoll, pthreads and semaphores. This
directory holds TLA+ modules that model it, the TLC configurations that check
them, and TLAPS proofs about its thread pool, its packet receiving, its reply
sending, its connection pool and its processes.

1. [The system](#1-the-system)
2. [What makes it hard](#2-what-makes-it-hard)
3. [The modules](#3-the-modules)
4. [The runs](#4-the-runs)
5. [Where the code and its comments disagree](#5-where-the-code-and-its-comments-disagree)
6. [Fairness](#6-fairness)
7. [The proofs](#7-the-proofs)
8. [What is not modelled](#8-what-is-not-modelled)
9. [The plan](#9-the-plan)

To run everything (in this directory):

    tlc -workers 2 -config Pool.cfg MCThreadPool     # and so on, see section 4
    tlapm ListLemmas.tla
    tlapm ThreadPoolProofs.tla
    tlapm PacketReceiveProofs.tla
    tlapm SendQueueProofs.tla                        # about seven minutes
    tlapm ConnPoolProofs.tla
    tlapm ProcessesProofs.tla

## 1. The system

A master process reads `nginx.conf`, opens the listening sockets, forks the
workers and then sleeps in `sigsuspend`. A worker creates its thread pool, then
three service threads, and serves its clients for ever. Workers share nothing
but the listening sockets; everything below happens inside one worker.

| thread | function | what it does |
|---|---|---|
| main ("epoll") thread | `NgxEPollProcessEvents` | accepts, receives, closes, sends the rest of replies |
| pool threads (2 by `nginx.conf`) | `CThreadPool::ThreadFunc` | take packets and handle them |
| sender | `ServerSendQueueThread` | sends replies |
| recycler | `ServerRecyConnectionThread` | frees closed connections after 80 s |
| timer | `ServerTimeQueueMonitorThread` | closes clients that outstay their time |

A request travels like this: `epoll_wait` -> `NgxReadRequestHandler` puts a
packet together -> `InMsgRecvQueueAndSignal` -> a pool thread,
`ThreadRecvProcFunc` and a handler -> `MsgSend` -> the sender -> `send()`, and
if the kernel takes only a part, `EPOLLOUT` -> `NgxWriteRequestHandler` on the
epoll thread.

### Components

**Thread pool** (`misc/ngx_c_threadpool.cxx`).
*State*: the packet list `mMsgRecvQueue` and its count, `miRunningThreadNum`,
`mShutDown`, a mutex, a condition variable, `ifrunning` per thread.
*Operations*: `Create`, `InMsgRecvQueueAndSignal`, `Call`, `ThreadFunc`,
`StopAll`, the destructor.
*Interaction*: fed by the epoll thread; calls `CLogicSocket::ThreadRecvProcFunc`.
*Correct if*: packets are taken in order and once each, a packet never waits
while all threads sleep, every buffer is freed once, by whoever owns it, and
shutting down ends.

**Reply sending** (`net/ngx_c_socket.cxx`, `net/ngx_c_socket_request.cxx`).
*State*: `mMsgSendQueue` with its mutex, a semaphore, and in each connection
`iThrowSendCount`, `pSendMemPoint`, `pSendBuf`, `iSendLen`.
*Operations*: `MsgSend`, the sender's sweep, `SendProc`,
`NgxWriteRequestHandler`, the decrement on a broken connection.
*Interaction*: the sender and the epoll thread hand a connection to each other
by `iThrowSendCount`, without a lock; `iCurrSequence` tells a reply whose client
is gone.
*Correct if*: a client gets whole replies to its own requests, each once, none
is lost while the client is there, the two threads are never both at work on one
reply, each buffer is freed once.

**Packet receiving** (`net/ngx_c_socket_request.cxx`).
*State*, per connection: `curStat`, `precvbuf`, `irecvLen`, `dataHeadInfo`,
`precvMemPointer`, the flood counters.
*Operations*: `NgxReadRequestHandler` with `RecvProc`,
`NgxWaitRequestHandlerProcPL`, `NgxWaitRequsetHandlerProcLast`; `TestFlood`.
*Interaction*: hands buffers to the pool; the timer thread may close the
connection at any time.
*Correct if*: the stream is cut where the client cut it, whatever `recv()`
returns, and no buffer is lost.

**Connection pool** (`net/ngx_c_socket_conn.cxx`, `net/ngx_c_socket_accept.cxx`).
*State*: `mConnectionList`, the free list and the recycle list with their
counts, `mOnlineUserCount`; per connection `fd`, `iCurrSequence`, `inRecyTime`.
*Operations*: `NgxEventAccept`, `NgxGetConnection`, `NgxFreeConnection`,
`NgxCloseConnection`, `zdCloseSocketProc`, `InRecyConnecQueue`, the recycler.
*Interaction*: the epoll, timer and recycling threads; each list has a lock, the
life of a connection has none.
*Correct if*: no structure is given to two clients, nor to a new one before it
has rested, counts are those of the lists, the limit on clients holds.

**Timers** (`net/ngx_c_socket_time.cxx`, `logic/ngx_c_slogic.cxx`).
*State*: the multimap `mTimeQueueMap`, and `mCurSize` and `mTimerValue`, which
are read without its lock; `lastPingTime` per connection.
*Operations*: `AddToTimeQueue`, `GetOverTimeTimer`, `DeteleFromTimeQueue`,
`ProcPingTimeOutChecking`.
*Correct if*: every client has its timer, and nobody is closed before its time
or for a former client's timer.

**Message handlers** (`logic/ngx_c_slogic.cxx`). Check the CRC field and the
sequence number, then call the handler of the message code: register, login,
ping. *Correct if* nothing is done for a client that has gone.

**Memory, lock guard, CRC-32** (`misc/`, `_include/ngx_c_lockmutex.h`).
`CMemory` wraps `new` and `delete`; `CLock` locks for a scope; `CCRC32` is a
table-driven checksum.

**Master, workers, signals, daemon** (`app/nginx.cxx`, `proc/`, `signal/`).
*State*: the processes, the signal mask, pending signals and running handlers of
the master, `ngxProcess` and `ngxPid` of each, the listening sockets.
*Operations*: `main`, `ngxInitSignals`, `ngxDaemon`, `ngxMasterProcessCycle`,
`NgxSpawnProcess`, `NgxWorkerProcessInit` with what it calls,
`ngxSignalHandler`, `ngxProcessGetStatus`.
*Interaction*: fork, exit codes, `SIGCHLD`, signals from outside; a worker that
serves is where all the parts above run.
*Correct if*: no zombie stays, no signal disturbs the forks, a worker that
serves has every thread and every port, and the exit code of the command is true.

**Configuration, logging, formatting** (`app/`). Sequential code that runs once
or has no state that other code depends on.

**The rest of the repository**: a copy of nginx 1.22.1 for reading, course notes
and exercises, single-file algorithms, small clients and games.

## 2. What makes it hard

`PROJECT.json` lists the hazards, each at its line and with the properties for
it. They come down to seven:

* **Fields of a connection are shared by up to five threads without a lock.**
  What keeps them apart is a protocol: `iThrowSendCount` says which of two
  threads may send, `iCurrSequence` says whether a message is still this
  client's, and the 80 s in the recycle list are to let everybody finish.
* **Check and use are separate steps**: the sequence number and the `send()`,
  the count of clients and its increment, `mTimerValue` and the timer queue.
* **Wake-ups**: `pthread_cond_signal` after the unlock, a broadcast without the
  mutex, `sem_post` before the state it announces.
* **A connection ends in stages**: a client may half-close with requests unread,
  which are then read one piece per event, and the server's own closing is four
  steps that other threads can see between.
* **Partial results**: `recv()` and `send()` move any number of bytes, and the
  rest is another thread's or another event's business.
* **Widths**: a 16-bit length in a `char`.
* **Signals** merge, nest and arrive between any two steps, and the default action
  of the ones without a handler is the end of the process.

## 3. The modules

| module | what it is |
|---|---|
| `ThreadPool` | the pool, one process per thread and one for the thread that feeds and stops it |
| `WorkQueue` | what the pool promises: a FIFO queue with as many slots as threads |
| `ThreadPoolProofs` | theorems about `ThreadPool`, and that it implements `WorkQueue` |
| `SendQueue` | pool threads, sender, epoll thread, recycler and clients around replies |
| `Outbox` | what a client may see of it: whole replies to its own requests |
| `SendQueueProofs` | theorems about `SendQueue`, and that it implements `Outbox` |
| `PacketReceive` | the byte stream of one connection cut into packets |
| `PacketReceiveProofs` | theorems about `PacketReceive` |
| `ConnPool` | connections and timers under the epoll, timer and recycling threads |
| `Leases` | what the pool of structures promises: one client at a time, a new number, a rest |
| `ConnPoolProofs` | theorems about `ConnPool`, and that it implements `Leases` |
| `Processes` | command, daemon, master and workers, up to a serving worker, with signals |
| `ProcessesProofs` | theorems about `Processes` |
| `Lists`, `ListLemmas` | the elements of a `std::list`, each in it once; lemmas about them for three of the proofs |
| `MC...` | the modules as TLC runs them: sets of lengths, symmetry |

Variables, fields and actions have the names they have in the code, typing
errors included (`DeteleFromTimeQueue`, `mTotolRecyConnectionN`). A definition
whose comment starts with *Fault* is no part of a specification: it is the
definition after it with a plausible mistake in it, kept to show that the
properties notice.

**What is one step.** A critical section that no other thread can look into is
one step. Code outside a lock is split at each access whose order another thread
could observe. So a step of `ThreadPool` is a lock, a test, a wait, an unlock;
`SendQueue` has the sender's two checks, the `send()`, the count and `EPOLLOUT`
apart, in both threads the freeing of `pSendMemPoint`, its clearing and the
change of the count that follows, and the test and the decrement of
`zdCloseSocketProc`; `ConnPool` has the timers, `close()` and the recycle list of
`zdCloseSocketProc` apart, for whichever thread calls it.

**`ThreadPool`.** `mpc` is the place of the main thread in `Create`,
`InMsgRecvQueueAndSignal`, `StopAll` and the destructor, `wpc[w]` that of a
thread in `ThreadFunc`. `pthread_cond_wait` is `CondWait` (release and sleep),
then a wake-up (`Call`, `Broadcast` or `SpuriousWakeup`), then `Lock`. Mutex and
wait set are explicit because `StopAll` sets `mShutDown` without the mutex.
`submitted` and `taken` are history variables.

**`SendQueue`.** `conn` holds the fields of the connection structures,
`owner` the client behind a descriptor, `reg` the epoll registration, which
keeps the *pointer* of the last `EPOLL_CTL_ADD` or `_MOD`. `wire` is what was
sent to each client, unit by unit; a reply has `MsgLen` units, and `SendProc`
takes any number of them, or none (`EAGAIN`), or fails. `EpollWait` chooses what
the event's flags are and what the read handler makes of the bytes, since the
bytes are `PacketReceive`'s; `ReadPacket` stamps the message header. Clients may
end (`FIN`) or break (`RST`, also after a `FIN`) at any time. `unread` is what
there is then still to read of them, in pieces (headers, bodies): each event of
an ended client has its `EPOLLRDHUP` or error flag set and takes one piece, and
only when nothing is left must the read handler close. So the branch of
`NgxEPollProcessEvents` that lowers the count on such an event is taken any
number of times up to `MaxUnread` before the connection is closed. The sender
may wake from `sem_wait` without a token (`SemInterrupted`).

**`PacketReceive`.** A byte is `<<client, packet, position>>`, so that a byte in
the wrong place shows. `RecvProc` gives any number of the waiting bytes up to
`irecvLen`; the four `_PKG_` states are the code's. `Char` wraps an integer to
the width of `irecvLen`. If the header buffer does not hold a header of the
client's, its length field can be anything. `recv()` and the handling of its
result are two steps, and the timer thread may close the connection in between;
`iCurrSequence` goes up whenever the structure is taken, closed or freed, and is
read when a header is complete (`ngx_c_socket_request.cxx:243`). `headers` is
what was handed to the pool in the message headers, of all clients so far, since
a packet may wait in the pool while its connection is used again.

**`ConnPool`.** Time is a clock; `Tick` advances it. `owner` maps a descriptor to
the connection it was accepted for, whoever closes it. The kernel hands out the
lowest closed descriptor. `tm` is the timer thread between two sleeps, `ep` the
epoll thread in an accept or in an event, `closing[t]` either of them in
`zdCloseSocketProc`. `mEvents` is what `epoll_wait` has returned and nobody has
handled yet, up to `NGX_MAX_EVENTS` connections and perhaps the listening one;
they are handled in any order, since the kernel promises none. `Leases` has
neither lists nor threads: a structure is free, held by a client (who is first
`entering`) or resting, `number` says how often it has changed hands, and `left`
when its client went. A number always grows with a change of hands, which is why
comparing it tells what is left of a former client from what is the present one's.

**`Processes`.** `main` is the place of the main process, which after `ngxDaemon`
is the daemon; the command that was started is then only its `exitcode`.
`blocked` is the mask of `ngxMasterProcessCycle`, `pending` a set, since signals
of a kind merge, `handlers` the stack of running `ngxSignalHandler` calls. The
empty mask of `sigsuspend` lasts until the outermost handler returns; each
handler blocks its own signal and no other, so handlers nest. One step of
`ngxProcessGetStatus` is one `waitpid`. `worker[w]` goes through `fork`, its
globals, its mask, its threads, its epoll and its ports, each of which may fail
as in the code. `conf` is what `Load` may find; the ports that `opened` counts
are inherited by every worker.

**Abstractions**, in one list:

* `SendQueue` leaves out the timer thread; closing by it is in `PacketReceive`
  and `ConnPool`.
* The 80 s of `mRecyConnectionWaitTime` are taken to be longer than any begun
  step: `PutOneToFree` and `ServerRecyConnectionThread` wait until no thread is
  in the middle of something with the connection, or has an event of it to
  handle (`Busy`). The code has only the time; with threads stalled for 80 s
  nothing would hold.
* Which closed descriptor `accept4` returns is the kernel's choice. `EarlyFd`
  says whether it may be one that a thread in the middle of something still has
  in its connection's `fd`; `send_fd_reuse` has it `TRUE`, the other runs
  `FALSE`. It is a restriction of the kernel, not a guard of the code.
* `MaxUnread` bounds the pieces left to read when a client ends.
* `CheckTime` never sees `mCurSize` or `mTimerValue` half-way through an update.
  `GetOverTimeTimer` looks at the queue again under the lock, so such a value
  can only send the thread there too early, or a round later.
* One event per `epoll_wait` in `SendQueue`, though the code handles an array of
  them; `ConnPool` has the array.
* Handlers produce one reply per packet; message bodies, codes and checksums
  are no part of any module.
* `irecvLen` is signed, as `char` is on x86-64.
* The structures of the listening sockets are not in `Conns`; `Listening` stands
  for one of them in an array of events.
* In `Processes`, three signals stand for all: `CHLD`, `TERM` (handled, and only
  logged) and `USR1` (not handled). A worker has one client at a time, enough for
  what a client can do to a process, and a signal that reaches an unmasked worker
  is taken at once. Handlers log as one step. A signal that ends the command
  between the fork of the daemon and its `return` is left out.
* The calls of `StopAll` and `ShutDownSubProc` stand after a loop without an
  end (`ngx_process_cycle.cxx`). `ThreadPool` follows `StopAll`, since a pool
  has it as an operation; the exits of the three service threads are left out.

## 4. The runs

| run | module, configuration | distinct states | outcome |
|---|---|---|---|
| `pool` | `MCThreadPool`, `Pool.cfg` | 8,358 | holds |
| `send` | `MCSendQueue`, `Send.cfg` | 1,023,098 (with symmetry) | holds |
| `send_live` | `MCSendQueue`, `SendLive.cfg` | 401,958 | holds |
| `send_half_closed` | `MCSendQueue`, `SendHalfClosed.cfg` | | violated |
| `send_lost_wakeup` | `MCSendQueue`, `SendLostWakeup.cfg` | | violated |
| `send_fd_reuse` | `MCSendQueue`, `SendFdReuse.cfg` | | violated |
| `recv` | `MCPacketReceive`, `Recv.cfg` | 349,760 | holds |
| `recv_long` | `MCPacketReceive`, `RecvLong.cfg` | | violated |
| `conn` | `MCConnPool`, `Conn.cfg` | 3,415,418 | holds |
| `conn_double_close` | `MCConnPool`, `ConnDoubleClose.cfg` | | violated |
| `processes` | `MCProcesses`, `Processes.cfg` | 810,269 | holds |
| `process_sigpipe` | `MCProcesses`, `ProcessesPipe.cfg` | | violated |

**`pool`** checks order and counters (`FifoDispatch`), ownership of buffers
(`ExclusiveOwner`), the wake-up (`NoMissedSignal`), that nothing survives the
destructor (`NothingLeftBehind`), that every packet is handled
(`EveryJobFreed`) and the refinement of `WorkQueue`, with its liveness. Two
threads and three packets are enough for the cases that differ: both threads
busy and a packet waiting, a signal for a thread that finds another ahead of it,
a shutdown with packets queued, being handled and being submitted. The proofs
remove the bound for the safety part.

**`send`** has two structures, two descriptors, two clients and two replies of
two units: two replies for one client (one blocked by the other's `EPOLLOUT`),
one each, a client closed with its reply queued, half-sent or in the handler,
its structure and its descriptor used again. Clients half-close, break or leave
at any moment, with a request left to read or none. It checks that a reply is
freed once as long as the server has not closed its client
(`FreedOnceUntilClosed`), that no freed reply is sent (`NoUseAfterFree`), that
none is dropped (`NothingLost`), that the sender and the epoll thread are never
both at work on the reply of a client that has not ended (`OneAtATime`), and the
refinement of `Outbox`. Structures, clients, descriptors and replies are
interchangeable, and the properties are safety properties, so symmetry is sound.

`MaxUnread = 1` is enough for what a half-close adds: the count can be lowered by
an event that does not close (one piece read) and again by the one that does, so
it is seen at 1, 0 and -1, with `EPOLLOUT` registered each time. The proofs
remove this bound with the others. One restriction is left, `EarlyFd = FALSE`:
the kernel does not reuse a descriptor whose connection a thread is in the middle
of. Without it, `send_fd_reuse` shows what happens.

The conditions in the properties are the code's limits, not the runs':

* *As long as the server has not closed the client*: afterwards a reply can be
  freed twice (section 5), so `FreedOnceUntilClosed` stops there.
* *A client that has not ended*: once it has half-closed, the count no longer
  says who has the connection, which is what `send_half_closed` shows. The reply
  that is overwritten is lost and its client gets it cut short. `NoUseAfterFree`,
  `ReplyToRequester` and the rest of `Outbox` (no gap, no reply twice) hold for
  these clients too.

**`send_live`**: a reply the kernel took in part is finished by the epoll thread
(`PartlySentCompletes`), and the structure of a client that has ended can be
used again in the end, whatever was going on with it (`ConnReleased`): a reply
half sent, queued or being handled; also when the client half-closed with
`EPOLLOUT` armed and requests unread. One structure used by two clients in turn,
no symmetry.

**`recv`** has two clients after each other on one structure, up to three packets
each, of five kinds: announced shorter than a header, header only, small body,
the largest body that fits `irecvLen`, longer than allowed. Every way to cut
them into results of `recv()` is explored, with the client ending, breaking, or
being closed by the timer at any point. Header length and char are scaled
(3 bytes and -8..7 for 8 bytes and -128..127), so that the largest body is 7 bytes; the code
uses them only in comparisons, sums and the conversion, which are those of the
module. It checks framing (`FramedRight`), that buffers are neither lost nor
freed twice (`BufferAccounted`), that packets arrive (`PacketsArrive`, with the
flood check off) and that the number in a message header tells clients apart
(`NumberNamesClient`): whenever the pool finds it equal to the connection's, the
packet is not one of an earlier client's. Two clients on one structure are what
that takes. That `irecvLen` is what is missing (`LengthRight`) is left to the
proofs, and to `recv_long` for lengths that do not fit.

**`conn`** has three structures, one there from the start and two that can be
allocated, three descriptors, a limit of two clients, three clients, and a clock
of four instants. The three durations (80 s in the recycle list, 20 s before a
client is kicked, 70 s between pings) are one instant each. That loses their ratios, so behaviours
are explored that the configured values exclude (a structure reused while the
timer thread still has a former client's timer, for one); what holds, holds in
spite of them. Both kick modes are initial states. It checks lists and counters
(`ListsRight`, `OnlineRight`), the limit (`CapacityKept`), the refinement of
`Leases` (`ImplementsLeases`), that no client is
timed out early or for somebody else's timer (`KickedNotEarly`), the copies
that the timer thread reads without the lock (`TimerValueRight`), and that
without a timer thread a client's descriptor stays its own, although a later
event of the same array may be for a connection that an earlier one closed
(`OwnDescriptorUntimed`). Arrays have up to two events, so that one handled
event can make the other stale.

**`processes`** has up to two workers, two ports, a pool of two threads and three
service threads; every step of the start fails or not, `TERM` and `USR1` come
and any process is killed at any moment. Two workers are what it takes for two
deaths to be announced by one `SIGCHLD`, and for one to end while the handler is
busy with the other. It checks that a zombie is never without a `SIGCHLD` pending
or in hand (`ZombieNoticed`), that each is reaped (`Reaped`), that no handler cuts
into the forks or runs in a worker that has not yet its own globals
(`StartUndisturbed`), that a worker which accepts is complete (`ServesAll`), and
that the command's exit code is true, also when the daemon detaches
(`ExitCodeTrue`).

## 5. Where the code and its comments disagree

Six runs violate a property that a comment or the configuration file states.
Each run's trace is the shortest behaviour that shows it.

* **A half-closed client gets two replies at once** (`send_half_closed`). It sends
  two requests and shuts down its side while the first reply waits for
  `EPOLLOUT` and a piece of a request is unread. The event (`EPOLLOUT` with
  `EPOLLRDHUP`, `ngx_c_socket.cxx:742`) only lowers `iThrowSendCount`: `EPOLLOUT`
  stays registered and the first reply current. The sender finds a count of 0,
  takes the connection, although a comment says that nobody gets there with a
  write event in epoll, overwrites `pSendMemPoint` and sends the second reply
  after half of the first, whose buffer leaks. *To repair*: close the connection
  in this branch, or leave the count alone while requests are unread.
* **A reply can stay in the queue** (`send_lost_wakeup`).
  `NgxWriteRequestHandler` posts the semaphore before it decrements
  `iThrowSendCount`; the sender passes over the connection's next reply and goes
  to sleep. The next `MsgSend` of anybody repairs it. *To repair*: post last.
* **A reply can go to another client** (`send_fd_reuse`), when the connection is
  closed, and its descriptor accepted again, between the sender's check and its
  `send()`. The sequence number guards the structure, not the descriptor.
* **Bodies of 128 bytes and more** (`recv_long`) do not fit `irecvLen`: a
  negative length, or 0 for multiples of 256. This run has the real sizes.
* **A connection is closed twice by number** (`conn_double_close`).
  `zdCloseSocketProc` does not set `pConn->fd` to -1, as a comment takes for
  granted (the statement `pConn->fd;` assigns nothing). The timer thread and the
  epoll thread close the same client, and the second `close()` takes the
  descriptor of whoever came in between.
* **A client that resets its connection can end the worker** (`process_sigpipe`).
  `send()` has no `MSG_NOSIGNAL`, `SIGPIPE` no handler. The first `send()` after
  the reset is an error; the second, for another reply in the queue, before the
  epoll thread has read the error, is a `SIGPIPE`. The worker ends with all its
  clients, and the master does not start another.

Four more are without a run of their own.

* **A reply can be freed twice after its client was closed.** A reply waits for
  `EPOLLOUT`, with the count at 1. An event with `EPOLLIN` and `EPOLLOUT`, and no
  end reported, makes the read handler close the connection (a flood, or
  `recv()` finds the end that came meanwhile), and `zdCloseSocketProc` lowers the
  count to 0 before `InRecyConnecQueue` changes the sequence number. In between
  the sender passes both its checks with the client's next reply and stores it in
  `pSendMemPoint` (the first one leaks); its `send()` fails. The same event goes
  on to `NgxWriteRequestHandler`, whose `send()` fails too. Now both threads are
  between `FreeMemory(pSendMemPoint)` and `pSendMemPoint = nullptr`, for one
  pointer. `FreedOnceUntilClosed` without its condition is violated in
  `SendQueue` by just this, in 32 states. No comment or document speaks of it, so
  it is no disagreement.
* **Closing one client deletes everybody's timer**: `DeteleFromTimeQueue` never
  compares the connection (`ngx_c_socket_time.cxx:119`), although the comment
  above it (line 108) speaks of the given user's; the others are never timed
  out. `ConnPool` does as the code does.
* **`TestFlood` returns `true`** instead of `reco`, so that with the check on
  every client is closed at its first packet.
* **`StopAll`** sets the flag and broadcasts without the mutex, so that a thread
  between its test and its wait misses both and is waited for. Nothing reaches
  it in a running server.

## 6. Fairness

Safety properties are checked, and proved, without fairness. For the liveness
properties:

* `ThreadPool!Fairness`: weak fairness for each pool thread and for the main
  thread inside a call. They are operating-system threads, and each blocks only
  where its action is disabled. Nothing makes a packet arrive, `StopAll` be
  called, or a spurious wake-up happen.
* `SendQueue!Fairness`: weak fairness for the sender and for the handling of an
  event that has begun. Strong fairness for the pool threads (all of them
  together), whose `MsgSend` needs the queue's mutex, for an armed `EPOLLOUT`,
  which is level-triggered and reported in some `epoll_wait` even if others come
  first, and for `WriteMore` finishing a reply: a client that stays takes bytes
  in the end. It is this last assumption that `PartlySentCompletes` needs of a
  client. Weak fairness for the report of a client's end, since `EPOLLRDHUP` is
  level-triggered, and for the recycling thread, which looks every 200 ms;
  `ConnReleased` needs both. With several descriptors the report would need
  strong fairness, because `epoll_wait` may begin with another one; the run has
  one descriptor, where weak is enough. No signal is promised: an interrupted
  `sem_wait` may happen or not (`SemInterrupted` is no part of the sender's
  fairness), so it cannot repair a lost wake-up.
* `PacketReceive!Spec`: weak fairness for the epoll thread's handler, since
  `EPOLLIN` is level-triggered too. Clients need not send.
* `Processes!Fairness`: weak fairness for the master's own steps. Strong fairness
  for the delivery of `SIGCHLD`, because the kernel delivers every open signal
  before it returns to the program but `sigsuspend` opens it only now and then,
  and for the handlers, because signals sent from outside interrupt them and
  are not sent without a pause. Nothing makes a signal come or a worker end.
* `ConnPool` has no fairness and no liveness property.

The temporal violation (`send_lost_wakeup`) is found under this fairness: the
threads go on, and the thing does not happen.

## 7. The proofs

### The thread pool

`ThreadPoolProofs` proves, for any finite non-empty set of threads and any set of
packets (`WorkersAssumption`, `JobsAssumption`: the two extra values are not
among them; nothing else is assumed):

| theorem | statement |
|---|---|
| `InvHolds` | `Spec => []IInv` |
| `TypeCorrect` | `Spec => []TypeOK`; with it `miRunningThreadNum` in `0..miThreadNum` |
| `Fifo` | `Spec => []FifoDispatch` |
| `Exclusive` | `Spec => []ExclusiveOwner` |
| `SignalSuffices` | `Spec => []NoMissedSignal` |
| `AllFreed` | `Spec => []NothingLeftBehind` |
| `PoolImplementsQueue` | `Spec => Queue!SafeSpec`: every step is one of `WorkQueue`'s, or none |

None of the invariants is inductive by itself. `IInv` joins them with

* `Control`: who holds the mutex, and what a thread inside the critical section
  may rely on. A thread about to wait has seen an empty queue, and it still is
  empty, since adding needs the mutex; a thread about to take has seen a packet
  *or* the flag, and the flag never goes back. Without it `Take` could be
  applied to an empty queue, and `NoMissedSignal` would not survive a thread
  going to sleep.
* `Counters`: a buffer in a thread's hands is a place in its code, and
  `miRunningThreadNum` is the number of threads inside a handler. That bounds it,
  by the cardinality of a subset of the threads.
* `Buffers`: no buffer is queued twice, and each that ever was is queued, in a
  thread's hands or freed. `ExclusiveOwner` rests on it: the head of the queue is
  not among the taken ones.

The proof that a step preserves `IInv` has a step per action. Most actions move
no buffer; `QuietStep` treats what they have in common once, and `Moved` says
what the change of one thread's place means. `InMsgRecvQueue`, `Take`,
`StartJob`, `FinishJob` and `ClearMsgRecvQueue` are proved conjunct by conjunct,
on the lemmas `AppendNew`, `ElemsHeadTail`, `ElemsConcat` and `MoveHead` of
`ListLemmas` about the elements of sequences.

### Packet receiving

`PacketReceiveProofs` is about any sizes (`LensAssumption`: a header fits a char
and is no longer than the limit), any numbers of clients and packets, and any
`None` that is not a buffer. One more condition stands in each theorem, since the
code does not establish it. What depends on the length of a body needs the
first, the rest only the second, weaker one:

    Fits        == \A L \in Lens : Valid(L) => L - HdrLen <= CharMax
    NotNegative == \A L \in Lens : Valid(L) => Char(L - HdrLen) >= 0

`Fits`: every acceptable body has a length that `irecvLen` can hold. The run
`recv_long` shows what happens without. `NotNegative`: it may be longer, and
what `irecvLen` makes of it may be too little (256 bytes become 0, 260 become
4), but not below zero. With a negative length `recv()` is called with a huge
`size_t`, and from there on the module says nothing true of the code, so this
much every theorem assumes.

| theorem | statement |
|---|---|
| `BufferInvHolds` | `NotNegative => (Spec => []BufferInv)` |
| `TypeCorrect` | `NotNegative => (Spec => []TypeOK)` |
| `NeverOverrun` | `NotNegative => (Spec => []WithinBuffer)` |
| `BuffersAccounted` | `NotNegative => (Spec => []BufferAccounted)` |
| `NumbersCorrect` | `NotNegative => (Spec => []NumberNamesClient)` |
| `InvHolds` | `Fits => (Spec => []IInv)` |
| `LengthCorrect` | `Fits => (Spec => []LengthRight)` |
| `FramingCorrect` | `Fits => (Spec => []FramedRight)` |

`WithinBuffer` says that the handler never asks for more bytes than there is
room for, in the header array or in the packet's buffer. A length that was cut
loses the client's framing, but neither a buffer nor who a packet is from.

None of these is inductive alone: a step of the handler depends on a result
`reco` of `recv()` that was obtained in an earlier step, before the timer thread
may have closed the connection. `BufferInv` says of a structure in use
(`ConnRight`) that `reco` is at most `irecvLen`, that no more is asked for than
is missing, that the buffer really holds the `precvbuf + reco` bytes that the
offset claims, and that a packet buffer exists exactly in the two body states.
The last is what `BufferAccounted` rests on, the one before what keeps every
buffer a sequence of bytes; and a structure that is free has neither a pending
result nor a buffer. `IInv` adds `Exact`: *all* that is missing is asked for, and
at least a byte is. The proof has a lemma per group of actions (`InvPart`,
`InvReject`, `InvProcPL`, `InvCompletes`, `InvRecvProc`, ...), on lemmas about
the operators: `CharId` and `CharSmaller` (a length that fits is not changed, one
that does not and is not negative gets smaller), `WriteIn`, `PkgLensIn`, `Used`
and `InUse` (the fields of a structure in use, in one place).

`FramedRight` speaks of what was handed over; what keeps it true is where the
packets begin in the bytes still to come. `Framing(c, f)` says that packet `c` is
being received and packet `q` begins behind place `f[q]` of the stream, counted
from its front, so that `f[c]` is below zero by exactly the bytes already in the
buffer; every packet begins where the one before it ends, the last ends with the
stream, and each byte in between is the right one. Receiving `m` bytes shifts `f`
by `m` (`FramedRecvProc`), a packet more extends it (`FramedSendPkt`), a packet
done with leaves `f` and raises `c` (`NextPacket`). So a header that is complete
is the client's (`HeaderRead`), and its length field what the client wrote.
`Framing` holds as long as something may still be handed over (`FramingInv`):
after a flood or a closing nothing more is, and the stream no longer matters.

`NumbersInv` makes `NumberNamesClient` inductive: numbers handed over never exceed
the connection's, and those of former clients are below it. The number of the
packet being received is bounded the same way, and its bytes are this client's
by `OwnInv`: whatever is in the stream or in a buffer came by this connection.
That holds where `Framing` is lost.

### Reply sending

`SendQueueProofs` is about any sets of structures, descriptors, clients and
replies, replies of any length (`MsgLenAssumption`: at least one unit), any
number of requests left unread by a client that ends, and any `None` that is none
of them. One condition remains, under which the runs check too: `~EarlyFd`.

| theorem | statement |
|---|---|
| `Invariance` | `~EarlyFd => (Spec => []IInv)` |
| `TypeCorrect` | `~EarlyFd => (Spec => []TypeOK)` |
| `FreedOnce` | `~EarlyFd => (Spec => []FreedOnceUntilClosed)` |
| `NoFreedSent` | `~EarlyFd => (Spec => []NoUseAfterFree)` |
| `NoReplyLost` | `~EarlyFd => (Spec => []NothingLost)` |
| `NeverBothAtWork` | `~EarlyFd => (Spec => []OneAtATime)` |
| `OwnReplies` | `~EarlyFd => (Spec => []ReplyToRequester)` |
| `Refinement` | `~EarlyFd => (Spec => ImplementsOutbox)` |

`OwnReplies` is the property that `send_fd_reuse` violates with `EarlyFd = TRUE`:
together they say that the early reuse of a descriptor is the only way for a
reply to reach another client. `NeverBothAtWork` and `send_half_closed` stand in
the same relation: the sender meets the epoll thread on an open connection only
if the client has ended.

The parts of `IInv` follow the three devices by which the code keeps threads
apart, and say how long each is good for:

* **What a number stands for.** `Links`: a descriptor that leads to a client is
  registered with the structure that has it, and no two lead to the same client.
  `SequenceRight`: if the number in a message header is still the connection's,
  the structure is in use and its descriptor leads to the client that sent the
  request, or to nobody any more; and as long as the client has not been closed,
  the number is still the connection's. The first half is why `CheckSequence` may
  be relied on, the second why it drops nothing that is wanted (`NothingLost`).
  This holds of every client, whatever became of it.
* **Who may send.** `Protocol`, for a connection on which the epoll thread may
  still send (`Served`: its client has not ended, or the event being handled is
  from before its end): `iThrowSendCount` is 1 exactly from the sender's `++`
  until the epoll thread's `--`; the sender is inside its part only when
  `EPOLLOUT` is not armed, and the epoll thread in its part only when it is, or
  was until the last step. Of a client that has ended nothing of the kind is
  true. What saves the rest is that an ended client's events never reach
  `NgxWriteRequestHandler` (`EpollRight`), so as long as the connection has not
  been closed (`Leads`) its current reply is the sender's alone.
* **How far a reply is.** `Progress`: at each place of the two threads, what the
  client has got of the current reply (`Upto`): nothing before `send()`, the
  first units while it is armed, all of it from `EPOLL_CTL_MOD` on. Whenever the
  count is 0 and no result of `send()` is being looked at, the bytes end with a
  whole reply. For an ended client nothing of this holds, but there only the
  sender sends, each reply from its beginning and none of which any client has
  got a unit (`InHand`): that is what `Outbox` still promises, no gap and no
  reply twice.

`Buffers` and `InHand` say where a reply's buffer is: in the queue or the current
one of its own connection, never both, and freed in neither case, except between
the freeing of a pointer and its clearing (`Dangling`), when a connection still
points to a freed reply. For a connection that `Leads` to a client at most one
thread can be there, and nobody else follows the pointer; that is
`FreedOnceUntilClosed`. Once it has been closed, nothing is claimed of who frees
what, and the second half of section 5's double free begins there.

The proof has a lemma per action (`InvAccept`, `InvSend`, `InvSendPartly`, ...).
A step concerns one connection or none: `Untouched` lists what must be unchanged
for the invariant of the others to carry over, and `OneTouched` leaves only the
one to look at. `SameLinks` does it for the steps that accept and close nothing.
`FreeCurrent` and `ClearCurrent` are the two halves of giving a reply back, for
whichever of the threads does it; `CountDown` the three decrements of the count;
`ClosingStep` what the steps of `zdCloseSocketProc` share. `SendProcSends` and
`SendProcKeeps` are what `send()` does to the bytes, `Erased` (in `ListLemmas`)
what the sweep does to the queue. Recycling needs `Busy` (section 3), as in
`ConnPool`. For the refinement, `SendIsOSend` shows that a `send()` which moves
bytes is `Outbox`'s step, and `BoxNext` that every other step is one that makes a
reply known, one that ends a client, or a stutter.

### The connection pool

`ConnPoolProofs` is about any finite sets of structures and descriptors, any
durations, any number of clients and any size of the array of events. The
assumptions are those named in `ConnPool`, and the abstraction `Busy` (section
3) is part of the model: the theorems hold as long as no thread stays in the
middle of something for longer than `mRecyConnectionWaitTime`.

| theorem | statement |
|---|---|
| `Invariant` | `Spec => []IInv` |
| `TypeCorrect` | `Spec => []TypeOK` |
| `NoStructureShared` | `Spec => []ListsRight` |
| `OnlineCounted` | `Spec => []OnlineRight` |
| `CapacityBound` | `Spec => []CapacityKept` |
| `NoneKickedEarly` | `Spec => []KickedNotEarly` |
| `TimerCopiesRight` | `Spec => []TimerValueRight` |
| `OwnDescriptorKept` | `Spec => []OwnDescriptorUntimed` |
| `LeasesKept` | `Spec => ImplementsLeases`: every step is one of `Leases`', or none |
| `NumbersTell` | `Spec => [][NumberTells]_vars` |

The argument is about who holds a structure. `Lists` says that the free list and
the recycle list have no repeats and nothing in common; `Holders` that whatever
a thread is in the middle of (an accept, an event, a call of
`zdCloseSocketProc`) is allocated and not free, and how far it is: that is what
`Busy` gives, and without it the recycler could free a structure between two
steps of a closer, and `InRecyConnecQueue` would put it into a list that it is
already out of. `TimersOfClients` says what a sequence number proves: a timer
whose number is still its connection's belongs to the client that is there now,
since `InRecyConnecQueue` and `GetOneToUse` both raise the number, so the timer
thread may rely on one comparison. `Times` bounds the instants by the clock,
`Descriptors` and `Untimed` relate `fd` and `owner`. `Limited` is `CapacityKept`
with the client that is being accepted counted in: the check and the increment
of `mOnlineUserCount` are separate steps, and only the epoll thread increments.

For the refinement each action has a lemma. A structure is held when it is
allocated and in neither list, and entering from `NgxGetConnection` until
`AddToTimeQueue`. `NgxEventAccept` is `LLease` (by `OnlineRight` the count it
tests is the number of held structures), `NgxCloseConnection` is `LTurnAway`,
`AddToTimeQueue` is `LAdmit`, and `ServerRecyConnectionThread` `LRested`.
`InRecyConnecQueue` is `LLeave` for the first of the threads that close a client
and no step for the second, who finds the structure in the recycle list
(`LeaseLeave`); by `Holders` it is not the one being accepted, and not free.
Every other step of the three threads is none of `Leases`' (`LeaseRest`).
`Recycled`, `TurnedAway`, `Freed` and `Accepted` say once what the four actions
do to lists and structures, for these lemmas and for those of the invariant.

`NumbersTell` follows from it: as long as a structure keeps its number it stays
with its client, at rest or free, and no number comes back. Pool threads, sender
and timer thread note a number and compare it later; this is what the
comparison tells them, for any number of steps in between.

### The processes

`ProcessesProofs` is about any number of workers, ports and pool threads.

| theorem | statement |
|---|---|
| `Invariant` | `Spec => []IInv` |
| `TypeCorrect` | `Spec => []TypeOK` |
| `ZombiesNoticed` | `Spec => []ZombieNoticed` |
| `StartsUndisturbed` | `Spec => []StartUndisturbed` |
| `AllServed` | `Spec => []ServesAll` |
| `ExitCodesTrue` | `Spec => []ExitCodeTrue` |

`IInv` adds to `TypeOK` and `ZombieNoticed`: what holds of mask, handlers, ports
and exit code at each place of `main` (`Stages`), that no worker exists before the
forks (`Children`), and what a worker has at each place of its start (`Right`).
`ZombieNoticed` itself is inductive but for one case, the return of the handler
of `SIGCHLD`: its loop ends only when `waitpid` finds no zombie (`InvReturn`),
and a worker that ends afterwards makes the signal pending again. The stack of
handlers needs `Pushed` and `Popped`: a `SIGCHLD` handler below another one is
still there when that one returns. The workers' steps all go through two
lemmas, `Moves` and `Exits`.

### Only model-checked

Everything about liveness, which is out of TLAPS's reach together with
`ENABLED`: `EveryJobFreed`, the fairness of `WorkQueue`, `PartlySentCompletes`, `ConnReleased`,
`PacketsArrive`, `Reaped`. Every other property of a run that holds is proved.

## 8. What is not modelled

* **The path for kernels without `accept4`**, and errors of `accept4` that end
  the handler without a change of state.
* **`ClearConnection`, `ClearAllFromTimerQueue`, `ClearMsgSendQueue`** and the
  exits of the service threads: after the endless loop of the worker.
* **Socket options and addresses** of the listening sockets; the calls are there
  as steps that succeed or fail. `NgxCloseListeningSockets` is called by nobody.
* **Message bodies**: register and login only log and answer with fixed data.
* **CRC-32**: the result is only copied into replies, the comparison is
  commented out (`ngx_c_slogic.cxx:96`), and its words have 32 bits, one more
  than TLC's integers have for them.
* **Configuration, logging, formatting, process titles**: parsing and I/O. The
  configured values are constants of the modules, and `conf` in `Processes`.
* **nginx 1.22.1**: third-party. **Notes, exercises, small programs, games**: no
  part of the server; the sorting, searching and dynamic-programming exercises
  would make a module of pure functions.

## 9. The plan

Done, in the order of importance: `ThreadPool` with `WorkQueue` and its proofs,
`SendQueue` with `Outbox` and its proofs, `PacketReceive` with its proofs,
`ConnPool` with events in arrays, `Leases` and its proofs, `Processes` with its
proofs.

Left:

1. **`Server`**, a composition of receiving, pool, sending and connection pool,
   each reduced to its steps on the shared fields. What two of them share is
   checked in one of them now: the number read after `recv()` in `PacketReceive`
   (`NumberNamesClient`), the numbers against the sender in `SendQueue`
   (`ReplyToRequester`), the two closers in `ConnPool`. The composition would say
   in one module that what is done for a packet is done for the client that sent
   it, unless its descriptor was closed by the second of two closers.
2. `ConnPool`: liveness. A client without pings is closed, and a connection
   closed by two threads is free again (for the epoll thread alone it is
   `ConnReleased` of `SendQueue`).

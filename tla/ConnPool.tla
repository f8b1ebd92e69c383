------------------------------- MODULE ConnPool -------------------------------
(***************************************************************************)
(* The connection structures of CSocket: how they are taken at accept,     *)
(* timed, closed, kept for mRecyConnectionWaitTime seconds and freed for   *)
(* the next client.  Three threads share them:                             *)
(*   - the epoll thread accepts (NgxEventAccept) and, when a client ends   *)
(*     or an error is read, closes (zdCloseSocketProc);                    *)
(*   - the timer thread (ServerTimeQueueMonitorThread) takes the timers    *)
(*     that have run out and closes clients by the same function;          *)
(*   - the recycling thread (ServerRecyConnectionThread) frees.            *)
(* zdCloseSocketProc is a step per lock or system call, for either thread. *)
(*                                                                         *)
(* Time is a clock of whole seconds.  A descriptor stands for the          *)
(* connection it was last accepted for, also when somebody else closes it. *)
(* Buffers and iThrowSendCount are in PacketReceive and SendQueue; the     *)
(* structures of the listening sockets are never given back and are not    *)
(* in Conns.                                                               *)
(***************************************************************************)
EXTENDS Integers, Sequences, FiniteSets, Lists

CONSTANTS Conns,               \* bound: structures that can be allocated
          Fds,                 \* numbers of descriptors the kernel hands out
          mWorkerConnections,
          InitialFree,         \* structures InitConnection leaves free
          mRecyConnectionWaitTime,
          miWaitTime,
          PingLimit,           \* miWaitTime * 3 + 10
          KickSettings,        \* values of miFTimeOutKick
          TimeSettings,        \* values of mifKickTimeCount
          NGX_MAX_EVENTS,
          MaxTime,             \* bound: the clock stops here
          MaxClients,          \* bound: clients accepted
          Listening,           \* the connection of the listening socket
          None

ASSUME PoolAssumption ==
  /\ IsFiniteSet(Conns) /\ Listening \notin Conns /\ None \notin Conns
  /\ Fds \subseteq Nat /\ IsFiniteSet(Fds) /\ None \notin Fds
  /\ NGX_MAX_EVENTS \in Nat \ {0}
  /\ mWorkerConnections \in Nat \ {0}
  /\ InitialFree \in 0..Cardinality(Conns)
ASSUME TimeAssumption ==
  /\ mRecyConnectionWaitTime \in Nat /\ miWaitTime \in Nat \ {0}
  /\ PingLimit \in Nat /\ MaxTime \in Nat /\ MaxClients \in Nat
ASSUME SettingsAssumption ==
  KickSettings \subseteq {0, 1} /\ TimeSettings \subseteq {0, 1}

VARIABLES
  now,      \* time(NULL)
  came,     \* clients accepted so far
  conn,     \* the fields of each structure, and when its client came
  mConnectionList,  \* all structures allocated so far
  mFreeConnectionList, mFreeConnectionN,
  mRecyConnectionList, mTotolRecyConnectionN,
  mOnlineUserCount,
  owner,    \* the connection a descriptor stands for, None if it is closed
  mTimeQueueMap, mCurSize, mTimerValue,
  mEvents,  \* events epoll_wait has returned and nobody has handled yet
  ep,       \* the epoll thread in NgxEventAccept: place, connection
  tm,       \* the timer thread outside it: place, curTime, mlsIdleLst
  closing,  \* how far a thread is in zdCloseSocketProc, and with what
  mifKickTimeCount, miFTimeOutKick

clock  == <<now, came>>
lists  == <<mConnectionList, mFreeConnectionList, mFreeConnectionN>>
recy   == <<mRecyConnectionList, mTotolRecyConnectionN, mOnlineUserCount>>
timers == <<mTimeQueueMap, mCurSize, mTimerValue>>
conf   == <<mifKickTimeCount, miFTimeOutKick>>
epoll  == <<mEvents, ep>>
vars == <<clock, conn, lists, recy, owner, timers, epoll, tm, closing, conf>>

Closers == {"epoll", "timer"}
Earliest(q) == CHOOSE t \in {e.time : e \in q} : \A e \in q : t <= e.time

\* Structures that a client has: neither free nor being recycled.
Live == mConnectionList
          \ (Elems(mFreeConnectionList) \cup Elems(mRecyConnectionList))

\* A thread is in zdCloseSocketProc or in NgxEventAccept with connection c, or
\* has an event of it to handle.
Busy(c) == \/ \E t \in Closers : closing[t].pc # "no" /\ closing[t].c = c
           \/ ep.pc # "idle" /\ ep.c = c
           \/ c \in mEvents

Unused(n) == [iCurrSequence |-> n, fd |-> None, since |-> 0,
              inRecyTime |-> 0, lastPingTime |-> 0]

\* InitConnection.  The kernel's zeroes start the global object's counters.
Init ==
  /\ now = 0 /\ came = 0
  /\ mFreeConnectionList =
       CHOOSE s \in [1..InitialFree -> Conns] :
         \A i, j \in 1..InitialFree : s[i] = s[j] => i = j
  /\ mConnectionList = Elems(mFreeConnectionList)
  /\ mFreeConnectionN = InitialFree
  /\ conn = [c \in Conns |->
               Unused(IF c \in mConnectionList THEN 1 ELSE 0)]
  /\ mRecyConnectionList = <<>> /\ mTotolRecyConnectionN = 0
  /\ mOnlineUserCount = 0
  /\ owner = [f \in Fds |-> None]
  /\ mTimeQueueMap = {} /\ mCurSize = 0 /\ mTimerValue = 0
  /\ mEvents = {} /\ ep = [pc |-> "idle", c |-> None]
  /\ tm = [pc |-> "check", curTime |-> 0, mlsIdleLst |-> {}]
  /\ closing = [t \in Closers |-> [pc |-> "no", c |-> None]]
  /\ mifKickTimeCount \in TimeSettings /\ miFTimeOutKick \in KickSettings

Tick ==
  /\ now < MaxTime
  /\ now' = now + 1
  /\ UNCHANGED <<came, conn, lists, recy, owner, timers, epoll, tm, closing, conf>>

-----------------------------------------------------------------------------
(* The epoll thread: NgxEventAccept.                                       *)

EpollIdle == ep.pc = "idle" /\ closing["epoll"].pc = "no"

\* Fault: a structure that was just allocated counts as taken from the list.
TakeMiscounts(c) ==
  /\ mFreeConnectionN' = mFreeConnectionN - 1
  /\ IF mFreeConnectionList # <<>>
     THEN /\ c = Head(mFreeConnectionList)
          /\ mFreeConnectionList' = Tail(mFreeConnectionList)
          /\ UNCHANGED mConnectionList
     ELSE /\ c \in Conns \ mConnectionList
          /\ mConnectionList' = mConnectionList \cup {c}
          /\ UNCHANGED mFreeConnectionList

\* NgxGetConnection: the first free structure, or a new one.
Take(c) ==
  IF mFreeConnectionList # <<>>
  THEN /\ c = Head(mFreeConnectionList)
       /\ mFreeConnectionList' = Tail(mFreeConnectionList)
       /\ mFreeConnectionN' = mFreeConnectionN - 1
       /\ UNCHANGED mConnectionList
  ELSE /\ c \in Conns \ mConnectionList
       /\ mConnectionList' = mConnectionList \cup {c}
       /\ UNCHANGED <<mFreeConnectionList, mFreeConnectionN>>

\* accept4() gives f, the lowest descriptor that is closed, and connection c
\* gets it (GetOneToUse).
AcceptInto(c, f) ==
  /\ EpollIdle /\ Listening \in mEvents /\ mEvents' = mEvents \ {Listening}
  /\ owner[f] = None /\ \A g \in Fds : g < f => owner[g] # None
  /\ came < MaxClients /\ came' = came + 1
  /\ Take(c)
  /\ conn' = [conn EXCEPT ![c].iCurrSequence = @ + 1, ![c].fd = f,
                          ![c].since = now, ![c].lastPingTime = now]
  /\ owner' = [owner EXCEPT ![f] = c]
  /\ ep' = [pc |-> "add", c |-> c]
  /\ UNCHANGED <<now, recy, timers, tm, closing, conf>>

\* Fault: one client too many passes.
NgxEventAcceptOffByOne(c, f) ==
  mOnlineUserCount <= mWorkerConnections /\ AcceptInto(c, f)

NgxEventAccept(c, f) ==
  mOnlineUserCount < mWorkerConnections /\ AcceptInto(c, f)

\* Another worker has accepted the client, accept4() fails, or the client is one
\* too many and is closed at once.
AcceptNobody ==
  /\ EpollIdle /\ Listening \in mEvents
  /\ mEvents' = mEvents \ {Listening}
  /\ UNCHANGED <<clock, conn, lists, recy, owner, timers, ep, tm, closing, conf>>

\* EPOLL_CTL_ADD fails: NgxCloseConnection.
NgxCloseConnection ==
  /\ ep.pc = "add"
  /\ conn' = [conn EXCEPT ![ep.c] = Unused(@.iCurrSequence + 1)]
  /\ mFreeConnectionList' = Append(mFreeConnectionList, ep.c)
  /\ mFreeConnectionN' = mFreeConnectionN + 1
  /\ owner' = [owner EXCEPT ![conn[ep.c].fd] = None]
  /\ ep' = [pc |-> "idle", c |-> None]
  /\ UNCHANGED <<clock, mConnectionList, recy, timers, mEvents, tm, closing,
                 conf>>

\* EPOLL_CTL_ADD succeeds; AddToTimeQueue.
AddToTimeQueue ==
  /\ ep.pc = "add"
  /\ IF mifKickTimeCount = 1
     THEN /\ mTimeQueueMap' = mTimeQueueMap \cup
               {[time |-> now + miWaitTime, pConn |-> ep.c,
                 iCurrsequence |-> conn[ep.c].iCurrSequence]}
          /\ mCurSize' = mCurSize + 1
          /\ mTimerValue' = Earliest(mTimeQueueMap')
     ELSE UNCHANGED timers
  /\ ep' = [ep EXCEPT !.pc = "count"]
  /\ UNCHANGED <<clock, conn, lists, recy, owner, mEvents, tm, closing, conf>>

CountOnline ==
  /\ ep.pc = "count"
  /\ mOnlineUserCount' = mOnlineUserCount + 1
  /\ ep' = [pc |-> "idle", c |-> None]
  /\ UNCHANGED <<clock, conn, lists, mRecyConnectionList, mTotolRecyConnectionN,
                 owner, timers, mEvents, tm, closing, conf>>

-----------------------------------------------------------------------------
(* The epoll thread: events of clients.                                    *)

\* Descriptors with something to read or to end, and new clients.
Ready == {c \in Conns : conn[c].fd # None /\ owner[conn[c].fd] = c}
           \cup (IF came < MaxClients THEN {Listening} ELSE {})

\* epoll_wait fills mEvents when the last ones have been handled.
EpollWait ==
  /\ EpollIdle /\ mEvents = {}
  /\ \E S \in SUBSET Ready : /\ Cardinality(S) \in 1..NGX_MAX_EVENTS
                             /\ mEvents' = S
  /\ UNCHANGED <<clock, conn, lists, recy, owner, timers, ep, tm, closing, conf>>

\* Fault: the event is not done with when its connection is closed.
RecvProcTwice(c) ==
  /\ EpollIdle /\ c \in mEvents \ {Listening}
  /\ closing' = [closing EXCEPT !["epoll"] = [pc |-> "del", c |-> c]]
  /\ UNCHANGED <<clock, conn, lists, recy, owner, timers, epoll, tm, conf>>

\* recv() finds the end of the stream or an error: EBADF if c's descriptor has
\* been closed since epoll_wait.
RecvProc(c) ==
  /\ EpollIdle /\ c \in mEvents \ {Listening}
  /\ mEvents' = mEvents \ {c}
  /\ closing' = [closing EXCEPT !["epoll"] = [pc |-> "del", c |-> c]]
  /\ UNCHANGED <<clock, conn, lists, recy, owner, timers, ep, tm, conf>>

\* recv() brings data, or finds none, on an open descriptor, maybe of another
\* client by now.  What becomes of the data is in PacketReceive.
RecvData(c) ==
  /\ EpollIdle /\ c \in mEvents \ {Listening}
  /\ owner[conn[c].fd] # None
  /\ mEvents' = mEvents \ {c}
  /\ UNCHANGED <<clock, conn, lists, recy, owner, timers, ep, tm, closing, conf>>

\* A pool thread handles a ping of c's client.  Unless clients are kicked for
\* want of pings, nobody reads lastPingTime.
HandlePing(c) ==
  /\ miFTimeOutKick # 1
  /\ c \in Live /\ conn[c].fd # None /\ conn[c].lastPingTime < now
  /\ conn' = [conn EXCEPT ![c].lastPingTime = now]
  /\ UNCHANGED <<clock, lists, recy, owner, timers, epoll, tm, closing, conf>>

-----------------------------------------------------------------------------
(* zdCloseSocketProc, by thread t.                                         *)

ToStep(t, pc) == closing' = [closing EXCEPT ![t].pc = pc]

\* DeteleFromTimeQueue: every timer goes, whosever it is.
DeteleFromTimeQueue(t) ==
  /\ closing[t].pc = "del"
  /\ IF mifKickTimeCount = 1
     THEN mTimeQueueMap' = {} /\ mCurSize' = 0 /\ UNCHANGED mTimerValue
     ELSE UNCHANGED timers
  /\ ToStep(t, "close")
  /\ UNCHANGED <<clock, conn, lists, recy, owner, epoll, tm, conf>>

\* close(pConn->fd), which may by now be another client's; fd is not reset.
CloseFd(t) ==
  /\ closing[t].pc = "close"
  /\ owner' = [owner EXCEPT ![conn[closing[t].c].fd] = None]
  /\ ToStep(t, "recy")
  /\ UNCHANGED <<clock, conn, lists, recy, timers, epoll, tm, conf>>

\* Fault: the list is not searched for the connection.
InRecyConnecQueueTwice(t) ==
  LET c == closing[t].c IN
  /\ closing[t].pc = "recy"
  /\ conn' = [conn EXCEPT ![c].inRecyTime = now, ![c].iCurrSequence = @ + 1]
  /\ mRecyConnectionList' = Append(mRecyConnectionList, c)
  /\ mTotolRecyConnectionN' = mTotolRecyConnectionN + 1
  /\ mOnlineUserCount' = mOnlineUserCount - 1
  /\ closing' = [closing EXCEPT ![t] = [pc |-> "no", c |-> None]]
  /\ UNCHANGED <<clock, lists, owner, timers, epoll, tm, conf>>

\* Unless the connection is in the list already.
InRecyConnecQueue(t) ==
  LET c == closing[t].c IN
  /\ closing[t].pc = "recy"
  /\ IF c \in Elems(mRecyConnectionList)
     THEN UNCHANGED <<conn, recy>>
     ELSE /\ conn' = [conn EXCEPT ![c].inRecyTime = now,
                                  ![c].iCurrSequence = @ + 1]
          /\ mRecyConnectionList' = Append(mRecyConnectionList, c)
          /\ mTotolRecyConnectionN' = mTotolRecyConnectionN + 1
          /\ mOnlineUserCount' = mOnlineUserCount - 1
  /\ closing' = [closing EXCEPT ![t] = [pc |-> "no", c |-> None]]
  /\ UNCHANGED <<clock, lists, owner, timers, epoll, tm, conf>>

zdCloseSocketProc(t) ==
  DeteleFromTimeQueue(t) \/ CloseFd(t) \/ InRecyConnecQueue(t)

-----------------------------------------------------------------------------
(* The timer thread: ServerTimeQueueMonitorThread.                         *)

TimerIdle(pc) == tm.pc = pc /\ closing["timer"].pc = "no"

\* mTimerValue < curTime, read without the lock.  (A value read while another
\* thread is changing it can only send the thread to look too early, or a round
\* later: GetOverTimeTimer looks at the queue itself, under the lock.)
CheckTime ==
  /\ TimerIdle("check")
  /\ mCurSize > 0 /\ mTimerValue < now
  /\ tm' = [tm EXCEPT !.pc = "take", !.curTime = now]
  /\ UNCHANGED <<clock, conn, lists, recy, owner, timers, epoll, closing, conf>>

Due == {e \in mTimeQueueMap : e.time <= tm.curTime}

\* In ping mode a timer is put back for the next check.
Again == IF miFTimeOutKick = 1 THEN {}
         ELSE {[e EXCEPT !.time = tm.curTime + miWaitTime] : e \in Due}

\* Fault: mTimerValue is not set to the new first timer.
GetOverTimeTimerStale ==
  /\ TimerIdle("take")
  /\ mTimeQueueMap' = (mTimeQueueMap \ Due) \cup Again
  /\ mCurSize' = Cardinality(mTimeQueueMap')
  /\ tm' = [tm EXCEPT !.pc = "proc", !.mlsIdleLst = Due]
  /\ UNCHANGED <<clock, conn, lists, recy, owner, mTimerValue, epoll, closing,
                 conf>>

\* GetOverTimeTimer until it gives nothing: all timers that have run out.
GetOverTimeTimer ==
  /\ TimerIdle("take")
  /\ mTimeQueueMap' = (mTimeQueueMap \ Due) \cup Again
  /\ mCurSize' = Cardinality(mTimeQueueMap')
  /\ mTimerValue' = IF mTimeQueueMap' = {} THEN mTimerValue
                    ELSE Earliest(mTimeQueueMap')
  /\ tm' = [tm EXCEPT !.pc = "proc", !.mlsIdleLst = Due]
  /\ UNCHANGED <<clock, conn, lists, recy, owner, epoll, closing, conf>>

\* Is the time of c's client over?
TimeOver(c) == \/ miFTimeOutKick = 1
               \/ tm.curTime - conn[c].lastPingTime > PingLimit

\* Fault: the timer of a former client counts for the present one.
ProcPingTimeOutCheckingAnySequence(e) ==
  /\ TimerIdle("proc") /\ e \in tm.mlsIdleLst
  /\ tm' = [tm EXCEPT !.mlsIdleLst = @ \ {e}]
  /\ closing' = IF TimeOver(e.pConn)
                THEN [closing EXCEPT !["timer"] = [pc |-> "del", c |-> e.pConn]]
                ELSE closing
  /\ UNCHANGED <<clock, conn, lists, recy, owner, timers, epoll, conf>>

\* A timer of the present client: it is closed if its time is over.
ProcPingTimeOutChecking(e) ==
  /\ TimerIdle("proc") /\ e \in tm.mlsIdleLst
  /\ tm' = [tm EXCEPT !.mlsIdleLst = @ \ {e}]
  /\ closing' =
       IF e.iCurrsequence = conn[e.pConn].iCurrSequence /\ TimeOver(e.pConn)
       THEN [closing EXCEPT !["timer"] = [pc |-> "del", c |-> e.pConn]]
       ELSE closing
  /\ UNCHANGED <<clock, conn, lists, recy, owner, timers, epoll, conf>>

Sleep ==
  /\ TimerIdle("proc") /\ tm.mlsIdleLst = {}
  /\ tm' = [tm EXCEPT !.pc = "check", !.curTime = 0]
  /\ UNCHANGED <<clock, conn, lists, recy, owner, timers, epoll, closing, conf>>

ServerTimeQueueMonitorThread ==
  \/ CheckTime \/ GetOverTimeTimer \/ Sleep
  \/ \E e \in tm.mlsIdleLst : ProcPingTimeOutChecking(e)
  \/ zdCloseSocketProc("timer")

-----------------------------------------------------------------------------
(* The recycling thread.                                                   *)

\* Fault: the wait is on the wrong side.
ExpiredTooEarly(c) == conn[c].inRecyTime <= now + mRecyConnectionWaitTime

Expired(c) == conn[c].inRecyTime + mRecyConnectionWaitTime <= now

\* The first connection whose wait is over is freed (NgxFreeConnection,
\* PutOneToFree); its fields, which will be written before they are read, are
\* cleared here for the sake of fewer states.  The wait is what keeps a
\* structure from being reused under a thread that is busy with it; that it is
\* long enough is assumed.
ServerRecyConnectionThread ==
  /\ mTotolRecyConnectionN > 0
  /\ \E i \in 1..Len(mRecyConnectionList) :
       LET c == mRecyConnectionList[i] IN
       /\ Expired(c) /\ \A j \in 1..(i - 1) : ~Expired(mRecyConnectionList[j])
       /\ ~Busy(c)
       /\ mRecyConnectionList' =
            SubSeq(mRecyConnectionList, 1, i - 1)
              \o SubSeq(mRecyConnectionList, i + 1, Len(mRecyConnectionList))
       /\ mFreeConnectionList' = Append(mFreeConnectionList, c)
       /\ conn' = [conn EXCEPT ![c] = Unused(@.iCurrSequence + 1)]
  /\ mTotolRecyConnectionN' = mTotolRecyConnectionN - 1
  /\ mFreeConnectionN' = mFreeConnectionN + 1
  /\ UNCHANGED <<clock, mConnectionList, mOnlineUserCount, owner, timers,
                 epoll, tm, closing, conf>>

-----------------------------------------------------------------------------
AcceptRest == NgxCloseConnection \/ AddToTimeQueue \/ CountOnline

Next ==
  \/ Tick
  \/ \E c \in Conns, f \in Fds : NgxEventAccept(c, f)
  \/ AcceptNobody \/ AcceptRest
  \/ EpollWait
  \/ \E c \in Conns : RecvProc(c) \/ RecvData(c) \/ HandlePing(c)
  \/ zdCloseSocketProc("epoll")
  \/ ServerTimeQueueMonitorThread
  \/ ServerRecyConnectionThread

Spec == Init /\ [][Next]_vars

-----------------------------------------------------------------------------
(* Properties.                                                             *)

Connection == [iCurrSequence : Nat, fd : Fds \cup {None}, since : 0..MaxTime,
               inRecyTime : 0..MaxTime, lastPingTime : 0..MaxTime]
Timer == [time : Nat, pConn : Conns, iCurrsequence : Nat]

TypeOK ==
  /\ now \in 0..MaxTime /\ came \in 0..MaxClients
  /\ conn \in [Conns -> Connection]
  /\ mConnectionList \subseteq Conns
  /\ mFreeConnectionList \in Seq(Conns) /\ mRecyConnectionList \in Seq(Conns)
  /\ mFreeConnectionN \in Nat /\ mTotolRecyConnectionN \in Nat
  /\ mOnlineUserCount \in Int
  /\ owner \in [Fds -> Conns \cup {None}]
  /\ mTimeQueueMap \subseteq Timer
  /\ mCurSize \in Nat /\ mTimerValue \in Nat
  /\ mEvents \subseteq Conns \cup {Listening}
  /\ ep \in [pc : {"idle", "add", "count"}, c : Conns \cup {None}]
  /\ tm \in [pc : {"check", "take", "proc"}, curTime : 0..MaxTime,
             mlsIdleLst : SUBSET Timer]
  /\ closing \in [Closers -> [pc : {"no", "del", "close", "recy"},
                              c : Conns \cup {None}]]
  /\ mifKickTimeCount \in {0, 1} /\ miFTimeOutKick \in {0, 1}

\* Though two threads may close the same connection, no structure is ever
\* twice in a list or in both, so that no two clients share one; and the
\* counters that the threads read without a lock are the lists' lengths.
ListsRight ==
  /\ NoRepeats(mFreeConnectionList) /\ NoRepeats(mRecyConnectionList)
  /\ Elems(mFreeConnectionList) \cap Elems(mRecyConnectionList) = {}
  /\ mFreeConnectionN = Len(mFreeConnectionList)
  /\ mTotolRecyConnectionN = Len(mRecyConnectionList)

\* mOnlineUserCount, changed by two threads at opposite ends of a client's
\* stay, is the number of clients, less the one being accepted.
OnlineRight ==
  mOnlineUserCount =
    Cardinality(Live) - (IF ep.pc \in {"add", "count"} THEN 1 ELSE 0)

\* "The number of clients that each worker process allows"
\* (nginx.conf:29): no more of their descriptors are ever open.
CapacityKept ==
  Cardinality({f \in Fds : owner[f] # None}) <= mWorkerConnections

\* "When the time Sock_MaxWaitTime arrives" (nginx.conf:39): the timer thread
\* decides to close no client before, or before the limit for pings, though the
\* timers it holds may be those of former clients of the structure.
KickedNotEarly ==
  closing["timer"].pc # "no" =>
    now >= conn[closing["timer"].c].since
             + (IF miFTimeOutKick = 1 THEN miWaitTime ELSE PingLimit)

\* What the timer thread reads without the lock to decide whether to look at
\* the queue: the number of timers and, while there are any, the earliest time.
\* The copy is never too late, or clients would outstay their time.
TimerValueRight ==
  /\ mCurSize = Cardinality(mTimeQueueMap)
  /\ mTimeQueueMap # {} => mTimerValue = Earliest(mTimeQueueMap)

\* "When a connection is closed its c->fd becomes -1" (ngx_c_socket.cxx:705):
\* zdCloseSocketProc closes the descriptor of its own connection, or one that
\* is closed already, and never one that the kernel has meanwhile given to
\* another client.
OwnDescriptor ==
  \A t \in Closers :
    closing[t].pc = "close" => owner[conn[closing[t].c].fd] \in {closing[t].c, None}

\* Without the timer thread this is so although events of one epoll_wait are
\* handled after other clients of the same array have been closed and accepted:
\* no event is left of a connection that was closed.
OwnDescriptorUntimed == mifKickTimeCount = 0 => OwnDescriptor

-----------------------------------------------------------------------------
\* What the pool promises.
Lent == INSTANCE Leases WITH
          Limit    <- mWorkerConnections,
          Rest     <- mRecyConnectionWaitTime,
          held     <- Live,
          entering <- IF ep.pc = "add" THEN {ep.c} ELSE {},
          resting  <- Elems(mRecyConnectionList),
          left     <- [c \in Conns |-> IF c \in Elems(mRecyConnectionList)
                                      THEN conn[c].inRecyTime ELSE 0],
          number   <- [c \in Conns |-> conn[c].iCurrSequence]

\* "Only after a certain number of seconds is it recycled" (nginx.conf:32):
\* whichever threads close it and when, each client has a structure and a number
\* that nobody had before, and the structure rests before the next one gets it.
ImplementsLeases == Lent!LSpec
===============================================================================

----------------------------- MODULE ConnPoolProofs ----------------------------
(***************************************************************************)
(* Theorems about ConnPool, for any finite sets of structures and          *)
(* descriptors, any limit on clients, any durations and numbers of events. *)
(*                                                                         *)
(* The inductive invariant says who may have a connection structure in     *)
(* hand, and what a sequence number proves about the client of a timer.    *)
(* The last section proves that ConnPool implements Leases.                *)
(***************************************************************************)
EXTENDS ConnPool, ListLemmas, FiniteSetTheorems, FunctionTheorems,
        WellFoundedInduction

-----------------------------------------------------------------------------
(* The inductive invariant.                                                *)

Free == Elems(mFreeConnectionList)
Recy == Elems(mRecyConnectionList)

\* Structures in a list have been allocated; one that is free has no descriptor.
Lists ==
  /\ ListsRight
  /\ Free \subseteq mConnectionList /\ Recy \subseteq mConnectionList
  /\ \A c \in Conns : c \notin mConnectionList \ Free => conn[c].fd = None

\* A structure some thread is busy with is not free; the one being accepted is
\* in nobody else's hands.
Holders ==
  /\ \A t \in Closers : closing[t].pc # "no" =>
       closing[t].c \in mConnectionList \ Free
  /\ mEvents \ {Listening} \subseteq mConnectionList \ Free
  /\ ep.pc # "idle" => /\ ep.c \in mConnectionList \ Free
                       /\ closing["epoll"].pc = "no"
  /\ ep.pc = "add" => /\ ep.c \in Live /\ ep.c \notin mEvents
                      /\ closing["timer"].pc # "no" => closing["timer"].c # ep.c

\* An open descriptor is that of a client's structure, and of one only; a thread
\* that has closed a connection's has left none open.
Descriptors ==
  /\ \A f \in Fds : owner[f] # None =>
       owner[f] \in Live /\ conn[owner[f]].fd = f
  /\ \A t \in Closers : closing[t].pc = "recy" =>
       \A f \in Fds : owner[f] # closing[t].c

Timers == mTimeQueueMap \cup tm.mlsIdleLst

Current(e) == e.iCurrsequence = conn[e.pConn].iCurrSequence

\* A timer with a structure's present number is that of its present client, who
\* came at least miWaitTime before it runs out.
TimersOfClients ==
  \A e \in Timers :
    /\ e.iCurrsequence <= conn[e.pConn].iCurrSequence
    /\ Current(e) => /\ e.pConn \in Live
                     /\ ~(ep.pc = "add" /\ ep.c = e.pConn)
                     /\ e.time >= conn[e.pConn].since + miWaitTime

\* Nothing is later than now.
Times ==
  /\ \A c \in Conns : /\ conn[c].since <= conn[c].lastPingTime
                      /\ conn[c].lastPingTime <= now
  /\ tm.curTime <= now
  /\ \A e \in tm.mlsIdleLst : e.time <= tm.curTime

Limited == IsFiniteSet(mTimeQueueMap) /\ Cardinality(Live) <= mWorkerConnections

\* Without timers the epoll thread alone closes, and whatever it is about to
\* handle or to close is still open.
Untimed ==
  mifKickTimeCount = 0 =>
    /\ Timers = {} /\ closing["timer"].pc = "no"
    /\ \A c \in mEvents \ {Listening} : /\ conn[c].fd \in Fds
                                        /\ owner[conn[c].fd] = c
                                        /\ closing["epoll"].pc # "no" =>
                                             closing["epoll"].c # c
    /\ closing["epoll"].pc \in {"del", "close"} =>
         owner[conn[closing["epoll"].c].fd] = closing["epoll"].c
    /\ ep.pc = "add" => owner[conn[ep.c].fd] = ep.c

IInv ==
  /\ TypeOK /\ Lists /\ Holders /\ Descriptors
  /\ TimersOfClients /\ Times /\ TimerValueRight
  /\ OnlineRight /\ Limited /\ KickedNotEarly /\ Untimed

\* The earliest of some timers.
LEMMA EarliestIs ==
  ASSUME NEW q \in SUBSET Timer, q # {}
  PROVE  /\ Earliest(q) \in Nat
         /\ \E e \in q : Earliest(q) = e.time
         /\ \A e \in q : Earliest(q) <= e.time
<1> DEFINE T == {e.time : e \in q}
<1>1. T \subseteq Nat /\ T # {}
  BY DEF Timer
<1> DEFINE R == OpToRel(<, Nat)
<1>2. \A t, u \in Nat : <<u, t>> \in R <=> u < t
  BY DEF OpToRel
<1>3. IsWellFoundedOn(R, Nat)
  BY NatLessThanWellFounded, Zenon
<1> HIDE DEF R
<1>4. \E t \in T : \A u \in T : <<u, t>> \notin R
  BY <1>1, <1>3, WFMin
<1>5. \E t \in T : \A e \in q : t <= e.time
  <2>1. PICK t \in T : \A u \in T : <<u, t>> \notin R
    BY <1>4
  <2>2. ASSUME NEW e \in q  PROVE t <= e.time
    <3>1. e.time \in T /\ e.time \in Nat /\ t \in Nat
      BY <1>1
    <3>2. <<e.time, t>> \notin R
      BY <2>1, <3>1
    <3>3. ~(e.time < t)
      BY <1>2, <3>1, <3>2
    <3> QED  BY <3>1, <3>3
  <2> QED  BY <2>2
<1>6. /\ Earliest(q) \in T
      /\ \A e \in q : Earliest(q) <= e.time
  BY <1>5 DEF Earliest
<1> QED  BY <1>1, <1>6

\* What InRecyConnecQueue makes of a structure.
LEMMA Queued ==
  ASSUME NEW r \in Connection, NEW t \in 0..MaxTime
  PROVE  LET q == [r EXCEPT !.inRecyTime = t,
                            !.iCurrSequence = r.iCurrSequence + 1]
         IN  /\ q \in Connection /\ q.iCurrSequence = r.iCurrSequence + 1
             /\ q.fd = r.fd /\ q.since = r.since
             /\ q.lastPingTime = r.lastPingTime /\ q.inRecyTime = t
<1> DEFINE p == [r EXCEPT !.inRecyTime = t]
           q == [p EXCEPT !.iCurrSequence = r.iCurrSequence + 1]
<1>1. r.iCurrSequence + 1 \in Nat
  BY DEF Connection
<1>2. /\ p \in Connection /\ p.fd = r.fd /\ p.since = r.since
      /\ p.lastPingTime = r.lastPingTime /\ p.inRecyTime = t
  BY DEF Connection
<1> HIDE DEF p
<1>3. /\ q \in Connection /\ q.iCurrSequence = r.iCurrSequence + 1
      /\ q.fd = p.fd /\ q.since = p.since /\ q.lastPingTime = p.lastPingTime
      /\ q.inRecyTime = p.inRecyTime
  BY <1>1, <1>2 DEF Connection
<1> QED  BY <1>2, <1>3 DEF p

\* What GetOneToUse makes of structure r.
GivenTo(r, f, t) == [r EXCEPT !.iCurrSequence = r.iCurrSequence + 1,
                              !.fd = f, !.since = t, !.lastPingTime = t]

LEMMA Given ==
  ASSUME NEW r \in Connection, NEW f \in Fds, NEW t \in 0..MaxTime
  PROVE  LET q == GivenTo(r, f, t)
         IN  /\ q \in Connection /\ q.iCurrSequence = r.iCurrSequence + 1
             /\ q.fd = f /\ q.since = t /\ q.lastPingTime = t
<1> DEFINE o == [r EXCEPT !.iCurrSequence = r.iCurrSequence + 1]
           p == [o EXCEPT !.fd = f]
           n == [p EXCEPT !.since = t]
           q == GivenTo(r, f, t)
<1>1. o \in Connection /\ o.iCurrSequence = r.iCurrSequence + 1
  BY DEF Connection
<1> HIDE DEF o
<1>2. p \in Connection /\ p.iCurrSequence = o.iCurrSequence /\ p.fd = f
  BY <1>1 DEF Connection
<1> HIDE DEF p
<1>3. /\ n \in Connection /\ n.iCurrSequence = p.iCurrSequence
      /\ n.fd = p.fd /\ n.since = t
  BY <1>2 DEF Connection
<1> HIDE DEF n
<1>4. q = [n EXCEPT !.lastPingTime = t]
  BY DEF n, p, o, GivenTo
<1> HIDE DEF q
<1>5. /\ q \in Connection /\ q.iCurrSequence = n.iCurrSequence
      /\ q.fd = n.fd /\ q.since = n.since /\ q.lastPingTime = t
  BY <1>3, <1>4 DEF Connection
<1> QED  BY <1>1, <1>2, <1>3, <1>5 DEF q

LEMMA LiveFinite == TypeOK => IsFiniteSet(Live) /\ Live \subseteq Conns
BY PoolAssumption, FS_Subset DEF TypeOK, Connection, Live

\* InitConnection leaves InitialFree different structures, all free.
LEMMA InvInit == Init => IInv
<1> SUFFICES ASSUME Init PROVE IInv
  OBVIOUS
<1> DEFINE n == InitialFree
           Q(s) == \A i, j \in 1..n : s[i] = s[j] => i = j
<1>1. n \in Nat /\ Cardinality(Conns) \in Nat /\ n <= Cardinality(Conns)
  BY PoolAssumption, FS_CardinalityType
<1>2. \E s \in [1..n -> Conns] : Q(s)
  <2>1. PICK b \in Bijection(1..Cardinality(Conns), Conns) : TRUE
    BY PoolAssumption, FS_CardinalityType, Fun_ExistsBij
  <2>2. /\ b \in [1..Cardinality(Conns) -> Conns]
        /\ \A i, j \in 1..Cardinality(Conns) : b[i] = b[j] => i = j
    BY <2>1, Fun_BijectionProperties
  <2>3. [i \in 1..n |-> b[i]] \in [1..n -> Conns] /\ Q([i \in 1..n |-> b[i]])
    BY <1>1, <2>2
  <2> QED  BY <2>3
<1>3. mFreeConnectionList \in [1..n -> Conns] /\ Q(mFreeConnectionList)
  BY <1>2 DEF Init
<1>4. mFreeConnectionList \in Seq(Conns) /\ Len(mFreeConnectionList) = n
  BY <1>1, <1>3
<1>5. NoRepeats(mFreeConnectionList) /\ Free \subseteq Conns
  BY <1>3, <1>4 DEF NoRepeats, Free, Elems
<1>6. mConnectionList = Free /\ Recy = {} /\ Live = {}
  <2>1. mConnectionList = Free
    BY DEF Init, Free
  <2>2. Recy = {}
    BY EmptySeq DEF Init, Recy, Elems
  <2> QED  BY <2>1, <2>2 DEF Live, Free
<1>7. Cardinality({}) = 0 /\ IsFiniteSet({})
  BY FS_EmptySet
<1>8. /\ now = 0 /\ came = 0 /\ mFreeConnectionN = n
      /\ conn = [c \in Conns |->
                   Unused(IF c \in mConnectionList THEN 1 ELSE 0)]
      /\ mRecyConnectionList = <<>> /\ mTotolRecyConnectionN = 0
      /\ mOnlineUserCount = 0 /\ owner = [f \in Fds |-> None]
      /\ mTimeQueueMap = {} /\ mCurSize = 0 /\ mTimerValue = 0 /\ mEvents = {}
      /\ ep = [pc |-> "idle", c |-> None]
      /\ tm = [pc |-> "check", curTime |-> 0, mlsIdleLst |-> {}]
      /\ closing = [t \in Closers |-> [pc |-> "no", c |-> None]]
      /\ mifKickTimeCount \in {0, 1} /\ miFTimeOutKick \in {0, 1}
  BY SettingsAssumption DEF Init
<1>9. TypeOK
  <2>1. conn \in [Conns -> Connection]
    BY <1>8, TimeAssumption DEF Unused, Connection
  <2> QED  BY <1>1, <1>4, <1>5, <1>6, <1>8, <2>1, TimeAssumption, EmptySeq
             DEF TypeOK
<1>10. Lists
  BY <1>4, <1>5, <1>6, <1>8, EmptySeq
    DEF Lists, ListsRight, NoRepeats, Free, Recy, Unused
<1>11. Holders /\ Descriptors
  BY <1>8 DEF Holders, Descriptors, Closers
<1>12. TimersOfClients /\ TimerValueRight /\ KickedNotEarly /\ Untimed
  BY <1>7, <1>8 DEF TimersOfClients, Timers, TimerValueRight, KickedNotEarly,
                    Closers, Untimed
<1>13. Times /\ OnlineRight /\ Limited
  <2>1. Times
    BY <1>8 DEF Times, Unused
  <2> QED  BY <1>6, <1>7, <1>8, <2>1, PoolAssumption DEF OnlineRight, Limited
<1> QED  BY <1>9, <1>10, <1>11, <1>12, <1>13 DEF IInv

-----------------------------------------------------------------------------
(* The inductive step: what an action leaves alone.                        *)

\* The lists and the structures stay as they are.
LEMMA SameLists ==
  ASSUME IInv, UNCHANGED <<conn, lists, mRecyConnectionList,
                           mTotolRecyConnectionN>>
  PROVE  Lists' /\ Free' = Free /\ Recy' = Recy /\ Live' = Live
BY DEF IInv, lists, Lists, ListsRight, NoRepeats, Free, Recy, Live, Elems

\* So do the timers and the accepting thread's place.
LEMMA SameTimers ==
  ASSUME IInv, UNCHANGED <<now, conn, lists, recy, timers, tm, ep>>
  PROVE  /\ Lists' /\ TimersOfClients' /\ Times' /\ TimerValueRight'
         /\ OnlineRight' /\ Limited'
         /\ Free' = Free /\ Recy' = Recy /\ Live' = Live
<1>1. Lists' /\ Free' = Free /\ Recy' = Recy /\ Live' = Live
  BY SameLists DEF recy
<1>2. TimersOfClients' /\ Times'
  BY <1>1 DEF IInv, timers, TimersOfClients, Times, Timers, Current
<1>3. TimerValueRight' /\ OnlineRight' /\ Limited'
  BY <1>1 DEF IInv, timers, recy, TimerValueRight, Earliest, OnlineRight,
              Limited
<1> QED  BY <1>1, <1>2, <1>3

-----------------------------------------------------------------------------
(* The inductive step: the actions.                                        *)

LEMMA InvTick == IInv /\ Tick => IInv'
<1> SUFFICES ASSUME IInv, Tick PROVE IInv'
  OBVIOUS
<1> USE DEF IInv
<1>1. Lists' /\ Free' = Free /\ Recy' = Recy /\ Live' = Live
  BY SameLists DEF Tick, recy
<1>2. TypeOK'
  BY TimeAssumption
    DEF Tick, TypeOK, Connection, lists, recy, timers, conf, epoll
<1>3. Holders' /\ Descriptors' /\ Untimed'
  <2>1. Holders'
    BY <1>1 DEF Tick, lists, epoll, Holders
  <2>2. Descriptors'
    BY <1>1 DEF Tick, Descriptors
  <2>3. Untimed'
    BY DEF Tick, timers, conf, epoll, Untimed, Timers
  <2> QED  BY <2>1, <2>2, <2>3
<1>4. TimersOfClients' /\ TimerValueRight' /\ OnlineRight' /\ Limited'
  BY <1>1 DEF Tick, timers, recy, epoll, TimersOfClients, Timers, Current,
              TimerValueRight, Earliest, OnlineRight, Limited
<1>5. Times' /\ KickedNotEarly'
  <2>1. now \in Nat /\ now' = now + 1
    BY TimeAssumption DEF Tick, TypeOK, Connection
  <2>2. Times'
    BY <2>1, TimeAssumption DEF Tick, Times, TypeOK, Connection
  <2>3. KickedNotEarly'
    <3>1. ASSUME closing["timer"].pc # "no"
          PROVE  conn[closing["timer"].c].since
                   + (IF miFTimeOutKick = 1 THEN miWaitTime ELSE PingLimit) \in Int
      <4>1. conn[closing["timer"].c].since \in Int
        BY <3>1, TimeAssumption DEF TypeOK, Connection, Holders, Closers
      <4> QED  BY <4>1, TimeAssumption
    <3> QED  BY <2>1, <3>1 DEF Tick, KickedNotEarly, conf
  <2> QED  BY <2>2, <2>3
<1> QED  BY <1>1, <1>2, <1>3, <1>4, <1>5

LEMMA InvAcceptNobody == IInv /\ AcceptNobody => IInv'
<1> SUFFICES ASSUME IInv, AcceptNobody PROVE IInv'
  OBVIOUS
<1> USE DEF IInv
<1>1. /\ Lists' /\ TimersOfClients' /\ Times' /\ TimerValueRight'
      /\ OnlineRight' /\ Limited'
      /\ Free' = Free /\ Recy' = Recy /\ Live' = Live
  BY SameTimers DEF AcceptNobody, clock
<1>2. TypeOK'
  BY DEF AcceptNobody, TypeOK, Connection, clock, lists, recy, timers, conf
<1>3. Holders' /\ Descriptors'
  BY <1>1 DEF AcceptNobody, lists, Holders, Descriptors
<1>4. Untimed' /\ KickedNotEarly'
  BY DEF AcceptNobody, clock, timers, conf, Untimed, Timers, KickedNotEarly
<1> QED  BY <1>1, <1>2, <1>3, <1>4

LEMMA InvEpollWait == IInv /\ EpollWait => IInv'
<1> SUFFICES ASSUME IInv, EpollWait PROVE IInv'
  OBVIOUS
<1> USE DEF IInv
<1>1. /\ Lists' /\ TimersOfClients' /\ Times' /\ TimerValueRight'
      /\ OnlineRight' /\ Limited'
      /\ Free' = Free /\ Recy' = Recy /\ Live' = Live
  BY SameTimers DEF EpollWait, clock
<1>2. mEvents' \subseteq Ready /\ ep.pc = "idle" /\ closing["epoll"].pc = "no"
  BY DEF EpollWait, EpollIdle
<1>3. \A c \in mEvents' \ {Listening} :
        c \in Conns /\ conn[c].fd # None /\ owner[conn[c].fd] = c
  BY <1>2, PoolAssumption DEF Ready
<1>4. TypeOK'
  BY <1>2, <1>3
    DEF EpollWait, TypeOK, Connection, clock, lists, recy, timers, conf
<1>5. Holders' /\ Descriptors'
  BY <1>1, <1>2, <1>3
    DEF EpollWait, lists, Lists, Holders, Descriptors
<1>6. Untimed'
  <2>1. ASSUME NEW c \in mEvents' \ {Listening}
        PROVE  conn[c].fd \in Fds
    BY <1>3 DEF TypeOK, Connection
  <2> QED  BY <1>2, <1>3, <2>1 DEF EpollWait, timers, conf, Untimed, Timers
<1>7. KickedNotEarly'
  BY DEF EpollWait, clock, conf, KickedNotEarly
<1> QED  BY <1>1, <1>4, <1>5, <1>6, <1>7

LEMMA InvRecvProc == ASSUME NEW c \in Conns PROVE IInv /\ RecvProc(c) => IInv'
<1> SUFFICES ASSUME IInv, RecvProc(c) PROVE IInv'
  OBVIOUS
<1> USE DEF IInv
<1>1. /\ Lists' /\ TimersOfClients' /\ Times' /\ TimerValueRight'
      /\ OnlineRight' /\ Limited'
      /\ Free' = Free /\ Recy' = Recy /\ Live' = Live
  BY SameTimers DEF RecvProc, clock
<1>2. TypeOK'
  BY DEF RecvProc, TypeOK, Connection, clock, lists, recy, timers, conf, Closers
<1>3. Holders' /\ Descriptors'
  BY <1>1
    DEF RecvProc, EpollIdle, TypeOK, Connection, lists, Holders, Descriptors,
        Closers
<1>4. Untimed' /\ KickedNotEarly'
  BY DEF RecvProc, TypeOK, Connection, clock, timers, conf, Untimed, Timers,
         KickedNotEarly, Closers
<1> QED  BY <1>1, <1>2, <1>3, <1>4

LEMMA InvRecvData == ASSUME NEW c \in Conns PROVE IInv /\ RecvData(c) => IInv'
<1> SUFFICES ASSUME IInv, RecvData(c) PROVE IInv'
  OBVIOUS
<1> USE DEF IInv
<1>1. /\ Lists' /\ TimersOfClients' /\ Times' /\ TimerValueRight'
      /\ OnlineRight' /\ Limited'
      /\ Free' = Free /\ Recy' = Recy /\ Live' = Live
  BY SameTimers DEF RecvData, clock
<1>2. TypeOK'
  BY DEF RecvData, TypeOK, Connection, clock, lists, recy, timers, conf, Closers
<1>3. Holders' /\ Descriptors'
  BY <1>1
    DEF RecvData, EpollIdle, TypeOK, Connection, lists, Holders, Descriptors,
        Closers
<1>4. Untimed' /\ KickedNotEarly'
  BY DEF RecvData, clock, timers, conf, Untimed, Timers, KickedNotEarly
<1> QED  BY <1>1, <1>2, <1>3, <1>4

LEMMA InvCloseFd == ASSUME NEW t \in Closers PROVE IInv /\ CloseFd(t) => IInv'
<1> SUFFICES ASSUME IInv, CloseFd(t) PROVE IInv'
  OBVIOUS
<1> USE DEF IInv
<1>1. /\ Lists' /\ TimersOfClients' /\ Times' /\ TimerValueRight'
      /\ OnlineRight' /\ Limited'
      /\ Free' = Free /\ Recy' = Recy /\ Live' = Live
  BY SameTimers DEF CloseFd, clock, epoll
<1> DEFINE k == closing[t].c
<1>2. /\ closing[t].pc = "close" /\ k \in Conns
      /\ closing'[t].pc = "recy" /\ closing'[t].c = k
      /\ \A u \in Closers : closing'[u].c = closing[u].c
      /\ \A u \in Closers \ {t} : closing'[u].pc = closing[u].pc
  BY DEF CloseFd, ToStep, TypeOK, Connection, Holders
<1>3. /\ owner'[conn[k].fd] = None \/ conn[k].fd \notin Fds
      /\ \A f \in Fds : owner'[f] = None \/ owner'[f] = owner[f]
      /\ \A f \in Fds : owner'[f] = owner[f] \/ f = conn[k].fd
  BY DEF CloseFd, TypeOK, Connection
<1>4. TypeOK'
  BY <1>2
    DEF CloseFd, ToStep, TypeOK, Connection, clock, lists, recy, timers, epoll,
        conf, Closers
<1>5. Holders'
  BY <1>1, <1>2 DEF CloseFd, lists, epoll, Holders, Closers
<1>6. Descriptors'
  <2>1. \A f \in Fds : owner'[f] # k
    BY <1>2, <1>3, PoolAssumption DEF Descriptors
  <2>2. \A f \in Fds : owner'[f] # None =>
          owner'[f] \in Live /\ conn[owner'[f]].fd = f
    BY <1>3 DEF Descriptors
  <2>3. \A u \in Closers \ {t} : closing[u].pc = "recy" =>
          \A f \in Fds : owner'[f] # closing[u].c
    BY <1>2, <1>3, PoolAssumption DEF Descriptors, TypeOK, Connection, Holders
  <2> QED  BY <1>1, <1>2, <2>1, <2>2, <2>3 DEF CloseFd, Descriptors
<1>7. Untimed'
  <2> SUFFICES ASSUME mifKickTimeCount = 0  PROVE Untimed'
    BY DEF CloseFd, conf, Untimed
  <2>1. t = "epoll"
    BY <1>2 DEF Untimed, Closers
  <2>2. ASSUME NEW c \in mEvents \ {Listening}  PROVE owner'[conn[c].fd] = c
    BY <1>2, <1>3, <2>1 DEF Untimed
  <2>3. ep.pc = "idle"
    BY <1>2, <2>1 DEF Holders
  <2> QED  BY <1>2, <2>1, <2>2, <2>3
             DEF CloseFd, Untimed, Timers, timers, epoll, Closers
<1>8. KickedNotEarly'
  BY <1>2 DEF CloseFd, clock, conf, KickedNotEarly, Closers
<1> QED  BY <1>1, <1>4, <1>5, <1>6, <1>7, <1>8

LEMMA InvCountOnline == IInv /\ CountOnline => IInv'
<1> SUFFICES ASSUME IInv, CountOnline PROVE IInv'
  OBVIOUS
<1> USE DEF IInv
<1>1. Lists' /\ Free' = Free /\ Recy' = Recy /\ Live' = Live
  BY SameLists DEF CountOnline
<1>2. TypeOK'
  BY DEF CountOnline, TypeOK, Connection, clock, lists, timers, conf
<1>3. Holders' /\ Descriptors' /\ Untimed'
  BY <1>1 DEF CountOnline, lists, timers, conf, Holders, Descriptors, Untimed,
              Timers
<1>4. TimersOfClients' /\ Times' /\ TimerValueRight' /\ KickedNotEarly'
  BY <1>1
    DEF CountOnline, clock, timers, conf, TimersOfClients, Timers, Current,
              Times, TimerValueRight, Earliest, KickedNotEarly
<1>5. OnlineRight' /\ Limited'
  <2>1. Cardinality(Live) \in Nat
    BY LiveFinite, FS_CardinalityType
  <2>2. mOnlineUserCount' = mOnlineUserCount + 1 /\ ep.pc = "count"
    BY DEF CountOnline
  <2>3. ep'.pc = "idle" /\ Live' = Live
    BY <1>1 DEF CountOnline
  <2> QED  BY <2>1, <2>2, <2>3, <1>1
    DEF CountOnline, timers, OnlineRight, Limited
<1> QED  BY <1>1, <1>2, <1>3, <1>4, <1>5

LEMMA InvAddToTimeQueue == IInv /\ AddToTimeQueue => IInv'
<1> SUFFICES ASSUME IInv, AddToTimeQueue PROVE IInv'
  OBVIOUS
<1> USE DEF IInv
<1> DEFINE c == ep.c
           new == [time |-> now + miWaitTime, pConn |-> c,
                   iCurrsequence |-> conn[c].iCurrSequence]
<1>1. Lists' /\ Free' = Free /\ Recy' = Recy /\ Live' = Live
  BY SameLists DEF AddToTimeQueue, recy
<1>2. /\ ep.pc = "add" /\ c \in Conns /\ c \in Live
      /\ ep'.pc = "count" /\ ep'.c = c
  BY DEF AddToTimeQueue, TypeOK, Connection, Holders, Live
<1>3. new \in Timer
  BY <1>2, TimeAssumption DEF TypeOK, Connection, Timer
<1>4. /\ mTimeQueueMap' \in SUBSET Timer /\ IsFiniteSet(mTimeQueueMap')
      /\ mTimeQueueMap' \subseteq mTimeQueueMap \cup {new}
      /\ mCurSize' = Cardinality(mTimeQueueMap') /\ mCurSize' \in Nat
      /\ mTimeQueueMap' # {} => mTimerValue' = Earliest(mTimeQueueMap')
      /\ mTimerValue' \in Nat
  <2>1. CASE mifKickTimeCount = 1
    <3>1. mTimeQueueMap' = mTimeQueueMap \cup {new} /\ mCurSize' = mCurSize + 1
          /\ mTimerValue' = Earliest(mTimeQueueMap')
      BY <2>1 DEF AddToTimeQueue
    <3>2. new \notin mTimeQueueMap
      BY <1>2 DEF TimersOfClients, Timers, Current
    <3>3. IsFiniteSet(mTimeQueueMap') /\ Cardinality(mTimeQueueMap') = mCurSize + 1
      BY <3>1, <3>2, FS_AddElement DEF Limited, TimerValueRight
    <3>4. mTimeQueueMap' \in SUBSET Timer
      BY <1>3, <3>1 DEF TypeOK, Connection
    <3>5. Earliest(mTimeQueueMap') \in Nat
      BY <3>1, <3>4, EarliestIs
    <3> QED  BY <3>1, <3>3, <3>4, <3>5 DEF TypeOK, Connection
  <2>2. CASE mifKickTimeCount # 1
    BY <2>2
      DEF AddToTimeQueue, timers, TypeOK, Connection, Limited, TimerValueRight,
          Earliest
  <2> QED  BY <2>1, <2>2
<1>5. TypeOK'
  BY <1>4 DEF AddToTimeQueue, TypeOK, Connection, clock, lists, recy, conf
<1>6. Holders'
  BY <1>1, <1>2 DEF AddToTimeQueue, lists, Holders
<1>7. Descriptors'
  BY <1>1 DEF AddToTimeQueue, Descriptors
<1>8. TimersOfClients'
  <2> SUFFICES ASSUME NEW e \in Timers'
               PROVE  /\ e.iCurrsequence <= conn[e.pConn].iCurrSequence
                      /\ Current(e) =>
                           /\ e.pConn \in Live
                           /\ e.time >= conn[e.pConn].since + miWaitTime
    BY <1>1, <1>2 DEF AddToTimeQueue, TimersOfClients, Current
  <2>1. CASE e \in Timers
    BY <2>1 DEF TimersOfClients
  <2>2. CASE e = new
    <3>1. now + miWaitTime >= conn[c].since + miWaitTime
      BY <1>2, TimeAssumption DEF TypeOK, Connection, Times
    <3> QED  BY <1>2, <2>2, <3>1 DEF TypeOK, Connection
  <2> QED  BY <1>4, <2>1, <2>2 DEF AddToTimeQueue, Timers
<1>9. Times' /\ KickedNotEarly'
  BY DEF AddToTimeQueue, clock, conf, Times, KickedNotEarly
<1>10. TimerValueRight' /\ Limited'
  BY <1>1, <1>4 DEF TimerValueRight, Limited
<1>11. OnlineRight'
  BY <1>1, <1>2 DEF AddToTimeQueue, recy, OnlineRight
<1>12. Untimed'
  <2>1. mifKickTimeCount = 0 => Timers' = Timers
    BY DEF AddToTimeQueue, timers, Timers
  <2> QED  BY <2>1 DEF AddToTimeQueue, conf, Untimed
<1> QED  BY <1>1, <1>5, <1>6, <1>7, <1>8, <1>9, <1>10, <1>11, <1>12

LEMMA InvDeteleFromTimeQueue ==
  ASSUME NEW t \in Closers PROVE IInv /\ DeteleFromTimeQueue(t) => IInv'
<1> SUFFICES ASSUME IInv, DeteleFromTimeQueue(t) PROVE IInv'
  OBVIOUS
<1> USE DEF IInv
<1>1. Lists' /\ Free' = Free /\ Recy' = Recy /\ Live' = Live
  BY SameLists DEF DeteleFromTimeQueue, recy
<1>2. /\ closing[t].pc = "del" /\ closing'[t].pc = "close"
      /\ \A u \in Closers : closing'[u].c = closing[u].c
      /\ \A u \in Closers \ {t} : closing'[u].pc = closing[u].pc
  BY DEF DeteleFromTimeQueue, ToStep, TypeOK, Connection
<1>3. /\ mTimeQueueMap' \subseteq mTimeQueueMap
      /\ IsFiniteSet(mTimeQueueMap') /\ mCurSize' = Cardinality(mTimeQueueMap')
      /\ mTimeQueueMap' # {} => mTimerValue' = Earliest(mTimeQueueMap')
      /\ mCurSize' \in Nat
  <2>1. CASE mifKickTimeCount = 1
    BY <2>1, FS_EmptySet DEF DeteleFromTimeQueue
  <2>2. CASE mifKickTimeCount # 1
    <3>1. UNCHANGED timers
      BY <2>2 DEF DeteleFromTimeQueue
    <3> QED  BY <3>1
      DEF timers, Limited, TimerValueRight, Earliest, TypeOK, Connection
  <2> QED  BY <2>1, <2>2
<1>4. TypeOK'
  BY <1>3
    DEF DeteleFromTimeQueue, ToStep, TypeOK, Connection, clock, lists, recy,
        timers,
              epoll, conf
<1>5. Holders' /\ Descriptors'
  BY <1>1, <1>2
    DEF DeteleFromTimeQueue, lists, epoll, Holders, Descriptors, Closers
<1>6. TimersOfClients' /\ Times'
  BY <1>1, <1>3 DEF DeteleFromTimeQueue, clock, epoll, TimersOfClients, Timers,
                    Current, Times
<1>7. TimerValueRight' /\ OnlineRight' /\ Limited'
  BY <1>1, <1>3 DEF DeteleFromTimeQueue, recy, epoll, TimerValueRight,
                    OnlineRight, Limited
<1>8. KickedNotEarly'
  BY <1>2 DEF DeteleFromTimeQueue, clock, conf, KickedNotEarly, Closers
<1>9. Untimed'
  <2> SUFFICES ASSUME mifKickTimeCount = 0  PROVE Untimed'
    BY DEF DeteleFromTimeQueue, conf, Untimed
  <2>1. t = "epoll"
    BY <1>2 DEF Untimed, Closers
  <2> QED  BY <1>2, <1>3, <2>1
             DEF DeteleFromTimeQueue, Untimed, Timers, epoll, Closers
<1> QED  BY <1>1, <1>4, <1>5, <1>6, <1>7, <1>8, <1>9

LEMMA InvCheckTime == IInv /\ CheckTime => IInv'
<1> SUFFICES ASSUME IInv, CheckTime PROVE IInv'
  OBVIOUS
<1> USE DEF IInv
<1>1. Lists' /\ Free' = Free /\ Recy' = Recy /\ Live' = Live
  BY SameLists DEF CheckTime, recy
<1>2. tm'.mlsIdleLst = tm.mlsIdleLst /\ tm'.curTime = now /\ tm.curTime <= now
  BY DEF CheckTime, TypeOK, Connection, Times
<1>3. TypeOK'
  BY DEF CheckTime, TypeOK, Connection, clock, lists, recy, timers, epoll, conf
<1>4. Holders' /\ Descriptors'
  BY <1>1 DEF CheckTime, lists, epoll, Holders, Descriptors
<1>5. TimersOfClients' /\ TimerValueRight' /\ OnlineRight' /\ Limited'
  BY <1>1, <1>2 DEF CheckTime, recy, timers, epoll, TimersOfClients, Timers,
                    Current, TimerValueRight, Earliest, OnlineRight, Limited
<1>6. Times'
  <2>1. ASSUME NEW e \in tm.mlsIdleLst  PROVE e.time <= now
    BY <1>2, TimeAssumption DEF Times, TypeOK, Connection, Timer
  <2> QED  BY <1>2, <2>1, TimeAssumption
    DEF CheckTime, clock, Times, TypeOK, Connection
<1>7. KickedNotEarly' /\ Untimed'
  BY <1>2 DEF CheckTime, clock, timers, epoll, conf, KickedNotEarly, Untimed,
              Timers
<1> QED  BY <1>1, <1>3, <1>4, <1>5, <1>6, <1>7

LEMMA InvSleep == IInv /\ Sleep => IInv'
<1> SUFFICES ASSUME IInv, Sleep PROVE IInv'
  OBVIOUS
<1> USE DEF IInv
<1>1. Lists' /\ Free' = Free /\ Recy' = Recy /\ Live' = Live
  BY SameLists DEF Sleep, recy
<1>2. tm'.mlsIdleLst = {} /\ tm.mlsIdleLst = {} /\ tm'.curTime = 0
  BY DEF Sleep, TypeOK, Connection
<1>3. TypeOK'
  <2>1. 0 \in 0..MaxTime
    BY TimeAssumption
  <2>2. tm' \in [pc : {"check", "take", "proc"}, curTime : 0..MaxTime,
                mlsIdleLst : SUBSET Timer]
    BY <2>1 DEF Sleep, TypeOK, Connection
  <2> QED  BY <2>2
    DEF Sleep, TypeOK, Connection, clock, lists, recy, timers, epoll, conf
<1>4. Holders' /\ Descriptors'
  BY <1>1 DEF Sleep, lists, epoll, Holders, Descriptors
<1>5. TimersOfClients' /\ TimerValueRight' /\ OnlineRight' /\ Limited'
  BY <1>1, <1>2 DEF Sleep, recy, timers, epoll, TimersOfClients, Timers,
                    Current, TimerValueRight, Earliest, OnlineRight, Limited
<1>6. Times'
  BY <1>2, TimeAssumption DEF Sleep, clock, Times, TypeOK, Connection
<1>7. KickedNotEarly' /\ Untimed'
  BY <1>2 DEF Sleep, clock, timers, epoll, conf, KickedNotEarly, Untimed, Timers
<1> QED  BY <1>1, <1>3, <1>4, <1>5, <1>6, <1>7

LEMMA InvGetOverTimeTimer == IInv /\ GetOverTimeTimer => IInv'
<1> SUFFICES ASSUME IInv, GetOverTimeTimer PROVE IInv'
  OBVIOUS
<1> USE DEF IInv
<1>1. Lists' /\ Free' = Free /\ Recy' = Recy /\ Live' = Live
  BY SameLists DEF GetOverTimeTimer, recy
<1>2. /\ tm'.mlsIdleLst = Due /\ tm'.curTime = tm.curTime
      /\ mTimeQueueMap' = (mTimeQueueMap \ Due) \cup Again
      /\ Due \subseteq mTimeQueueMap
      /\ \A e \in Due : e.time <= tm.curTime
  BY DEF GetOverTimeTimer, TypeOK, Connection, Due
<1>3. \A d \in Again : \E e \in Due : d = [e EXCEPT !.time = tm.curTime + miWaitTime]
  BY DEF Again
<1>4. ASSUME NEW d \in Again
      PROVE  /\ d \in Timer
             /\ \E e \in Due : /\ d.pConn = e.pConn
                               /\ d.iCurrsequence = e.iCurrsequence
                               /\ d.time >= e.time
  <2>1. PICK e \in Due : d = [e EXCEPT !.time = tm.curTime + miWaitTime]
    BY <1>3
  <2>2. e \in Timer /\ e.time <= tm.curTime /\ tm.curTime \in Nat
    BY <1>2, TimeAssumption DEF TypeOK, Connection
  <2>3. /\ d.pConn = e.pConn /\ d.iCurrsequence = e.iCurrsequence
        /\ d.time = tm.curTime + miWaitTime /\ d \in Timer
    BY <2>1, <2>2, TimeAssumption DEF Timer
  <2>4. d.time >= e.time
    BY <2>2, <2>3, TimeAssumption DEF Timer
  <2> QED  BY <2>3, <2>4
<1>5. IsFiniteSet(Again)
  <2>1. CASE miFTimeOutKick = 1
    BY <2>1, FS_EmptySet DEF Again
  <2>2. CASE miFTimeOutKick # 1
    <3> DEFINE put(e) == [e EXCEPT !.time = tm.curTime + miWaitTime]
               F == [e \in Due |-> put(e)]
    <3>1. IsFiniteSet(Due)
      BY <1>2, FS_Subset DEF Limited
    <3>2. Again = {put(e) : e \in Due}
      BY <2>2 DEF Again
    <3>3. F \in [Due -> Again] /\ \A d \in Again : \E e \in Due : F[e] = d
      BY <3>2
    <3>4. F \in Surjection(Due, Again)
      BY <3>3, Fun_IsSurj
    <3> QED  BY <3>1, <3>4, FS_Surjection
  <2> QED  BY <2>1, <2>2
<1>6. /\ IsFiniteSet(mTimeQueueMap') /\ mTimeQueueMap' \in SUBSET Timer
      /\ mCurSize' = Cardinality(mTimeQueueMap') /\ mCurSize' \in Nat
  <2>1. IsFiniteSet(mTimeQueueMap \ Due)
    BY FS_Difference DEF Limited
  <2>2. IsFiniteSet(mTimeQueueMap')
    BY <1>2, <1>5, <2>1, FS_Union
  <2>3. mTimeQueueMap' \in SUBSET Timer
    BY <1>2, <1>4 DEF TypeOK, Connection
  <2> QED  BY <2>2, <2>3, FS_CardinalityType DEF GetOverTimeTimer
<1>7. /\ mTimerValue' \in Nat
      /\ mTimeQueueMap' # {} => mTimerValue' = Earliest(mTimeQueueMap')
  BY <1>6, EarliestIs DEF GetOverTimeTimer, TypeOK, Connection
<1>8. TypeOK'
  <2>1. Due \in SUBSET Timer
    BY <1>2 DEF TypeOK, Connection
  <2> QED  BY <1>6, <1>7, <2>1
             DEF GetOverTimeTimer, TypeOK, Connection, clock, lists, recy,
                 epoll, conf
<1>9. Holders' /\ Descriptors'
  BY <1>1 DEF GetOverTimeTimer, lists, epoll, Holders, Descriptors
<1>10. TimersOfClients'
  <2> SUFFICES ASSUME NEW d \in Timers'
               PROVE  /\ d.iCurrsequence <= conn[d.pConn].iCurrSequence
                      /\ Current(d) =>
                           /\ d.pConn \in Live
                           /\ ~(ep.pc = "add" /\ ep.c = d.pConn)
                           /\ d.time >= conn[d.pConn].since + miWaitTime
    BY <1>1 DEF GetOverTimeTimer, TimersOfClients, Current, epoll
  <2>1. PICK e \in Timers : /\ d.pConn = e.pConn
                            /\ d.iCurrsequence = e.iCurrsequence
                            /\ d.time >= e.time /\ e \in Timer /\ d \in Timer
    <3>1. CASE d \in Again
      BY <3>1, <1>2, <1>4 DEF Timers, TypeOK, Connection
    <3>2. CASE d \in mTimeQueueMap
      BY <3>2 DEF Timers, TypeOK, Connection, Timer
    <3> QED  BY <3>1, <3>2, <1>2 DEF Timers
  <2>2. /\ e.iCurrsequence <= conn[e.pConn].iCurrSequence
        /\ Current(e) =>
             /\ e.pConn \in Live
             /\ ~(ep.pc = "add" /\ ep.c = e.pConn)
             /\ e.time >= conn[e.pConn].since + miWaitTime
    BY DEF TimersOfClients
  <2>3. /\ conn[e.pConn].since + miWaitTime \in Int
        /\ e.time \in Int /\ d.time \in Int
    BY <2>1, TimeAssumption DEF TypeOK, Connection, Timer
  <2> QED  BY <2>1, <2>2, <2>3 DEF Current
<1>11. Times'
  BY <1>2 DEF GetOverTimeTimer, clock, Times
<1>12. TimerValueRight' /\ OnlineRight' /\ Limited'
  BY <1>1, <1>6, <1>7
    DEF GetOverTimeTimer, recy, epoll, TimerValueRight, OnlineRight, Limited
<1>13. KickedNotEarly' /\ Untimed'
  <2>1. KickedNotEarly'
    BY DEF GetOverTimeTimer, clock, conf, KickedNotEarly
  <2>2. mifKickTimeCount = 0 => Timers' = {}
    BY <1>2, <1>3 DEF Untimed, Timers
  <2> QED  BY <2>1, <2>2 DEF GetOverTimeTimer, epoll, conf, Untimed
<1> QED  BY <1>1, <1>8, <1>9, <1>10, <1>11, <1>12, <1>13

LEMMA InvProcPingTimeOutChecking ==
  ASSUME NEW e PROVE IInv /\ ProcPingTimeOutChecking(e) => IInv'
<1> SUFFICES ASSUME IInv, ProcPingTimeOutChecking(e) PROVE IInv'
  OBVIOUS
<1> USE DEF IInv
<1> DEFINE k == e.pConn
           over == Current(e) /\ TimeOver(k)
<1>1. Lists' /\ Free' = Free /\ Recy' = Recy /\ Live' = Live
  BY SameLists DEF ProcPingTimeOutChecking, recy
<1>2. /\ e \in tm.mlsIdleLst /\ e \in Timer /\ k \in Conns
      /\ closing["timer"].pc = "no"
      /\ tm'.mlsIdleLst \subseteq tm.mlsIdleLst /\ tm'.curTime = tm.curTime
      /\ e.time <= tm.curTime /\ tm.curTime <= now
  BY DEF ProcPingTimeOutChecking, TimerIdle, TypeOK, Connection, Times, Timer
<1>3. /\ closing'["epoll"] = closing["epoll"]
      /\ over => closing'["timer"].pc = "del" /\ closing'["timer"].c = k
      /\ ~over => closing' = closing
  BY <1>2 DEF ProcPingTimeOutChecking, TypeOK, Connection, Current, Closers
<1>4. over => /\ k \in Live /\ ~(ep.pc = "add" /\ ep.c = k)
              /\ e.time >= conn[k].since + miWaitTime
  BY <1>2 DEF TimersOfClients, Timers
<1>5. TypeOK'
  <2>1. closing' \in [Closers -> [pc : {"no", "del", "close", "recy"},
                                  c : Conns \cup {None}]]
    BY <1>2 DEF ProcPingTimeOutChecking, TypeOK, Connection, Closers
  <2> QED  BY <2>1
    DEF ProcPingTimeOutChecking, TypeOK, Connection, clock, lists, recy,
                       timers, epoll, conf
<1>6. Holders' /\ Descriptors'
  <2>1. CASE over
    BY <2>1, <1>1, <1>3, <1>4
      DEF ProcPingTimeOutChecking, lists, epoll, Holders,
                                  Descriptors, Closers, Live, Free
  <2>2. CASE ~over
    BY <2>2, <1>1, <1>3
      DEF ProcPingTimeOutChecking, lists, epoll, Holders, Descriptors
  <2> QED  BY <2>1, <2>2
<1>7. TimersOfClients' /\ Times'
  BY <1>1, <1>2 DEF ProcPingTimeOutChecking, clock, timers, epoll,
                    TimersOfClients, Timers, Current, Times
<1>8. TimerValueRight' /\ OnlineRight' /\ Limited'
  BY <1>1 DEF ProcPingTimeOutChecking, recy, timers, epoll, TimerValueRight,
              Earliest, OnlineRight, Limited
<1>9. KickedNotEarly'
  <2>1. CASE over
    <3>1. /\ now \in Int /\ tm.curTime \in Int /\ conn[k].since \in Int
          /\ conn[k].lastPingTime \in Int /\ e.time \in Int
          /\ conn[k].since <= conn[k].lastPingTime
      BY <1>2, TimeAssumption DEF TypeOK, Connection, Timer, Times
    <3>2. CASE miFTimeOutKick = 1
      <4>1. now >= conn[k].since + miWaitTime
        BY <2>1, <1>2, <1>4, <3>1, TimeAssumption
      <4> QED  BY <2>1, <1>3, <3>2, <4>1
                 DEF ProcPingTimeOutChecking, clock, conf, KickedNotEarly
    <3>3. CASE miFTimeOutKick # 1
      <4>1. tm.curTime - conn[k].lastPingTime > PingLimit
        BY <2>1, <3>3 DEF TimeOver
      <4>2. now >= conn[k].since + PingLimit
        BY <1>2, <3>1, <4>1, TimeAssumption
      <4> QED  BY <2>1, <1>3, <3>3, <4>2
                 DEF ProcPingTimeOutChecking, clock, conf, KickedNotEarly
    <3> QED  BY <3>2, <3>3
  <2>2. CASE ~over
    BY <2>2, <1>3 DEF ProcPingTimeOutChecking, clock, conf, KickedNotEarly
  <2> QED  BY <2>1, <2>2
<1>10. Untimed'
  <2>1. mifKickTimeCount # 0
    BY <1>2 DEF Untimed, Timers
  <2> QED  BY <2>1 DEF ProcPingTimeOutChecking, conf, Untimed
<1> QED  BY <1>1, <1>5, <1>6, <1>7, <1>8, <1>9, <1>10

LEMMA InvHandlePing ==
  ASSUME NEW c \in Conns PROVE IInv /\ HandlePing(c) => IInv'
<1> SUFFICES ASSUME IInv, HandlePing(c) PROVE IInv'
  OBVIOUS
<1> USE DEF IInv
<1>1. /\ conn' \in [Conns -> Connection]
      /\ \A d \in Conns : /\ conn'[d].iCurrSequence = conn[d].iCurrSequence
                          /\ conn'[d].fd = conn[d].fd
                          /\ conn'[d].since = conn[d].since
                          /\ conn'[d].lastPingTime \in {conn[d].lastPingTime, now}
  <2>1. conn \in [Conns -> Connection] /\ now \in 0..MaxTime
    BY DEF TypeOK
  <2>2. conn' = [conn EXCEPT ![c].lastPingTime = now]
    BY DEF HandlePing
  <2> HIDE DEF IInv
  <2> QED  BY <2>1, <2>2 DEF Connection
<1>2. /\ Free' = Free /\ Recy' = Recy /\ Live' = Live
      /\ mConnectionList' = mConnectionList
  BY DEF HandlePing, lists, recy, Free, Recy, Live
<1>3. TypeOK'
  BY <1>1
    DEF HandlePing, TypeOK, Connection, clock, lists, recy, timers, epoll, conf
<1>4. Lists'
  <2>1. ListsRight'
    BY DEF HandlePing, Lists, ListsRight, NoRepeats, lists, recy, Elems
  <2> QED  BY <1>1, <1>2, <2>1 DEF Lists
<1>5. Holders' /\ TimerValueRight' /\ OnlineRight' /\ Limited'
  BY <1>2 DEF HandlePing, recy, timers, epoll, Holders, TimerValueRight,
              Earliest, OnlineRight, Limited
<1>6. Descriptors'
  BY <1>1, <1>2 DEF HandlePing, Descriptors, TypeOK, Connection
<1>7. TimersOfClients'
  <2>1. \A e \in Timers : e.pConn \in Conns
    BY DEF Timers, TypeOK, Connection, Timer
  <2> QED  BY <1>1, <1>2, <2>1
             DEF HandlePing, timers, epoll, TimersOfClients, Timers, Current
<1>8. Times'
  <2>1. ASSUME NEW d \in Conns
        PROVE  conn'[d].since <= conn'[d].lastPingTime /\ conn'[d].lastPingTime <= now
    <3>1. /\ conn[d].since \in Int /\ conn[d].lastPingTime \in Int /\ now \in Int
          /\ conn[d].since <= conn[d].lastPingTime /\ conn[d].lastPingTime <= now
      BY TimeAssumption DEF TypeOK, Connection, Times
    <3> QED  BY <1>1, <3>1
  <2> QED  BY <2>1 DEF HandlePing, clock, Times
<1>9. KickedNotEarly'
  BY <1>1
    DEF HandlePing, clock, conf, KickedNotEarly, Holders, TypeOK, Connection,
        Closers
<1>10. Untimed'
  <2>1. mEvents \ {Listening} \subseteq Conns
    BY DEF TypeOK, Connection
  <2>2. closing["epoll"].pc # "no" => closing["epoll"].c \in Conns
    BY DEF Holders, TypeOK, Connection, Closers
  <2> QED  BY <1>1, <2>1, <2>2
             DEF HandlePing, timers, epoll, conf, Untimed, Timers
<1> QED  BY <1>3, <1>4, <1>5, <1>6, <1>7, <1>8, <1>9, <1>10

\* What InRecyConnecQueue does with a structure that is not in the list.
LEMMA Recycled ==
  ASSUME IInv, NEW t \in Closers, InRecyConnecQueue(t), closing[t].c \notin Recy
  PROVE  LET k == closing[t].c IN
         /\ k \in Conns /\ k \in Live /\ Live' = Live \ {k}
         /\ Free' = Free /\ mConnectionList' = mConnectionList
         /\ mRecyConnectionList' \in Seq(Conns) /\ NoRepeats(mRecyConnectionList')
         /\ Len(mRecyConnectionList') = Len(mRecyConnectionList) + 1
         /\ Recy' = Recy \cup {k}
         /\ mTotolRecyConnectionN' = mTotolRecyConnectionN + 1
         /\ mOnlineUserCount' = mOnlineUserCount - 1
         /\ conn' \in [Conns -> Connection]
         /\ \A d \in Conns : /\ conn'[d].fd = conn[d].fd
                             /\ conn'[d].since = conn[d].since
                             /\ conn'[d].lastPingTime = conn[d].lastPingTime
         /\ \A d \in Conns \ {k} : conn'[d] = conn[d]
         /\ conn'[k].iCurrSequence = conn[k].iCurrSequence + 1
         /\ conn'[k].inRecyTime = now
<1> DEFINE k == closing[t].c
<1>1. k \in Conns /\ k \in mConnectionList \ Free
  BY DEF InRecyConnecQueue, IInv, TypeOK, Holders
<1>2. /\ mRecyConnectionList' = Append(mRecyConnectionList, k)
      /\ mTotolRecyConnectionN' = mTotolRecyConnectionN + 1
      /\ mOnlineUserCount' = mOnlineUserCount - 1
      /\ conn' = [conn EXCEPT ![k].inRecyTime = now, ![k].iCurrSequence = @ + 1]
  BY DEF InRecyConnecQueue, Recy
<1>3. /\ conn' \in [Conns -> Connection]
      /\ \A d \in Conns : /\ conn'[d].fd = conn[d].fd
                          /\ conn'[d].since = conn[d].since
                          /\ conn'[d].lastPingTime = conn[d].lastPingTime
      /\ \A d \in Conns \ {k} : conn'[d] = conn[d]
      /\ conn'[k].iCurrSequence = conn[k].iCurrSequence + 1
      /\ conn'[k].inRecyTime = now
  <2> DEFINE r == [conn[k] EXCEPT !.inRecyTime = now,
                                  !.iCurrSequence = conn[k].iCurrSequence + 1]
  <2>1. conn \in [Conns -> Connection] /\ now \in 0..MaxTime
    BY DEF IInv, TypeOK
  <2>2. conn' = [conn EXCEPT ![k] = r]
    BY <1>1, <1>2, <2>1
  <2>3. /\ r \in Connection /\ r.iCurrSequence = conn[k].iCurrSequence + 1
        /\ r.fd = conn[k].fd /\ r.since = conn[k].since
        /\ r.lastPingTime = conn[k].lastPingTime /\ r.inRecyTime = now
    BY <1>1, <2>1, Queued
  <2> HIDE DEF r
  <2> QED  BY <1>1, <2>1, <2>2, <2>3
<1>4. /\ mRecyConnectionList' \in Seq(Conns) /\ NoRepeats(mRecyConnectionList')
      /\ Len(mRecyConnectionList') = Len(mRecyConnectionList) + 1
      /\ Recy' = Recy \cup {k}
  <2>1. mRecyConnectionList \in Seq(Conns) /\ NoRepeats(mRecyConnectionList)
    BY DEF IInv, TypeOK, Lists, ListsRight
  <2> QED  BY <1>1, <1>2, <2>1, AppendNew DEF Recy
<1>5. /\ Free' = Free /\ mConnectionList' = mConnectionList
      /\ k \in Live /\ Live' = Live \ {k}
  BY <1>1, <1>4 DEF InRecyConnecQueue, lists, Free, Live, Recy
<1> QED  BY <1>1, <1>2, <1>3, <1>4, <1>5

LEMMA InvInRecyConnecQueue ==
  ASSUME NEW t \in Closers PROVE IInv /\ InRecyConnecQueue(t) => IInv'
<1> SUFFICES ASSUME IInv, InRecyConnecQueue(t) PROVE IInv'
  OBVIOUS
<1> USE DEF IInv
<1> DEFINE k == closing[t].c
<1>1. /\ closing[t].pc = "recy" /\ k \in Conns /\ k \in mConnectionList \ Free
      /\ \A f \in Fds : owner[f] # k
      /\ closing'[t].pc = "no"
      /\ \A u \in Closers \ {t} : closing'[u] = closing[u]
      /\ closing' \in [Closers -> [pc : {"no", "del", "close", "recy"},
                                   c : Conns \cup {None}]]
  BY DEF InRecyConnecQueue, TypeOK, Connection, Holders, Descriptors
<1>2. CASE k \in Recy
  <2>1. UNCHANGED <<conn, recy>>
    BY <1>2 DEF InRecyConnecQueue, Recy
  <2>2. /\ Lists' /\ TimersOfClients' /\ Times' /\ TimerValueRight'
        /\ OnlineRight' /\ Limited'
        /\ Free' = Free /\ Recy' = Recy /\ Live' = Live
    BY <2>1, SameTimers DEF InRecyConnecQueue, clock, epoll
  <2>3. TypeOK'
    BY <1>1, <2>1
      DEF InRecyConnecQueue, TypeOK, Connection, clock, lists, recy, timers,
                      epoll, conf
  <2>4. Holders' /\ Descriptors'
    BY <1>1, <2>1, <2>2 DEF InRecyConnecQueue, lists, epoll, Holders,
                            Descriptors, Closers
  <2>5. KickedNotEarly' /\ Untimed'
    BY <1>1, <2>1 DEF InRecyConnecQueue, clock, timers, epoll, conf,
                      KickedNotEarly, Untimed, Timers, Closers
  <2> QED  BY <2>2, <2>3, <2>4, <2>5
<1>3. CASE k \notin Recy
  <2>1. /\ mTotolRecyConnectionN' = mTotolRecyConnectionN + 1
        /\ mOnlineUserCount' = mOnlineUserCount - 1
    BY <1>3, Recycled
  <2>2. /\ conn' \in [Conns -> Connection]
        /\ \A d \in Conns : /\ conn'[d].fd = conn[d].fd
                            /\ conn'[d].since = conn[d].since
                            /\ conn'[d].lastPingTime = conn[d].lastPingTime
                            /\ d # k => conn'[d].iCurrSequence = conn[d].iCurrSequence
        /\ conn'[k].iCurrSequence = conn[k].iCurrSequence + 1
    BY <1>3, Recycled
  <2>3. /\ mRecyConnectionList' \in Seq(Conns) /\ NoRepeats(mRecyConnectionList')
        /\ Len(mRecyConnectionList') = Len(mRecyConnectionList) + 1
        /\ Recy' = Recy \cup {k}
    BY <1>3, Recycled
  <2>4. /\ Free' = Free /\ mConnectionList' = mConnectionList
        /\ k \in Live /\ Live' = Live \ {k}
    BY <1>3, Recycled
  <2>5. Cardinality(Live') = Cardinality(Live) - 1 /\ Cardinality(Live) \in Nat
    BY <2>4, LiveFinite, FS_RemoveElement, FS_CardinalityType
  <2>6. TypeOK'
    <3>1. mTotolRecyConnectionN' \in Nat /\ mOnlineUserCount' \in Int
      BY <2>1 DEF TypeOK, Connection
    <3>2. mRecyConnectionList' \in Seq(Conns)
      BY <2>3
    <3> HIDE DEF k
    <3> QED  BY <1>1, <2>2, <3>1, <3>2
               DEF InRecyConnecQueue, TypeOK, Connection, clock, lists, timers,
                   epoll, conf
  <2>7. Lists'
    <3>1. ListsRight'
      BY <1>1, <2>1, <2>3, <2>4
        DEF InRecyConnecQueue, Lists, ListsRight, NoRepeats, lists, Free, Recy
    <3> QED  BY <1>1, <2>2, <2>3, <2>4, <3>1 DEF Lists
  <2>8. Holders'
    <3>1. ep.pc = "add" => ep.c # k
      BY <1>1 DEF Holders, Closers
    <3> QED  BY <1>1, <2>4, <3>1 DEF InRecyConnecQueue, epoll, Holders, Closers
  <2>9. Descriptors'
    <3>1. \A f \in Fds : owner[f] # None =>
            owner[f] \in Live' /\ conn'[owner[f]].fd = f
      BY <1>1, <2>2, <2>4 DEF Descriptors, TypeOK, Connection
    <3> QED  BY <1>1, <3>1 DEF InRecyConnecQueue, Descriptors
  <2>10. TimersOfClients'
    <3> SUFFICES ASSUME NEW e \in Timers
                 PROVE  /\ e.iCurrsequence <= conn'[e.pConn].iCurrSequence
                        /\ e.iCurrsequence = conn'[e.pConn].iCurrSequence =>
                             /\ e.pConn \in Live'
                             /\ ~(ep.pc = "add" /\ ep.c = e.pConn)
                             /\ e.time >= conn'[e.pConn].since + miWaitTime
      BY DEF InRecyConnecQueue, timers, epoll, TimersOfClients, Timers, Current
    <3>1. /\ e \in Timer /\ e.iCurrsequence <= conn[e.pConn].iCurrSequence
          /\ e.pConn \in Conns /\ e.iCurrsequence \in Nat
          /\ conn[e.pConn].iCurrSequence \in Nat
      BY DEF TimersOfClients, Timers, TypeOK, Connection, Timer
    <3>2. CASE e.pConn = k
      BY <2>2, <3>1, <3>2
    <3>3. CASE e.pConn # k
      BY <2>2, <2>4, <3>1, <3>3 DEF TimersOfClients, Current
    <3> QED  BY <3>2, <3>3
  <2>11. Times' /\ TimerValueRight'
    BY <2>2
      DEF InRecyConnecQueue, clock, timers, Times, TimerValueRight, Earliest
  <2>12. OnlineRight' /\ Limited'
    <3>1. Cardinality(Live') <= mWorkerConnections
      BY <2>5, PoolAssumption DEF Limited
    <3> QED  BY <2>1, <2>5, <3>1
               DEF InRecyConnecQueue, timers, epoll, OnlineRight, Limited
  <2>13. KickedNotEarly'
    <3>1. closing'["timer"].pc # "no" =>
            closing' ["timer"] = closing["timer"] /\ closing["timer"].c \in Conns
      BY <1>1 DEF Holders, TypeOK, Connection, Closers
    <3> QED  BY <2>2, <3>1 DEF InRecyConnecQueue, clock, conf, KickedNotEarly
  <2>14. Untimed'
    <3> SUFFICES ASSUME mifKickTimeCount = 0  PROVE Untimed'
      BY DEF InRecyConnecQueue, conf, Untimed
    <3>1. t = "epoll"
      BY <1>1 DEF Untimed, Closers
    <3>2. mEvents \ {Listening} \subseteq Conns
      BY DEF TypeOK, Connection
    <3>3. ep.pc = "idle"
      BY <1>1, <3>1 DEF Holders
    <3> QED  BY <1>1, <2>2, <3>1, <3>2, <3>3
               DEF InRecyConnecQueue, timers, epoll, Untimed, Timers, Closers
  <2> QED  BY <2>6, <2>7, <2>8, <2>9, <2>10, <2>11, <2>12, <2>13, <2>14
<1> QED  BY <1>2, <1>3

\* A structure that goes back to the free list: nobody has a descriptor or a
\* current timer of it.
LEMMA GivenBack ==
  ASSUME IInv, NEW k \in Conns,
         conn' = [conn EXCEPT ![k] = Unused(@.iCurrSequence + 1)]
  PROVE  /\ conn' \in [Conns -> Connection]
         /\ \A d \in Conns \ {k} : conn'[d] = conn[d]
         /\ conn'[k].iCurrSequence = conn[k].iCurrSequence + 1
         /\ conn'[k].fd = None /\ conn'[k].since = 0
         /\ conn'[k].lastPingTime = 0
<1>1. conn \in [Conns -> Connection]
  BY DEF IInv, TypeOK
<1>2. conn'[k] = Unused(conn[k].iCurrSequence + 1)
  BY <1>1
<1>3. conn[k].iCurrSequence + 1 \in Nat
  BY <1>1 DEF Connection
<1>4. /\ conn'[k] \in Connection
      /\ conn'[k].iCurrSequence = conn[k].iCurrSequence + 1
      /\ conn'[k].fd = None /\ conn'[k].since = 0 /\ conn'[k].lastPingTime = 0
  BY <1>2, <1>3, TimeAssumption DEF Unused, Connection
<1> QED  BY <1>1, <1>4

\* What NgxCloseConnection does with the structure of a client it turns away.
LEMMA TurnedAway ==
  ASSUME IInv, NgxCloseConnection
  PROVE  LET k == ep.c IN
         /\ k \in Conns /\ k \in Live /\ k \in mConnectionList
         /\ k \notin Free /\ k \notin Recy /\ k \notin mEvents
         /\ conn' \in [Conns -> Connection]
         /\ \A d \in Conns \ {k} : conn'[d] = conn[d]
         /\ conn'[k].iCurrSequence = conn[k].iCurrSequence + 1
         /\ conn'[k].fd = None /\ conn'[k].since = 0
         /\ conn'[k].lastPingTime = 0
         /\ mFreeConnectionList' \in Seq(Conns)
         /\ Len(mFreeConnectionList') = Len(mFreeConnectionList) + 1
         /\ NoRepeats(mFreeConnectionList')
         /\ Free' = Free \cup {k} /\ Recy' = Recy
         /\ mConnectionList' = mConnectionList /\ Live' = Live \ {k}
<1> USE DEF IInv
<1> DEFINE k == ep.c
<1>1. /\ k \in Conns /\ k \in Live /\ k \in mConnectionList
      /\ k \notin Free /\ k \notin Recy /\ k \notin mEvents
  BY DEF NgxCloseConnection, Holders, TypeOK, Live, Free, Recy
<1>2. /\ conn' \in [Conns -> Connection]
      /\ \A d \in Conns \ {k} : conn'[d] = conn[d]
      /\ conn'[k].iCurrSequence = conn[k].iCurrSequence + 1
      /\ conn'[k].fd = None /\ conn'[k].since = 0
      /\ conn'[k].lastPingTime = 0
  BY <1>1, GivenBack DEF NgxCloseConnection
<1>3. /\ mFreeConnectionList' \in Seq(Conns)
      /\ Len(mFreeConnectionList') = Len(mFreeConnectionList) + 1
      /\ Free' = Free \cup {k}
      /\ NoRepeats(mFreeConnectionList')
  <2>1. mFreeConnectionList \in Seq(Conns)
    BY DEF TypeOK
  <2> QED  BY <1>1, <2>1, AppendNew
             DEF NgxCloseConnection, Free, Lists, ListsRight
<1>4. /\ Recy' = Recy /\ mConnectionList' = mConnectionList
      /\ Live' = Live \ {k}
  BY <1>3 DEF NgxCloseConnection, recy, Recy, Free, Live
<1> QED  BY <1>1, <1>2, <1>3, <1>4

LEMMA InvNgxCloseConnection == IInv /\ NgxCloseConnection => IInv'
<1> SUFFICES ASSUME IInv, NgxCloseConnection PROVE IInv'
  OBVIOUS
<1> USE DEF IInv
<1> DEFINE k == ep.c
<1>1. /\ ep.pc = "add" /\ k \in Conns /\ k \in Live /\ k \in mConnectionList
      /\ k \notin Free /\ k \notin Recy /\ k \notin mEvents
      /\ ep' = [pc |-> "idle", c |-> None]
      /\ closing["epoll"].pc = "no"
      /\ closing["timer"].pc # "no" => closing["timer"].c # k
      /\ closing' = closing
  BY TurnedAway DEF NgxCloseConnection, Holders
<1>2. /\ conn' \in [Conns -> Connection]
      /\ \A d \in Conns \ {k} : conn'[d] = conn[d]
      /\ conn'[k].iCurrSequence = conn[k].iCurrSequence + 1
      /\ conn'[k].fd = None /\ conn'[k].since = 0
      /\ conn'[k].lastPingTime = 0
  BY TurnedAway
<1>3. /\ mFreeConnectionList' \in Seq(Conns)
      /\ Len(mFreeConnectionList') = Len(mFreeConnectionList) + 1
      /\ Free' = Free \cup {k}
      /\ NoRepeats(mFreeConnectionList')
  BY TurnedAway
<1>4. /\ Recy' = Recy /\ mConnectionList' = mConnectionList
      /\ Live' = Live \ {k}
  BY TurnedAway
<1>5. Cardinality(Live') = Cardinality(Live) - 1 /\ Cardinality(Live) \in Nat
  BY <1>1, <1>4, LiveFinite, FS_RemoveElement, FS_CardinalityType
<1>6. /\ owner' \in [Fds -> Conns \cup {None}]
      /\ \A f \in Fds : owner'[f] # None => owner'[f] = owner[f] /\ owner[f] # k
      /\ \A f \in Fds : owner'[f] = owner[f] \/ owner[f] = k \/ f = conn[k].fd
  BY <1>1 DEF NgxCloseConnection, TypeOK, Descriptors
<1>7. TypeOK'
  <2>1. mFreeConnectionN' \in Nat
    BY DEF NgxCloseConnection, TypeOK
  <2>2. ep' \in [pc : {"idle", "add", "count"}, c : Conns \cup {None}]
    BY <1>1
  <2> HIDE DEF k
  <2> QED  BY <1>2, <1>3, <1>6, <2>1, <2>2
             DEF NgxCloseConnection, TypeOK, clock, recy, timers, conf
<1>8. Lists'
  <2>1. ListsRight'
    <3>1. NoRepeats(mRecyConnectionList') /\ Free' \cap Recy' = {}
      BY <1>1, <1>3, <1>4 DEF NgxCloseConnection, recy, Lists, ListsRight,
                              NoRepeats, Free, Recy
    <3>2. /\ mFreeConnectionN' = Len(mFreeConnectionList')
          /\ mTotolRecyConnectionN' = Len(mRecyConnectionList')
      BY <1>3 DEF NgxCloseConnection, recy, Lists, ListsRight
    <3> QED  BY <1>3, <3>1, <3>2 DEF ListsRight, Free, Recy
  <2>2. \A c \in Conns : c \notin mConnectionList' \ Free' => conn'[c].fd = None
    BY <1>2, <1>3, <1>4 DEF Lists
  <2> QED  BY <1>1, <1>3, <1>4, <2>1, <2>2 DEF Lists
<1>9. Holders'
  BY <1>1, <1>3, <1>4 DEF NgxCloseConnection, Holders, Closers
<1>10. Descriptors'
  <2>1. \A f \in Fds : owner'[f] # None =>
          owner'[f] \in Live' /\ conn'[owner'[f]].fd = f
    BY <1>2, <1>4, <1>6 DEF Descriptors, TypeOK
  <2>2. \A t \in Closers : closing[t].pc = "recy" =>
          \A f \in Fds : owner'[f] # closing[t].c
    BY <1>6, PoolAssumption DEF Descriptors, Holders, TypeOK
  <2> QED  BY <1>1, <2>1, <2>2 DEF Descriptors
<1>11. TimersOfClients'
  <2> SUFFICES ASSUME NEW e \in Timers
               PROVE  /\ e.iCurrsequence <= conn'[e.pConn].iCurrSequence
                      /\ e.iCurrsequence = conn'[e.pConn].iCurrSequence =>
                           /\ e.pConn \in Live'
                           /\ e.time >= conn'[e.pConn].since + miWaitTime
    BY <1>1 DEF NgxCloseConnection, timers, TimersOfClients, Timers, Current
  <2>1. /\ e \in Timer /\ e.iCurrsequence <= conn[e.pConn].iCurrSequence
        /\ e.pConn \in Conns /\ e.iCurrsequence \in Nat
        /\ conn[e.pConn].iCurrSequence \in Nat
    BY DEF TimersOfClients, Timers, TypeOK, Timer, Connection
  <2>2. CASE e.pConn = k
    BY <1>2, <2>1, <2>2
  <2>3. CASE e.pConn # k
    BY <1>2, <1>4, <2>1, <2>3 DEF TimersOfClients, Current
  <2> QED  BY <2>2, <2>3
<1>12. Times'
  <2>1. ASSUME NEW d \in Conns
        PROVE  conn'[d].since <= conn'[d].lastPingTime /\ conn'[d].lastPingTime <= now
    BY <1>2 DEF Times, TypeOK
  <2> QED  BY <2>1 DEF NgxCloseConnection, clock, Times
<1>13. TimerValueRight' /\ OnlineRight' /\ Limited'
  <2>1. Cardinality(Live') <= mWorkerConnections
    BY <1>5, PoolAssumption DEF Limited
  <2>2. mOnlineUserCount = Cardinality(Live) - 1 /\ mOnlineUserCount' = mOnlineUserCount
    BY <1>1 DEF NgxCloseConnection, recy, OnlineRight
  <2>3. OnlineRight'
    BY <1>1, <1>5, <2>2 DEF OnlineRight
  <2> QED  BY <2>1, <2>3
             DEF NgxCloseConnection, timers, TimerValueRight, Earliest, Limited
<1>14. KickedNotEarly'
  <2>1. closing["timer"].pc # "no" => closing["timer"].c \in Conns \ {k}
    BY <1>1 DEF Holders, TypeOK, Closers
  <2> QED  BY <1>1, <1>2, <2>1
    DEF NgxCloseConnection, clock, conf, KickedNotEarly
<1>15. Untimed'
  <2> SUFFICES ASSUME mifKickTimeCount = 0  PROVE Untimed'
    BY DEF NgxCloseConnection, conf, Untimed
  <2>1. ASSUME NEW c \in mEvents \ {Listening}
        PROVE  conn'[c].fd \in Fds /\ owner'[conn'[c].fd] = c
    <3>1. c \in Conns /\ c # k
      BY <1>1 DEF TypeOK
    <3>2. conn[c].fd \in Fds /\ owner[conn[c].fd] = c
      BY DEF Untimed
    <3>3. owner'[conn[c].fd] = c
      BY <3>1, <3>2 DEF NgxCloseConnection, TypeOK, Untimed, Descriptors
    <3> QED  BY <1>2, <3>1, <3>2, <3>3
  <2> QED  BY <1>1, <2>1 DEF NgxCloseConnection, timers, Untimed, Timers
<1> QED  BY <1>7, <1>8, <1>9, <1>10, <1>11, <1>12, <1>13, <1>14, <1>15

\* What the recycling thread does with the structure it picks.
LEMMA Freed ==
  ASSUME IInv, ServerRecyConnectionThread
  PROVE  \E k \in Conns :
         /\ Expired(k) /\ ~Busy(k)
         /\ k \in Recy /\ k \in mConnectionList /\ k \notin Free /\ k \notin Live
         /\ conn' \in [Conns -> Connection]
         /\ \A d \in Conns \ {k} : conn'[d] = conn[d]
         /\ conn'[k].iCurrSequence = conn[k].iCurrSequence + 1
         /\ conn'[k].fd = None /\ conn'[k].since = 0
         /\ conn'[k].lastPingTime = 0
         /\ mFreeConnectionList' \in Seq(Conns)
         /\ Len(mFreeConnectionList') = Len(mFreeConnectionList) + 1
         /\ Free' = Free \cup {k} /\ NoRepeats(mFreeConnectionList')
         /\ mRecyConnectionList' \in Seq(Conns)
         /\ Len(mRecyConnectionList) \in Nat
         /\ Len(mRecyConnectionList') = Len(mRecyConnectionList) - 1
         /\ Recy' = Recy \ {k} /\ NoRepeats(mRecyConnectionList')
         /\ mConnectionList' = mConnectionList /\ Live' = Live
<1> USE DEF IInv
<1> DEFINE s == mRecyConnectionList
<1>1. PICK i \in 1..Len(s) :
        /\ Expired(s[i]) /\ ~Busy(s[i])
        /\ s' = SubSeq(s, 1, i - 1) \o SubSeq(s, i + 1, Len(s))
        /\ mFreeConnectionList' = Append(mFreeConnectionList, s[i])
        /\ conn' = [conn EXCEPT ![s[i]] = Unused(@.iCurrSequence + 1)]
  BY DEF ServerRecyConnectionThread
<1> DEFINE k == s[i]
<1>2. /\ k \in Conns /\ k \in Recy /\ k \in mConnectionList
      /\ k \notin Free /\ k \notin Live
  <2>1. k \in Conns
    BY <1>1, ElementOfSeq DEF TypeOK
  <2>2. k \in Recy
    BY <1>1 DEF Recy, Elems
  <2> QED  BY <2>1, <2>2 DEF Lists, ListsRight, Live, Free, Recy
<1> HIDE DEF k
<1>3. /\ conn' \in [Conns -> Connection]
      /\ \A d \in Conns \ {k} : conn'[d] = conn[d]
      /\ conn'[k].iCurrSequence = conn[k].iCurrSequence + 1
      /\ conn'[k].fd = None /\ conn'[k].since = 0
      /\ conn'[k].lastPingTime = 0
  BY <1>1, <1>2, GivenBack DEF k
<1>4. /\ mFreeConnectionList' \in Seq(Conns)
      /\ Len(mFreeConnectionList') = Len(mFreeConnectionList) + 1
      /\ Free' = Free \cup {k}
      /\ NoRepeats(mFreeConnectionList')
  <2>1. mFreeConnectionList \in Seq(Conns)
    BY DEF TypeOK
  <2> QED  BY <1>1, <1>2, <2>1, AppendNew DEF Free, Lists, ListsRight, k
<1>5. /\ s' \in Seq(Conns) /\ Len(s) \in Nat /\ Len(s') = Len(s) - 1
      /\ Recy' = Recy \ {k} /\ NoRepeats(s')
  <2>1. s \in Seq(Conns) /\ NoRepeats(s)
    BY DEF TypeOK, Lists, ListsRight
  <2> QED  BY <1>1, <2>1, Erased DEF Recy, k
<1>6. mConnectionList' = mConnectionList /\ Live' = Live
  BY <1>2, <1>4, <1>5 DEF ServerRecyConnectionThread, Free, Recy, Live
<1>7. Expired(k) /\ ~Busy(k)
  BY <1>1 DEF k
<1> QED  BY <1>2, <1>3, <1>4, <1>5, <1>6, <1>7

LEMMA InvServerRecyConnectionThread == IInv /\ ServerRecyConnectionThread => IInv'
<1> SUFFICES ASSUME IInv, ServerRecyConnectionThread PROVE IInv'
  OBVIOUS
<1> USE DEF IInv
<1> DEFINE s == mRecyConnectionList
<1>1. PICK k \in Conns :
        /\ ~Busy(k)
        /\ k \in Recy /\ k \in mConnectionList /\ k \notin Free /\ k \notin Live
        /\ conn' \in [Conns -> Connection]
        /\ \A d \in Conns \ {k} : conn'[d] = conn[d]
        /\ conn'[k].iCurrSequence = conn[k].iCurrSequence + 1
        /\ conn'[k].fd = None /\ conn'[k].since = 0
        /\ conn'[k].lastPingTime = 0
        /\ mFreeConnectionList' \in Seq(Conns)
        /\ Len(mFreeConnectionList') = Len(mFreeConnectionList) + 1
        /\ Free' = Free \cup {k} /\ NoRepeats(mFreeConnectionList')
        /\ s' \in Seq(Conns) /\ Len(s) \in Nat /\ Len(s') = Len(s) - 1
        /\ Recy' = Recy \ {k} /\ NoRepeats(s')
        /\ mConnectionList' = mConnectionList /\ Live' = Live
  BY Freed
<1>2. /\ k \in Conns /\ k \in Recy /\ k \in mConnectionList
      /\ k \notin Free /\ k \notin Live
  BY <1>1
<1>3. /\ conn' \in [Conns -> Connection]
      /\ \A d \in Conns \ {k} : conn'[d] = conn[d]
      /\ conn'[k].iCurrSequence = conn[k].iCurrSequence + 1
      /\ conn'[k].fd = None /\ conn'[k].since = 0
      /\ conn'[k].lastPingTime = 0
  BY <1>1
<1>4. /\ mFreeConnectionList' \in Seq(Conns)
      /\ Len(mFreeConnectionList') = Len(mFreeConnectionList) + 1
      /\ Free' = Free \cup {k}
      /\ NoRepeats(mFreeConnectionList')
  BY <1>1
<1>5. /\ s' \in Seq(Conns) /\ Len(s) \in Nat /\ Len(s') = Len(s) - 1
      /\ Recy' = Recy \ {k} /\ NoRepeats(s')
  BY <1>1
<1>6. mConnectionList' = mConnectionList /\ Live' = Live
  BY <1>1
<1>7. TypeOK'
  <2>1. mFreeConnectionN' \in Nat
    BY DEF ServerRecyConnectionThread, TypeOK
  <2>2. mTotolRecyConnectionN' \in Nat
    BY <1>5 DEF ServerRecyConnectionThread, TypeOK
  <2> QED  BY <1>3, <1>4, <1>5, <2>1, <2>2
             DEF ServerRecyConnectionThread, TypeOK, clock, timers, epoll, conf
<1>8. Lists'
  <2>1. Free' \cap Recy' = {}
    BY <1>2, <1>4, <1>5 DEF Lists, ListsRight, Free, Recy
  <2>2. /\ mFreeConnectionN' = Len(mFreeConnectionList')
        /\ mTotolRecyConnectionN' = Len(s')
    BY <1>4, <1>5 DEF ServerRecyConnectionThread, Lists, ListsRight
  <2>3. ListsRight'
    BY <1>4, <1>5, <2>1, <2>2 DEF ListsRight, Free, Recy
  <2>4. \A c \in Conns : c \notin mConnectionList' \ Free' => conn'[c].fd = None
    BY <1>3, <1>4, <1>6 DEF Lists
  <2> QED  BY <1>2, <1>4, <1>5, <1>6, <2>3, <2>4 DEF Lists
<1>9. /\ \A t \in Closers : closing[t].pc # "no" => closing[t].c # k
      /\ ep.pc # "idle" => ep.c # k
      /\ k \notin mEvents
  BY <1>1 DEF Busy
<1>10. Holders'
  BY <1>4, <1>6, <1>9 DEF ServerRecyConnectionThread, epoll, Holders
<1>11. Descriptors'
  <2>1. \A f \in Fds : owner[f] # None =>
          owner[f] \in Live' /\ conn'[owner[f]].fd = f
    BY <1>2, <1>3, <1>6 DEF Descriptors, TypeOK
  <2> QED  BY <2>1 DEF ServerRecyConnectionThread, Descriptors
<1>12. TimersOfClients'
  <2> SUFFICES ASSUME NEW e \in Timers
               PROVE  /\ e.iCurrsequence <= conn'[e.pConn].iCurrSequence
                      /\ e.iCurrsequence = conn'[e.pConn].iCurrSequence =>
                           /\ e.pConn \in Live'
                           /\ ~(ep.pc = "add" /\ ep.c = e.pConn)
                           /\ e.time >= conn'[e.pConn].since + miWaitTime
    BY DEF ServerRecyConnectionThread, timers, epoll, TimersOfClients, Timers,
           Current
  <2>1. /\ e \in Timer /\ e.iCurrsequence <= conn[e.pConn].iCurrSequence
        /\ e.pConn \in Conns /\ e.iCurrsequence \in Nat
        /\ conn[e.pConn].iCurrSequence \in Nat
    BY DEF TimersOfClients, Timers, TypeOK, Timer, Connection
  <2>2. CASE e.pConn = k
    BY <1>3, <2>1, <2>2
  <2>3. CASE e.pConn # k
    BY <1>3, <1>6, <2>1, <2>3 DEF TimersOfClients, Current
  <2> QED  BY <2>2, <2>3
<1>13. Times'
  <2>1. ASSUME NEW d \in Conns
        PROVE  conn'[d].since <= conn'[d].lastPingTime /\ conn'[d].lastPingTime <= now
    BY <1>3 DEF Times, TypeOK
  <2> QED  BY <2>1 DEF ServerRecyConnectionThread, clock, Times
<1>14. TimerValueRight' /\ OnlineRight' /\ Limited'
  <2>1. OnlineRight'
    BY <1>6 DEF ServerRecyConnectionThread, epoll, OnlineRight
  <2> QED  BY <1>6, <2>1 DEF ServerRecyConnectionThread, timers,
                         TimerValueRight, Earliest, Limited
<1>15. KickedNotEarly'
  <2>1. closing["timer"].pc # "no" => closing["timer"].c \in Conns \ {k}
    BY <1>9 DEF Holders, TypeOK, Closers
  <2> QED  BY <1>3, <2>1
    DEF ServerRecyConnectionThread, clock, conf, KickedNotEarly
<1>16. Untimed'
  <2> SUFFICES ASSUME mifKickTimeCount = 0  PROVE Untimed'
    BY DEF ServerRecyConnectionThread, conf, Untimed
  <2>1. mEvents \ {Listening} \subseteq Conns \ {k}
    BY <1>9 DEF TypeOK
  <2>2. /\ closing["epoll"].pc # "no" => closing["epoll"].c \in Conns \ {k}
        /\ ep.pc # "idle" => ep.c \in Conns \ {k}
    BY <1>9 DEF Holders, TypeOK, Closers
  <2> QED  BY <1>3, <2>1, <2>2
             DEF ServerRecyConnectionThread, timers, epoll, Untimed, Timers
<1> QED  BY <1>7, <1>8, <1>10, <1>11, <1>12, <1>13, <1>14, <1>15, <1>16

\* The structure that NgxGetConnection finds is in nobody's hands.
LEMMA Taken ==
  ASSUME IInv, NEW c \in Conns, Take(c)
  PROVE  /\ c \notin mConnectionList \ Free /\ c \notin Live
         /\ mConnectionList' \subseteq Conns /\ c \in mConnectionList'
         /\ mConnectionList' = mConnectionList \cup {c}
         /\ mFreeConnectionList' \in Seq(Conns) /\ mFreeConnectionN' \in Nat
         /\ Free' = Free \ {c} /\ NoRepeats(mFreeConnectionList')
         /\ mFreeConnectionN' = Len(mFreeConnectionList')
<1>1. /\ mFreeConnectionList \in Seq(Conns) /\ mConnectionList \subseteq Conns
      /\ NoRepeats(mFreeConnectionList) /\ Free \subseteq mConnectionList
      /\ mFreeConnectionN = Len(mFreeConnectionList) /\ mFreeConnectionN \in Nat
  BY DEF IInv, TypeOK, Lists, ListsRight
<1>2. CASE mFreeConnectionList # <<>>
  <2>1. /\ c = Head(mFreeConnectionList)
        /\ mFreeConnectionList' = Tail(mFreeConnectionList)
        /\ mFreeConnectionN' = mFreeConnectionN - 1
        /\ mConnectionList' = mConnectionList
    BY <1>2 DEF Take
  <2>2. /\ mFreeConnectionList' \in Seq(Conns) /\ c \in Free
        /\ Free' = Free \ {c} /\ NoRepeats(mFreeConnectionList')
        /\ Len(mFreeConnectionList') = Len(mFreeConnectionList) - 1
        /\ Len(mFreeConnectionList) \in Nat \ {0}
    BY <1>1, <1>2, <2>1, TailOf DEF Free
  <2> QED  BY <1>1, <2>1, <2>2 DEF Live, Free
<1>3. CASE mFreeConnectionList = <<>>
  <2>1. /\ c \notin mConnectionList /\ mConnectionList' = mConnectionList \cup {c}
        /\ UNCHANGED <<mFreeConnectionList, mFreeConnectionN>>
    BY <1>3 DEF Take
  <2>2. Free' = Free
    BY <2>1 DEF Free
  <2> QED  BY <1>1, <2>1, <2>2 DEF Live
<1> QED  BY <1>2, <1>3

\* What NgxEventAccept does with the structure it takes.
LEMMA Accepted ==
  ASSUME IInv, NEW c \in Conns, NEW f \in Fds, NgxEventAccept(c, f)
  PROVE  /\ c \notin mConnectionList \ Free /\ c \notin Live /\ c \notin Recy
         /\ mConnectionList' \subseteq Conns /\ c \in mConnectionList'
         /\ mConnectionList' = mConnectionList \cup {c}
         /\ mFreeConnectionList' \in Seq(Conns) /\ mFreeConnectionN' \in Nat
         /\ Free' = Free \ {c} /\ NoRepeats(mFreeConnectionList')
         /\ mFreeConnectionN' = Len(mFreeConnectionList')
         /\ conn' \in [Conns -> Connection]
         /\ \A d \in Conns \ {c} : conn'[d] = conn[d]
         /\ conn'[c].iCurrSequence = conn[c].iCurrSequence + 1
         /\ conn'[c].fd = f /\ conn'[c].since = now
         /\ conn'[c].lastPingTime = now
         /\ Recy' = Recy /\ Live' = Live \cup {c}
         /\ Cardinality(Live) \in Nat /\ Cardinality(Live') = Cardinality(Live) + 1
         /\ Cardinality(Live) < mWorkerConnections
<1> USE DEF IInv
<1>1. /\ Take(c) /\ ep.pc = "idle" /\ mOnlineUserCount < mWorkerConnections
      /\ UNCHANGED recy
  BY DEF NgxEventAccept, AcceptInto, EpollIdle
<1>2. /\ c \notin mConnectionList \ Free /\ c \notin Live
      /\ mConnectionList' \subseteq Conns /\ c \in mConnectionList'
      /\ mConnectionList' = mConnectionList \cup {c}
      /\ mFreeConnectionList' \in Seq(Conns) /\ mFreeConnectionN' \in Nat
      /\ Free' = Free \ {c} /\ NoRepeats(mFreeConnectionList')
      /\ mFreeConnectionN' = Len(mFreeConnectionList')
  BY <1>1, Taken
<1>3. /\ conn' \in [Conns -> Connection]
      /\ \A d \in Conns \ {c} : conn'[d] = conn[d]
      /\ conn'[c].iCurrSequence = conn[c].iCurrSequence + 1
      /\ conn'[c].fd = f /\ conn'[c].since = now /\ conn'[c].lastPingTime = now
  <2>1. conn' = [conn EXCEPT ![c] = GivenTo(conn[c], f, now)]
    BY DEF NgxEventAccept, AcceptInto, TypeOK, GivenTo
  <2>2. conn[c] \in Connection /\ now \in 0..MaxTime
    BY DEF TypeOK
  <2> QED  BY <2>1, <2>2, Given DEF TypeOK
<1>4. /\ c \notin Recy /\ Recy' = Recy /\ Live' = Live \cup {c}
  <2>1. c \notin Recy
    BY <1>2 DEF Lists, ListsRight, Live, Free, Recy
  <2>2. Recy' = Recy
    BY <1>1 DEF recy, Recy
  <2> QED  BY <1>2, <2>1, <2>2 DEF Live, Free, Recy
<1>5. Cardinality(Live') = Cardinality(Live) + 1 /\ Cardinality(Live) \in Nat
  BY <1>2, <1>4, LiveFinite, FS_AddElement, FS_CardinalityType
<1>6. Cardinality(Live) < mWorkerConnections
  BY <1>1, <1>5, PoolAssumption DEF OnlineRight
<1> QED  BY <1>2, <1>3, <1>4, <1>5, <1>6

LEMMA InvNgxEventAccept ==
  ASSUME NEW c \in Conns, NEW f \in Fds
  PROVE  IInv /\ NgxEventAccept(c, f) => IInv'
<1> SUFFICES ASSUME IInv, NgxEventAccept(c, f) PROVE IInv'
  OBVIOUS
<1> USE DEF IInv
<1>1. /\ ep.pc = "idle" /\ closing["epoll"].pc = "no"
      /\ mEvents' = mEvents \ {Listening} /\ owner[f] = None
      /\ came' = came + 1 /\ came < MaxClients
      /\ owner' = [owner EXCEPT ![f] = c] /\ ep' = [pc |-> "add", c |-> c]
      /\ Take(c) /\ mOnlineUserCount < mWorkerConnections
      /\ UNCHANGED <<now, recy, timers, tm, closing, conf>>
  BY DEF NgxEventAccept, AcceptInto, EpollIdle
<1>2. /\ c \notin mConnectionList \ Free /\ c \notin Live
      /\ mConnectionList' \subseteq Conns /\ c \in mConnectionList'
      /\ mConnectionList' = mConnectionList \cup {c}
      /\ mFreeConnectionList' \in Seq(Conns) /\ mFreeConnectionN' \in Nat
      /\ Free' = Free \ {c} /\ NoRepeats(mFreeConnectionList')
      /\ mFreeConnectionN' = Len(mFreeConnectionList')
  BY Accepted
<1>3. /\ conn' \in [Conns -> Connection]
      /\ \A d \in Conns \ {c} : conn'[d] = conn[d]
      /\ conn'[c].iCurrSequence = conn[c].iCurrSequence + 1
      /\ conn'[c].fd = f /\ conn'[c].since = now /\ conn'[c].lastPingTime = now
  BY Accepted
<1>4. c \notin Recy /\ Recy' = Recy /\ Live' = Live \cup {c}
  BY Accepted
<1>5. Cardinality(Live') = Cardinality(Live) + 1 /\ Cardinality(Live) \in Nat
  BY Accepted
<1>6. /\ owner' \in [Fds -> Conns \cup {None}] /\ owner'[f] = c
      /\ \A g \in Fds \ {f} : owner'[g] = owner[g]
  BY <1>1 DEF TypeOK
<1>7. TypeOK'
  <2>1. came' \in 0..MaxClients
    BY <1>1, TimeAssumption DEF TypeOK
  <2>2. ep' \in [pc : {"idle", "add", "count"}, c : Conns \cup {None}]
    BY <1>1
  <2> QED  BY <1>1, <1>2, <1>3, <1>6, <2>1, <2>2
             DEF TypeOK, recy, timers, conf
<1>8. Lists'
  <2>1. Free' \cap Recy' = {}
    BY <1>2, <1>4 DEF Lists, ListsRight, Free, Recy
  <2>2. ListsRight'
    BY <1>1, <1>2, <2>1 DEF recy, Lists, ListsRight, NoRepeats, Free, Recy
  <2>3. \A d \in Conns : d \notin mConnectionList' \ Free' => conn'[d].fd = None
    BY <1>2, <1>3 DEF Lists
  <2> QED  BY <1>2, <1>4, <2>2, <2>3 DEF Lists
<1>9. /\ \A t \in Closers : closing[t].pc # "no" => closing[t].c # c
      /\ c \notin mEvents'
  BY <1>1, <1>2, PoolAssumption DEF Holders
<1>10. Holders'
  <2>1. \A t \in Closers : closing[t].pc # "no" =>
          closing[t].c \in mConnectionList' \ Free'
    BY <1>2, <1>9 DEF Holders
  <2> QED  BY <1>1, <1>2, <1>4, <1>9, <2>1 DEF Holders, Closers
<1>11. Descriptors'
  <2>1. \A g \in Fds : owner'[g] # None =>
          owner'[g] \in Live' /\ conn'[owner'[g]].fd = g
    BY <1>2, <1>3, <1>4, <1>6 DEF Descriptors, TypeOK
  <2>2. \A t \in Closers : closing[t].pc = "recy" =>
          \A g \in Fds : owner'[g] # closing[t].c
    BY <1>6, <1>9 DEF Descriptors
  <2> QED  BY <1>1, <2>1, <2>2 DEF Descriptors
<1>12. TimersOfClients'
  <2> SUFFICES ASSUME NEW e \in Timers
               PROVE  /\ e.iCurrsequence <= conn'[e.pConn].iCurrSequence
                      /\ e.iCurrsequence = conn'[e.pConn].iCurrSequence =>
                           /\ e.pConn \in Live' /\ e.pConn # c
                           /\ e.time >= conn'[e.pConn].since + miWaitTime
    BY <1>1 DEF timers, TimersOfClients, Timers, Current
  <2>1. /\ e \in Timer /\ e.iCurrsequence <= conn[e.pConn].iCurrSequence
        /\ e.pConn \in Conns /\ e.iCurrsequence \in Nat
        /\ conn[e.pConn].iCurrSequence \in Nat
    BY DEF TimersOfClients, Timers, TypeOK, Timer, Connection
  <2>2. CASE e.pConn = c
    BY <1>3, <2>1, <2>2
  <2>3. CASE e.pConn # c
    BY <1>3, <1>4, <2>1, <2>3 DEF TimersOfClients, Current
  <2> QED  BY <2>2, <2>3
<1>13. Times'
  <2>1. ASSUME NEW d \in Conns
        PROVE  conn'[d].since <= conn'[d].lastPingTime /\ conn'[d].lastPingTime <= now
    <3>1. now \in Nat
      BY TimeAssumption DEF TypeOK
    <3>2. CASE d = c
      BY <1>3, <3>1, <3>2
    <3>3. CASE d # c
      BY <1>3, <3>3 DEF Times
    <3> QED  BY <3>2, <3>3
  <2> QED  BY <1>1, <2>1 DEF Times
<1>14. TimerValueRight' /\ OnlineRight' /\ Limited'
  <2>1. mOnlineUserCount = Cardinality(Live) /\ mOnlineUserCount' = mOnlineUserCount
    BY <1>1, <1>5 DEF recy, OnlineRight
  <2>2. OnlineRight'
    BY <1>1, <1>5, <2>1 DEF OnlineRight
  <2>3. Cardinality(Live') <= mWorkerConnections
    BY <1>1, <1>5, <2>1, PoolAssumption
  <2> QED  BY <1>1, <2>2, <2>3 DEF timers, TimerValueRight, Earliest, Limited
<1>15. KickedNotEarly'
  <2>1. closing["timer"].pc # "no" => closing["timer"].c \in Conns \ {c}
    BY <1>9 DEF Holders, TypeOK, Closers
  <2> QED  BY <1>1, <1>3, <2>1 DEF conf, KickedNotEarly
<1>16. Untimed'
  <2> SUFFICES ASSUME mifKickTimeCount = 0  PROVE Untimed'
    BY <1>1 DEF conf, Untimed
  <2>1. ASSUME NEW d \in mEvents' \ {Listening}
        PROVE  conn'[d].fd \in Fds /\ owner'[conn'[d].fd] = d
    <3>1. d \in Conns /\ d # c /\ d \in mEvents \ {Listening}
      BY <1>1, <1>9 DEF TypeOK
    <3>2. conn[d].fd \in Fds /\ owner[conn[d].fd] = d
      BY <3>1 DEF Untimed
    <3>3. conn[d].fd # f
      BY <1>1, <3>1, <3>2, PoolAssumption
    <3> QED  BY <1>3, <1>6, <3>1, <3>2, <3>3
  <2> QED  BY <1>1, <1>3, <1>6, <2>1 DEF timers, Untimed, Timers
<1> QED  BY <1>7, <1>8, <1>10, <1>11, <1>12, <1>13, <1>14, <1>15, <1>16

\* Every step of every thread keeps it.
LEMMA InvNext == IInv /\ [Next]_vars => IInv'
<1> SUFFICES ASSUME IInv, [Next]_vars PROVE IInv'
  OBVIOUS
<1>1. CASE Tick \/ AcceptNobody \/ AcceptRest \/ EpollWait
           \/ ServerRecyConnectionThread
  BY <1>1, InvTick, InvAcceptNobody, InvEpollWait, InvNgxCloseConnection,
     InvAddToTimeQueue, InvCountOnline, InvServerRecyConnectionThread
    DEF AcceptRest
<1>2. ASSUME NEW c \in Conns, NEW f \in Fds, NgxEventAccept(c, f)  PROVE IInv'
  BY <1>2, InvNgxEventAccept
<1>3. ASSUME NEW c \in Conns, RecvProc(c) \/ RecvData(c) \/ HandlePing(c)
      PROVE  IInv'
  BY <1>3, InvRecvProc, InvRecvData, InvHandlePing
<1>4. ASSUME NEW t \in Closers, zdCloseSocketProc(t)  PROVE IInv'
  BY <1>4, InvDeteleFromTimeQueue, InvCloseFd, InvInRecyConnecQueue
    DEF zdCloseSocketProc
<1>5. CASE ServerTimeQueueMonitorThread
  BY <1>4, <1>5, InvCheckTime, InvGetOverTimeTimer, InvSleep,
     InvProcPingTimeOutChecking
    DEF ServerTimeQueueMonitorThread, Closers
<1>6. CASE UNCHANGED vars
  <2>1. /\ Lists' /\ TimersOfClients' /\ Times' /\ TimerValueRight'
        /\ OnlineRight' /\ Limited'
        /\ Free' = Free /\ Recy' = Recy /\ Live' = Live
    BY <1>6, SameTimers DEF vars, clock, epoll
  <2>2. TypeOK'
    BY <1>6
      DEF IInv, vars, TypeOK, clock, lists, recy, timers, epoll, conf
  <2>3. Holders' /\ Descriptors'
    BY <1>6, <2>1 DEF IInv, vars, lists, epoll, Holders, Descriptors
  <2>4. KickedNotEarly' /\ Untimed'
    BY <1>6 DEF IInv, vars, clock, timers, epoll, conf, KickedNotEarly, Untimed,
                Timers
  <2> QED  BY <2>1, <2>2, <2>3, <2>4 DEF IInv
<1> QED  BY <1>1, <1>2, <1>3, <1>4, <1>5, <1>6 DEF Next, Closers

\* IInv holds in every state that can be reached.
THEOREM Invariant == Spec => []IInv
<1>1. Init => IInv
  BY InvInit
<1>2. IInv /\ [Next]_vars => IInv'
  BY InvNext
<1> QED  BY <1>1, <1>2, PTL DEF Spec

-----------------------------------------------------------------------------
(* What follows from it.                                                   *)

\* Every variable keeps its type, the counters of the two lists among them.
THEOREM TypeCorrect == Spec => []TypeOK
<1>1. IInv => TypeOK
  BY DEF IInv
<1> QED  BY <1>1, Invariant, PTL

\* Whatever the two threads that close do, a connection structure is never
\* twice in the free and recycling lists, whose counters are exact.
THEOREM NoStructureShared == Spec => []ListsRight
<1>1. IInv => ListsRight
  BY DEF IInv, Lists
<1> QED  BY <1>1, Invariant, PTL

\* mOnlineUserCount is the number of clients, but for the one being accepted.
THEOREM OnlineCounted == Spec => []OnlineRight
<1>1. IInv => OnlineRight
  BY DEF IInv
<1> QED  BY <1>1, Invariant, PTL

\* No more descriptors of clients are open than mWorkerConnections: each is that
\* of another structure that a client has, of which there are no more.
THEOREM CapacityBound == Spec => []CapacityKept
<1>1. IInv => CapacityKept
  <2> SUFFICES ASSUME IInv PROVE CapacityKept
    OBVIOUS
  <2> DEFINE Open == {f \in Fds : owner[f] # None}
             F == [f \in Open |-> owner[f]]
  <2>1. F \in [Open -> Live] /\ \A f, g \in Open : F[f] = F[g] => f = g
    BY DEF IInv, Descriptors
  <2>2. F \in Injection(Open, Live) /\ IsFiniteSet(Live)
    BY <2>1, Fun_IsInj, LiveFinite DEF IInv
  <2> HIDE DEF F
  <2>3. /\ IsFiniteSet(Open) /\ Cardinality(Open) <= Cardinality(Live)
        /\ Cardinality(Live) \in Nat
    BY <2>2, FS_Injection, FS_CardinalityType
  <2> QED  BY <2>3, FS_CardinalityType, PoolAssumption
             DEF IInv, Limited, CapacityKept
<1> QED  BY <1>1, Invariant, PTL

\* The timer thread closes no client before its time, however many clients the
\* structure of an old timer has had since.
THEOREM NoneKickedEarly == Spec => []KickedNotEarly
<1>1. IInv => KickedNotEarly
  BY DEF IInv
<1> QED  BY <1>1, Invariant, PTL

\* The copies that the timer thread reads without the lock agree with the queue.
THEOREM TimerCopiesRight == Spec => []TimerValueRight
<1>1. IInv => TimerValueRight
  BY DEF IInv
<1> QED  BY <1>1, Invariant, PTL

\* With the timer off, zdCloseSocketProc never closes another client's
\* descriptor, whatever the other events of the same epoll_wait did.
THEOREM OwnDescriptorKept == Spec => []OwnDescriptorUntimed
<1>1. IInv => OwnDescriptorUntimed
  <2> SUFFICES ASSUME IInv, mifKickTimeCount = 0  PROVE OwnDescriptor
    BY DEF OwnDescriptorUntimed
  <2> QED  BY DEF IInv, Untimed, OwnDescriptor, Closers
<1> QED  BY <1>1, Invariant, PTL

-----------------------------------------------------------------------------
(* ConnPool implements Leases.  Held, resting and the clock are variables or *)
(* were named above; these are the other three.                              *)

Entering == IF ep.pc = "add" THEN {ep.c} ELSE {}
Left     == [c \in Conns |-> IF c \in Recy THEN conn[c].inRecyTime ELSE 0]
Number   == [c \in Conns |-> conn[c].iCurrSequence]

\* A step that gives structure k its next number and leaves the others alone.
LEMMA NumberChanges ==
  ASSUME NEW k \in Conns, \A d \in Conns \ {k} : conn'[d] = conn[d],
         conn'[k].iCurrSequence = conn[k].iCurrSequence + 1
  PROVE  Number' = [Number EXCEPT ![k] = @ + 1]
BY DEF Number

\* A step that no client and no resting structure has part in.
LEMMA LeaseStutters ==
  ASSUME now' = now, Live' = Live, Recy' = Recy, Entering' = Entering,
         \A d \in Conns : /\ conn'[d].iCurrSequence = conn[d].iCurrSequence
                          /\ conn'[d].inRecyTime = conn[d].inRecyTime
  PROVE  [Lent!LNext]_(Lent!lvars)
<1>1. Left' = Left /\ Number' = Number
  BY DEF Left, Number
<1> QED  BY <1>1 DEF Lent!lvars, Entering, Left, Number, Recy

LEMMA LeaseInit == Init => Lent!LInit
<1> SUFFICES ASSUME Init PROVE Lent!LInit
  OBVIOUS
<1>1. TypeOK
  BY InvInit DEF IInv
<1>2. Elems(mRecyConnectionList) = {}
  BY EmptySeq DEF Init, Elems
<1>3. Live = {}
  BY <1>2 DEF Init, Live
<1>4. [c \in Conns |-> conn[c].iCurrSequence] \in [Conns -> Nat]
  BY <1>1 DEF TypeOK, Connection
<1> QED  BY <1>2, <1>3, <1>4 DEF Init, Lent!LInit

LEMMA LeaseTick == IInv /\ Tick => [Lent!LNext]_(Lent!lvars)
<1> SUFFICES ASSUME IInv, Tick PROVE [Lent!LNext]_(Lent!lvars)
  OBVIOUS
<1>1. Recy' = Recy /\ Live' = Live
  BY SameLists DEF Tick, recy
<1>2. /\ now' = now + 1 /\ Entering' = Entering
      /\ Left' = Left /\ Number' = Number
  BY <1>1 DEF Tick, epoll, Entering, Left, Number
<1>3. Lent!LTick
  BY <1>1, <1>2 DEF Lent!LTick, Entering, Left, Number, Recy
<1> QED  BY <1>3 DEF Lent!LNext

\* Accepting a client is leasing it a structure nobody has.
LEMMA LeaseAccept ==
  ASSUME NEW c \in Conns, NEW f \in Fds
  PROVE  IInv /\ NgxEventAccept(c, f) => [Lent!LNext]_(Lent!lvars)
<1> SUFFICES ASSUME IInv, NgxEventAccept(c, f)
             PROVE  [Lent!LNext]_(Lent!lvars)
  OBVIOUS
<1>1. /\ c \notin Live \cup Recy /\ Cardinality(Live) < mWorkerConnections
      /\ Live' = Live \cup {c} /\ Recy' = Recy
      /\ \A d \in Conns \ {c} : conn'[d] = conn[d]
      /\ conn'[c].iCurrSequence = conn[c].iCurrSequence + 1
  BY Accepted
<1>2. now' = now /\ Entering' = Entering \cup {c}
  BY DEF NgxEventAccept, AcceptInto, EpollIdle, Entering
<1>3. Left' = Left
  BY <1>1 DEF Left
<1>4. Number' = [Number EXCEPT ![c] = @ + 1]
  BY <1>1, NumberChanges
<1>5. Lent!Cardinality(Live) = Cardinality(Live)
  BY DEF Lent!Cardinality, Cardinality
<1>6. Lent!LLease(c)
  BY <1>1, <1>2, <1>3, <1>4, <1>5
    DEF Lent!LLease, Lent!ChangesHands, Entering, Left, Number, Recy
<1> QED  BY <1>6 DEF Lent!LNext

\* A client that could not be given to epoll is turned away, ...
LEMMA LeaseTurnAway == IInv /\ NgxCloseConnection => [Lent!LNext]_(Lent!lvars)
<1> SUFFICES ASSUME IInv, NgxCloseConnection PROVE [Lent!LNext]_(Lent!lvars)
  OBVIOUS
<1>1. PICK k \in Conns : k = ep.c
  BY TurnedAway
<1>2. /\ k \notin Recy /\ Live' = Live \ {k} /\ Recy' = Recy
      /\ \A d \in Conns \ {k} : conn'[d] = conn[d]
      /\ conn'[k].iCurrSequence = conn[k].iCurrSequence + 1
  BY <1>1, TurnedAway
<1>3. now' = now /\ Entering = {k} /\ Entering' = {}
  BY <1>1 DEF NgxCloseConnection, clock, Entering
<1>4. Left' = Left
  BY <1>2 DEF Left
<1>5. Number' = [Number EXCEPT ![k] = @ + 1]
  BY <1>2, NumberChanges
<1>6. Lent!LTurnAway(k)
  BY <1>2, <1>3, <1>4, <1>5
    DEF Lent!LTurnAway, Lent!ChangesHands, Entering, Left, Number, Recy
<1> QED  BY <1>6 DEF Lent!LNext

\* ... and one that could is admitted.
LEMMA LeaseAdmit == IInv /\ AddToTimeQueue => [Lent!LNext]_(Lent!lvars)
<1> SUFFICES ASSUME IInv, AddToTimeQueue PROVE [Lent!LNext]_(Lent!lvars)
  OBVIOUS
<1>1. PICK k \in Conns : k = ep.c
  BY DEF AddToTimeQueue, IInv, Holders, TypeOK
<1>2. Recy' = Recy /\ Live' = Live
  BY SameLists DEF AddToTimeQueue, recy
<1>3. /\ now' = now /\ Entering = {k} /\ Entering' = {}
      /\ Left' = Left /\ Number' = Number
  BY <1>1, <1>2 DEF AddToTimeQueue, clock, IInv, TypeOK, Entering, Left, Number
<1>4. Lent!LAdmit(k)
  BY <1>2, <1>3 DEF Lent!LAdmit, Entering, Left, Number, Recy
<1> QED  BY <1>4 DEF Lent!LNext

\* The first of the threads that close a client ends its lease; for the second
\* the structure rests already, and nothing happens.
LEMMA LeaseLeave ==
  ASSUME NEW t \in Closers
  PROVE  IInv /\ InRecyConnecQueue(t) => [Lent!LNext]_(Lent!lvars)
<1> SUFFICES ASSUME IInv, InRecyConnecQueue(t)
             PROVE  [Lent!LNext]_(Lent!lvars)
  OBVIOUS
<1>1. PICK k \in Conns : k = closing[t].c
  BY DEF InRecyConnecQueue, IInv, Holders, TypeOK
<1>2. now' = now /\ Entering' = Entering
  BY DEF InRecyConnecQueue, clock, epoll, Entering
<1>3. CASE k \in Recy
  <2>1. UNCHANGED <<conn, recy>>
    BY <1>1, <1>3 DEF InRecyConnecQueue, Recy
  <2>2. Recy' = Recy /\ Live' = Live
    BY <2>1, SameLists DEF InRecyConnecQueue, recy
  <2> QED  BY <1>2, <2>1, <2>2, LeaseStutters
<1>4. CASE k \notin Recy
  <2>1. /\ k \in Live /\ Live' = Live \ {k} /\ Recy' = Recy \cup {k}
        /\ \A d \in Conns \ {k} : conn'[d] = conn[d]
        /\ conn'[k].iCurrSequence = conn[k].iCurrSequence + 1
        /\ conn'[k].inRecyTime = now
    BY <1>1, <1>4, Recycled
  <2>2. k \notin Entering
    BY <1>1 DEF InRecyConnecQueue, IInv, Holders, Closers, Entering
  <2>3. Left' = [Left EXCEPT ![k] = now]
    BY <2>1 DEF Left
  <2>4. Number' = [Number EXCEPT ![k] = @ + 1]
    BY <2>1, NumberChanges
  <2>5. Lent!LLeave(k)
    BY <1>2, <2>1, <2>2, <2>3, <2>4
      DEF Lent!LLeave, Lent!ChangesHands, Entering, Left, Number, Recy
  <2> QED  BY <2>5 DEF Lent!LNext
<1> QED  BY <1>3, <1>4

\* What the recycling thread frees has rested.
LEMMA LeaseRested ==
  IInv /\ ServerRecyConnectionThread => [Lent!LNext]_(Lent!lvars)
<1> SUFFICES ASSUME IInv, ServerRecyConnectionThread
             PROVE  [Lent!LNext]_(Lent!lvars)
  OBVIOUS
<1>1. PICK k \in Conns :
        /\ Expired(k) /\ k \in Recy /\ Recy' = Recy \ {k} /\ Live' = Live
        /\ \A d \in Conns \ {k} : conn'[d] = conn[d]
        /\ conn'[k].iCurrSequence = conn[k].iCurrSequence + 1
  BY Freed
<1>2. now' = now /\ Entering' = Entering
  BY DEF ServerRecyConnectionThread, clock, epoll, Entering
<1>3. now >= Left[k] + mRecyConnectionWaitTime
  <2>1. /\ now \in Int /\ conn[k].inRecyTime \in Int
        /\ mRecyConnectionWaitTime \in Int
    BY TimeAssumption DEF IInv, TypeOK, Connection
  <2>2. Left[k] = conn[k].inRecyTime
    BY <1>1 DEF Left
  <2> QED  BY <1>1, <2>1, <2>2 DEF Expired
<1>4. Left' = [Left EXCEPT ![k] = 0]
  BY <1>1 DEF Left
<1>5. Number' = [Number EXCEPT ![k] = @ + 1]
  BY <1>1, NumberChanges
<1>6. Lent!LRested(k)
  BY <1>1, <1>2, <1>3, <1>4, <1>5
    DEF Lent!LRested, Lent!ChangesHands, Entering, Left, Number, Recy
<1> QED  BY <1>6 DEF Lent!LNext

\* No other step changes who has a structure or which of them rest.
LEMMA LeaseRest ==
  ASSUME IInv,
         \/ AcceptNobody \/ CountOnline \/ EpollWait \/ UNCHANGED vars
         \/ \E c \in Conns : RecvProc(c) \/ RecvData(c) \/ HandlePing(c)
         \/ \E t \in Closers : DeteleFromTimeQueue(t) \/ CloseFd(t)
         \/ CheckTime \/ GetOverTimeTimer \/ Sleep
         \/ \E e \in tm.mlsIdleLst : ProcPingTimeOutChecking(e)
  PROVE  [Lent!LNext]_(Lent!lvars)
<1>1. ASSUME now' = now, conn' = conn, lists' = lists,
             mRecyConnectionList' = mRecyConnectionList,
             mTotolRecyConnectionN' = mTotolRecyConnectionN,
             Entering' = Entering
      PROVE  [Lent!LNext]_(Lent!lvars)
  <2>1. Recy' = Recy /\ Live' = Live
    BY <1>1, SameLists
  <2> QED  BY <1>1, <2>1, LeaseStutters
<1>2. CASE AcceptNobody \/ CountOnline \/ EpollWait \/ UNCHANGED vars
  <2>1. CASE AcceptNobody \/ EpollWait
    BY <1>1, <2>1 DEF AcceptNobody, EpollWait, clock, recy, Entering
  <2>2. CASE CountOnline
    BY <1>1, <2>2 DEF CountOnline, clock, Entering
  <2>3. CASE UNCHANGED vars
    BY <1>1, <2>3 DEF vars, clock, recy, epoll, Entering
  <2> QED  BY <1>2, <2>1, <2>2, <2>3
<1>3. ASSUME NEW c \in Conns, RecvProc(c) \/ RecvData(c)
      PROVE  [Lent!LNext]_(Lent!lvars)
  BY <1>1, <1>3 DEF RecvProc, RecvData, clock, recy, Entering
<1>4. ASSUME NEW c \in Conns, HandlePing(c)
      PROVE  [Lent!LNext]_(Lent!lvars)
  <2>1. now' = now /\ Entering' = Entering /\ Recy' = Recy /\ Live' = Live
    BY <1>4 DEF HandlePing, clock, lists, recy, epoll, Entering, Recy, Live
  <2>2. \A d \in Conns : /\ conn'[d].iCurrSequence = conn[d].iCurrSequence
                         /\ conn'[d].inRecyTime = conn[d].inRecyTime
    BY <1>4 DEF HandlePing, IInv, TypeOK, Connection
  <2> QED  BY <2>1, <2>2, LeaseStutters
<1>5. ASSUME NEW t \in Closers, DeteleFromTimeQueue(t) \/ CloseFd(t)
      PROVE  [Lent!LNext]_(Lent!lvars)
  BY <1>1, <1>5
    DEF DeteleFromTimeQueue, CloseFd, clock, recy, epoll, Entering
<1>6. CASE CheckTime \/ GetOverTimeTimer \/ Sleep
  BY <1>1, <1>6
    DEF CheckTime, GetOverTimeTimer, Sleep, clock, recy, epoll, Entering
<1>7. ASSUME NEW e \in tm.mlsIdleLst, ProcPingTimeOutChecking(e)
      PROVE  [Lent!LNext]_(Lent!lvars)
  BY <1>1, <1>7 DEF ProcPingTimeOutChecking, clock, recy, epoll, Entering
<1> QED  BY <1>2, <1>3, <1>4, <1>5, <1>6, <1>7

LEMMA LeaseNext == IInv /\ [Next]_vars => [Lent!LNext]_(Lent!lvars)
<1> SUFFICES ASSUME IInv, [Next]_vars  PROVE [Lent!LNext]_(Lent!lvars)
  OBVIOUS
<1>1. CASE Tick \/ NgxCloseConnection \/ AddToTimeQueue
           \/ ServerRecyConnectionThread
  BY <1>1, LeaseTick, LeaseTurnAway, LeaseAdmit, LeaseRested
<1>2. ASSUME NEW c \in Conns, NEW f \in Fds, NgxEventAccept(c, f)
      PROVE  [Lent!LNext]_(Lent!lvars)
  BY <1>2, LeaseAccept
<1>3. ASSUME NEW t \in Closers, zdCloseSocketProc(t)
      PROVE  [Lent!LNext]_(Lent!lvars)
  <2>1. CASE InRecyConnecQueue(t)
    BY <2>1, LeaseLeave
  <2>2. CASE DeteleFromTimeQueue(t) \/ CloseFd(t)
    BY <2>2, LeaseRest
  <2> QED  BY <1>3, <2>1, <2>2 DEF zdCloseSocketProc
<1>4. CASE ServerTimeQueueMonitorThread
  <2>1. CASE zdCloseSocketProc("timer")
    BY <2>1, <1>3 DEF Closers
  <2>2. CASE \/ CheckTime \/ GetOverTimeTimer \/ Sleep
             \/ \E e \in tm.mlsIdleLst : ProcPingTimeOutChecking(e)
    BY <2>2, LeaseRest
  <2> QED  BY <1>4, <2>1, <2>2 DEF ServerTimeQueueMonitorThread
<1>5. CASE \/ AcceptNobody \/ CountOnline \/ EpollWait \/ UNCHANGED vars
           \/ \E c \in Conns : RecvProc(c) \/ RecvData(c) \/ HandlePing(c)
  BY <1>5, LeaseRest
<1>6. CASE zdCloseSocketProc("epoll")
  BY <1>6, <1>3 DEF Closers
<1> QED  BY <1>1, <1>2, <1>4, <1>5, <1>6 DEF Next, AcceptRest

\* Whatever order two threads close a client in, a structure is leased to one
\* client at a time, under a number of its own, and rests before the next lease.
THEOREM LeasesKept == Spec => ImplementsLeases
<1>1. IInv /\ [Next]_vars => [Lent!LNext]_(Lent!lvars)
  BY LeaseNext
<1> QED  BY <1>1, LeaseInit, Invariant, PTL DEF Spec, ImplementsLeases,
                                                Lent!LSpec

\* As long as a structure keeps its number it stays where it is: with its
\* client, or at rest, or free.  And no number comes back.
NumberTells ==
  \A c \in Conns :
    /\ conn'[c].iCurrSequence >= conn[c].iCurrSequence
    /\ conn'[c].iCurrSequence = conn[c].iCurrSequence =>
         (c \in Live' <=> c \in Live) /\ (c \in Recy' <=> c \in Recy)

\* What the sender, the handlers and the timer thread rely on when they compare
\* a number noted earlier with the connection's present one.
THEOREM NumbersTell == Spec => [][NumberTells]_vars
<1>1. IInv /\ [Next]_vars => NumberTells
  <2> SUFFICES ASSUME IInv, [Next]_vars, NEW c \in Conns
               PROVE  /\ Number'[c] >= Number[c]
                      /\ Number'[c] = Number[c] =>
                           (c \in Live' <=> c \in Live) /\ (c \in Recy' <=> c \in Recy)
    BY DEF NumberTells, Number
  <2>1. Number \in [Conns -> Nat]
    BY DEF IInv, TypeOK, Connection, Number
  <2>2. CASE UNCHANGED Lent!lvars
    <3>1. Number' = Number /\ Live' = Live /\ Recy' = Recy
      BY <2>2 DEF Lent!lvars, Number, Recy
    <3> QED  BY <2>1, <3>1
  <2>3. CASE Lent!LTick \/ \E d \in Conns : Lent!LAdmit(d)
    <3>1. Number' = Number /\ Live' = Live /\ Recy' = Recy
      BY <2>3 DEF Lent!LTick, Lent!LAdmit, Number, Recy
    <3> QED  BY <2>1, <3>1
  <2>4. ASSUME NEW d \in Conns,
               Lent!LLease(d) \/ Lent!LTurnAway(d) \/ Lent!LLeave(d) \/ Lent!LRested(d)
        PROVE  /\ Number' = [Number EXCEPT ![d] = @ + 1]
               /\ c # d => (c \in Live' <=> c \in Live) /\ (c \in Recy' <=> c \in Recy)
    BY <2>4 DEF Lent!LLease, Lent!LTurnAway, Lent!LLeave, Lent!LRested,
                Lent!ChangesHands, Number, Recy
  <2>5. ASSUME NEW d \in Conns,
               Lent!LLease(d) \/ Lent!LTurnAway(d) \/ Lent!LLeave(d) \/ Lent!LRested(d)
        PROVE  /\ Number'[c] >= Number[c]
               /\ Number'[c] = Number[c] =>
                    (c \in Live' <=> c \in Live) /\ (c \in Recy' <=> c \in Recy)
    BY <2>1, <2>4, <2>5
  <2> QED  BY <2>2, <2>3, <2>5, LeaseNext DEF Lent!LNext
<1> QED  BY <1>1, Invariant, PTL DEF Spec
===============================================================================

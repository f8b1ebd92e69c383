------------------------------ MODULE SendQueue -------------------------------
(***************************************************************************)
(* How CSocket sends replies.  Pool threads put them into mMsgSendQueue    *)
(* (MsgSend); the sender thread (ServerSendQueueThread) sends what the     *)
(* kernel takes at once and leaves the rest of a reply to the epoll        *)
(* thread, which goes on when EPOLLOUT fires (NgxEPollProcessEvents,       *)
(* NgxWriteRequestHandler).  iThrowSendCount says that a connection's      *)
(* reply is in the epoll thread's hands.  Meanwhile the epoll thread       *)
(* accepts and closes connections and the recycling thread reuses their    *)
(* structures.                                                             *)
(*                                                                         *)
(* The sender and the epoll thread share the fields of a connection with   *)
(* no lock: every access whose order matters is a step.  The sender holds  *)
(* mSendMessageQueueMutex while it sweeps the queue.  A descriptor belongs *)
(* to whichever client the kernel gave it last; the epoll registration     *)
(* holds the connection pointer of the last EPOLL_CTL_ADD or _MOD.         *)
(* A reply has MsgLen units, and its request is what created it.  The      *)
(* timer thread, which also closes connections, is not in this module.     *)
(***************************************************************************)
EXTENDS Integers, Sequences, Lists

CONSTANTS Conns,    \* connection structures of the pool
          Clients,  \* TCP connections of the clients, each accepted once
          Fds,      \* descriptors the kernel hands out
          Msgs,     \* replies
          MsgLen,   \* units in a reply
          MaxUnread, \* pieces of requests (a header, a body) that may be left
                    \* to read when a client's end is noticed
          EarlyFd,  \* may a closed descriptor be handed out again while a
                    \* thread is between its checks and its use of it?
          None

ASSUME MsgLenAssumption == MsgLen \in Nat \ {0}
ASSUME MaxUnreadAssumption == MaxUnread \in Nat
ASSUME EarlyAssumption == EarlyFd \in BOOLEAN
ASSUME NoneAssumption == None \notin Conns \cup Clients \cup Fds \cup Msgs

VARIABLES
  conn,    \* the fields of each connection structure
  place,   \* the list it is in: "free", "live" (in use) or "recy"
  client,  \* each client's TCP connection, as the kernel sees it
  unread,  \* what is left to read of a client that has ended
  owner,   \* the client a descriptor stands for, None if it is closed
  reg,     \* the epoll registration of a descriptor
  wire,    \* the units each client was sent
  msg,     \* each reply's message header and where it is before MsgSend
  mMsgSendQueue,
  sem,     \* mSemEventSendQueue
  frees,   \* how often each reply was given to FreeMemory
  snd,     \* the sender thread: place, position in the queue, reply, result
  ep       \* the epoll thread: place, connection, rest of the event's flags

peers == <<client, owner, unread>>
queue == <<mMsgSendQueue, sem>>
vars  == <<conn, place, peers, reg, wire, msg, queue, frees, snd, ep>>

NoReg == [ptr |-> None, out |-> FALSE]

\* The sender in sem_wait, and at a place of the queue; the epoll thread in
\* epoll_wait.
Waiting == [pc |-> "wait", pos |-> 1, m |-> None, n |-> 0]
Sweeping(pos) == [pc |-> "seq", pos |-> pos, m |-> None, n |-> 0]
Idle == [pc |-> "idle", c |-> None, out |-> FALSE, err |-> FALSE]

Init ==
  /\ conn = [c \in Conns |-> [iCurrSequence |-> 0, fd |-> None,
                              iThrowSendCount |-> 0, pSendMemPoint |-> None,
                              pSendBuf |-> None, iSendLen |-> 0,
                              out |-> FALSE]]
  /\ place = [c \in Conns |-> "free"]
  /\ client = [k \in Clients |-> "new"]
  /\ unread = [k \in Clients |-> 0]
  /\ owner = [f \in Fds |-> None]
  /\ reg = [f \in Fds |-> NoReg]
  /\ wire = [k \in Clients |-> <<>>]
  /\ msg = [m \in Msgs |-> [at |-> "none", pConn |-> None,
                            iCurrsequence |-> 0, from |-> None]]
  /\ mMsgSendQueue = <<>>
  /\ sem = 0
  /\ frees = [m \in Msgs |-> 0]
  /\ snd = Waiting
  /\ ep = Idle

Free(ms) == frees' = [m \in Msgs |-> frees[m] + (IF m \in ms THEN 1 ELSE 0)]

\* The descriptor of connection c leads to a client that can be sent bytes.
Open(c) == LET f == conn[c].fd IN
           f # None /\ owner[f] # None /\ client[owner[f]] \in {"up", "fin"}

\* send() on connection c: the result, and what it puts on the wire.  -2 is
\* an error, -1 is EAGAIN; a positive result is the number of units taken.
SendProc(c, n) ==
  LET first == MsgLen - conn[c].iSendLen
  IN IF Open(c)
     THEN /\ n \in {-1} \cup 1..conn[c].iSendLen
          /\ wire' = [wire EXCEPT ![owner[conn[c].fd]] =
                        @ \o [i \in 1..n |-> <<conn[c].pSendBuf, first + i>>]]
     ELSE n = -2 /\ UNCHANGED wire

\* NgxEpollOperEvent(EPOLL_CTL_MOD, EPOLLOUT): the registration of whatever
\* the descriptor stands for now gets this connection's events and pointer.
NgxEpollOperEvent(c, out) ==
  LET f == conn[c].fd IN
  /\ conn' = [conn EXCEPT ![c].out = out]
  /\ reg' = IF owner[f] = None THEN reg
            ELSE [reg EXCEPT ![f] = [ptr |-> c, out |-> out]]

\* The sender or the epoll thread has begun steps on connection c.
Busy(c) == \/ /\ snd.pc \in {"throw", "send", "sent", "null", "zero", "arm"}
              /\ msg[snd.m].pConn = c
           \/ ep.pc # "idle" /\ ep.c = c

-----------------------------------------------------------------------------
(* Pool threads.                                                           *)

\* ThreadRecvProcFunc checks that the connection is still the request's ...
ThreadRecvProcFunc(m) ==
  /\ msg[m].at = "recv"
  /\ msg' = [msg EXCEPT ![m].at =
               IF conn[msg[m].pConn].iCurrSequence = msg[m].iCurrsequence
               THEN "handle" ELSE "dropped"]
  /\ UNCHANGED <<conn, place, peers, reg, wire, queue, frees, snd, ep>>

\* ... and its handler calls MsgSend, which needs mSendMessageQueueMutex.
MsgSend(m) ==
  /\ msg[m].at = "handle"
  /\ snd.pc \in {"wait", "count"}
  /\ msg' = [msg EXCEPT ![m].at = "queued"]
  /\ mMsgSendQueue' = Append(mMsgSendQueue, m)
  /\ sem' = sem + 1
  /\ UNCHANGED <<conn, place, peers, reg, wire, frees, snd, ep>>

-----------------------------------------------------------------------------
(* The sender thread.                                                      *)

SemWait ==
  /\ snd.pc = "wait" /\ sem > 0
  /\ sem' = sem - 1
  /\ snd' = [snd EXCEPT !.pc = "count"]
  /\ UNCHANGED <<conn, place, peers, reg, wire, msg, mMsgSendQueue, frees, ep>>

\* sem_wait returns with EINTR: the thread goes on as if there were a token.
SemInterrupted ==
  /\ snd.pc = "wait"
  /\ snd' = [snd EXCEPT !.pc = "count"]
  /\ UNCHANGED <<conn, place, peers, reg, wire, msg, queue, frees, ep>>

\* miSendMsgQueueCount > 0, lock, begin().
StartSweep ==
  /\ snd.pc = "count"
  /\ snd' = IF Len(mMsgSendQueue) > 0 THEN Sweeping(1) ELSE Waiting
  /\ UNCHANGED <<conn, place, peers, reg, wire, msg, queue, frees, ep>>

EndSweep ==
  /\ snd.pc = "seq" /\ snd.pos > Len(mMsgSendQueue)
  /\ snd' = Waiting
  /\ UNCHANGED <<conn, place, peers, reg, wire, msg, queue, frees, ep>>

Erase == SubSeq(mMsgSendQueue, 1, snd.pos - 1)
           \o SubSeq(mMsgSendQueue, snd.pos + 1, Len(mMsgSendQueue))

\* A reply whose connection has been closed since its request is dropped.
CheckSequence ==
  /\ snd.pc = "seq" /\ snd.pos <= Len(mMsgSendQueue)
  /\ LET m == mMsgSendQueue[snd.pos] IN
     IF conn[msg[m].pConn].iCurrSequence # msg[m].iCurrsequence
     THEN /\ mMsgSendQueue' = Erase
          /\ Free({m})
          /\ UNCHANGED snd
     ELSE /\ snd' = [snd EXCEPT !.pc = "throw", !.m = m]
          /\ UNCHANGED <<mMsgSendQueue, frees>>
  /\ UNCHANGED <<conn, place, peers, reg, wire, msg, sem, ep>>

\* Fault: the count is not looked at.
CheckThrowCountSkipped ==
  /\ snd.pc = "throw"
  /\ LET c == msg[snd.m].pConn IN
     conn' = [conn EXCEPT ![c].pSendMemPoint = snd.m, ![c].pSendBuf = snd.m,
                          ![c].iSendLen = MsgLen]
  /\ mMsgSendQueue' = Erase
  /\ snd' = [snd EXCEPT !.pc = "send"]
  /\ UNCHANGED <<place, peers, reg, wire, msg, sem, frees, ep>>

\* A reply of a connection that waits for EPOLLOUT is passed over; any other
\* becomes the connection's current reply.
CheckThrowCount ==
  /\ snd.pc = "throw"
  /\ LET c == msg[snd.m].pConn IN
     IF conn[c].iThrowSendCount > 0
     THEN /\ snd' = Sweeping(snd.pos + 1)
          /\ UNCHANGED <<conn, mMsgSendQueue>>
     ELSE /\ conn' = [conn EXCEPT ![c].pSendMemPoint = snd.m,
                                  ![c].pSendBuf = snd.m,
                                  ![c].iSendLen = MsgLen]
          /\ mMsgSendQueue' = Erase
          /\ snd' = [snd EXCEPT !.pc = "send"]
  /\ UNCHANGED <<place, peers, reg, wire, msg, sem, frees, ep>>

Send ==
  /\ snd.pc = "send"
  /\ \E n \in -2..MsgLen : /\ SendProc(msg[snd.m].pConn, n)
                           /\ snd' = [snd EXCEPT !.pc = "sent", !.n = n]
  /\ UNCHANGED <<conn, place, peers, reg, msg, queue, frees, ep>>

\* All of it was sent, or the connection is broken: the reply is freed ...
SendOver ==
  LET c == msg[snd.m].pConn IN
  /\ snd.pc = "sent" /\ snd.n \in {-2, conn[c].iSendLen}
  /\ Free({conn[c].pSendMemPoint})
  /\ snd' = [snd EXCEPT !.pc = "null"]
  /\ UNCHANGED <<conn, place, peers, reg, wire, msg, queue, ep>>

\* ... then the pointer is cleared ...
SendNull ==
  /\ snd.pc = "null"
  /\ conn' = [conn EXCEPT ![msg[snd.m].pConn].pSendMemPoint = None]
  /\ snd' = [snd EXCEPT !.pc = "zero"]
  /\ UNCHANGED <<place, peers, reg, wire, msg, queue, frees, ep>>

\* ... then the count is set to 0.
SendZero ==
  /\ snd.pc = "zero"
  /\ conn' = [conn EXCEPT ![msg[snd.m].pConn].iThrowSendCount = 0]
  /\ snd' = Sweeping(snd.pos)
  /\ UNCHANGED <<place, peers, reg, wire, msg, queue, frees, ep>>

\* Fault: the length is reduced by the result although that may be -1.
SendPartlyUnchecked ==
  LET c == msg[snd.m].pConn IN
  /\ snd.pc = "sent" /\ snd.n \notin {-2, conn[c].iSendLen}
  /\ conn' = [conn EXCEPT ![c].iSendLen = @ - snd.n,
                          ![c].iThrowSendCount = @ + 1]
  /\ snd' = [snd EXCEPT !.pc = "arm"]
  /\ UNCHANGED <<place, peers, reg, wire, msg, queue, frees, ep>>

\* Fault: the connection is not advanced past what was sent.
SendPartlyFromStart ==
  LET c == msg[snd.m].pConn IN
  /\ snd.pc = "sent" /\ snd.n \notin {-2, conn[c].iSendLen}
  /\ conn' = [conn EXCEPT ![c].iThrowSendCount = @ + 1]
  /\ snd' = [snd EXCEPT !.pc = "arm"]
  /\ UNCHANGED <<place, peers, reg, wire, msg, queue, frees, ep>>

\* The kernel's buffer is full: count first, then ask for EPOLLOUT.
SendPartly ==
  LET c == msg[snd.m].pConn IN
  /\ snd.pc = "sent" /\ snd.n \notin {-2, conn[c].iSendLen}
  /\ conn' = [conn EXCEPT ![c].iSendLen = IF snd.n > 0 THEN @ - snd.n ELSE @,
                          ![c].iThrowSendCount = @ + 1]
  /\ snd' = [snd EXCEPT !.pc = "arm"]
  /\ UNCHANGED <<place, peers, reg, wire, msg, queue, frees, ep>>

\* Fault: EPOLLOUT is noted in the connection, not given to epoll.
ArmNotRegistered ==
  /\ snd.pc = "arm"
  /\ conn' = [conn EXCEPT ![msg[snd.m].pConn].out = TRUE]
  /\ snd' = Sweeping(snd.pos)
  /\ UNCHANGED <<place, peers, reg, wire, msg, queue, frees, ep>>

\* ... which NgxEpollOperEvent does.
Arm ==
  /\ snd.pc = "arm"
  /\ NgxEpollOperEvent(msg[snd.m].pConn, TRUE)
  /\ snd' = Sweeping(snd.pos)
  /\ UNCHANGED <<place, peers, wire, msg, queue, frees, ep>>

ServerSendQueueThread ==
  \/ SemWait \/ StartSweep \/ EndSweep \/ CheckSequence \/ CheckThrowCount
  \/ Send \/ SendOver \/ SendNull \/ SendZero \/ SendPartly \/ Arm

-----------------------------------------------------------------------------
(* The epoll thread.                                                       *)

\* NgxEventAccept, with NgxGetConnection (GetOneToUse) and EPOLL_CTL_ADD.
\* Which closed descriptor accept4 returns is the kernel's choice; EarlyFd says
\* whether it may be one that a thread still holds in a connection's fd.
NgxEventAccept(k, c, f) ==
  /\ ep.pc = "idle"
  /\ client[k] = "new" /\ place[c] = "free" /\ owner[f] = None
  /\ EarlyFd \/ \A b \in Conns : Busy(b) => conn[b].fd # f
  /\ client' = [client EXCEPT ![k] = "up"]
  /\ owner' = [owner EXCEPT ![f] = k]
  /\ place' = [place EXCEPT ![c] = "live"]
  /\ conn' = [conn EXCEPT ![c].iCurrSequence = @ + 1, ![c].fd = f,
                          ![c].iThrowSendCount = 0,
                          ![c].pSendMemPoint = None, ![c].out = FALSE]
  /\ reg' = [reg EXCEPT ![f] = [ptr |-> c, out |-> FALSE]]
  /\ UNCHANGED <<unread, wire, msg, queue, frees, snd, ep>>

\* epoll_wait reports descriptor f.  What the read handler will do: complete
\* a packet, close the connection (recv fails or returns 0, TestFlood says
\* so), or neither ("out": no EPOLLIN, or a piece that completes no packet).
\* Once the client has ended, the event has EPOLLRDHUP, EPOLLHUP or EPOLLERR
\* as well, and EPOLLIN: what is left is read one piece per event, then recv
\* returns 0 or an error.
EpollWait(f) ==
  LET k == owner[f] IN
  /\ ep.pc = "idle"
  /\ reg[f].ptr # None
  /\ \E todo \in {"packet", "close", "out"}, out \in {FALSE, reg[f].out} :
       /\ \/ /\ client[k] = "up"
             /\ todo = "out" => out
             /\ UNCHANGED unread
          \/ /\ client[k] # "up"
             /\ client[k] = "rst" => out = reg[f].out
             /\ todo # "close" => unread[k] > 0
             /\ unread' = [unread EXCEPT ![k] = IF todo = "close" THEN @ ELSE @ - 1]
       /\ todo = "packet" => \E m \in Msgs : msg[m].at = "none"
       /\ ep' = [pc |-> todo, c |-> reg[f].ptr, out |-> out,
                 err |-> client[k] # "up"]
  /\ UNCHANGED <<conn, place, client, owner, reg, wire, msg, queue, frees, snd>>

\* NgxReadRequestHandler completes a packet: its buffer's message header
\* holds the connection and its sequence number, and the reply copies it.
ReadPacket ==
  /\ ep.pc = "packet"
  /\ \E m \in Msgs :
       /\ msg[m].at = "none"
       /\ msg' = [msg EXCEPT ![m] =
                    [at |-> "recv", pConn |-> ep.c,
                     iCurrsequence |-> conn[ep.c].iCurrSequence,
                     from |-> owner[conn[ep.c].fd]]]
  /\ ep' = [ep EXCEPT !.pc = "out"]
  /\ UNCHANGED <<conn, place, peers, reg, wire, queue, frees, snd>>

\* zdCloseSocketProc, first: close(fd), which also ends its registration.
CloseFd ==
  LET f == conn[ep.c].fd IN
  /\ ep.pc = "close"
  /\ owner' = [owner EXCEPT ![f] = None]
  /\ reg' = [reg EXCEPT ![f] = NoReg]
  /\ client' = IF owner[f] = None THEN client
               ELSE [client EXCEPT ![owner[f]] = "closed"]
  /\ unread' = IF owner[f] = None THEN unread
               ELSE [unread EXCEPT ![owner[f]] = 0]
  /\ ep' = [ep EXCEPT !.pc = "undo"]
  /\ UNCHANGED <<conn, place, wire, msg, queue, frees, snd>>

\* ... then the count, if it is positive ...
UndoThrowCount ==
  /\ ep.pc = "undo"
  /\ ep' = [ep EXCEPT !.pc = IF conn[ep.c].iThrowSendCount > 0 THEN "lower"
                             ELSE "recy"]
  /\ UNCHANGED <<conn, place, peers, reg, wire, msg, queue, frees, snd>>

\* Fault: the function returns here.
LowerThrowCountReturns ==
  /\ ep.pc = "lower"
  /\ conn' = [conn EXCEPT ![ep.c].iThrowSendCount = @ - 1]
  /\ ep' = [ep EXCEPT !.pc = "out"]
  /\ UNCHANGED <<place, peers, reg, wire, msg, queue, frees, snd>>

\* ... is lowered (the sender may have changed it by now) ...
LowerThrowCount ==
  /\ ep.pc = "lower"
  /\ conn' = [conn EXCEPT ![ep.c].iThrowSendCount = @ - 1]
  /\ ep' = [ep EXCEPT !.pc = "recy"]
  /\ UNCHANGED <<place, peers, reg, wire, msg, queue, frees, snd>>

\* ... then InRecyConnecQueue, which makes the connection's messages stale.
InRecyConnecQueue ==
  /\ ep.pc = "recy"
  /\ IF place[ep.c] = "recy" THEN UNCHANGED <<conn, place>>
     ELSE /\ conn' = [conn EXCEPT ![ep.c].iCurrSequence = @ + 1]
          /\ place' = [place EXCEPT ![ep.c] = "recy"]
  /\ ep' = [ep EXCEPT !.pc = "out"]
  /\ UNCHANGED <<peers, reg, wire, msg, queue, frees, snd>>

\* The second half of the event: nothing, the decrement, or wHandler.
WriteEvent ==
  /\ ep.pc = "out"
  /\ ep' = IF ep.out /\ ~ep.err THEN [ep EXCEPT !.pc = "write"] ELSE Idle
  /\ conn' = IF ep.out /\ ep.err
             THEN [conn EXCEPT ![ep.c].iThrowSendCount = @ - 1] ELSE conn
  /\ UNCHANGED <<place, peers, reg, wire, msg, queue, frees, snd>>

\* Fault: EPOLLOUT stays registered when the reply is complete.
WriteMoreStaysArmed ==
  /\ ep.pc = "write"
  /\ \E n \in -2..MsgLen :
       /\ SendProc(ep.c, n)
       /\ ep' = IF n \in {-2, conn[ep.c].iSendLen}
                THEN [ep EXCEPT !.pc = "post"] ELSE Idle
       /\ conn' = IF n > 0 /\ n < conn[ep.c].iSendLen
                  THEN [conn EXCEPT ![ep.c].iSendLen = @ - n] ELSE conn
  /\ UNCHANGED <<place, peers, reg, msg, queue, frees, snd>>

\* NgxWriteRequestHandler sends the rest; if some is left it returns.
WriteMore ==
  /\ ep.pc = "write"
  /\ \E n \in -2..MsgLen :
       /\ SendProc(ep.c, n)
       /\ ep' = CASE n = -2 -> [ep EXCEPT !.pc = "post"]
                  [] n = conn[ep.c].iSendLen -> [ep EXCEPT !.pc = "disarm"]
                  [] OTHER -> Idle
       /\ conn' = IF n > 0 /\ n < conn[ep.c].iSendLen
                  THEN [conn EXCEPT ![ep.c].iSendLen = @ - n] ELSE conn
  /\ UNCHANGED <<place, peers, reg, msg, queue, frees, snd>>

Disarm ==
  /\ ep.pc = "disarm"
  /\ NgxEpollOperEvent(ep.c, FALSE)
  /\ ep' = [ep EXCEPT !.pc = "post"]
  /\ UNCHANGED <<place, peers, wire, msg, queue, frees, snd>>

\* sem_post wakes the sender ...
Post ==
  /\ ep.pc = "post"
  /\ sem' = sem + 1
  /\ ep' = [ep EXCEPT !.pc = "free"]
  /\ UNCHANGED <<conn, place, peers, reg, wire, msg, mMsgSendQueue, frees,
                 snd>>

\* ... before the reply is freed ...
WriteFree ==
  /\ ep.pc = "free"
  /\ Free({conn[ep.c].pSendMemPoint})
  /\ ep' = [ep EXCEPT !.pc = "null"]
  /\ UNCHANGED <<conn, place, peers, reg, wire, msg, queue, snd>>

\* ... the pointer cleared ...
WriteNull ==
  /\ ep.pc = "null"
  /\ conn' = [conn EXCEPT ![ep.c].pSendMemPoint = None]
  /\ ep' = [ep EXCEPT !.pc = "dec"]
  /\ UNCHANGED <<place, peers, reg, wire, msg, queue, frees, snd>>

\* ... and the connection is handed back to the sender.
ReleaseConn ==
  /\ ep.pc = "dec"
  /\ conn' = [conn EXCEPT ![ep.c].iThrowSendCount = @ - 1]
  /\ ep' = Idle
  /\ UNCHANGED <<place, peers, reg, wire, msg, queue, frees, snd>>

NgxWriteRequestHandler ==
  WriteMore \/ Disarm \/ Post \/ WriteFree \/ WriteNull \/ ReleaseConn
zdCloseSocketProc ==
  CloseFd \/ UndoThrowCount \/ LowerThrowCount \/ InRecyConnecQueue
HandleEvent == ReadPacket \/ zdCloseSocketProc \/ WriteEvent
                 \/ NgxWriteRequestHandler

-----------------------------------------------------------------------------
(* The recycling thread and the clients.                                   *)

\* ServerRecyConnectionThread frees the connection: PutOneToFree.  The wait of
\* mRecyConnectionWaitTime, 80 s, is taken to outlast every begun step.
PutOneToFree(c) ==
  /\ place[c] = "recy" /\ ~Busy(c)
  /\ place' = [place EXCEPT ![c] = "free"]
  /\ Free({conn[c].pSendMemPoint})
  /\ conn' = [conn EXCEPT ![c].iCurrSequence = @ + 1,
                          ![c].pSendMemPoint = None,
                          ![c].iThrowSendCount = 0]
  /\ UNCHANGED <<peers, reg, wire, msg, queue, snd, ep>>

\* The client ends its side (FIN) or the TCP connection (RST), with requests
\* sent before that still to be read, or none.
PeerEnds(k, how) ==
  /\ client[k] = "up"
  /\ client' = [client EXCEPT ![k] = how]
  /\ \E n \in 0..MaxUnread : unread' = [unread EXCEPT ![k] = n]
  /\ UNCHANGED <<conn, place, owner, reg, wire, msg, queue, frees, snd, ep>>

\* A FIN may be followed by a RST.
PeerResets(k) ==
  /\ client[k] = "fin"
  /\ client' = [client EXCEPT ![k] = "rst"]
  /\ UNCHANGED <<conn, place, owner, unread, reg, wire, msg, queue, frees, snd,
                 ep>>

-----------------------------------------------------------------------------
Next ==
  \/ \E m \in Msgs : ThreadRecvProcFunc(m) \/ MsgSend(m)
  \/ ServerSendQueueThread \/ SemInterrupted
  \/ \E k \in Clients, c \in Conns, f \in Fds : NgxEventAccept(k, c, f)
  \/ \E f \in Fds : EpollWait(f)
  \/ HandleEvent
  \/ \E c \in Conns : PutOneToFree(c)
  \/ \E k \in Clients : \/ PeerEnds(k, "fin") \/ PeerEnds(k, "rst")
                         \/ PeerResets(k)

Spec == Init /\ [][Next]_vars

\* Threads that can go on do, and get the queue's mutex in the end; a client
\* whose EPOLLOUT is awaited keeps taking bytes, and the end of a client is
\* reported (EPOLLIN and EPOLLRDHUP are level-triggered).  The recycling thread
\* wakes up every 200 ms.  Nothing else is promised: clients need not send
\* requests nor end, and no signal need come.
Fairness ==
  /\ WF_vars(ServerSendQueueThread)
  /\ WF_vars(HandleEvent)
  /\ SF_vars(\E m \in Msgs : ThreadRecvProcFunc(m) \/ MsgSend(m))
  /\ \A f \in Fds : /\ SF_vars(EpollWait(f) /\ ep'.out)
                    /\ WF_vars(EpollWait(f) /\ ep'.err)
  /\ \A c \in Conns : WF_vars(PutOneToFree(c))
  /\ SF_vars(WriteMore /\ ep'.pc = "disarm")

FairSpec == Spec /\ Fairness

-----------------------------------------------------------------------------
(* Properties.                                                             *)

Connection == [iCurrSequence : Nat, fd : Fds \cup {None},
               iThrowSendCount : Int, pSendMemPoint : Msgs \cup {None},
               pSendBuf : Msgs \cup {None}, iSendLen : 0..MsgLen,
               out : BOOLEAN]
Message == [at : {"none", "recv", "handle", "dropped", "queued"},
            pConn : Conns \cup {None}, iCurrsequence : Nat,
            from : Clients \cup {None}]
Sender == [pc : {"wait", "count", "seq", "throw", "send", "sent", "null",
                 "zero", "arm"},
           pos : Nat \ {0}, m : Msgs \cup {None}, n : -2..MsgLen]
Epoll == [pc : {"idle", "packet", "close", "undo", "lower", "recy", "out",
                "write", "disarm", "post", "free", "null", "dec"},
          c : Conns \cup {None}, out : BOOLEAN, err : BOOLEAN]

TypeOK ==
  /\ conn \in [Conns -> Connection]
  /\ place \in [Conns -> {"free", "live", "recy"}]
  /\ client \in [Clients -> {"new", "up", "fin", "rst", "closed"}]
  /\ unread \in [Clients -> Nat]
  /\ owner \in [Fds -> Clients \cup {None}]
  /\ reg \in [Fds -> [ptr : Conns \cup {None}, out : BOOLEAN]]
  /\ wire \in [Clients -> Seq(Msgs \X (1..MsgLen))]
  /\ msg \in [Msgs -> Message]
  /\ mMsgSendQueue \in Seq(Msgs)
  /\ sem \in Nat
  /\ frees \in [Msgs -> Nat]
  /\ snd \in Sender /\ ep \in Epoll

\* The sender, the epoll thread and the recycling thread give a reply to
\* FreeMemory once between them, as long as the server has not closed its
\* client: whatever becomes of the client, and however the two that free and
\* then clear pSendMemPoint meet.  (Afterwards both may: the count is lowered
\* in the read handler's call of zdCloseSocketProc, the sender takes the
\* connection over, and the same event goes on to NgxWriteRequestHandler.)
FreedOnceUntilClosed ==
  \A m \in Msgs : frees[m] > 1 => client[msg[m].from] = "closed"

\* No client is sent bytes of a reply that has been freed, by either thread.
NoUseAfterFree ==
  /\ snd.pc = "send" /\ Open(msg[snd.m].pConn) => frees[snd.m] = 0
  /\ ep.pc = "write" /\ Open(ep.c) => frees[conn[ep.c].pSendBuf] = 0

\* As long as its client has not ended, a reply that MsgSend took over is in
\* the queue or its connection's current reply until every unit was sent.
NothingLost ==
  \A m \in Msgs :
    msg[m].at = "queued" /\ client[msg[m].from] = "up" =>
      \/ m \in Elems(mMsgSendQueue)
      \/ frees[m] = 0 /\ conn[msg[m].pConn].pSendMemPoint = m
      \/ <<m, MsgLen>> \in Elems(wire[msg[m].from])

\* "Whoever gets here has not put a write event into epoll"
\* (ngx_c_socket.cxx:843): the sender never starts a reply on an unbroken
\* connection for which EPOLLOUT is awaited.
SenderNotArmed ==
  snd.pc = "send" /\ Open(msg[snd.m].pConn) => ~conn[msg[snd.m].pConn].out

\* The sender and the epoll thread never both work on the reply of a client
\* that has not ended: from the sender's store of a reply until it has cleared
\* it or asked for EPOLLOUT, and from the event until the count is lowered.
Writing == {"write", "disarm", "post", "free", "null", "dec"}
OneAtATime ==
  LET c == msg[snd.m].pConn IN
  snd.pc \in {"send", "sent", "null", "zero", "arm"}
    /\ Open(c) /\ client[owner[conn[c].fd]] = "up"
    => ~conn[c].out /\ ~(ep.pc \in Writing /\ ep.c = c)

\* A client only gets replies to its own requests.
ReplyToRequester ==
  \A k \in Clients : \A i \in 1..Len(wire[k]) : msg[wire[k][i][1]].from = k

\* The client that reply m is for has not ended its TCP connection.
Wanted(m) == msg[m].from # None /\ client[msg[m].from] = "up"

\* The semaphore and the sweeps make the sender take every queued reply out
\* of the queue, as long as its client is there.
QueueServed ==
  \A m \in Msgs : m \in Elems(mMsgSendQueue)
    ~> m \notin Elems(mMsgSendQueue) \/ ~Wanted(m)

\* A reply that waits for EPOLLOUT is sent to its end, as long as its client
\* is there.
PartlySentCompletes ==
  \A m \in Msgs : (\E c \in Conns : conn[c].pSendMemPoint = m /\ conn[c].out)
    ~> ~Wanted(m) \/ <<m, MsgLen>> \in Elems(wire[msg[m].from])

\* The structure of a client that has ended can be used again in the end,
\* whatever the sender, the epoll thread and the pool threads had to do with it
\* at that moment: a reply half sent, queued or being handled.
ConnReleased ==
  \A c \in Conns :
    place[c] = "live" /\ ~(\E f \in Fds : /\ f = conn[c].fd /\ owner[f] # None
                                         /\ client[owner[f]] = "up")
      ~> place[c] = "free"

-----------------------------------------------------------------------------
\* What clients see of it.
Box == INSTANCE Outbox WITH
         from <- [m \in Msgs |-> msg[m].from],
         ended <- {k \in Clients : client[k] \notin {"new", "up"}}
ImplementsOutbox == Box!OSpec
===============================================================================

----------------------------- MODULE SendQueueProofs ---------------------------
(***************************************************************************)
(* Theorems about SendQueue, for any sets of structures, descriptors,      *)
(* clients and replies, and replies of any length.                         *)
(*                                                                         *)
(* The inductive invariant says which client a structure, a descriptor and *)
(* a sequence number stand for, and that iThrowSendCount keeps the sender  *)
(* and the epoll thread apart on a connection whose client is there.       *)
(***************************************************************************)
EXTENDS SendQueue, ListLemmas

-----------------------------------------------------------------------------
(* The invariant.                                                          *)

\* Where the sender and the epoll thread are with connection c.
Sending == {"send", "sent", "null", "zero", "arm"}
Threading == {"throw"} \cup Sending
SndAt(c) == IF snd.pc \in Sending /\ msg[snd.m].pConn = c THEN snd.pc
            ELSE "elsewhere"
EpAt(c) == IF ep.pc # "idle" /\ ep.c = c THEN ep.pc ELSE "elsewhere"

\* Places of the epoll thread in zdCloseSocketProc, and in the last part of
\* NgxWriteRequestHandler (Writing is all of it).
Closing == {"undo", "lower", "recy"}
Releasing == {"post", "free", "null", "dec"}

\* Connection c is in use, and its descriptor has not been closed ...
Leads(c) == place[c] = "live" /\ conn[c].fd \in Fds /\ owner[conn[c].fd] # None

\* ... and the epoll thread may send on it: the client has not ended, or the
\* event that is being handled is from before its end.
Served(c) ==
  /\ Leads(c)
  /\ \/ client[owner[conn[c].fd]] = "up"
     \/ EpAt(c) # "elsewhere" /\ ~ep.err

\* A freed reply to which a connection still points.
Dangling(c) == SndAt(c) = "null" \/ EpAt(c) = "null"

\* A reply is in the queue, or some connection's current one, or freed.
Buffers ==
  /\ NoRepeats(mMsgSendQueue)
  /\ \A m \in Msgs :
       /\ m \in Elems(mMsgSendQueue) => frees[m] = 0 /\ msg[m].at = "queued"
       /\ frees[m] # 0 => msg[m].at = "queued"
       /\ frees[m] > 1 => client[msg[m].from] = "closed"
  /\ \A c \in Conns : LET m == conn[c].pSendMemPoint IN
       m # None => /\ msg[m].at = "queued" /\ msg[m].pConn = c
                   /\ m \notin Elems(mMsgSendQueue)
                   /\ frees[m] = 0 \/ Dangling(c)

Whole(w) == w = <<>> \/ w[Len(w)][2] = MsgLen
Fresh(m, w) == \A i \in 1..Len(w) : w[i][1] # m

\* The reply in the sender's hands.
InHand ==
  /\ snd.pc = "throw" => /\ snd.pos <= Len(mMsgSendQueue)
                         /\ snd.m = mMsgSendQueue[snd.pos]
  /\ snd.pc \in Threading =>
       /\ snd.m \in Msgs /\ msg[snd.m].at = "queued"
       /\ place[msg[snd.m].pConn] # "free"
       /\ place[msg[snd.m].pConn] = "live" =>
            owner[conn[msg[snd.m].pConn].fd] \in {None, msg[snd.m].from}
       /\ place[msg[snd.m].pConn] = "recy" =>
            owner[conn[msg[snd.m].pConn].fd] = None
       /\ conn[msg[snd.m].pConn].fd \in Fds
  /\ snd.pc \in {"send", "sent"} =>
       /\ conn[msg[snd.m].pConn].iSendLen = MsgLen
       /\ conn[msg[snd.m].pConn].pSendBuf = snd.m
       /\ snd.m \notin Elems(mMsgSendQueue)
       /\ Open(msg[snd.m].pConn) => conn[msg[snd.m].pConn].pSendMemPoint = snd.m
  /\ snd.pc = "send" => \A k \in Clients : Fresh(snd.m, wire[k])

\* Descriptors, their registrations and the structures in use.
Links ==
  /\ \A f \in Fds :
       IF owner[f] = None THEN reg[f] = NoReg
       ELSE /\ client[owner[f]] \in {"up", "fin", "rst"}
            /\ reg[f].ptr \in Conns
            /\ place[reg[f].ptr] = "live"
            /\ conn[reg[f].ptr].fd = f
            /\ conn[reg[f].ptr].out = reg[f].out
  /\ \A f, g \in Fds : owner[f] = owner[g] /\ owner[f] # None => f = g
  /\ \A c \in Conns : place[c] = "live" =>
       /\ conn[c].fd \in Fds
       /\ IF owner[conn[c].fd] = None THEN EpAt(c) \in Closing
          ELSE reg[conn[c].fd].ptr = c

\* The connection in the epoll thread's hands.
EpollRight ==
  ep.pc # "idle" =>
    /\ ep.c \in Conns /\ conn[ep.c].fd \in Fds
    /\ place[ep.c] \in {"live", "recy"}
    /\ place[ep.c] = "recy" <=>
         owner[conn[ep.c].fd] = None /\ ep.pc \notin Closing
    /\ ep.pc \in {"packet", "close"} => owner[conn[ep.c].fd] # None
    /\ ep.pc \in Closing => owner[conn[ep.c].fd] = None
    /\ ep.pc \in Writing => ~ep.err

\* What the sequence number in a message header proves.
SequenceRight ==
  \A m \in Msgs : LET c == msg[m].pConn IN
    IF msg[m].at = "none" THEN msg[m].from = None
    ELSE /\ c \in Conns /\ msg[m].from \in Clients
         /\ msg[m].iCurrsequence <= conn[c].iCurrSequence
         /\ msg[m].iCurrsequence = conn[c].iCurrSequence =>
              /\ place[c] = "live"
              /\ owner[conn[c].fd] \in {None, msg[m].from}
         /\ client[msg[m].from] # "closed" =>
              /\ msg[m].iCurrsequence = conn[c].iCurrSequence
              /\ owner[conn[c].fd] = msg[m].from

\* A reply waits for EPOLLOUT, or the epoll thread is done sending it.
Waits(c) == \/ conn[c].out /\ EpAt(c) \notin {"null", "dec"}
            \/ EpAt(c) \in {"post", "free"}

\* iThrowSendCount: the sender is done with a served connection that waits
\* for EPOLLOUT, and the epoll thread with one that does not.
Agreed(c) ==
  /\ conn[c].iThrowSendCount =
       IF SndAt(c) = "arm" \/ conn[c].out \/ EpAt(c) \in Releasing THEN 1 ELSE 0
  /\ SndAt(c) \in Sending =>
       /\ ~conn[c].out
       /\ conn[c].pSendBuf = snd.m
       /\ conn[c].pSendMemPoint = IF SndAt(c) = "zero" THEN None ELSE snd.m
       /\ EpAt(c) \notin Writing
  /\ EpAt(c) \in {"packet", "out"} => ~ep.err /\ (ep.out => conn[c].out)
  /\ EpAt(c) \in {"write", "disarm"} => conn[c].out
  /\ EpAt(c) \in Releasing => ~conn[c].out \/ ~Open(c)
  /\ IF Waits(c)
     THEN /\ conn[c].pSendMemPoint \in Msgs
          /\ conn[c].pSendBuf = conn[c].pSendMemPoint
          /\ msg[conn[c].pSendMemPoint].from = owner[conn[c].fd]
     ELSE SndAt(c) \notin Sending /\ EpAt(c) # "null"
            => conn[c].pSendMemPoint = None
  /\ Dangling(c) /\ conn[c].pSendMemPoint # None
       => frees[conn[c].pSendMemPoint] # 0

Protocol == \A c \in Conns : Served(c) => Agreed(c)

\* What the client got ends with n units of reply m.
Upto(m, n, w) == IF n = 0 THEN Whole(w) /\ Fresh(m, w)
                 ELSE w # <<>> /\ w[Len(w)] = <<m, n>>

\* What a client has got of its connection's current reply.
Got(c) == LET w == wire[owner[conn[c].fd]] IN
  /\ SndAt(c) = "send" => Upto(snd.m, 0, w)
  /\ SndAt(c) = "sent" =>
       snd.n # -2 /\ Upto(snd.m, IF snd.n > 0 THEN snd.n ELSE 0, w)
  /\ SndAt(c) = "arm" \/ (conn[c].out /\ EpAt(c) # "disarm") =>
       /\ conn[c].iSendLen # 0
       /\ Upto(conn[c].pSendBuf, MsgLen - conn[c].iSendLen, w)
  /\ EpAt(c) \in {"disarm", "post", "free"} => Upto(conn[c].pSendBuf, MsgLen, w)
  /\ conn[c].iThrowSendCount = 0 /\ SndAt(c) # "sent" => Whole(w)
  /\ EpAt(c) \in {"null", "dec"} => Whole(w)

Progress == \A c \in Conns : Served(c) /\ Open(c) => Got(c)

\* Units on the wire are of replies to the client that the sender took out of
\* the queue.
WireRight ==
  \A k \in Clients : \A i \in 1..Len(wire[k]) : LET m == wire[k][i][1] IN
    msg[m].at = "queued" /\ msg[m].from = k /\ m \notin Elems(mMsgSendQueue)

IInv == /\ TypeOK /\ Buffers /\ InHand /\ Links /\ EpollRight
        /\ SequenceRight /\ Protocol /\ Progress /\ WireRight
        /\ NothingLost

-----------------------------------------------------------------------------
(* What follows from the invariant.                                        *)

\* What the fields that hold replies hold.
LEMMA Replies ==
  ASSUME TypeOK
  PROVE  /\ \A c \in Conns : /\ conn[c].pSendMemPoint \in Msgs \cup {None}
                            /\ conn[c].pSendBuf \in Msgs \cup {None}
         /\ Elems(mMsgSendQueue) \subseteq Msgs
         /\ \A k \in Clients : /\ Len(wire[k]) \in Nat
                              /\ \A i \in 1..Len(wire[k]) :
                                   /\ wire[k][i] \in Msgs \X (1..MsgLen)
                                   /\ wire[k][i][1] \in Msgs
                                   /\ wire[k][i][2] \in 1..MsgLen
<1>1. \A c \in Conns : conn[c] \in Connection
  BY DEF TypeOK
<1>2. Elems(mMsgSendQueue) \subseteq Msgs
  BY ElementOfSeq DEF TypeOK, Elems
<1>3. ASSUME NEW k \in Clients
      PROVE  /\ Len(wire[k]) \in Nat
             /\ \A i \in 1..Len(wire[k]) : wire[k][i] \in Msgs \X (1..MsgLen)
  <2>1. wire[k] \in Seq(Msgs \X (1..MsgLen))
    BY DEF TypeOK
  <2> QED  BY <2>1, ElementOfSeq, LenProperties
<1>4. \A u \in Msgs \X (1..MsgLen) : u[1] \in Msgs /\ u[2] \in 1..MsgLen
  OBVIOUS
<1> QED  BY <1>1, <1>2, <1>3, <1>4 DEF Connection

\* The sender's connection.
LEMMA SenderConn ==
  ASSUME TypeOK, InHand, SequenceRight, snd.pc \in Threading
  PROVE  LET c == msg[snd.m].pConn IN
         /\ snd.m \in Msgs /\ c \in Conns /\ conn[c].fd \in Fds
         /\ msg[snd.m].at = "queued" /\ place[c] \in {"live", "recy"}
         /\ Open(c) => Leads(c) /\ owner[conn[c].fd] = msg[snd.m].from
BY DEF TypeOK, InHand, SequenceRight, Threading, Sending, Open, Leads

\* The epoll thread's connection.
LEMMA EpollConn ==
  ASSUME TypeOK, EpollRight, ep.pc # "idle"
  PROVE  /\ ep.c \in Conns /\ conn[ep.c].fd \in Fds
         /\ Open(ep.c) => Leads(ep.c)
         /\ Open(ep.c) /\ ~ep.err => Served(ep.c)
         /\ Open(ep.c) /\ ep.pc \in Writing => Served(ep.c)
BY DEF TypeOK, Epoll, EpollRight, Open, Leads, Served, EpAt, Writing

\* A reply whose client is there has that client's connection.
LEMMA ClientThere ==
  ASSUME TypeOK, Links, SequenceRight,
         NEW n \in Msgs, msg[n].at # "none", client[msg[n].from] = "up"
  PROVE  /\ msg[n].pConn \in Conns /\ Served(msg[n].pConn) /\ Open(msg[n].pConn)
         /\ owner[conn[msg[n].pConn].fd] = msg[n].from
<1> DEFINE c == msg[n].pConn
<1>1. /\ c \in Conns /\ msg[n].from \in Clients /\ place[c] = "live"
      /\ owner[conn[c].fd] = msg[n].from
  BY DEF SequenceRight
<1>2. conn[c].fd \in Fds /\ conn[c].fd # None /\ owner[conn[c].fd] # None
  BY <1>1, NoneAssumption DEF Links
<1> QED  BY <1>1, <1>2 DEF Served, Leads, Open

LEMMA LeadsClient ==
  ASSUME TypeOK, NEW c \in Conns, Leads(c)
  PROVE  conn[c].fd \in Fds /\ owner[conn[c].fd] \in Clients
BY DEF Leads, TypeOK

\* No two connections in use share a descriptor or a client.
LEMMA LeadsApart ==
  ASSUME TypeOK, Links, NEW c \in Conns, NEW d \in Conns, Leads(c), Leads(d),
         owner[conn[c].fd] = owner[conn[d].fd]
  PROVE  c = d
BY DEF Links, Leads

\* Of a connection that is neither served nor being closed by the epoll thread
\* in whose hands it is, every request is from a client that was closed.
LEMMA OldReply ==
  ASSUME TypeOK, Links, EpollRight, SequenceRight, NEW n \in Msgs,
         msg[n].at # "none", EpAt(msg[n].pConn) \in Writing,
         ~Served(msg[n].pConn)
  PROVE  client[msg[n].from] = "closed"
<1> DEFINE c == msg[n].pConn
<1>1. c \in Conns
  BY DEF SequenceRight
<1>2. ep.pc = EpAt(c) /\ ep.pc # "idle" /\ ep.c = c /\ ep.pc \in Writing
  BY DEF EpAt, Writing
<1>3. ~ep.err /\ ep.pc \notin Closing /\ EpAt(c) # "elsewhere"
  BY <1>2 DEF EpollRight, Writing, Closing
<1>4. ~Leads(c) /\ conn[c].fd \in Fds
  BY <1>2, <1>3 DEF Served, EpollRight
<1>5. place[c] = "recy"
  BY <1>1, <1>2, <1>3, <1>4 DEF Leads, Links, EpollRight
<1> QED  BY <1>5 DEF SequenceRight

\* Steps that change neither who is connected nor what is registered.
LEMMA SameLinks ==
  ASSUME TypeOK, Links, SequenceRight,
         UNCHANGED <<place, client, owner, reg>>,
         \A n \in Msgs : /\ msg'[n].pConn = msg[n].pConn
                         /\ msg'[n].iCurrsequence = msg[n].iCurrsequence
                         /\ msg'[n].from = msg[n].from
                         /\ msg'[n].at = "none" <=> msg[n].at = "none",
         \A b \in Conns : /\ conn'[b].fd = conn[b].fd
                          /\ conn'[b].iCurrSequence = conn[b].iCurrSequence
                          /\ conn'[b].out = conn[b].out
                          /\ EpAt(b)' \in Closing <=> EpAt(b) \in Closing
                          /\ EpAt(b) = "elsewhere" \/ ep.err
                               => EpAt(b)' = "elsewhere" \/ ep'.err
  PROVE  /\ Links' /\ SequenceRight'
         /\ \A b \in Conns : (Served(b)' => Served(b)) /\ (Open(b)' => Open(b))
<1>1. Links'
  BY DEF Links
<1>2. SequenceRight'
  BY DEF SequenceRight
<1>3. \A b \in Conns : (Served(b)' => Served(b)) /\ (Open(b)' => Open(b))
  BY DEF Served, Leads, Open
<1> QED  BY <1>1, <1>2, <1>3

\* Steps that change no connection's current reply, nor the queue.
LEMMA SameBuffers ==
  ASSUME TypeOK, Buffers, SequenceRight, UNCHANGED <<mMsgSendQueue, frees>>,
         \A k \in Clients : client[k] = "closed" => client'[k] = "closed",
         \A n \in Msgs : msg[n].at = "queued" => msg'[n] = msg[n],
         \A b \in Conns : /\ conn'[b].pSendMemPoint = conn[b].pSendMemPoint
                          /\ SndAt(b)' = "null" <=> SndAt(b) = "null"
                          /\ EpAt(b)' = "null" <=> EpAt(b) = "null"
  PROVE  Buffers'
<1>1. \A b \in Conns : Dangling(b) => Dangling(b)'
  BY DEF Dangling
<1>2. \A b \in Conns : conn[b].pSendMemPoint \in Msgs \cup {None}
  BY Replies
<1>3. \A n \in Elems(mMsgSendQueue) : n \in Msgs
  BY Replies
<1>4. ASSUME NEW n \in Msgs
      PROVE  /\ n \in Elems(mMsgSendQueue) => frees[n] = 0 /\ msg'[n].at = "queued"
             /\ frees[n] # 0 => msg'[n].at = "queued"
             /\ frees[n] > 1 => client'[msg'[n].from] = "closed"
  <2>1. /\ n \in Elems(mMsgSendQueue) => frees[n] = 0 /\ msg[n].at = "queued"
        /\ frees[n] # 0 => msg[n].at = "queued"
        /\ frees[n] > 1 => client[msg[n].from] = "closed"
        /\ msg[n].at = "queued" => msg'[n] = msg[n] /\ msg[n].from \in Clients
    BY DEF Buffers, SequenceRight
  <2>2. frees[n] > 1 => frees[n] # 0
    BY DEF TypeOK
  <2> QED  BY <2>1, <2>2
<1>5. ASSUME NEW b \in Conns, NEW n, n = conn[b].pSendMemPoint, n # None
      PROVE  /\ msg'[n].at = "queued" /\ msg'[n].pConn = b
             /\ n \notin Elems(mMsgSendQueue)
             /\ frees[n] = 0 \/ Dangling(b)'
  BY <1>1, <1>2, <1>5 DEF Buffers
<1>6. NoRepeats(mMsgSendQueue)
  BY DEF Buffers
<1> QED  BY <1>4, <1>5, <1>6 DEF Buffers

\* ... nor take anything from the wire.
LEMMA SameKept ==
  ASSUME TypeOK, NothingLost, SequenceRight, UNCHANGED <<mMsgSendQueue, frees>>,
         \A k \in Clients : /\ client'[k] = "up" => client[k] = "up"
                            /\ Elems(wire[k]) \subseteq Elems(wire'[k]),
         \A n \in Msgs : msg'[n].at = "queued" => msg'[n] = msg[n],
         \A b \in Conns : conn'[b].pSendMemPoint = conn[b].pSendMemPoint
  PROVE  NothingLost'
<1> SUFFICES ASSUME NEW n \in Msgs, msg[n].at = "queued", msg'[n] = msg[n],
                    client[msg[n].from] = "up"
             PROVE  \/ n \in Elems(mMsgSendQueue)
                    \/ frees[n] = 0 /\ conn'[msg[n].pConn].pSendMemPoint = n
                    \/ <<n, MsgLen>> \in Elems(wire'[msg[n].from])
  BY DEF NothingLost, SequenceRight
<1> QED  BY DEF NothingLost, SequenceRight

\* A connection that a step does not concern.
Untouched(b) ==
  /\ conn'[b] = conn[b]
  /\ (Served(b)' => Served(b)) /\ (Open(b)' => Open(b))
  /\ owner'[conn[b].fd] = owner[conn[b].fd]
  /\ Served(b) => wire'[owner[conn[b].fd]] = wire[owner[conn[b].fd]]
  /\ SndAt(b)' = SndAt(b) /\ EpAt(b)' = EpAt(b)
  /\ SndAt(b) # "elsewhere" => snd'.m = snd.m /\ snd'.n = snd.n
  /\ EpAt(b) # "elsewhere" => ep'.out = ep.out /\ ep'.err = ep.err
  /\ \A n \in Msgs : /\ msg[n].at # "none" => msg'[n].from = msg[n].from
                     /\ frees[n] # 0 => frees'[n] # 0

LEMMA UntouchedKeeps ==
  ASSUME TypeOK, Buffers, NoneAssumption, NEW b \in Conns, Untouched(b),
         Served(b) => Agreed(b) /\ (Open(b) => Got(b))
  PROVE  Served(b)' => Agreed(b)' /\ (Open(b)' => Got(b)')
<1> SUFFICES ASSUME Served(b)'  PROVE Agreed(b)' /\ (Open(b)' => Got(b)')
  OBVIOUS
<1>0. /\ Served(b) /\ Agreed(b) /\ (Open(b) => Got(b)) /\ (Open(b)' => Open(b))
  BY DEF Untouched
<1>1. Agreed(b)'
  <2>1. Waits(b)' <=> Waits(b)
    BY DEF Untouched, Waits
  <2>2. SndAt(b) \in Sending => SndAt(b) # "elsewhere"
    BY DEF Sending
  <2>3. EpAt(b) \in {"packet", "out"} => EpAt(b) # "elsewhere"
    OBVIOUS
  <2>4. Waits(b) => /\ conn[b].pSendMemPoint \in Msgs
                    /\ conn[b].pSendMemPoint # None
                    /\ msg[conn[b].pSendMemPoint].at # "none"
    BY <1>0, NoneAssumption DEF Agreed, Buffers
  <2>5. (Dangling(b) /\ conn[b].pSendMemPoint # None
           => frees[conn[b].pSendMemPoint] # 0)'
    <3>1. conn[b].pSendMemPoint \in Msgs \cup {None}
      BY Replies
    <3>2. Dangling(b)' => Dangling(b)
      BY DEF Untouched, Dangling
    <3> QED  BY <1>0, <3>1, <3>2 DEF Untouched, Agreed
  <2> QED  BY <1>0, <2>1, <2>2, <2>3, <2>4, <2>5 DEF Untouched, Agreed
<1>2. ASSUME Open(b)'  PROVE Got(b)'
  BY <1>0, <1>2 DEF Untouched, Got
<1> QED  BY <1>1, <1>2

\* A step that concerns no connection, or only connection c.
LEMMA NoneTouched ==
  ASSUME TypeOK, Buffers, Protocol, Progress, \A b \in Conns : Untouched(b)
  PROVE  Protocol' /\ Progress'
BY UntouchedKeeps, NoneAssumption DEF Protocol, Progress

LEMMA OneTouched ==
  ASSUME TypeOK, Buffers, Protocol, Progress, NEW c \in Conns,
         \A b \in Conns \ {c} : Untouched(b),
         Served(c)' => Agreed(c)' /\ (Open(c)' => Got(c)')
  PROVE  Protocol' /\ Progress'
BY UntouchedKeeps, NoneAssumption DEF Protocol, Progress

LEMMA Freed ==
  ASSUME TypeOK, NEW ms, Free(ms)
  PROVE  /\ frees' \in [Msgs -> Nat]
         /\ \A n \in Msgs : frees'[n] = IF n \in ms THEN frees[n] + 1 ELSE frees[n]
BY DEF TypeOK, Free

\* What send() puts on the wire.
LEMMA SendProcSends ==
  ASSUME TypeOK, NEW c \in Conns, NEW n \in -2..MsgLen, SendProc(c, n),
         Open(c) => conn[c].pSendBuf \in Msgs
  PROVE  /\ wire' \in [Clients -> Seq(Msgs \X (1..MsgLen))]
         /\ n > 0 => n <= conn[c].iSendLen
         /\ IF ~Open(c) THEN n = -2 /\ wire' = wire
            ELSE LET k == owner[conn[c].fd]
                     first == MsgLen - conn[c].iSendLen
                     l == Len(wire[k])
                 IN  /\ k \in Clients /\ n # -2 /\ n # 0
                     /\ \A j \in Clients \ {k} : wire'[j] = wire[j]
                     /\ IF n < 0 THEN wire'[k] = wire[k]
                        ELSE /\ Len(wire'[k]) = l + n
                             /\ \A i \in 1..l : wire'[k][i] = wire[k][i]
                             /\ \A i \in 1..n :
                                  wire'[k][l + i] = <<conn[c].pSendBuf, first + i>>
<1>1. CASE ~Open(c)
  BY <1>1 DEF SendProc, TypeOK
<1>2. CASE Open(c)
  <2> DEFINE k == owner[conn[c].fd]
             first == MsgLen - conn[c].iSendLen
             new == [i \in 1..n |-> <<conn[c].pSendBuf, first + i>>]
  <2>1. k \in Clients /\ conn[c].iSendLen \in 0..MsgLen /\ MsgLen \in Nat
    BY <1>2, MsgLenAssumption DEF Open, TypeOK, Connection
  <2>2. n = -1 \/ n \in 1..conn[c].iSendLen
    BY <1>2, <2>1 DEF SendProc
  <2>3. wire' = [wire EXCEPT ![k] = @ \o new]
    BY <1>2 DEF SendProc
  <2>4. wire[k] \in Seq(Msgs \X (1..MsgLen)) /\ Len(wire[k]) \in Nat
    BY <2>1, LenProperties DEF TypeOK
  <2>5. CASE n = -1
    <3>1. new = <<>>
      BY <2>5
    <3>2. wire[k] \o new = wire[k]
      BY <3>1, <2>4, ConcatEmptySeq
    <3>3. wire' = wire
      BY <2>1, <2>3, <3>2 DEF TypeOK
    <3> QED  BY <1>2, <2>1, <2>5, <3>3 DEF TypeOK
  <2>6. CASE n \in 1..conn[c].iSendLen
    <3>1. \A i \in 1..n : <<conn[c].pSendBuf, first + i>> \in Msgs \X (1..MsgLen)
      BY <1>2, <2>1, <2>6
    <3>2. /\ new \in Seq(Msgs \X (1..MsgLen)) /\ Len(new) = n
          /\ \A i \in 1..n : new[i] = <<conn[c].pSendBuf, first + i>>
      BY <3>1, <2>6, <2>1, IsASeq
    <3> HIDE DEF new
    <3>3. /\ wire[k] \o new \in Seq(Msgs \X (1..MsgLen))
          /\ Len(wire[k] \o new) = Len(wire[k]) + n
          /\ \A i \in 1..(Len(wire[k]) + n) :
               (wire[k] \o new)[i] = IF i <= Len(wire[k]) THEN wire[k][i]
                                     ELSE new[i - Len(wire[k])]
      BY <3>2, <2>4, ConcatProperties
    <3>4. /\ \A i \in 1..Len(wire[k]) : (wire[k] \o new)[i] = wire[k][i]
          /\ \A i \in 1..n : (wire[k] \o new)[Len(wire[k]) + i] = new[i]
      BY <3>3, <2>1, <2>4, <2>6
    <3>5. /\ wire' \in [Clients -> Seq(Msgs \X (1..MsgLen))]
          /\ wire'[k] = wire[k] \o new
          /\ \A j \in Clients \ {k} : wire'[j] = wire[j]
      BY <2>1, <2>3, <3>3 DEF TypeOK
    <3>6. /\ Len(wire'[k]) = Len(wire[k]) + n
          /\ \A i \in 1..Len(wire[k]) : wire'[k][i] = wire[k][i]
          /\ \A i \in 1..n : wire'[k][Len(wire[k]) + i]
                             = <<conn[c].pSendBuf, first + i>>
      BY <3>2, <3>3, <3>4, <3>5
    <3>7. n <= conn[c].iSendLen /\ n # -2 /\ n # 0 /\ ~(n < 0)
      BY <2>1, <2>6
    <3> QED  BY <1>2, <2>1, <3>5, <3>6, <3>7, Zenon
  <2> QED  BY <2>2, <2>5, <2>6
<1> QED  BY <1>1, <1>2

\* The same in terms of the invariant.
WireGrows(c, n) ==
  LET k == owner[conn[c].fd]
      m == conn[c].pSendBuf
  IN  /\ \A j \in Clients : Elems(wire[j]) \subseteq Elems(wire'[j])
      /\ \A j \in Clients : j # k \/ ~Open(c) => wire'[j] = wire[j]
      /\ \A j \in Clients : \A i \in 1..Len(wire'[j]) :
           \/ i \in 1..Len(wire[j]) /\ wire'[j][i] = wire[j][i]
           \/ Open(c) /\ j = k /\ wire'[j][i][1] = m
      /\ IF Open(c)
         THEN /\ n # -2 /\ k \in Clients
              /\ IF n > 0
                 THEN Upto(m, MsgLen - conn[c].iSendLen + n, wire'[k])
                 ELSE wire'[k] = wire[k]
         ELSE n = -2

LEMMA SendProcKeeps ==
  ASSUME TypeOK, NEW c \in Conns, NEW n \in -2..MsgLen, SendProc(c, n),
         Open(c) => conn[c].pSendBuf \in Msgs
  PROVE  WireGrows(c, n)
<1> USE DEF WireGrows
<1> DEFINE k == owner[conn[c].fd]
           m == conn[c].pSendBuf
<1>1. CASE ~Open(c) \/ n < 0
  <2>1. wire' = wire
    <3>1. wire' \in [Clients -> Seq(Msgs \X (1..MsgLen))]
      BY SendProcSends
    <3>2. CASE ~Open(c)
      BY <3>2, SendProcSends
    <3>3. CASE Open(c)
      <4>1. \A j \in Clients : wire'[j] = wire[j]
        BY <1>1, <3>3, SendProcSends
      <4> QED  BY <3>1, <4>1 DEF TypeOK
    <3> QED  BY <3>2, <3>3
  <2>2. IF Open(c) THEN n # -2 /\ k \in Clients ELSE n = -2
    BY SendProcSends
  <2>3. Open(c) => ~(n > 0)
    BY <1>1, MsgLenAssumption
  <2> QED  BY <2>1, <2>2, <2>3
<1>2. CASE Open(c) /\ ~(n < 0)
  <2>1. /\ k \in Clients /\ n # -2 /\ n \in 1..MsgLen
        /\ n <= conn[c].iSendLen
        /\ \A j \in Clients \ {k} : wire'[j] = wire[j]
    BY <1>2, SendProcSends, MsgLenAssumption
  <2>2. /\ Len(wire'[k]) = Len(wire[k]) + n
        /\ \A i \in 1..Len(wire[k]) : wire'[k][i] = wire[k][i]
        /\ \A i \in 1..n : wire'[k][Len(wire[k]) + i]
                           = <<m, MsgLen - conn[c].iSendLen + i>>
    BY <1>2, SendProcSends
  <2>3. /\ Len(wire[k]) \in Nat /\ MsgLen \in Nat
        /\ conn[c].iSendLen \in 0..MsgLen
    BY <2>1, Replies, MsgLenAssumption DEF TypeOK, Connection
  <2> HIDE DEF k, m
  <2>4. Elems(wire[k]) \subseteq Elems(wire'[k])
    <3>1. ASSUME NEW i \in 1..Len(wire[k])
          PROVE  i \in 1..Len(wire'[k]) /\ wire'[k][i] = wire[k][i]
      BY <2>1, <2>2, <2>3
    <3> QED  BY <3>1 DEF Elems
  <2>5. ASSUME NEW i \in 1..Len(wire'[k])
        PROVE  \/ i \in 1..Len(wire[k]) /\ wire'[k][i] = wire[k][i]
               \/ wire'[k][i][1] = m
    <3>1. CASE i <= Len(wire[k])
      BY <3>1, <2>2, <2>3
    <3>2. CASE i > Len(wire[k])
      <4>1. PICK j \in 1..n : i = Len(wire[k]) + j
        <5>1. i - Len(wire[k]) \in 1..n /\ i = Len(wire[k]) + (i - Len(wire[k]))
          BY <3>2, <2>1, <2>2, <2>3
        <5> QED  BY <5>1
      <4>2. wire'[k][i] = <<m, MsgLen - conn[c].iSendLen + j>>
        BY <4>1, <2>2
      <4> QED  BY <4>2
    <3> QED  BY <3>1, <3>2, <2>2, <2>3
  <2>6. Upto(m, MsgLen - conn[c].iSendLen + n, wire'[k])
    <3>1. MsgLen - conn[c].iSendLen + n # 0 /\ n \in 1..n
      BY <2>1, <2>3
    <3>2. wire'[k][Len(wire'[k])] = <<m, MsgLen - conn[c].iSendLen + n>>
      BY <3>1, <2>2
    <3>3. wire'[k] # <<>>
      <4>1. Len(wire'[k]) # 0
        BY <2>1, <2>2, <2>3
      <4>2. wire'[k] \in Seq(Msgs \X (1..MsgLen))
        BY <2>1, SendProcSends
      <4> QED  BY <4>1, <4>2, EmptySeq
    <3> QED  BY <3>1, <3>2, <3>3 DEF Upto
  <2>7. n > 0
    BY <2>1
  <2> QED  BY <1>2, <2>1, <2>4, <2>5, <2>6, <2>7 DEF k, m
<1> QED  BY <1>1, <1>2

\* erase, in the sender's sweep.
LEMMA EraseOne ==
  ASSUME TypeOK, Buffers, snd.pos \in 1..Len(mMsgSendQueue)
  PROVE  /\ Erase \in Seq(Msgs) /\ NoRepeats(Erase)
         /\ Elems(Erase) = Elems(mMsgSendQueue) \ {mMsgSendQueue[snd.pos]}
<1>1. mMsgSendQueue \in Seq(Msgs) /\ NoRepeats(mMsgSendQueue)
  BY DEF TypeOK, Buffers
<1> QED  BY <1>1, Erased DEF Erase

-----------------------------------------------------------------------------
(* The sender thread.                                                      *)

LEMMA AtRest ==
  ASSUME NEW p \in Nat \ {0}
  PROVE  /\ Waiting \in Sender /\ Waiting.pc = "wait"
         /\ Sweeping(p) \in Sender /\ Sweeping(p).pc = "seq"
         /\ Idle \in Epoll /\ Idle.pc = "idle"
BY MsgLenAssumption DEF Waiting, Sweeping, Idle, Sender, Epoll

\* A step of the sender that leaves it outside the handling of a reply.
LEMMA InvBetween ==
  ASSUME IInv, SemWait \/ SemInterrupted \/ StartSweep \/ EndSweep
  PROVE  IInv'
<1>1. /\ UNCHANGED <<conn, place, client, owner, unread, reg, wire, msg, frees, ep>>
      /\ mMsgSendQueue' = mMsgSendQueue /\ sem' \in Nat
  <2> sem \in Nat
    BY DEF IInv, TypeOK
  <2>1. CASE SemWait
    BY <2>1 DEF SemWait, peers
  <2>2. CASE StartSweep
    BY <2>2 DEF StartSweep, peers, queue
  <2>3. CASE EndSweep
    BY <2>3 DEF EndSweep, peers, queue
  <2>4. CASE SemInterrupted
    BY <2>4 DEF SemInterrupted, peers, queue
  <2> QED  BY <2>1, <2>2, <2>3, <2>4
<1>2. /\ snd.pc \in {"wait", "count", "seq"}
      /\ snd'.pc \in {"wait", "count", "seq"}
      /\ snd' \in Sender
  <2> snd \in Sender
    BY DEF IInv, TypeOK
  <2>1. CASE SemWait
    BY <2>1 DEF SemWait, Sender
  <2>2. CASE StartSweep
    BY <2>2, AtRest DEF StartSweep
  <2>3. CASE EndSweep
    BY <2>3, AtRest DEF EndSweep
  <2>4. CASE SemInterrupted
    BY <2>4 DEF SemInterrupted, Sender
  <2> QED  BY <2>1, <2>2, <2>3, <2>4
<1> USE DEF IInv
<1>3. TypeOK'
  BY <1>1, <1>2 DEF TypeOK
<1>4. \A b \in Conns : EpAt(b)' = EpAt(b) /\ SndAt(b)' = SndAt(b)
  BY <1>1, <1>2 DEF EpAt, SndAt, Sending
<1>5. InHand' /\ Links' /\ EpollRight' /\ SequenceRight'
  BY <1>1, <1>2, <1>4
    DEF InHand, Links, EpollRight, SequenceRight, Threading, Sending
<1>6. Buffers' /\ NothingLost'
  BY <1>1, <1>4, SameBuffers, SameKept
<1>7. Protocol' /\ Progress'
  BY <1>1, <1>2, <1>4, NoneTouched
    DEF Untouched, Served, Leads, Open, SndAt, Sending
<1>8. WireRight'
  BY <1>1, <1>2 DEF WireRight
<1> QED  BY <1>3, <1>5, <1>6, <1>7, <1>8

-----------------------------------------------------------------------------
(* The pool threads.                                                       *)

LEMMA InvThreadRecv ==
  ASSUME NEW m \in Msgs, IInv, ThreadRecvProcFunc(m)
  PROVE  IInv'
<1> USE DEF IInv
<1>1. /\ UNCHANGED <<conn, place, client, owner, unread, reg, wire,
                     mMsgSendQueue, sem, frees, snd, ep>>
      /\ msg' \in [Msgs -> Message]
      /\ \A n \in Msgs : /\ msg'[n].pConn = msg[n].pConn
                         /\ msg'[n].iCurrsequence = msg[n].iCurrsequence
                         /\ msg'[n].from = msg[n].from
                         /\ n # m => msg'[n] = msg[n]
      /\ msg[m].at = "recv" /\ msg'[m].at \in {"handle", "dropped"}
  BY DEF ThreadRecvProcFunc, TypeOK, Message, peers, queue
<1>2. snd.pc \in Threading => snd.m \in Msgs /\ snd.m # m
  BY <1>1 DEF InHand
<1>3. TypeOK'
  BY <1>1 DEF TypeOK
<1>4. \A b \in Conns : EpAt(b)' = EpAt(b) /\ SndAt(b)' = SndAt(b)
  BY <1>1, <1>2 DEF EpAt, SndAt, Threading
<1>5. /\ Links' /\ SequenceRight'
      /\ \A b \in Conns : (Served(b)' => Served(b)) /\ (Open(b)' => Open(b))
  BY <1>1, <1>4, SameLinks
<1>6. EpollRight' /\ InHand'
  BY <1>1, <1>2 DEF EpollRight, InHand, Open, Threading, Sending
<1>7. Buffers' /\ NothingLost'
  BY <1>1, <1>4, SameBuffers, SameKept
<1>8. Protocol' /\ Progress'
  BY <1>1, <1>4, <1>5, NoneTouched DEF Untouched
<1>9. WireRight'
  BY <1>1, Replies DEF WireRight
<1> QED  BY <1>3, <1>5, <1>6, <1>7, <1>8, <1>9

LEMMA InvMsgSend ==
  ASSUME NEW m \in Msgs, IInv, MsgSend(m)
  PROVE  IInv'
<1> USE DEF IInv
<1>1. /\ UNCHANGED <<conn, place, client, owner, unread, reg, wire, frees, snd, ep>>
      /\ msg' \in [Msgs -> Message]
      /\ \A n \in Msgs : /\ msg'[n].pConn = msg[n].pConn
                         /\ msg'[n].iCurrsequence = msg[n].iCurrsequence
                         /\ msg'[n].from = msg[n].from
                         /\ n # m => msg'[n].at = msg[n].at
      /\ msg[m].at = "handle" /\ msg'[m].at = "queued"
      /\ mMsgSendQueue' = Append(mMsgSendQueue, m) /\ sem' = sem + 1
      /\ snd.pc \notin Threading
  BY DEF MsgSend, TypeOK, Message, peers, Threading, Sending
<1>2. m \notin Elems(mMsgSendQueue) /\ frees[m] = 0
  BY <1>1 DEF Buffers
<1>3. /\ mMsgSendQueue' \in Seq(Msgs) /\ NoRepeats(mMsgSendQueue')
      /\ Elems(mMsgSendQueue') = Elems(mMsgSendQueue) \cup {m}
  BY <1>1, <1>2, AppendNew DEF TypeOK, Buffers
<1>4. TypeOK'
  BY <1>1, <1>3 DEF TypeOK
<1>5. \A b \in Conns : EpAt(b)' = EpAt(b) /\ SndAt(b)' = SndAt(b)
  BY <1>1 DEF EpAt, SndAt, Threading
<1>6. /\ Links' /\ SequenceRight'
      /\ \A b \in Conns : (Served(b)' => Served(b)) /\ (Open(b)' => Open(b))
  BY <1>1, <1>5, SameLinks
<1>7. EpollRight' /\ InHand'
  BY <1>1 DEF EpollRight, InHand, Threading, Sending
<1>8. Buffers'
  <2>1. \A b \in Conns : Dangling(b)' <=> Dangling(b)
    BY <1>5 DEF Dangling
  <2>2. ASSUME NEW n \in Msgs
        PROVE  /\ n \in Elems(mMsgSendQueue') => frees'[n] = 0 /\ msg'[n].at = "queued"
               /\ frees'[n] # 0 => msg'[n].at = "queued"
               /\ frees'[n] > 1 => client'[msg'[n].from] = "closed"
    BY <1>1, <1>2, <1>3 DEF Buffers
  <2>3. ASSUME NEW b \in Conns, NEW n, n = conn[b].pSendMemPoint, n # None
        PROVE  /\ msg'[n].at = "queued" /\ msg'[n].pConn = b
               /\ n \notin Elems(mMsgSendQueue') /\ (frees[n] = 0 \/ Dangling(b))
    BY <1>1, <1>3, <2>3, Replies DEF Buffers
  <2> QED  BY <1>1, <1>3, <2>1, <2>2, <2>3 DEF Buffers
<1>9. Protocol' /\ Progress'
  BY <1>1, <1>5, <1>6, NoneTouched DEF Untouched
<1>10. WireRight'
  <2> SUFFICES ASSUME NEW k \in Clients, NEW i \in 1..Len(wire[k]),
                      NEW u, u = wire[k][i][1]
               PROVE  /\ msg'[u].at = "queued" /\ msg'[u].from = k
                      /\ u \notin Elems(mMsgSendQueue')
    BY <1>1 DEF WireRight
  <2>1. u \in Msgs
    BY Replies
  <2>2. /\ msg[u].at = "queued" /\ msg[u].from = k
        /\ u \notin Elems(mMsgSendQueue)
    BY DEF WireRight
  <2> QED  BY <1>1, <1>3, <2>1, <2>2
<1>11. NothingLost'
  BY <1>1, <1>3 DEF NothingLost
<1> QED  BY <1>4, <1>6, <1>7, <1>8, <1>9, <1>10, <1>11

-----------------------------------------------------------------------------
(* The sender with a reply.                                                *)

LEMMA InvDrop ==
  ASSUME IInv, CheckSequence, UNCHANGED snd
  PROVE  IInv'
<1> USE DEF IInv
<1> DEFINE m == mMsgSendQueue[snd.pos]
<1>1. /\ UNCHANGED <<conn, place, client, owner, unread, reg, wire, msg, sem,
                     snd, ep>>
      /\ snd.pc = "seq" /\ snd.pos \in 1..Len(mMsgSendQueue)
  BY DEF CheckSequence, peers, TypeOK, Sender
<1>2. m \in Elems(mMsgSendQueue) /\ m \in Msgs
  BY <1>1, Replies DEF Elems
<1>3. /\ conn[msg[m].pConn].iCurrSequence # msg[m].iCurrsequence
      /\ mMsgSendQueue' = Erase /\ Free({m})
  <2>1. [snd EXCEPT !.pc = "throw", !.m = m].pc = "throw"
    BY DEF TypeOK, Sender
  <2> QED  BY <1>1, <2>1 DEF CheckSequence
<1> HIDE DEF m
<1>4. /\ frees' \in [Msgs -> Nat] /\ frees'[m] = 1 /\ frees[m] = 0
      /\ \A n \in Msgs \ {m} : frees'[n] = frees[n]
  BY <1>2, <1>3, Freed DEF Buffers
<1>5. /\ mMsgSendQueue' \in Seq(Msgs) /\ NoRepeats(mMsgSendQueue')
      /\ Elems(mMsgSendQueue') = Elems(mMsgSendQueue) \ {m}
  BY <1>1, <1>3, EraseOne DEF m
<1>6. TypeOK'
  BY <1>1, <1>4, <1>5 DEF TypeOK
<1>7. Links' /\ EpollRight' /\ SequenceRight' /\ InHand'
  BY <1>1 DEF Links, EpollRight, SequenceRight, InHand, EpAt, Threading, Sending
<1>8. Buffers'
  <2>1. \A b \in Conns : Dangling(b)' <=> Dangling(b)
    BY <1>1 DEF Dangling, SndAt, EpAt
  <2>2. ASSUME NEW n \in Msgs
        PROVE  /\ n \in Elems(mMsgSendQueue') => frees'[n] = 0 /\ msg[n].at = "queued"
               /\ frees'[n] # 0 => msg[n].at = "queued"
               /\ frees'[n] > 1 => client[msg[n].from] = "closed"
    BY <1>2, <1>4, <1>5 DEF Buffers
  <2>3. ASSUME NEW b \in Conns, NEW n, n = conn[b].pSendMemPoint, n # None
        PROVE  /\ msg[n].at = "queued" /\ msg[n].pConn = b
               /\ n \notin Elems(mMsgSendQueue') /\ (frees'[n] = 0 \/ Dangling(b))
    BY <1>2, <1>4, <1>5, <2>3, Replies DEF Buffers
  <2> QED  BY <1>1, <1>5, <2>1, <2>2, <2>3 DEF Buffers
<1>9. Protocol' /\ Progress'
  <2> \A n \in Msgs : frees[n] # 0 => frees'[n] # 0
    BY <1>4
  <2> QED  BY <1>1, NoneTouched DEF Untouched, Served, Leads, Open, SndAt, EpAt
<1>10. WireRight'
  BY <1>1, <1>5 DEF WireRight
<1>11. NothingLost'
  <2>1. client[msg[m].from] = "closed"
    BY <1>2, <1>3 DEF SequenceRight, Buffers
  <2> QED  BY <1>1, <1>2, <1>4, <1>5, <2>1 DEF NothingLost
<1> QED  BY <1>6, <1>7, <1>8, <1>9, <1>10, <1>11

LEMMA InvCheckSequence ==
  ASSUME IInv, CheckSequence
  PROVE  IInv'
<1> DEFINE m == mMsgSendQueue[snd.pos]
<1>1. CASE UNCHANGED snd
  BY <1>1, InvDrop
<1>2. CASE snd' # snd
  <2> USE DEF IInv
  <2>1. /\ UNCHANGED <<conn, place, client, owner, unread, reg, wire, msg, sem,
                       ep, mMsgSendQueue, frees>>
        /\ snd.pc = "seq" /\ snd.pos \in 1..Len(mMsgSendQueue)
        /\ snd' = [snd EXCEPT !.pc = "throw", !.m = m]
        /\ conn[msg[m].pConn].iCurrSequence = msg[m].iCurrsequence
    BY <1>2 DEF CheckSequence, peers, TypeOK, Sender
  <2>2. m \in Elems(mMsgSendQueue) /\ m \in Msgs
    BY <2>1, Replies DEF Elems
  <2>3. snd'.pc = "throw" /\ snd'.m = m /\ snd'.pos = snd.pos /\ snd' \in Sender
    <3> DEFINE s == [snd EXCEPT !.pc = "throw"]
    <3>1. s \in Sender /\ s.pc = "throw" /\ s.pos = snd.pos
      BY DEF TypeOK, Sender
    <3>2. snd' = [s EXCEPT !.m = m]
      BY <2>1
    <3> HIDE DEF s, m
    <3> QED  BY <2>2, <3>1, <3>2 DEF Sender
  <2>4. TypeOK'
    BY <2>1, <2>3 DEF TypeOK
  <2>5. Links' /\ EpollRight' /\ SequenceRight'
    BY <2>1 DEF Links, EpollRight, SequenceRight, EpAt
  <2>6. \A b \in Conns : EpAt(b)' = EpAt(b) /\ SndAt(b)' = SndAt(b)
    BY <2>1, <2>3 DEF EpAt, SndAt, Sending
  <2>7. InHand'
    BY <2>1, <2>2, <2>3, NoneAssumption
      DEF InHand, SequenceRight, Buffers, Links
  <2>8. Buffers' /\ NothingLost'
    BY <2>1, <2>6, SameBuffers, SameKept
  <2>9. Protocol' /\ Progress'
    BY <2>1, <2>3, <2>6, NoneTouched
      DEF Untouched, Served, Leads, Open, SndAt, Sending
  <2>10. WireRight'
    BY <2>1 DEF WireRight
  <2> QED  BY <2>4, <2>5, <2>7, <2>8, <2>9, <2>10
<1> QED  BY <1>1, <1>2

\* r is q as far as descriptor, sequence number, count and EPOLLOUT go.
Rest(r, q) ==
  /\ r.fd = q.fd /\ r.iCurrSequence = q.iCurrSequence
  /\ r.iThrowSendCount = q.iThrowSendCount /\ r.out = q.out

CurrentReply(q, m) ==
  [q EXCEPT !.pSendMemPoint = m, !.pSendBuf = m, !.iSendLen = MsgLen]

LEMMA CurrentReplySet ==
  ASSUME NEW q \in Connection, NEW m \in Msgs
  PROVE  LET r == CurrentReply(q, m)
         IN  /\ r \in Connection /\ Rest(r, q)
             /\ r.pSendMemPoint = m /\ r.pSendBuf = m /\ r.iSendLen = MsgLen
<1> DEFINE r1 == [q EXCEPT !.pSendMemPoint = m]
           r2 == [r1 EXCEPT !.pSendBuf = m]
           r == [r2 EXCEPT !.iSendLen = MsgLen]
<1>1. CurrentReply(q, m) = r
  BY DEF CurrentReply
<1>2. r1 \in Connection /\ r1.pSendMemPoint = m /\ Rest(r1, q)
  BY DEF Connection, Rest
<1> HIDE DEF r1
<1>3. r2 \in Connection /\ r2.pSendMemPoint = m /\ r2.pSendBuf = m /\ Rest(r2, q)
  BY <1>2 DEF Connection, Rest
<1> HIDE DEF r2
<1>4. /\ r \in Connection /\ r.pSendMemPoint = m /\ r.pSendBuf = m
      /\ r.iSendLen = MsgLen /\ Rest(r, q)
  BY <1>3, MsgLenAssumption DEF Connection, Rest
<1> QED  BY <1>1, <1>4

LEMMA InvCheckThrowCount ==
  ASSUME NEW m \in Msgs, NEW c \in Conns, snd.m = m, msg[m].pConn = c,
         IInv, CheckThrowCount
  PROVE  IInv'
<1> USE DEF IInv
<1>0. /\ UNCHANGED <<place, client, owner, unread, reg, wire, msg, sem, frees, ep>>
      /\ snd.pc = "throw" /\ snd.pc \in Threading
  BY DEF CheckThrowCount, peers, Threading, Sending
<1>1. /\ m \in Msgs /\ c \in Conns /\ snd.m = m /\ msg[m].pConn = c
      /\ conn[c].fd \in Fds /\ msg[m].at = "queued"
      /\ place[c] \in {"live", "recy"} /\ snd.pos \in 1..Len(mMsgSendQueue)
      /\ m = mMsgSendQueue[snd.pos] /\ m \in Elems(mMsgSendQueue)
      /\ Open(c) => Leads(c) /\ owner[conn[c].fd] = msg[m].from
  <2>1. snd.pos \in 1..Len(mMsgSendQueue) /\ m = mMsgSendQueue[snd.pos]
    BY <1>0, LenProperties DEF InHand, TypeOK, Sender
  <2>2. m \in Elems(mMsgSendQueue)
    BY <2>1 DEF Elems
  <2> QED  BY <1>0, <2>1, <2>2, SenderConn
<1>2. CASE conn[c].iThrowSendCount > 0
  <2>1. UNCHANGED <<conn, mMsgSendQueue>> /\ snd' = Sweeping(snd.pos + 1)
    BY <1>1, <1>2 DEF CheckThrowCount
  <2>2. snd' \in Sender /\ snd'.pc = "seq"
    BY <1>1, <2>1, AtRest
  <2>3. TypeOK'
    BY <1>0, <2>1, <2>2 DEF TypeOK
  <2>4. \A b \in Conns : EpAt(b)' = EpAt(b) /\ SndAt(b)' = SndAt(b)
    BY <1>0, <2>2 DEF EpAt, SndAt, Sending
  <2>5. Links' /\ EpollRight' /\ SequenceRight' /\ InHand'
    BY <1>0, <2>1, <2>2
      DEF Links, EpollRight, SequenceRight, InHand, EpAt, Threading, Sending
  <2>6. Buffers' /\ NothingLost'
    BY <1>0, <2>1, <2>4, SameBuffers, SameKept
  <2>7. Protocol' /\ Progress'
    BY <1>0, <2>1, <2>2, <2>4, NoneTouched
      DEF Untouched, Served, Leads, Open, SndAt, Sending
  <2>8. WireRight'
    BY <1>0, <2>1 DEF WireRight
  <2> QED  BY <2>3, <2>5, <2>6, <2>7, <2>8
<1>3. CASE ~(conn[c].iThrowSendCount > 0)
  <2>1. /\ conn' \in [Conns -> Connection]
        /\ \A b \in Conns : b # c => conn'[b] = conn[b]
        /\ conn'[c].pSendMemPoint = m /\ conn'[c].pSendBuf = m
        /\ conn'[c].iSendLen = MsgLen
        /\ \A b \in Conns : /\ conn'[b].fd = conn[b].fd
                            /\ conn'[b].iCurrSequence = conn[b].iCurrSequence
                            /\ conn'[b].out = conn[b].out
                            /\ conn'[b].iThrowSendCount = conn[b].iThrowSendCount
    <3>1. conn' = [conn EXCEPT ![c].pSendMemPoint = m, ![c].pSendBuf = m,
                               ![c].iSendLen = MsgLen]
      BY <1>1, <1>3 DEF CheckThrowCount
    <3>2. conn' = [conn EXCEPT ![c] = CurrentReply(conn[c], m)]
      BY <3>1 DEF TypeOK, CurrentReply
    <3>3. conn[c] \in Connection
      BY DEF TypeOK
    <3> QED  BY <3>2, <3>3, CurrentReplySet DEF TypeOK, Rest
  <2>2. mMsgSendQueue' = Erase /\ snd' = [snd EXCEPT !.pc = "send"]
    BY <1>1, <1>3 DEF CheckThrowCount
  <2>3. snd' \in Sender /\ snd'.pc = "send" /\ snd'.m = m
    BY <1>1, <2>2 DEF TypeOK, Sender
  <2>4. /\ mMsgSendQueue' \in Seq(Msgs) /\ NoRepeats(mMsgSendQueue')
        /\ Elems(mMsgSendQueue') = Elems(mMsgSendQueue) \ {m}
    <3>1. snd.pos \in 1..Len(mMsgSendQueue) /\ m = mMsgSendQueue[snd.pos]
      BY <1>1
    <3> QED  BY <2>2, <3>1, EraseOne
  <2>5. TypeOK'
    BY <1>0, <2>1, <2>3, <2>4 DEF TypeOK
  <2>6. /\ \A b \in Conns : EpAt(b)' = EpAt(b) /\ SndAt(b) = "elsewhere"
        /\ \A b \in Conns \ {c} : SndAt(b)' = "elsewhere"
        /\ SndAt(c)' = "send"
    BY <1>0, <1>1, <2>3 DEF SndAt, EpAt, Sending
  <2>7. /\ Links' /\ SequenceRight'
        /\ \A b \in Conns : (Served(b)' => Served(b)) /\ (Open(b)' => Open(b))
    BY <1>0, <2>1, <2>6, SameLinks
  <2>8. EpollRight'
    BY <1>0, <2>1 DEF EpollRight
  <2>9. Buffers'
    <3>1. \A b \in Conns : Dangling(b)' <=> Dangling(b)
      BY <2>6 DEF Dangling
    <3>2. ASSUME NEW n \in Msgs
          PROVE  /\ n \in Elems(mMsgSendQueue') => frees[n] = 0 /\ msg[n].at = "queued"
                 /\ frees[n] # 0 => msg[n].at = "queued"
                 /\ frees[n] > 1 => client[msg[n].from] = "closed"
      BY <2>4 DEF Buffers
    <3>3. ASSUME NEW b \in Conns, NEW n, n = conn'[b].pSendMemPoint, n # None
          PROVE  /\ msg[n].at = "queued" /\ msg[n].pConn = b
                 /\ n \notin Elems(mMsgSendQueue') /\ (frees[n] = 0 \/ Dangling(b))
      BY <1>1, <2>1, <2>4, <3>3 DEF Buffers
    <3> QED  BY <1>0, <2>4, <3>1, <3>2, <3>3 DEF Buffers
  <2>10. InHand'
    <3>1. \A k \in Clients : Fresh(m, wire[k])
      BY <1>1 DEF WireRight, Fresh
    <3> QED  BY <1>0, <1>1, <2>1, <2>3, <2>4, <3>1, NoneAssumption
                DEF InHand, Threading, Sending
  <2>11. ASSUME Served(c)
         PROVE  /\ Agreed(c) /\ conn[c].iThrowSendCount = 0 /\ ~conn[c].out
                /\ EpAt(c) \notin Writing /\ conn[c].pSendMemPoint = None
    <3>1. Agreed(c) /\ SndAt(c) = "elsewhere"
      BY <1>1, <2>6, <2>11 DEF Protocol
    <3>2. conn[c].iThrowSendCount = 0 /\ ~conn[c].out /\ EpAt(c) \notin Writing
      BY <1>3, <3>1 DEF Agreed, Writing, Releasing
    <3>3. conn[c].pSendMemPoint = None
      BY <3>1, <3>2 DEF Agreed, Waits, Sending, Writing
    <3> QED  BY <3>1, <3>2, <3>3
  <2>12. ASSUME Served(c)
         PROVE  Agreed(c)' /\ (Open(c)' => Got(c)')
    <3>1. ~Dangling(c)' /\ ~Waits(c)' /\ EpAt(c)' \notin Writing
      BY <2>1, <2>6, <2>11, <2>12 DEF Dangling, Waits, Writing
    <3>2. Agreed(c)'
      BY <1>0, <1>1, <2>1, <2>3, <2>6, <2>11, <2>12, <3>1
        DEF Agreed, Sending, Writing, Releasing
    <3> DEFINE w == wire[owner[conn[c].fd]]
    <3>3. ASSUME Open(c)  PROVE Got(c)'
      <4>1. owner[conn[c].fd] \in Clients
        BY <2>12, LeadsClient DEF Served
      <4>2. Whole(w)
        BY <2>11, <2>12, <2>6, <3>3 DEF Progress, Got
      <4>3. Fresh(m, w)
        BY <1>1, <4>1 DEF WireRight, Fresh
      <4>4. w' = w /\ snd'.m = m
        BY <1>0, <2>1, <2>3
      <4> HIDE DEF w
      <4>5. Upto(snd.m, 0, w)' /\ Whole(w)'
        BY <4>2, <4>3, <4>4 DEF Upto, Whole, Fresh
      <4> QED  BY <2>1, <2>6, <2>11, <2>12, <3>1, <4>5 DEF Got, w, Writing
    <3> QED  BY <2>7, <3>2, <3>3
  <2>13. \A b \in Conns \ {c} : Untouched(b)
    BY <1>0, <2>1, <2>6, <2>7 DEF Untouched
  <2>14. Protocol' /\ Progress'
    BY <1>1, <2>7, <2>12, <2>13, OneTouched
  <2>15. WireRight'
    BY <1>0, <2>4 DEF WireRight
  <2>16. NothingLost'
    <3>1. ASSUME NEW n \in Msgs, msg[n].at = "queued",
                 client[msg[n].from] = "up",
                 n # m, conn[msg[n].pConn].pSendMemPoint = n
          PROVE  conn'[msg[n].pConn].pSendMemPoint = n
      <4>1. msg[n].pConn \in Conns /\ Served(msg[n].pConn)
        BY <3>1, ClientThere
      <4>2. CASE msg[n].pConn = c
        BY <2>11, <3>1, <4>1, <4>2, NoneAssumption
      <4>3. CASE msg[n].pConn # c
        BY <2>1, <3>1, <4>1, <4>3
      <4> QED  BY <4>2, <4>3
    <3> QED  BY <1>0, <1>1, <2>1, <2>4, <3>1, Replies DEF NothingLost, Buffers
  <2> QED  BY <2>5, <2>7, <2>8, <2>9, <2>10, <2>14, <2>15, <2>16
<1> QED  BY <1>2, <1>3

LEMMA InvSend ==
  ASSUME NEW m \in Msgs, NEW c \in Conns, snd.m = m, msg[m].pConn = c,
         IInv, Send
  PROVE  IInv'
<1> USE DEF IInv
<1>1. PICK n \in -2..MsgLen : /\ SendProc(c, n)
                              /\ snd' = [snd EXCEPT !.pc = "sent", !.n = n]
  BY DEF Send
<1>2. /\ UNCHANGED <<conn, place, client, owner, unread, reg, msg, mMsgSendQueue,
                     sem, frees, ep>>
      /\ snd.pc = "send"
  BY DEF Send, peers, queue
<1>3. /\ snd' \in Sender /\ snd'.pc = "sent" /\ snd'.m = m /\ snd'.n = n
      /\ snd'.pos = snd.pos
  <2> DEFINE s == [snd EXCEPT !.pc = "sent"]
  <2>1. s \in Sender /\ s.pc = "sent" /\ s.m = snd.m /\ s.pos = snd.pos
    BY DEF TypeOK, Sender
  <2>2. snd' = [s EXCEPT !.n = n]
    BY <1>1
  <2> HIDE DEF s
  <2> QED  BY <2>1, <2>2 DEF Sender
<1>4. /\ conn[c].pSendBuf = m /\ conn[c].iSendLen = MsgLen
      /\ m \notin Elems(mMsgSendQueue) /\ msg[m].at = "queued"
      /\ Open(c) => Leads(c) /\ owner[conn[c].fd] = msg[m].from
  BY <1>2, SenderConn DEF InHand, Threading, Sending
<1> DEFINE k == owner[conn[c].fd]
<1>5. wire' \in [Clients -> Seq(Msgs \X (1..MsgLen))] /\ WireGrows(c, n)
  BY <1>1, <1>4, SendProcSends, SendProcKeeps
<1>6. TypeOK'
  BY <1>2, <1>3, <1>5 DEF TypeOK
<1>7. /\ \A b \in Conns \ {c} : SndAt(b) = "elsewhere" /\ SndAt(b)' = "elsewhere"
      /\ \A b \in Conns : EpAt(b)' = EpAt(b)
      /\ SndAt(c) = "send" /\ SndAt(c)' = "sent"
  BY <1>2, <1>3 DEF EpAt, SndAt, Sending
<1>8. /\ Links' /\ SequenceRight'
      /\ \A b \in Conns : (Served(b)' => Served(b)) /\ (Open(b)' => Open(b))
  BY <1>2, <1>7, SameLinks
<1>9. EpollRight' /\ InHand'
  BY <1>2, <1>3 DEF EpollRight, InHand, Open, Threading, Sending
<1>10. Buffers' /\ NothingLost'
  <2>1. \A b \in Conns : /\ SndAt(b)' = "null" <=> SndAt(b) = "null"
                         /\ EpAt(b)' = "null" <=> EpAt(b) = "null"
    BY <1>7
  <2>2. \A j \in Clients : Elems(wire[j]) \subseteq Elems(wire'[j])
    BY <1>5 DEF WireGrows
  <2>3. Buffers'
    BY <1>2, <2>1, SameBuffers
  <2>4. NothingLost'
    BY <1>2, <2>2, SameKept
  <2> QED  BY <2>3, <2>4
<1>11. \A b \in Conns \ {c} : Untouched(b)
  <2>1. ASSUME NEW b \in Conns \ {c}, Served(b)
        PROVE  wire'[owner[conn[b].fd]] = wire[owner[conn[b].fd]]
    <3>1. owner[conn[b].fd] \in Clients /\ Leads(b)
      BY <2>1, LeadsClient DEF Served
    <3>2. Open(c) => owner[conn[b].fd] # k
      BY <1>4, <2>1, <3>1, LeadsApart
    <3> QED  BY <1>5, <3>1, <3>2 DEF WireGrows
  <2> QED  BY <1>2, <1>7, <1>8, <2>1 DEF Untouched
<1>12. ASSUME Served(c)
       PROVE  Agreed(c)' /\ (Open(c)' => Got(c)')
  <2>1. Agreed(c) /\ ~conn[c].out /\ EpAt(c) \notin Writing
    BY <1>7, <1>12 DEF Protocol, Agreed, Sending
  <2>2. ~Dangling(c)' /\ ~Waits(c)' /\ EpAt(c)' \notin Writing
    BY <1>2, <1>7, <2>1 DEF Dangling, Waits, Writing
  <2>3. Agreed(c)'
    BY <1>2, <1>3, <1>7, <2>1, <2>2 DEF Agreed, Sending, Writing, Releasing, Open
  <2>4. ASSUME Open(c)  PROVE Got(c)'
    <3>1. Upto(m, 0, wire[k]) /\ conn[c].iThrowSendCount = 0
      BY <1>7, <1>12, <2>1, <2>4 DEF Progress, Got, Agreed, Releasing, Writing
    <3>2. n # -2 /\ Upto(m, IF n > 0 THEN n ELSE 0, wire'[k])
      <4>1. MsgLen - conn[c].iSendLen + n = n
        BY <1>4, MsgLenAssumption
      <4> QED  BY <1>4, <1>5, <2>4, <3>1, <4>1 DEF WireGrows
    <3> QED  BY <1>2, <1>3, <1>7, <2>1, <2>2, <3>2 DEF Got, Writing
  <2> QED  BY <1>8, <2>3, <2>4
<1>13. Protocol' /\ Progress'
  BY <1>8, <1>11, <1>12, OneTouched
<1>14. WireRight'
  <2> SUFFICES ASSUME NEW j \in Clients, NEW i \in 1..Len(wire'[j])
               PROVE  LET u == wire'[j][i][1] IN
                      /\ msg[u].at = "queued" /\ msg[u].from = j
                      /\ u \notin Elems(mMsgSendQueue)
    BY <1>2 DEF WireRight
  <2>1. CASE i \in 1..Len(wire[j]) /\ wire'[j][i] = wire[j][i]
    BY <2>1 DEF WireRight
  <2>2. CASE Open(c) /\ j = k /\ wire'[j][i][1] = m
    BY <1>4, <2>2
  <2> QED  BY <1>4, <1>5, <2>1, <2>2 DEF WireGrows
<1> QED  BY <1>6, <1>8, <1>9, <1>10, <1>13, <1>14

\* What a reply that was sent to its end means to the client.
LEMMA SentWhole ==
  ASSUME TypeOK, NEW k \in Clients, NEW m, Upto(m, MsgLen, wire[k])
  PROVE  Whole(wire[k]) /\ <<m, MsgLen>> \in Elems(wire[k])
<1>1. wire[k] # <<>> /\ wire[k][Len(wire[k])] = <<m, MsgLen>>
  BY MsgLenAssumption DEF Upto
<1>2. wire[k] \in Seq(Msgs \X (1..MsgLen))
  BY DEF TypeOK
<1>3. Len(wire[k]) \in 1..Len(wire[k])
  BY <1>1, <1>2, EmptySeq, LenProperties
<1> QED  BY <1>1, <1>3 DEF Whole, Elems

\* FreeMemory of a connection's current reply.
LEMMA FreeCurrent ==
  ASSUME TypeOK, Buffers, Links, SequenceRight, NothingLost, NEW c \in Conns,
         NEW q, q = conn[c].pSendMemPoint, Free({q}),
         UNCHANGED <<msg, mMsgSendQueue, client, wire>>,
         \A b \in Conns : conn'[b].pSendMemPoint = conn[b].pSendMemPoint,
         Dangling(c)', \A b \in Conns \ {c} : Dangling(b) => Dangling(b)',
         q # None /\ frees[q] # 0 => client[msg[q].from] = "closed",
         Served(c) /\ Open(c) /\ q # None =>
           <<q, MsgLen>> \in Elems(wire[owner[conn[c].fd]])
  PROVE  /\ frees' \in [Msgs -> Nat] /\ Buffers' /\ NothingLost'
         /\ \A n \in Msgs : frees[n] # 0 => frees'[n] # 0
         /\ q # None => frees'[q] # 0
<1>1. /\ frees' \in [Msgs -> Nat]
      /\ \A n \in Msgs : frees'[n] = IF n = q THEN frees[n] + 1 ELSE frees[n]
      /\ \A n \in Msgs : frees[n] \in Nat
  BY Freed DEF TypeOK
<1>2. q \in Msgs \cup {None} /\ \A n \in Msgs : n # None
  BY Replies, NoneAssumption
<1>3. q # None => /\ msg[q].at = "queued" /\ msg[q].pConn = c
                  /\ q \notin Elems(mMsgSendQueue)
  BY DEF Buffers
<1>4. \A b \in Conns : conn[b].pSendMemPoint = q /\ q # None => b = c
  BY <1>3 DEF Buffers
<1>5. /\ \A n \in Msgs : frees[n] # 0 => frees'[n] # 0
      /\ q # None => frees'[q] # 0
  BY <1>1, <1>2
<1>6. Buffers'
  <2>1. ASSUME NEW n \in Msgs
        PROVE  /\ n \in Elems(mMsgSendQueue) => frees'[n] = 0 /\ msg[n].at = "queued"
               /\ frees'[n] # 0 => msg[n].at = "queued"
               /\ frees'[n] > 1 => client[msg[n].from] = "closed"
    <3>1. CASE n = q
      BY <1>1, <1>2, <1>3, <3>1
    <3>2. CASE n # q
      BY <1>1, <3>2 DEF Buffers
    <3> QED  BY <3>1, <3>2
  <2>2. ASSUME NEW b \in Conns, NEW n, n = conn[b].pSendMemPoint, n # None
        PROVE  /\ msg[n].at = "queued" /\ msg[n].pConn = b
               /\ n \notin Elems(mMsgSendQueue) /\ (frees'[n] = 0 \/ Dangling(b)')
    <3>1. n \in Msgs
      BY <2>2, Replies
    <3> QED  BY <1>1, <1>4, <2>2, <3>1 DEF Buffers
  <2> QED  BY <2>1, <2>2 DEF Buffers
<1>7. NothingLost'
  <2> SUFFICES ASSUME NEW n \in Msgs, msg[n].at = "queued",
                      client[msg[n].from] = "up"
               PROVE  \/ n \in Elems(mMsgSendQueue)
                      \/ frees'[n] = 0 /\ conn'[msg[n].pConn].pSendMemPoint = n
                      \/ <<n, MsgLen>> \in Elems(wire[msg[n].from])
    BY DEF NothingLost
  <2>1. /\ msg[n].pConn \in Conns /\ Served(msg[n].pConn) /\ Open(msg[n].pConn)
        /\ owner[conn[msg[n].pConn].fd] = msg[n].from
    BY ClientThere
  <2>2. CASE n = q
    BY <1>2, <1>3, <2>1, <2>2
  <2>3. CASE n # q
    BY <1>1, <2>1, <2>3 DEF NothingLost
  <2> QED  BY <2>2, <2>3
<1> QED  BY <1>1, <1>5, <1>6, <1>7

\* pSendMemPoint = nullptr.
LEMMA ClearCurrent ==
  ASSUME TypeOK, Buffers, Links, SequenceRight, NothingLost, NEW c \in Conns,
         UNCHANGED <<msg, mMsgSendQueue, client, wire, frees>>,
         \A b \in Conns : conn'[b].pSendMemPoint
                            = IF b = c THEN None ELSE conn[b].pSendMemPoint,
         \A b \in Conns \ {c} : Dangling(b) => Dangling(b)',
         Served(c) /\ conn[c].pSendMemPoint # None =>
           frees[conn[c].pSendMemPoint] # 0
  PROVE  Buffers' /\ NothingLost'
<1>1. Buffers'
  <2>1. ASSUME NEW b \in Conns, NEW n, n = conn'[b].pSendMemPoint, n # None
        PROVE  /\ msg[n].at = "queued" /\ msg[n].pConn = b
               /\ n \notin Elems(mMsgSendQueue) /\ (frees[n] = 0 \/ Dangling(b)')
    BY <2>1 DEF Buffers
  <2> QED  BY <2>1 DEF Buffers
<1>2. NothingLost'
  <2> SUFFICES ASSUME NEW n \in Msgs, msg[n].at = "queued",
                      client[msg[n].from] = "up"
               PROVE  \/ n \in Elems(mMsgSendQueue)
                      \/ frees[n] = 0 /\ conn'[msg[n].pConn].pSendMemPoint = n
                      \/ <<n, MsgLen>> \in Elems(wire[msg[n].from])
    BY DEF NothingLost
  <2>1. msg[n].pConn \in Conns /\ Served(msg[n].pConn)
    BY ClientThere
  <2>2. n # None
    BY NoneAssumption
  <2> QED  BY <2>1, <2>2 DEF NothingLost
<1> QED  BY <1>1, <1>2

LEMMA InvSendOver ==
  ASSUME NEW m \in Msgs, NEW c \in Conns, snd.m = m, msg[m].pConn = c,
         IInv, SendOver
  PROVE  IInv'
<1> USE DEF IInv
<1>1. /\ UNCHANGED <<conn, place, client, owner, unread, reg, wire, msg,
                     mMsgSendQueue, sem, ep>>
      /\ snd.pc = "sent" /\ snd.n \in {-2, conn[c].iSendLen}
      /\ Free({conn[c].pSendMemPoint})
      /\ snd' = [snd EXCEPT !.pc = "null"]
  BY DEF SendOver, peers, queue
<1>2. snd' \in Sender /\ snd'.pc = "null" /\ snd'.m = m
  BY <1>1 DEF TypeOK, Sender
<1>3. conn[c].iSendLen = MsgLen /\ conn[c].pSendBuf = m
  BY <1>1 DEF InHand
<1>4. /\ \A b \in Conns : EpAt(b)' = EpAt(b)
      /\ \A b \in Conns \ {c} : SndAt(b)' = "elsewhere" /\ SndAt(b) = "elsewhere"
      /\ SndAt(c) = "sent" /\ SndAt(c)' = "null"
  BY <1>1, <1>2 DEF EpAt, SndAt, Sending
<1>5. ASSUME Served(c)
      PROVE  /\ Agreed(c) /\ ~conn[c].out /\ conn[c].pSendMemPoint = m
             /\ EpAt(c) \notin Writing /\ frees[m] = 0
             /\ Open(c) => /\ Whole(wire[owner[conn[c].fd]])
                           /\ <<m, MsgLen>> \in Elems(wire[owner[conn[c].fd]])
  <2>1. /\ Agreed(c) /\ ~conn[c].out /\ conn[c].pSendMemPoint = m
        /\ EpAt(c) \notin Writing
    BY <1>4, <1>5 DEF Protocol, Agreed, Sending
  <2>2. frees[m] = 0
    BY <1>4, <2>1, NoneAssumption DEF Buffers, Dangling, Writing
  <2>3. ASSUME Open(c)
        PROVE  /\ Whole(wire[owner[conn[c].fd]])
               /\ <<m, MsgLen>> \in Elems(wire[owner[conn[c].fd]])
    <3>1. Upto(m, MsgLen, wire[owner[conn[c].fd]])
      BY <1>1, <1>3, <1>4, <1>5, <2>3, MsgLenAssumption DEF Progress, Got
    <3>2. owner[conn[c].fd] \in Clients
      BY <1>5, LeadsClient DEF Served
    <3> QED  BY <3>1, <3>2, SentWhole
  <2> QED  BY <2>1, <2>2, <2>3
<1>6. /\ frees' \in [Msgs -> Nat] /\ Buffers' /\ NothingLost'
      /\ \A n \in Msgs : frees[n] # 0 => frees'[n] # 0
      /\ conn[c].pSendMemPoint # None => frees'[conn[c].pSendMemPoint] # 0
  <2> SUFFICES ASSUME NEW q, q = conn[c].pSendMemPoint
               PROVE  /\ frees' \in [Msgs -> Nat] /\ Buffers' /\ NothingLost'
                      /\ \A n \in Msgs : frees[n] # 0 => frees'[n] # 0
                      /\ q # None => frees'[q] # 0
    OBVIOUS
  <2>1. Dangling(c)' /\ \A b \in Conns \ {c} : Dangling(b) => Dangling(b)'
    BY <1>4 DEF Dangling
  <2>2. ASSUME q # None, frees[q] # 0  PROVE client[msg[q].from] = "closed"
    <3>1. q \in Msgs /\ msg[q].pConn = c /\ msg[q].at = "queued" /\ Dangling(c)
      BY <2>2, Replies DEF Buffers
    <3>2. EpAt(c) \in Writing
      BY <1>4, <3>1 DEF Dangling, Writing
    <3>3. ~Served(c)
      BY <1>5, <3>2
    <3> QED  BY <3>1, <3>2, <3>3, OldReply
  <2>3. Served(c) /\ Open(c) /\ q # None =>
          <<q, MsgLen>> \in Elems(wire[owner[conn[c].fd]])
    BY <1>5
  <2> QED  BY <1>1, <2>1, <2>2, <2>3, FreeCurrent
<1>7. TypeOK'
  BY <1>1, <1>2, <1>6 DEF TypeOK
<1>8. /\ Links' /\ SequenceRight'
      /\ \A b \in Conns : (Served(b)' => Served(b)) /\ (Open(b)' => Open(b))
  BY <1>1, <1>4, SameLinks
<1>9. EpollRight' /\ InHand' /\ WireRight'
  BY <1>1, <1>2 DEF EpollRight, InHand, WireRight, Threading, Sending
<1>10. \A b \in Conns \ {c} : Untouched(b)
  BY <1>1, <1>4, <1>6, <1>8 DEF Untouched
<1>11. ASSUME Served(c)
       PROVE  Agreed(c)' /\ (Open(c)' => Got(c)')
  <2>1. ~Waits(c)' /\ EpAt(c)' \notin Writing /\ Waits(c)' = Waits(c)
    BY <1>1, <1>4, <1>5, <1>11 DEF Waits, Writing
  <2>2. Agreed(c)'
    BY <1>1, <1>2, <1>3, <1>4, <1>5, <1>6, <1>11, <2>1
      DEF Agreed, Sending, Writing, Releasing
  <2>3. Open(c) => Got(c)'
    BY <1>1, <1>4, <1>5, <1>11, <2>1 DEF Got, Writing
  <2> QED  BY <1>8, <2>2, <2>3
<1>12. Protocol' /\ Progress'
  BY <1>8, <1>10, <1>11, OneTouched
<1> QED  BY <1>6, <1>7, <1>8, <1>9, <1>12

\* One field of a connection.
LEMMA PointCleared ==
  ASSUME TypeOK, NEW c \in Conns, conn' = [conn EXCEPT ![c].pSendMemPoint = None]
  PROVE  /\ conn' \in [Conns -> Connection]
         /\ \A b \in Conns : b # c => conn'[b] = conn[b]
         /\ conn'[c].pSendMemPoint = None /\ Rest(conn'[c], conn[c])
         /\ conn'[c].pSendBuf = conn[c].pSendBuf
         /\ conn'[c].iSendLen = conn[c].iSendLen
<1> DEFINE r == [conn[c] EXCEPT !.pSendMemPoint = None]
<1>1. conn' = [conn EXCEPT ![c] = r]
  BY DEF TypeOK
<1>2. conn[c] \in Connection
  BY DEF TypeOK
<1>3. /\ r \in Connection /\ r.pSendMemPoint = None /\ Rest(r, conn[c])
      /\ r.pSendBuf = conn[c].pSendBuf /\ r.iSendLen = conn[c].iSendLen
  BY <1>2 DEF Connection, Rest
<1> HIDE DEF r
<1> QED  BY <1>1, <1>3 DEF TypeOK

LEMMA CountSet ==
  ASSUME TypeOK, NEW c \in Conns, NEW n \in Int,
         conn' = [conn EXCEPT ![c].iThrowSendCount = n]
  PROVE  /\ conn' \in [Conns -> Connection]
         /\ \A b \in Conns : b # c => conn'[b] = conn[b]
         /\ conn'[c].iThrowSendCount = n
         /\ \A b \in Conns : /\ conn'[b].fd = conn[b].fd
                             /\ conn'[b].iCurrSequence = conn[b].iCurrSequence
                             /\ conn'[b].out = conn[b].out
                             /\ conn'[b].pSendMemPoint = conn[b].pSendMemPoint
                             /\ conn'[b].pSendBuf = conn[b].pSendBuf
                             /\ conn'[b].iSendLen = conn[b].iSendLen
<1> DEFINE r == [conn[c] EXCEPT !.iThrowSendCount = n]
<1>1. conn' = [conn EXCEPT ![c] = r]
  BY DEF TypeOK
<1>2. conn[c] \in Connection
  BY DEF TypeOK
<1>3. /\ r \in Connection /\ r.iThrowSendCount = n
      /\ r.fd = conn[c].fd /\ r.out = conn[c].out
      /\ r.iCurrSequence = conn[c].iCurrSequence
      /\ r.pSendMemPoint = conn[c].pSendMemPoint
      /\ r.pSendBuf = conn[c].pSendBuf /\ r.iSendLen = conn[c].iSendLen
  BY <1>2 DEF Connection
<1> HIDE DEF r
<1>4. /\ conn' \in [Conns -> Connection] /\ conn'[c] = r
      /\ \A b \in Conns : b # c => conn'[b] = conn[b]
  BY <1>1, <1>3 DEF TypeOK
<1>5. ASSUME NEW b \in Conns
      PROVE  /\ conn'[b].fd = conn[b].fd
             /\ conn'[b].iCurrSequence = conn[b].iCurrSequence
             /\ conn'[b].out = conn[b].out
             /\ conn'[b].pSendMemPoint = conn[b].pSendMemPoint
             /\ conn'[b].pSendBuf = conn[b].pSendBuf
             /\ conn'[b].iSendLen = conn[b].iSendLen
  BY <1>3, <1>4
<1> QED  BY <1>3, <1>4, <1>5

LEMMA InvSendNull ==
  ASSUME NEW m \in Msgs, NEW c \in Conns, snd.m = m, msg[m].pConn = c,
         IInv, SendNull
  PROVE  IInv'
<1> USE DEF IInv
<1>1. /\ UNCHANGED <<place, client, owner, unread, reg, wire, msg, mMsgSendQueue,
                     sem, frees, ep>>
      /\ snd.pc = "null" /\ snd' = [snd EXCEPT !.pc = "zero"]
      /\ conn' = [conn EXCEPT ![c].pSendMemPoint = None]
  BY DEF SendNull, peers, queue
<1>2. snd' \in Sender /\ snd'.pc = "zero" /\ snd'.m = m
  BY <1>1 DEF TypeOK, Sender
<1>3. /\ conn' \in [Conns -> Connection]
      /\ \A b \in Conns : b # c => conn'[b] = conn[b]
      /\ conn'[c].pSendMemPoint = None /\ Rest(conn'[c], conn[c])
      /\ conn'[c].pSendBuf = conn[c].pSendBuf
      /\ conn'[c].iSendLen = conn[c].iSendLen
  BY <1>1, PointCleared
<1>4. /\ \A b \in Conns : EpAt(b)' = EpAt(b)
      /\ \A b \in Conns \ {c} : SndAt(b)' = "elsewhere" /\ SndAt(b) = "elsewhere"
      /\ SndAt(c) = "null" /\ SndAt(c)' = "zero" /\ Dangling(c)
  BY <1>1, <1>2 DEF EpAt, SndAt, Sending, Dangling
<1>5. ASSUME Served(c)
      PROVE  /\ Agreed(c) /\ ~conn[c].out /\ EpAt(c) \notin Writing
             /\ conn[c].pSendMemPoint = m /\ frees[m] # 0
  BY <1>4, <1>5, NoneAssumption DEF Protocol, Agreed, Sending
<1>6. Buffers' /\ NothingLost'
  <2>1. \A b \in Conns \ {c} : Dangling(b) => Dangling(b)'
    BY <1>4 DEF Dangling
  <2>2. \A b \in Conns : conn'[b].pSendMemPoint
                           = IF b = c THEN None ELSE conn[b].pSendMemPoint
    BY <1>3
  <2> QED  BY <1>1, <1>5, <2>1, <2>2, ClearCurrent
<1>7. TypeOK'
  BY <1>1, <1>2, <1>3 DEF TypeOK
<1>8. /\ Links' /\ SequenceRight'
      /\ \A b \in Conns : (Served(b)' => Served(b)) /\ (Open(b)' => Open(b))
  BY <1>1, <1>3, <1>4, SameLinks DEF Rest
<1>9. EpollRight' /\ InHand' /\ WireRight'
  BY <1>1, <1>2, <1>3 DEF EpollRight, InHand, WireRight, Threading, Sending, Rest
<1>10. \A b \in Conns \ {c} : Untouched(b)
  BY <1>1, <1>3, <1>4, <1>8 DEF Untouched
<1>11. ASSUME Served(c)
       PROVE  Agreed(c)' /\ (Open(c)' => Got(c)')
  <2>1. ~Waits(c)' /\ EpAt(c)' \notin Writing
    BY <1>3, <1>4, <1>5, <1>11 DEF Waits, Writing, Rest
  <2>2. Agreed(c)'
    BY <1>1, <1>2, <1>3, <1>4, <1>5, <1>11, <2>1
      DEF Agreed, Sending, Writing, Releasing, Rest
  <2>3. Open(c) => Got(c)'
    BY <1>1, <1>3, <1>4, <1>5, <1>11, <2>1 DEF Progress, Got, Writing, Rest
  <2> QED  BY <1>8, <2>2, <2>3
<1>12. Protocol' /\ Progress'
  BY <1>6, <1>8, <1>10, <1>11, OneTouched
<1> QED  BY <1>6, <1>7, <1>8, <1>9, <1>12

LEMMA InvSendZero ==
  ASSUME NEW m \in Msgs, NEW c \in Conns, snd.m = m, msg[m].pConn = c,
         IInv, SendZero
  PROVE  IInv'
<1> USE DEF IInv
<1>1. /\ UNCHANGED <<place, client, owner, unread, reg, wire, msg, mMsgSendQueue,
                     sem, frees, ep>>
      /\ snd.pc = "zero" /\ snd' = Sweeping(snd.pos)
      /\ conn' = [conn EXCEPT ![c].iThrowSendCount = 0]
  BY DEF SendZero, peers, queue
<1>2. snd' \in Sender /\ snd'.pc = "seq"
  <2> snd.pos \in Nat \ {0}
    BY DEF TypeOK, Sender
  <2> QED  BY <1>1, AtRest
<1>3. /\ conn' \in [Conns -> Connection]
      /\ \A b \in Conns : b # c => conn'[b] = conn[b]
      /\ conn'[c].iThrowSendCount = 0
      /\ \A b \in Conns : /\ conn'[b].fd = conn[b].fd
                          /\ conn'[b].iCurrSequence = conn[b].iCurrSequence
                          /\ conn'[b].out = conn[b].out
                          /\ conn'[b].pSendMemPoint = conn[b].pSendMemPoint
                          /\ conn'[b].pSendBuf = conn[b].pSendBuf
                          /\ conn'[b].iSendLen = conn[b].iSendLen
  <2>1. 0 \in Int
    OBVIOUS
  <2> QED  BY <1>1, <2>1, CountSet, Zenon
<1>4. /\ \A b \in Conns : EpAt(b)' = EpAt(b)
      /\ \A b \in Conns \ {c} : SndAt(b)' = "elsewhere" /\ SndAt(b) = "elsewhere"
      /\ SndAt(c) = "zero" /\ SndAt(c)' = "elsewhere"
  BY <1>1, <1>2 DEF EpAt, SndAt, Sending
<1>5. ASSUME Served(c)
      PROVE  /\ Agreed(c) /\ ~conn[c].out /\ EpAt(c) \notin Writing
             /\ conn[c].pSendMemPoint = None /\ conn[c].iThrowSendCount = 0
  BY <1>4, <1>5 DEF Protocol, Agreed, Sending, Writing, Releasing
<1>6. Buffers' /\ NothingLost'
  <2>1. \A b \in Conns : /\ SndAt(b)' = "null" <=> SndAt(b) = "null"
                         /\ EpAt(b)' = "null" <=> EpAt(b) = "null"
    BY <1>4
  <2> QED  BY <1>1, <1>3, <2>1, SameBuffers, SameKept
<1>7. TypeOK'
  BY <1>1, <1>2, <1>3 DEF TypeOK
<1>8. /\ Links' /\ SequenceRight'
      /\ \A b \in Conns : (Served(b)' => Served(b)) /\ (Open(b)' => Open(b))
  BY <1>1, <1>3, <1>4, SameLinks
<1>9. EpollRight' /\ InHand' /\ WireRight'
  BY <1>1, <1>2, <1>3 DEF EpollRight, InHand, WireRight, Threading, Sending
<1>10. \A b \in Conns \ {c} : Untouched(b)
  BY <1>1, <1>3, <1>4, <1>8 DEF Untouched
<1>11. ASSUME Served(c)
       PROVE  Agreed(c)' /\ (Open(c)' => Got(c)')
  <2>1. ~Waits(c)' /\ EpAt(c)' \notin Writing
    BY <1>3, <1>4, <1>5, <1>11 DEF Waits, Writing
  <2>2. Agreed(c)'
    BY <1>1, <1>3, <1>4, <1>5, <1>11, <2>1
      DEF Agreed, Sending, Writing, Releasing
  <2>3. Open(c) => Got(c)'
    BY <1>1, <1>3, <1>4, <1>5, <1>11, <2>1 DEF Progress, Got, Writing
  <2> QED  BY <1>8, <2>2, <2>3
<1>12. Protocol' /\ Progress'
  BY <1>6, <1>8, <1>10, <1>11, OneTouched
<1> QED  BY <1>6, <1>7, <1>8, <1>9, <1>12

LEMMA InvSendPartly ==
  ASSUME NEW m \in Msgs, NEW c \in Conns, snd.m = m, msg[m].pConn = c,
         IInv, SendPartly
  PROVE  IInv'
<1> USE DEF IInv
<1> DEFINE len == IF snd.n > 0 THEN conn[c].iSendLen - snd.n
                  ELSE conn[c].iSendLen
<1>1. /\ UNCHANGED <<place, client, owner, unread, reg, wire, msg, mMsgSendQueue,
                     sem, frees, ep>>
      /\ snd.pc = "sent" /\ snd.n \notin {-2, conn[c].iSendLen}
      /\ snd' = [snd EXCEPT !.pc = "arm"]
  BY DEF SendPartly, peers, queue
<1>2. /\ snd' \in Sender /\ snd'.pc = "arm" /\ snd'.m = m /\ snd'.n = snd.n
      /\ snd.n \in -2..MsgLen
  BY <1>1 DEF TypeOK, Sender
<1>3. conn[c] \in Connection /\ conn[c].iSendLen = MsgLen /\ conn[c].pSendBuf = m
  BY <1>1 DEF TypeOK, InHand
<1>4. /\ len \in 1..MsgLen
      /\ MsgLen - len = IF snd.n > 0 THEN snd.n ELSE 0
  BY <1>1, <1>2, <1>3, MsgLenAssumption
<1>5. /\ conn' \in [Conns -> Connection]
      /\ \A b \in Conns : b # c => conn'[b] = conn[b]
      /\ conn'[c].iThrowSendCount = conn[c].iThrowSendCount + 1
      /\ conn'[c].iSendLen = len /\ conn'[c].pSendBuf = conn[c].pSendBuf
      /\ conn'[c].pSendMemPoint = conn[c].pSendMemPoint
      /\ conn'[c].fd = conn[c].fd /\ conn'[c].out = conn[c].out
      /\ conn'[c].iCurrSequence = conn[c].iCurrSequence
  <2> DEFINE q == [conn[c] EXCEPT !.iSendLen = len]
             count == conn[c].iThrowSendCount + 1
             r == [q EXCEPT !.iThrowSendCount = count]
  <2>0. conn' = [conn EXCEPT ![c].iSendLen = len, ![c].iThrowSendCount = count]
    BY DEF SendPartly, TypeOK
  <2>4. count \in Int
    BY <1>3 DEF Connection
  <2> HIDE DEF len, count
  <2>1. conn' = [conn EXCEPT ![c] = r]
    BY <2>0 DEF TypeOK
  <2>2. /\ q \in Connection /\ q.iSendLen = len /\ Rest(q, conn[c])
        /\ q.pSendMemPoint = conn[c].pSendMemPoint
        /\ q.pSendBuf = conn[c].pSendBuf
    BY <1>3, <1>4 DEF Connection, Rest
  <2> HIDE DEF q
  <2>3. /\ r \in Connection /\ r.iThrowSendCount = count
        /\ r.iSendLen = len /\ r.pSendBuf = q.pSendBuf
        /\ r.pSendMemPoint = q.pSendMemPoint
        /\ r.fd = q.fd /\ r.out = q.out /\ r.iCurrSequence = q.iCurrSequence
    BY <2>2, <2>4 DEF Connection
  <2> HIDE DEF r
  <2> QED  BY <2>1, <2>2, <2>3 DEF TypeOK, Rest, count
<1> HIDE DEF len
<1>6. TypeOK'
  BY <1>1, <1>2, <1>5 DEF TypeOK
<1>7. /\ \A b \in Conns : EpAt(b)' = EpAt(b)
      /\ \A b \in Conns \ {c} : SndAt(b)' = "elsewhere" /\ SndAt(b) = "elsewhere"
      /\ SndAt(c) = "sent" /\ SndAt(c)' = "arm"
  BY <1>1, <1>2 DEF EpAt, SndAt, Sending
<1>8. /\ Links' /\ SequenceRight'
      /\ \A b \in Conns : (Served(b)' => Served(b)) /\ (Open(b)' => Open(b))
  BY <1>1, <1>5, <1>7, SameLinks
<1>9. EpollRight' /\ WireRight' /\ InHand'
  BY <1>1, <1>2, <1>5 DEF EpollRight, WireRight, InHand, Threading, Sending
<1>10. Buffers' /\ NothingLost'
  <2>1. \A b \in Conns : /\ SndAt(b)' = "null" <=> SndAt(b) = "null"
                         /\ EpAt(b)' = "null" <=> EpAt(b) = "null"
    BY <1>7
  <2>2. \A b \in Conns : conn'[b].pSendMemPoint = conn[b].pSendMemPoint
    BY <1>5
  <2> QED  BY <1>1, <2>1, <2>2, SameBuffers, SameKept
<1>11. \A b \in Conns \ {c} : Untouched(b)
  BY <1>1, <1>5, <1>7, <1>8 DEF Untouched
<1>12. ASSUME Served(c)
       PROVE  Agreed(c)' /\ (Open(c)' => Got(c)')
  <2>1. /\ Agreed(c) /\ ~conn[c].out /\ EpAt(c) \notin Writing
        /\ conn[c].pSendMemPoint = m /\ conn[c].iThrowSendCount = 0
    BY <1>7, <1>12 DEF Protocol, Agreed, Sending, Writing, Releasing
  <2>2. ~Waits(c)' /\ EpAt(c)' \notin Writing /\ ~Dangling(c)'
    BY <1>5, <1>7, <2>1 DEF Waits, Writing, Dangling
  <2>3. Agreed(c)'
    BY <1>1, <1>2, <1>3, <1>5, <1>7, <2>1, <2>2
      DEF Agreed, Sending, Writing, Releasing
  <2>4. ASSUME Open(c)  PROVE Got(c)'
    <3>1. Upto(m, MsgLen - len, wire[owner[conn[c].fd]])
      BY <1>4, <1>7, <1>2, <1>12, <2>4 DEF Progress, Got
    <3> QED  BY <1>1, <1>2, <1>3, <1>4, <1>5, <1>7, <2>1, <2>2, <3>1
             DEF Got, Writing
  <2> QED  BY <1>8, <2>3, <2>4
<1>13. Protocol' /\ Progress'
  BY <1>8, <1>11, <1>12, OneTouched
<1> QED  BY <1>6, <1>8, <1>9, <1>10, <1>13

\* NgxEpollOperEvent on a connection whose descriptor, if open, is its own.
LEMMA OperEvent ==
  ASSUME TypeOK, Links, SequenceRight, NEW c \in Conns, NEW on \in BOOLEAN,
         conn[c].fd \in Fds, owner[conn[c].fd] # None => place[c] = "live",
         NgxEpollOperEvent(c, on), UNCHANGED <<place, client, owner, msg>>,
         \A b \in Conns : /\ EpAt(b)' \in Closing
                               <=> EpAt(b) \in Closing
                          /\ EpAt(b) = "elsewhere" \/ ep.err
                               => EpAt(b)' = "elsewhere" \/ ep'.err
  PROVE  /\ conn' \in [Conns -> Connection]
         /\ reg' \in [Fds -> [ptr : Conns \cup {None}, out : BOOLEAN]]
         /\ \A b \in Conns : b # c => conn'[b] = conn[b]
         /\ conn'[c].out = on
         /\ \A b \in Conns :
              /\ conn'[b].fd = conn[b].fd
              /\ conn'[b].iCurrSequence = conn[b].iCurrSequence
              /\ conn'[b].iThrowSendCount = conn[b].iThrowSendCount
              /\ conn'[b].pSendMemPoint = conn[b].pSendMemPoint
              /\ conn'[b].pSendBuf = conn[b].pSendBuf
              /\ conn'[b].iSendLen = conn[b].iSendLen
         /\ Links' /\ SequenceRight'
         /\ \A b \in Conns : (Served(b)' => Served(b)) /\ (Open(b)' => Open(b))
<1> DEFINE f == conn[c].fd
           r == [conn[c] EXCEPT !.out = on]
           new == [ptr |-> c, out |-> on]
<1>1. conn' = [conn EXCEPT ![c] = r]
  BY DEF NgxEpollOperEvent, TypeOK
<1>2. conn[c] \in Connection
  BY DEF TypeOK
<1>3. /\ r \in Connection /\ r.out = on /\ r.fd = f
      /\ r.iCurrSequence = conn[c].iCurrSequence
      /\ r.iThrowSendCount = conn[c].iThrowSendCount
      /\ r.pSendMemPoint = conn[c].pSendMemPoint
      /\ r.pSendBuf = conn[c].pSendBuf /\ r.iSendLen = conn[c].iSendLen
  BY <1>2 DEF Connection
<1> HIDE DEF r
<1>4. /\ conn' \in [Conns -> Connection]
      /\ \A b \in Conns : b # c => conn'[b] = conn[b]
      /\ conn'[c] = r
  BY <1>1, <1>3 DEF TypeOK
<1>5. /\ reg' = IF owner[f] = None THEN reg ELSE [reg EXCEPT ![f] = new]
      /\ new \in [ptr : Conns \cup {None}, out : BOOLEAN]
      /\ new.ptr = c /\ new.out = on
  BY DEF NgxEpollOperEvent
<1> HIDE DEF new
<1>6. /\ reg' \in [Fds -> [ptr : Conns \cup {None}, out : BOOLEAN]]
      /\ \A g \in Fds : IF g = f /\ owner[f] # None THEN reg'[g] = new
                        ELSE reg'[g] = reg[g]
  BY <1>5 DEF TypeOK
<1>7. SequenceRight'
  BY <1>3, <1>4 DEF SequenceRight
<1>8. \A b \in Conns : (Served(b)' => Served(b)) /\ (Open(b)' => Open(b))
  <2>1. \A b \in Conns : conn'[b].fd = conn[b].fd
    BY <1>3, <1>4
  <2> QED  BY <2>1 DEF Served, Leads, Open
<1>9. Links'
  <2>1. owner[f] # None => reg[f].ptr = c
    BY DEF Links
  <2>2. \A g \in Fds : reg[g].ptr \in Conns /\ owner[g] # None
          => conn[reg[g].ptr].fd = g
    BY DEF Links
  <2>3. ASSUME NEW g \in Fds
        PROVE  IF owner[g] = None THEN reg'[g] = NoReg
               ELSE /\ client[owner[g]] \in {"up", "fin", "rst"}
                    /\ reg'[g].ptr \in Conns
                    /\ place[reg'[g].ptr] = "live"
                    /\ conn'[reg'[g].ptr].fd = g
                    /\ conn'[reg'[g].ptr].out = reg'[g].out
    <3>1. CASE g = f
      BY <3>1, <1>3, <1>4, <1>5, <1>6 DEF Links
    <3>2. CASE g # f
      BY <3>2, <1>3, <1>4, <1>6, <2>2 DEF Links
    <3> QED  BY <3>1, <3>2
  <2>4. ASSUME NEW b \in Conns, place[b] = "live", owner[conn[b].fd] # None
        PROVE  conn[b].fd \in Fds /\ reg'[conn[b].fd].ptr = b
    BY <1>5, <1>6, <2>1, <2>4 DEF Links
  <2>5. \A b \in Conns : conn'[b].fd = conn[b].fd
    BY <1>3, <1>4
  <2> QED  BY <2>3, <2>4, <2>5 DEF Links
<1> QED  BY <1>3, <1>4, <1>6, <1>7, <1>8, <1>9

LEMMA InvArm ==
  ASSUME NEW m \in Msgs, NEW c \in Conns, snd.m = m, msg[m].pConn = c,
         IInv, Arm
  PROVE  IInv'
<1> USE DEF IInv
<1>1. /\ UNCHANGED <<place, client, owner, unread, wire, msg, mMsgSendQueue, sem,
                     frees, ep>>
      /\ snd.pc = "arm" /\ snd' = Sweeping(snd.pos)
      /\ NgxEpollOperEvent(c, TRUE) /\ snd.pc \in Threading
  BY DEF Arm, peers, queue, Threading, Sending
<1>2. snd' \in Sender /\ snd'.pc = "seq"
  <2> snd.pos \in Nat \ {0}
    BY DEF TypeOK, Sender
  <2> QED  BY <1>1, AtRest
<1>3. /\ conn[c].fd \in Fds /\ place[c] \in {"live", "recy"}
      /\ owner[conn[c].fd] # None => place[c] = "live"
      /\ Open(c) => owner[conn[c].fd] = msg[m].from
  BY <1>1, SenderConn DEF InHand
<1>4. \A b \in Conns : EpAt(b)' = EpAt(b)
  BY <1>1 DEF EpAt
<1>5. /\ conn' \in [Conns -> Connection]
      /\ reg' \in [Fds -> [ptr : Conns \cup {None}, out : BOOLEAN]]
      /\ \A b \in Conns : b # c => conn'[b] = conn[b]
      /\ conn'[c].out = TRUE
      /\ \A b \in Conns :
           /\ conn'[b].fd = conn[b].fd
           /\ conn'[b].iCurrSequence = conn[b].iCurrSequence
           /\ conn'[b].iThrowSendCount = conn[b].iThrowSendCount
           /\ conn'[b].pSendMemPoint = conn[b].pSendMemPoint
           /\ conn'[b].pSendBuf = conn[b].pSendBuf
           /\ conn'[b].iSendLen = conn[b].iSendLen
      /\ Links' /\ SequenceRight'
      /\ \A b \in Conns : (Served(b)' => Served(b)) /\ (Open(b)' => Open(b))
  BY <1>1, <1>3, <1>4, OperEvent
<1>6. TypeOK'
  BY <1>1, <1>2, <1>5 DEF TypeOK
<1>7. /\ \A b \in Conns \ {c} : SndAt(b)' = "elsewhere" /\ SndAt(b) = "elsewhere"
      /\ SndAt(c) = "arm" /\ SndAt(c)' = "elsewhere"
  BY <1>1, <1>2 DEF SndAt, Sending
<1>8. EpollRight' /\ WireRight' /\ InHand'
  BY <1>1, <1>2, <1>5 DEF EpollRight, WireRight, InHand, Threading, Sending
<1>9. Buffers' /\ NothingLost'
  <2>1. \A b \in Conns : /\ SndAt(b)' = "null" <=> SndAt(b) = "null"
                         /\ EpAt(b)' = "null" <=> EpAt(b) = "null"
    BY <1>4, <1>7
  <2> QED  BY <1>1, <1>5, <2>1, SameBuffers, SameKept
<1>10. \A b \in Conns \ {c} : Untouched(b)
  BY <1>1, <1>4, <1>5, <1>7 DEF Untouched
<1>11. ASSUME Served(c)
       PROVE  Agreed(c)' /\ (Open(c)' => Got(c)')
  <2>1. /\ Agreed(c) /\ ~conn[c].out /\ EpAt(c) \notin Writing
        /\ conn[c].pSendMemPoint = m /\ conn[c].pSendBuf = m
        /\ conn[c].iThrowSendCount = 1
    BY <1>7, <1>11 DEF Protocol, Agreed, Sending
  <2>2. EpAt(c)' \notin Writing /\ Waits(c)' /\ ~Dangling(c)'
    BY <1>4, <1>5, <1>7, <2>1 DEF Waits, Writing, Dangling
  <2>3. msg[m].from = owner[conn[c].fd]
    BY <1>1, <1>11 DEF InHand, Served, Leads
  <2>4. Agreed(c)'
    BY <1>1, <1>4, <1>5, <1>7, <2>1, <2>2, <2>3
      DEF Agreed, Sending, Writing, Releasing
  <2>5. ASSUME Open(c)  PROVE Got(c)'
    <3>1. /\ conn[c].iSendLen # 0
          /\ Upto(m, MsgLen - conn[c].iSendLen, wire[owner[conn[c].fd]])
      BY <1>7, <1>11, <2>1, <2>5 DEF Progress, Got
    <3> QED  BY <1>1, <1>4, <1>5, <1>7, <2>1, <2>2, <3>1 DEF Got, Writing
  <2> QED  BY <1>5, <2>4, <2>5
<1>12. Protocol' /\ Progress'
  BY <1>5, <1>10, <1>11, OneTouched
<1> QED  BY <1>5, <1>6, <1>8, <1>9, <1>12

-----------------------------------------------------------------------------
(* The epoll thread, closing.                                              *)

\* A step concerns no connection that is served after it.
LEMMA ServedUntouched ==
  ASSUME TypeOK, Buffers, Protocol, Progress,
         \A b \in Conns : Served(b)' => Untouched(b)
  PROVE  Protocol' /\ Progress'
BY UntouchedKeeps, NoneAssumption DEF Protocol, Progress

LEMMA InvReadPacket ==
  ASSUME NEW c \in Conns, ep.c = c, IInv, ReadPacket
  PROVE  IInv'
<1> USE DEF IInv
<1> DEFINE k == owner[conn[c].fd]
<1>1. PICK m \in Msgs :
        /\ msg[m].at = "none"
        /\ msg' = [msg EXCEPT ![m] =
                     [at |-> "recv", pConn |-> c,
                      iCurrsequence |-> conn[c].iCurrSequence, from |-> k]]
  BY DEF ReadPacket
<1>2. /\ UNCHANGED <<conn, place, client, owner, unread, reg, wire, mMsgSendQueue,
                     sem, frees, snd>>
      /\ ep.pc = "packet" /\ ep' = [ep EXCEPT !.pc = "out"]
  BY DEF ReadPacket, peers, queue
<1>3. /\ ep' \in Epoll /\ ep'.pc = "out" /\ ep'.c = c
      /\ ep'.out = ep.out /\ ep'.err = ep.err
  BY <1>2 DEF TypeOK, Epoll
<1>4. /\ conn[c].fd \in Fds /\ place[c] = "live" /\ k # None /\ k \in Clients
      /\ conn[c].iCurrSequence \in Nat
  <2>1. conn[c] \in Connection
    BY DEF TypeOK
  <2> QED  BY <1>2, <2>1 DEF EpollRight, TypeOK, Connection
<1>5. /\ msg' \in [Msgs -> Message]
      /\ msg'[m].at = "recv" /\ msg'[m].pConn = c /\ msg'[m].from = k
      /\ msg'[m].iCurrsequence = conn[c].iCurrSequence
      /\ \A n \in Msgs : n # m => msg'[n] = msg[n]
  BY <1>1, <1>4 DEF TypeOK, Message
<1>6. /\ m \notin Elems(mMsgSendQueue) /\ frees[m] = 0
      /\ snd.pc \in Threading => snd.m \in Msgs /\ snd.m # m
      /\ \A b \in Conns : conn[b].pSendMemPoint # m
  BY <1>1, NoneAssumption DEF Buffers, InHand
<1>7. TypeOK'
  BY <1>2, <1>3, <1>5 DEF TypeOK
<1>9. InHand'
  BY <1>2, <1>5, <1>6 DEF InHand, Open, Threading, Sending
<1>10. \A b \in Conns :
         /\ SndAt(b)' = SndAt(b) /\ (Served(b)' => Served(b))
         /\ Open(b)' => Open(b)
         /\ EpAt(b)' = IF b = c THEN "out" ELSE "elsewhere"
         /\ EpAt(b) = IF b = c THEN "packet" ELSE "elsewhere"
  <2>1. \A b \in Conns :
          /\ SndAt(b)' = SndAt(b)
          /\ EpAt(b)' = IF b = c THEN "out" ELSE "elsewhere"
          /\ EpAt(b) = IF b = c THEN "packet" ELSE "elsewhere"
    BY <1>2, <1>3, <1>5, <1>6 DEF SndAt, EpAt, Threading, Sending
  <2> QED  BY <1>2, <1>3, <2>1 DEF Served, Leads, Open
<1>8. Buffers' /\ NothingLost'
  <2>1. \A n \in Msgs : msg[n].at = "queued" \/ msg'[n].at = "queued"
                         => msg'[n] = msg[n]
    BY <1>1, <1>5
  <2>2. \A b \in Conns : /\ SndAt(b)' = "null" <=> SndAt(b) = "null"
                         /\ EpAt(b)' = "null" <=> EpAt(b) = "null"
    BY <1>10
  <2> QED  BY <1>2, <2>1, <2>2, SameBuffers, SameKept
<1>11. Links' /\ EpollRight'
  BY <1>2, <1>3, <1>4, <1>10 DEF Links, EpollRight, Writing, Closing
<1>12. SequenceRight'
  BY <1>2, <1>4, <1>5 DEF SequenceRight
<1>13. \A b \in Conns \ {c} : Untouched(b)
  BY <1>1, <1>2, <1>5, <1>10 DEF Untouched
<1>14. ASSUME Served(c)
       PROVE  Agreed(c)' /\ (Open(c)' => Got(c)')
  <2>1. Agreed(c) /\ (Open(c)' => Got(c)) /\ (Waits(c)' <=> Waits(c))
    BY <1>2, <1>10, <1>14 DEF Protocol, Progress, Waits
  <2>2. conn[c].pSendMemPoint \in Msgs =>
          msg'[conn[c].pSendMemPoint].from = msg[conn[c].pSendMemPoint].from
    BY <1>5, <1>6
  <2>3. Dangling(c)' <=> Dangling(c)
    BY <1>10 DEF Dangling
  <2>4. Agreed(c)'
    BY <1>2, <1>3, <1>10, <2>1, <2>2, <2>3 DEF Agreed, Sending, Writing, Releasing
  <2>5. Open(c)' => Got(c)'
    BY <1>2, <1>10, <2>1 DEF Got
  <2> QED  BY <2>4, <2>5
<1>15. Protocol' /\ Progress'
  BY <1>10, <1>13, <1>14, OneTouched
<1>16. WireRight'
  <2>1. \A j \in Clients : \A i \in 1..Len(wire[j]) :
          wire[j][i][1] \in Msgs /\ wire[j][i][1] # m
    BY <1>1, Replies DEF WireRight
  <2> QED  BY <1>2, <1>5, <2>1 DEF WireRight
<1> QED  BY <1>7, <1>8, <1>9, <1>11, <1>12, <1>15, <1>16

LEMMA InvCloseFd ==
  ASSUME NEW c \in Conns, ep.c = c, IInv, CloseFd
  PROVE  IInv'
<1> USE DEF IInv
<1> DEFINE f == conn[c].fd
           k == owner[f]
<1>1. /\ UNCHANGED <<conn, place, wire, msg, mMsgSendQueue, sem, frees, snd>>
      /\ ep.pc = "close" /\ ep' = [ep EXCEPT !.pc = "undo"]
      /\ owner' = [owner EXCEPT ![f] = None]
      /\ reg' = [reg EXCEPT ![f] = NoReg]
      /\ client' = IF k = None THEN client ELSE [client EXCEPT ![k] = "closed"]
      /\ unread' = IF k = None THEN unread ELSE [unread EXCEPT ![k] = 0]
  BY DEF CloseFd, queue
<1>2. /\ f \in Fds /\ place[c] = "live" /\ k # None /\ k \in Clients
  BY <1>1 DEF EpollRight, TypeOK
<1>3. ep' \in Epoll /\ ep'.pc = "undo" /\ ep'.c = c
  BY <1>1 DEF TypeOK, Epoll
<1>4. /\ owner' \in [Fds -> Clients \cup {None}] /\ owner'[f] = None
      /\ \A g \in Fds : g # f => owner'[g] = owner[g]
      /\ client' \in [Clients -> {"new", "up", "fin", "rst", "closed"}]
      /\ unread' \in [Clients -> Nat]
      /\ client'[k] = "closed" /\ \A j \in Clients : j # k => client'[j] = client[j]
  BY <1>1, <1>2 DEF TypeOK
<1>5. /\ reg' \in [Fds -> [ptr : Conns \cup {None}, out : BOOLEAN]]
      /\ reg'[f] = NoReg /\ \A g \in Fds : g # f => reg'[g] = reg[g]
  BY <1>1, <1>2 DEF TypeOK, NoReg
<1> HIDE DEF f, k
<1>6. \A g \in Fds : g # f => owner[g] # k
  BY <1>2 DEF Links, k
<1>7. \A b \in Conns : place[b] = "live" /\ b # c =>
        /\ conn[b].fd \in Fds /\ conn[b].fd # f
        /\ owner[conn[b].fd] # None /\ reg[conn[b].fd].ptr = b
  BY <1>1, <1>2 DEF Links, EpAt, Closing, k, f
<1>8. \A b \in Conns : /\ SndAt(b)' = SndAt(b)
                       /\ EpAt(b) = IF b = c THEN "close" ELSE "elsewhere"
                       /\ EpAt(b)' = IF b = c THEN "undo" ELSE "elsewhere"
  BY <1>1, <1>3 DEF SndAt, EpAt
<1>9. TypeOK'
  BY <1>1, <1>3, <1>4, <1>5 DEF TypeOK
<1>10. Buffers' /\ NothingLost' /\ WireRight'
  <2>1. \A b \in Conns : /\ SndAt(b)' = "null" <=> SndAt(b) = "null"
                         /\ EpAt(b)' = "null" <=> EpAt(b) = "null"
    BY <1>8
  <2>2. \A j \in Clients : /\ client[j] = "closed" => client'[j] = "closed"
                           /\ client'[j] = "up" => client[j] = "up"
    BY <1>4
  <2>3. Buffers' /\ NothingLost'
    BY <1>1, <2>1, <2>2, SameBuffers, SameKept
  <2> QED  BY <1>1, <2>3 DEF WireRight
<1>11. InHand'
  <2>1. \A b \in Conns : Open(b)' => Open(b)
    BY <1>1, <1>4 DEF Open
  <2>2. snd.pc \in Threading => msg[snd.m].pConn \in Conns
    BY SenderConn
  <2> QED  BY <1>1, <1>4, <2>1, <2>2 DEF InHand, Threading, Sending
<1>12. Links'
  <2>1. ASSUME NEW g \in Fds
        PROVE  IF owner'[g] = None THEN reg'[g] = NoReg
               ELSE /\ client'[owner'[g]] \in {"up", "fin", "rst"}
                    /\ reg'[g].ptr \in Conns
                    /\ place[reg'[g].ptr] = "live"
                    /\ conn[reg'[g].ptr].fd = g
                    /\ conn[reg'[g].ptr].out = reg'[g].out
    <3>1. CASE g = f
      BY <3>1, <1>4, <1>5
    <3>2. CASE g # f
      <4>1. owner[g] # None => owner[g] \in Clients
        BY DEF TypeOK
      <4> QED  BY <3>2, <4>1, <1>4, <1>5, <1>6 DEF Links
    <3> QED  BY <3>1, <3>2
  <2>2. \A g, h \in Fds : owner'[g] = owner'[h] /\ owner'[g] # None => g = h
    BY <1>4 DEF Links
  <2>3. ASSUME NEW b \in Conns, place[b] = "live"
        PROVE  /\ conn[b].fd \in Fds
               /\ IF owner'[conn[b].fd] = None THEN EpAt(b)' \in Closing
                  ELSE reg'[conn[b].fd].ptr = b
    <3>1. CASE b = c
      BY <3>1, <1>2, <1>4, <1>8 DEF f, Closing
    <3>2. CASE b # c
      BY <3>2, <2>3, <1>4, <1>5, <1>7
    <3> QED  BY <3>1, <3>2
  <2> QED  BY <1>1, <2>1, <2>2, <2>3 DEF Links
<1>13. EpollRight'
  BY <1>1, <1>2, <1>3, <1>4 DEF EpollRight, Writing, Closing, f
<1>14. SequenceRight'
  <2> SUFFICES ASSUME NEW n \in Msgs, msg[n].at # "none"
               PROVE  LET d == msg[n].pConn IN
                      /\ msg[n].iCurrsequence = conn[d].iCurrSequence =>
                           owner'[conn[d].fd] \in {None, msg[n].from}
                      /\ client'[msg[n].from] # "closed" =>
                           /\ msg[n].iCurrsequence = conn[d].iCurrSequence
                           /\ owner'[conn[d].fd] = msg[n].from
    BY <1>1 DEF SequenceRight
  <2> DEFINE d == msg[n].pConn
  <2>1. d \in Conns /\ msg[n].from \in Clients
    BY DEF SequenceRight
  <2>2. msg[n].iCurrsequence = conn[d].iCurrSequence =>
          conn[d].fd \in Fds /\ owner[conn[d].fd] \in {None, msg[n].from}
    BY <2>1 DEF SequenceRight, Links
  <2>3. client'[msg[n].from] # "closed" =>
          /\ msg[n].iCurrsequence = conn[d].iCurrSequence
          /\ owner[conn[d].fd] = msg[n].from /\ msg[n].from # k
    BY <2>1, <1>4 DEF SequenceRight
  <2> QED  BY <2>1, <2>2, <2>3, <1>4 DEF k
<1>15. Protocol' /\ Progress'
  <2> SUFFICES ASSUME NEW b \in Conns, Served(b)'  PROVE Untouched(b)
    BY ServedUntouched
  <2>1. b # c /\ place[b] = "live"
    BY <1>1, <1>4 DEF Served, Leads, f
  <2>2. /\ owner'[conn[b].fd] = owner[conn[b].fd] /\ owner[conn[b].fd] # k
        /\ owner[conn[b].fd] \in Clients
    BY <2>1, <1>4, <1>6, <1>7 DEF TypeOK
  <2>3. client'[owner[conn[b].fd]] = client[owner[conn[b].fd]]
    BY <2>2, <1>4
  <2>4. Served(b) /\ (Open(b)' => Open(b))
    BY <2>1, <2>2, <2>3, <1>1, <1>8 DEF Served, Leads, Open
  <2> QED  BY <1>1, <1>8, <2>1, <2>2, <2>4 DEF Untouched
<1> QED  BY <1>9, <1>10, <1>11, <1>12, <1>13, <1>14, <1>15

\* A connection's count goes down by one.
LEMMA CountDown ==
  ASSUME TypeOK, NEW c \in Conns,
         conn' = [conn EXCEPT ![c].iThrowSendCount = @ - 1]
  PROVE  /\ conn' \in [Conns -> Connection]
         /\ \A b \in Conns : b # c => conn'[b] = conn[b]
         /\ conn'[c].iThrowSendCount = conn[c].iThrowSendCount - 1
         /\ \A b \in Conns : /\ conn'[b].fd = conn[b].fd
                             /\ conn'[b].iCurrSequence = conn[b].iCurrSequence
                             /\ conn'[b].out = conn[b].out
                             /\ conn'[b].pSendMemPoint = conn[b].pSendMemPoint
                             /\ conn'[b].pSendBuf = conn[b].pSendBuf
                             /\ conn'[b].iSendLen = conn[b].iSendLen
<1> DEFINE count == conn[c].iThrowSendCount - 1
           r == [conn[c] EXCEPT !.iThrowSendCount = count]
<1>1. conn' = [conn EXCEPT ![c] = r]
  BY DEF TypeOK
<1>2. conn[c] \in Connection
  BY DEF TypeOK
<1>3. count \in Int
  BY <1>2 DEF Connection
<1> HIDE DEF count
<1>4. /\ r \in Connection /\ r.iThrowSendCount = count
      /\ r.fd = conn[c].fd /\ r.out = conn[c].out
      /\ r.iCurrSequence = conn[c].iCurrSequence
      /\ r.pSendMemPoint = conn[c].pSendMemPoint
      /\ r.pSendBuf = conn[c].pSendBuf /\ r.iSendLen = conn[c].iSendLen
  BY <1>2, <1>3 DEF Connection
<1> HIDE DEF r
<1> QED  BY <1>1, <1>4 DEF TypeOK, count

\* Steps of zdCloseSocketProc between close() and InRecyConnecQueue.
LEMMA ClosingStep ==
  ASSUME NEW c \in Conns, ep.c = c, IInv, ep.pc \in {"undo", "lower"},
         ep' \in Epoll, ep'.c = c, ep'.err = ep.err, ep'.pc \in {"lower", "recy"},
         UNCHANGED <<place, client, owner, unread, reg, wire, msg, mMsgSendQueue,
                     sem, frees, snd>>,
         conn' \in [Conns -> Connection],
         \A b \in Conns : b # c => conn'[b] = conn[b],
         \A b \in Conns : /\ conn'[b].fd = conn[b].fd
                          /\ conn'[b].iCurrSequence = conn[b].iCurrSequence
                          /\ conn'[b].out = conn[b].out
                          /\ conn'[b].pSendMemPoint = conn[b].pSendMemPoint
                          /\ conn'[b].pSendBuf = conn[b].pSendBuf
                          /\ conn'[b].iSendLen = conn[b].iSendLen
  PROVE  IInv'
<1> USE DEF IInv
<1>1. \A b \in Conns : /\ SndAt(b)' = SndAt(b)
                       /\ EpAt(b) = IF b = c THEN ep.pc ELSE "elsewhere"
                       /\ EpAt(b)' = IF b = c THEN ep'.pc ELSE "elsewhere"
  BY DEF SndAt, EpAt
<1>2. owner[conn[c].fd] = None
  BY DEF EpollRight, Closing
<1>3. TypeOK'
  BY DEF TypeOK
<1>4. /\ Links' /\ SequenceRight'
      /\ \A b \in Conns : (Served(b)' => Served(b)) /\ (Open(b)' => Open(b))
  <2>1. \A b \in Conns : /\ EpAt(b)' \in Closing <=> EpAt(b) \in Closing
                         /\ EpAt(b) = "elsewhere" \/ ep.err
                            => EpAt(b)' = "elsewhere" \/ ep'.err
    BY <1>1 DEF Closing
  <2> QED  BY <2>1, SameLinks
<1>5. InHand' /\ WireRight'
  <2>1. \A b \in Conns : Open(b)' <=> Open(b)
    BY DEF Open
  <2>2. snd.pc \in Threading => msg[snd.m].pConn \in Conns
    BY SenderConn
  <2> QED  BY <2>1, <2>2 DEF InHand, WireRight, Threading, Sending
<1>6. Buffers' /\ NothingLost'
  <2>1. \A b \in Conns : /\ SndAt(b)' = "null" <=> SndAt(b) = "null"
                         /\ EpAt(b)' = "null" <=> EpAt(b) = "null"
    BY <1>1
  <2> QED  BY <2>1, SameBuffers, SameKept
<1>7. EpollRight'
  BY DEF EpollRight, Writing, Closing
<1>8. Protocol' /\ Progress'
  <2>1. ~Served(c)
    BY <1>2 DEF Served, Leads
  <2> QED  BY <1>1, <1>4, <2>1, ServedUntouched DEF Untouched
<1> QED  BY <1>3, <1>4, <1>5, <1>6, <1>7, <1>8

LEMMA InvUndoThrowCount ==
  ASSUME NEW c \in Conns, ep.c = c, IInv, UndoThrowCount
  PROVE  IInv'
<1>1. /\ UNCHANGED <<conn, place, client, owner, unread, reg, wire, msg,
                     mMsgSendQueue, sem, frees, snd>>
      /\ ep.pc \in {"undo", "lower"}
  BY DEF UndoThrowCount, peers, queue
<1>2. PICK to \in {"lower", "recy"} : ep' = [ep EXCEPT !.pc = to]
  BY DEF UndoThrowCount
<1>3. /\ ep' \in Epoll /\ ep'.pc \in {"lower", "recy"} /\ ep'.c = c
      /\ ep'.err = ep.err
  BY <1>2 DEF IInv, TypeOK, Epoll
<1>4. conn' \in [Conns -> Connection]
  BY <1>1 DEF IInv, TypeOK
<1> QED  BY <1>1, <1>3, <1>4, ClosingStep

LEMMA InvLowerThrowCount ==
  ASSUME NEW c \in Conns, ep.c = c, IInv, LowerThrowCount
  PROVE  IInv'
<1>1. /\ UNCHANGED <<place, client, owner, unread, reg, wire, msg, mMsgSendQueue,
                     sem, frees, snd>>
      /\ ep.pc \in {"undo", "lower"} /\ ep' = [ep EXCEPT !.pc = "recy"]
      /\ conn' = [conn EXCEPT ![c].iThrowSendCount = @ - 1]
  BY DEF LowerThrowCount, peers, queue
<1>2. /\ ep' \in Epoll /\ ep'.pc \in {"lower", "recy"} /\ ep'.c = c
      /\ ep'.err = ep.err
  BY <1>1 DEF IInv, TypeOK, Epoll
<1>3. TypeOK
  BY DEF IInv
<1> QED  BY <1>1, <1>2, <1>3, CountDown, ClosingStep

LEMMA InvInRecyConnecQueue ==
  ASSUME NEW c \in Conns, ep.c = c, IInv, InRecyConnecQueue
  PROVE  IInv'
<1> USE DEF IInv
<1> DEFINE seq == conn[c].iCurrSequence + 1
           r == [conn[c] EXCEPT !.iCurrSequence = seq]
<1>1. ep.pc = "recy" /\ place[c] = "live" /\ owner[conn[c].fd] = None
      /\ conn[c].fd \in Fds
  BY DEF InRecyConnecQueue, EpollRight, Closing
<1>2. /\ UNCHANGED <<client, owner, unread, reg, wire, msg, mMsgSendQueue, sem,
                     frees, snd>>
      /\ ep' = [ep EXCEPT !.pc = "out"]
      /\ conn' = [conn EXCEPT ![c].iCurrSequence = seq]
      /\ place' = [place EXCEPT ![c] = "recy"]
  BY <1>1 DEF InRecyConnecQueue, peers, queue, TypeOK
<1>3. ep' \in Epoll /\ ep'.pc = "out" /\ ep'.c = c
  BY <1>2 DEF TypeOK, Epoll
<1>4. conn[c] \in Connection /\ conn[c].iCurrSequence \in Nat
  BY DEF TypeOK, Connection
<1>5. conn' = [conn EXCEPT ![c] = r] /\ seq \in Nat
  BY <1>2, <1>4 DEF TypeOK
<1> HIDE DEF seq
<1>6. /\ r \in Connection /\ r.iCurrSequence = seq /\ r.fd = conn[c].fd
      /\ r.out = conn[c].out /\ r.pSendMemPoint = conn[c].pSendMemPoint
      /\ r.pSendBuf = conn[c].pSendBuf /\ r.iSendLen = conn[c].iSendLen
  BY <1>4, <1>5 DEF Connection
<1> HIDE DEF r
<1>7. /\ conn' \in [Conns -> Connection]
      /\ \A b \in Conns : b # c => conn'[b] = conn[b] /\ place'[b] = place[b]
      /\ conn'[c].iCurrSequence = conn[c].iCurrSequence + 1
      /\ place' \in [Conns -> {"free", "live", "recy"}] /\ place'[c] = "recy"
      /\ \A b \in Conns : /\ conn'[b].fd = conn[b].fd
                          /\ conn'[b].out = conn[b].out
                          /\ conn'[b].pSendMemPoint = conn[b].pSendMemPoint
                          /\ conn'[b].pSendBuf = conn[b].pSendBuf
                          /\ conn'[b].iSendLen = conn[b].iSendLen
  <2>1. /\ conn' \in [Conns -> Connection] /\ conn'[c] = r
        /\ \A b \in Conns : b # c => conn'[b] = conn[b]
    BY <1>5, <1>6 DEF TypeOK
  <2>2. /\ place' \in [Conns -> {"free", "live", "recy"}] /\ place'[c] = "recy"
        /\ \A b \in Conns : b # c => place'[b] = place[b]
    BY <1>2 DEF TypeOK
  <2> QED  BY <1>6, <2>1, <2>2 DEF seq
<1>8. \A b \in Conns : /\ SndAt(b)' = SndAt(b)
                       /\ EpAt(b) = IF b = c THEN "recy" ELSE "elsewhere"
                       /\ EpAt(b)' = IF b = c THEN "out" ELSE "elsewhere"
  BY <1>1, <1>2, <1>3 DEF SndAt, EpAt
<1>9. TypeOK'
  BY <1>2, <1>3, <1>7 DEF TypeOK
<1>10. Buffers' /\ NothingLost' /\ WireRight'
  <2>1. \A b \in Conns : /\ SndAt(b)' = "null" <=> SndAt(b) = "null"
                         /\ EpAt(b)' = "null" <=> EpAt(b) = "null"
    BY <1>8
  <2>2. Buffers' /\ NothingLost'
    BY <1>2, <1>7, <2>1, SameBuffers, SameKept
  <2> QED  BY <1>2, <2>2 DEF WireRight
<1>11. InHand'
  <2>1. snd.pc \in Threading => msg[snd.m].pConn \in Conns
    BY SenderConn
  <2> QED  BY <1>1, <1>2, <1>7, <2>1 DEF InHand, Open, Threading, Sending
<1>12. Links'
  <2>1. \A g \in Fds : owner[g] # None => reg[g].ptr # c
    BY <1>1 DEF Links
  <2> QED  BY <1>2, <1>7, <1>8, <2>1 DEF Links, Closing
<1>13. EpollRight'
  BY <1>1, <1>2, <1>3, <1>7 DEF EpollRight, Writing, Closing
<1>14. SequenceRight'
  <2> SUFFICES ASSUME NEW n \in Msgs, msg[n].at # "none"
               PROVE  LET d == msg[n].pConn IN
                      /\ msg[n].iCurrsequence <= conn'[d].iCurrSequence
                      /\ msg[n].iCurrsequence = conn'[d].iCurrSequence =>
                           /\ place'[d] = "live"
                           /\ owner[conn'[d].fd] \in {None, msg[n].from}
                      /\ client[msg[n].from] # "closed" =>
                           /\ msg[n].iCurrsequence = conn'[d].iCurrSequence
                           /\ owner[conn'[d].fd] = msg[n].from
    BY <1>2 DEF SequenceRight
  <2>1. msg[n].iCurrsequence \in Nat /\ msg[n].from \in Clients
    BY DEF TypeOK, Message, SequenceRight
  <2>2. CASE msg[n].pConn = c
    BY <2>1, <2>2, <1>1, <1>4, <1>7, NoneAssumption DEF SequenceRight
  <2>3. CASE msg[n].pConn # c
    BY <2>3, <1>7 DEF SequenceRight
  <2> QED  BY <2>2, <2>3
<1>15. Protocol' /\ Progress'
  <2>1. ~Served(c) /\ ~Served(c)'
    BY <1>1, <1>2, <1>7 DEF Served, Leads
  <2>2. \A b \in Conns : (Served(b)' => Served(b)) /\ (Open(b)' => Open(b))
    BY <1>2, <1>7, <1>8, <2>1 DEF Served, Leads, Open
  <2> QED  BY <1>2, <1>7, <1>8, <2>1, <2>2, ServedUntouched DEF Untouched
<1> QED  BY <1>9, <1>10, <1>11, <1>12, <1>13, <1>14, <1>15

-----------------------------------------------------------------------------
(* The epoll thread, sending.                                              *)

\* Steps of the epoll thread with connection c that change nothing but c's
\* fields and its own place keep what is not about them.
LEMMA EpollStep ==
  ASSUME NEW c \in Conns, ep.c = c, IInv,
         ep.pc \notin {"idle"} \cup Closing,
         ep'.pc \notin {"packet", "close"} \cup Closing,
         ep'.pc = "idle" \/ (ep'.c = c /\ ep'.err = ep.err),
         ep'.pc \in Writing => ~ep.err,
         UNCHANGED <<place, client, owner, reg, msg, snd>>,
         \A b \in Conns : b # c => conn'[b] = conn[b],
         conn'[c].fd = conn[c].fd, conn'[c].out = conn[c].out,
         conn'[c].iCurrSequence = conn[c].iCurrSequence
  PROVE  /\ Links' /\ EpollRight' /\ SequenceRight'
         /\ \A b \in Conns : /\ (Served(b)' => Served(b)) /\ (Open(b)' <=> Open(b))
                             /\ SndAt(b)' = SndAt(b)
                             /\ b # c => EpAt(b) = "elsewhere"
                                         /\ EpAt(b)' = "elsewhere"
         /\ EpAt(c) = ep.pc
         /\ EpAt(c)' = IF ep'.pc = "idle" THEN "elsewhere" ELSE ep'.pc
<1> USE DEF IInv
<1>1. /\ \A b \in Conns : SndAt(b)' = SndAt(b)
      /\ \A b \in Conns : b # c => EpAt(b) = "elsewhere" /\ EpAt(b)' = "elsewhere"
      /\ EpAt(c) = ep.pc
      /\ EpAt(c)' = IF ep'.pc = "idle" THEN "elsewhere" ELSE ep'.pc
  BY DEF SndAt, EpAt
<1>2. \A b \in Conns : /\ conn'[b].fd = conn[b].fd
                       /\ conn'[b].iCurrSequence = conn[b].iCurrSequence
                       /\ conn'[b].out = conn[b].out
  OBVIOUS
<1>3. Links' /\ SequenceRight' /\ \A b \in Conns : Served(b)' => Served(b)
  <2>1. \A b \in Conns : /\ EpAt(b)' \in Closing <=> EpAt(b) \in Closing
                         /\ EpAt(b) = "elsewhere" \/ ep.err
                            => EpAt(b)' = "elsewhere" \/ ep'.err
    <3>1. ep.pc # "elsewhere"
      BY DEF TypeOK, Epoll
    <3> QED  BY <1>1, <3>1 DEF Closing
  <2>2. UNCHANGED <<place, client, owner, reg>>
    OBVIOUS
  <2> QED  BY <1>2, <2>1, <2>2, SameLinks
<1>4. EpollRight'
  BY DEF EpollRight
<1>5. \A b \in Conns : Open(b)' <=> Open(b)
  BY <1>2 DEF Open
<1> QED  BY <1>1, <1>3, <1>4, <1>5

LEMMA InvWriteEvent ==
  ASSUME NEW c \in Conns, ep.c = c, IInv, WriteEvent
  PROVE  IInv'
<1> USE DEF IInv
<1>1. /\ UNCHANGED <<place, client, owner, unread, reg, wire, msg, mMsgSendQueue,
                     sem, frees, snd>>
      /\ ep.pc = "out"
      /\ conn' = IF ep.out /\ ep.err
                 THEN [conn EXCEPT ![c].iThrowSendCount = @ - 1] ELSE conn
  BY DEF WriteEvent, peers, queue
<1>2. /\ ep' \in Epoll
      /\ IF ep.out /\ ~ep.err
         THEN /\ ep'.pc = "write" /\ ep'.c = c /\ ep'.out = ep.out
              /\ ep'.err = ep.err
         ELSE ep'.pc = "idle"
  <2>1. CASE ep.out /\ ~ep.err
    <3>1. ep' = [ep EXCEPT !.pc = "write"]
      BY <2>1 DEF WriteEvent
    <3> QED  BY <2>1, <3>1 DEF TypeOK, Epoll
  <2>2. CASE ~(ep.out /\ ~ep.err)
    <3>1. 1 \in Nat \ {0}
      OBVIOUS
    <3>2. ep' = Idle
      BY <2>2 DEF WriteEvent
    <3> QED  BY <2>2, <3>1, <3>2, AtRest
  <2> QED  BY <2>1, <2>2
<1>3. /\ conn' \in [Conns -> Connection]
      /\ \A b \in Conns : b # c => conn'[b] = conn[b]
      /\ \A b \in Conns : /\ conn'[b].fd = conn[b].fd
                          /\ conn'[b].iCurrSequence = conn[b].iCurrSequence
                          /\ conn'[b].out = conn[b].out
                          /\ conn'[b].pSendMemPoint = conn[b].pSendMemPoint
                          /\ conn'[b].pSendBuf = conn[b].pSendBuf
                          /\ conn'[b].iSendLen = conn[b].iSendLen
      /\ ~(ep.out /\ ep.err) => conn' = conn
  <2>1. CASE ep.out /\ ep.err
    BY <1>1, <2>1, CountDown
  <2>2. CASE ~(ep.out /\ ep.err)
    BY <1>1, <2>2 DEF TypeOK
  <2> QED  BY <2>1, <2>2
<1>4. /\ Links' /\ EpollRight' /\ SequenceRight'
      /\ \A b \in Conns : /\ (Served(b)' => Served(b)) /\ (Open(b)' <=> Open(b))
                          /\ SndAt(b)' = SndAt(b)
                          /\ b # c => EpAt(b) = "elsewhere"
                                      /\ EpAt(b)' = "elsewhere"
      /\ EpAt(c) = "out"
      /\ EpAt(c)' = IF ep'.pc = "idle" THEN "elsewhere" ELSE ep'.pc
  <2>1. /\ ep.pc \notin {"idle"} \cup Closing
        /\ ep'.pc \notin {"packet", "close"} \cup Closing
        /\ ep'.pc = "idle" \/ (ep'.c = c /\ ep'.err = ep.err)
        /\ ep'.pc \in Writing => ~ep.err
    BY <1>1, <1>2 DEF Closing, Writing
  <2> QED  BY <1>1, <1>3, <2>1, EpollStep
<1>5. TypeOK'
  BY <1>1, <1>2, <1>3 DEF TypeOK
<1>6. InHand' /\ WireRight'
  <2>1. snd.pc \in Threading => msg[snd.m].pConn \in Conns
    BY SenderConn
  <2> QED  BY <1>1, <1>3, <1>4, <2>1 DEF InHand, WireRight, Threading, Sending
<1>7. Buffers' /\ NothingLost'
  <2>1. \A b \in Conns : /\ SndAt(b)' = "null" <=> SndAt(b) = "null"
                         /\ EpAt(b)' = "null" <=> EpAt(b) = "null"
    BY <1>2, <1>4
  <2> QED  BY <1>1, <1>3, <2>1, SameBuffers, SameKept
<1>8. \A b \in Conns \ {c} : Untouched(b)
  BY <1>1, <1>3, <1>4 DEF Untouched
<1>9. ASSUME Served(c)
      PROVE  Agreed(c)' /\ (Open(c)' => Got(c)')
  <2>1. Agreed(c) /\ (Open(c) => Got(c))
    BY <1>9 DEF Protocol, Progress
  <2>2. ~ep.err /\ (ep.out => conn[c].out) /\ conn' = conn
    BY <1>3, <1>4, <2>1 DEF Agreed
  <2>3. EpAt(c)' = IF ep.out THEN "write" ELSE "elsewhere"
    BY <1>2, <1>4, <2>2
  <2>4. (Waits(c)' <=> Waits(c)) /\ (Dangling(c)' <=> Dangling(c))
    BY <1>4, <2>2, <2>3 DEF Waits, Dangling
  <2>5. SndAt(c) \in Sending => EpAt(c)' \notin Writing
    BY <2>1, <2>2, <2>3 DEF Agreed, Writing
  <2>6. Agreed(c)'
    BY <1>1, <1>4, <2>1, <2>2, <2>3, <2>4, <2>5 DEF Agreed, Releasing, Sending
  <2>7. Open(c)' => Got(c)'
    BY <1>1, <1>4, <2>1, <2>2, <2>3 DEF Got
  <2> QED  BY <2>6, <2>7
<1>10. Protocol' /\ Progress'
  BY <1>4, <1>8, <1>9, OneTouched
<1> QED  BY <1>4, <1>5, <1>6, <1>7, <1>10

LEMMA InvPost ==
  ASSUME NEW c \in Conns, ep.c = c, IInv, Post
  PROVE  IInv'
<1> USE DEF IInv
<1>1. /\ UNCHANGED <<conn, place, client, owner, unread, reg, wire, msg,
                     mMsgSendQueue, frees, snd>>
      /\ ep.pc = "post" /\ ep' = [ep EXCEPT !.pc = "free"] /\ sem' = sem + 1
  BY DEF Post, peers
<1>2. /\ ep' \in Epoll /\ ep'.pc = "free" /\ ep'.c = c /\ sem' \in Nat
      /\ ~ep.err /\ ep'.err = ep.err
  <2>1. /\ ep' \in Epoll /\ ep'.pc = "free" /\ ep'.c = c
        /\ ~ep.err /\ ep'.err = ep.err
    BY <1>1 DEF TypeOK, Epoll, EpollRight, Writing
  <2>2. sem' \in Nat
    BY <1>1 DEF TypeOK
  <2> QED  BY <2>1, <2>2
<1>3. /\ Links' /\ EpollRight' /\ SequenceRight'
      /\ \A b \in Conns : /\ (Served(b)' => Served(b)) /\ (Open(b)' <=> Open(b))
                          /\ SndAt(b)' = SndAt(b)
                          /\ b # c => EpAt(b) = "elsewhere"
                                      /\ EpAt(b)' = "elsewhere"
      /\ EpAt(c) = "post" /\ EpAt(c)' = "free"
  <2>1. "post" \notin {"idle"} \cup Closing /\ "free" \notin {"packet", "close"} \cup Closing
    BY DEF Closing
  <2> QED  BY <1>1, <1>2, <2>1, EpollStep
<1>4. TypeOK'
  BY <1>1, <1>2 DEF TypeOK
<1>5. InHand' /\ WireRight'
  BY <1>1, <1>3 DEF InHand, Open, WireRight
<1>6. Buffers' /\ NothingLost'
  <2>1. \A b \in Conns : /\ SndAt(b)' = "null" <=> SndAt(b) = "null"
                         /\ EpAt(b)' = "null" <=> EpAt(b) = "null"
    BY <1>3
  <2> QED  BY <1>1, <2>1, SameBuffers, SameKept
<1>7. \A b \in Conns \ {c} : Untouched(b)
  BY <1>1, <1>3 DEF Untouched
<1>8. ASSUME Served(c)
      PROVE  Agreed(c)' /\ (Open(c)' => Got(c)')
  <2>1. Agreed(c) /\ (Open(c) => Got(c))
    BY <1>8 DEF Protocol, Progress
  <2>2. Waits(c) /\ Waits(c)' /\ (Dangling(c)' <=> Dangling(c))
    BY <1>3 DEF Waits, Dangling
  <2>3. Agreed(c)'
    BY <1>1, <1>3, <2>1, <2>2 DEF Agreed, Writing, Releasing
  <2>4. Open(c)' => Got(c)'
    BY <1>1, <1>3, <2>1 DEF Got
  <2> QED  BY <2>3, <2>4
<1>9. Protocol' /\ Progress'
  BY <1>3, <1>7, <1>8, OneTouched
<1> QED  BY <1>3, <1>4, <1>5, <1>6, <1>9

LEMMA InvReleaseConn ==
  ASSUME NEW c \in Conns, ep.c = c, IInv, ReleaseConn
  PROVE  IInv'
<1> USE DEF IInv
<1>1. /\ UNCHANGED <<place, client, owner, unread, reg, wire, msg, mMsgSendQueue,
                     sem, frees, snd>>
      /\ ep.pc = "dec" /\ ep' = Idle
      /\ conn' = [conn EXCEPT ![c].iThrowSendCount = @ - 1]
  BY DEF ReleaseConn, peers, queue
<1>2. ep' \in Epoll /\ ep'.pc = "idle"
  <2>1. 1 \in Nat \ {0}
    OBVIOUS
  <2> QED  BY <1>1, <2>1, AtRest
<1>3. /\ conn' \in [Conns -> Connection]
      /\ \A b \in Conns : b # c => conn'[b] = conn[b]
      /\ conn'[c].iThrowSendCount = conn[c].iThrowSendCount - 1
      /\ \A b \in Conns : /\ conn'[b].fd = conn[b].fd
                          /\ conn'[b].iCurrSequence = conn[b].iCurrSequence
                          /\ conn'[b].out = conn[b].out
                          /\ conn'[b].pSendMemPoint = conn[b].pSendMemPoint
                          /\ conn'[b].pSendBuf = conn[b].pSendBuf
                          /\ conn'[b].iSendLen = conn[b].iSendLen
  BY <1>1, CountDown
<1>4. /\ Links' /\ EpollRight' /\ SequenceRight'
      /\ \A b \in Conns : /\ (Served(b)' => Served(b)) /\ (Open(b)' <=> Open(b))
                          /\ SndAt(b)' = SndAt(b)
                          /\ b # c => EpAt(b) = "elsewhere"
                                      /\ EpAt(b)' = "elsewhere"
      /\ EpAt(c) = "dec" /\ EpAt(c)' = "elsewhere"
  <2>1. /\ "dec" \notin {"idle"} \cup Closing
        /\ "idle" \notin {"packet", "close"} \cup Closing
        /\ "idle" \notin Writing
    BY DEF Closing, Writing
  <2> QED  BY <1>1, <1>2, <1>3, <2>1, EpollStep
<1>5. TypeOK'
  BY <1>1, <1>2, <1>3 DEF TypeOK
<1>6. InHand' /\ WireRight'
  <2>1. snd.pc \in Threading => msg[snd.m].pConn \in Conns
    BY SenderConn
  <2> QED  BY <1>1, <1>3, <1>4, <2>1 DEF InHand, WireRight, Threading, Sending
<1>7. Buffers' /\ NothingLost'
  <2>1. \A b \in Conns : /\ SndAt(b)' = "null" <=> SndAt(b) = "null"
                         /\ EpAt(b)' = "null" <=> EpAt(b) = "null"
    BY <1>4
  <2> QED  BY <1>1, <1>3, <2>1, SameBuffers, SameKept
<1>8. \A b \in Conns \ {c} : Untouched(b)
  BY <1>1, <1>3, <1>4 DEF Untouched
<1>9. ASSUME Served(c)'
      PROVE  Agreed(c)' /\ (Open(c)' => Got(c)')
  <2>1. Served(c) /\ Open(c)
    BY <1>1, <1>3, <1>4, <1>9, NoneAssumption DEF Served, Leads, Open
  <2>2. Agreed(c) /\ Got(c)
    BY <2>1 DEF Protocol, Progress
  <2>3. /\ conn[c].iThrowSendCount = 1 /\ conn'[c].iThrowSendCount = 0
        /\ ~conn[c].out /\ SndAt(c) \notin Sending /\ ~Waits(c)
        /\ conn[c].pSendMemPoint = None /\ Whole(wire[owner[conn[c].fd]])
    BY <1>3, <1>4, <2>1, <2>2 DEF Agreed, Got, Writing, Releasing, Waits
  <2>4. ~Waits(c)' /\ ~Dangling(c)'
    BY <1>3, <1>4, <2>3 DEF Waits, Dangling, Sending
  <2>5. Agreed(c)'
    BY <1>1, <1>3, <1>4, <2>3, <2>4 DEF Agreed, Sending, Releasing
  <2>6. Got(c)'
    BY <1>1, <1>3, <1>4, <2>3 DEF Got, Sending
  <2> QED  BY <2>5, <2>6
<1>10. Protocol' /\ Progress'
  BY <1>8, <1>9, OneTouched
<1> QED  BY <1>4, <1>5, <1>6, <1>7, <1>10

LEMMA InvDisarm ==
  ASSUME NEW c \in Conns, ep.c = c, IInv, Disarm
  PROVE  IInv'
<1> USE DEF IInv
<1>1. /\ UNCHANGED <<place, client, owner, unread, wire, msg, mMsgSendQueue, sem,
                     frees, snd>>
      /\ ep.pc = "disarm" /\ ep' = [ep EXCEPT !.pc = "post"]
      /\ NgxEpollOperEvent(c, FALSE)
  BY DEF Disarm, peers, queue
<1>2. /\ ep' \in Epoll /\ ep'.pc = "post" /\ ep'.c = c
      /\ ~ep.err /\ ep'.err = ep.err
  BY <1>1 DEF TypeOK, Epoll, EpollRight, Writing
<1>3. /\ conn[c].fd \in Fds /\ place[c] \in {"live", "recy"}
      /\ owner[conn[c].fd] # None => place[c] = "live"
  BY <1>1 DEF EpollRight
<1>4. \A b \in Conns : /\ SndAt(b)' = SndAt(b)
                       /\ EpAt(b) = IF b = c THEN "disarm" ELSE "elsewhere"
                       /\ EpAt(b)' = IF b = c THEN "post" ELSE "elsewhere"
  BY <1>1, <1>2 DEF SndAt, EpAt
<1>5. /\ conn' \in [Conns -> Connection]
      /\ reg' \in [Fds -> [ptr : Conns \cup {None}, out : BOOLEAN]]
      /\ \A b \in Conns : b # c => conn'[b] = conn[b]
      /\ conn'[c].out = FALSE
      /\ \A b \in Conns :
           /\ conn'[b].fd = conn[b].fd
           /\ conn'[b].iCurrSequence = conn[b].iCurrSequence
           /\ conn'[b].iThrowSendCount = conn[b].iThrowSendCount
           /\ conn'[b].pSendMemPoint = conn[b].pSendMemPoint
           /\ conn'[b].pSendBuf = conn[b].pSendBuf
           /\ conn'[b].iSendLen = conn[b].iSendLen
      /\ Links' /\ SequenceRight'
      /\ \A b \in Conns : (Served(b)' => Served(b)) /\ (Open(b)' => Open(b))
  <2>1. \A b \in Conns : /\ EpAt(b)' \in Closing <=> EpAt(b) \in Closing
                         /\ EpAt(b) = "elsewhere" \/ ep.err
                            => EpAt(b)' = "elsewhere" \/ ep'.err
    BY <1>2, <1>4 DEF Closing
  <2> QED  BY <1>1, <1>3, <2>1, OperEvent
<1>6. TypeOK'
  BY <1>1, <1>2, <1>5 DEF TypeOK
<1>7. WireRight' /\ InHand'
  <2>1. snd.pc \in Threading => msg[snd.m].pConn \in Conns
    BY SenderConn
  <2> QED  BY <1>1, <1>5, <2>1 DEF WireRight, InHand, Open, Threading, Sending
<1>8. Buffers' /\ NothingLost'
  <2>1. \A b \in Conns : /\ SndAt(b)' = "null" <=> SndAt(b) = "null"
                         /\ EpAt(b)' = "null" <=> EpAt(b) = "null"
    BY <1>4
  <2> QED  BY <1>1, <1>5, <2>1, SameBuffers, SameKept
<1>9. EpollRight'
  BY <1>1, <1>2, <1>5 DEF EpollRight, Writing, Closing
<1>10. \A b \in Conns \ {c} : Untouched(b)
  BY <1>1, <1>4, <1>5 DEF Untouched
<1>11. ASSUME Served(c)
       PROVE  Agreed(c)' /\ (Open(c)' => Got(c)')
  <2>1. Agreed(c) /\ (Open(c) => Got(c))
    BY <1>11 DEF Protocol, Progress
  <2>2. /\ conn[c].out /\ conn[c].iThrowSendCount = 1 /\ SndAt(c) \notin Sending
        /\ Waits(c)
    BY <1>4, <2>1 DEF Agreed, Waits
  <2>3. Waits(c)' /\ ~Dangling(c)'
    BY <1>4, <2>2 DEF Waits, Dangling, Sending
  <2>4. Agreed(c)'
    BY <1>1, <1>4, <1>5, <2>1, <2>2, <2>3 DEF Agreed, Sending, Releasing
  <2>5. ASSUME Open(c)  PROVE Got(c)'
    <3>1. Upto(conn[c].pSendBuf, MsgLen, wire[owner[conn[c].fd]])
      BY <1>4, <2>1, <2>5 DEF Got
    <3> QED  BY <1>1, <1>4, <1>5, <2>2, <3>1 DEF Got, Sending
  <2> QED  BY <1>5, <2>4, <2>5
<1>12. Protocol' /\ Progress'
  BY <1>5, <1>10, <1>11, OneTouched
<1> QED  BY <1>5, <1>6, <1>7, <1>8, <1>9, <1>12

\* The sender does nothing with a served connection for which the epoll thread
\* sends.
LEMMA WritingAlone ==
  ASSUME IInv, NEW c \in Conns, ep.c = c, ep.pc \in Writing
  PROVE  /\ EpAt(c) = ep.pc
         /\ Open(c) => Served(c)
         /\ Served(c) => /\ Agreed(c) /\ SndAt(c) \notin Sending
                         /\ msg[snd.m].pConn = c => snd.pc \notin Sending
<1>1. EpAt(c) = ep.pc
  BY DEF EpAt, Writing
<1>2. Open(c) => Served(c)
  BY EpollConn DEF IInv, Writing
<1>3. Served(c) => Agreed(c) /\ SndAt(c) \notin Sending
  BY <1>1 DEF IInv, Protocol, Agreed
<1> QED  BY <1>1, <1>2, <1>3 DEF SndAt

LEMMA InvWriteFree ==
  ASSUME NEW c \in Conns, ep.c = c, IInv, WriteFree
  PROVE  IInv'
<1> USE DEF IInv
<1>1. /\ UNCHANGED <<conn, place, client, owner, unread, reg, wire, msg,
                     mMsgSendQueue, sem, snd>>
      /\ ep.pc = "free" /\ ep' = [ep EXCEPT !.pc = "null"]
      /\ Free({conn[c].pSendMemPoint})
  BY DEF WriteFree, peers, queue
<1>2. /\ ep' \in Epoll /\ ep'.pc = "null" /\ ep'.c = c
      /\ ~ep.err /\ ep'.err = ep.err
  BY <1>1 DEF TypeOK, Epoll, EpollRight, Writing
<1>3. /\ Links' /\ EpollRight' /\ SequenceRight'
      /\ \A b \in Conns : /\ (Served(b)' => Served(b)) /\ (Open(b)' <=> Open(b))
                          /\ SndAt(b)' = SndAt(b)
                          /\ b # c => EpAt(b) = "elsewhere"
                                      /\ EpAt(b)' = "elsewhere"
      /\ EpAt(c) = "free" /\ EpAt(c)' = "null"
  <2>1. "free" \notin {"idle"} \cup Closing /\ "null" \notin {"packet", "close"} \cup Closing
    BY DEF Closing
  <2> QED  BY <1>1, <1>2, <2>1, EpollStep
<1>4. /\ Open(c) => Served(c)
      /\ Served(c) => Agreed(c) /\ SndAt(c) \notin Sending
  BY <1>1, WritingAlone DEF Writing
<1>5. ASSUME Served(c)
      PROVE  /\ conn[c].iThrowSendCount = 1 /\ Waits(c)
             /\ conn[c].pSendBuf = conn[c].pSendMemPoint
             /\ Open(c) => /\ ~conn[c].out
                           /\ Whole(wire[owner[conn[c].fd]])
                           /\ <<conn[c].pSendMemPoint, MsgLen>>
                                \in Elems(wire[owner[conn[c].fd]])
  <2>1. /\ conn[c].iThrowSendCount = 1 /\ Waits(c)
        /\ conn[c].pSendBuf = conn[c].pSendMemPoint
        /\ Open(c) => ~conn[c].out
    BY <1>3, <1>4, <1>5 DEF Agreed, Releasing, Waits
  <2>2. ASSUME Open(c)
        PROVE  /\ Whole(wire[owner[conn[c].fd]])
               /\ <<conn[c].pSendMemPoint, MsgLen>>
                    \in Elems(wire[owner[conn[c].fd]])
    <3>1. Upto(conn[c].pSendMemPoint, MsgLen, wire[owner[conn[c].fd]])
      BY <1>3, <1>5, <2>1, <2>2 DEF Progress, Got
    <3>2. owner[conn[c].fd] \in Clients
      BY <1>5, LeadsClient DEF Served
    <3> QED  BY <3>1, <3>2, SentWhole
  <2> QED  BY <2>1, <2>2
<1>6. /\ frees' \in [Msgs -> Nat] /\ Buffers' /\ NothingLost'
      /\ \A n \in Msgs : frees[n] # 0 => frees'[n] # 0
      /\ conn[c].pSendMemPoint # None => frees'[conn[c].pSendMemPoint] # 0
  <2> SUFFICES ASSUME NEW q, q = conn[c].pSendMemPoint
               PROVE  /\ frees' \in [Msgs -> Nat] /\ Buffers' /\ NothingLost'
                      /\ \A n \in Msgs : frees[n] # 0 => frees'[n] # 0
                      /\ q # None => frees'[q] # 0
    OBVIOUS
  <2>1. Dangling(c)' /\ \A b \in Conns \ {c} : Dangling(b) => Dangling(b)'
    BY <1>3 DEF Dangling
  <2>2. ASSUME q # None, frees[q] # 0  PROVE client[msg[q].from] = "closed"
    <3>1. q \in Msgs /\ msg[q].pConn = c /\ msg[q].at = "queued" /\ Dangling(c)
      BY <2>2, Replies DEF Buffers
    <3>2. SndAt(c) \in Sending /\ EpAt(c) \in Writing
      BY <1>3, <3>1 DEF Dangling, Sending, Writing
    <3>3. ~Served(c)
      BY <1>4, <3>2
    <3> QED  BY <3>1, <3>2, <3>3, OldReply
  <2>3. Served(c) /\ Open(c) /\ q # None =>
          <<q, MsgLen>> \in Elems(wire[owner[conn[c].fd]])
    BY <1>5
  <2> QED  BY <1>1, <2>1, <2>2, <2>3, FreeCurrent
<1>7. TypeOK'
  BY <1>1, <1>2, <1>6 DEF TypeOK
<1>8. InHand' /\ WireRight'
  BY <1>1, <1>3 DEF InHand, Open, WireRight
<1>9. \A b \in Conns \ {c} : Untouched(b)
  BY <1>1, <1>3, <1>6 DEF Untouched
<1>10. ASSUME Served(c)
       PROVE  Agreed(c)' /\ (Open(c)' => Got(c)')
  <2>1. ~Waits(c)'
    BY <1>3 DEF Waits
  <2>2. Agreed(c)'
    BY <1>1, <1>3, <1>4, <1>5, <1>6, <1>10, <2>1 DEF Agreed, Releasing
  <2>3. Open(c) => Got(c)'
    BY <1>1, <1>3, <1>4, <1>5, <1>10 DEF Got, Sending
  <2> QED  BY <1>3, <2>2, <2>3
<1>11. Protocol' /\ Progress'
  BY <1>3, <1>9, <1>10, OneTouched
<1> QED  BY <1>3, <1>6, <1>7, <1>8, <1>11

LEMMA InvWriteNull ==
  ASSUME NEW c \in Conns, ep.c = c, IInv, WriteNull
  PROVE  IInv'
<1> USE DEF IInv
<1>1. /\ UNCHANGED <<place, client, owner, unread, reg, wire, msg, mMsgSendQueue,
                     sem, frees, snd>>
      /\ ep.pc = "null" /\ ep' = [ep EXCEPT !.pc = "dec"]
      /\ conn' = [conn EXCEPT ![c].pSendMemPoint = None]
  BY DEF WriteNull, peers, queue
<1>2. /\ ep' \in Epoll /\ ep'.pc = "dec" /\ ep'.c = c
      /\ ~ep.err /\ ep'.err = ep.err
  BY <1>1 DEF TypeOK, Epoll, EpollRight, Writing
<1>3. /\ conn' \in [Conns -> Connection]
      /\ \A b \in Conns : b # c => conn'[b] = conn[b]
      /\ conn'[c].pSendMemPoint = None
      /\ conn'[c].fd = conn[c].fd /\ conn'[c].out = conn[c].out
      /\ conn'[c].iCurrSequence = conn[c].iCurrSequence
      /\ conn'[c].iThrowSendCount = conn[c].iThrowSendCount
      /\ conn'[c].pSendBuf = conn[c].pSendBuf
      /\ conn'[c].iSendLen = conn[c].iSendLen
  BY <1>1, PointCleared DEF Rest
<1>4. /\ Links' /\ EpollRight' /\ SequenceRight'
      /\ \A b \in Conns : /\ (Served(b)' => Served(b)) /\ (Open(b)' <=> Open(b))
                          /\ SndAt(b)' = SndAt(b)
                          /\ b # c => EpAt(b) = "elsewhere"
                                      /\ EpAt(b)' = "elsewhere"
      /\ EpAt(c) = "null" /\ EpAt(c)' = "dec"
  <2>1. "null" \notin {"idle"} \cup Closing /\ "dec" \notin {"packet", "close"} \cup Closing
    BY DEF Closing
  <2> QED  BY <1>1, <1>2, <1>3, <2>1, EpollStep
<1>5. /\ Open(c) => Served(c)
      /\ Served(c) => /\ Agreed(c) /\ SndAt(c) \notin Sending
                      /\ msg[snd.m].pConn = c => snd.pc \notin Sending
  BY <1>1, WritingAlone DEF Writing
<1>6. TypeOK'
  BY <1>1, <1>2, <1>3 DEF TypeOK
<1>7. Buffers' /\ NothingLost'
  <2>1. \A b \in Conns \ {c} : Dangling(b) => Dangling(b)'
    BY <1>4 DEF Dangling
  <2>2. \A b \in Conns : conn'[b].pSendMemPoint
                           = IF b = c THEN None ELSE conn[b].pSendMemPoint
    BY <1>3
  <2>3. Served(c) /\ conn[c].pSendMemPoint # None =>
          frees[conn[c].pSendMemPoint] # 0
    BY <1>4, <1>5 DEF Agreed, Dangling
  <2> QED  BY <1>1, <2>1, <2>2, <2>3, ClearCurrent
<1>8. InHand' /\ WireRight'
  <2>1. snd.pc \in {"send", "sent"} /\ Open(c) => msg[snd.m].pConn # c
    BY <1>5 DEF Sending
  <2>2. snd.pc \in Threading => msg[snd.m].pConn \in Conns
    BY SenderConn
  <2>3. InHand'
    BY <1>1, <1>3, <1>4, <2>1, <2>2 DEF InHand, Threading, Sending
  <2> QED  BY <1>1, <2>3 DEF WireRight
<1>9. \A b \in Conns \ {c} : Untouched(b)
  BY <1>1, <1>3, <1>4 DEF Untouched
<1>10. ASSUME Served(c)
       PROVE  Agreed(c)' /\ (Open(c)' => Got(c)')
  <2>1. ~Waits(c)' /\ ~Dangling(c)'
    BY <1>4, <1>5, <1>10 DEF Waits, Dangling, Sending
  <2>2. Agreed(c)'
    BY <1>1, <1>3, <1>4, <1>5, <1>10, <2>1 DEF Agreed, Releasing
  <2>3. ASSUME Open(c)  PROVE Got(c)'
    <3>1. Whole(wire[owner[conn[c].fd]]) /\ ~conn[c].out
      BY <1>4, <1>5, <1>10, <2>3 DEF Progress, Got, Agreed, Releasing
    <3> QED  BY <1>1, <1>3, <1>4, <1>5, <1>10, <3>1 DEF Got, Sending
  <2> QED  BY <1>4, <2>2, <2>3
<1>11. Protocol' /\ Progress'
  BY <1>4, <1>7, <1>9, <1>10, OneTouched
<1> QED  BY <1>4, <1>6, <1>7, <1>8, <1>11


\* The connection the epoll thread is about to send on.
LEMMA WriteConn ==
  ASSUME IInv, NEW c \in Conns, ep.c = c, ep.pc = "write"
  PROVE  /\ EpAt(c) = "write"
         /\ Open(c) => Served(c)
         /\ Served(c) =>
              /\ conn[c].out /\ SndAt(c) \notin Sending
              /\ msg[snd.m].pConn = c => snd.pc \notin Sending
              /\ conn[c].iThrowSendCount = 1 /\ conn[c].pSendMemPoint \in Msgs
              /\ conn[c].pSendBuf = conn[c].pSendMemPoint
              /\ msg[conn[c].pSendMemPoint].from = owner[conn[c].fd]
              /\ owner[conn[c].fd] \in Clients
         /\ Open(c) => /\ conn[c].iSendLen # 0
                       /\ Upto(conn[c].pSendBuf, MsgLen - conn[c].iSendLen,
                               wire[owner[conn[c].fd]])
<1>1. /\ EpAt(c) = "write"
      /\ Open(c) => Served(c)
      /\ Served(c) => /\ Agreed(c) /\ SndAt(c) \notin Sending
                      /\ msg[snd.m].pConn = c => snd.pc \notin Sending
  BY WritingAlone DEF Writing
<1>2. Served(c) => owner[conn[c].fd] \in Clients
  BY LeadsClient DEF IInv, Served
<1>3. Served(c) /\ Open(c) => Got(c)
  BY DEF IInv, Progress
<1>4. Served(c) => conn[c].out /\ Waits(c)
  BY <1>1 DEF Agreed, Waits
<1> QED  BY <1>1, <1>2, <1>3, <1>4 DEF Agreed, Got

LEMMA InvWriteMore ==
  ASSUME NEW c \in Conns, ep.c = c, IInv, WriteMore
  PROVE  IInv'
<1> USE DEF IInv
<1> DEFINE k == owner[conn[c].fd]
           q == conn[c].pSendBuf
           len(n) == conn[c].iSendLen - n
           r(n) == [conn[c] EXCEPT !.iSendLen = len(n)]
<1>1. PICK n \in -2..MsgLen :
        /\ SendProc(c, n)
        /\ ep' = CASE n = -2 -> [ep EXCEPT !.pc = "post"]
                   [] n = conn[c].iSendLen -> [ep EXCEPT !.pc = "disarm"]
                   [] OTHER -> Idle
        /\ conn' = IF n > 0 /\ n < conn[c].iSendLen
                   THEN [conn EXCEPT ![c].iSendLen = len(n)] ELSE conn
  BY DEF WriteMore, TypeOK
<1>2. /\ UNCHANGED <<place, client, owner, unread, reg, msg, mMsgSendQueue, sem,
                     frees, snd>>
      /\ ep.pc = "write" /\ ~ep.err
  BY DEF WriteMore, peers, queue, EpollRight, Writing
<1>3. conn[c] \in Connection /\ conn[c].iSendLen \in 0..MsgLen
  <2>1. conn[c] \in Connection
    BY DEF TypeOK
  <2> QED  BY <2>1 DEF Connection
<1>4. /\ ep' \in Epoll /\ ep'.pc \in {"post", "disarm", "idle"}
      /\ ep'.pc = "idle" \/ (ep'.c = c /\ ep'.err = ep.err)
      /\ n = -2 => ep'.pc = "post"
      /\ n # -2 /\ n = conn[c].iSendLen => ep'.pc = "disarm"
      /\ n # -2 /\ n # conn[c].iSendLen => ep'.pc = "idle"
  <2>1. \A p \in {"post", "disarm"} :
          LET e == [ep EXCEPT !.pc = p]
          IN  e \in Epoll /\ e.pc = p /\ e.c = c /\ e.err = ep.err
    BY DEF TypeOK, Epoll
  <2>2. Idle \in Epoll /\ Idle.pc = "idle"
    <3>1. 1 \in Nat \ {0}
      OBVIOUS
    <3> QED  BY <3>1, AtRest
  <2>3. CASE n = -2
    <3>1. ep' = [ep EXCEPT !.pc = "post"]
      BY <1>1, <1>3, <2>3, MsgLenAssumption
    <3> QED  BY <2>1, <2>3, <3>1
  <2>4. CASE n # -2 /\ n = conn[c].iSendLen
    <3>1. ep' = [ep EXCEPT !.pc = "disarm"]
      BY <1>1, <2>4
    <3> QED  BY <2>1, <2>4, <3>1
  <2>5. CASE n # -2 /\ n # conn[c].iSendLen
    <3>1. ep' = Idle
      BY <1>1, <2>5
    <3> QED  BY <2>2, <2>5, <3>1
  <2> QED  BY <2>3, <2>4, <2>5
<1>5. n > 0 /\ n < conn[c].iSendLen => len(n) \in 1..MsgLen
  BY <1>3, MsgLenAssumption
<1>6. /\ conn' \in [Conns -> Connection]
      /\ \A b \in Conns : b # c => conn'[b] = conn[b]
      /\ \A b \in Conns :
           /\ conn'[b].fd = conn[b].fd
           /\ conn'[b].iCurrSequence = conn[b].iCurrSequence
           /\ conn'[b].iThrowSendCount = conn[b].iThrowSendCount
           /\ conn'[b].out = conn[b].out
           /\ conn'[b].pSendMemPoint = conn[b].pSendMemPoint
           /\ conn'[b].pSendBuf = conn[b].pSendBuf
      /\ conn'[c].iSendLen = IF n > 0 /\ n < conn[c].iSendLen
                             THEN len(n) ELSE conn[c].iSendLen
  <2>1. CASE n > 0 /\ n < conn[c].iSendLen
    <3>1. conn' = [conn EXCEPT ![c] = r(n)]
      BY <1>1, <2>1 DEF TypeOK
    <3> HIDE DEF len
    <3>2. /\ r(n) \in Connection /\ r(n).iSendLen = len(n) /\ Rest(r(n), conn[c])
          /\ r(n).pSendMemPoint = conn[c].pSendMemPoint
          /\ r(n).pSendBuf = conn[c].pSendBuf
      BY <1>3, <1>5, <2>1 DEF Connection, Rest
    <3> HIDE DEF r
    <3>3. /\ conn' \in [Conns -> Connection] /\ conn'[c] = r(n)
          /\ \A b \in Conns : b # c => conn'[b] = conn[b]
      BY <3>1, <3>2 DEF TypeOK
    <3> QED  BY <2>1, <3>2, <3>3 DEF Rest
  <2>2. CASE ~(n > 0 /\ n < conn[c].iSendLen)
    BY <1>1, <2>2 DEF TypeOK
  <2> QED  BY <2>1, <2>2
<1>7. /\ Links' /\ EpollRight' /\ SequenceRight'
      /\ \A b \in Conns : /\ (Served(b)' => Served(b)) /\ (Open(b)' <=> Open(b))
                          /\ SndAt(b)' = SndAt(b)
                          /\ b # c => EpAt(b) = "elsewhere"
                                      /\ EpAt(b)' = "elsewhere"
      /\ EpAt(c) = "write"
      /\ EpAt(c)' = IF ep'.pc = "idle" THEN "elsewhere" ELSE ep'.pc
  <2>1. /\ "write" \notin {"idle"} \cup Closing
        /\ ep'.pc \notin {"packet", "close"} \cup Closing
    BY <1>4 DEF Closing
  <2> QED  BY <1>2, <1>4, <1>6, <2>1, EpollStep
<1>8. /\ Open(c) => Served(c)
      /\ Served(c) =>
           /\ conn[c].out /\ SndAt(c) \notin Sending
           /\ msg[snd.m].pConn = c => snd.pc \notin Sending
           /\ conn[c].iThrowSendCount = 1 /\ conn[c].pSendMemPoint = q
           /\ q \in Msgs /\ msg[q].from = k /\ k \in Clients
      /\ Open(c) => /\ conn[c].iSendLen # 0
                    /\ Upto(q, MsgLen - conn[c].iSendLen, wire[k])
  BY <1>2, WriteConn
<1>9. /\ wire' \in [Clients -> Seq(Msgs \X (1..MsgLen))]
      /\ n > 0 => n <= conn[c].iSendLen
      /\ WireGrows(c, n)
  <2>1. Open(c) => conn[c].pSendBuf \in Msgs
    BY <1>8
  <2> QED  BY <1>1, <2>1, SendProcSends, SendProcKeeps
<1>10. (~Open(c) => n = -2) /\ (Open(c) => n # -2)
  BY <1>9 DEF WireGrows
<1>11. TypeOK'
  BY <1>2, <1>4, <1>6, <1>9 DEF TypeOK
<1>12. Buffers' /\ NothingLost'
  <2>1. \A b \in Conns : /\ SndAt(b)' = "null" <=> SndAt(b) = "null"
                         /\ EpAt(b)' = "null" <=> EpAt(b) = "null"
    BY <1>4, <1>7
  <2>2. \A j \in Clients : Elems(wire[j]) \subseteq Elems(wire'[j])
    BY <1>9 DEF WireGrows
  <2>3. Buffers'
    BY <1>2, <1>6, <2>1, SameBuffers
  <2>4. NothingLost'
    BY <1>2, <1>6, <2>2, SameKept
  <2> QED  BY <2>3, <2>4
<1>13. InHand'
  <2>1. snd.pc \in {"send", "sent"} /\ msg[snd.m].pConn = c => conn' = conn
    <3>1. ~(n > 0) \/ Open(c)
      BY <1>10
    <3>2. Open(c) /\ msg[snd.m].pConn = c => snd.pc \notin {"send", "sent"}
      BY <1>8 DEF Sending
    <3> QED  BY <1>1, <3>1, <3>2
  <2>2. snd.pc \in Threading => msg[snd.m].pConn \in Conns
    BY SenderConn
  <2>3. snd.pc \in {"send", "sent"} =>
          conn'[msg[snd.m].pConn].iSendLen = conn[msg[snd.m].pConn].iSendLen
    BY <1>6, <2>1, <2>2 DEF Threading, Sending
  <2>4. snd.pc = "send" => wire' = wire \/ \A j \in Clients : Fresh(snd.m, wire'[j])
    <3> SUFFICES ASSUME snd.pc = "send", NEW j \in Clients
                 PROVE  Fresh(snd.m, wire'[j])
      OBVIOUS
    <3>1. Fresh(snd.m, wire[j]) /\ conn[msg[snd.m].pConn].pSendBuf = snd.m
      BY DEF InHand
    <3>2. ASSUME Open(c)  PROVE q # snd.m
      <4>1. /\ q # None /\ q \in Msgs /\ conn[c].pSendMemPoint = q
            /\ msg[snd.m].pConn # c
        BY <1>8, <2>2, <3>1, <3>2, NoneAssumption DEF Sending
      <4>2. msg[q].pConn = c
        BY <4>1 DEF Buffers
      <4> QED  BY <4>1, <4>2
    <3> QED  BY <1>9, <3>1, <3>2 DEF WireGrows, Fresh
  <2> QED  BY <1>2, <1>6, <1>7, <2>2, <2>3, <2>4 DEF InHand, Threading, Sending
<1>14. \A b \in Conns \ {c} : Untouched(b)
  <2>1. ASSUME NEW b \in Conns \ {c}, Served(b)
        PROVE  wire'[owner[conn[b].fd]] = wire[owner[conn[b].fd]]
    <3>1. owner[conn[b].fd] \in Clients /\ Leads(b)
      BY <2>1, LeadsClient DEF Served
    <3>2. Open(c) => owner[conn[b].fd] # k
      BY <1>8, <2>1, <3>1, LeadsApart DEF Served
    <3> QED  BY <1>9, <3>1, <3>2 DEF WireGrows
  <2> QED  BY <1>2, <1>6, <1>7, <2>1 DEF Untouched
<1>15. ASSUME Served(c)
       PROVE  Agreed(c)' /\ (Open(c)' => Got(c)')
  <2>1. Agreed(c)
    BY <1>15 DEF Protocol
  <2>2. Waits(c)' /\ ~Dangling(c)'
    BY <1>4, <1>6, <1>7, <1>8, <1>15 DEF Waits, Dangling, Sending
  <2>3. EpAt(c)' \in Releasing => ~Open(c)
    BY <1>4, <1>7, <1>10 DEF Releasing
  <2>4. Agreed(c)'
    BY <1>2, <1>4, <1>6, <1>7, <1>8, <1>15, <2>1, <2>2, <2>3 DEF Agreed, Sending
  <2>5. ASSUME Open(c), n = conn[c].iSendLen  PROVE Got(c)'
    <3>1. n > 0 /\ MsgLen - conn[c].iSendLen + n = MsgLen
      BY <1>3, <1>8, <2>5, MsgLenAssumption
    <3>2. Upto(q, MsgLen, wire'[k])
      BY <1>9, <2>5, <3>1 DEF WireGrows
    <3>3. EpAt(c)' = "disarm"
      BY <1>4, <1>7, <1>10, <2>5
    <3> QED  BY <1>2, <1>6, <1>7, <1>8, <1>15, <3>2, <3>3 DEF Got, Sending
  <2>6. ASSUME Open(c), n # conn[c].iSendLen, n > 0  PROVE Got(c)'
    <3>1. n < conn[c].iSendLen
      BY <1>3, <1>9, <2>6
    <3>2. /\ conn'[c].iSendLen = len(n) /\ len(n) # 0
          /\ MsgLen - conn[c].iSendLen + n = MsgLen - len(n)
      BY <1>3, <1>5, <1>6, <2>6, <3>1, MsgLenAssumption
    <3>3. Upto(q, MsgLen - len(n), wire'[k])
      BY <1>9, <2>6, <3>2 DEF WireGrows
    <3>4. EpAt(c)' = "elsewhere"
      BY <1>4, <1>7, <1>10, <2>6
    <3> HIDE DEF len
    <3> QED  BY <1>2, <1>6, <1>7, <1>8, <1>15, <3>2, <3>3, <3>4 DEF Got, Sending
  <2>7. ASSUME Open(c), n # conn[c].iSendLen, ~(n > 0)  PROVE Got(c)'
    <3>1. wire'[k] = wire[k] /\ conn'[c].iSendLen = conn[c].iSendLen
      BY <1>6, <1>9, <2>7 DEF WireGrows
    <3>2. EpAt(c)' = "elsewhere"
      BY <1>4, <1>7, <1>10, <2>7
    <3> QED  BY <1>2, <1>6, <1>7, <1>8, <1>15, <2>7, <3>1, <3>2 DEF Got, Sending
  <2> QED  BY <1>7, <2>4, <2>5, <2>6, <2>7
<1>16. Protocol' /\ Progress'
  BY <1>7, <1>14, <1>15, OneTouched
<1>17. WireRight'
  <2> SUFFICES ASSUME NEW j \in Clients, NEW i \in 1..Len(wire'[j])
               PROVE  LET u == wire'[j][i][1] IN
                      /\ msg[u].at = "queued" /\ msg[u].from = j
                      /\ u \notin Elems(mMsgSendQueue)
    BY <1>2 DEF WireRight
  <2>1. CASE i \in 1..Len(wire[j]) /\ wire'[j][i] = wire[j][i]
    BY <2>1 DEF WireRight
  <2>2. CASE Open(c) /\ j = k /\ wire'[j][i][1] = q
    BY <1>8, <2>2, NoneAssumption DEF Buffers
  <2> QED  BY <1>9, <2>1, <2>2 DEF WireGrows
<1> QED  BY <1>7, <1>11, <1>12, <1>13, <1>16, <1>17

-----------------------------------------------------------------------------
(* The recycling thread, the clients, and new events.                      *)

LEMMA InvPutOneToFree ==
  ASSUME NEW c \in Conns, IInv, PutOneToFree(c)
  PROVE  IInv'
<1> USE DEF IInv
<1> DEFINE seq == conn[c].iCurrSequence + 1
           r1 == [conn[c] EXCEPT !.iCurrSequence = seq]
           r2 == [r1 EXCEPT !.pSendMemPoint = None]
           r == [r2 EXCEPT !.iThrowSendCount = 0]
<1>1. /\ UNCHANGED <<client, owner, unread, reg, wire, msg, mMsgSendQueue, sem,
                     snd, ep>>
      /\ place[c] = "recy" /\ ~Busy(c)
      /\ place' = [place EXCEPT ![c] = "free"]
      /\ Free({conn[c].pSendMemPoint})
      /\ conn' = [conn EXCEPT ![c].iCurrSequence = seq, ![c].pSendMemPoint = None,
                              ![c].iThrowSendCount = 0]
  BY DEF PutOneToFree, peers, queue, TypeOK
<1>2. conn[c] \in Connection /\ conn[c].iCurrSequence \in Nat /\ seq \in Nat
  <2>1. conn[c] \in Connection
    BY DEF TypeOK
  <2> QED  BY <2>1 DEF Connection
<1> HIDE DEF seq
<1>3. conn' = [conn EXCEPT ![c] = r]
  BY <1>1 DEF TypeOK
<1>4. r1 \in Connection /\ r1.iCurrSequence = seq /\ r1.fd = conn[c].fd
      /\ r1.out = conn[c].out
  BY <1>2 DEF Connection
<1> HIDE DEF r1
<1>5. r2 \in Connection /\ r2.iCurrSequence = seq /\ r2.fd = conn[c].fd
      /\ r2.out = conn[c].out /\ r2.pSendMemPoint = None
  BY <1>4 DEF Connection
<1> HIDE DEF r2
<1>6. r \in Connection /\ r.iCurrSequence = seq /\ r.fd = conn[c].fd
      /\ r.out = conn[c].out /\ r.pSendMemPoint = None
  BY <1>5 DEF Connection
<1> HIDE DEF r
<1>7. /\ conn' \in [Conns -> Connection] /\ conn'[c] = r
      /\ \A b \in Conns : b # c => conn'[b] = conn[b]
  BY <1>3, <1>6 DEF TypeOK
<1>8. /\ place' \in [Conns -> {"free", "live", "recy"}] /\ place'[c] = "free"
      /\ \A b \in Conns : b # c => place'[b] = place[b]
  BY <1>1 DEF TypeOK
<1>9. /\ conn'[c].iCurrSequence = conn[c].iCurrSequence + 1
      /\ conn'[c].pSendMemPoint = None
      /\ \A b \in Conns : conn'[b].fd = conn[b].fd /\ conn'[b].out = conn[b].out
  BY <1>6, <1>7 DEF seq
<1>10. /\ snd.pc \in Threading => msg[snd.m].pConn \in Conns \ {c}
       /\ ep.pc # "idle" => ep.c \in Conns \ {c}
  BY <1>1, SenderConn, EpollConn DEF Busy, Threading, Sending
<1>11. /\ \A b \in Conns : SndAt(b)' = SndAt(b) /\ EpAt(b)' = EpAt(b)
       /\ SndAt(c) = "elsewhere" /\ EpAt(c) = "elsewhere"
  BY <1>1, <1>10 DEF SndAt, EpAt, Threading
<1>12. \A n \in Msgs : msg[n].at # "none" /\ client[msg[n].from] = "up"
         => msg[n].pConn \in Conns \ {c}
  BY <1>1, ClientThere DEF Served, Leads
<1>13. frees' \in [Msgs -> Nat] /\ Buffers' /\ NothingLost'
  <2> SUFFICES ASSUME NEW q, q = conn[c].pSendMemPoint
               PROVE  frees' \in [Msgs -> Nat] /\ Buffers' /\ NothingLost'
    OBVIOUS
  <2>1. /\ frees' \in [Msgs -> Nat]
        /\ \A n \in Msgs : frees'[n] = IF n = q THEN frees[n] + 1 ELSE frees[n]
    BY <1>1, Freed
  <2>2. q # None => /\ q \in Msgs /\ msg[q].at = "queued" /\ msg[q].pConn = c
                    /\ q \notin Elems(mMsgSendQueue) /\ frees[q] = 0
    BY <1>11, Replies DEF Buffers, Dangling
  <2>3. ASSUME NEW n \in Msgs
        PROVE  /\ n \in Elems(mMsgSendQueue) => frees'[n] = 0 /\ msg[n].at = "queued"
               /\ frees'[n] # 0 => msg[n].at = "queued"
               /\ frees'[n] > 1 => client[msg[n].from] = "closed"
    <3>1. n # None
      BY NoneAssumption
    <3>2. CASE n = q
      BY <2>1, <2>2, <3>1, <3>2
    <3>3. CASE n # q
      BY <2>1, <3>3 DEF Buffers
    <3> QED  BY <3>2, <3>3
  <2>4. ASSUME NEW b \in Conns, NEW n, n = conn'[b].pSendMemPoint, n # None
        PROVE  /\ msg[n].at = "queued" /\ msg[n].pConn = b
               /\ n \notin Elems(mMsgSendQueue)
               /\ frees'[n] = 0 \/ Dangling(b)'
    <3>1. b # c /\ n = conn[b].pSendMemPoint /\ n \in Msgs
      BY <1>7, <1>9, <2>4, Replies
    <3>2. n # q
      BY <2>2, <2>4, <3>1 DEF Buffers
    <3> QED  BY <1>11, <2>1, <2>4, <3>1, <3>2 DEF Buffers, Dangling
  <2>5. Buffers'
    <3>1. NoRepeats(mMsgSendQueue)
      BY DEF Buffers
    <3>2. \A b \in Conns : LET n == conn'[b].pSendMemPoint IN
            n # None => /\ msg[n].at = "queued" /\ msg[n].pConn = b
                        /\ n \notin Elems(mMsgSendQueue)
                        /\ frees'[n] = 0 \/ Dangling(b)'
      BY <2>4
    <3> QED  BY <1>1, <2>3, <3>1, <3>2 DEF Buffers
  <2>6. NothingLost'
    <3> SUFFICES ASSUME NEW n \in Msgs, msg[n].at = "queued",
                        client[msg[n].from] = "up"
                 PROVE  \/ n \in Elems(mMsgSendQueue)
                        \/ frees'[n] = 0 /\ conn'[msg[n].pConn].pSendMemPoint = n
                        \/ <<n, MsgLen>> \in Elems(wire[msg[n].from])
      BY <1>1 DEF NothingLost
    <3>1. msg[n].pConn \in Conns \ {c} /\ n # None
      BY <1>12, NoneAssumption
    <3> QED  BY <1>7, <2>1, <2>2, <3>1 DEF NothingLost
  <2> QED  BY <2>1, <2>5, <2>6
<1>14. TypeOK'
  BY <1>1, <1>7, <1>8, <1>13 DEF TypeOK
<1>15. InHand' /\ EpollRight'
  <2>1. InHand'
    <3>1. \A b \in Conns \ {c} :
            /\ conn'[b] = conn[b] /\ place'[b] = place[b]
            /\ (Open(b)' <=> Open(b))
      BY <1>1, <1>7, <1>8 DEF Open
    <3>2. snd.pc \in {"throw", "send", "sent"} => snd.pc \in Threading
      BY DEF Threading, Sending
    <3>3. snd.pc \in Threading => \E b \in Conns \ {c} : msg[snd.m].pConn = b
      BY <1>10
    <3>4. CASE snd.pc \notin Threading
      BY <1>1, <3>2, <3>4 DEF InHand
    <3>5. CASE snd.pc \in Threading
      <4>1. PICK b \in Conns \ {c} : msg[snd.m].pConn = b
        BY <3>3, <3>5
      <4> QED  BY <1>1, <3>1, <4>1 DEF InHand
    <3> QED  BY <3>4, <3>5
  <2>2. EpollRight'
    BY <1>1, <1>7, <1>8, <1>10 DEF EpollRight
  <2> QED  BY <2>1, <2>2
<1>16. Links'
  <2>1. \A g \in Fds : owner[g] # None => reg[g].ptr \in Conns \ {c}
    BY <1>1 DEF Links
  <2> QED  BY <1>1, <1>7, <1>8, <1>9, <1>11, <2>1 DEF Links
<1>17. SequenceRight'
  <2> SUFFICES ASSUME NEW n \in Msgs, msg[n].at # "none"
               PROVE  LET d == msg[n].pConn IN
                      /\ msg[n].iCurrsequence <= conn'[d].iCurrSequence
                      /\ msg[n].iCurrsequence = conn'[d].iCurrSequence =>
                           /\ place'[d] = "live"
                           /\ owner[conn'[d].fd] \in {None, msg[n].from}
                      /\ client[msg[n].from] # "closed" =>
                           /\ msg[n].iCurrsequence = conn'[d].iCurrSequence
                           /\ owner[conn'[d].fd] = msg[n].from
    BY <1>1 DEF SequenceRight
  <2>1. msg[n].iCurrsequence \in Nat /\ msg[n].pConn \in Conns
    BY DEF TypeOK, Message, SequenceRight
  <2>2. CASE msg[n].pConn = c
    BY <2>1, <2>2, <1>1, <1>2, <1>9 DEF SequenceRight
  <2>3. CASE msg[n].pConn # c
    BY <2>1, <2>3, <1>7, <1>8 DEF SequenceRight
  <2> QED  BY <2>2, <2>3
<1>18. Protocol' /\ Progress'
  <2> SUFFICES ASSUME NEW b \in Conns, Served(b)'  PROVE Untouched(b)
    BY ServedUntouched
  <2>1. b # c
    BY <1>8 DEF Served, Leads
  <2>2. conn'[b] = conn[b] /\ place'[b] = place[b]
    BY <1>7, <1>8, <2>1
  <2>3. (Served(b)' => Served(b)) /\ (Open(b)' => Open(b))
    BY <1>1, <1>11, <2>2 DEF Served, Leads, Open
  <2>4. \A n \in Msgs : frees[n] # 0 => frees'[n] # 0
    BY <1>1, Freed DEF TypeOK
  <2> QED  BY <1>1, <1>11, <2>2, <2>3, <2>4 DEF Untouched
<1>19. WireRight'
  BY <1>1 DEF WireRight
<1> QED  BY <1>13, <1>14, <1>15, <1>16, <1>17, <1>18, <1>19

\* The client of a connection ends its side, or the TCP connection.
LEMMA PeerStep ==
  ASSUME NEW k \in Clients, NEW how \in {"fin", "rst"}, IInv,
         client[k] = "up" \/ (client[k] = "fin" /\ how = "rst"),
         client' = [client EXCEPT ![k] = how], unread' \in [Clients -> Nat],
         UNCHANGED <<conn, place, owner, reg, wire, msg, mMsgSendQueue, sem,
                     frees, snd, ep>>
  PROVE  IInv'
<1> USE DEF IInv
<1>1. /\ client' \in [Clients -> {"new", "up", "fin", "rst", "closed"}]
      /\ client'[k] = how /\ \A j \in Clients : j # k => client'[j] = client[j]
  BY DEF TypeOK
<1>2. TypeOK'
  BY <1>1 DEF TypeOK
<1>3. \A b \in Conns : SndAt(b)' = SndAt(b) /\ EpAt(b)' = EpAt(b)
  BY DEF SndAt, EpAt
<1>4. \A b \in Conns : (Open(b)' => Open(b)) /\ (Served(b)' => Served(b))
  <2> SUFFICES ASSUME NEW b \in Conns
               PROVE  (Open(b)' => Open(b)) /\ (Served(b)' => Served(b))
    OBVIOUS
  <2>1. conn[b].fd \in Fds \cup {None}
    BY DEF TypeOK, Connection
  <2>2. \A g \in Fds : owner[g] \in Clients \cup {None}
    BY DEF TypeOK
  <2>3. Open(b)' => Open(b)
    BY <1>1, <2>1, <2>2 DEF Open
  <2>4. Served(b)' => Served(b)
    BY <1>1, <1>3, <2>2 DEF Served, Leads
  <2> QED  BY <2>3, <2>4
<1>5. Buffers' /\ NothingLost'
  <2>1. \A j \in Clients : /\ client[j] = "closed" => client'[j] = "closed"
                           /\ client'[j] = "up" => client[j] = "up"
    BY <1>1
  <2>2. Buffers'
    BY <1>3, <2>1, SameBuffers
  <2>3. NothingLost'
    BY <2>1, SameKept
  <2> QED  BY <2>2, <2>3
<1>6. InHand'
  <2>1. snd.pc \in Threading => msg[snd.m].pConn \in Conns
    BY SenderConn
  <2>2. snd.pc \in {"send", "sent"} => snd.pc \in Threading
    BY DEF Threading, Sending
  <2>3. snd.pc \in Threading => \E b \in Conns : msg[snd.m].pConn = b
    BY <2>1
  <2>4. CASE snd.pc \notin Threading
    BY <2>2, <2>4 DEF InHand, Threading
  <2>5. CASE snd.pc \in Threading
    <3>1. PICK b \in Conns : msg[snd.m].pConn = b
      BY <2>3, <2>5
    <3> QED  BY <1>4, <3>1 DEF InHand
  <2> QED  BY <2>4, <2>5
<1>7. EpollRight' /\ WireRight'
  BY DEF EpollRight, WireRight
<1>8. Links'
  <2>1. \A g \in Fds : owner[g] # None => owner[g] \in Clients
    BY DEF TypeOK
  <2> QED  BY <1>1, <1>3, <2>1 DEF Links
<1>9. SequenceRight'
  <2>1. \A n \in Msgs : msg[n].at # "none" => msg[n].from \in Clients
    BY DEF SequenceRight
  <2> QED  BY <1>1, <2>1 DEF SequenceRight
<1>10. Protocol' /\ Progress'
  BY <1>3, <1>4, NoneTouched DEF Untouched
<1> QED  BY <1>2, <1>5, <1>6, <1>7, <1>8, <1>9, <1>10

LEMMA InvPeerEnds ==
  ASSUME NEW k \in Clients, NEW how \in {"fin", "rst"}, IInv, PeerEnds(k, how)
  PROVE  IInv'
<1>1. PICK n \in 0..MaxUnread : unread' = [unread EXCEPT ![k] = n]
  BY DEF PeerEnds
<1>2. n \in Nat
  BY MaxUnreadAssumption
<1>3. unread' \in [Clients -> Nat]
  BY <1>1, <1>2 DEF IInv, TypeOK
<1> QED  BY <1>3, PeerStep DEF PeerEnds, queue

LEMMA InvPeerResets ==
  ASSUME NEW k \in Clients, IInv, PeerResets(k)
  PROVE  IInv'
<1>1. unread' \in [Clients -> Nat] /\ "rst" \in {"fin", "rst"}
  BY DEF IInv, TypeOK, PeerResets
<1> QED  BY <1>1, PeerStep DEF PeerResets, queue

LEMMA InvEpollWait ==
  ASSUME NEW f \in Fds, NEW c \in Conns, reg[f].ptr = c, IInv, EpollWait(f)
  PROVE  IInv'
<1> USE DEF IInv
<1> DEFINE k == owner[f]
<1>1. PICK todo \in {"packet", "close", "out"}, out \in {FALSE, reg[f].out} :
        /\ \/ UNCHANGED unread
           \/ /\ todo # "close" => unread[k] > 0
              /\ unread' = [unread EXCEPT ![k] = IF todo = "close" THEN @ ELSE @ - 1]
        /\ ep' = [pc |-> todo, c |-> c, out |-> out, err |-> client[k] # "up"]
  BY DEF EpollWait
<1>2. /\ UNCHANGED <<conn, place, client, owner, reg, wire, msg, mMsgSendQueue,
                     sem, frees, snd>>
      /\ ep.pc = "idle" /\ c # None
  BY NoneAssumption DEF EpollWait, queue
<1>3. /\ k \in Clients /\ place[c] = "live" /\ conn[c].fd = f
      /\ conn[c].out = reg[f].out /\ reg[f].out \in BOOLEAN
  BY <1>2 DEF Links, NoReg, TypeOK
<1>4. /\ ep' \in Epoll /\ ep'.pc = todo /\ ep'.c = c /\ ep'.out = out
      /\ ep'.err <=> client[k] # "up"
  BY <1>1, <1>3 DEF Epoll
<1>5. \A b \in Conns : /\ SndAt(b)' = SndAt(b) /\ EpAt(b) = "elsewhere"
                       /\ EpAt(b)' = IF b = c THEN todo ELSE "elsewhere"
                       /\ Open(b)' <=> Open(b)
  BY <1>2, <1>4 DEF SndAt, EpAt, Open
<1>6. TypeOK'
  <2>1. unread' \in [Clients -> Nat]
    <3>1. unread[k] \in Nat
      BY <1>3 DEF TypeOK
    <3>2. todo # "close" => unread[k] - 1 \in Nat \/ unread' = unread
      BY <1>1, <3>1
    <3> QED  BY <1>1, <3>1, <3>2 DEF TypeOK
  <2> QED  BY <1>2, <1>4, <2>1 DEF TypeOK
<1>7. Buffers' /\ NothingLost'
  <2>1. \A b \in Conns : /\ SndAt(b)' = "null" <=> SndAt(b) = "null"
                         /\ EpAt(b)' = "null" <=> EpAt(b) = "null"
    BY <1>5
  <2> QED  BY <1>2, <2>1, SameBuffers, SameKept
<1>8. InHand' /\ WireRight'
  BY <1>2 DEF InHand, Open, WireRight
<1>9. Links' /\ SequenceRight' /\ \A b \in Conns : Served(b)' => Served(b)
  <2>1. Links'
    BY <1>2, <1>5 DEF Links, Closing
  <2>2. SequenceRight'
    BY <1>2 DEF SequenceRight
  <2>3. ASSUME NEW b \in Conns, Served(b)'  PROVE Served(b)
    BY <1>2, <1>3, <1>4, <1>5, <2>3 DEF Served, Leads
  <2> QED  BY <2>1, <2>2, <2>3
<1>10. EpollRight'
  BY <1>2, <1>3, <1>4, NoneAssumption DEF EpollRight, Writing, Closing
<1>11. \A b \in Conns \ {c} : Untouched(b)
  BY <1>2, <1>5, <1>9 DEF Untouched
<1>12. ASSUME Served(c)'
       PROVE  Agreed(c)' /\ (Open(c)' => Got(c)')
  <2>1. Agreed(c) /\ (Open(c) => Got(c))
    BY <1>9, <1>12 DEF Protocol, Progress
  <2>2. client[k] = "up"
    BY <1>2, <1>3, <1>4, <1>12 DEF Served
  <2>3. ~ep'.err /\ (ep'.out => conn[c].out)
    BY <1>3, <1>4, <2>2
  <2>4. (Waits(c)' <=> Waits(c)) /\ (Dangling(c)' <=> Dangling(c))
    BY <1>2, <1>5 DEF Waits, Dangling
  <2>5. Agreed(c)'
    BY <1>2, <1>5, <2>1, <2>3, <2>4 DEF Agreed, Sending, Writing, Releasing
  <2>6. Open(c) => Got(c)'
    BY <1>2, <1>5, <2>1 DEF Got
  <2> QED  BY <1>5, <2>5, <2>6
<1>13. Protocol' /\ Progress'
  BY <1>9, <1>11, <1>12, OneTouched
<1> QED  BY <1>6, <1>7, <1>8, <1>9, <1>10, <1>13

\* A client that was not accepted yet has sent no request.
LEMMA NewClient ==
  ASSUME TypeOK, Links, SequenceRight, NEW k \in Clients, client[k] = "new"
  PROVE  /\ \A n \in Msgs : msg[n].at # "none" => msg[n].from # k
         /\ \A f \in Fds : owner[f] # k
<1>1. \A f \in Fds : owner[f] # k
  BY NoneAssumption DEF Links
<1>2. ASSUME NEW n \in Msgs, msg[n].at # "none", msg[n].from = k  PROVE FALSE
  <2>1. /\ msg[n].pConn \in Conns
        /\ msg[n].iCurrsequence = conn[msg[n].pConn].iCurrSequence
        /\ owner[conn[msg[n].pConn].fd] = k
    BY <1>2 DEF SequenceRight
  <2>2. place[msg[n].pConn] = "live"
    BY <1>2, <2>1 DEF SequenceRight
  <2>3. conn[msg[n].pConn].fd \in Fds
    BY <2>1, <2>2 DEF Links
  <2> QED  BY <1>1, <2>1, <2>3
<1> QED  BY <1>1, <1>2

LEMMA InvAccept ==
  ASSUME NEW k \in Clients, NEW c \in Conns, NEW f \in Fds, ~EarlyFd,
         IInv, NgxEventAccept(k, c, f)
  PROVE  IInv'
<1> USE DEF IInv
<1> DEFINE seq == conn[c].iCurrSequence + 1
           r1 == [conn[c] EXCEPT !.iCurrSequence = seq]
           r2 == [r1 EXCEPT !.fd = f]
           r3 == [r2 EXCEPT !.iThrowSendCount = 0]
           r4 == [r3 EXCEPT !.pSendMemPoint = None]
           r == [r4 EXCEPT !.out = FALSE]
           new == [ptr |-> c, out |-> FALSE]
<1>1. /\ UNCHANGED <<unread, wire, msg, mMsgSendQueue, sem, frees, snd, ep>>
      /\ ep.pc = "idle"
      /\ client[k] = "new" /\ place[c] = "free" /\ owner[f] = None
      /\ \A b \in Conns : Busy(b) => conn[b].fd # f
      /\ client' = [client EXCEPT ![k] = "up"]
      /\ owner' = [owner EXCEPT ![f] = k]
      /\ place' = [place EXCEPT ![c] = "live"]
      /\ conn' = [conn EXCEPT ![c].iCurrSequence = seq, ![c].fd = f,
                              ![c].iThrowSendCount = 0,
                              ![c].pSendMemPoint = None, ![c].out = FALSE]
      /\ reg' = [reg EXCEPT ![f] = new]
  BY DEF NgxEventAccept, queue, TypeOK
<1>2. conn[c] \in Connection /\ conn[c].iCurrSequence \in Nat /\ seq \in Nat
  <2>1. conn[c] \in Connection
    BY DEF TypeOK
  <2> QED  BY <2>1 DEF Connection
<1> HIDE DEF seq
<1>3. conn' = [conn EXCEPT ![c] = r]
  BY <1>1 DEF TypeOK
<1>4. r1 \in Connection /\ r1.iCurrSequence = seq
  BY <1>2 DEF Connection
<1> HIDE DEF r1
<1>5. r2 \in Connection /\ r2.iCurrSequence = seq /\ r2.fd = f
  BY <1>4 DEF Connection
<1> HIDE DEF r2
<1>6. /\ r3 \in Connection /\ r3.iCurrSequence = seq /\ r3.fd = f
      /\ r3.iThrowSendCount = 0
  BY <1>5 DEF Connection
<1> HIDE DEF r3
<1>7. /\ r4 \in Connection /\ r4.iCurrSequence = seq /\ r4.fd = f
      /\ r4.iThrowSendCount = 0 /\ r4.pSendMemPoint = None
  BY <1>6 DEF Connection
<1> HIDE DEF r4
<1>8. /\ r \in Connection /\ r.iCurrSequence = seq /\ r.fd = f
      /\ r.iThrowSendCount = 0 /\ r.pSendMemPoint = None /\ r.out = FALSE
  BY <1>7 DEF Connection
<1> HIDE DEF r
<1>9. /\ conn' \in [Conns -> Connection]
      /\ \A b \in Conns : b # c => conn'[b] = conn[b]
      /\ conn'[c] = r
  BY <1>3, <1>8 DEF TypeOK
<1>10. /\ conn'[c].iCurrSequence = conn[c].iCurrSequence + 1
       /\ conn'[c].fd = f /\ conn'[c].iThrowSendCount = 0
       /\ conn'[c].pSendMemPoint = None /\ conn'[c].out = FALSE
  BY <1>8, <1>9 DEF seq
<1>11. /\ place' \in [Conns -> {"free", "live", "recy"}] /\ place'[c] = "live"
       /\ \A b \in Conns : b # c => place'[b] = place[b]
  BY <1>1 DEF TypeOK
<1>12. /\ client' \in [Clients -> {"new", "up", "fin", "rst", "closed"}]
       /\ client'[k] = "up" /\ \A j \in Clients : j # k => client'[j] = client[j]
  BY <1>1 DEF TypeOK
<1>13. /\ owner' \in [Fds -> Clients \cup {None}] /\ owner'[f] = k
       /\ \A g \in Fds : g # f => owner'[g] = owner[g]
  BY <1>1 DEF TypeOK
<1>14. /\ reg' \in [Fds -> [ptr : Conns \cup {None}, out : BOOLEAN]]
       /\ reg'[f].ptr = c /\ reg'[f].out = FALSE
       /\ \A g \in Fds : g # f => reg'[g] = reg[g]
  <2>1. /\ new \in [ptr : Conns \cup {None}, out : BOOLEAN]
        /\ new.ptr = c /\ new.out = FALSE
    OBVIOUS
  <2> HIDE DEF new
  <2> QED  BY <1>1, <2>1 DEF TypeOK
<1> HIDE DEF new
<1>15. /\ \A n \in Msgs : msg[n].at # "none" => msg[n].from # k
       /\ \A g \in Fds : owner[g] # k
  BY <1>1, NewClient
<1>16. \A b \in Conns : place[b] = "live" =>
         /\ b # c /\ conn[b].fd \in Fds /\ conn[b].fd # f
         /\ owner[conn[b].fd] # None
  BY <1>1 DEF Links, EpAt, Closing
<1>17. \A b \in Conns : SndAt(b)' = SndAt(b) /\ EpAt(b)' = EpAt(b)
                        /\ EpAt(b) = "elsewhere"
  BY <1>1 DEF SndAt, EpAt
<1>18. snd.pc \in Threading =>
         msg[snd.m].pConn \in Conns \ {c} /\ conn[msg[snd.m].pConn].fd # f
  BY <1>1, SenderConn DEF Busy, Threading, Sending
<1>19. TypeOK'
  BY <1>1, <1>9, <1>11, <1>12, <1>13, <1>14 DEF TypeOK
<1>20. Buffers'
  <2>1. \A b \in Conns : Dangling(b)' <=> Dangling(b)
    BY <1>17 DEF Dangling
  <2>2. \A n \in Msgs : client[msg[n].from] = "closed" /\ msg[n].at # "none"
                         => client'[msg[n].from] = "closed"
    BY <1>12, <1>15 DEF SequenceRight
  <2>3. \A n \in Msgs : frees[n] > 1 => frees[n] # 0
    BY DEF TypeOK
  <2>4. ASSUME NEW n \in Msgs
        PROVE  /\ n \in Elems(mMsgSendQueue) => frees[n] = 0 /\ msg[n].at = "queued"
               /\ frees[n] # 0 => msg[n].at = "queued"
               /\ frees[n] > 1 => client'[msg[n].from] = "closed"
    BY <2>2, <2>3 DEF Buffers
  <2>5. \A b \in Conns : LET n == conn'[b].pSendMemPoint IN
          n # None => /\ msg[n].at = "queued" /\ msg[n].pConn = b
                      /\ n \notin Elems(mMsgSendQueue)
                      /\ frees[n] = 0 \/ Dangling(b)'
    BY <1>9, <1>10, <2>1 DEF Buffers
  <2>6. NoRepeats(mMsgSendQueue)
    BY DEF Buffers
  <2>7. UNCHANGED <<msg, mMsgSendQueue, frees>>
    BY <1>1
  <2> QED  BY <2>4, <2>5, <2>6, <2>7 DEF Buffers
<1>21. InHand'
  <2>1. \A b \in Conns \ {c} : conn[b].fd \in Fds \ {f} =>
          /\ conn'[b] = conn[b] /\ place'[b] = place[b]
          /\ owner'[conn[b].fd] = owner[conn[b].fd]
          /\ (Open(b)' => Open(b))
    BY <1>9, <1>11, <1>12, <1>13, <1>15 DEF Open, TypeOK
  <2>2. snd.pc \in {"throw", "send", "sent"} => snd.pc \in Threading
    BY DEF Threading, Sending
  <2>3. CASE snd.pc \notin Threading
    BY <1>1, <2>2, <2>3 DEF InHand
  <2>4. CASE snd.pc \in Threading
    <3>1. msg[snd.m].pConn \in Conns \ {c} /\ conn[msg[snd.m].pConn].fd \in Fds \ {f}
      BY <1>18, <2>4, SenderConn
    <3>2. PICK b \in Conns \ {c} : msg[snd.m].pConn = b
      BY <3>1
    <3>3. UNCHANGED <<wire, msg, mMsgSendQueue, snd>>
      BY <1>1
    <3>4. /\ conn'[b] = conn[b] /\ place'[b] = place[b]
          /\ owner'[conn[b].fd] = owner[conn[b].fd]
          /\ (Open(b)' => Open(b))
      BY <2>1, <3>1, <3>2
    <3> QED  BY <3>2, <3>3, <3>4 DEF InHand
  <2> QED  BY <2>3, <2>4
<1>22. Links'
  <2>1. ASSUME NEW g \in Fds
        PROVE  IF owner'[g] = None THEN reg'[g] = NoReg
               ELSE /\ client'[owner'[g]] \in {"up", "fin", "rst"}
                    /\ reg'[g].ptr \in Conns
                    /\ place'[reg'[g].ptr] = "live"
                    /\ conn'[reg'[g].ptr].fd = g
                    /\ conn'[reg'[g].ptr].out = reg'[g].out
    <3>1. CASE g = f
      BY <3>1, <1>10, <1>11, <1>12, <1>13, <1>14, NoneAssumption
    <3>2. CASE g # f /\ owner[g] # None
      <4>1. /\ owner[g] \in Clients /\ owner[g] # k
            /\ reg[g].ptr \in Conns /\ reg[g].ptr # c
        BY <3>2, <1>1, <1>15 DEF Links, TypeOK
      <4> QED  BY <3>2, <4>1, <1>9, <1>11, <1>12, <1>13, <1>14 DEF Links
    <3>3. CASE g # f /\ owner[g] = None
      BY <3>3, <1>13, <1>14 DEF Links
    <3> QED  BY <3>1, <3>2, <3>3
  <2>2. \A g, h \in Fds : owner'[g] = owner'[h] /\ owner'[g] # None => g = h
    BY <1>13, <1>15 DEF Links
  <2>3. ASSUME NEW b \in Conns, place'[b] = "live"
        PROVE  /\ conn'[b].fd \in Fds
               /\ owner'[conn'[b].fd] # None /\ reg'[conn'[b].fd].ptr = b
    <3>1. CASE b = c
      BY <3>1, <1>10, <1>13, <1>14, NoneAssumption
    <3>2. CASE b # c
      BY <3>2, <2>3, <1>9, <1>11, <1>13, <1>14, <1>16 DEF Links
    <3> QED  BY <3>1, <3>2
  <2> QED  BY <2>1, <2>2, <2>3 DEF Links
<1>23. EpollRight'
  BY <1>1 DEF EpollRight, Writing
<1>24. SequenceRight'
  <2> SUFFICES ASSUME NEW n \in Msgs, msg[n].at # "none"
               PROVE  LET d == msg[n].pConn IN
                      /\ msg[n].iCurrsequence <= conn'[d].iCurrSequence
                      /\ msg[n].iCurrsequence = conn'[d].iCurrSequence =>
                           /\ place'[d] = "live"
                           /\ owner'[conn'[d].fd] \in {None, msg[n].from}
                      /\ client'[msg[n].from] # "closed" =>
                           /\ msg[n].iCurrsequence = conn'[d].iCurrSequence
                           /\ owner'[conn'[d].fd] = msg[n].from
    BY <1>1 DEF SequenceRight
  <2>1. /\ msg[n].iCurrsequence \in Nat /\ msg[n].pConn \in Conns
        /\ msg[n].from \in Clients /\ client'[msg[n].from] = client[msg[n].from]
    BY <1>12, <1>15 DEF TypeOK, Message, SequenceRight
  <2>2. CASE msg[n].pConn = c
    BY <2>1, <2>2, <1>1, <1>2, <1>10 DEF SequenceRight
  <2>3. CASE msg[n].pConn # c
    <3>1. conn'[msg[n].pConn] = conn[msg[n].pConn]
          /\ place'[msg[n].pConn] = place[msg[n].pConn]
      BY <2>1, <2>3, <1>9, <1>11
    <3>2. msg[n].iCurrsequence = conn[msg[n].pConn].iCurrSequence =>
            owner'[conn[msg[n].pConn].fd] = owner[conn[msg[n].pConn].fd]
            /\ place[msg[n].pConn] = "live"
      BY <2>1, <1>13, <1>16 DEF SequenceRight
    <3> QED  BY <2>1, <3>1, <3>2 DEF SequenceRight
  <2> QED  BY <2>2, <2>3
<1>25. Protocol' /\ Progress'
  <2>1. ASSUME NEW b \in Conns \ {c}, Served(b)'
        PROVE  Agreed(b)' /\ (Open(b)' => Got(b)')
    <3>1. place[b] = "live" /\ conn'[b] = conn[b]
      BY <2>1, <1>9, <1>11 DEF Served, Leads
    <3>2. /\ owner'[conn[b].fd] = owner[conn[b].fd] /\ conn[b].fd \in Fds
          /\ owner[conn[b].fd] # k /\ owner[conn[b].fd] \in Clients
          /\ place'[b] = "live"
      BY <3>1, <1>11, <1>13, <1>15, <1>16 DEF TypeOK
    <3>3. Served(b) /\ (Open(b)' => Open(b))
      BY <2>1, <3>1, <3>2, <1>1, <1>12, <1>16, <1>17 DEF Served, Leads, Open
    <3>4. Untouched(b)
      BY <2>1, <3>1, <3>2, <3>3, <1>1, <1>17 DEF Untouched
    <3> QED  BY <2>1, <3>3, <3>4, UntouchedKeeps, NoneAssumption
             DEF Protocol, Progress
  <2>2. SndAt(c)' = "elsewhere" /\ EpAt(c)' = "elsewhere"
    BY <1>17, <1>18 DEF SndAt, Threading
  <2>3. wire[k] = <<>>
    <3>1. wire[k] \in Seq(Msgs \X (1..MsgLen))
      BY DEF TypeOK
    <3>2. ASSUME 1 \in 1..Len(wire[k])  PROVE FALSE
      <4>1. wire[k][1][1] \in Msgs
        BY <3>2, Replies
      <4>2. /\ msg[wire[k][1][1]].at = "queued"
            /\ msg[wire[k][1][1]].from = k
        BY <3>2 DEF WireRight
      <4> QED  BY <4>1, <4>2, <1>15
    <3> QED  BY <3>1, <3>2, EmptySeq, LenProperties
  <2>4. Agreed(c)' /\ Got(c)'
    <3>1. ~Waits(c)' /\ ~Dangling(c)'
      BY <1>10, <2>2 DEF Waits, Dangling
    <3>2. Agreed(c)'
      BY <1>10, <2>2, <3>1 DEF Agreed, Sending, Writing, Releasing
    <3>3. Got(c)'
      BY <1>1, <1>10, <1>13, <2>2, <2>3 DEF Got, Whole
    <3> QED  BY <3>2, <3>3
  <2> QED  BY <2>1, <2>4 DEF Protocol, Progress
<1>26. WireRight'
  BY <1>1 DEF WireRight
<1>27. NothingLost'
  <2> SUFFICES ASSUME NEW n \in Msgs, msg[n].at = "queued",
                      client'[msg[n].from] = "up"
               PROVE  \/ n \in Elems(mMsgSendQueue)
                      \/ frees[n] = 0 /\ conn'[msg[n].pConn].pSendMemPoint = n
                      \/ <<n, MsgLen>> \in Elems(wire[msg[n].from])
    BY <1>1 DEF NothingLost
  <2>1. client[msg[n].from] = "up"
    BY <1>12, <1>15 DEF SequenceRight
  <2>2. msg[n].pConn \in Conns /\ msg[n].pConn # c
    BY <2>1, <1>1, ClientThere DEF Served, Leads
  <2> QED  BY <2>1, <2>2, <1>9 DEF NothingLost
<1> QED  BY <1>19, <1>20, <1>21, <1>22, <1>23, <1>24, <1>25, <1>26, <1>27

-----------------------------------------------------------------------------
(* The theorems.                                                           *)

LEMMA InitInv == Init => IInv
<1> SUFFICES ASSUME Init  PROVE IInv
  OBVIOUS
<1>1. conn \in [Conns -> Connection]
  BY MsgLenAssumption DEF Init, Connection
<1>2. msg \in [Msgs -> Message]
  BY DEF Init, Message
<1>3. snd \in Sender /\ ep \in Epoll
  <2>1. 1 \in Nat \ {0}
    OBVIOUS
  <2> QED  BY <2>1, AtRest DEF Init
<1>4. /\ wire \in [Clients -> Seq(Msgs \X (1..MsgLen))] /\ mMsgSendQueue \in Seq(Msgs)
      /\ Len(mMsgSendQueue) = 0 /\ \A k \in Clients : Len(wire[k]) = 0
  BY EmptySeq DEF Init
<1>5. TypeOK
  BY <1>1, <1>2, <1>3, <1>4 DEF Init, TypeOK, NoReg
<1>6. Buffers
  BY <1>4 DEF Init, Buffers, NoRepeats, Elems
<1>7. InHand /\ EpollRight
  BY DEF Init, InHand, EpollRight, Threading, Sending, Waiting, Idle
<1>8. Links /\ SequenceRight
  BY DEF Init, Links, SequenceRight
<1>9. \A c \in Conns : ~Served(c)
  BY DEF Init, Served, Leads
<1>10. Protocol /\ Progress
  BY <1>9 DEF Protocol, Progress
<1>11. WireRight /\ NothingLost
  BY <1>4 DEF Init, WireRight, NothingLost
<1> QED  BY <1>5, <1>6, <1>7, <1>8, <1>10, <1>11 DEF IInv

LEMMA NextInv == ~EarlyFd /\ IInv /\ [Next]_vars => IInv'
<1> SUFFICES ASSUME ~EarlyFd, IInv, [Next]_vars  PROVE IInv'
  OBVIOUS
<1>1. ASSUME NEW m \in Msgs, ThreadRecvProcFunc(m) \/ MsgSend(m)  PROVE IInv'
  BY <1>1, InvThreadRecv, InvMsgSend
<1>2. CASE ServerSendQueueThread \/ SemInterrupted
  <2>1. CASE SemWait \/ SemInterrupted \/ StartSweep \/ EndSweep
    BY <2>1, InvBetween
  <2>2. CASE CheckSequence
    BY <2>2, InvCheckSequence
  <2>3. CASE CheckThrowCount \/ Send \/ SendOver \/ SendNull \/ SendZero
               \/ SendPartly \/ Arm
    <3>1. snd.pc \in Threading
      <4>1. CheckThrowCount => snd.pc = "throw"
        BY DEF CheckThrowCount
      <4>4. Send => snd.pc = "send"
        BY DEF Send
      <4>5. SendOver => snd.pc = "sent"
        BY DEF SendOver
      <4>2. /\ SendNull => snd.pc = "null"
            /\ SendZero => snd.pc = "zero"
        BY DEF SendNull, SendZero
      <4>3. /\ SendPartly => snd.pc = "sent"
            /\ Arm => snd.pc = "arm"
        BY DEF SendPartly, Arm
      <4> QED  BY <2>3, <4>1, <4>2, <4>3, <4>4, <4>5 DEF Threading, Sending
    <3>2. PICK m \in Msgs, c \in Conns : snd.m = m /\ msg[m].pConn = c
      BY <3>1, SenderConn DEF IInv
    <3> QED  BY <2>3, <3>2, InvCheckThrowCount, InvSend, InvSendOver,
                InvSendNull, InvSendZero, InvSendPartly, InvArm
  <2> QED  BY <1>2, <2>1, <2>2, <2>3 DEF ServerSendQueueThread
<1>3. ASSUME NEW k \in Clients, NEW c \in Conns, NEW f \in Fds,
             NgxEventAccept(k, c, f)
      PROVE  IInv'
  BY <1>3, InvAccept
<1>4. ASSUME NEW f \in Fds, EpollWait(f)  PROVE IInv'
  <2>1. reg[f].ptr \in Conns
    BY <1>4 DEF EpollWait, IInv, Links, NoReg
  <2>2. PICK c \in Conns : reg[f].ptr = c
    BY <2>1
  <2> QED  BY <1>4, <2>2, InvEpollWait
<1>5. CASE HandleEvent
  <2>1. ep.pc # "idle"
    BY <1>5 DEF HandleEvent, zdCloseSocketProc, NgxWriteRequestHandler,
      ReadPacket, CloseFd, UndoThrowCount, LowerThrowCount,
      InRecyConnecQueue, WriteEvent, WriteMore, Disarm, Post, WriteFree,
      WriteNull, ReleaseConn
  <2>2. PICK c \in Conns : ep.c = c
    BY <2>1, EpollConn DEF IInv
  <2> QED  BY <1>5, <2>2, InvReadPacket, InvCloseFd, InvUndoThrowCount,
              InvLowerThrowCount, InvInRecyConnecQueue, InvWriteEvent,
              InvWriteMore, InvDisarm, InvPost, InvWriteFree, InvWriteNull,
              InvReleaseConn
           DEF HandleEvent, zdCloseSocketProc, NgxWriteRequestHandler
<1>6. ASSUME NEW c \in Conns, PutOneToFree(c)  PROVE IInv'
  BY <1>6, InvPutOneToFree
<1>7. ASSUME NEW k \in Clients,
             PeerEnds(k, "fin") \/ PeerEnds(k, "rst") \/ PeerResets(k)
      PROVE  IInv'
  BY <1>7, InvPeerEnds, InvPeerResets
<1>8. CASE UNCHANGED vars
  <2>1. UNCHANGED <<conn, place, client, owner, unread, reg, wire, msg,
                    mMsgSendQueue, sem, frees, snd, ep>>
    BY <1>8 DEF vars, peers, queue
  <2>2. \A b \in Conns : /\ SndAt(b)' = SndAt(b) /\ EpAt(b)' = EpAt(b)
                         /\ (Served(b)' => Served(b))
                         /\ (Open(b)' <=> Open(b))
                         /\ (Dangling(b)' <=> Dangling(b))
    BY <2>1 DEF SndAt, EpAt, Served, Leads, Open, Dangling
  <2>3. TypeOK' /\ Links' /\ EpollRight' /\ SequenceRight'
    BY <2>1, <2>2 DEF IInv, TypeOK, Links, EpollRight, SequenceRight
  <2>4. Buffers' /\ NothingLost'
    BY <2>1, <2>2 DEF IInv, Buffers, NothingLost
  <2>5. InHand' /\ WireRight'
    BY <2>1 DEF IInv, InHand, Open, WireRight
  <2>6. Protocol' /\ Progress'
    BY <2>1, <2>2, NoneTouched DEF IInv, Untouched
  <2> QED  BY <2>3, <2>4, <2>5, <2>6 DEF IInv
<1> QED  BY <1>1, <1>2, <1>3, <1>4, <1>5, <1>6, <1>7, <1>8 DEF Next

\* Unless a descriptor is reused under a thread's hands, every state meets the
\* invariant.
THEOREM Invariance == ~EarlyFd => (Spec => []IInv)
<1>1. CASE EarlyFd
  BY <1>1, PTL
<1>2. CASE ~EarlyFd
  <2>1. Init => IInv
    BY InitInv
  <2>2. IInv /\ [Next]_vars => IInv'
    BY <1>2, NextInv
  <2> QED  BY <2>1, <2>2, PTL DEF Spec
<1> QED  BY <1>1, <1>2, EarlyAssumption

\* Every variable keeps its type: above all, no unit beyond a reply's end is
\* sent and no length runs below zero.
THEOREM TypeCorrect == ~EarlyFd => (Spec => []TypeOK)
<1>1. IInv => TypeOK
  BY DEF IInv
<1> QED  BY <1>1, Invariance, PTL

\* However the sender, which frees a reply and then clears the pointer to it,
\* and the epoll thread, which does the same, meet on a connection: a reply is
\* given to FreeMemory twice only if its client was closed.
THEOREM FreedOnce == ~EarlyFd => (Spec => []FreedOnceUntilClosed)
<1>1. IInv => FreedOnceUntilClosed
  BY DEF IInv, Buffers, FreedOnceUntilClosed
<1> QED  BY <1>1, Invariance, PTL

\* No thread sends from a reply that was freed, as far as a client can see,
\* half-closed or not.
THEOREM NoFreedSent == ~EarlyFd => (Spec => []NoUseAfterFree)
<1>1. IInv => NoUseAfterFree
  <2> SUFFICES ASSUME IInv  PROVE NoUseAfterFree
    OBVIOUS
  <2>1. ASSUME snd.pc = "send", Open(msg[snd.m].pConn)  PROVE frees[snd.m] = 0
    <3>1. PICK c \in Conns : msg[snd.m].pConn = c
      BY <2>1, SenderConn DEF IInv, Threading, Sending
    <3>2. snd.m \in Msgs /\ snd.m # None /\ conn[c].pSendMemPoint = snd.m
      BY <2>1, <3>1, SenderConn, NoneAssumption
         DEF IInv, InHand, Threading, Sending
    <3>3. SndAt(c) = "send"
      BY <2>1, <3>1 DEF SndAt, Sending
    <3>4. ASSUME EpAt(c) = "null"  PROVE FALSE
      <4>1. ep.pc = "null" /\ ep.c = c
        BY <3>4 DEF EpAt
      <4>2. Served(c)
        BY <2>1, <3>1, <4>1, EpollConn DEF IInv, Writing
      <4> QED  BY <3>3, <3>4, <4>2 DEF IInv, Protocol, Agreed, Sending, Writing
    <3>5. ~Dangling(c)
      BY <3>3, <3>4 DEF Dangling
    <3> QED  BY <3>2, <3>5 DEF IInv, Buffers
  <2>2. ASSUME ep.pc = "write", Open(ep.c)
        PROVE  frees[conn[ep.c].pSendBuf] = 0
    <3>1. PICK c \in Conns : ep.c = c
      BY <2>2, EpollConn DEF IInv
    <3>2. /\ conn[c].pSendMemPoint \in Msgs
          /\ conn[c].pSendBuf = conn[c].pSendMemPoint
          /\ SndAt(c) \notin Sending /\ EpAt(c) = "write"
      BY <2>2, <3>1, WriteConn
    <3>3. ~Dangling(c) /\ conn[c].pSendMemPoint # None
      BY <3>2, NoneAssumption DEF Dangling, Sending
    <3> QED  BY <3>1, <3>2, <3>3 DEF IInv, Buffers
  <2> QED  BY <2>1, <2>2 DEF NoUseAfterFree
<1> QED  BY <1>1, Invariance, PTL

\* A reply MsgSend took over is queued, current or sent as long as its client
\* has not ended, whatever becomes of the other connections.
THEOREM NoReplyLost == ~EarlyFd => (Spec => []NothingLost)
<1>1. IInv => NothingLost
  BY DEF IInv
<1> QED  BY <1>1, Invariance, PTL

\* With no lock between them, iThrowSendCount keeps the sender and the epoll
\* thread apart on the connection of a client that has not ended.
THEOREM NeverBothAtWork == ~EarlyFd => (Spec => []OneAtATime)
<1>1. IInv => OneAtATime
  <2> SUFFICES ASSUME IInv, NEW c, c = msg[snd.m].pConn,
                      snd.pc \in {"send", "sent", "null", "zero", "arm"},
                      Open(c), client[owner[conn[c].fd]] = "up"
               PROVE  ~conn[c].out /\ ~(ep.pc \in Writing /\ ep.c = c)
    BY DEF OneAtATime
  <2>1. c \in Conns /\ Leads(c)
    BY SenderConn DEF IInv, Threading, Sending
  <2>2. Agreed(c)
    BY <2>1 DEF IInv, Protocol, Served
  <2>3. SndAt(c) \in Sending
    BY DEF SndAt, Sending
  <2>4. ep.pc \in Writing /\ ep.c = c => EpAt(c) \in Writing
    BY DEF EpAt, Writing
  <2> QED  BY <2>2, <2>3, <2>4 DEF Agreed
<1> QED  BY <1>1, Invariance, PTL

\* Clients only get replies to their own requests: what goes wrong in the run
\* that lets descriptors be reused early goes wrong for no other reason.
THEOREM OwnReplies == ~EarlyFd => (Spec => []ReplyToRequester)
<1>1. IInv => ReplyToRequester
  BY DEF IInv, WireRight, ReplyToRequester
<1> QED  BY <1>1, Invariance, PTL


-----------------------------------------------------------------------------
(* The sending half of CSocket implements Outbox.                          *)

LEMMA BoxInit == Init => Box!OInit
<1> SUFFICES ASSUME Init  PROVE Box!OInit
  OBVIOUS
<1>1. \A k \in Clients : client[k] = "new"
  BY DEF Init
<1>2. \A m \in Msgs : msg[m].from = None
  BY DEF Init
<1> QED  BY <1>1, <1>2 DEF Init, Box!OInit

\* send() goes on with the reply that is cut, or starts a new one.
LEMMA SendIsOSend ==
  ASSUME TypeOK, NEW c \in Conns, NEW n \in -2..MsgLen, SendProc(c, n),
         msg' = msg, client' = client,
         Open(c) => /\ conn[c].pSendBuf \in Msgs
                    /\ owner[conn[c].fd] \in Clients
                    /\ msg[conn[c].pSendBuf].from = owner[conn[c].fd]
                    /\ \/ Upto(conn[c].pSendBuf, MsgLen - conn[c].iSendLen,
                               wire[owner[conn[c].fd]])
                       \/ /\ client[owner[conn[c].fd]] # "up"
                          /\ MsgLen - conn[c].iSendLen = 0
                          /\ Fresh(conn[c].pSendBuf, wire[owner[conn[c].fd]])
  PROVE  [Box!ONext]_(Box!ovars)
<1>1. CASE ~Open(c) \/ n < 0
  <2>1. wire' = wire
    <3>1. CASE ~Open(c)
      BY <3>1 DEF SendProc
    <3>2. CASE Open(c)
      <4>1. wire' \in [Clients -> Seq(Msgs \X (1..MsgLen))]
        BY <3>2, SendProcSends
      <4>2. \A j \in Clients : wire'[j] = wire[j]
        <5>1. WireGrows(c, n) /\ ~(n > 0)
          BY <1>1, <3>2, SendProcKeeps, MsgLenAssumption
        <5> QED  BY <3>2, <5>1 DEF WireGrows
      <4> QED  BY <4>1, <4>2 DEF TypeOK
    <3> QED  BY <3>1, <3>2
  <2> QED  BY <2>1 DEF Box!ovars
<1>2. CASE Open(c) /\ ~(n < 0)
  <2>1. conn[c].iSendLen \in 0..MsgLen /\ MsgLen \in Nat
    BY MsgLenAssumption DEF TypeOK, Connection
  <2>2. n \in {-1} \cup 1..conn[c].iSendLen
    BY <1>2 DEF SendProc
  <2>3. PICK q \in Msgs, k \in Clients, first \in Int :
          /\ q = conn[c].pSendBuf /\ k = owner[conn[c].fd]
          /\ first = MsgLen - conn[c].iSendLen
    BY <1>2, <2>1
  <2> DEFINE from == [m \in Msgs |-> msg[m].from]
             ended == {j \in Clients : client[j] \notin {"new", "up"}}
  <2>4. wire' = [wire EXCEPT ![k] = @ \o [i \in 1..n |-> <<q, first + i>>]]
    BY <1>2, <2>3 DEF SendProc
  <2>5. /\ n \in 1..MsgLen /\ first + 1 \in 1..MsgLen
        /\ first + n \in (first + 1)..MsgLen
        /\ first < MsgLen /\ first + 1 - 1 = first
        /\ (first + n) - (first + 1) + 1 = n
    BY <1>2, <2>1, <2>2, <2>3
  <2>6. Box!Part(q, first + 1, first + n) = [i \in 1..n |-> <<q, first + i>>]
    <3>1. \A i \in 1..n : first + 1 + i - 1 = first + i
      BY <2>3, <2>5
    <3> QED  BY <2>5, <3>1 DEF Box!Part
  <2>7. /\ Upto(q, first, wire[k])
           \/ (k \in ended /\ first = 0 /\ Fresh(q, wire[k]))
        /\ from[q] = k /\ from' = from /\ ended' = ended
    <3>1. client[k] \in {"up", "fin"}
      BY <1>2, <2>3 DEF Open
    <3> QED  BY <1>2, <2>3, <3>1
  <2>8. \/ /\ wire[k] # <<>> /\ wire[k][Len(wire[k])][2] < MsgLen
           /\ <<q, first + 1 - 1>> = wire[k][Len(wire[k])]
        \/ /\ ~(wire[k] # <<>> /\ wire[k][Len(wire[k])][2] < MsgLen)
             \/ k \in ended
           /\ first + 1 = 1 /\ \A i \in 1..Len(wire[k]) : wire[k][i][1] # q
    <3> HIDE DEF ended
    <3>1. CASE k \in ended /\ first = 0 /\ Fresh(q, wire[k])
      BY <3>1 DEF Fresh
    <3>2. CASE Upto(q, first, wire[k]) /\ first = 0
      BY <3>2, MsgLenAssumption DEF Upto, Whole, Fresh
    <3>3. CASE Upto(q, first, wire[k]) /\ first # 0
      <4>1. wire[k] # <<>> /\ wire[k][Len(wire[k])] = <<q, first>>
        BY <3>3 DEF Upto
      <4> QED  BY <2>5, <4>1
    <3> QED  BY <2>7, <3>1, <3>2, <3>3
  <2>9. wire' = [wire EXCEPT ![k] =
                   wire[k] \o Box!Part(q, first + 1, first + n)]
    BY <2>4, <2>6
  <2>10. Box!OSend(q, first + 1, first + n) /\ from[q] # None
    <3> HIDE DEF from, ended
    <3>1. from[q] # None
      BY <2>7, NoneAssumption
    <3>2. /\ \/ /\ Box!Cut(wire[from[q]])
                /\ <<q, first + 1 - 1>> = wire[from[q]][Len(wire[from[q]])]
             \/ /\ ~Box!Cut(wire[from[q]]) \/ from[q] \in ended
                /\ first + 1 = 1
                /\ \A i \in 1..Len(wire[from[q]]) : wire[from[q]][i][1] # q
          /\ wire' = [wire EXCEPT ![from[q]] =
                        wire[from[q]] \o Box!Part(q, first + 1, first + n)]
      BY <2>7, <2>8, <2>9 DEF Box!Cut
    <3>3. Box!OSend(q, first + 1, first + n)
      BY <2>7, <3>2 DEF Box!OSend, from, ended
    <3> QED  BY <3>1, <3>3
  <2> QED  BY <2>5, <2>10 DEF Box!ONext
<1> QED  BY <1>1, <1>2

LEMMA BoxNext == IInv /\ [Next]_vars => [Box!ONext]_(Box!ovars)
<1> SUFFICES ASSUME IInv, [Next]_vars  PROVE [Box!ONext]_(Box!ovars)
  OBVIOUS
<1> USE DEF IInv
<1>1. ASSUME wire' = wire, client' = client,
             \A n \in Msgs : msg'[n].from = msg[n].from
      PROVE  [Box!ONext]_(Box!ovars)
  BY <1>1 DEF Box!ovars
<1>2. ASSUME NEW m \in Msgs, ThreadRecvProcFunc(m) \/ MsgSend(m)
      PROVE  [Box!ONext]_(Box!ovars)
  <2>1. wire' = wire /\ client' = client
    BY <1>2 DEF ThreadRecvProcFunc, MsgSend, peers
  <2>2. \E at \in {"handle", "dropped", "queued"} :
          msg' = [msg EXCEPT ![m].at = at]
    BY <1>2 DEF ThreadRecvProcFunc, MsgSend
  <2>3. \A n \in Msgs : msg'[n].from = msg[n].from
    BY <2>2 DEF TypeOK, Message
  <2> QED  BY <1>1, <2>1, <2>3
<1>3. CASE Send
  <2>1. snd.pc = "send" /\ msg' = msg /\ client' = client
    BY <1>3 DEF Send, peers
  <2>2. PICK c \in Conns : msg[snd.m].pConn = c
    BY <2>1, SenderConn DEF Threading, Sending
  <2>3. PICK n \in -2..MsgLen : SendProc(c, n)
    BY <1>3, <2>2 DEF Send
  <2>4. conn[c].iSendLen = MsgLen /\ conn[c].pSendBuf = snd.m /\ snd.m \in Msgs
    BY <2>1, <2>2 DEF InHand, Threading, Sending
  <2>5. ASSUME Open(c)
        PROVE  /\ conn[c].pSendBuf \in Msgs
               /\ owner[conn[c].fd] \in Clients
               /\ msg[conn[c].pSendBuf].from = owner[conn[c].fd]
               /\ \/ Upto(conn[c].pSendBuf, MsgLen - conn[c].iSendLen,
                          wire[owner[conn[c].fd]])
                  \/ /\ client[owner[conn[c].fd]] # "up"
                     /\ MsgLen - conn[c].iSendLen = 0
                     /\ Fresh(conn[c].pSendBuf, wire[owner[conn[c].fd]])
    <3>1. Leads(c) /\ owner[conn[c].fd] = msg[snd.m].from
      BY <2>1, <2>2, <2>5, SenderConn DEF Threading, Sending
    <3>2. owner[conn[c].fd] \in Clients
      BY <3>1, LeadsClient
    <3>3. MsgLen - conn[c].iSendLen = 0
      BY <2>4, MsgLenAssumption
    <3>4. Fresh(snd.m, wire[owner[conn[c].fd]])
      BY <2>1, <3>2 DEF InHand
    <3>5. client[owner[conn[c].fd]] = "up" => Upto(snd.m, 0, wire[owner[conn[c].fd]])
      BY <2>1, <2>2, <2>5, <3>1 DEF Progress, Served, Got, SndAt, Sending
    <3> QED  BY <2>4, <3>1, <3>2, <3>3, <3>4, <3>5
  <2> QED  BY <2>1, <2>3, <2>5, SendIsOSend
<1>4. CASE \/ SemWait \/ SemInterrupted \/ StartSweep \/ EndSweep \/ CheckSequence
           \/ CheckThrowCount \/ SendOver \/ SendNull \/ SendZero \/ SendPartly
           \/ Arm
  <2>1. CASE \/ SemWait \/ SemInterrupted \/ StartSweep \/ EndSweep
             \/ CheckSequence \/ CheckThrowCount
    BY <1>1, <2>1 DEF SemWait, SemInterrupted, StartSweep, EndSweep,
                      CheckSequence, CheckThrowCount, peers
  <2>2. CASE SendOver \/ SendNull \/ SendZero \/ SendPartly \/ Arm
    BY <1>1, <2>2 DEF SendOver, SendNull, SendZero, SendPartly, Arm, peers
  <2> QED  BY <1>4, <2>1, <2>2
<1>5. CASE ReadPacket
  <2>1. ep.pc = "packet" /\ wire' = wire /\ client' = client
    BY <1>5 DEF ReadPacket, peers
  <2>2. PICK c \in Conns : ep.c = c
    BY <2>1, EpollConn
  <2>3. PICK k \in Clients : k = owner[conn[c].fd]
    BY <2>1, <2>2 DEF EpollRight, TypeOK
  <2>4. PICK m \in Msgs :
          /\ msg[m].at = "none"
          /\ msg' = [msg EXCEPT ![m] =
                       [at |-> "recv", pConn |-> c,
                        iCurrsequence |-> conn[c].iCurrSequence, from |-> k]]
    BY <1>5, <2>2, <2>3 DEF ReadPacket
  <2>5. msg[m].from = None
    BY <2>4 DEF SequenceRight
  <2>6. /\ msg'[m].from = k
        /\ \A n \in Msgs : n # m => msg'[n].from = msg[n].from
    BY <2>4 DEF TypeOK
  <2>7. Box!ORequest(m, k)
    <3> DEFINE from == [n \in Msgs |-> msg[n].from]
               ended == {j \in Clients : client[j] \notin {"new", "up"}}
    <3>1. from[m] = None /\ from' = [from EXCEPT ![m] = k]
      BY <2>5, <2>6
    <3>2. ended' = ended
      BY <2>1
    <3> QED  BY <2>1, <3>1, <3>2, Zenon DEF Box!ORequest
  <2> QED  BY <2>3, <2>7 DEF Box!ONext
<1>6. CASE WriteMore
  <2>1. ep.pc = "write" /\ msg' = msg /\ client' = client
    BY <1>6 DEF WriteMore, peers
  <2>2. PICK c \in Conns : ep.c = c
    BY <2>1, EpollConn
  <2>3. PICK n \in -2..MsgLen : SendProc(c, n)
    BY <1>6, <2>2 DEF WriteMore
  <2>4. ASSUME Open(c)
        PROVE  /\ conn[c].pSendBuf \in Msgs
               /\ owner[conn[c].fd] \in Clients
               /\ msg[conn[c].pSendBuf].from = owner[conn[c].fd]
               /\ Upto(conn[c].pSendBuf, MsgLen - conn[c].iSendLen,
                       wire[owner[conn[c].fd]])
    BY <2>1, <2>2, <2>4, WriteConn
  <2> QED  BY <2>1, <2>3, <2>4, SendIsOSend
<1>7. CASE \/ UndoThrowCount \/ LowerThrowCount \/ InRecyConnecQueue \/ WriteEvent
           \/ Disarm \/ Post \/ WriteFree \/ WriteNull \/ ReleaseConn
  <2>1. wire' = wire /\ msg' = msg /\ client' = client
    BY <1>7 DEF UndoThrowCount, LowerThrowCount, InRecyConnecQueue, WriteEvent,
                Disarm, Post, WriteFree, WriteNull, ReleaseConn, peers
  <2> QED  BY <1>1, <2>1
<1>8. ASSUME NEW k \in Clients, NEW s \in {"up", "fin", "rst", "closed"},
             client' = [client EXCEPT ![k] = s],
             client[k] \in {"fin", "rst"} => s # "up",
             client[k] = "new" \/ s # "up",
             wire' = wire, msg' = msg
      PROVE  [Box!ONext]_(Box!ovars)
  <2> DEFINE from == [n \in Msgs |-> msg[n].from]
             ended == {j \in Clients : client[j] \notin {"new", "up"}}
  <2>1. from' = from
    BY <1>8
  <2>2. /\ client'[k] = s
        /\ \A j \in Clients : j # k => client'[j] = client[j]
    BY <1>8 DEF TypeOK
  <2>3. CASE s = "up"
    <3>1. ended' = ended
      BY <1>8, <2>2, <2>3
    <3> QED  BY <1>8, <2>1, <3>1 DEF Box!ovars
  <2>4. CASE s # "up"
    <3>1. ended' = ended \cup {k}
      BY <2>2, <2>4
    <3>2. Box!OEnd(k)
      BY <1>8, <2>1, <3>1 DEF Box!OEnd
    <3> QED  BY <3>2 DEF Box!ONext
  <2> QED  BY <2>3, <2>4
<1>9. CASE CloseFd
  <2>1. ep.pc = "close" /\ wire' = wire /\ msg' = msg
    BY <1>9 DEF CloseFd
  <2>2. PICK k \in Clients : client' = [client EXCEPT ![k] = "closed"]
    <3>1. owner[conn[ep.c].fd] \in Clients
      BY <2>1, EpollConn DEF EpollRight, TypeOK
    <3>2. owner[conn[ep.c].fd] # None
      BY <2>1 DEF EpollRight
    <3> QED  BY <1>9, <3>1, <3>2 DEF CloseFd
  <2>3. "closed" \in {"up", "fin", "rst", "closed"} /\ "closed" # "up"
    OBVIOUS
  <2> QED  BY <1>8, <2>1, <2>2, <2>3
<1>10. ASSUME NEW k \in Clients, NEW c \in Conns, NEW f \in Fds,
              NgxEventAccept(k, c, f)
       PROVE  [Box!ONext]_(Box!ovars)
  <2>1. /\ client' = [client EXCEPT ![k] = "up"] /\ client[k] = "new"
        /\ wire' = wire /\ msg' = msg
    BY <1>10 DEF NgxEventAccept
  <2>2. "up" \in {"up", "fin", "rst", "closed"}
    OBVIOUS
  <2> QED  BY <1>8, <2>1, <2>2
<1>11. ASSUME NEW k \in Clients,
              PeerEnds(k, "fin") \/ PeerEnds(k, "rst") \/ PeerResets(k)
       PROVE  [Box!ONext]_(Box!ovars)
  <2>1. PICK s \in {"fin", "rst"} : client' = [client EXCEPT ![k] = s]
    BY <1>11 DEF PeerEnds, PeerResets
  <2>2. wire' = wire /\ msg' = msg
    BY <1>11 DEF PeerEnds, PeerResets
  <2>3. s \in {"up", "fin", "rst", "closed"} /\ s # "up"
    OBVIOUS
  <2> QED  BY <1>8, <2>1, <2>2, <2>3
<1>12. CASE \/ \E f \in Fds : EpollWait(f)
            \/ \E c \in Conns : PutOneToFree(c)
  <2>1. ASSUME NEW f \in Fds, EpollWait(f)
        PROVE  wire' = wire /\ msg' = msg /\ client' = client
    BY <2>1 DEF EpollWait
  <2>2. ASSUME NEW c \in Conns, PutOneToFree(c)
        PROVE  wire' = wire /\ msg' = msg /\ client' = client
    BY <2>2 DEF PutOneToFree, peers
  <2>3. wire' = wire /\ msg' = msg /\ client' = client
    BY <1>12, <2>1, <2>2
  <2> QED  BY <1>1, <2>3
<1>13. CASE UNCHANGED vars
  BY <1>1, <1>13 DEF vars, peers
<1> QED  BY <1>2, <1>3, <1>4, <1>5, <1>6, <1>7, <1>9, <1>10, <1>11, <1>12, <1>13
         DEF Next, ServerSendQueueThread, HandleEvent, zdCloseSocketProc,
             NgxWriteRequestHandler

\* The bytes a client gets are whole replies to its own requests, none twice,
\* and only the last may be cut short; a client that has ended its side may
\* find one cut short with another after it.
THEOREM Refinement == ~EarlyFd => (Spec => ImplementsOutbox)
<1>1. CASE EarlyFd
  BY <1>1, PTL
<1>2. CASE ~EarlyFd
  <2>1. Spec => []IInv
    BY <1>2, Invariance, PTL
  <2>2. IInv /\ [Next]_vars => [Box!ONext]_(Box!ovars)
    BY BoxNext
  <2> QED  BY <2>1, <2>2, BoxInit, PTL DEF Spec, ImplementsOutbox, Box!OSpec
<1> QED  BY <1>1, <1>2, EarlyAssumption

===============================================================================

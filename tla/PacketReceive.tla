---------------------------- MODULE PacketReceive -----------------------------
(***************************************************************************)
(* How CSocket cuts the bytes of one connection into packets.  The epoll   *)
(* thread reads what recv() gives (RecvProc) and NgxReadRequestHandler     *)
(* moves the connection through the four _PKG_ states: header, rest of the *)
(* header, body, rest of the body.  A packet that is complete goes to the  *)
(* thread pool, unless the flood check has the client closed.  The         *)
(* connection structure is used for one client after another.              *)
(*                                                                         *)
(* recv() and what the handler makes of its result are two steps: the      *)
(* timer thread may close the connection in between.  iCurrSequence, which *)
(* closing, freeing and using again each raise, goes into the header of a  *)
(* packet, and the pool drops a packet whose number is not the             *)
(* connection's any more.                                                  *)
(*                                                                         *)
(* A byte is named by its client, its packet and its place in the packet.  *)
(* A buffer is the sequence of bytes written into it so far.  irecvLen is  *)
(* a char, signed as on the x86-64 Linux the makefile builds for.          *)
(***************************************************************************)
EXTENDS Integers, Sequences, FiniteSets

CONSTANTS HdrLen,     \* sizeof(COMM_PKG_HEADER)
          MaxLen,     \* _PKG_MAX_LENGTH - 1000
          CharMax,    \* the largest char, 127
          Lens,       \* packet lengths that clients announce
          MaxPkts,    \* bound: packets that one client sends
          MaxLives,   \* bound: clients, one after the other
          FloodSettings, \* values of mFloodAttackEnable
          mFloodKickCount,
          None

ASSUME LensAssumption ==
  /\ CharMax \in Nat /\ MaxLen \in Nat
  /\ HdrLen \in 1..CharMax /\ HdrLen <= MaxLen
  /\ Lens \subseteq Nat
ASSUME BoundsAssumption == MaxPkts \in Nat /\ MaxLives \in Nat
ASSUME FloodAssumption == FloodSettings \subseteq {0, 1}

Byte == (1..MaxLives) \X (1..MaxPkts) \X (1..MaxLen)
\* A packet: its size, its bytes, and the number in its message header.
Buffer == [len : Nat, data : Seq(Byte), iCurrsequence : Nat]
ASSUME NoneAssumption == None \notin Buffer

VARIABLES
  life,     \* which client it is
  place,    \* the connection structure: "free", "live" or "recy"
  peer,     \* the client: "up", or how it ended, "fin" or "rst"
  sent,     \* the lengths it announced, packet by packet
  stream,   \* the bytes it sent that recv() has not returned
  pConn,    \* the fields of the connection structure
  reco,     \* recv()'s result that the handler is to work on, or 0
  heap,     \* packet buffers allocated here, not freed nor handed over
  out,      \* packets handed to the pool: InMsgRecvQueueAndSignal's calls
  headers,  \* their message headers, those of former clients included
  closedBy, \* why the connection was closed
  mFloodAttackEnable

client == <<life, peer, sent>>
vars == <<client, place, stream, pConn, reco, heap, out, headers,
          closedBy, mFloodAttackEnable>>

\* What n becomes in a signed char.
CharMin == -CharMax - 1
Char(n) == ((n - CharMin) % (CharMax - CharMin + 1)) + CharMin

Valid(L) == L \in HdrLen..MaxLen
Bytes(p, n) == [k \in 1..n |-> <<life, p, k>>]

\* The length field of a header: what the client wrote, or, if the bytes are
\* not a header of its, anything.
PkgLens(head) ==
  LET whose == {p \in 1..Len(sent) : head = Bytes(p, HdrLen)}
  IN IF whose = {} THEN Lens ELSE {sent[p] : p \in whose}

InHeader == pConn.curStat \in {"HD_INIT", "HD_RECVING"}

\* A structure as GetOneToUse leaves it, with number n.
Fresh(n) == [iCurrSequence |-> n, curStat |-> "HD_INIT", precvbuf |-> 0,
             irecvLen |-> HdrLen,
             dataHeadInfo |-> <<>>, precvMemPointer |-> None,
             FloodKickLastTime |-> FALSE, FloodAttackCount |-> 0]

Init ==
  /\ life = 0 /\ place = "free" /\ peer = "up"
  /\ sent = <<>> /\ stream = <<>>
  /\ pConn = Fresh(1)
  /\ reco = 0 /\ heap = 0 /\ out = <<>> /\ headers = {} /\ closedBy = "none"
  /\ mFloodAttackEnable \in FloodSettings

-----------------------------------------------------------------------------
(* The client.                                                             *)

\* A packet whose length the server will not accept is only its header.
SendPkt(L) ==
  /\ place = "live" /\ peer = "up" /\ Len(sent) < MaxPkts
  /\ sent' = Append(sent, L)
  /\ stream' = stream \o Bytes(Len(sent) + 1, IF Valid(L) THEN L ELSE HdrLen)
  /\ UNCHANGED <<life, peer, place, pConn, reco, heap, out, headers,
                 closedBy, mFloodAttackEnable>>

PeerEnds(how) ==
  /\ place = "live" /\ peer = "up"
  /\ peer' = how
  /\ UNCHANGED <<life, sent, place, stream, pConn, reco, heap, out, headers,
                 closedBy, mFloodAttackEnable>>

-----------------------------------------------------------------------------
(* Opening and closing.                                                    *)

Raised(c) == [c EXCEPT !.iCurrSequence = @ + 1]

\* Fault: the number starts again with each client.
GetOneToUseFromZero ==
  /\ place = "free" /\ life < MaxLives
  /\ place' = "live" /\ life' = life + 1 /\ peer' = "up"
  /\ sent' = <<>> /\ stream' = <<>> /\ out' = <<>> /\ closedBy' = "none"
  /\ pConn' = Fresh(1)
  /\ UNCHANGED <<reco, heap, headers, mFloodAttackEnable>>

\* The next client is accepted; the structure is the one just freed.
GetOneToUse ==
  /\ place = "free" /\ life < MaxLives
  /\ place' = "live" /\ life' = life + 1 /\ peer' = "up"
  /\ sent' = <<>> /\ stream' = <<>> /\ out' = <<>> /\ closedBy' = "none"
  /\ pConn' = Fresh(pConn.iCurrSequence + 1)
  /\ UNCHANGED <<reco, heap, headers, mFloodAttackEnable>>

\* Fault: the buffer of a packet not received to its end is not freed.
PutOneToFreeLeaks ==
  /\ place = "recy" /\ reco = 0
  /\ place' = "free"
  /\ pConn' = [Raised(pConn) EXCEPT !.precvMemPointer = None]
  /\ UNCHANGED <<client, stream, reco, heap, out, headers, closedBy,
                 mFloodAttackEnable>>

\* The recycling thread's wait lets the epoll thread finish first.
PutOneToFree ==
  /\ place = "recy" /\ reco = 0
  /\ place' = "free"
  /\ heap' = heap - (IF pConn.precvMemPointer = None THEN 0 ELSE 1)
  /\ pConn' = [Raised(pConn) EXCEPT !.precvMemPointer = None]
  /\ UNCHANGED <<client, stream, reco, out, headers, closedBy,
                 mFloodAttackEnable>>

\* With the fields of the structure as in c; InRecyConnecQueue raises the number
\* unless the structure is in the list already.
zdCloseSocketProc(why, c) ==
  /\ place' = "recy"
  /\ closedBy' = IF place = "live" THEN why ELSE closedBy
  /\ pConn' = IF place = "live" THEN Raised(c) ELSE c

TimerCloses ==
  /\ place = "live"
  /\ zdCloseSocketProc("timer", pConn)
  /\ UNCHANGED <<client, stream, reco, heap, out, headers, mFloodAttackEnable>>

-----------------------------------------------------------------------------
(* The epoll thread.                                                       *)

\* The first bytes of buf up to precvbuf, and then bs.
Write(buf, bs) == SubSeq(buf, 1, pConn.precvbuf) \o bs

\* recv(fd, precvbuf, irecvLen) gives n bytes.  A negative length is a huge
\* size_t.
RecvProc(n) ==
  /\ place = "live" /\ reco = 0
  /\ pConn.irecvLen >= 0 => n <= pConn.irecvLen
  /\ reco' = n
  /\ stream' = SubSeq(stream, n + 1, Len(stream))
  /\ LET bs == SubSeq(stream, 1, n) IN
     pConn' = IF InHeader
              THEN [pConn EXCEPT !.dataHeadInfo = Write(@, bs)]
              ELSE [pConn EXCEPT !.precvMemPointer.data = Write(@, bs)]
  /\ UNCHANGED <<client, place, heap, out, headers, closedBy, mFloodAttackEnable>>

\* recv() gives 0, at the end of the stream or because 0 bytes were asked
\* for, or fails with ECONNRESET.
RecvProcCloses ==
  /\ place = "live" /\ reco = 0
  /\ \/ peer = "rst"
     \/ peer = "fin" /\ stream = <<>>
     \/ stream # <<>> /\ pConn.irecvLen = 0
  /\ zdCloseSocketProc(IF peer = "up" THEN "server" ELSE "peer", pConn)
  /\ UNCHANGED <<client, stream, reco, heap, out, headers, mFloodAttackEnable>>

\* All that was asked for has come.
Done == reco = IF pConn.curStat = "HD_INIT" THEN HdrLen ELSE pConn.irecvLen

\* Fault: the rest of a header is awaited as if it were a whole one.
RecvPartHeaderInit ==
  /\ reco > 0 /\ ~Done
  /\ pConn' = [pConn EXCEPT
                 !.curStat = IF InHeader THEN "HD_INIT" ELSE "BD_RECVING",
                 !.precvbuf = @ + reco, !.irecvLen = Char(@ - reco)]
  /\ reco' = 0
  /\ UNCHANGED <<client, place, stream, heap, out, headers, closedBy,
                 mFloodAttackEnable>>

\* Fault: the length still to receive is not reduced.
RecvPartKeepsLen ==
  /\ reco > 0 /\ ~Done
  /\ pConn' = [pConn EXCEPT
                 !.curStat = IF InHeader THEN "HD_RECVING" ELSE "BD_RECVING",
                 !.precvbuf = @ + reco]
  /\ reco' = 0
  /\ UNCHANGED <<client, place, stream, heap, out, headers, closedBy,
                 mFloodAttackEnable>>

RecvPart ==
  /\ reco > 0 /\ ~Done
  /\ pConn' = [pConn EXCEPT
                 !.curStat = IF InHeader THEN "HD_RECVING" ELSE "BD_RECVING",
                 !.precvbuf = @ + reco, !.irecvLen = Char(@ - reco)]
  /\ reco' = 0
  /\ UNCHANGED <<client, place, stream, heap, out, headers, closedBy,
                 mFloodAttackEnable>>

\* The next bytes are a header.
NextHeader(c) == [c EXCEPT !.curStat = "HD_INIT", !.precvbuf = 0,
                           !.irecvLen = HdrLen]

\* Fault: the next header does not start at the buffer's beginning.
RejectHeaderKeepsOffset ==
  /\ reco > 0 /\ Done /\ InHeader
  /\ \E ePkgLen \in PkgLens(pConn.dataHeadInfo) : ~Valid(ePkgLen)
  /\ pConn' = [NextHeader(pConn) EXCEPT !.precvbuf = pConn.precvbuf]
  /\ reco' = 0
  /\ UNCHANGED <<client, place, stream, heap, out, headers, closedBy,
                 mFloodAttackEnable>>

\* A header whose length is below the header's or too large is passed over.
RejectHeader ==
  /\ reco > 0 /\ Done /\ InHeader
  /\ \E ePkgLen \in PkgLens(pConn.dataHeadInfo) : ~Valid(ePkgLen)
  /\ pConn' = NextHeader(pConn)
  /\ reco' = 0
  /\ UNCHANGED <<client, place, stream, heap, out, headers, closedBy,
                 mFloodAttackEnable>>

\* A header that announces a body: the buffer for both is allocated, and its
\* message header gets the number that the connection has now.
NgxWaitRequestHandlerProcPL ==
  /\ reco > 0 /\ Done /\ InHeader
  /\ \E ePkgLen \in PkgLens(pConn.dataHeadInfo) :
       /\ Valid(ePkgLen) /\ ePkgLen # HdrLen
       /\ pConn' = [pConn EXCEPT
            !.precvMemPointer = [len |-> ePkgLen, data |-> pConn.dataHeadInfo,
                                 iCurrsequence |-> pConn.iCurrSequence],
            !.curStat = "BD_INIT", !.precvbuf = HdrLen,
            !.irecvLen = Char(ePkgLen - HdrLen)]
  /\ heap' = heap + 1
  /\ reco' = 0
  /\ UNCHANGED <<client, place, stream, out, headers, closedBy,
                 mFloodAttackEnable>>

\* TestFlood: is it less than mFloodTimeInterval since the last packet?  The
\* answer is TRUE whatever reco, its local variable, says.
FloodCounted(quick) ==
  [pConn EXCEPT !.FloodKickLastTime = TRUE,
                !.FloodAttackCount = IF quick THEN @ + 1 ELSE 0]
TestFlood == TRUE

\* NgxWaitRequsetHandlerProcLast with the packet data, stamped with number; the
\* buffer goes to the pool, or is freed and the client closed.
Complete(data, number, extra) ==
  \E quick \in IF pConn.FloodKickLastTime THEN BOOLEAN ELSE {FALSE} :
    LET counted == IF mFloodAttackEnable = 1 THEN FloodCounted(quick) ELSE pConn
        isFlood == mFloodAttackEnable = 1 /\ TestFlood
        c == [NextHeader(counted) EXCEPT !.precvMemPointer = None]
        header == [from |-> data[1][1], iCurrsequence |-> number]
    IN /\ heap' = heap + extra - 1
       /\ IF isFlood
          THEN zdCloseSocketProc("flood", c) /\ UNCHANGED <<out, headers>>
          ELSE /\ out' = Append(out, data) /\ headers' = headers \cup {header}
               /\ pConn' = c
               /\ UNCHANGED <<place, closedBy>>

\* A header that announces no body is a packet.
CompleteHeader ==
  /\ reco > 0 /\ Done /\ InHeader
  /\ HdrLen \in PkgLens(pConn.dataHeadInfo)
  /\ Complete(pConn.dataHeadInfo, pConn.iCurrSequence, 1)
  /\ reco' = 0
  /\ UNCHANGED <<client, stream, mFloodAttackEnable>>

CompleteBody ==
  /\ reco > 0 /\ Done /\ ~InHeader
  /\ LET b == pConn.precvMemPointer IN Complete(b.data, b.iCurrsequence, 0)
  /\ reco' = 0
  /\ UNCHANGED <<client, stream, mFloodAttackEnable>>

NgxReadRequestHandler ==
  \/ \E n \in 1..Len(stream) : RecvProc(n)
  \/ RecvProcCloses
  \/ RecvPart \/ RejectHeader \/ NgxWaitRequestHandlerProcPL
  \/ CompleteHeader \/ CompleteBody

Next ==
  \/ \E L \in Lens : SendPkt(L)
  \/ \E how \in {"fin", "rst"} : PeerEnds(how)
  \/ GetOneToUse \/ PutOneToFree \/ TimerCloses
  \/ NgxReadRequestHandler

\* EPOLLIN is level-triggered: bytes and ends that wait in the socket are
\* reported until the thread has read them.
Spec == Init /\ [][Next]_vars /\ WF_vars(NgxReadRequestHandler)

-----------------------------------------------------------------------------
(* Properties.                                                             *)

BytesOnly(s) == \A i \in 1..Len(s) : s[i] \in Byte

TypeOK ==
  /\ life \in 0..MaxLives /\ place \in {"free", "live", "recy"}
  /\ peer \in {"up", "fin", "rst"}
  /\ \A p \in 1..Len(sent) : sent[p] \in Lens
  /\ BytesOnly(stream) /\ BytesOnly(pConn.dataHeadInfo)
  /\ Len(pConn.dataHeadInfo) <= HdrLen
  /\ pConn.curStat \in {"HD_INIT", "HD_RECVING", "BD_INIT", "BD_RECVING"}
  /\ pConn.iCurrSequence \in Nat
  /\ headers \subseteq [from : 1..MaxLives, iCurrsequence : Nat]
  /\ pConn.irecvLen \in CharMin..CharMax /\ pConn.precvbuf \in 0..MaxLen
  /\ pConn.precvMemPointer # None =>
       /\ Valid(pConn.precvMemPointer.len)
       /\ BytesOnly(pConn.precvMemPointer.data)
  /\ pConn.FloodKickLastTime \in BOOLEAN /\ pConn.FloodAttackCount \in Nat
  /\ reco \in Nat /\ heap \in Nat
  /\ \A i \in 1..Len(out) : BytesOnly(out[i])
  /\ closedBy \in {"none", "peer", "timer", "server", "flood"}
  /\ mFloodAttackEnable \in {0, 1}

\* How many of a client's first p packets the server should accept.
Wanted(p) == Cardinality({q \in 1..p : Valid(sent[q])})

\* However recv() cuts the stream, the pool gets the client's valid packets,
\* byte for byte, in order, none left out and nothing of a former client.
FramedRight ==
  \A i \in 1..Len(out) : \E p \in 1..Len(sent) :
    Valid(sent[p]) /\ Wanted(p) = i /\ out[i] = Bytes(p, sent[p])

\* A packet whose number is still its connection's (ThreadRecvProcFunc acts on
\* it then) is of the client that is there, or was there last, however long it
\* waited and also if the timer thread had closed the connection when
\* NgxWaitRequestHandlerProcPL read the number.
NumberNamesClient ==
  \A h \in headers : h.iCurrsequence = pConn.iCurrSequence => h.from = life

\* "How much data to receive is given by this variable" (ngx_c_socket.h:65):
\* irecvLen is what is missing of the header or the packet, never more than
\* the buffer has room for.
LengthRight ==
  place # "free" =>
    pConn.irecvLen = (IF InHeader THEN HdrLen ELSE pConn.precvMemPointer.len)
                       - pConn.precvbuf

\* Every packet buffer has been freed, handed to the pool once, or is the one
\* being filled; none is lost when its connection goes and is used again.
BufferAccounted ==
  heap = IF pConn.precvMemPointer = None THEN 0 ELSE 1

\* A packet sent to its end reaches the pool, unless the client or the timer
\* ends the connection.
PacketsArrive ==
  \A i \in 1..MaxPkts :
    mFloodAttackEnable = 0 /\ Wanted(Len(sent)) >= i
      ~> Len(out) >= i \/ peer # "up" \/ closedBy = "timer"
===============================================================================

-------------------------- MODULE PacketReceiveProofs --------------------------
(***************************************************************************)
(* Theorems about PacketReceive, for every size of header, limit and char  *)
(* and for any number of clients and packets.  The code does not see to it *)
(* that a body's length fits the char irecvLen; the theorems say what that *)
(* costs.  Packets are cut right if every body fits (Fits).  If a body may *)
(* be longer, but none makes irecvLen negative (NotNegative), the buffers  *)
(* and the numbers are still right.                                        *)
(***************************************************************************)
EXTENDS PacketReceive, SequenceTheorems, FiniteSetTheorems, TLAPS

\* The body of every packet that is accepted has a length that irecvLen holds.
Fits == \A L \in Lens : Valid(L) => L - HdrLen <= CharMax

\* It may be longer, but what irecvLen makes of the length is not negative.
NotNegative == \A L \in Lens : Valid(L) => Char(L - HdrLen) >= 0

-----------------------------------------------------------------------------
(* The inductive invariants.                                               *)

HeaderStat == {"HD_INIT", "HD_RECVING"}

PConn == [iCurrSequence : Nat,
          curStat : HeaderStat \cup {"BD_INIT", "BD_RECVING"},
          precvbuf : 0..MaxLen, irecvLen : CharMin..CharMax,
          dataHeadInfo : Seq(Byte), precvMemPointer : Buffer \cup {None},
          FloodKickLastTime : BOOLEAN, FloodAttackCount : Nat]

\* The buffer that structure c receives into: its size and what it holds.
Size(c) == IF c.curStat \in HeaderStat THEN HdrLen ELSE c.precvMemPointer.len
Held(c) == IF c.curStat \in HeaderStat THEN c.dataHeadInfo
           ELSE c.precvMemPointer.data

\* A client's structure when n bytes were received and not yet looked at.  In
\* the body less may be asked for than is missing, never more.
ConnRight(c, n) ==
  /\ c.precvMemPointer = None <=> c.curStat \in HeaderStat
  /\ c.precvMemPointer # None => Valid(c.precvMemPointer.len)
  /\ c.curStat = "HD_INIT" => c.precvbuf = 0
  /\ IF c.curStat \in HeaderStat
     THEN c.irecvLen = HdrLen - c.precvbuf /\ c.irecvLen >= 1
     ELSE c.precvbuf >= HdrLen
  /\ c.irecvLen >= 0 /\ c.precvbuf + c.irecvLen <= Size(c)
  /\ n <= c.irecvLen
  /\ c.precvbuf + n <= Len(Held(c))

\* All that is missing is asked for, and that is something.
Exact(c) == c.irecvLen = Size(c) - c.precvbuf /\ c.irecvLen >= 1

World ==
  /\ life \in 0..MaxLives /\ peer \in {"up", "fin", "rst"}
  /\ place \in {"free", "live", "recy"} /\ (place # "free" => life >= 1)
  /\ sent \in Seq(Lens) /\ Len(sent) <= MaxPkts
  /\ stream \in Seq(Byte) /\ out \in Seq(Seq(Byte))
  /\ headers \subseteq [from : 1..MaxLives, iCurrsequence : Nat]
  /\ closedBy \in {"none", "peer", "timer", "server", "flood"}
  /\ mFloodAttackEnable \in {0, 1}

BufferInv ==
  /\ World
  /\ pConn \in PConn /\ Len(pConn.dataHeadInfo) <= HdrLen
  /\ reco \in Nat /\ heap \in Nat
  /\ place = "free" => reco = 0 /\ pConn.precvMemPointer = None
  /\ place # "free" => ConnRight(pConn, reco)
  /\ BufferAccounted

ExactInv == place # "free" => Exact(pConn)

IInv == BufferInv /\ ExactInv

\* The epoll thread never asks recv() for more than its buffer has room for,
\* the bytes included that it has not looked at yet.
WithinBuffer ==
  place # "free" =>
    /\ pConn.irecvLen >= 0
    /\ pConn.precvbuf + pConn.irecvLen <=
         IF InHeader THEN HdrLen ELSE pConn.precvMemPointer.len
    /\ reco <= pConn.irecvLen

-----------------------------------------------------------------------------
(* Lemmas about the operators.                                             *)

\* A length that a char can hold is not changed by becoming one.
LEMMA CharId ==
  ASSUME NEW n \in CharMin..CharMax
  PROVE  Char(n) = n
<1> DEFINE a == n - CharMin
           m == CharMax - CharMin + 1
<1>1. a \in Nat /\ m \in Nat /\ a < m
  BY LensAssumption DEF CharMin
<1>2. a % m = a
  BY <1>1
<1> QED  BY <1>2, LensAssumption DEF Char, CharMin

\* A part of a sequence.
LEMMA SubSeqIn ==
  ASSUME NEW S, NEW s \in Seq(S), NEW m \in Nat \ {0}, NEW n \in Nat,
         n <= Len(s)
  PROVE  /\ SubSeq(s, m, n) \in Seq(S)
         /\ Len(SubSeq(s, m, n)) = IF m <= n THEN n - m + 1 ELSE 0
<1>1. \A i \in m..n : s[i] \in S
  BY LenProperties, ElementOfSeq
<1> QED  BY <1>1, SubSeqProperties

\* What a client sends is bytes.
LEMMA BytesIn ==
  ASSUME life \in 1..MaxLives, NEW p \in 1..MaxPkts, NEW n \in Nat, n <= MaxLen
  PROVE  Bytes(p, n) \in Seq(Byte)
<1>1. \A k \in 1..n : <<life, p, k>> \in Byte
  BY LensAssumption DEF Byte
<1> QED  BY <1>1 DEF Bytes

\* Receiving into a buffer that is filled up to precvbuf leaves it a buffer,
\* filled up to precvbuf and what was received.
LEMMA WriteIn ==
  ASSUME NEW b \in Seq(Byte), NEW bs \in Seq(Byte),
         pConn.precvbuf \in Nat, pConn.precvbuf <= Len(b)
  PROVE  /\ Write(b, bs) \in Seq(Byte)
         /\ Len(Write(b, bs)) = pConn.precvbuf + Len(bs)
<1>1. /\ SubSeq(b, 1, pConn.precvbuf) \in Seq(Byte)
      /\ Len(SubSeq(b, 1, pConn.precvbuf)) = pConn.precvbuf
  BY SubSeqIn
<1> QED  BY <1>1, ConcatProperties DEF Write

\* A length that the server reads is one that some client may announce.
LEMMA PkgLensIn ==
  ASSUME sent \in Seq(Lens), NEW h
  PROVE  PkgLens(h) \subseteq Lens
BY ElementOfSeq, LenProperties DEF PkgLens

\* No length that is not negative grows by becoming a char.
LEMMA CharSmaller ==
  ASSUME NEW n \in Nat
  PROVE  Char(n) \in Int /\ Char(n) <= n /\ Char(n) <= CharMax
<1> DEFINE a == n - CharMin
           m == CharMax - CharMin + 1
<1>1. a \in Nat /\ m \in Nat \ {0} /\ a = n + CharMax + 1
  BY LensAssumption DEF CharMin
<1>2. a % m \in 0..(m - 1) /\ a % m <= a
  <2> HIDE DEF a, m
  <2>1. a % m \in 0..(m - 1)
    BY <1>1
  <2>2. CASE a < m
    BY <1>1, <2>2
  <2>3. CASE a >= m
    BY <1>1, <2>1, <2>3
  <2> QED  BY <1>1, <2>1, <2>2, <2>3
<1>3. m = CharMax + CharMax + 2 /\ Char(n) = (a % m) - CharMax - 1
  BY LensAssumption DEF Char, CharMin
<1> HIDE DEF a, m
<1> QED  BY <1>1, <1>2, <1>3, LensAssumption

\* A body that fits makes no length negative.
LEMMA FitsNotNegative == Fits => NotNegative
<1> SUFFICES ASSUME Fits, NEW L \in Lens, Valid(L) PROVE Char(L - HdrLen) >= 0
  BY DEF NotNegative
<1>1. L - HdrLen \in Nat /\ L - HdrLen <= CharMax
  BY LensAssumption DEF Fits, Valid
<1>2. L - HdrLen \in CharMin..CharMax
  BY <1>1, LensAssumption DEF CharMin
<1> QED  BY <1>1, <1>2, CharId

\* The invariants are stronger than the properties.
LEMMA BufferInvImplies == BufferInv => TypeOK /\ WithinBuffer
<1> SUFFICES ASSUME BufferInv PROVE TypeOK /\ WithinBuffer
  OBVIOUS
<1>1. \A b \in Seq(Byte) : BytesOnly(b)
  BY ElementOfSeq, LenProperties DEF BytesOnly
<1>2. \A i \in 1..Len(out) : BytesOnly(out[i])
  BY <1>1, ElementOfSeq, LenProperties DEF BufferInv, World
<1>3. \A i \in 1..Len(sent) : sent[i] \in Lens
  BY ElementOfSeq, LenProperties DEF BufferInv, World
<1>4. pConn.precvMemPointer # None =>
        /\ Valid(pConn.precvMemPointer.len)
        /\ BytesOnly(pConn.precvMemPointer.data)
  BY <1>1 DEF BufferInv, PConn, ConnRight, Buffer, World
<1>5. TypeOK
  BY <1>1, <1>2, <1>3, <1>4
  DEF BufferInv, World, PConn, HeaderStat, TypeOK
<1>6. WithinBuffer
  BY DEF BufferInv, ConnRight, WithinBuffer, InHeader, Size, HeaderStat
<1> QED  BY <1>5, <1>6

LEMMA InvImplies == IInv => LengthRight
BY DEF IInv, ExactInv, Exact, LengthRight, InHeader, Size, HeaderStat

-----------------------------------------------------------------------------
(* What holds of the buffers.                                              *)

\* GetOneToUse gives a structure as it should be.
LEMMA FreshRight ==
  ASSUME NEW n \in Nat
  PROVE  /\ Fresh(n) \in PConn /\ Fresh(n).precvMemPointer = None
         /\ ConnRight(Fresh(n), 0) /\ Len(Fresh(n).dataHeadInfo) <= HdrLen
         /\ Fresh(n).iCurrSequence = n
<1>1. <<>> \in Seq(Byte) /\ Len(<<>>) = 0
  OBVIOUS
<1> QED
  BY <1>1, LensAssumption
  DEF Fresh, PConn, ConnRight, HeaderStat, Size, Held, CharMin

LEMMA BufferInvInit == Init => BufferInv
<1>1. Fresh(1) \in PConn /\ Len(Fresh(1).dataHeadInfo) <= HdrLen
  BY FreshRight
<1> QED
  BY <1>1, BoundsAssumption, FloodAssumption
  DEF Init, BufferInv, World, BufferAccounted, Fresh

\* Raising the number changes nothing else.
LEMMA RaisedSame ==
  ASSUME NEW c \in PConn
  PROVE  LET d == Raised(c) IN
         /\ d \in PConn /\ d.iCurrSequence = c.iCurrSequence + 1
         /\ d.curStat = c.curStat /\ d.precvbuf = c.precvbuf
         /\ d.irecvLen = c.irecvLen /\ d.dataHeadInfo = c.dataHeadInfo
         /\ d.precvMemPointer = c.precvMemPointer
         /\ \A n \in Nat : ConnRight(c, n) => ConnRight(d, n)
<1>1. c.iCurrSequence + 1 \in Nat
  BY DEF PConn
<1> QED  BY <1>1 DEF Raised, PConn, ConnRight, Size, Held

\* Closing does no more to a structure than that.
LEMMA ClosedSame ==
  ASSUME NEW c \in PConn, NEW why, zdCloseSocketProc(why, c)
  PROVE  /\ pConn' \in PConn /\ pConn'.curStat = c.curStat
         /\ pConn'.precvbuf = c.precvbuf /\ pConn'.irecvLen = c.irecvLen
         /\ pConn'.dataHeadInfo = c.dataHeadInfo
         /\ pConn'.precvMemPointer = c.precvMemPointer
         /\ pConn'.iCurrSequence >= c.iCurrSequence
         /\ \A n \in Nat : ConnRight(c, n) => ConnRight(pConn', n)
<1>1. c.iCurrSequence \in Nat
  BY DEF PConn
<1> QED  BY <1>1, RaisedSame DEF zdCloseSocketProc

\* The fields of a structure in use.
LEMMA Used ==
  ASSUME BufferInv, place # "free"
  PROVE  /\ pConn \in PConn /\ ConnRight(pConn, reco) /\ reco \in Nat
         /\ pConn.precvbuf \in Nat /\ pConn.irecvLen \in 0..CharMax
         /\ Size(pConn) \in 1..MaxLen
         /\ pConn.precvbuf + pConn.irecvLen <= Size(pConn)
         /\ pConn.dataHeadInfo \in Seq(Byte) /\ Held(pConn) \in Seq(Byte)
         /\ InHeader <=> pConn.precvMemPointer = None
         /\ InHeader => pConn.precvbuf + pConn.irecvLen = HdrLen
         /\ ~InHeader => /\ pConn.precvMemPointer \in Buffer
                         /\ pConn.precvbuf >= HdrLen
         /\ Done <=> reco = pConn.irecvLen
<1>1. pConn \in PConn /\ ConnRight(pConn, reco) /\ reco \in Nat
  BY DEF BufferInv
<1>2. /\ pConn.precvbuf \in Nat /\ pConn.irecvLen \in Int
      /\ pConn.dataHeadInfo \in Seq(Byte)
      /\ pConn.irecvLen <= CharMax /\ pConn.irecvLen >= 0
  BY <1>1, LensAssumption DEF PConn, CharMin, ConnRight
<1>3. /\ InHeader <=> pConn.precvMemPointer = None
      /\ ~InHeader => pConn.precvMemPointer \in Buffer
      /\ ~InHeader => Valid(pConn.precvMemPointer.len)
      /\ ~InHeader => pConn.precvbuf >= HdrLen
  BY <1>1 DEF ConnRight, InHeader, HeaderStat, PConn
<1>4. /\ Size(pConn) \in 1..MaxLen
      /\ Held(pConn) \in Seq(Byte)
  BY <1>2, <1>3, LensAssumption
  DEF Size, Held, InHeader, HeaderStat, Valid, Buffer
<1>5. /\ pConn.precvbuf + pConn.irecvLen <= Size(pConn)
      /\ InHeader => pConn.irecvLen = HdrLen - pConn.precvbuf
      /\ pConn.curStat = "HD_INIT" => pConn.precvbuf = 0 /\ InHeader
  BY <1>1 DEF ConnRight, InHeader, HeaderStat
<1>6. InHeader => pConn.precvbuf + pConn.irecvLen = HdrLen
  BY <1>2, <1>5, LensAssumption
<1>7. Done <=> reco = pConn.irecvLen
  BY <1>2, <1>5, LensAssumption DEF Done
<1> QED  BY <1>1, <1>2, <1>3, <1>4, <1>5, <1>6, <1>7, LensAssumption

\* When all of a header has come, it is there.
LEMMA DoneMeans ==
  ASSUME BufferInv, place # "free", Done, InHeader
  PROVE  Len(pConn.dataHeadInfo) >= HdrLen
<1>1. Held(pConn) = pConn.dataHeadInfo
  BY DEF Held, InHeader, HeaderStat
<1>2. /\ pConn.precvbuf + reco <= Len(pConn.dataHeadInfo)
      /\ Len(pConn.dataHeadInfo) \in Nat
  BY <1>1, Used, LenProperties DEF ConnRight
<1> QED  BY <1>2, Used, LensAssumption

\* What recv() gave is only ever worked on for a structure in use.
LEMMA Busy == ASSUME BufferInv, reco > 0 PROVE place # "free"
BY DEF BufferInv

\* A structure that waits for a header is as it should be.
LEMMA HeaderNext ==
  ASSUME NEW d \in PConn, d.curStat = "HD_INIT", d.precvbuf = 0,
         d.irecvLen = HdrLen, d.precvMemPointer = None
  PROVE  ConnRight(d, 0)
<1>1. Len(d.dataHeadInfo) \in Nat
  BY LenProperties DEF PConn
<1> QED  BY <1>1, LensAssumption DEF ConnRight, HeaderStat, Size, Held

\* A header's length fits what it is assigned to.
LEMMA HdrLenIn == HdrLen \in CharMin..CharMax /\ 0 \in 0..MaxLen
BY LensAssumption DEF CharMin

\* A part of a header or of a body.
LEMMA InvPart == BufferInv /\ RecvPart => BufferInv'
<1> SUFFICES ASSUME BufferInv, RecvPart PROVE BufferInv'
  OBVIOUS
<1>1. place # "free" /\ reco > 0 /\ reco < pConn.irecvLen
  BY Busy, Used DEF RecvPart, ConnRight
<1> DEFINE buf == pConn.precvbuf + reco
           len == pConn.irecvLen - reco
<1>2. /\ buf \in 0..MaxLen /\ len \in 1..CharMax
      /\ buf + len <= Size(pConn)
      /\ InHeader => len = HdrLen - buf
      /\ ~InHeader => buf >= HdrLen
  <2>1. /\ reco \in Nat /\ pConn.precvbuf \in Nat
        /\ pConn.irecvLen \in 0..CharMax /\ Size(pConn) \in 1..MaxLen
        /\ pConn.precvbuf + pConn.irecvLen <= Size(pConn)
        /\ InHeader => pConn.precvbuf + pConn.irecvLen = HdrLen
        /\ ~InHeader => pConn.precvbuf >= HdrLen
    BY <1>1, Used
  <2> QED  BY <1>1, <2>1, LensAssumption
<1>3. Char(len) = len /\ len \in CharMin..CharMax
  BY <1>2, CharId, LensAssumption DEF CharMin
<1>4. /\ pConn'.curStat = IF InHeader THEN "HD_RECVING" ELSE "BD_RECVING"
      /\ pConn'.precvbuf = buf /\ pConn'.irecvLen = len
      /\ pConn'.precvMemPointer = pConn.precvMemPointer
      /\ pConn'.dataHeadInfo = pConn.dataHeadInfo
      /\ pConn' \in PConn
  BY <1>1, <1>2, <1>3, Used DEF RecvPart, PConn, HeaderStat
<1>5. Size(pConn') = Size(pConn) /\ Held(pConn') = Held(pConn)
  BY <1>4 DEF Size, Held, HeaderStat, InHeader
<1>6. ConnRight(pConn', 0)
  <2>1. pConn'.precvMemPointer = None <=> pConn'.curStat \in HeaderStat
    BY <1>1, <1>4, Used DEF HeaderStat
  <2>2. pConn'.precvMemPointer # None => Valid(pConn'.precvMemPointer.len)
    BY <1>1, <1>4, Used DEF ConnRight
  <2>3. buf <= Len(Held(pConn))
    BY <1>1, Used DEF ConnRight
  <2>4. IF pConn'.curStat \in HeaderStat
        THEN len = HdrLen - buf ELSE buf >= HdrLen
    BY <1>2, <1>4 DEF HeaderStat
  <2>5. pConn'.curStat # "HD_INIT"
    BY <1>4
  <2> QED  BY <2>1, <2>2, <2>3, <2>4, <2>5, <1>2, <1>4, <1>5 DEF ConnRight
<1> QED
  BY <1>1, <1>4, <1>6 DEF BufferInv, World, RecvPart, client, BufferAccounted

\* A header that is passed over.
LEMMA InvReject == BufferInv /\ RejectHeader => BufferInv'
<1> SUFFICES ASSUME BufferInv, RejectHeader PROVE BufferInv'
  OBVIOUS
<1>1. pConn.precvMemPointer = None /\ place # "free"
  BY Busy, Used DEF RejectHeader
<1>2. /\ pConn'.curStat = "HD_INIT" /\ pConn'.precvbuf = 0
      /\ pConn'.irecvLen = HdrLen /\ pConn'.precvMemPointer = None
      /\ pConn'.dataHeadInfo = pConn.dataHeadInfo /\ pConn' \in PConn
  BY <1>1, Used, HdrLenIn DEF RejectHeader, NextHeader, PConn, HeaderStat
<1>3. ConnRight(pConn', 0)
  BY <1>2, HeaderNext
<1> QED
  BY <1>1, <1>2, <1>3
  DEF BufferInv, World, RejectHeader, client, BufferAccounted

\* A header that announces a body.
LEMMA InvProcPL ==
  NotNegative /\ BufferInv /\ NgxWaitRequestHandlerProcPL => BufferInv'
<1> SUFFICES ASSUME NotNegative, BufferInv, NgxWaitRequestHandlerProcPL
             PROVE  BufferInv'
  OBVIOUS
<1>1. /\ place # "free" /\ InHeader /\ Done /\ pConn.precvMemPointer = None
  BY Busy, Used DEF NgxWaitRequestHandlerProcPL
<1>2. Len(pConn.dataHeadInfo) >= HdrLen
  BY <1>1, DoneMeans
<1>3. PICK L \in PkgLens(pConn.dataHeadInfo) :
        /\ Valid(L) /\ L # HdrLen
        /\ pConn' = [pConn EXCEPT
             !.precvMemPointer = [len |-> L, data |-> pConn.dataHeadInfo,
                                  iCurrsequence |-> pConn.iCurrSequence],
             !.curStat = "BD_INIT", !.precvbuf = HdrLen,
             !.irecvLen = Char(L - HdrLen)]
  BY DEF NgxWaitRequestHandlerProcPL
<1>4. /\ L \in Nat /\ L \in Lens /\ L \in HdrLen..MaxLen
      /\ L - HdrLen \in Nat /\ HdrLen \in 0..MaxLen
  BY <1>3, PkgLensIn, LensAssumption DEF BufferInv, World, Valid
<1> DEFINE k == Char(L - HdrLen)
<1>5. k >= 0 /\ k <= L - HdrLen /\ k \in CharMin..CharMax
  BY <1>3, <1>4, CharSmaller, LensAssumption DEF CharMin, NotNegative
<1> HIDE DEF k
<1> DEFINE b == [len |-> L, data |-> pConn.dataHeadInfo,
                 iCurrsequence |-> pConn.iCurrSequence]
<1>6. b \in Buffer /\ b # None /\ b.len = L /\ b.data = pConn.dataHeadInfo
  <2>1. pConn.iCurrSequence \in Nat
    BY <1>1, Used DEF PConn
  <2> QED  BY <2>1, <1>1, <1>4, Used, NoneAssumption DEF Buffer
<1>7. /\ pConn'.curStat = "BD_INIT" /\ pConn'.precvbuf = HdrLen
      /\ pConn'.irecvLen = k /\ pConn'.precvMemPointer = b
      /\ pConn'.dataHeadInfo = pConn.dataHeadInfo /\ pConn' \in PConn
  BY <1>1, <1>3, <1>4, <1>5, <1>6, Used DEF PConn, k
<1>8. ConnRight(pConn', 0)
  <2>1. Size(pConn') = L /\ Held(pConn') = pConn.dataHeadInfo
    BY <1>6, <1>7 DEF Size, Held, HeaderStat
  <2> QED
    BY <2>1, <1>2, <1>3, <1>4, <1>5, <1>6, <1>7, LensAssumption
    DEF ConnRight, HeaderStat
<1> QED
  BY <1>1, <1>6, <1>7, <1>8
  DEF BufferInv, World, NgxWaitRequestHandlerProcPL, client, BufferAccounted

\* What a complete packet leaves of the structure, whatever becomes of it.
LEMMA CompleteNext ==
  ASSUME pConn \in PConn, NEW data, NEW number, NEW extra,
         Complete(data, number, extra)
  PROVE  /\ pConn' \in PConn /\ pConn'.precvMemPointer = None
         /\ pConn'.curStat = "HD_INIT" /\ pConn'.precvbuf = 0
         /\ pConn'.irecvLen = HdrLen
         /\ pConn'.dataHeadInfo = pConn.dataHeadInfo
         /\ pConn'.iCurrSequence >= pConn.iCurrSequence
<1> DEFINE counted(q) == IF mFloodAttackEnable = 1 THEN FloodCounted(q)
                         ELSE pConn
<1>1. PICK quick \in BOOLEAN :
        LET d == [NextHeader(counted(quick)) EXCEPT !.precvMemPointer = None]
        IN  zdCloseSocketProc("flood", d) \/ pConn' = d
  BY DEF Complete
<1> DEFINE c == counted(quick)
           d == [NextHeader(c) EXCEPT !.precvMemPointer = None]
<1>2. /\ c \in PConn /\ c.dataHeadInfo = pConn.dataHeadInfo
      /\ c.iCurrSequence = pConn.iCurrSequence
  <2>1. pConn.FloodAttackCount + 1 \in Nat
    BY DEF PConn
  <2> DEFINE k == IF quick THEN pConn.FloodAttackCount + 1 ELSE 0
  <2>2. k \in Nat
    BY <2>1
  <2>3. FloodCounted(quick) =
          [pConn EXCEPT !.FloodKickLastTime = TRUE, !.FloodAttackCount = k]
    BY DEF FloodCounted
  <2> HIDE DEF k
  <2>4. /\ FloodCounted(quick) \in PConn
        /\ FloodCounted(quick).dataHeadInfo = pConn.dataHeadInfo
        /\ FloodCounted(quick).iCurrSequence = pConn.iCurrSequence
    BY <2>2, <2>3 DEF PConn
  <2> QED  BY <2>4
<1> HIDE DEF c
<1>3. /\ d.curStat = "HD_INIT" /\ d.precvbuf = 0
      /\ d.irecvLen = HdrLen /\ d.precvMemPointer = None
      /\ d.dataHeadInfo = pConn.dataHeadInfo /\ d \in PConn
      /\ d.iCurrSequence = pConn.iCurrSequence
  BY <1>2, HdrLenIn DEF NextHeader, PConn, HeaderStat
<1>4. pConn.iCurrSequence \in Nat
  BY DEF PConn
<1>5. zdCloseSocketProc("flood", d) \/ pConn' = d
  BY <1>1 DEF c
<1> HIDE DEF d
<1>6. CASE zdCloseSocketProc("flood", d)
  BY <1>3, <1>6, ClosedSame
<1>7. CASE pConn' = d
  BY <1>3, <1>4, <1>7
<1> QED  BY <1>5, <1>6, <1>7

\* What happens to a packet, given its bytes, whether its buffer existed or not.
LEMMA InvComplete ==
  ASSUME BufferInv, place # "free", NEW data \in Seq(Byte), Len(data) >= 1,
         NEW number \in Nat, NEW extra \in {0, 1},
         extra = 1 <=> pConn.precvMemPointer = None,
         Complete(data, number, extra), reco' = 0,
         UNCHANGED <<client, stream, mFloodAttackEnable>>
  PROVE  BufferInv'
<1> DEFINE header == [from |-> data[1][1], iCurrsequence |-> number]
<1>1. /\ place' \in {place, "recy"} /\ closedBy' \in {closedBy, "flood"}
      /\ out' \in {out, Append(out, data)}
      /\ headers' \in {headers, headers \cup {header}}
  BY DEF Complete, zdCloseSocketProc
<1>3. /\ pConn'.curStat = "HD_INIT" /\ pConn'.precvbuf = 0
      /\ pConn'.irecvLen = HdrLen /\ pConn'.precvMemPointer = None
      /\ pConn'.dataHeadInfo = pConn.dataHeadInfo /\ pConn' \in PConn
  <2>1. pConn \in PConn
    BY DEF BufferInv
  <2> QED  BY <2>1, CompleteNext
<1>4. ConnRight(pConn', 0)
  BY <1>3, HeaderNext
<1>5. heap' = 0
  BY DEF Complete, BufferInv, BufferAccounted
<1>6. out' \in Seq(Seq(Byte))
  <2>1. out \in Seq(Seq(Byte))
    BY DEF BufferInv, World
  <2>2. Append(out, data) \in Seq(Seq(Byte))
    BY <2>1
  <2> QED  BY <2>1, <2>2, <1>1
<1>8. headers' \subseteq [from : 1..MaxLives, iCurrsequence : Nat]
  <2>1. data[1] \in Byte
    BY LenProperties, ElementOfSeq
  <2>2. header \in [from : 1..MaxLives, iCurrsequence : Nat]
    BY <2>1 DEF Byte
  <2> HIDE DEF header
  <2> QED  BY <1>1, <2>2 DEF BufferInv, World
<1>9. World' /\ place' # "free"
  BY <1>1, <1>6, <1>8 DEF BufferInv, World, client
<1> QED
  BY <1>3, <1>4, <1>5, <1>9 DEF BufferInv, BufferAccounted

\* A packet with no body, or with all of it.
LEMMA InvCompletes ==
  BufferInv /\ (CompleteHeader \/ CompleteBody) => BufferInv'
<1> SUFFICES ASSUME BufferInv, CompleteHeader \/ CompleteBody PROVE BufferInv'
  OBVIOUS
<1>1. place # "free"
  BY Busy DEF CompleteHeader, CompleteBody
<1>2. CASE CompleteHeader
  <2>1. pConn.dataHeadInfo \in Seq(Byte) /\ Len(pConn.dataHeadInfo) >= 1
    BY <1>1, <1>2, Used, DoneMeans, LensAssumption, LenProperties
    DEF CompleteHeader
  <2>2. pConn.iCurrSequence \in Nat
    BY <1>1, Used DEF PConn
  <2> QED  BY <2>1, <2>2, <1>1, <1>2, Used, InvComplete DEF CompleteHeader
<1>3. CASE CompleteBody
  <2> DEFINE b == pConn.precvMemPointer
  <2>1. b.data \in Seq(Byte) /\ b.iCurrsequence \in Nat
    BY <1>1, <1>3, Used DEF CompleteBody, Buffer
  <2>2. Len(b.data) >= 1
    <3>1. Held(pConn) = b.data /\ reco > 0
      BY <1>3 DEF CompleteBody, Held, InHeader, HeaderStat
    <3>2. Len(b.data) \in Nat /\ pConn.precvbuf + reco <= Len(b.data)
      BY <2>1, <3>1, <1>1, Used, LenProperties DEF ConnRight
    <3> QED  BY <3>1, <3>2, <1>1, Used
  <2> QED  BY <2>1, <2>2, <1>1, <1>3, Used, InvComplete DEF CompleteBody
<1> QED  BY <1>2, <1>3

\* recv() puts n bytes behind what the buffer holds, and there is room.
LEMMA InvRecvProc == ASSUME NEW n \in 1..Len(stream)
                     PROVE  BufferInv /\ RecvProc(n) => BufferInv'
<1> SUFFICES ASSUME BufferInv, RecvProc(n) PROVE BufferInv'
  OBVIOUS
<1> DEFINE bs   == SubSeq(stream, 1, n)
           rest == SubSeq(stream, n + 1, Len(stream))
           b    == Write(Held(pConn), bs)
<1>1. /\ place # "free" /\ stream \in Seq(Byte) /\ Len(stream) \in Nat
      /\ n \in Nat \ {0} /\ n <= Len(stream) /\ n <= pConn.irecvLen
  BY Used, LenProperties DEF BufferInv, World, RecvProc
<1>2. bs \in Seq(Byte) /\ Len(bs) = n /\ rest \in Seq(Byte)
  BY <1>1, SubSeqIn
<1>3. pConn.precvbuf <= Len(Held(pConn))
  <2>1. Len(Held(pConn)) \in Nat
    BY <1>1, Used, LenProperties
  <2> QED  BY <2>1, <1>1, Used DEF ConnRight
<1>4. b \in Seq(Byte) /\ Len(b) = pConn.precvbuf + n
  BY <1>1, <1>2, <1>3, Used, WriteIn
<1>5. /\ pConn'.curStat = pConn.curStat /\ pConn'.precvbuf = pConn.precvbuf
      /\ pConn'.irecvLen = pConn.irecvLen /\ pConn' \in PConn
      /\ Held(pConn') = b /\ Size(pConn') = Size(pConn)
      /\ pConn'.precvMemPointer = None <=> pConn.precvMemPointer = None
      /\ Len(pConn'.dataHeadInfo) <= HdrLen
      /\ pConn'.precvMemPointer # None =>
           pConn'.precvMemPointer.len = pConn.precvMemPointer.len
  <2>1. CASE InHeader
    <3>1. pConn' = [pConn EXCEPT !.dataHeadInfo = b]
      BY <2>1 DEF RecvProc, Held, InHeader, HeaderStat
    <3>2. Len(b) <= HdrLen
      BY <1>1, <1>4, <2>1, Used DEF Size, InHeader, HeaderStat
    <3> QED
      BY <1>1, <1>4, <2>1, <3>1, <3>2, Used
      DEF PConn, Held, Size, InHeader, HeaderStat
  <2>2. CASE ~InHeader
    <3> DEFINE m == [pConn.precvMemPointer EXCEPT !.data = b]
    <3>1. pConn.precvMemPointer \in Buffer
      BY <1>1, <2>2, Used
    <3>2. pConn' = [pConn EXCEPT !.precvMemPointer = m]
      BY <2>2 DEF RecvProc, Held, InHeader, HeaderStat
    <3>3. /\ m \in Buffer /\ m # None /\ m.data = b
          /\ m.len = pConn.precvMemPointer.len
      BY <1>4, <3>1, NoneAssumption DEF Buffer
    <3> HIDE DEF m
    <3>4. /\ pConn' \in PConn /\ pConn'.precvMemPointer = m
          /\ pConn'.curStat = pConn.curStat
          /\ pConn'.precvbuf = pConn.precvbuf
          /\ pConn'.irecvLen = pConn.irecvLen
          /\ pConn'.dataHeadInfo = pConn.dataHeadInfo
      BY <1>1, <3>2, <3>3, Used DEF PConn
    <3> QED
      BY <1>1, <2>2, <3>3, <3>4, Used
      DEF BufferInv, Held, Size, InHeader, HeaderStat
  <2> QED  BY <2>1, <2>2
<1>6. ConnRight(pConn', n)
  BY <1>1, <1>4, <1>5, Used DEF ConnRight
<1> QED
  BY <1>1, <1>2, <1>5, <1>6
  DEF BufferInv, World, RecvProc, client, BufferAccounted

\* The clients' steps.
LEMMA InvClients ==
  ASSUME BufferInv, \/ \E L \in Lens : SendPkt(L)
               \/ \E how \in {"fin", "rst"} : PeerEnds(how)
  PROVE  BufferInv'
<1>1. UNCHANGED <<life, place, pConn, reco, heap, out, headers,
                  closedBy, mFloodAttackEnable>>
  BY DEF SendPkt, PeerEnds
<1>2. CASE \E how \in {"fin", "rst"} : PeerEnds(how)
  BY <1>1, <1>2 DEF PeerEnds, BufferInv, World, BufferAccounted
<1>3. CASE \E L \in Lens : SendPkt(L)
  <2>1. PICK L \in Lens : SendPkt(L)
    BY <1>3
  <2> DEFINE p == Len(sent) + 1
             n == IF Valid(L) THEN L ELSE HdrLen
  <2>2. sent \in Seq(Lens) /\ Len(sent) \in Nat
    BY LenProperties DEF BufferInv, World
  <2>3. /\ life \in 1..MaxLives /\ p \in 1..MaxPkts
        /\ n \in Nat /\ n <= MaxLen
    BY <2>1, <2>2, LensAssumption, BoundsAssumption
    DEF BufferInv, World, SendPkt, Valid
  <2>4. Bytes(p, n) \in Seq(Byte)
    BY <2>3, BytesIn
  <2>5. stream' \in Seq(Byte)
    BY <2>1, <2>4, ConcatProperties DEF SendPkt, BufferInv, World
  <2>6. sent' \in Seq(Lens) /\ Len(sent') <= MaxPkts
    BY <2>1, <2>2, <2>3, AppendProperties DEF SendPkt
  <2> QED
    BY <1>1, <2>1, <2>5, <2>6 DEF BufferInv, World, SendPkt, BufferAccounted
<1> QED  BY <1>2, <1>3

\* Accepting, closing and freeing.
LEMMA InvOpenClose ==
  ASSUME BufferInv, \/ GetOneToUse \/ PutOneToFree
               \/ TimerCloses \/ RecvProcCloses
  PROVE  BufferInv'
<1>1. CASE GetOneToUse
  <2>1. World'
    BY <1>1, BoundsAssumption DEF BufferInv, World, GetOneToUse
  <2>2. pConn.iCurrSequence + 1 \in Nat
    BY DEF BufferInv, PConn
  <2> QED
    BY <2>1, <2>2, <1>1, FreshRight DEF BufferInv, GetOneToUse, BufferAccounted
<1>2. CASE PutOneToFree
  <2>1. /\ pConn' \in PConn /\ pConn'.precvMemPointer = None
        /\ pConn'.dataHeadInfo = pConn.dataHeadInfo
    <3>1. pConn \in PConn
      BY DEF BufferInv
    <3> QED  BY <3>1, <1>2, RaisedSame DEF PutOneToFree, PConn
  <2>2. heap' = 0
    BY <1>2 DEF BufferInv, PutOneToFree, BufferAccounted
  <2> QED
    BY <2>1, <2>2, <1>2
    DEF BufferInv, World, PutOneToFree, client, BufferAccounted
<1>3. CASE TimerCloses \/ RecvProcCloses
  <2>1. pConn \in PConn /\ \E why : zdCloseSocketProc(why, pConn)
    BY <1>3 DEF BufferInv, TimerCloses, RecvProcCloses
  <2>2. /\ pConn' \in PConn /\ pConn'.dataHeadInfo = pConn.dataHeadInfo
        /\ pConn'.precvMemPointer = pConn.precvMemPointer
        /\ \A n \in Nat : ConnRight(pConn, n) => ConnRight(pConn', n)
    BY <2>1, ClosedSame
  <2> QED
    BY <1>3, <2>2
    DEF BufferInv, World, TimerCloses, RecvProcCloses, zdCloseSocketProc,
        client, BufferAccounted
<1> QED  BY <1>1, <1>2, <1>3

LEMMA BufferInvNext == NotNegative /\ BufferInv /\ [Next]_vars => BufferInv'
<1> SUFFICES ASSUME NotNegative, BufferInv, [Next]_vars PROVE BufferInv'
  OBVIOUS
<1>1. CASE \/ \E L \in Lens : SendPkt(L)
           \/ \E how \in {"fin", "rst"} : PeerEnds(how)
  BY <1>1, InvClients
<1>2. CASE GetOneToUse \/ PutOneToFree \/ TimerCloses \/ RecvProcCloses
  BY <1>2, InvOpenClose
<1>3. CASE \E n \in 1..Len(stream) : RecvProc(n)
  BY <1>3, InvRecvProc
<1>4. CASE RecvPart \/ RejectHeader
  BY <1>4, InvPart, InvReject
<1>5. CASE NgxWaitRequestHandlerProcPL
  BY <1>5, InvProcPL
<1>6. CASE CompleteHeader \/ CompleteBody
  BY <1>6, InvCompletes
<1>7. CASE UNCHANGED vars
  BY <1>7 DEF BufferInv, World, vars, client, BufferAccounted
<1> QED
  BY <1>1, <1>2, <1>3, <1>4, <1>5, <1>6, <1>7
  DEF Next, NgxReadRequestHandler

-----------------------------------------------------------------------------
(* When the bodies fit, all that is missing is asked for.                  *)

LEMMA InvInit == Init => IInv
BY BufferInvInit DEF Init, IInv, ExactInv

\* The fields of a structure in use, when the bodies fit.
LEMMA InUse ==
  ASSUME IInv, place # "free"
  PROVE  /\ pConn \in PConn /\ ConnRight(pConn, reco) /\ reco \in Nat
         /\ pConn.precvbuf \in Nat /\ pConn.irecvLen \in 1..CharMax
         /\ Size(pConn) \in 1..MaxLen
         /\ pConn.precvbuf + pConn.irecvLen = Size(pConn)
         /\ pConn.dataHeadInfo \in Seq(Byte) /\ Held(pConn) \in Seq(Byte)
         /\ InHeader <=> pConn.precvMemPointer = None
         /\ ~InHeader => pConn.precvMemPointer \in Buffer
         /\ Done <=> reco = pConn.irecvLen
<1>1. BufferInv
  BY DEF IInv
<1>2. /\ pConn.irecvLen \in 1..CharMax
      /\ pConn.precvbuf + pConn.irecvLen = Size(pConn)
  BY <1>1, Used, LensAssumption DEF IInv, ExactInv, Exact
<1> QED  BY <1>1, <1>2, Used

\* A structure that waits for a header asks for all of it.
LEMMA HeaderExact ==
  ASSUME NEW d, d.curStat = "HD_INIT", d.precvbuf = 0, d.irecvLen = HdrLen
  PROVE  Exact(d)
BY LensAssumption DEF Exact, Size, HeaderStat

\* Only the fields that say how far a packet has come matter.
LEMMA ExactSame ==
  ASSUME Exact(pConn), pConn'.curStat = pConn.curStat,
         pConn'.precvbuf = pConn.precvbuf, pConn'.irecvLen = pConn.irecvLen,
         pConn.curStat \notin HeaderStat =>
           pConn'.precvMemPointer.len = pConn.precvMemPointer.len
  PROVE  Exact(pConn')
BY DEF Exact, Size

LEMMA ExactNext == Fits /\ IInv /\ [Next]_vars => ExactInv'
<1> SUFFICES ASSUME Fits, IInv, [Next]_vars, place' # "free" PROVE Exact(pConn')
  BY DEF ExactInv
<1>1. pConn \in PConn /\ BufferInv
  BY DEF IInv, BufferInv
<1>2. CASE GetOneToUse
  BY <1>2, HeaderExact DEF GetOneToUse, Fresh
<1>3. CASE PutOneToFree
  BY <1>3 DEF PutOneToFree
<1>4. place # "free" \/ GetOneToUse
  BY <1>1, Busy
  DEF Next, NgxReadRequestHandler, SendPkt, PeerEnds, TimerCloses, RecvProc,
      RecvProcCloses, RecvPart, RejectHeader, NgxWaitRequestHandlerProcPL,
      CompleteHeader, CompleteBody, PutOneToFree, vars
<1>5. CASE place # "free" /\ (RecvProcCloses \/ TimerCloses)
  <2>1. Exact(pConn) /\ \E why : zdCloseSocketProc(why, pConn)
    BY <1>5 DEF IInv, ExactInv, RecvProcCloses, TimerCloses
  <2> QED  BY <1>1, <2>1, ClosedSame, ExactSame
<1>6. CASE /\ place # "free"
           /\ \/ \E L \in Lens : SendPkt(L)
              \/ \E how \in {"fin", "rst"} : PeerEnds(how)
              \/ UNCHANGED vars
  <2>1. Exact(pConn) /\ pConn' = pConn
    BY <1>6 DEF IInv, ExactInv, SendPkt, PeerEnds, vars
  <2> QED  BY <2>1, ExactSame
<1>7. CASE place # "free" /\ \E n \in 1..Len(stream) : RecvProc(n)
  <2>1. PICK n \in 1..Len(stream) : RecvProc(n)
    BY <1>7
  <2>2. Exact(pConn)
    BY <1>7 DEF IInv, ExactInv
  <2>3. CASE InHeader
    <3>1. pConn' = [pConn EXCEPT !.dataHeadInfo =
                                   Write(@, SubSeq(stream, 1, n))]
      BY <2>1, <2>3 DEF RecvProc
    <3> QED
      BY <1>1, <2>2, <2>3, <3>1, ExactSame DEF PConn, InHeader, HeaderStat
  <2>4. CASE ~InHeader
    <3> DEFINE b == Write(pConn.precvMemPointer.data, SubSeq(stream, 1, n))
               m == [pConn.precvMemPointer EXCEPT !.data = b]
    <3>1. pConn' = [pConn EXCEPT !.precvMemPointer = m]
      BY <2>1, <2>4 DEF RecvProc
    <3>2. m.len = pConn.precvMemPointer.len
      BY <1>1, <1>7, <2>4, Used DEF Buffer
    <3> HIDE DEF m
    <3> QED  BY <1>1, <2>2, <3>1, <3>2, ExactSame DEF PConn
  <2> QED  BY <2>3, <2>4
<1>8. CASE place # "free" /\ RecvPart
  <2>1. /\ reco \in Nat /\ reco < pConn.irecvLen
        /\ pConn.precvbuf \in Nat /\ pConn.irecvLen \in 1..CharMax
        /\ pConn.irecvLen = Size(pConn) - pConn.precvbuf
    BY <1>8, InUse DEF RecvPart, ConnRight, IInv, ExactInv, Exact
  <2> DEFINE len == pConn.irecvLen - reco
  <2>2. len \in CharMin..CharMax /\ len >= 1
    BY <2>1, LensAssumption DEF CharMin
  <2>3. /\ pConn'.curStat = IF InHeader THEN "HD_RECVING" ELSE "BD_RECVING"
        /\ pConn'.precvbuf = pConn.precvbuf + reco
        /\ pConn'.irecvLen = len
        /\ pConn'.precvMemPointer = pConn.precvMemPointer
    BY <1>1, <1>8, <2>2, CharId DEF RecvPart, PConn
  <2>4. Size(pConn') = Size(pConn) /\ Size(pConn) \in 1..MaxLen
    BY <1>8, <2>3, InUse DEF Size, HeaderStat, InHeader
  <2> QED  BY <2>1, <2>2, <2>3, <2>4 DEF Exact
<1>9. CASE place # "free" /\ NgxWaitRequestHandlerProcPL
  <2>1. PICK L \in PkgLens(pConn.dataHeadInfo) :
          /\ Valid(L) /\ L # HdrLen
          /\ pConn' = [pConn EXCEPT
               !.precvMemPointer = [len |-> L, data |-> pConn.dataHeadInfo,
                                    iCurrsequence |-> pConn.iCurrSequence],
               !.curStat = "BD_INIT", !.precvbuf = HdrLen,
               !.irecvLen = Char(L - HdrLen)]
    BY <1>9 DEF NgxWaitRequestHandlerProcPL
  <2>2. /\ L - HdrLen \in 1..CharMax /\ L \in Nat
        /\ L - HdrLen \in CharMin..CharMax
    BY <2>1, PkgLensIn, LensAssumption
    DEF IInv, BufferInv, World, Valid, Fits, CharMin
  <2>3. Char(L - HdrLen) = L - HdrLen
    BY <2>2, CharId
  <2>4. /\ pConn'.curStat = "BD_INIT" /\ pConn'.precvbuf = HdrLen
        /\ pConn'.irecvLen = L - HdrLen /\ pConn'.precvMemPointer.len = L
    BY <1>1, <2>1, <2>3 DEF PConn
  <2> QED  BY <2>2, <2>4 DEF Exact, Size, HeaderStat
<1>10. CASE place # "free" /\ RejectHeader
  <2>1. /\ pConn'.curStat = "HD_INIT" /\ pConn'.precvbuf = 0
        /\ pConn'.irecvLen = HdrLen
    BY <1>1, <1>10 DEF RejectHeader, NextHeader, PConn
  <2> QED  BY <2>1, HeaderExact
<1>11. CASE place # "free" /\ (CompleteHeader \/ CompleteBody)
  <2>1. \E data, number, extra : Complete(data, number, extra)
    BY <1>11 DEF CompleteHeader, CompleteBody
  <2> QED  BY <1>1, <2>1, CompleteNext, HeaderExact
<1> QED
  BY <1>2, <1>3, <1>4, <1>5, <1>6, <1>7, <1>8, <1>9, <1>10, <1>11
  DEF Next, NgxReadRequestHandler

LEMMA InvNext == Fits /\ IInv /\ [Next]_vars => IInv'
BY BufferInvNext, ExactNext, FitsNotNegative DEF IInv

-----------------------------------------------------------------------------
(* Where the packets begin.                                                *)

\* The length of packet p in the stream.
Full(p) == IF Valid(sent[p]) THEN sent[p] ELSE HdrLen

Starts == [1..(MaxPkts + 1) -> Int]

\* Packet c is being received, n bytes of it are in the buffer, and the stream
\* goes on with the rest: packet q begins behind place f[q] of the stream, its
\* earlier bytes, at places below 1, having been read.
Framing(c, f) ==
  LET n == pConn.precvbuf + reco IN
  /\ c <= Len(sent) + 1
  /\ f[c] + n = 0 /\ f[Len(sent) + 1] = Len(stream)
  /\ \A q \in c..Len(sent) :
       /\ f[q + 1] = f[q] + Full(q) /\ f[q + 1] <= Len(stream)
       /\ \A k \in 1..Full(q) :
            f[q] + k >= 1 => stream[f[q] + k] = <<life, q, k>>
  /\ n > 0 => Held(pConn) = Bytes(c, n)
  /\ ~InHeader => /\ c <= Len(sent) /\ Valid(sent[c])
                  /\ pConn.precvMemPointer.len = sent[c]
  /\ Len(out) = Wanted(c - 1)

Framed == \E c \in 1..(MaxPkts + 1), f \in Starts : Framing(c, f)

FramingInv == FramedRight /\ (place = "live" \/ reco > 0 => Framed)

LEMMA FullIn ==
  ASSUME World, NEW p \in 1..Len(sent)
  PROVE  /\ sent[p] \in Lens /\ sent[p] \in Nat
         /\ Full(p) \in HdrLen..MaxLen /\ Full(p) \in Nat /\ HdrLen >= 1
         /\ p <= MaxPkts /\ p \in 1..MaxPkts
<1>1. sent[p] \in Lens
  BY ElementOfSeq DEF World
<1>2. Len(sent) \in Nat
  BY LenProperties DEF World
<1>3. sent[p] \in Nat /\ HdrLen \in HdrLen..MaxLen
  <2>1. sent[p] \in Nat
    BY <1>1, LensAssumption
  <2>2. HdrLen \in HdrLen..MaxLen
    BY LensAssumption
  <2> QED  BY <2>1, <2>2
<1>4. Full(p) \in HdrLen..MaxLen /\ Full(p) \in Nat
  BY <1>3, LensAssumption DEF Full, Valid
<1>5. p \in 1..MaxPkts
  BY <1>2, BoundsAssumption DEF World
<1> QED  BY <1>1, <1>3, <1>4, <1>5, LensAssumption, BoundsAssumption

LEMMA BytesAre ==
  ASSUME NEW p, NEW n \in Nat
  PROVE  /\ Len(Bytes(p, n)) = n
         /\ \A k \in 1..n : Bytes(p, n)[k] = <<life, p, k>>
BY DEF Bytes

\* Bytes show whose they are.
LEMMA BytesTell ==
  ASSUME NEW p, NEW q, NEW n \in Nat, n >= 1, Bytes(p, n) = Bytes(q, n)
  PROVE  p = q
<1>1. Bytes(p, n)[1] = <<life, p, 1>> /\ Bytes(q, n)[1] = <<life, q, 1>>
  BY BytesAre
<1> QED  BY <1>1

\* Counting the packets to be accepted.
LEMMA WantedStep ==
  ASSUME World, NEW p \in 1..Len(sent)
  PROVE  /\ Wanted(p - 1) \in Nat
         /\ Wanted(p) = Wanted(p - 1) + (IF Valid(sent[p]) THEN 1 ELSE 0)
<1> DEFINE before == {q \in 1..(p - 1) : Valid(sent[q])}
           now    == {q \in 1..p : Valid(sent[q])}
<1>1. p \in Nat \ {0} /\ p - 1 \in Int
  BY LenProperties DEF World
<1>2. IsFiniteSet(1..(p - 1)) /\ before \in SUBSET (1..(p - 1))
  BY <1>1, FS_Interval
<1>3. IsFiniteSet(before) /\ Cardinality(before) \in Nat
  BY <1>2, FS_Subset, FS_CardinalityType
<1>4. p \notin before
  BY <1>1
<1>5. now = IF Valid(sent[p]) THEN before \cup {p} ELSE before
  BY <1>1
<1>6. Cardinality(before \cup {p}) = Cardinality(before) + 1
  BY <1>3, <1>4, FS_AddElement
<1>7. Wanted(p - 1) = Cardinality(before) /\ Wanted(p) = Cardinality(now)
  BY DEF Wanted
<1> HIDE DEF before, now
<1> QED  BY <1>3, <1>5, <1>6, <1>7

\* Packets sent later change nothing of the earlier ones.
LEMMA WantedKept ==
  ASSUME NEW p \in Nat, \A q \in 1..p : sent'[q] = sent[q]
  PROVE  Wanted(p)' = Wanted(p)
<1>1. {q \in 1..p : Valid(sent'[q])} = {q \in 1..p : Valid(sent[q])}
  OBVIOUS
<1> QED  BY <1>1 DEF Wanted

\* A packet of which bytes have been read.
LEMMA Current ==
  ASSUME IInv, place # "free", NEW c \in 1..(MaxPkts + 1), NEW f \in Starts,
         Framing(c, f), pConn.precvbuf + reco > 0 \/ stream # <<>>
  PROVE  /\ c \in 1..Len(sent) /\ c + 1 \in 1..(MaxPkts + 1)
         /\ InHeader => Size(pConn) = HdrLen
         /\ ~InHeader => Size(pConn) = Full(c) /\ Full(c) = sent[c]
         /\ Size(pConn) <= Full(c)
<1> DEFINE n == pConn.precvbuf + reco
<1>1. /\ n \in Nat /\ Len(sent) \in Nat /\ Len(stream) \in Nat
      /\ stream # <<>> => Len(stream) > 0 /\ c \in Nat
  BY InUse, LenProperties, EmptySeq, BoundsAssumption DEF IInv, BufferInv, World
<1>2. c # Len(sent) + 1
  BY <1>1 DEF Framing, Starts
<1>3. c \in 1..Len(sent)
  BY <1>1, <1>2, BoundsAssumption DEF Framing
<1>4. Full(c) \in HdrLen..MaxLen /\ c \in 1..MaxPkts
  BY <1>3, FullIn DEF IInv, BufferInv
<1>5. InHeader => Size(pConn) = HdrLen
  BY DEF InHeader, Size, HeaderStat
<1>6. ~InHeader => Size(pConn) = Full(c) /\ Full(c) = sent[c]
  BY DEF InHeader, Size, HeaderStat, Framing, Full
<1> QED  BY <1>3, <1>4, <1>5, <1>6, LensAssumption, BoundsAssumption

\* A step that leaves the bytes where they are and packet c the current one.
LEMMA SameFrame ==
  ASSUME FramingInv, UNCHANGED <<life, sent, stream, out>>,
         place' = "live" \/ reco' > 0 =>
           /\ place = "live" \/ reco > 0
           /\ pConn'.precvbuf + reco' = pConn.precvbuf + reco
           /\ Held(pConn') = Held(pConn) /\ InHeader' = InHeader
           /\ pConn'.precvMemPointer = pConn.precvMemPointer
  PROVE  FramingInv'
<1>1. \A p : Wanted(p)' = Wanted(p) /\ Full(p)' = Full(p)
  BY DEF Wanted, Full
<1>2. \A p, n : Bytes(p, n)' = Bytes(p, n)
  BY DEF Bytes
<1>3. FramedRight'
  BY <1>1, <1>2 DEF FramingInv, FramedRight
<1>4. ASSUME place' = "live" \/ reco' > 0  PROVE Framed'
  <2>1. PICK c \in 1..(MaxPkts + 1), f \in Starts : Framing(c, f)
    BY <1>4 DEF FramingInv, Framed
  <2>2. Framing(c, f)'
    BY <1>1, <1>2, <1>4, <2>1 DEF Framing
  <2> QED  BY <2>2 DEF Framed
<1> QED  BY <1>3, <1>4 DEF FramingInv

LEMMA FramedPart == IInv /\ FramingInv /\ RecvPart => FramingInv'
<1> SUFFICES ASSUME IInv, FramingInv, RecvPart PROVE FramingInv'
  OBVIOUS
<1>1. place # "free" /\ reco > 0
  BY Busy DEF IInv, RecvPart
<1>2. /\ pConn'.curStat = IF InHeader THEN "HD_RECVING" ELSE "BD_RECVING"
      /\ pConn'.precvbuf = pConn.precvbuf + reco /\ reco' = 0
      /\ pConn'.precvMemPointer = pConn.precvMemPointer
      /\ pConn'.dataHeadInfo = pConn.dataHeadInfo
  BY <1>1, InUse DEF RecvPart, PConn
<1>3. /\ pConn'.precvbuf + reco' = pConn.precvbuf + reco
      /\ Held(pConn') = Held(pConn) /\ InHeader' = InHeader
  BY <1>1, <1>2, InUse DEF Held, InHeader, HeaderStat
<1> QED  BY <1>1, <1>2, <1>3, SameFrame DEF RecvPart, client

\* All of a header has come: it is the client's, and names its length.
LEMMA HeaderRead ==
  ASSUME IInv, reco > 0, Done, InHeader,
         NEW c \in 1..(MaxPkts + 1), NEW f \in Starts, Framing(c, f)
  PROVE  /\ pConn.precvbuf + reco = HdrLen
         /\ pConn.dataHeadInfo = Bytes(c, HdrLen)
         /\ c \in 1..Len(sent) /\ c + 1 \in 1..(MaxPkts + 1)
         /\ PkgLens(pConn.dataHeadInfo) = {sent[c]}
<1>1. place # "free"
  BY Busy DEF IInv
<1>2. /\ c \in 1..Len(sent) /\ c + 1 \in 1..(MaxPkts + 1)
      /\ Size(pConn) = HdrLen
  BY <1>1, InUse, Current
<1>3. pConn.precvbuf + reco = HdrLen /\ HdrLen \in Nat /\ HdrLen >= 1
  BY <1>1, <1>2, InUse, LensAssumption
<1>4. pConn.dataHeadInfo = Bytes(c, HdrLen)
  BY <1>3 DEF Framing, Held, InHeader, HeaderStat
<1>5. {p \in 1..Len(sent) : pConn.dataHeadInfo = Bytes(p, HdrLen)} = {c}
  BY <1>2, <1>3, <1>4, BytesTell
<1>6. PkgLens(pConn.dataHeadInfo) = {sent[p] : p \in {c}}
  BY <1>5 DEF PkgLens
<1> QED  BY <1>2, <1>3, <1>4, <1>6

LEMMA FramedProcPL ==
  IInv /\ FramingInv /\ NgxWaitRequestHandlerProcPL => FramingInv'
<1> SUFFICES ASSUME IInv, FramingInv, NgxWaitRequestHandlerProcPL
             PROVE  FramingInv'
  OBVIOUS
<1>1. place # "free" /\ reco > 0 /\ reco' = 0 /\ Done /\ InHeader
  BY Busy DEF IInv, NgxWaitRequestHandlerProcPL
<1>2. PICK c \in 1..(MaxPkts + 1), f \in Starts : Framing(c, f)
  BY <1>1 DEF FramingInv, Framed
<1>3. /\ pConn.precvbuf + reco = HdrLen
      /\ pConn.dataHeadInfo = Bytes(c, HdrLen)
      /\ c \in 1..Len(sent) /\ PkgLens(pConn.dataHeadInfo) = {sent[c]}
  BY <1>1, <1>2, HeaderRead
<1> DEFINE b == [len |-> sent[c], data |-> pConn.dataHeadInfo,
                 iCurrsequence |-> pConn.iCurrSequence]
<1>4. Valid(sent[c])
      /\ pConn' = [pConn EXCEPT
           !.precvMemPointer = b,
           !.curStat = "BD_INIT", !.precvbuf = HdrLen,
           !.irecvLen = Char(sent[c] - HdrLen)]
  BY <1>3 DEF NgxWaitRequestHandlerProcPL
<1>5. /\ pConn'.curStat = "BD_INIT" /\ pConn'.precvbuf = HdrLen
      /\ pConn'.precvMemPointer = b
  <2> HIDE DEF b
  <2> QED  BY <1>1, <1>4, InUse DEF PConn
<1>6. /\ pConn'.precvbuf + reco' = pConn.precvbuf + reco
      /\ Held(pConn') = Bytes(c, HdrLen) /\ ~InHeader'
      /\ pConn'.precvMemPointer.len = sent[c]
  BY <1>1, <1>3, <1>5, LensAssumption DEF Held, InHeader, HeaderStat
<1>7. UNCHANGED <<life, sent, place, stream, out>>
  BY DEF NgxWaitRequestHandlerProcPL, client
<1>8. \A p : Wanted(p)' = Wanted(p) /\ Full(p)' = Full(p)
  BY <1>7 DEF Wanted, Full
<1>9. \A p, n : Bytes(p, n)' = Bytes(p, n)
  BY <1>7 DEF Bytes
<1>10. Framing(c, f)'
  BY <1>2, <1>3, <1>4, <1>6, <1>7, <1>8, <1>9 DEF Framing
<1>11. FramedRight'
  BY <1>7, <1>8, <1>9 DEF FramingInv, FramedRight
<1> QED  BY <1>10, <1>11 DEF FramingInv, Framed

\* The current packet is done with: the next one begins at the stream's front.
LEMMA NextPacket ==
  ASSUME IInv, reco > 0, NEW c \in 1..(MaxPkts + 1), NEW f \in Starts,
         Framing(c, f), c \in 1..Len(sent), pConn.precvbuf + reco = Full(c),
         c + 1 \in 1..(MaxPkts + 1), UNCHANGED <<life, sent, stream>>,
         pConn'.precvbuf = 0, reco' = 0, InHeader', Len(out') = Wanted(c)
  PROVE  Framing(c + 1, f)'
<1>1. Len(sent) \in Nat /\ Full(c) \in Nat
  BY FullIn, LenProperties DEF IInv, BufferInv, World
<1>2. \A p : Wanted(p)' = Wanted(p) /\ Full(p)' = Full(p)
  BY DEF Wanted, Full
<1>3. f[c] + Full(c) = 0 /\ f[c + 1] = f[c] + Full(c)
  <2>1. c \in c..Len(sent)
    BY <1>1
  <2> QED  BY <2>1 DEF Framing
<1>4. f[c + 1] = 0
  BY <1>1, <1>3
<1>5. /\ c + 1 <= Len(sent) + 1 /\ c = c + 1 - 1
      /\ (c + 1)..Len(sent) \subseteq c..Len(sent)
  BY <1>1
<1>6. pConn'.precvbuf + reco' = 0
  OBVIOUS
<1>7. \A q \in (c + 1)..Len(sent') :
        /\ f[q + 1] = f[q] + Full(q)' /\ f[q + 1] <= Len(stream')
        /\ \A k \in 1..Full(q)' :
             f[q] + k >= 1 => stream'[f[q] + k] = <<life', q, k>>
  BY <1>2, <1>5 DEF Framing
<1>8. c + 1 <= Len(sent') + 1 /\ f[Len(sent') + 1] = Len(stream')
  BY <1>5 DEF Framing
<1>9. Len(out') = Wanted(c + 1 - 1)'
  BY <1>2, <1>5
<1>10. /\ f[c + 1] + (pConn'.precvbuf + reco') = 0
       /\ ~(pConn'.precvbuf + reco' > 0)
  BY <1>4, <1>6
<1> QED  BY <1>7, <1>8, <1>9, <1>10 DEF Framing

LEMMA FramedReject == IInv /\ FramingInv /\ RejectHeader => FramingInv'
<1> SUFFICES ASSUME IInv, FramingInv, RejectHeader PROVE FramingInv'
  OBVIOUS
<1>1. place # "free" /\ reco > 0 /\ reco' = 0 /\ Done /\ InHeader
  BY Busy DEF IInv, RejectHeader
<1>2. PICK c \in 1..(MaxPkts + 1), f \in Starts : Framing(c, f)
  BY <1>1 DEF FramingInv, Framed
<1>3. /\ pConn.precvbuf + reco = HdrLen
      /\ c \in 1..Len(sent) /\ c + 1 \in 1..(MaxPkts + 1)
      /\ PkgLens(pConn.dataHeadInfo) = {sent[c]}
  BY <1>1, <1>2, HeaderRead
<1>4. ~Valid(sent[c])
  BY <1>3 DEF RejectHeader
<1>5. Wanted(c) = Wanted(c - 1) /\ pConn.precvbuf + reco = Full(c)
  BY <1>3, <1>4, WantedStep DEF IInv, BufferInv, Full
<1>6. /\ pConn'.curStat = "HD_INIT" /\ pConn'.precvbuf = 0
      /\ UNCHANGED <<life, sent, place, stream, out>>
  BY <1>1, InUse DEF RejectHeader, NextHeader, PConn, client
<1>7. Framing(c + 1, f)'
  BY <1>1, <1>2, <1>3, <1>5, <1>6, NextPacket DEF Framing, InHeader
<1>8. FramedRight'
  <2>1. \A p, n : Wanted(p)' = Wanted(p) /\ Bytes(p, n)' = Bytes(p, n)
    BY <1>6 DEF Wanted, Bytes
  <2> QED  BY <1>6, <2>1 DEF FramingInv, FramedRight
<1> QED  BY <1>3, <1>7, <1>8 DEF FramingInv, Framed

\* A packet that is complete.
LEMMA FramedComplete ==
  ASSUME IInv, FramingInv, reco > 0, reco' = 0,
         NEW c \in 1..(MaxPkts + 1), NEW f \in Starts, Framing(c, f),
         c \in 1..Len(sent), c + 1 \in 1..(MaxPkts + 1),
         Valid(sent[c]), pConn.precvbuf + reco = sent[c],
         NEW data, data = Bytes(c, sent[c]), NEW number, NEW extra,
         Complete(data, number, extra), UNCHANGED <<client, stream>>
  PROVE  FramingInv'
<1>1. UNCHANGED <<life, sent, stream>>
  BY DEF client
<1>2. \A p : Wanted(p)' = Wanted(p)
  BY <1>1 DEF Wanted
<1>3. \A p, n : Bytes(p, n)' = Bytes(p, n)
  BY <1>1 DEF Bytes
<1>4. CASE mFloodAttackEnable = 1
  <2>1. place' = "recy" /\ out' = out
    BY <1>4 DEF Complete, TestFlood, zdCloseSocketProc
  <2>2. FramedRight'
    BY <1>1, <1>2, <1>3, <2>1 DEF FramingInv, FramedRight
  <2> QED  BY <2>1, <2>2 DEF FramingInv
<1>5. CASE mFloodAttackEnable # 1
  <2>1. /\ out' = Append(out, data)
        /\ pConn' = [NextHeader(pConn) EXCEPT !.precvMemPointer = None]
    BY <1>5 DEF Complete
  <2>2. pConn'.curStat = "HD_INIT" /\ pConn'.precvbuf = 0
    BY <2>1 DEF NextHeader, IInv, BufferInv, PConn
  <2>3. out \in Seq(Seq(Byte)) /\ data \in Seq(Byte) /\ Len(out) \in Nat
    <3>1. out \in Seq(Seq(Byte)) /\ life \in 1..MaxLives
      BY BoundsAssumption DEF IInv, BufferInv, World
    <3>2. c \in 1..MaxPkts /\ sent[c] \in Nat /\ sent[c] <= MaxLen
      BY FullIn, LensAssumption DEF IInv, BufferInv, Full
    <3> QED  BY <3>1, <3>2, BytesIn, LenProperties
  <2>4. /\ Len(out') = Len(out) + 1 /\ out'[Len(out) + 1] = data
        /\ \A i \in 1..Len(out) : out'[i] = out[i]
    BY <2>1, <2>3, AppendProperties
  <2>5. Len(out) + 1 = Wanted(c)
    BY WantedStep DEF IInv, BufferInv, Framing
  <2>6. Framing(c + 1, f)'
    BY <1>1, <2>2, <2>4, <2>5, NextPacket DEF InHeader, Full
  <2>7. FramedRight'
    <3> SUFFICES ASSUME NEW i \in 1..(Len(out) + 1)
                 PROVE  \E p \in 1..Len(sent) : /\ Valid(sent[p])
                                                /\ Wanted(p) = i
                                                /\ out'[i] = Bytes(p, sent[p])
      BY <1>1, <1>2, <1>3, <2>4 DEF FramedRight
    <3>1. CASE i = Len(out) + 1
      BY <2>4, <2>5, <3>1
    <3>2. CASE i \in 1..Len(out)
      BY <2>4, <3>2 DEF FramingInv, FramedRight
    <3> QED  BY <2>3, <3>1, <3>2
  <2> QED  BY <2>6, <2>7 DEF FramingInv, Framed
<1> QED  BY <1>4, <1>5

LEMMA FramedCompletes ==
  IInv /\ FramingInv /\ (CompleteHeader \/ CompleteBody) => FramingInv'
<1> SUFFICES ASSUME IInv, FramingInv, CompleteHeader \/ CompleteBody
             PROVE  FramingInv'
  OBVIOUS
<1>1. place # "free" /\ reco > 0 /\ reco' = 0 /\ Done
  BY Busy DEF IInv, CompleteHeader, CompleteBody
<1>2. PICK c \in 1..(MaxPkts + 1), f \in Starts : Framing(c, f)
  BY <1>1 DEF FramingInv, Framed
<1>3. CASE CompleteHeader
  <2>1. /\ pConn.precvbuf + reco = HdrLen
        /\ pConn.dataHeadInfo = Bytes(c, HdrLen)
        /\ c \in 1..Len(sent) /\ c + 1 \in 1..(MaxPkts + 1)
        /\ PkgLens(pConn.dataHeadInfo) = {sent[c]}
    BY <1>1, <1>2, <1>3, HeaderRead DEF CompleteHeader
  <2>2. sent[c] = HdrLen /\ Valid(sent[c])
    BY <1>3, <2>1, LensAssumption DEF CompleteHeader, Valid
  <2> QED
    BY <1>1, <1>2, <1>3, <2>1, <2>2, FramedComplete DEF CompleteHeader
<1>4. CASE CompleteBody
  <2>1. ~InHeader
    BY <1>4 DEF CompleteBody
  <2>2. /\ c \in 1..Len(sent) /\ c + 1 \in 1..(MaxPkts + 1)
        /\ Size(pConn) = sent[c] /\ Valid(sent[c])
    <3>1. pConn.precvbuf + reco > 0
      BY <1>1, InUse
    <3> QED  BY <1>1, <1>2, <2>1, <3>1, Current DEF Framing
  <2>3. pConn.precvbuf + reco = sent[c]
    BY <1>1, <2>2, InUse
  <2>4. pConn.precvMemPointer.data = Bytes(c, sent[c])
    BY <1>1, <1>2, <2>1, <2>3, InUse
    DEF Framing, Held, InHeader, HeaderStat
  <2> QED
    BY <1>1, <1>2, <1>4, <2>2, <2>3, <2>4, FramedComplete DEF CompleteBody
<1> QED  BY <1>3, <1>4

LEMMA SubSeqAt ==
  ASSUME NEW S, NEW s \in Seq(S), NEW m \in Nat \ {0}, NEW n \in Nat,
         n <= Len(s)
  PROVE  \A i \in 1..(n - m + 1) : SubSeq(s, m, n)[i] = s[m + i - 1]
<1>1. \A i \in m..n : s[i] \in S
  BY LenProperties, ElementOfSeq
<1> QED  BY <1>1, SubSeqProperties

\* The bytes that recv() gives are the next ones of the current packet.
LEMMA FramedRecvProc ==
  ASSUME NEW m \in 1..Len(stream)
  PROVE  IInv /\ FramingInv /\ RecvProc(m) => FramingInv'
<1> SUFFICES ASSUME IInv, FramingInv, RecvProc(m) PROVE FramingInv'
  OBVIOUS
<1> DEFINE bs   == SubSeq(stream, 1, m)
           rest == SubSeq(stream, m + 1, Len(stream))
           n    == pConn.precvbuf
           b    == Write(Held(pConn), bs)
<1>1. /\ place = "live" /\ reco = 0 /\ reco' = m /\ stream' = rest
      /\ UNCHANGED <<life, sent, place, out>>
      /\ stream \in Seq(Byte) /\ Len(stream) \in Nat /\ stream # <<>>
      /\ m \in Nat \ {0} /\ m <= Len(stream) /\ m <= pConn.irecvLen
      /\ life \in 1..MaxLives
  BY InUse, LenProperties, BoundsAssumption
  DEF IInv, BufferInv, World, RecvProc, client
<1>2. PICK c \in 1..(MaxPkts + 1), f \in Starts : Framing(c, f)
  BY <1>1 DEF FramingInv, Framed
<1>3. /\ n \in Nat /\ n + pConn.irecvLen = Size(pConn)
      /\ pConn.irecvLen \in Nat
  BY <1>1, InUse
<1>4. /\ c \in 1..Len(sent) /\ Size(pConn) <= Full(c) /\ Full(c) \in Nat
      /\ Full(c) <= MaxLen /\ c \in 1..MaxPkts
  <2>1. c \in 1..Len(sent) /\ Size(pConn) <= Full(c)
    BY <1>1, <1>2, Current
  <2> QED  BY <2>1, FullIn, LensAssumption DEF IInv, BufferInv
<1>5. n + m <= Full(c) /\ n + m \in Nat /\ n + m > 0 /\ n + m <= MaxLen
  <2>1. Size(pConn) \in Nat
    BY <1>1, InUse, LensAssumption
  <2> QED  BY <2>1, <1>1, <1>3, <1>4, LensAssumption
<1>6. f[c] + n = 0 /\ f[c] \in Int
  <2>1. f[c] + (n + reco) = 0 /\ f[c] \in Int
    BY <1>2 DEF Framing, Starts
  <2>2. n + reco = n
    BY <1>1, <1>3
  <2> QED  BY <2>1, <2>2
<1>7. /\ bs \in Seq(Byte) /\ Len(bs) = m
      /\ \A i \in 1..m : bs[i] = stream[i]
  BY <1>1, SubSeqIn, SubSeqAt
<1>8. /\ rest \in Seq(Byte) /\ Len(rest) = Len(stream) - m
      /\ \A i \in 1..(Len(stream) - m) : rest[i] = stream[m + i]
  BY <1>1, SubSeqIn, SubSeqAt
<1>9. ASSUME NEW i \in 1..m  PROVE bs[i] = <<life, c, n + i>>
  <2>1. n + i \in 1..Full(c) /\ f[c] + (n + i) = i /\ i >= 1
    <3> HIDE DEF n
    <3>1. i \in Nat /\ i >= 1 /\ i <= m
      BY <1>1
    <3> QED  BY <3>1, <1>1, <1>3, <1>4, <1>5, <1>6
  <2>2. c \in c..Len(sent)
    BY <1>4
  <2>3. stream[f[c] + (n + i)] = <<life, c, n + i>>
    BY <1>2, <2>1, <2>2 DEF Framing
  <2> QED  BY <2>1, <2>3, <1>7
<1>10. b = Bytes(c, n + m)
  <2> DEFINE h == Held(pConn)
             a == SubSeq(h, 1, n)
  <2>1. h \in Seq(Byte) /\ n <= Len(h)
    BY <1>1, <1>3, InUse, LenProperties DEF ConnRight
  <2>2. a \in Seq(Byte) /\ Len(a) = n /\ \A i \in 1..n : a[i] = h[i]
    BY <1>3, <2>1, SubSeqIn, SubSeqAt
  <2>3. \A i \in 1..n : h[i] = <<life, c, i>>
    <3>1. n + reco = n
      BY <1>1, <1>3
    <3>2. n > 0 => h = Bytes(c, n)
      BY <1>2, <3>1 DEF Framing
    <3> QED  BY <1>3, <3>2 DEF Bytes
  <2> HIDE DEF a, h, bs
  <2>4. /\ a \o bs \in Seq(Byte) /\ Len(a \o bs) = n + m
        /\ \A i \in 1..(n + m) :
             (a \o bs)[i] = IF i <= n THEN a[i] ELSE bs[i - n]
    <3>1. /\ a \o bs \in Seq(Byte) /\ Len(a \o bs) = Len(a) + Len(bs)
          /\ \A i \in 1..(Len(a) + Len(bs)) :
               (a \o bs)[i] = IF i <= Len(a) THEN a[i] ELSE bs[i - Len(a)]
      BY <1>7, <2>2, ConcatProperties
    <3>2. Len(a) = n /\ Len(bs) = m
      BY <1>7, <2>2
    <3> QED  BY <3>1, <3>2
  <2>5. \A i \in 1..(n + m) : (a \o bs)[i] = <<life, c, i>>
    <3> SUFFICES ASSUME NEW i \in 1..(n + m)
                 PROVE  (a \o bs)[i] = <<life, c, i>>
      OBVIOUS
    <3> HIDE DEF n
    <3>1. CASE i <= n
      <4>1. i \in 1..n
        BY <3>1, <1>3
      <4> QED  BY <3>1, <4>1, <2>2, <2>3, <2>4
    <3>2. CASE ~(i <= n)
      <4>1. i - n \in 1..m /\ n + (i - n) = i
        BY <3>2, <1>1, <1>3
      <4> QED  BY <3>2, <4>1, <1>9, <2>4
    <3> QED  BY <3>1, <3>2
  <2>6. Bytes(c, n + m) \in Seq(Byte)
    BY <1>1, <1>4, <1>5, BytesIn
  <2>7. /\ Len(Bytes(c, n + m)) = n + m
        /\ \A i \in 1..(n + m) : Bytes(c, n + m)[i] = <<life, c, i>>
    BY <1>5, BytesAre
  <2>8. a \o bs = Bytes(c, n + m)
    BY <2>4, <2>5, <2>6, <2>7, SeqEqual
  <2> QED  BY <2>8 DEF Write, a, h
<1>11. /\ pConn'.precvbuf = n /\ Held(pConn') = b /\ InHeader' = InHeader
       /\ ~InHeader => pConn'.precvMemPointer.len = pConn.precvMemPointer.len
  <2>1. CASE InHeader
    <3>1. pConn' = [pConn EXCEPT !.dataHeadInfo = b]
      BY <2>1 DEF RecvProc, Held, InHeader, HeaderStat
    <3> HIDE DEF b
    <3> QED  BY <1>1, <2>1, <3>1, InUse DEF PConn, Held, InHeader, HeaderStat
  <2>2. CASE ~InHeader
    <3> DEFINE p == [pConn.precvMemPointer EXCEPT !.data = b]
    <3>1. pConn' = [pConn EXCEPT !.precvMemPointer = p]
      BY <2>2 DEF RecvProc, Held, InHeader, HeaderStat
    <3>2. p.data = b /\ p.len = pConn.precvMemPointer.len
      BY <1>1, <2>2, InUse DEF Buffer
    <3> HIDE DEF b, p
    <3>3. /\ pConn'.precvMemPointer = p /\ pConn'.curStat = pConn.curStat
          /\ pConn'.precvbuf = n
      BY <1>1, <3>1, InUse DEF PConn
    <3> QED  BY <2>2, <3>2, <3>3 DEF Held, InHeader, HeaderStat
  <2> QED  BY <2>1, <2>2
<1> DEFINE g == [q \in 1..(MaxPkts + 1) |-> f[q] - m]
<1>12. g \in Starts
  BY <1>1 DEF Starts
<1>13. \A p : Wanted(p)' = Wanted(p) /\ Full(p)' = Full(p)
  BY <1>1 DEF Wanted, Full
<1>14. \A p, k : Bytes(p, k)' = Bytes(p, k)
  BY <1>1 DEF Bytes
<1>15. Len(sent) \in Nat /\ Len(sent) <= MaxPkts /\ MaxPkts \in Nat
  BY LenProperties, BoundsAssumption DEF IInv, BufferInv, World
<1>16. /\ g[c] + (pConn'.precvbuf + reco') = 0
       /\ g[Len(sent) + 1] = Len(stream')
  <2>1. f[Len(sent) + 1] = Len(stream)
    BY <1>2 DEF Framing
  <2>2. g[c] = f[c] - m /\ g[Len(sent) + 1] = f[Len(sent) + 1] - m
    BY <1>15
  <2> HIDE DEF g, rest
  <2> QED  BY <1>1, <1>3, <1>6, <1>8, <1>11, <2>1, <2>2
<1>17. ASSUME NEW q \in c..Len(sent)
       PROVE  /\ g[q + 1] = g[q] + Full(q) /\ g[q + 1] <= Len(stream')
              /\ \A k \in 1..Full(q) :
                   g[q] + k >= 1 => stream'[g[q] + k] = <<life, q, k>>
  <2>1. /\ f[q + 1] = f[q] + Full(q) /\ f[q + 1] <= Len(stream)
        /\ \A k \in 1..Full(q) :
             f[q] + k >= 1 => stream[f[q] + k] = <<life, q, k>>
    BY <1>2 DEF Framing
  <2>2. q \in 1..Len(sent) /\ q + 1 \in 1..(MaxPkts + 1)
        /\ q \in 1..(MaxPkts + 1)
    BY <1>4, <1>15
  <2>3. /\ g[q] = f[q] - m /\ g[q + 1] = f[q + 1] - m
        /\ f[q] \in Int /\ f[q + 1] \in Int /\ Full(q) \in Nat
    BY <2>2, FullIn DEF Starts, IInv, BufferInv
  <2> HIDE DEF g, rest
  <2>4. g[q + 1] = g[q] + Full(q) /\ g[q + 1] <= Len(stream')
    BY <1>1, <1>8, <2>1, <2>3
  <2>5. ASSUME NEW k \in 1..Full(q), g[q] + k >= 1
        PROVE  stream'[g[q] + k] = <<life, q, k>>
    <3>1. /\ f[q] + k >= 1 /\ m + (g[q] + k) = f[q] + k
          /\ g[q] + k \in 1..(Len(stream) - m)
      <4>1. f[q] + k <= Len(stream) /\ k \in Nat
        BY <2>1, <2>3
      <4> QED  BY <4>1, <1>1, <2>3, <2>5
    <3>2. rest[g[q] + k] = stream[f[q] + k]
      BY <1>8, <3>1
    <3> QED  BY <1>1, <2>1, <3>1, <3>2
  <2> QED  BY <2>4, <2>5
<1>18. /\ Held(pConn') = Bytes(c, pConn'.precvbuf + reco')
       /\ Len(out') = Wanted(c - 1)
       /\ ~InHeader' => /\ c <= Len(sent) /\ Valid(sent[c])
                        /\ pConn'.precvMemPointer.len = sent[c]
  BY <1>1, <1>2, <1>10, <1>11 DEF Framing
<1> HIDE DEF g
<1>19. Framing(c, g)'
  <2>1. c <= Len(sent) + 1
    BY <1>2 DEF Framing
  <2> QED
    BY <2>1, <1>1, <1>13, <1>14, <1>16, <1>17, <1>18 DEF Framing
<1>20. FramedRight'
  BY <1>1, <1>13, <1>14 DEF FramingInv, FramedRight
<1> QED  BY <1>12, <1>19, <1>20 DEF FramingInv, Framed

\* A packet more at the end of the stream.
LEMMA FramedSendPkt ==
  ASSUME NEW L \in Lens
  PROVE  IInv /\ FramingInv /\ SendPkt(L) => FramingInv'
<1> SUFFICES ASSUME IInv, FramingInv, SendPkt(L) PROVE FramingInv'
  OBVIOUS
<1>0. PICK p : p = Len(sent) + 1
  OBVIOUS
<1> DEFINE w  == IF Valid(L) THEN L ELSE HdrLen
           bs == Bytes(p, w)
<1>1. /\ sent \in Seq(Lens) /\ stream \in Seq(Byte) /\ Len(stream) \in Nat
      /\ Len(sent) \in Nat /\ p \in 1..MaxPkts /\ p + 1 \in 1..(MaxPkts + 1)
      /\ life \in 1..MaxLives /\ place = "live" /\ place' = "live"
      /\ UNCHANGED <<life, pConn, reco, out>>
  BY <1>0, LenProperties, BoundsAssumption DEF IInv, BufferInv, World, SendPkt
<1>2. /\ Len(sent') = p /\ sent'[p] = L
      /\ \A q \in 1..Len(sent) : sent'[q] = sent[q]
  BY <1>0, <1>1, AppendProperties DEF SendPkt
<1>3. w \in Nat /\ w <= MaxLen /\ Full(p)' = w
  <2>1. Full(p)' = w
    BY <1>2 DEF Full, Valid
  <2>2. L \in Nat /\ HdrLen \in Nat /\ MaxLen \in Nat /\ HdrLen <= MaxLen
    <3>1. L \in Nat
      BY LensAssumption
    <3> QED  BY <3>1, LensAssumption
  <2> QED  BY <2>1, <2>2 DEF Valid
<1> HIDE DEF w
<1>4. /\ bs \in Seq(Byte) /\ Len(bs) = w
      /\ \A k \in 1..w : bs[k] = <<life, p, k>>
  BY <1>1, <1>3, BytesIn, BytesAre
<1> HIDE DEF bs
<1>5. /\ Len(stream') = Len(stream) + w
      /\ \A i \in 1..Len(stream) : stream'[i] = stream[i]
      /\ \A k \in 1..w : stream'[Len(stream) + k] = <<life, p, k>>
  <2>1. stream' = stream \o bs
    BY <1>0 DEF SendPkt, bs, w
  <2>2. /\ Len(stream \o bs) = Len(stream) + Len(bs)
        /\ \A i \in 1..(Len(stream) + Len(bs)) :
             (stream \o bs)[i] =
               IF i <= Len(stream) THEN stream[i] ELSE bs[i - Len(stream)]
    BY <1>1, <1>4, ConcatProperties
  <2>3. \A k \in 1..w : /\ Len(stream) + k \in 1..(Len(stream) + Len(bs))
                        /\ ~(Len(stream) + k <= Len(stream))
                        /\ Len(stream) + k - Len(stream) = k
    BY <1>1, <1>3, <1>4
  <2>4. \A i \in 1..Len(stream) : i \in 1..(Len(stream) + Len(bs))
    BY <1>1, <1>3, <1>4
  <2> QED  BY <1>1, <1>4, <2>1, <2>2, <2>3, <2>4
<1>6. \A q \in 0..Len(sent) : Wanted(q)' = Wanted(q)
  BY <1>1, <1>2, WantedKept
<1>7. \A q \in 1..Len(sent) : Full(q)' = Full(q) /\ Full(q) \in Nat
  BY <1>2, FullIn DEF Full, IInv, BufferInv
<1>8. \A q, n : Bytes(q, n)' = Bytes(q, n)
  BY <1>1 DEF Bytes
<1>9. PICK c \in 1..(MaxPkts + 1), f \in Starts : Framing(c, f)
  BY <1>1 DEF FramingInv, Framed
<1>g. PICK g : g = [f EXCEPT ![p + 1] = Len(stream) + w]
  OBVIOUS
<1>10. /\ g \in Starts /\ g[p + 1] = Len(stream) + w
       /\ \A q \in 1..p : g[q] = f[q] /\ f[q] \in Int
  <2>1. Len(stream) + w \in Int
    BY <1>1, <1>3
  <2>2. \A q \in 1..p : q \in 1..(MaxPkts + 1) /\ q # p + 1
    BY <1>1, BoundsAssumption
  <2>3. p + 1 \in 1..(MaxPkts + 1)
    BY <1>1
  <2> QED  BY <1>g, <2>1, <2>2, <2>3 DEF Starts
<1>11. /\ f[p] = Len(stream) /\ c \in 1..p
       /\ f[c] + (pConn.precvbuf + reco) = 0
  BY <1>0, <1>1, <1>9 DEF Framing
<1>12. ASSUME NEW q \in c..p
       PROVE  /\ g[q + 1] = g[q] + Full(q)' /\ g[q + 1] <= Len(stream')
              /\ \A k \in 1..Full(q)' :
                   g[q] + k >= 1 => stream'[g[q] + k] = <<life, q, k>>
  <2>1. CASE q = p
    <3>1. g[p] = Len(stream) /\ g[p + 1] = Len(stream) + w
      BY <1>1, <1>10, <1>11
    <3>2. \A k \in 1..w : stream'[g[p] + k] = <<life, p, k>>
      BY <1>5, <3>1
    <3>3. g[p + 1] = g[p] + Full(p)' /\ g[p + 1] <= Len(stream')
      BY <1>1, <1>3, <1>5, <3>1
    <3> QED  BY <1>3, <2>1, <3>2, <3>3
  <2>2. CASE q # p
    <3>1. /\ q \in c..Len(sent) /\ q \in 1..Len(sent)
          /\ q \in 1..p /\ q + 1 \in 1..p
      BY <1>0, <1>1, <1>11, <2>2
    <3>2. /\ f[q + 1] = f[q] + Full(q) /\ f[q + 1] <= Len(stream)
          /\ \A k \in 1..Full(q) :
               f[q] + k >= 1 => stream[f[q] + k] = <<life, q, k>>
      BY <1>9, <3>1 DEF Framing
    <3>3. /\ g[q] = f[q] /\ g[q + 1] = f[q + 1] /\ f[q] \in Int
          /\ f[q + 1] \in Int /\ Full(q)' = Full(q) /\ Full(q) \in Nat
      BY <1>7, <1>10, <3>1
    <3>4. ASSUME NEW k \in 1..Full(q), f[q] + k >= 1
          PROVE  stream'[f[q] + k] = <<life, q, k>>
      <4>1. f[q] + k \in 1..Len(stream)
        BY <1>1, <3>2, <3>3, <3>4
      <4> QED  BY <1>5, <3>2, <3>4, <4>1
    <3>5. g[q + 1] = g[q] + Full(q)' /\ g[q + 1] <= Len(stream')
      BY <1>1, <1>3, <1>5, <3>2, <3>3
    <3> QED  BY <3>3, <3>4, <3>5
  <2> QED  BY <2>1, <2>2
<1>13. /\ c <= Len(sent') + 1 /\ g[Len(sent') + 1] = Len(stream')
       /\ g[c] + (pConn.precvbuf + reco) = 0
  BY <1>1, <1>2, <1>5, <1>10, <1>11
<1>14. Len(out') = Wanted(c - 1)'
  <2>1. c - 1 \in 0..Len(sent)
    BY <1>0, <1>1, <1>11
  <2> QED  BY <1>1, <1>6, <1>9, <2>1 DEF Framing
<1>15. ~InHeader' => /\ c <= Len(sent') /\ Valid(sent'[c])
                     /\ pConn'.precvMemPointer.len = sent'[c]
  <2> SUFFICES ASSUME ~InHeader PROVE /\ c <= Len(sent') /\ Valid(sent'[c])
                                      /\ pConn.precvMemPointer.len = sent'[c]
    BY <1>1 DEF InHeader
  <2>1. c <= Len(sent) /\ Valid(sent[c]) /\ pConn.precvMemPointer.len = sent[c]
    BY <1>9 DEF Framing
  <2> QED  BY <1>0, <1>1, <1>2, <1>11, <2>1
<1>16. pConn.precvbuf + reco > 0 =>
         Held(pConn) = Bytes(c, pConn.precvbuf + reco)
  BY <1>9 DEF Framing
<1>17. Framing(c, g)'
  <2>1. pConn'.precvbuf + reco' = pConn.precvbuf + reco
    BY <1>1
  <2>2. Held(pConn') = Held(pConn) /\ InHeader' = InHeader
    BY <1>1 DEF Held, InHeader
  <2>3. \A q \in c..Len(sent') :
          /\ g[q + 1] = g[q] + Full(q)' /\ g[q + 1] <= Len(stream')
          /\ \A k \in 1..Full(q)' :
               g[q] + k >= 1 => stream'[g[q] + k] = <<life', q, k>>
    BY <1>1, <1>2, <1>12
  <2>4. (pConn.precvbuf + reco > 0 =>
           Held(pConn) = Bytes(c, pConn.precvbuf + reco))'
    BY <1>8, <1>16, <2>1, <2>2
  <2>5. g[c] + (pConn'.precvbuf + reco') = 0
    BY <1>13, <2>1
  <2> QED  BY <1>13, <1>14, <1>15, <2>3, <2>4, <2>5 DEF Framing
<1>18. FramedRight'
  <2> SUFFICES ASSUME NEW i \in 1..Len(out)
               PROVE  \E q \in 1..Len(sent') : /\ Valid(sent'[q])
                                               /\ Wanted(q)' = i
                                               /\ out[i] = Bytes(q, sent'[q])
    BY <1>1, <1>8 DEF FramedRight
  <2>1. PICK q \in 1..Len(sent) : /\ Valid(sent[q]) /\ Wanted(q) = i
                                  /\ out[i] = Bytes(q, sent[q])
    BY DEF FramingInv, FramedRight
  <2>2. q \in 1..Len(sent') /\ q \in 0..Len(sent)
    BY <1>0, <1>1, <1>2
  <2> QED  BY <1>2, <1>6, <2>1, <2>2
<1> QED  BY <1>10, <1>17, <1>18 DEF FramingInv, Framed

\* A new client: nothing is received and nothing waits.
LEMMA FramedGetOneToUse == IInv /\ GetOneToUse => FramingInv'
<1> SUFFICES ASSUME IInv, GetOneToUse PROVE FramingInv'
  OBVIOUS
<1> DEFINE f == [q \in 1..(MaxPkts + 1) |-> 0]
<1>1. f \in Starts /\ 1 \in 1..(MaxPkts + 1) /\ f[1] = 0
  BY BoundsAssumption DEF Starts
<1>2. /\ sent' = <<>> /\ stream' = <<>> /\ out' = <<>>
      /\ Len(<<>>) = 0 /\ reco' = 0
      /\ pConn'.precvbuf = 0 /\ pConn'.curStat = "HD_INIT"
  BY DEF GetOneToUse, IInv, BufferInv, Fresh
<1>3. Wanted(1 - 1)' = 0
  <2>1. {q \in 1..(1 - 1) : Valid(sent'[q])} = {}
    OBVIOUS
  <2> QED  BY <2>1, FS_EmptySet DEF Wanted
<1> HIDE DEF f
<1>4. Framing(1, f)'
  BY <1>1, <1>2, <1>3 DEF Framing, InHeader
<1>5. FramedRight'
  BY <1>2 DEF FramedRight
<1>6. Framed'
  BY <1>1, <1>4 DEF Framed
<1> QED  BY <1>5, <1>6 DEF FramingInv

LEMMA FramedClosing ==
  IInv /\ FramingInv /\ (PutOneToFree \/ TimerCloses \/ RecvProcCloses)
    => FramingInv'
<1> SUFFICES ASSUME IInv, FramingInv,
                    PutOneToFree \/ TimerCloses \/ RecvProcCloses
             PROVE  FramingInv'
  OBVIOUS
<1>1. CASE PutOneToFree
  BY <1>1, SameFrame DEF PutOneToFree, client, IInv, BufferInv
<1>2. CASE TimerCloses
  <2>1. /\ pConn'.precvbuf = pConn.precvbuf /\ pConn'.curStat = pConn.curStat
        /\ pConn'.dataHeadInfo = pConn.dataHeadInfo
        /\ pConn'.precvMemPointer = pConn.precvMemPointer
    BY <1>2, ClosedSame DEF TimerCloses, IInv, BufferInv
  <2>2. Held(pConn') = Held(pConn) /\ InHeader' = InHeader
    BY <2>1 DEF Held, InHeader
  <2> QED  BY <1>2, <2>1, <2>2, SameFrame DEF TimerCloses, client
<1>3. CASE RecvProcCloses
  BY <1>3, SameFrame DEF RecvProcCloses, zdCloseSocketProc, client
<1> QED  BY <1>1, <1>2, <1>3

LEMMA FramedInit == Init => FramingInv
BY DEF Init, FramingInv, FramedRight

LEMMA FramedNext == IInv /\ FramingInv /\ [Next]_vars => FramingInv'
<1> SUFFICES ASSUME IInv, FramingInv, [Next]_vars PROVE FramingInv'
  OBVIOUS
<1>1. CASE \E L \in Lens : SendPkt(L)
  BY <1>1, FramedSendPkt
<1>2. CASE (\E how \in {"fin", "rst"} : PeerEnds(how)) \/ UNCHANGED vars
  <2>1. UNCHANGED <<life, sent, place, stream, pConn, reco, out>>
    BY <1>2 DEF PeerEnds, vars, client
  <2>2. Held(pConn') = Held(pConn) /\ InHeader' = InHeader
    BY <2>1 DEF Held, InHeader
  <2> QED  BY <2>1, <2>2, SameFrame
<1>3. CASE GetOneToUse
  BY <1>3, FramedGetOneToUse
<1>4. CASE PutOneToFree \/ TimerCloses \/ RecvProcCloses
  BY <1>4, FramedClosing
<1>5. CASE \E n \in 1..Len(stream) : RecvProc(n)
  BY <1>5, FramedRecvProc
<1>6. CASE RecvPart
  BY <1>6, FramedPart
<1>7. CASE RejectHeader
  BY <1>7, FramedReject
<1>8. CASE NgxWaitRequestHandlerProcPL
  BY <1>8, FramedProcPL
<1>9. CASE CompleteHeader \/ CompleteBody
  BY <1>9, FramedCompletes
<1> QED
  BY <1>1, <1>2, <1>3, <1>4, <1>5, <1>6, <1>7, <1>8, <1>9
  DEF Next, NgxReadRequestHandler

-----------------------------------------------------------------------------
(* The numbers in the message headers.                                     *)

\* All of s is bytes of client who.
Own(s, who) == \A i \in 1..Len(s) : s[i][1] = who

\* What the connection has still to read, and what it has read into its
\* buffers, is all of one client, the one that is there.
OwnInv ==
  /\ Own(stream, life) /\ Own(pConn.dataHeadInfo, life)
  /\ pConn.precvMemPointer # None => Own(pConn.precvMemPointer.data, life)

\* A part of one's own bytes is one's own.
LEMMA OwnPart ==
  ASSUME NEW w, NEW s \in Seq(Byte), Own(s, w),
         NEW m \in Nat \ {0}, NEW n \in Nat, n <= Len(s)
  PROVE  Own(SubSeq(s, m, n), w)
<1> SUFFICES ASSUME NEW i \in 1..Len(SubSeq(s, m, n))
             PROVE  SubSeq(s, m, n)[i][1] = w
  BY DEF Own
<1>1. Len(s) \in Nat /\ \A j \in m..n : s[j] \in Byte
  BY LenProperties, ElementOfSeq
<1>2. i \in 1..(n - m + 1) /\ m <= n
  BY <1>1, SubSeqIn
<1>3. SubSeq(s, m, n)[i] = s[m + i - 1]
  BY <1>1, <1>2, SubSeqProperties
<1>4. m + i - 1 \in 1..Len(s)
  BY <1>1, <1>2
<1> QED  BY <1>3, <1>4 DEF Own

\* So are two parts, one behind the other.
LEMMA OwnConcat ==
  ASSUME NEW w, NEW s \in Seq(Byte), NEW t \in Seq(Byte), Own(s, w), Own(t, w)
  PROVE  Own(s \o t, w)
<1> SUFFICES ASSUME NEW i \in 1..Len(s \o t) PROVE (s \o t)[i][1] = w
  BY DEF Own
<1>1. Len(s) \in Nat /\ Len(t) \in Nat /\ Len(s \o t) = Len(s) + Len(t)
  BY LenProperties, ConcatProperties
<1>2. CASE i <= Len(s)
  <2>1. (s \o t)[i] = s[i] /\ i \in 1..Len(s)
    BY <1>1, <1>2, ConcatProperties
  <2> QED  BY <2>1 DEF Own
<1>3. CASE i > Len(s)
  <2>1. (s \o t)[i] = t[i - Len(s)] /\ i - Len(s) \in 1..Len(t)
    BY <1>1, <1>3, ConcatProperties
  <2> QED  BY <2>1 DEF Own
<1> QED  BY <1>1, <1>2, <1>3

\* What a client sends is its own.
LEMMA OwnBytes ==
  ASSUME NEW p, NEW n \in Nat
  PROVE  Own(Bytes(p, n), life)
BY DEF Own, Bytes

\* Receiving keeps what is read and what is left one's own.
LEMMA OwnRecvProc ==
  ASSUME BufferInv, OwnInv, NEW n \in 1..Len(stream), RecvProc(n)
  PROVE  OwnInv'
<1> DEFINE bs == SubSeq(stream, 1, n)
           b  == Write(Held(pConn), bs)
           w  == life
<1>1. /\ stream \in Seq(Byte) /\ Len(stream) \in Nat /\ n \in Nat
      /\ n <= Len(stream) /\ place # "free" /\ w' = w
      /\ pConn \in PConn
  BY LenProperties DEF BufferInv, World, RecvProc, client
<1>2. /\ Own(stream, w) /\ Own(pConn.dataHeadInfo, w)
      /\ pConn.precvMemPointer # None => Own(pConn.precvMemPointer.data, w)
  BY DEF OwnInv
<1>3. stream' = SubSeq(stream, n + 1, Len(stream))
  BY DEF RecvProc
<1>4. Own(bs, w) /\ bs \in Seq(Byte) /\ Own(stream', w)
  <2>1. n + 1 \in Nat \ {0} /\ 1 \in Nat \ {0}
    BY <1>1
  <2> QED  BY <1>1, <1>2, <1>3, <2>1, OwnPart, SubSeqIn
<1>5. /\ Held(pConn) \in Seq(Byte) /\ Own(Held(pConn), w)
      /\ pConn.precvbuf \in Nat /\ pConn.precvbuf <= Len(Held(pConn))
  <2>1. Held(pConn) \in Seq(Byte) /\ Len(Held(pConn)) \in Nat
    BY <1>1, Used, LenProperties
  <2>2. Own(Held(pConn), w)
    BY <1>1, <1>2, Used DEF Held, InHeader, HeaderStat
  <2> QED  BY <1>1, <2>1, <2>2, Used DEF ConnRight
<1>6. Own(b, w)
  <2> DEFINE kept == SubSeq(Held(pConn), 1, pConn.precvbuf)
  <2>1. kept \in Seq(Byte) /\ Own(kept, w)
    BY <1>5, OwnPart, SubSeqIn
  <2> QED  BY <1>4, <2>1, OwnConcat DEF Write
<1>7. CASE InHeader
  <2>1. pConn' = [pConn EXCEPT !.dataHeadInfo = b]
    BY <1>7 DEF RecvProc, Held, InHeader, HeaderStat
  <2> HIDE DEF b
  <2>2. /\ pConn'.dataHeadInfo = b
        /\ pConn'.precvMemPointer = pConn.precvMemPointer
    BY <1>1, <2>1 DEF PConn
  <2> QED  BY <1>1, <1>2, <1>4, <1>6, <2>2 DEF OwnInv
<1>8. CASE ~InHeader
  <2> DEFINE m == [pConn.precvMemPointer EXCEPT !.data = b]
  <2>1. pConn' = [pConn EXCEPT !.precvMemPointer = m]
    BY <1>8 DEF RecvProc, Held, InHeader, HeaderStat
  <2> HIDE DEF b
  <2>2. m.data = b
    BY <1>1, <1>8, Used DEF Buffer
  <2> HIDE DEF m
  <2>3. /\ pConn'.dataHeadInfo = pConn.dataHeadInfo
        /\ pConn'.precvMemPointer = m
    BY <1>1, <2>1 DEF PConn
  <2> QED  BY <1>1, <1>2, <1>4, <1>6, <2>2, <2>3 DEF OwnInv
<1> QED  BY <1>7, <1>8

LEMMA OwnNext == BufferInv /\ OwnInv /\ [Next]_vars => OwnInv'
<1> SUFFICES ASSUME BufferInv, OwnInv, [Next]_vars PROVE OwnInv'
  OBVIOUS
<1>1. pConn \in PConn /\ stream \in Seq(Byte)
  BY DEF BufferInv, World
<1>2. /\ Own(stream, life) /\ Own(pConn.dataHeadInfo, life)
      /\ pConn.precvMemPointer # None => Own(pConn.precvMemPointer.data, life)
  BY DEF OwnInv
<1>3. CASE GetOneToUse
  <2>1. /\ stream' = <<>> /\ pConn'.dataHeadInfo = <<>>
        /\ pConn'.precvMemPointer = None
    BY <1>3 DEF GetOneToUse, Fresh
  <2>2. Own(<<>>, life')
    BY DEF Own
  <2> QED  BY <2>1, <2>2 DEF OwnInv
<1>4. CASE \E L \in Lens : SendPkt(L)
  <2>1. PICK L \in Lens : SendPkt(L)
    BY <1>4
  <2> DEFINE p == Len(sent) + 1
             n == IF Valid(L) THEN L ELSE HdrLen
  <2>2. Len(sent) \in Nat /\ sent \in Seq(Lens)
    BY LenProperties DEF BufferInv, World
  <2>3. /\ life \in 1..MaxLives /\ p \in 1..MaxPkts
        /\ n \in Nat /\ n <= MaxLen
    BY <2>1, <2>2, LensAssumption, BoundsAssumption
    DEF BufferInv, World, SendPkt, Valid
  <2>4. stream' = stream \o Bytes(p, n) /\ UNCHANGED <<life, pConn>>
    BY <2>1 DEF SendPkt
  <2> HIDE DEF p, n
  <2>5. Own(stream', life)
    BY <1>1, <1>2, <2>3, <2>4, BytesIn, OwnBytes, OwnConcat
  <2> QED  BY <1>2, <2>4, <2>5 DEF OwnInv
<1>5. CASE \E n \in 1..Len(stream) : RecvProc(n)
  BY <1>5, OwnRecvProc
<1>6. CASE NgxWaitRequestHandlerProcPL
  <2>1. /\ pConn'.dataHeadInfo = pConn.dataHeadInfo
        /\ pConn'.precvMemPointer.data = pConn.dataHeadInfo
        /\ UNCHANGED <<life, stream>>
    BY <1>1, <1>6 DEF NgxWaitRequestHandlerProcPL, PConn, client
  <2> QED  BY <1>2, <2>1 DEF OwnInv
<1>7. CASE \/ \E how \in {"fin", "rst"} : PeerEnds(how)
           \/ PutOneToFree \/ TimerCloses \/ RecvProcCloses \/ RecvPart
           \/ RejectHeader \/ CompleteHeader \/ CompleteBody
           \/ UNCHANGED vars
  <2>1. UNCHANGED <<life, stream>>
    BY <1>7
    DEF PeerEnds, PutOneToFree, TimerCloses, RecvProcCloses, RecvPart,
        RejectHeader, CompleteHeader, CompleteBody, vars, client
  <2>2. /\ pConn'.dataHeadInfo = pConn.dataHeadInfo
        /\ pConn'.precvMemPointer \in {None, pConn.precvMemPointer}
    <3>1. CASE PutOneToFree \/ RecvPart \/ RejectHeader
      BY <1>1, <3>1
      DEF PutOneToFree, Raised, RecvPart, RejectHeader, NextHeader, PConn
    <3>2. CASE TimerCloses \/ RecvProcCloses
      <4>1. \E why : zdCloseSocketProc(why, pConn)
        BY <3>2 DEF TimerCloses, RecvProcCloses
      <4> QED  BY <1>1, <4>1, ClosedSame
    <3>3. CASE CompleteHeader \/ CompleteBody
      <4>1. \E data, number, extra : Complete(data, number, extra)
        BY <3>3 DEF CompleteHeader, CompleteBody
      <4> QED  BY <1>1, <4>1, CompleteNext
    <3>4. CASE UNCHANGED vars \/ \E how \in {"fin", "rst"} : PeerEnds(how)
      BY <3>4 DEF vars, PeerEnds
    <3> QED  BY <1>7, <3>1, <3>2, <3>3, <3>4
  <2> QED  BY <1>2, <2>1, <2>2 DEF OwnInv
<1> QED
  BY <1>3, <1>4, <1>5, <1>6, <1>7 DEF Next, NgxReadRequestHandler

\* No packet has a number above the connection's, and one of a former client
\* has a number below it.
NumbersInv ==
  /\ \A h \in headers :
       /\ h.from <= life /\ h.iCurrsequence <= pConn.iCurrSequence
       /\ h.from # life => h.iCurrsequence < pConn.iCurrSequence
  /\ pConn.precvMemPointer # None =>
       pConn.precvMemPointer.iCurrsequence <= pConn.iCurrSequence

\* A step of one client that hands over no packet and does not lower the number.
LEMMA NumbersKept ==
  ASSUME BufferInv, NumbersInv, UNCHANGED <<life, headers>>, pConn' \in PConn,
         pConn'.iCurrSequence >= pConn.iCurrSequence,
         pConn'.precvMemPointer # None =>
           pConn'.precvMemPointer.iCurrsequence <= pConn'.iCurrSequence
  PROVE  NumbersInv'
<1>1. pConn.iCurrSequence \in Nat /\ pConn'.iCurrSequence \in Nat
  BY DEF BufferInv, PConn
<1>2. ASSUME NEW h \in headers
      PROVE  h.from \in Nat /\ h.iCurrsequence \in Nat
  <2>1. h \in [from : 1..MaxLives, iCurrsequence : Nat]
    BY DEF BufferInv, World
  <2> QED  BY <2>1, BoundsAssumption
<1>3. \A h \in headers :
        /\ h.from <= life /\ h.iCurrsequence <= pConn'.iCurrSequence
        /\ h.from # life => h.iCurrsequence < pConn'.iCurrSequence
  BY <1>1, <1>2 DEF NumbersInv
<1> QED  BY <1>3 DEF NumbersInv

\* The buffer's number, when it is the same buffer and the number not lower.
LEMMA NumberKept ==
  ASSUME BufferInv, NumbersInv, NEW c \in PConn,
         c.iCurrSequence >= pConn.iCurrSequence,
         c.precvMemPointer \in {None, pConn.precvMemPointer}
  PROVE  c.precvMemPointer # None =>
           c.precvMemPointer.iCurrsequence <= c.iCurrSequence
<1> SUFFICES ASSUME c.precvMemPointer # None
             PROVE  c.precvMemPointer.iCurrsequence <= c.iCurrSequence
  OBVIOUS
<1>1. /\ c.precvMemPointer = pConn.precvMemPointer
      /\ c.precvMemPointer.iCurrsequence <= pConn.iCurrSequence
  BY DEF NumbersInv
<1>2. /\ c.iCurrSequence \in Nat /\ pConn.iCurrSequence \in Nat
      /\ c.precvMemPointer \in Buffer
  BY DEF PConn, BufferInv
<1>3. c.precvMemPointer.iCurrsequence \in Nat
  BY <1>2 DEF Buffer
<1> QED  BY <1>1, <1>2, <1>3

\* A packet that is complete has its client's bytes and a number not above the
\* connection's.
LEMMA NumbersComplete ==
  ASSUME BufferInv, BufferInv', NumbersInv, UNCHANGED life,
         NEW data, NEW number \in Nat, NEW extra, Complete(data, number, extra),
         data[1][1] = life, number <= pConn.iCurrSequence
  PROVE  NumbersInv'
<1>1. /\ pConn.iCurrSequence \in Nat /\ pConn' \in PConn /\ life \in Nat
      /\ pConn'.iCurrSequence \in Nat
  BY BoundsAssumption DEF BufferInv, World, PConn
<1>2. /\ pConn'.iCurrSequence >= pConn.iCurrSequence
      /\ pConn'.precvMemPointer = None
      /\ \/ headers' = headers
         \/ headers' = headers \cup {[from |-> life, iCurrsequence |-> number]}
  <2>1. /\ pConn'.iCurrSequence >= pConn.iCurrSequence
        /\ pConn'.precvMemPointer = None
    BY CompleteNext DEF BufferInv
  <2>2. headers' \in {headers, headers \cup
                       {[from |-> data[1][1], iCurrsequence |-> number]}}
    BY DEF Complete
  <2> QED  BY <2>1, <2>2
<1>3. ASSUME NEW h \in headers
      PROVE  /\ h.from <= life /\ h.iCurrsequence <= pConn'.iCurrSequence
             /\ h.from # life => h.iCurrsequence < pConn'.iCurrSequence
  <2>1. h \in [from : 1..MaxLives, iCurrsequence : Nat]
    BY DEF BufferInv, World
  <2>2. h.iCurrsequence \in Nat
    BY <2>1
  <2> QED  BY <1>1, <1>2, <2>2 DEF NumbersInv
<1>4. LET h == [from |-> life, iCurrsequence |-> number]
      IN  h.from <= life /\ h.iCurrsequence <= pConn'.iCurrSequence
          /\ h.from = life
  BY <1>1, <1>2
<1> QED  BY <1>2, <1>3, <1>4 DEF NumbersInv

LEMMA NumbersCompletes ==
  BufferInv /\ BufferInv' /\ OwnInv /\ NumbersInv
    /\ (CompleteHeader \/ CompleteBody) => NumbersInv'
<1> SUFFICES ASSUME BufferInv, BufferInv', OwnInv, NumbersInv,
                    CompleteHeader \/ CompleteBody
             PROVE  NumbersInv'
  OBVIOUS
<1>1. place # "free" /\ reco > 0 /\ life' = life
  BY Busy DEF CompleteHeader, CompleteBody, client
<1>2. Held(pConn)[1][1] = life
  <2>1. Len(Held(pConn)) >= 1 /\ Len(Held(pConn)) \in Nat
    <3>1. /\ pConn.precvbuf + reco <= Len(Held(pConn))
          /\ Len(Held(pConn)) \in Nat
          /\ pConn.precvbuf \in Nat /\ reco \in Nat
      BY <1>1, Used, LenProperties DEF ConnRight
    <3> QED  BY <1>1, <3>1
  <2>2. Own(Held(pConn), life)
    BY <1>1, Used DEF OwnInv, Held, InHeader, HeaderStat
  <2> QED  BY <2>1, <2>2 DEF Own
<1>3. CASE CompleteHeader
  <2>1. Held(pConn) = pConn.dataHeadInfo
    BY <1>3 DEF CompleteHeader, Held, InHeader, HeaderStat
  <2> DEFINE d == pConn.dataHeadInfo
             k == pConn.iCurrSequence
  <2>2. k \in Nat /\ k <= k /\ d[1][1] = life
    BY <1>2, <2>1 DEF BufferInv, PConn
  <2>3. k <= pConn.iCurrSequence
    BY <2>2
  <2>4. Complete(d, k, 1)
    BY <1>3 DEF CompleteHeader
  <2> HIDE DEF d, k
  <2> QED  BY <1>1, <2>2, <2>3, <2>4, NumbersComplete
<1>4. CASE CompleteBody
  <2> DEFINE b == pConn.precvMemPointer
  <2>1. Held(pConn) = b.data /\ b # None /\ b \in Buffer
    BY <1>1, <1>4, Used DEF CompleteBody, Held, InHeader, HeaderStat
  <2>2. b.iCurrsequence \in Nat /\ b.iCurrsequence <= pConn.iCurrSequence
    BY <2>1 DEF NumbersInv, Buffer
  <2>3. Complete(b.data, b.iCurrsequence, 0)
    BY <1>4 DEF CompleteBody
  <2> HIDE DEF b
  <2> QED  BY <1>1, <1>2, <2>1, <2>2, <2>3, NumbersComplete
<1> QED  BY <1>3, <1>4

LEMMA NumbersNext ==
  BufferInv /\ BufferInv' /\ OwnInv /\ NumbersInv /\ [Next]_vars => NumbersInv'
<1> SUFFICES ASSUME BufferInv, BufferInv', OwnInv, NumbersInv, [Next]_vars
             PROVE  NumbersInv'
  OBVIOUS
<1>1. pConn \in PConn /\ pConn' \in PConn /\ pConn.iCurrSequence \in Nat
  BY DEF BufferInv, PConn
<1>2. CASE CompleteHeader \/ CompleteBody
  BY <1>2, NumbersCompletes
<1>3. CASE GetOneToUse
  <2>1. /\ pConn'.iCurrSequence = pConn.iCurrSequence + 1
        /\ pConn'.precvMemPointer = None
        /\ life' = life + 1 /\ headers' = headers /\ life \in Nat
    BY <1>3, BoundsAssumption DEF GetOneToUse, Fresh, BufferInv, World
  <2>2. ASSUME NEW h \in headers
        PROVE  /\ h.from <= life' /\ h.iCurrsequence < pConn'.iCurrSequence
               /\ h.iCurrsequence <= pConn'.iCurrSequence
    <3>1. h \in [from : 1..MaxLives, iCurrsequence : Nat]
      BY DEF BufferInv, World
    <3>2. h.from \in Nat /\ h.iCurrsequence \in Nat
      BY <3>1, BoundsAssumption
    <3>3. h.from <= life /\ h.iCurrsequence <= pConn.iCurrSequence
      BY DEF NumbersInv
    <3> QED  BY <1>1, <2>1, <3>2, <3>3
  <2> QED  BY <2>1, <2>2 DEF NumbersInv
<1>4. CASE NgxWaitRequestHandlerProcPL
  <2>1. /\ UNCHANGED <<life, headers>>
        /\ pConn'.iCurrSequence = pConn.iCurrSequence
        /\ pConn'.precvMemPointer.iCurrsequence = pConn.iCurrSequence
    BY <1>1, <1>4 DEF NgxWaitRequestHandlerProcPL, PConn, client
  <2> QED  BY <1>1, <2>1, NumbersKept
<1>5. CASE \E n \in 1..Len(stream) : RecvProc(n)
  <2>1. PICK n \in 1..Len(stream) : RecvProc(n)
    BY <1>5
  <2>2. place # "free" /\ UNCHANGED <<life, headers>>
    BY <2>1 DEF RecvProc, client
  <2>3. /\ pConn'.iCurrSequence = pConn.iCurrSequence
        /\ InHeader => pConn'.precvMemPointer = pConn.precvMemPointer
        /\ ~InHeader => pConn'.precvMemPointer.iCurrsequence =
                          pConn.precvMemPointer.iCurrsequence
    <3>1. CASE InHeader
      BY <1>1, <2>1, <3>1 DEF RecvProc, PConn
    <3>2. CASE ~InHeader
      <4> DEFINE bs == SubSeq(stream, 1, n)
                 p == [pConn.precvMemPointer EXCEPT
                         !.data = Write(pConn.precvMemPointer.data, bs)]
      <4>1. pConn' = [pConn EXCEPT !.precvMemPointer = p]
        BY <2>1, <3>2 DEF RecvProc
      <4>2. p.iCurrsequence = pConn.precvMemPointer.iCurrsequence
        BY <2>2, <3>2, Used DEF Buffer
      <4> HIDE DEF p
      <4> QED  BY <1>1, <3>2, <4>1, <4>2 DEF PConn
    <3> QED  BY <3>1, <3>2
  <2>4. pConn'.precvMemPointer # None =>
          pConn'.precvMemPointer.iCurrsequence <= pConn'.iCurrSequence
    BY <2>2, <2>3, Used, NoneAssumption DEF NumbersInv
  <2> QED  BY <1>1, <2>2, <2>3, <2>4, NumbersKept
<1>6. CASE RecvPart \/ RejectHeader \/ PutOneToFree
  <2>1. /\ UNCHANGED <<life, headers>>
        /\ pConn'.iCurrSequence >= pConn.iCurrSequence
        /\ pConn'.precvMemPointer \in {None, pConn.precvMemPointer}
    <3>1. CASE RecvPart
      BY <1>1, <3>1 DEF RecvPart, PConn, client
    <3>2. CASE RejectHeader
      BY <1>1, <3>2 DEF RejectHeader, NextHeader, PConn, client
    <3>3. CASE PutOneToFree
      BY <1>1, <3>3 DEF PutOneToFree, Raised, PConn, client
    <3> QED  BY <1>6, <3>1, <3>2, <3>3
  <2> QED  BY <1>1, <2>1, NumberKept, NumbersKept
<1>7. CASE TimerCloses \/ RecvProcCloses
  <2>1. /\ UNCHANGED <<life, headers>>
        /\ \E why : zdCloseSocketProc(why, pConn)
    BY <1>7 DEF TimerCloses, RecvProcCloses, client
  <2>2. /\ pConn'.iCurrSequence >= pConn.iCurrSequence
        /\ pConn'.precvMemPointer = pConn.precvMemPointer
    BY <1>1, <2>1, ClosedSame
  <2> QED  BY <1>1, <2>1, <2>2, NumberKept, NumbersKept
<1>8. CASE \/ \E L \in Lens : SendPkt(L)
           \/ \E how \in {"fin", "rst"} : PeerEnds(how)
           \/ UNCHANGED vars
  <2>1. UNCHANGED <<life, headers, pConn>>
    BY <1>8 DEF SendPkt, PeerEnds, vars, client
  <2> QED  BY <2>1 DEF NumbersInv
<1> QED
  BY <1>2, <1>3, <1>4, <1>5, <1>6, <1>7, <1>8 DEF Next, NgxReadRequestHandler

-----------------------------------------------------------------------------
(* The theorems.                                                           *)

\* While no body makes irecvLen negative, the buffers and what the structure
\* says of them are right whatever recv() returns and whoever closes the
\* connection.
THEOREM BufferInvHolds == NotNegative => (Spec => []BufferInv)
<1> SUFFICES ASSUME NotNegative PROVE Spec => []BufferInv
  OBVIOUS
<1>1. BufferInv /\ [Next]_vars => BufferInv'
  BY BufferInvNext
<1> QED  BY BufferInvInit, <1>1, PTL DEF Spec

\* While the bodies fit irecvLen, so is how much is asked for.
THEOREM InvHolds == Fits => (Spec => []IInv)
<1> SUFFICES ASSUME Fits PROVE Spec => []IInv
  OBVIOUS
<1>1. IInv /\ [Next]_vars => IInv'
  BY InvNext
<1> QED  BY InvInit, <1>1, PTL DEF Spec

\* Every variable keeps its type: irecvLen stays a char, precvbuf in the
\* buffer, the header buffer is never written past its end.
THEOREM TypeCorrect == NotNegative => (Spec => []TypeOK)
<1>1. BufferInv => TypeOK
  BY BufferInvImplies
<1> QED  BY <1>1, BufferInvHolds, PTL

\* NgxReadRequestHandler never lets recv() write past the end of the header
\* buffer or of the packet's, also when the length asked for is not the body's.
THEOREM NeverOverrun == NotNegative => (Spec => []WithinBuffer)
<1>1. BufferInv => WithinBuffer
  BY BufferInvImplies
<1> QED  BY <1>1, BufferInvHolds, PTL

\* irecvLen is what is missing of the header or the packet, at every step.
THEOREM LengthCorrect == Fits => (Spec => []LengthRight)
<1>1. IInv => LengthRight
  BY InvImplies
<1> QED  BY <1>1, InvHolds, PTL

\* No packet buffer is lost or freed twice by NgxReadRequestHandler, the timer
\* thread's closing and PutOneToFree together.
THEOREM BuffersAccounted == NotNegative => (Spec => []BufferAccounted)
<1>1. BufferInv => BufferAccounted
  BY DEF BufferInv
<1> QED  BY <1>1, BufferInvHolds, PTL

\* Wherever recv() cuts the stream, the pool gets the valid packets of the
\* client byte for byte, in order and without a gap.
THEOREM FramingCorrect == Fits => (Spec => []FramedRight)
<1> SUFFICES ASSUME Fits PROVE Spec => []FramedRight
  OBVIOUS
<1>1. IInv /\ FramingInv /\ [Next]_vars => IInv' /\ FramingInv'
  BY InvNext, FramedNext
<1>2. Init => IInv /\ FramingInv
  BY InvInit, FramedInit
<1>3. FramingInv => FramedRight
  BY DEF FramingInv
<1> QED  BY <1>1, <1>2, <1>3, PTL DEF Spec

\* A packet that carries its connection's present number is of the client
\* that is there, or was there last, whenever the number was read and however
\* often the connection was closed and used again since.
THEOREM NumbersCorrect == NotNegative => (Spec => []NumberNamesClient)
<1> SUFFICES ASSUME NotNegative PROVE Spec => []NumberNamesClient
  OBVIOUS
<1> DEFINE All == BufferInv /\ OwnInv /\ NumbersInv
<1>1. Init => All
  <2>1. Init => NumbersInv
    BY DEF Init, Fresh, NumbersInv
  <2>2. Init => OwnInv
    BY DEF Init, Fresh, OwnInv, Own
  <2> QED  BY <2>1, <2>2, BufferInvInit
<1>2. All /\ [Next]_vars => All'
  BY BufferInvNext, OwnNext, NumbersNext
<1>3. All => NumberNamesClient
  <2> SUFFICES ASSUME All, NEW h \in headers,
                      h.iCurrsequence = pConn.iCurrSequence
               PROVE  h.from = life
    BY DEF NumberNamesClient
  <2>1. pConn.iCurrSequence \in Nat
    BY DEF BufferInv, PConn
  <2> QED  BY <2>1 DEF NumbersInv
<1> HIDE DEF All
<1> QED  BY <1>1, <1>2, <1>3, PTL DEF Spec
===============================================================================

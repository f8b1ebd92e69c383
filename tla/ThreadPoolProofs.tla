--------------------------- MODULE ThreadPoolProofs ----------------------------
(***************************************************************************)
(* Proofs about ThreadPool, for any finite set of pool threads and any set *)
(* of packet buffers.                                                      *)
(***************************************************************************)
EXTENDS ThreadPool, ListLemmas, FiniteSetTheorems

-----------------------------------------------------------------------------
(* The inductive invariant.                                                *)

\* Who holds mPthreadMutex, what a thread knows while it does, and where the
\* threads are while the main thread is at each place.
Control ==
  /\ \A w \in Workers : wpc[w] \in Locked <=> mutex = w
  /\ \A w \in Workers : wpc[w] = "wait" => mMsgRecvQueue = <<>>
  /\ \A w \in Workers : wpc[w] = "check" => mMsgRecvQueue # <<>> \/ mShutDown
  /\ \A w \in Workers : wpc[w] = "none" => ~ifrunning[w]
  /\ \A w \in Workers : wpc[w] = "none" => mpc \in {"create", "dead"}
  /\ mpc \in {"stopped", "cleared"} => \A w \in Workers : wpc[w] = "exited"
  /\ mpc = "create" => mMsgRecvQueue = <<>>
  /\ buf # NoJob <=> mpc = "enqueue"
  /\ mShutDown <=> mpc \in {"broadcast", "join", "stopped", "cleared"}

\* Which threads have a buffer, and what the two counters count.
Running == {w \in Workers : wpc[w] = "run"}
Counters ==
  /\ \A w \in Workers : jobBuf[w] # NoJob <=> wpc[w] \in Holding
  /\ miRunningThreadNum = Cardinality(Running)
  /\ mpc # "cleared" => mIRecvMsgQueueCount = Len(mMsgRecvQueue)

\* Where every buffer is that was ever queued.
Buffers ==
  /\ NoRepeats(submitted)
  /\ mpc = "enqueue" => buf \notin Elems(submitted)
  /\ mpc # "cleared" => submitted = taken \o mMsgRecvQueue
  /\ mpc # "cleared" => freed \subseteq Elems(taken)
  /\ \A j \in Elems(taken) : j \in freed \/ \E w \in Workers : jobBuf[w] = j
  /\ \A w \in Workers : jobBuf[w] # NoJob => jobBuf[w] \in Elems(taken)

IInv == /\ TypeOK /\ Control /\ Counters /\ Buffers
        /\ ExclusiveOwner /\ NoMissedSignal /\ NothingLeftBehind

LEMMA InvInit == Init => IInv
<1> SUFFICES ASSUME Init PROVE IInv
  OBVIOUS
<1>1. Cardinality({}) = 0 /\ Cardinality(Workers) \in Nat
  BY FS_EmptySet, FS_CardinalityType, WorkersAssumption
<1>2. Running = {}
  BY DEF Init, Running
<1>3. TypeOK
  <2>1. mpc \in MainPC /\ wpc \in [Workers -> WorkerPC]
    BY DEF Init, MainPC, WorkerPC
  <2>2. /\ mIRecvMsgQueueCount \in Nat
        /\ miRunningThreadNum \in 0..Cardinality(Workers)
    BY <1>1 DEF Init
  <2>3. /\ ifrunning \in [Workers -> BOOLEAN]
        /\ jobBuf \in [Workers -> Jobs \cup {NoJob}]
        /\ mShutDown \in BOOLEAN
    BY DEF Init
  <2>4. /\ mMsgRecvQueue \in Seq(Jobs)
        /\ submitted \in Seq(Jobs) /\ taken \in Seq(Jobs)
    BY EmptySeq DEF Init
  <2> QED  BY <2>1, <2>2, <2>3, <2>4 DEF Init, TypeOK
<1>4. Control
  BY WorkersAssumption DEF Init, Control, Locked
<1>5. Counters
  BY <1>1, <1>2 DEF Init, Counters, Holding
<1>6. Buffers
  BY ConcatEmptySeq, EmptySeq DEF Init, Buffers, NoRepeats, Elems
<1>7. ExclusiveOwner /\ NoMissedSignal /\ NothingLeftBehind
  BY DEF Init, ExclusiveOwner, NoMissedSignal, NothingLeftBehind
<1> QED  BY <1>3, <1>4, <1>5, <1>6, <1>7 DEF IInv

\* What a step of thread w leaves of the threads' places.
LEMMA Moved ==
  ASSUME TypeOK, NEW w \in Workers, NEW from, NEW to \in WorkerPC,
         Thread(w, from, to)
  PROVE  /\ mpc # "dead" /\ wpc[w] = from /\ wpc'[w] = to
         /\ \A v \in Workers \ {w} : wpc'[v] = wpc[v]
         /\ wpc' \in [Workers -> WorkerPC]
BY DEF TypeOK, Thread

\* Every step that takes no buffer, frees none and queues none.
Quiet ==
  /\ UNCHANGED <<queue, work>>
  /\ \A w \in Workers : /\ wpc'[w] \in Holding <=> wpc[w] \in Holding
                        /\ wpc'[w] = "run" <=> wpc[w] = "run"
  /\ mpc # "cleared" /\ mpc' # "cleared"
  /\ mpc' = "enqueue" => buf' \notin Elems(submitted)

LEMMA QuietStep ==
  ASSUME IInv, Quiet
  PROVE  Counters' /\ Buffers' /\ ExclusiveOwner' /\ NothingLeftBehind'
<1>1. Counters'
  <2>1. Running' = Running
    BY DEF Quiet, Running
  <2> QED  BY <2>1 DEF IInv, Quiet, Counters, queue, work
<1>2. Buffers' /\ ExclusiveOwner' /\ NothingLeftBehind'
  BY DEF IInv, Quiet, queue, work, Buffers, ExclusiveOwner, NothingLeftBehind,
         NoRepeats, Elems
<1> QED  BY <1>1, <1>2

\* The inductive step, one action after the other.
LEMMA InvNext == IInv /\ [Next]_vars => IInv'
<1> SUFFICES ASSUME IInv, [Next]_vars PROVE IInv'
  OBVIOUS
<1>0. TypeOK /\ Control /\ Counters /\ Buffers /\ NoMissedSignal
  BY DEF IInv
<1>1. CASE CreateThread
  <2>1. TypeOK'
    BY <1>0, <1>1
      DEF CreateThread, Thread, TypeOK, MainPC, WorkerPC, queue, work
  <2>2. Control'
    BY <1>0, <1>1, WorkersAssumption, JobsAssumption
      DEF CreateThread, Thread, Control, TypeOK, Locked, queue
  <2>3. Quiet
    BY <1>0, <1>1
      DEF CreateThread, Thread, Quiet, Control, Buffers, TypeOK, Holding
  <2>4. NoMissedSignal'
    BY <1>0, <1>1
      DEF CreateThread, Thread, NoMissedSignal, Control, TypeOK, Locked, queue
  <2> QED  BY <2>1, <2>2, <2>3, <2>4, QuietStep DEF IInv
<1>2. CASE CreateFails
  <2>1. TypeOK'
    BY <1>0, <1>2 DEF CreateFails, Main, TypeOK, MainPC, WorkerPC, queue, work
  <2>2. Control'
    BY <1>0, <1>2, WorkersAssumption, JobsAssumption
      DEF CreateFails, Main, Control, TypeOK, Locked, queue
  <2>3. Quiet
    BY <1>0, <1>2
      DEF CreateFails, Main, Quiet, Control, Buffers, TypeOK, Holding
  <2>4. NoMissedSignal'
    BY <1>0, <1>2
      DEF CreateFails, Main, NoMissedSignal, Control, TypeOK, Locked, queue
  <2> QED  BY <2>1, <2>2, <2>3, <2>4, QuietStep DEF IInv
<1>3. CASE CreateReturns
  <2>1. TypeOK'
    BY <1>0, <1>3
      DEF CreateReturns, Main, TypeOK, MainPC, WorkerPC, queue, work
  <2>2. Control'
    BY <1>0, <1>3, WorkersAssumption, JobsAssumption
      DEF CreateReturns, Main, Control, TypeOK, Locked, queue
  <2>3. Quiet
    BY <1>0, <1>3
      DEF CreateReturns, Main, Quiet, Control, Buffers, TypeOK, Holding
  <2>4. NoMissedSignal'
    BY <1>0, <1>3
      DEF CreateReturns, Main, NoMissedSignal, Control, TypeOK, Locked, queue
  <2> QED  BY <2>1, <2>2, <2>3, <2>4, QuietStep DEF IInv
<1>4. ASSUME NEW j \in Jobs, Submit(j)  PROVE IInv'
  <2>1. TypeOK'
    BY <1>0, <1>4 DEF Submit, Main, TypeOK, MainPC, WorkerPC, queue, work
  <2>2. Control'
    BY <1>0, <1>4, WorkersAssumption, JobsAssumption
      DEF Submit, Main, Control, TypeOK, Locked, queue
  <2>3. Quiet
    BY <1>0, <1>4 DEF Submit, Main, Quiet, Control, Buffers, TypeOK, Holding
  <2>4. NoMissedSignal'
    BY <1>0, <1>4
      DEF Submit, Main, NoMissedSignal, Control, TypeOK, Locked, queue
  <2> QED  BY <2>1, <2>2, <2>3, <2>4, QuietStep DEF IInv
<1>5. CASE Call
  <2>1. TypeOK'
    BY <1>0, <1>5 DEF Call, Main, Thread, TypeOK, MainPC, WorkerPC, queue, work
  <2>2. Control'
    BY <1>0, <1>5, WorkersAssumption, JobsAssumption
      DEF Call, Main, Thread, Control, TypeOK, Locked, queue
  <2>3. Quiet
    BY <1>0, <1>5
      DEF Call, Main, Thread, Quiet, Control, Buffers, TypeOK, Holding
  <2>4. NoMissedSignal'
    <3>1. CASE \E w \in Workers : Thread(w, "waiting", "lock")
      <4>1. PICK w \in Workers : wpc'[w] = "lock"
        BY <1>0, <3>1 DEF Thread, TypeOK
      <4> QED  BY <4>1 DEF NoMissedSignal
    <3>2. CASE \A w \in Workers : wpc[w] # "waiting"
      BY <1>0, <1>5, <3>2, WorkersAssumption
        DEF Call, Main, Thread, NoMissedSignal, TypeOK
    <3> QED  BY <1>5, <3>1, <3>2 DEF Call
  <2> QED  BY <2>1, <2>2, <2>3, <2>4, QuietStep DEF IInv
<1>6. CASE SetShutDown
  <2>1. TypeOK'
    BY <1>0, <1>6 DEF SetShutDown, Main, TypeOK, MainPC, WorkerPC, queue, work
  <2>2. Control'
    BY <1>0, <1>6, WorkersAssumption, JobsAssumption
      DEF SetShutDown, Main, Control, TypeOK, Locked, queue
  <2>3. Quiet
    BY <1>0, <1>6
      DEF SetShutDown, Main, Quiet, Control, Buffers, TypeOK, Holding
  <2>4. NoMissedSignal'
    BY <1>0, <1>6
      DEF SetShutDown, Main, NoMissedSignal, Control, TypeOK, Locked, queue
  <2> QED  BY <2>1, <2>2, <2>3, <2>4, QuietStep DEF IInv
<1>7. CASE Broadcast
  <2>1. TypeOK'
    BY <1>0, <1>7 DEF Broadcast, Main, TypeOK, MainPC, WorkerPC, queue, work
  <2>2. Control'
    BY <1>0, <1>7, WorkersAssumption, JobsAssumption
      DEF Broadcast, Main, Control, TypeOK, Locked, queue
  <2>3. Quiet
    BY <1>0, <1>7 DEF Broadcast, Main, Quiet, Control, Buffers, TypeOK, Holding
  <2>4. NoMissedSignal'
    BY <1>0, <1>7
      DEF Broadcast, Main, NoMissedSignal, Control, TypeOK, Locked, queue
  <2> QED  BY <2>1, <2>2, <2>3, <2>4, QuietStep DEF IInv
<1>8. CASE JoinAll
  <2>1. TypeOK'
    BY <1>0, <1>8 DEF JoinAll, Main, TypeOK, MainPC, WorkerPC, queue, work
  <2>2. Control'
    BY <1>0, <1>8, WorkersAssumption, JobsAssumption
      DEF JoinAll, Main, Control, TypeOK, Locked, queue
  <2>3. Quiet
    BY <1>0, <1>8 DEF JoinAll, Main, Quiet, Control, Buffers, TypeOK, Holding
  <2>4. NoMissedSignal'
    BY <1>0, <1>8
      DEF JoinAll, Main, NoMissedSignal, Control, TypeOK, Locked, queue
  <2> QED  BY <2>1, <2>2, <2>3, <2>4, QuietStep DEF IInv
<1>9. ASSUME NEW w \in Workers, Lock(w)  PROVE IInv'
  <2>0. /\ mpc # "dead" /\ wpc[w] = "lock" /\ wpc'[w] = "test"
        /\ \A v \in Workers \ {w} : wpc'[v] = wpc[v]
        /\ wpc' \in [Workers -> WorkerPC]
    BY <1>0, <1>9, Moved DEF Lock, WorkerPC
  <2>1. TypeOK'
    BY <2>0, <1>0, <1>9 DEF Lock, TypeOK, MainPC, WorkerPC, queue, work
  <2>2. Control'
    BY <2>0, <1>0, <1>9, WorkersAssumption, JobsAssumption
      DEF Lock, Control, TypeOK, Locked, queue
  <2>3. Quiet
    BY <2>0, <1>0, <1>9 DEF Lock, Quiet, Control, Buffers, TypeOK, Holding
  <2>4. NoMissedSignal'
    BY <2>0, <1>0, <1>9
      DEF Lock, NoMissedSignal, Control, TypeOK, Locked, queue
  <2> QED  BY <2>1, <2>2, <2>3, <2>4, QuietStep DEF IInv
<1>10. ASSUME NEW w \in Workers, TestWait(w)  PROVE IInv'
  <2>0. /\ mpc # "dead" /\ wpc[w] = "test" /\ wpc'[w] = "wait"
        /\ \A v \in Workers \ {w} : wpc'[v] = wpc[v]
        /\ wpc' \in [Workers -> WorkerPC]
    BY <1>0, <1>10, Moved DEF TestWait, WorkerPC
  <2>1. TypeOK'
    BY <2>0, <1>0, <1>10 DEF TestWait, TypeOK, MainPC, WorkerPC, queue, work
  <2>2. Control'
    BY <2>0, <1>0, <1>10, WorkersAssumption, JobsAssumption
      DEF TestWait, Control, TypeOK, Locked, queue
  <2>3. Quiet
    BY <2>0, <1>0, <1>10 DEF TestWait, Quiet, Control, Buffers, TypeOK, Holding
  <2>4. NoMissedSignal'
    BY <2>0, <1>0, <1>10
      DEF TestWait, NoMissedSignal, Control, TypeOK, Locked, queue
  <2> QED  BY <2>1, <2>2, <2>3, <2>4, QuietStep DEF IInv
<1>11. ASSUME NEW w \in Workers, TestGo(w)  PROVE IInv'
  <2>0. /\ mpc # "dead" /\ wpc[w] = "test" /\ wpc'[w] = "check"
        /\ \A v \in Workers \ {w} : wpc'[v] = wpc[v]
        /\ wpc' \in [Workers -> WorkerPC]
    BY <1>0, <1>11, Moved DEF TestGo, WorkerPC
  <2>1. TypeOK'
    BY <2>0, <1>0, <1>11 DEF TestGo, TypeOK, MainPC, WorkerPC, queue, work
  <2>2. Control'
    BY <2>0, <1>0, <1>11, WorkersAssumption, JobsAssumption
      DEF TestGo, Control, TypeOK, Locked, queue
  <2>3. Quiet
    BY <2>0, <1>0, <1>11 DEF TestGo, Quiet, Control, Buffers, TypeOK, Holding
  <2>4. NoMissedSignal'
    BY <2>0, <1>0, <1>11
      DEF TestGo, NoMissedSignal, Control, TypeOK, Locked, queue
  <2> QED  BY <2>1, <2>2, <2>3, <2>4, QuietStep DEF IInv
<1>12. ASSUME NEW w \in Workers, CondWait(w)  PROVE IInv'
  <2>0. /\ mpc # "dead" /\ wpc[w] = "wait" /\ wpc'[w] = "waiting"
        /\ \A v \in Workers \ {w} : wpc'[v] = wpc[v]
        /\ wpc' \in [Workers -> WorkerPC]
    BY <1>0, <1>12, Moved DEF CondWait, WorkerPC
  <2>1. TypeOK'
    BY <2>0, <1>0, <1>12 DEF CondWait, TypeOK, MainPC, WorkerPC, queue, work
  <2>2. Control'
    BY <2>0, <1>0, <1>12, WorkersAssumption, JobsAssumption
      DEF CondWait, Control, TypeOK, Locked, queue
  <2>3. Quiet
    BY <2>0, <1>0, <1>12 DEF CondWait, Quiet, Control, Buffers, TypeOK, Holding
  <2>4. NoMissedSignal'
    BY <2>0, <1>0, <1>12
      DEF CondWait, NoMissedSignal, Control, TypeOK, Locked, queue
  <2> QED  BY <2>1, <2>2, <2>3, <2>4, QuietStep DEF IInv
<1>13. ASSUME NEW w \in Workers, SpuriousWakeup(w)  PROVE IInv'
  <2>0. /\ mpc # "dead" /\ wpc[w] = "waiting" /\ wpc'[w] = "lock"
        /\ \A v \in Workers \ {w} : wpc'[v] = wpc[v]
        /\ wpc' \in [Workers -> WorkerPC]
    BY <1>0, <1>13, Moved DEF SpuriousWakeup, WorkerPC
  <2>1. TypeOK'
    BY <2>0, <1>0, <1>13
      DEF SpuriousWakeup, TypeOK, MainPC, WorkerPC, queue, work
  <2>2. Control'
    BY <2>0, <1>0, <1>13, WorkersAssumption, JobsAssumption
      DEF SpuriousWakeup, Control, TypeOK, Locked, queue
  <2>3. Quiet
    BY <2>0, <1>0, <1>13
      DEF SpuriousWakeup, Quiet, Control, Buffers, TypeOK, Holding
  <2>4. NoMissedSignal'
    BY <2>0, <1>0, <1>13
      DEF SpuriousWakeup, NoMissedSignal, Control, TypeOK, Locked, queue
  <2> QED  BY <2>1, <2>2, <2>3, <2>4, QuietStep DEF IInv
<1>14. ASSUME NEW w \in Workers, Exit(w)  PROVE IInv'
  <2>0. /\ mpc # "dead" /\ wpc[w] = "check" /\ wpc'[w] = "exited"
        /\ \A v \in Workers \ {w} : wpc'[v] = wpc[v]
        /\ wpc' \in [Workers -> WorkerPC]
    BY <1>0, <1>14, Moved DEF Exit, WorkerPC
  <2>1. TypeOK'
    BY <2>0, <1>0, <1>14 DEF Exit, TypeOK, MainPC, WorkerPC, queue, work
  <2>2. Control'
    BY <2>0, <1>0, <1>14, WorkersAssumption, JobsAssumption
      DEF Exit, Control, TypeOK, Locked, queue
  <2>3. Quiet
    BY <2>0, <1>0, <1>14 DEF Exit, Quiet, Control, Buffers, TypeOK, Holding
  <2>4. NoMissedSignal'
    BY <2>0, <1>0, <1>14
      DEF Exit, NoMissedSignal, Control, TypeOK, Locked, queue
  <2> QED  BY <2>1, <2>2, <2>3, <2>4, QuietStep DEF IInv
<1>15. CASE InMsgRecvQueue
  <2>0. /\ mpc = "enqueue" /\ mpc' = "signal" /\ buf \in Jobs /\ buf' = NoJob
        /\ mMsgRecvQueue' = Append(mMsgRecvQueue, buf)
        /\ mIRecvMsgQueueCount' = mIRecvMsgQueueCount + 1
        /\ submitted' = Append(submitted, buf)
        /\ mutex = NoOwner
        /\ UNCHANGED <<wpc, ifrunning, mutex, mShutDown, taken,
                       jobBuf, miRunningThreadNum, freed>>
    BY <1>0, <1>15 DEF InMsgRecvQueue, Main, Control, TypeOK, work
  <2>1. TypeOK'
    BY <2>0, <1>0 DEF TypeOK, MainPC
  <2>2. Control'
    BY <2>0, <1>0, WorkersAssumption DEF Control, TypeOK, Locked
  <2>3. Counters'
    <3>1. Running' = Running
      BY <2>0 DEF Running
    <3>2. Len(Append(mMsgRecvQueue, buf)) = Len(mMsgRecvQueue) + 1
      BY <2>0, <1>0, AppendProperties DEF TypeOK
    <3> QED  BY <2>0, <1>0, <3>1, <3>2 DEF Counters
  <2>4. Buffers'
    <3>1. NoRepeats(submitted')
      BY <2>0, <1>0, AppendNew DEF Buffers, TypeOK
    <3>2. submitted' = taken \o mMsgRecvQueue'
      <4>1. buf \in Jobs /\ taken \in Seq(Jobs) /\ mMsgRecvQueue \in Seq(Jobs)
        BY <2>0, <1>0 DEF TypeOK
      <4>2. submitted = taken \o mMsgRecvQueue
        BY <2>0, <1>0 DEF Buffers
      <4>3. \A s, t \in Seq(Jobs), e \in Jobs :
              Append(s \o t, e) = s \o Append(t, e)
        OBVIOUS
      <4> QED  BY <2>0, <4>1, <4>2, <4>3
    <3> QED  BY <2>0, <1>0, <3>1, <3>2 DEF Buffers
  <2>5. ExclusiveOwner' /\ NoMissedSignal' /\ NothingLeftBehind'
    BY <2>0, <1>0 DEF IInv, ExclusiveOwner, NoMissedSignal, NothingLeftBehind
  <2> QED  BY <2>1, <2>2, <2>3, <2>4, <2>5 DEF IInv
<1>16. CASE ClearMsgRecvQueue
  <2>0. /\ mpc = "stopped" /\ mpc' = "cleared"
        /\ freed' = freed \cup Elems(mMsgRecvQueue) /\ mMsgRecvQueue' = <<>>
        /\ UNCHANGED <<buf, wpc, ifrunning, mutex, mShutDown, submitted, taken,
                       mIRecvMsgQueueCount, jobBuf, miRunningThreadNum>>
        /\ \A w \in Workers : wpc[w] = "exited" /\ jobBuf[w] = NoJob
    BY <1>0, <1>16 DEF ClearMsgRecvQueue, Main, Control, Counters, Holding
  <2>1. TypeOK'
    <3>1. Elems(mMsgRecvQueue) \subseteq Jobs
      BY <1>0, ElementOfSeq DEF TypeOK, Elems
    <3> QED  BY <2>0, <1>0, <3>1 DEF TypeOK, MainPC
  <2>2. Control'
    BY <2>0, <1>0 DEF Control, Locked
  <2>3. Counters'
    <3>1. Running' = Running
      BY <2>0 DEF Running
    <3> QED  BY <2>0, <1>0, <3>1 DEF Counters
  <2>4. Elems(taken) = freed
    <3>1. Elems(taken) \subseteq Jobs
      BY <1>0, ElementOfSeq DEF TypeOK, Elems
    <3>2. Elems(taken) \subseteq freed
      BY <2>0, <1>0, <3>1, JobsAssumption DEF Buffers
    <3> QED  BY <2>0, <1>0, <3>2 DEF Buffers
  <2>5. freed' = Elems(submitted)
    <3>1. Elems(taken \o mMsgRecvQueue) = Elems(taken) \cup Elems(mMsgRecvQueue)
      BY <1>0, ElemsConcat DEF TypeOK
    <3> QED  BY <2>0, <2>4, <1>0, <3>1 DEF Buffers
  <2>6. Buffers'
    BY <2>0, <2>4, <1>0 DEF Buffers
  <2>7. ExclusiveOwner' /\ NoMissedSignal' /\ NothingLeftBehind'
    BY <2>0, <2>5 DEF ExclusiveOwner, NoMissedSignal, NothingLeftBehind
  <2> QED  BY <2>1, <2>2, <2>3, <2>6, <2>7 DEF IInv
<1>17. ASSUME NEW w \in Workers, Take(w)  PROVE IInv'
  <2> DEFINE h == Head(mMsgRecvQueue)
  <2>0. /\ mpc # "dead" /\ wpc[w] = "check" /\ wpc'[w] = "start"
        /\ \A v \in Workers \ {w} : wpc'[v] = wpc[v]
        /\ wpc' \in [Workers -> WorkerPC]
    BY <1>0, <1>17, Moved DEF Take, WorkerPC
  <2>1. /\ mMsgRecvQueue # <<>> /\ mMsgRecvQueue \in Seq(Jobs)
        /\ taken \in Seq(Jobs)
        /\ h \in Jobs /\ mMsgRecvQueue' \in Seq(Jobs)
        /\ mpc \notin {"create", "cleared"} /\ mutex = w /\ jobBuf[w] = NoJob
    BY <2>0, <1>0, <1>17, HeadTailProperties
    DEF Take, Control, Counters, TypeOK, Locked, Holding
  <2>2. /\ jobBuf'[w] = h /\ \A v \in Workers \ {w} : jobBuf'[v] = jobBuf[v]
        /\ jobBuf' \in [Workers -> Jobs \cup {NoJob}]
        /\ mMsgRecvQueue' = Tail(mMsgRecvQueue)
        /\ mIRecvMsgQueueCount' = mIRecvMsgQueueCount - 1
        /\ taken' = Append(taken, h) /\ mutex' = NoOwner /\ ~mShutDown
        /\ UNCHANGED <<mpc, buf, ifrunning, mShutDown, submitted,
                       miRunningThreadNum, freed>>
    BY <2>1, <1>0, <1>17 DEF Take, TypeOK
  <2>3. /\ Len(mMsgRecvQueue') = Len(mMsgRecvQueue) - 1
        /\ Len(mMsgRecvQueue) \in Nat \ {0}
        /\ mIRecvMsgQueueCount = Len(mMsgRecvQueue)
    BY <2>1, <2>2, <1>0, HeadTailProperties, EmptySeq, LenProperties
      DEF Counters
  <2>4. TypeOK'
    BY <2>0, <2>1, <2>2, <2>3, <1>0, AppendProperties DEF TypeOK
  <2>5. Control'
    BY <2>0, <2>1, <2>2, <1>0, WorkersAssumption DEF Control, TypeOK, Locked
  <2>6. Counters'
    <3>1. Running' = Running
      BY <2>0 DEF Running
    <3> QED  BY <2>0, <2>1, <2>2, <2>3, <1>0, <3>1, JobsAssumption
             DEF Counters, Holding
  <2>7. /\ submitted = taken' \o mMsgRecvQueue'
        /\ h \notin Elems(taken) /\ Elems(taken') = Elems(taken) \cup {h}
    <3>1. taken \o mMsgRecvQueue = Append(taken, h) \o Tail(mMsgRecvQueue)
      BY <2>1, MoveHead
    <3>2. NoRepeats(taken \o mMsgRecvQueue) => h \notin Elems(taken)
      BY <2>1, MoveHead
    <3>3. Elems(Append(taken, h)) = Elems(taken) \cup {h}
      BY <2>1, AppendNew
    <3> QED  BY <2>1, <2>2, <1>0, <3>1, <3>2, <3>3 DEF Buffers
  <2>8. Buffers'
    <3>1. ASSUME NEW j \in Elems(taken'), j \notin freed
          PROVE  \E v \in Workers : jobBuf'[v] = j
      <4>1. CASE j = h
        BY <4>1, <2>2
      <4>2. CASE j \in Elems(taken)
        <5>1. PICK v \in Workers : jobBuf[v] = j
          BY <1>0, <3>1, <4>2 DEF Buffers
        <5>2. j \in Jobs
          BY <2>1, <4>2, ElementOfSeq DEF Elems
        <5> QED  BY <5>1, <5>2, <2>1, <2>2, JobsAssumption
      <4> QED  BY <3>1, <4>1, <4>2, <2>2, <2>7
    <3>2. \A v \in Workers : jobBuf'[v] # NoJob => jobBuf'[v] \in Elems(taken')
      BY <2>2, <2>7, <1>0 DEF Buffers
    <3>3. /\ NoRepeats(submitted') /\ freed' \subseteq Elems(taken')
          /\ mpc' = "enqueue" => buf' \notin Elems(submitted')
      BY <2>1, <2>2, <2>7, <1>0 DEF Buffers
    <3> QED  BY <2>2, <2>7, <3>1, <3>2, <3>3 DEF Buffers
  <2>9. ExclusiveOwner'
    <3>1. h \notin freed /\ \A v \in Workers : jobBuf[v] # h
      BY <2>1, <2>7, <1>0, JobsAssumption DEF Buffers
    <3>2. ExclusiveOwner
      BY DEF IInv
    <3> QED  BY <2>2, <3>1, <3>2 DEF ExclusiveOwner
  <2>10. NoMissedSignal' /\ NothingLeftBehind'
    BY <2>0, <2>1, <2>2 DEF NoMissedSignal, NothingLeftBehind
  <2> QED  BY <2>4, <2>5, <2>6, <2>8, <2>9, <2>10 DEF IInv
<1>18. ASSUME NEW w \in Workers, StartJob(w)  PROVE IInv'
  <2>0. /\ mpc # "dead" /\ wpc[w] = "start" /\ wpc'[w] = "run"
        /\ \A v \in Workers \ {w} : wpc'[v] = wpc[v]
        /\ wpc' \in [Workers -> WorkerPC]
        /\ miRunningThreadNum' = miRunningThreadNum + 1
        /\ UNCHANGED <<mpc, buf, ifrunning, mutex, mShutDown, mMsgRecvQueue,
                       mIRecvMsgQueueCount, submitted, taken, jobBuf, freed>>
    BY <1>0, <1>18, Moved DEF StartJob, WorkerPC, queue
  <2>1. mpc # "cleared"
    BY <2>0, <1>0 DEF Control
  <2>2. /\ miRunningThreadNum' = Cardinality(Running')
        /\ miRunningThreadNum' \in 0..Cardinality(Workers)
    <3>1. Running' = Running \cup {w} /\ w \notin Running
      BY <2>0 DEF Running
    <3>2. IsFiniteSet(Running) /\ Running' \subseteq Workers
      BY FS_Subset, WorkersAssumption DEF Running
    <3>3. Cardinality(Running') = Cardinality(Running) + 1
      BY <3>1, <3>2, FS_AddElement
    <3>4. /\ Cardinality(Running') <= Cardinality(Workers)
          /\ Cardinality(Running') \in Nat
      BY <3>2, FS_Subset, FS_CardinalityType, WorkersAssumption
    <3>5. Cardinality(Workers) \in Nat
      BY FS_CardinalityType, WorkersAssumption
    <3> QED  BY <2>0, <1>0, <3>3, <3>4, <3>5 DEF Counters
  <2>3. TypeOK'
    BY <2>0, <2>2, <1>0 DEF TypeOK
  <2>4. Control'
    BY <2>0, <1>0 DEF Control, Locked
  <2>5. Counters'
    BY <2>0, <2>2, <1>0 DEF Counters, Holding
  <2>6. Buffers' /\ ExclusiveOwner' /\ NoMissedSignal' /\ NothingLeftBehind'
    BY <2>0, <2>1, <1>0
    DEF IInv, Buffers, ExclusiveOwner, NoMissedSignal, NothingLeftBehind
  <2> QED  BY <2>3, <2>4, <2>5, <2>6 DEF IInv
<1>19. ASSUME NEW w \in Workers, FinishJob(w)  PROVE IInv'
  <2>0. /\ mpc # "dead" /\ wpc[w] = "run" /\ wpc'[w] = "lock"
        /\ \A v \in Workers \ {w} : wpc'[v] = wpc[v]
        /\ wpc' \in [Workers -> WorkerPC]
    BY <1>0, <1>19, Moved DEF FinishJob, WorkerPC
  <2>1. /\ jobBuf'[w] = NoJob /\ \A v \in Workers \ {w} : jobBuf'[v] = jobBuf[v]
        /\ jobBuf' \in [Workers -> Jobs \cup {NoJob}]
        /\ freed' = freed \cup {jobBuf[w]} /\ jobBuf[w] \in Jobs
        /\ miRunningThreadNum' = miRunningThreadNum - 1
        /\ UNCHANGED <<mpc, buf, ifrunning, mutex, mShutDown, mMsgRecvQueue,
                       mIRecvMsgQueueCount, submitted, taken>>
    BY <2>0, <1>0, <1>19 DEF FinishJob, TypeOK, queue, Counters, Holding
  <2>2. mpc # "cleared"
    BY <2>0, <1>0 DEF Control
  <2>3. /\ miRunningThreadNum' = Cardinality(Running')
        /\ miRunningThreadNum' \in 0..Cardinality(Workers)
    <3>1. Running' = Running \ {w} /\ w \in Running
      BY <2>0 DEF Running
    <3>2. IsFiniteSet(Running) /\ Running' \subseteq Workers
      BY FS_Subset, WorkersAssumption DEF Running
    <3>3. Cardinality(Running') = Cardinality(Running) - 1
      BY <3>1, <3>2, FS_RemoveElement
    <3>4. /\ Cardinality(Running') <= Cardinality(Workers)
          /\ Cardinality(Running') \in Nat
      BY <3>2, FS_Subset, FS_CardinalityType, WorkersAssumption
    <3>5. Cardinality(Workers) \in Nat
      BY FS_CardinalityType, WorkersAssumption
    <3> QED  BY <2>1, <1>0, <3>3, <3>4, <3>5 DEF Counters
  <2>4. TypeOK'
    BY <2>0, <2>1, <2>3, <1>0 DEF TypeOK
  <2>5. Control'
    BY <2>0, <2>1, <1>0 DEF Control, Locked
  <2>6. Counters'
    BY <2>0, <2>1, <2>3, <1>0 DEF Counters, Holding
  <2>7. Buffers'
    <3>1. ASSUME NEW j \in Elems(taken), j \notin freed'
          PROVE  \E v \in Workers : jobBuf'[v] = j
      <4>1. PICK v \in Workers : jobBuf[v] = j
        BY <3>1, <2>1, <1>0 DEF Buffers
      <4> QED  BY <4>1, <3>1, <2>1
    <3>2. freed' \subseteq Elems(taken)
      BY <2>1, <2>2, <1>0, JobsAssumption DEF Buffers
    <3> QED  BY <2>1, <2>2, <1>0, <3>1, <3>2 DEF Buffers
  <2>8. ExclusiveOwner'
    BY <2>1, <1>0, JobsAssumption DEF IInv, ExclusiveOwner
  <2>9. NoMissedSignal' /\ NothingLeftBehind'
    BY <2>0, <2>1, <2>2 DEF NoMissedSignal, NothingLeftBehind
  <2> QED  BY <2>4, <2>5, <2>6, <2>7, <2>8, <2>9 DEF IInv
<1>20. CASE UNCHANGED vars
  <2>1. UNCHANGED <<mpc, buf, wpc, ifrunning, mutex, mShutDown, mMsgRecvQueue,
                    mIRecvMsgQueueCount, submitted, taken, jobBuf,
                    miRunningThreadNum, freed>>
    BY <1>20 DEF vars, queue, work
  <2>2. TypeOK' /\ Control' /\ Buffers'
    BY <1>0, <2>1 DEF TypeOK, Control, Buffers
  <2>3. Counters'
    <3>1. Running' = Running
      BY <2>1 DEF Running
    <3> QED  BY <1>0, <2>1, <3>1 DEF Counters
  <2>4. ExclusiveOwner' /\ NoMissedSignal' /\ NothingLeftBehind'
    BY <2>1 DEF IInv, ExclusiveOwner, NoMissedSignal, NothingLeftBehind
  <2> QED  BY <2>2, <2>3, <2>4 DEF IInv
<1> QED
  BY <1>1, <1>2, <1>3, <1>4, <1>5, <1>6, <1>7, <1>8, <1>9, <1>10, <1>11, <1>12,
     <1>13, <1>14, <1>15, <1>16, <1>17, <1>18, <1>19, <1>20
  DEF Next, Create, InMsgRecvQueueAndSignal, StopAll, ThreadFunc

-----------------------------------------------------------------------------
(* The theorems.                                                           *)

\* The invariant holds in every state of the pool.
THEOREM InvHolds == Spec => []IInv
BY InvInit, InvNext, PTL DEF Spec

\* Every variable keeps its type; miRunningThreadNum, which Call compares with
\* the size of the pool, counts the threads inside a handler.
THEOREM TypeCorrect == Spec => []TypeOK
<1>1. IInv => TypeOK
  BY DEF IInv
<1> QED  BY <1>1, InvHolds, PTL

\* Buffers leave mMsgRecvQueue in the order InMsgRecvQueueAndSignal put them in.
THEOREM Fifo == Spec => []FifoDispatch
<1>1. IInv => FifoDispatch
  BY DEF IInv, FifoDispatch, Counters, Buffers
<1> QED  BY <1>1, InvHolds, PTL

\* No two threads handle one buffer, and none a freed one.
THEOREM Exclusive == Spec => []ExclusiveOwner
<1>1. IInv => ExclusiveOwner
  BY DEF IInv
<1> QED  BY <1>1, InvHolds, PTL

\* The signal sent after the mutex was released is never the lost one.
THEOREM SignalSuffices == Spec => []NoMissedSignal
<1>1. IInv => NoMissedSignal
  BY DEF IInv
<1> QED  BY <1>1, InvHolds, PTL

\* StopAll and the destructor free every buffer that was ever queued.
THEOREM AllFreed == Spec => []NothingLeftBehind
<1>1. IInv => NothingLeftBehind
  BY DEF IInv
<1> QED  BY <1>1, InvHolds, PTL

-----------------------------------------------------------------------------
(* The pool implements the queue.                                          *)

LEMMA QueueInit == Init => Queue!QInit
BY DEF Init, Queue!QInit

LEMMA QueueStep == IInv /\ [Next]_vars => [Queue!QNext]_Queue!qvars
<1> SUFFICES ASSUME IInv, [Next]_vars PROVE [Queue!QNext]_Queue!qvars
  OBVIOUS
<1>0. TypeOK /\ Control /\ Counters /\ Buffers
  BY DEF IInv
<1>1. ASSUME UNCHANGED <<mShutDown, queue, work>>
      PROVE  UNCHANGED Queue!qvars
  BY <1>1 DEF queue, work, Queue!qvars
<1>2. CASE InMsgRecvQueue
  <2>1. buf \in Jobs /\ ~mShutDown /\ mpc = "enqueue"
    BY <1>0, <1>2 DEF InMsgRecvQueue, Main, Control, TypeOK
  <2>2. /\ freed \subseteq Elems(submitted)
        /\ Elems(mMsgRecvQueue) \subseteq Elems(submitted)
        /\ \A w \in Workers : jobBuf[w] # NoJob => jobBuf[w] \in Elems(submitted)
        /\ buf \notin Elems(submitted)
    <3>1. Elems(taken \o mMsgRecvQueue) = Elems(taken) \cup Elems(mMsgRecvQueue)
      BY <1>0, ElemsConcat DEF TypeOK
    <3> QED  BY <2>1, <3>1, <1>0 DEF Buffers
  <2>3. buf \notin freed \cup Queue!Waiting \cup {jobBuf[w] : w \in Workers}
    BY <2>1, <2>2, JobsAssumption DEF Queue!Waiting, Elems
  <2>4. Queue!QSubmit(buf)
    BY <2>1, <2>3, <1>2 DEF InMsgRecvQueue, Queue!QSubmit, work
  <2> QED  BY <2>1, <2>4 DEF Queue!QNext
<1>3. CASE SetShutDown
  BY <1>3 DEF SetShutDown, queue, work, Queue!QNext, Queue!QShut
<1>4. CASE ClearMsgRecvQueue
  <2>1. mShutDown /\ \A w \in Workers : jobBuf[w] = NoJob
    BY <1>0, <1>4 DEF ClearMsgRecvQueue, Main, Control, Counters, Holding
  <2>2. Queue!Waiting = Elems(mMsgRecvQueue)
    BY DEF Queue!Waiting, Elems
  <2> QED  BY <2>1, <2>2, <1>4 DEF ClearMsgRecvQueue, Queue!QNext, Queue!QDiscard
<1>5. ASSUME NEW w \in Workers, Take(w)  PROVE Queue!QNext
  <2>1. mMsgRecvQueue # <<>> /\ jobBuf[w] = NoJob
    BY <1>0, <1>5 DEF Take, Thread, Control, Counters, Holding
  <2> QED  BY <2>1, <1>5 DEF Take, Queue!QNext, Queue!QStart
<1>6. ASSUME NEW w \in Workers, FinishJob(w)  PROVE Queue!QNext
  <2>1. jobBuf[w] # NoJob
    BY <1>0, <1>6 DEF FinishJob, Thread, Counters, Holding
  <2> QED  BY <2>1, <1>6 DEF FinishJob, queue, Queue!QNext, Queue!QFinish
<1>7. ASSUME NEW w \in Workers,
             \/ Lock(w) \/ TestWait(w) \/ TestGo(w)
             \/ CondWait(w) \/ SpuriousWakeup(w) \/ Exit(w) \/ StartJob(w)
      PROVE  UNCHANGED Queue!qvars
  <2>1. UNCHANGED <<mShutDown, mMsgRecvQueue, jobBuf, freed>>
    BY <1>7
      DEF Lock, TestWait, TestGo, CondWait, SpuriousWakeup, Exit, StartJob,
          queue, work
  <2> QED  BY <2>1 DEF Queue!qvars
<1>8. ASSUME \/ Create
             \/ \E j \in Jobs : Submit(j)
             \/ Call \/ Broadcast \/ JoinAll \/ UNCHANGED vars
      PROVE  UNCHANGED Queue!qvars
  <2>1. UNCHANGED <<mShutDown, queue, work>>
    BY <1>8 DEF Create, CreateThread, CreateFails, CreateReturns, Submit, Call,
                Broadcast, JoinAll, vars
  <2> QED  BY <2>1, <1>1
<1> QED
  BY <1>2, <1>3, <1>4, <1>5, <1>6, <1>7, <1>8
  DEF Next, InMsgRecvQueueAndSignal, StopAll, ThreadFunc

\* Every behaviour of the pool, locks, condition variable and all, is one of the
\* abstract queue of WorkQueue (its safety part).
THEOREM PoolImplementsQueue == Spec => Queue!SafeSpec
BY QueueInit, QueueStep, InvHolds, PTL DEF Spec, Queue!SafeSpec

===============================================================================

------------------------------ MODULE ThreadPool ------------------------------
(***************************************************************************)
(* CThreadPool (misc/ngx_c_threadpool.cxx, _include/ngx_c_threadpool.h):   *)
(* the threads that handle the packets the epoll thread receives.          *)
(*                                                                         *)
(* One process per pool thread (ThreadFunc) and one for the worker         *)
(* process's main thread, which creates the pool (Create), hands it every  *)
(* complete packet (InMsgRecvQueueAndSignal, Call) and stops it (StopAll,  *)
(* the destructor).  mPthreadMutex is held over several steps, because     *)
(* StopAll writes mShutDown without taking it: the test of the wait loop,  *)
(* the call of pthread_cond_wait and the second test of mShutDown are      *)
(* separate steps.  A critical section that touches nothing another thread *)
(* accesses outside the mutex is one step.  A packet buffer is an opaque   *)
(* job; the work done on it is in other modules.                           *)
(***************************************************************************)
EXTENDS Integers, Sequences, FiniteSets, Lists

CONSTANTS Workers,  \* the threads of mThreadVector, miThreadNum of them
          Jobs,     \* packet buffers, each allocated, queued and freed once
          NoOwner,  \* mPthreadMutex is free
          NoJob     \* a thread holds no buffer

ASSUME WorkersAssumption == /\ IsFiniteSet(Workers)
                            /\ Workers # {}
                            /\ NoOwner \notin Workers
ASSUME JobsAssumption == NoJob \notin Jobs

VARIABLES
  mpc,                  \* where the main thread is
  buf,                  \* the argument of InMsgRecvQueueAndSignal
  wpc,                  \* where each pool thread is in ThreadFunc
  ifrunning,            \* ThreadItem::ifrunning
  jobBuf,               \* ThreadFunc's local jobBuf
  mutex,                \* who holds mPthreadMutex
  mMsgRecvQueue, mIRecvMsgQueueCount,
  miRunningThreadNum,
  mShutDown,
  submitted,            \* history: buffers in the order they were queued
  taken,                \* history: buffers in the order threads took them
  freed                 \* history: buffers given to FreeMemory

queue == <<mMsgRecvQueue, mIRecvMsgQueueCount, submitted, taken>>
work  == <<jobBuf, miRunningThreadNum, freed>>
vars  == <<mpc, buf, wpc, ifrunning, mutex, mShutDown, queue, work>>

MainPC == {"create", "serve", "enqueue", "signal",
           "broadcast", "join", "stopped", "cleared", "dead"}
WorkerPC == {"none", "lock", "test", "wait", "waiting", "check",
             "start", "run", "exited"}

Locked  == {"test", "wait", "check"}  \* where a thread holds mPthreadMutex
Holding == {"start", "run"}           \* where it has a buffer to handle

Init ==
  /\ mpc = "create" /\ buf = NoJob
  /\ wpc = [w \in Workers |-> "none"]
  /\ ifrunning = [w \in Workers |-> FALSE]
  /\ mutex = NoOwner
  /\ mShutDown = FALSE
  /\ mMsgRecvQueue = <<>> /\ mIRecvMsgQueueCount = 0
  /\ submitted = <<>> /\ taken = <<>>
  /\ jobBuf = [w \in Workers |-> NoJob]
  /\ miRunningThreadNum = 0
  /\ freed = {}

Main(from, to) == mpc = from /\ mpc' = to
\* Thread w goes on; a process that has called exit() has no thread left.
Thread(w, from, to) == /\ mpc # "dead"
                       /\ wpc[w] = from
                       /\ wpc' = [wpc EXCEPT ![w] = to]

-----------------------------------------------------------------------------
(* The main thread.                                                        *)

\* Create's first loop: one pthread_create.
CreateThread ==
  /\ mpc = "create"
  /\ \E w \in Workers : Thread(w, "none", "lock")
  /\ UNCHANGED <<mpc, buf, ifrunning, mutex, mShutDown, queue, work>>

\* pthread_create fails: Create returns false, NgxWorkerProcessInit exits.
CreateFails ==
  /\ \E w \in Workers : wpc[w] = "none"
  /\ Main("create", "dead")
  /\ UNCHANGED <<buf, wpc, ifrunning, mutex, mShutDown, queue, work>>

\* Create's second loop polls ifrunning until every thread has set it.
CreateReturns ==
  /\ \A w \in Workers : ifrunning[w]
  /\ Main("create", "serve")
  /\ UNCHANGED <<buf, wpc, ifrunning, mutex, mShutDown, queue, work>>

\* The epoll thread has received a whole packet and calls
\* InMsgRecvQueueAndSignal with its buffer.
Submit(j) ==
  /\ j \notin Elems(submitted)
  /\ Main("serve", "enqueue")
  /\ buf' = j
  /\ UNCHANGED <<wpc, ifrunning, mutex, mShutDown, queue, work>>

\* Fault: the buffer is queued and Call forgotten.
InMsgRecvQueueNoCall ==
  /\ mutex = NoOwner
  /\ Main("enqueue", "serve")
  /\ mMsgRecvQueue' = Append(mMsgRecvQueue, buf)
  /\ mIRecvMsgQueueCount' = mIRecvMsgQueueCount + 1
  /\ submitted' = Append(submitted, buf)
  /\ buf' = NoJob
  /\ UNCHANGED <<taken, wpc, ifrunning, mutex, mShutDown, work>>

\* Lock, push_back, ++mIRecvMsgQueueCount, unlock.
InMsgRecvQueue ==
  /\ mutex = NoOwner
  /\ Main("enqueue", "signal")
  /\ mMsgRecvQueue' = Append(mMsgRecvQueue, buf)
  /\ mIRecvMsgQueueCount' = mIRecvMsgQueueCount + 1
  /\ submitted' = Append(submitted, buf)
  /\ buf' = NoJob
  /\ UNCHANGED <<taken, wpc, ifrunning, mutex, mShutDown, work>>

\* pthread_cond_signal, after the mutex was released: it wakes one waiting
\* thread, if there is one, and that thread must take the mutex again.
Call ==
  /\ Main("signal", "serve")
  /\ \/ \E w \in Workers : Thread(w, "waiting", "lock")
     \/ (\A w \in Workers : wpc[w] # "waiting") /\ UNCHANGED wpc
  /\ UNCHANGED <<buf, ifrunning, mutex, mShutDown, queue, work>>

\* StopAll sets the flag, without the mutex ...
SetShutDown ==
  /\ ~mShutDown
  /\ Main("serve", "broadcast")
  /\ mShutDown' = TRUE
  /\ UNCHANGED <<buf, wpc, ifrunning, mutex, queue, work>>

\* ... wakes every thread that waits at that moment ...
Broadcast ==
  /\ Main("broadcast", "join")
  /\ wpc' = [w \in Workers |-> IF wpc[w] = "waiting" THEN "lock" ELSE wpc[w]]
  /\ UNCHANGED <<buf, ifrunning, mutex, mShutDown, queue, work>>

\* Fault: the threads are not joined.
JoinAllDetached ==
  /\ Main("join", "stopped")
  /\ UNCHANGED <<buf, wpc, ifrunning, mutex, mShutDown, queue, work>>

\* ... and joins them all.
JoinAll ==
  /\ \A w \in Workers : wpc[w] = "exited"
  /\ Main("join", "stopped")
  /\ UNCHANGED <<buf, wpc, ifrunning, mutex, mShutDown, queue, work>>

\* ~CThreadPool frees the buffers still queued; it leaves the counter.
ClearMsgRecvQueue ==
  /\ Main("stopped", "cleared")
  /\ freed' = freed \cup Elems(mMsgRecvQueue)
  /\ mMsgRecvQueue' = <<>>
  /\ UNCHANGED <<buf, wpc, ifrunning, mutex, mShutDown, mIRecvMsgQueueCount,
                 submitted, taken, jobBuf, miRunningThreadNum>>

-----------------------------------------------------------------------------
(* ThreadFunc, for pool thread w.                                          *)

\* pthread_mutex_lock at the head of the loop, or pthread_cond_wait taking
\* the mutex again before it returns.
Lock(w) ==
  /\ mutex = NoOwner
  /\ Thread(w, "lock", "test")
  /\ mutex' = w
  /\ UNCHANGED <<mpc, buf, ifrunning, mShutDown, queue, work>>

\* The condition of the inner while holds: the thread marks itself running.
TestWait(w) ==
  /\ mMsgRecvQueue = <<>> /\ ~mShutDown
  /\ Thread(w, "test", "wait")
  /\ ifrunning' = [ifrunning EXCEPT ![w] = TRUE]
  /\ UNCHANGED <<mpc, buf, mutex, mShutDown, queue, work>>

TestGo(w) ==
  /\ mMsgRecvQueue # <<>> \/ mShutDown
  /\ Thread(w, "test", "check")
  /\ UNCHANGED <<mpc, buf, ifrunning, mutex, mShutDown, queue, work>>

\* pthread_cond_wait releases the mutex and blocks, in one step.
CondWait(w) ==
  /\ Thread(w, "wait", "waiting")
  /\ mutex' = NoOwner
  /\ UNCHANGED <<mpc, buf, ifrunning, mShutDown, queue, work>>

\* pthread_cond_wait may return although nobody signalled.
SpuriousWakeup(w) ==
  /\ Thread(w, "waiting", "lock")
  /\ UNCHANGED <<mpc, buf, ifrunning, mutex, mShutDown, queue, work>>

\* if(mShutDown): unlock and leave the loop.
Exit(w) ==
  /\ mShutDown
  /\ Thread(w, "check", "exited")
  /\ mutex' = NoOwner
  /\ UNCHANGED <<mpc, buf, ifrunning, mShutDown, queue, work>>

\* Fault: front without pop_front.
TakeKeepsFront(w) ==
  /\ ~mShutDown
  /\ Thread(w, "check", "start")
  /\ jobBuf' = [jobBuf EXCEPT ![w] = Head(mMsgRecvQueue)]
  /\ mutex' = NoOwner
  /\ UNCHANGED <<mpc, buf, ifrunning, mShutDown, queue,
                 miRunningThreadNum, freed>>

\* Fault: pop_back, with the rest of the critical section as it is.
TakeLast(w) ==
  /\ ~mShutDown
  /\ Thread(w, "check", "start")
  /\ LET n == Len(mMsgRecvQueue)
     IN /\ jobBuf' = [jobBuf EXCEPT ![w] = mMsgRecvQueue[n]]
        /\ mMsgRecvQueue' = SubSeq(mMsgRecvQueue, 1, n - 1)
        /\ taken' = Append(taken, mMsgRecvQueue[n])
  /\ mIRecvMsgQueueCount' = mIRecvMsgQueueCount - 1
  /\ mutex' = NoOwner
  /\ UNCHANGED <<mpc, buf, ifrunning, mShutDown, submitted,
                 miRunningThreadNum, freed>>

\* front, pop_front, --mIRecvMsgQueueCount, unlock.
Take(w) ==
  /\ ~mShutDown
  /\ Thread(w, "check", "start")
  /\ jobBuf' = [jobBuf EXCEPT ![w] = Head(mMsgRecvQueue)]
  /\ mMsgRecvQueue' = Tail(mMsgRecvQueue)
  /\ mIRecvMsgQueueCount' = mIRecvMsgQueueCount - 1
  /\ taken' = Append(taken, Head(mMsgRecvQueue))
  /\ mutex' = NoOwner
  /\ UNCHANGED <<mpc, buf, ifrunning, mShutDown, submitted,
                 miRunningThreadNum, freed>>

\* ++miRunningThreadNum, then the handler runs.
StartJob(w) ==
  /\ Thread(w, "start", "run")
  /\ miRunningThreadNum' = miRunningThreadNum + 1
  /\ UNCHANGED <<mpc, buf, ifrunning, mutex, mShutDown, queue, jobBuf, freed>>

\* Fault: the decrement is missing.
FinishJobStillCounted(w) ==
  /\ Thread(w, "run", "lock")
  /\ freed' = freed \cup {jobBuf[w]}
  /\ jobBuf' = [jobBuf EXCEPT ![w] = NoJob]
  /\ UNCHANGED <<mpc, buf, ifrunning, mutex, mShutDown, queue,
                 miRunningThreadNum>>

\* The handler returns; FreeMemory, --miRunningThreadNum.
FinishJob(w) ==
  /\ Thread(w, "run", "lock")
  /\ freed' = freed \cup {jobBuf[w]}
  /\ jobBuf' = [jobBuf EXCEPT ![w] = NoJob]
  /\ miRunningThreadNum' = miRunningThreadNum - 1
  /\ UNCHANGED <<mpc, buf, ifrunning, mutex, mShutDown, queue>>

ThreadFunc(w) ==
  \/ Lock(w) \/ TestWait(w) \/ TestGo(w) \/ CondWait(w) \/ Exit(w)
  \/ Take(w) \/ StartJob(w) \/ FinishJob(w)

-----------------------------------------------------------------------------
Create == CreateThread \/ CreateFails \/ CreateReturns
InMsgRecvQueueAndSignal == InMsgRecvQueue \/ Call
StopAll == SetShutDown \/ Broadcast \/ JoinAll

\* NgxWorkerProcessCycle: the pool is created, fed by the event loop, and
\* stopped by the call written after it (the loop as it stands never ends).
Next ==
  \/ Create
  \/ \E j \in Jobs : Submit(j)
  \/ InMsgRecvQueueAndSignal
  \/ \E w \in Workers : ThreadFunc(w) \/ SpuriousWakeup(w)
  \/ StopAll \/ ClearMsgRecvQueue

\* A started thread keeps running, and so does the main thread inside a call.
\* Nothing forces a packet to arrive, StopAll to be called or a spurious
\* wake-up to happen.
Fairness ==
  /\ \A w \in Workers : WF_vars(ThreadFunc(w))
  /\ WF_vars(CreateThread \/ CreateReturns)
  /\ WF_vars(InMsgRecvQueueAndSignal)
  /\ WF_vars(Broadcast \/ JoinAll \/ ClearMsgRecvQueue)

Spec == Init /\ [][Next]_vars
FairSpec == Spec /\ Fairness

-----------------------------------------------------------------------------
(* Properties.                                                             *)

\* The values of the variables; miRunningThreadNum, which Call compares with
\* miThreadNum, stays between 0 and the number of threads.
TypeOK ==
  /\ mpc \in MainPC
  /\ buf \in Jobs \cup {NoJob}
  /\ wpc \in [Workers -> WorkerPC]
  /\ ifrunning \in [Workers -> BOOLEAN]
  /\ jobBuf \in [Workers -> Jobs \cup {NoJob}]
  /\ mutex \in Workers \cup {NoOwner}
  /\ mMsgRecvQueue \in Seq(Jobs)
  /\ mIRecvMsgQueueCount \in Nat
  /\ miRunningThreadNum \in 0..Cardinality(Workers)
  /\ mShutDown \in BOOLEAN
  /\ submitted \in Seq(Jobs)
  /\ taken \in Seq(Jobs)
  /\ freed \subseteq Jobs

\* Threads take the buffers in the order the main thread queued them, none is
\* skipped or taken twice, and the counter kept beside the queue is its length
\* (until the destructor empties the queue).
FifoDispatch ==
  mpc # "cleared" => /\ submitted = taken \o mMsgRecvQueue
                     /\ mIRecvMsgQueueCount = Len(mMsgRecvQueue)

\* A taken buffer belongs to one thread until that thread frees it: no two
\* threads handle the same one, and none handles one already freed.
ExclusiveOwner ==
  \A w \in Workers : jobBuf[w] # NoJob =>
    /\ jobBuf[w] \notin freed
    /\ \A v \in Workers \ {w} : jobBuf[v] # jobBuf[w]

\* A queued buffer is never left with every thread asleep in
\* pthread_cond_wait, although the signal is sent after the mutex is released
\* and a thread that was signalled may find another one ahead of it.
NoMissedSignal ==
  mMsgRecvQueue # <<>> /\ mpc \in {"serve", "enqueue"}
    => \E w \in Workers : wpc[w] # "waiting"

\* When StopAll has returned and the destructor has run, every buffer ever
\* queued was freed and no thread still uses one.
NothingLeftBehind ==
  mpc = "cleared" => /\ freed = Elems(submitted)
                     /\ \A w \in Workers : jobBuf[w] = NoJob

\* Every buffer handed to the pool is handled and freed, unless StopAll is
\* called first.
EveryJobFreed ==
  \A j \in Jobs : j \in Elems(submitted) ~> j \in freed \/ mShutDown

-----------------------------------------------------------------------------
\* What the pool promises: the queue with one slot per thread.
Queue == INSTANCE WorkQueue WITH Slots   <- Workers,
                                 open    <- ~mShutDown,
                                 Nothing <- NoJob,
                                 pending <- mMsgRecvQueue,
                                 active  <- jobBuf,
                                 done    <- freed

\* The pool implements that queue, with its promise that every job is started
\* and finished.
ImplementsQueue == Queue!FairSpec
===============================================================================

--------------------------- MODULE ProcessesProofs ----------------------------
(***************************************************************************)
(* Proofs about Processes, for any number of workers, ports and threads.   *)
(***************************************************************************)
EXTENDS Processes, TLAPS, SequenceTheorems

Logged == {"CHLD", "TERM"}

-----------------------------------------------------------------------------
(* The stack of handlers.                                                  *)

\* What Deliver makes of it.
LEMMA Pushed ==
  ASSUME NEW h \in Seq(Logged), NEW s \in Logged
  PROVE  /\ <<s>> \o h \in Seq(Logged) /\ Len(<<s>> \o h) = Len(h) + 1
         /\ (<<s>> \o h)[1] = s
         /\ \A i \in 1..Len(h) : (<<s>> \o h)[i + 1] = h[i]
<1>1. <<s>> \in Seq(Logged) /\ Len(<<s>>) = 1 /\ <<s>>[1] = s
  OBVIOUS
<1>2. Len(h) \in Nat
  BY LenProperties
<1> QED  BY <1>1, <1>2, ConcatProperties

\* What Return makes of it.
LEMMA Popped ==
  ASSUME NEW h \in Seq(Logged), h # <<>>
  PROVE  /\ Tail(h) \in Seq(Logged) /\ Len(h) \in Nat \ {0}
         /\ Len(Tail(h)) = Len(h) - 1
         /\ \A i \in 1..Len(Tail(h)) : Tail(h)[i] = h[i + 1]
         /\ Len(h) = 1 => Tail(h) = <<>>
<1>1. /\ Tail(h) \in Seq(Logged) /\ Len(h) \in Nat \ {0}
      /\ Len(Tail(h)) = Len(h) - 1
      /\ \A i \in 1..Len(Tail(h)) : Tail(h)[i] = h[i + 1]
  BY HeadTailProperties, EmptySeq, LenProperties
<1> QED  BY <1>1, EmptySeq

-----------------------------------------------------------------------------
(* The inductive invariant.                                                *)

Starting == {"load", "signals", "sockets", "daemon", "setsid", "mask"}
InCycle  == {"spawn", "sigsuspend", "sleep"}
Set_Up   == {"epoll", "ports", "serving"}

\* What holds of the main process at each place, and of what it left behind.
Stages ==
  /\ main \in {"load", "signals"} => handlers = <<>> /\ exitcode = "running"
  /\ main = "load" => opened = 0
  /\ main \in InCycle => blocked
  /\ main \in {"spawn", "sleep"} => handlers = <<>>
  /\ opened <= conf.ListenPortCount
  /\ main \in {"daemon", "setsid", "mask"} \cup InCycle =>
       opened = conf.ListenPortCount /\ opened > 0
  /\ exitcode \in {"forked", "0"} => opened = conf.ListenPortCount /\ opened > 0
  /\ exitcode \in {"1", "2"} => main = "gone"

\* No worker exists before the forks, nor ever if the start failed.
Children ==
  /\ main \in Starting \/ exitcode \in {"1", "2"} => \A w \in Workers : worker[w].at = "none"
  /\ (\E w \in Workers : worker[w].at # "none") =>
       opened = conf.ListenPortCount /\ opened > 0

\* A worker r: who it thinks it is, and what it has created so far; there are n
\* ports.
Right(r, n) ==
  /\ r.at \in {"none", "forked", "named", "init", "zombie", "reaped"} => r.masked
  /\ r.at = "named" => r.ngxPid = "own"
  /\ r.at \in {"init", "create", "services"} \cup Set_Up =>
       r.ngxPid = "own" /\ r.ngxProcess = "WORKER"
  /\ ~r.masked \/ r.handling => r.ngxPid = "own" /\ r.ngxProcess = "WORKER"
  /\ r.handling => ~r.masked
  /\ r.at \in {"forked", "named", "init", "create"} => r.pool < PoolThreads
  /\ r.at \in {"services"} \cup Set_Up => r.pool = PoolThreads
  /\ r.at \in {"forked", "named", "init", "create", "services"} => r.services < Services
  /\ r.at \in Set_Up => r.services = Services
  /\ r.at \notin {"ports", "serving"} => r.ports = 0
  /\ r.at = "ports" => r.ports < n
  /\ r.at = "serving" => r.ports = n
  /\ r.client # "none" => r.at = "serving"

IInv ==
  /\ TypeOK
  /\ ZombieNoticed
  /\ Stages
  /\ Children
  /\ \A w \in Workers : Right(worker[w], opened)

\* Constants used throughout.
LEMMA Sizes == /\ PoolThreads \in Nat \ {0} /\ Services \in {2, 3}
               /\ MaxWorkers \in Nat /\ MaxPorts \in Nat
  BY SizesAssumption

\* A process that has done nothing yet, or has ended.
LEMMA NewProcess ==
  ASSUME NEW at \in {"none", "forked", "zombie", "reaped"}, NEW masked \in BOOLEAN,
         NEW status \in {"none", "exit", "signal", "SIGPIPE"},
         masked
  PROVE  /\ Process(at, masked, status) \in Record
         /\ Process(at, masked, status).at = at
         /\ \A n : Right(Process(at, masked, status), n)
<1> DEFINE r == Process(at, masked, status)
<1>1. /\ r.at = at /\ r.ngxProcess = "MASTER" /\ r.ngxPid = "parent" /\ r.masked = masked
      /\ r.pending = {} /\ r.handling = FALSE /\ r.pool = 0 /\ r.services = 0
      /\ r.ports = 0 /\ r.client = "none" /\ r.status = status
  BY DEF Process
<1>2. r \in Record
  BY Sizes DEF Process, Record, Sent
<1> HIDE DEF r
<1>3. \A n : Right(r, n)
  BY <1>1, Sizes DEF Right, Set_Up
<1> QED  BY <1>1, <1>2, <1>3 DEF r

LEMMA InvInit == Init => IInv
<1> SUFFICES ASSUME Init PROVE IInv
  OBVIOUS
<1> USE DEF Init
<1>1. \A w \in Workers : /\ worker[w] = NotForked /\ worker[w].at = "none"
                         /\ NotForked \in Record /\ Right(worker[w], opened)
  BY NewProcess DEF NotForked
<1>2. TypeOK
  <2>1. worker \in [Workers -> Record]
    BY <1>1
  <2>2. conf \in [Daemon : BOOLEAN, WorkerProcesses : 0..MaxWorkers,
                  ListenPortCount : 0..MaxPorts]
    BY Sizes
  <2>3. handlers \in Seq({"CHLD", "TERM"})
    BY EmptySeq
  <2> QED  BY <2>1, <2>2, <2>3, Sizes DEF TypeOK
<1>3. ZombieNoticed
  BY <1>1 DEF ZombieNoticed
<1>4. Stages
  BY DEF Stages, InCycle
<1>5. Children
  BY <1>1 DEF Children
<1> QED  BY <1>1, <1>2, <1>3, <1>4, <1>5 DEF IInv

-----------------------------------------------------------------------------
(* The main process.                                                       *)

\* The end of the main process: init takes the zombies.
LEMMA InvQuit ==
  ASSUME IInv, NEW code \in {"1", "2", "killed"}, Quit(code),
         code # "killed" => main \in Starting
  PROVE  IInv'
<1> USE DEF Quit
<1>1. Reap \in Record /\ Reap.at = "reaped" /\ \A n : Right(Reap, n)
  BY NewProcess DEF Reap
<1>2. \A w \in Workers :
        /\ worker'[w] \in Record /\ Right(worker'[w], opened)
        /\ worker'[w].at # "zombie"
        /\ worker[w].at = "none" => worker'[w].at = "none"
        /\ worker'[w].at # "none" => worker[w].at # "none"
  BY <1>1 DEF IInv, TypeOK
<1>3. TypeOK'
  <2>1. worker' \in [Workers -> Record]
    BY <1>2
  <2>2. handlers' \in Seq({"CHLD", "TERM"})
    BY EmptySeq
  <2> QED  BY <2>1, <2>2 DEF IInv, TypeOK
<1>4. ZombieNoticed'
  BY <1>2 DEF ZombieNoticed
<1>5. Stages'
  BY DEF IInv, Stages, Starting, InCycle
<1>6. Children'
  BY <1>2 DEF IInv, Children, Starting
<1> QED  BY <1>2, <1>3, <1>4, <1>5, <1>6 DEF IInv

\* A worker that was not forked is right, whatever the number of ports.
LEMMA NoneRight ==
  ASSUME NEW r \in Record, r.at = "none", NEW n, NEW k, Right(r, n)
  PROVE  Right(r, k)
  BY DEF Right, Set_Up

LEMMA InvLoad == IInv /\ handlers = <<>> /\ Load => IInv'
<1> SUFFICES ASSUME IInv, handlers = <<>>, Load PROVE IInv'
  OBVIOUS
<1>1. CASE Quit("2")
  BY <1>1, InvQuit DEF Load, Starting
<1>2. CASE ~Quit("2")
  <2>1. /\ main = "load" /\ main' = "signals" /\ worker' = worker /\ opened' = opened
        /\ conf' \in [Daemon : BOOLEAN, WorkerProcesses : 0..MaxWorkers,
                      ListenPortCount : 0..MaxPorts]
        /\ UNCHANGED <<spawned, blocked, pending, handlers, exitcode>>
    BY <1>2 DEF Load
  <2>2. TypeOK'
    BY <2>1 DEF IInv, TypeOK
  <2>3. ZombieNoticed'
    BY <2>1 DEF IInv, ZombieNoticed, InHandler
  <2>4. Stages'
    BY <2>1, <2>2, Sizes DEF IInv, TypeOK, Stages, InCycle
  <2>5. Children'
    BY <2>1 DEF IInv, Stages, Children, Starting
  <2> QED  BY <2>1, <2>2, <2>3, <2>4, <2>5 DEF IInv
<1> QED  BY <1>1, <1>2

LEMMA InvInitSignals == IInv /\ handlers = <<>> /\ ngxInitSignals => IInv'
<1> SUFFICES ASSUME IInv, handlers = <<>>, ngxInitSignals PROVE IInv'
  OBVIOUS
<1>1. CASE Quit("1")
  BY <1>1, InvQuit DEF ngxInitSignals, Starting
<1>2. CASE ~Quit("1")
  <2>1. /\ main = "signals" /\ main' = "sockets"
        /\ UNCHANGED <<conf, opened, spawned, blocked, pending, handlers, exitcode, worker>>
    BY <1>2 DEF ngxInitSignals
  <2>2. TypeOK'
    BY <2>1 DEF IInv, TypeOK
  <2>3. ZombieNoticed' /\ Stages' /\ Children'
    BY <2>1 DEF IInv, ZombieNoticed, InHandler, Stages, InCycle, Children, Starting
  <2> QED  BY <2>1, <2>2, <2>3 DEF IInv
<1> QED  BY <1>1, <1>2

LEMMA InvOpen == IInv /\ handlers = <<>> /\ NgxOpenListeningSockets => IInv'
<1> SUFFICES ASSUME IInv, handlers = <<>>, NgxOpenListeningSockets PROVE IInv'
  OBVIOUS
<1>1. CASE Quit("1")
  BY <1>1, InvQuit DEF NgxOpenListeningSockets, Starting
<1>2. CASE OpenPort /\ ~Quit("1")
  <2>1. /\ main = "sockets" /\ opened < conf.ListenPortCount /\ opened' = opened + 1
        /\ UNCHANGED <<main, conf, spawned, blocked, pending, handlers, exitcode, worker>>
    BY <1>2 DEF NgxOpenListeningSockets, OpenPort
  <2>2. conf.ListenPortCount \in 0..MaxPorts /\ opened \in 0..MaxPorts
    BY DEF IInv, TypeOK
  <2>3. opened' \in 0..MaxPorts /\ opened' <= conf.ListenPortCount
    BY <2>1, <2>2, Sizes
  <2>4. TypeOK'
    BY <2>1, <2>3 DEF IInv, TypeOK
  <2>5. \A w \in Workers : /\ worker[w].at = "none" /\ worker[w] \in Record
                           /\ Right(worker[w], opened)
    BY <2>1 DEF IInv, TypeOK, Children, Starting
  <2>6. \A w \in Workers : Right(worker[w], opened')
    BY <2>5, NoneRight
  <2>7. ZombieNoticed' /\ Children'
    BY <2>1, <2>5 DEF IInv, ZombieNoticed, InHandler, Children
  <2>8. Stages'
    BY <2>1, <2>2, <2>3 DEF IInv, Stages, InCycle
  <2> QED  BY <2>1, <2>4, <2>6, <2>7, <2>8 DEF IInv
<1>3. CASE AllOpened /\ ~Quit("1")
  <2>1. /\ main = "sockets" /\ main' = "daemon" /\ opened >= conf.ListenPortCount
        /\ opened # 0
        /\ UNCHANGED <<conf, opened, spawned, blocked, pending, handlers, exitcode, worker>>
    BY <1>3 DEF NgxOpenListeningSockets, AllOpened
  <2>2. opened = conf.ListenPortCount /\ opened > 0
    BY <2>1, Sizes DEF IInv, TypeOK, Stages
  <2>3. TypeOK'
    BY <2>1 DEF IInv, TypeOK
  <2>4. ZombieNoticed' /\ Stages' /\ Children'
    BY <2>1, <2>2 DEF IInv, ZombieNoticed, InHandler, Stages, InCycle, Children, Starting
  <2> QED  BY <2>1, <2>3, <2>4 DEF IInv
<1> QED  BY <1>1, <1>2, <1>3 DEF NgxOpenListeningSockets

LEMMA InvDaemon == IInv /\ handlers = <<>> /\ (ngxDaemon \/ Detach) => IInv'
<1> SUFFICES ASSUME IInv, handlers = <<>>, ngxDaemon \/ Detach PROVE IInv'
  OBVIOUS
<1>1. CASE Quit("1")
  BY <1>1, InvQuit DEF ngxDaemon, Detach, Starting
<1>2. CASE ~Quit("1")
  <2>1. /\ main \in {"daemon", "setsid"} /\ main' \in {"setsid", "mask"}
        /\ exitcode' \in {exitcode, "forked"} /\ pending' \in {pending, {}}
        /\ UNCHANGED <<conf, opened, spawned, blocked, handlers, worker>>
    BY <1>2 DEF ngxDaemon, Detach
  <2>2. TypeOK'
    BY <2>1 DEF IInv, TypeOK
  <2>3. \A w \in Workers : worker[w].at = "none"
    BY <2>1 DEF IInv, Children, Starting
  <2>4. ZombieNoticed' /\ Stages' /\ Children'
    BY <2>1, <2>3 DEF IInv, ZombieNoticed, Stages, InCycle, Children
  <2> QED  BY <2>1, <2>2, <2>4 DEF IInv
<1> QED  BY <1>1, <1>2

LEMMA InvParent == IInv /\ ParentExits => IInv'
<1> SUFFICES ASSUME IInv, ParentExits PROVE IInv'
  OBVIOUS
<1> USE DEF ParentExits
<1>1. TypeOK'
  BY DEF IInv, TypeOK
<1>2. ZombieNoticed' /\ Stages' /\ Children'
  BY DEF IInv, ZombieNoticed, InHandler, Stages, Children
<1> QED  BY <1>1, <1>2 DEF IInv

LEMMA InvBlock == IInv /\ handlers = <<>> /\ BlockSignals => IInv'
<1> SUFFICES ASSUME IInv, handlers = <<>>, BlockSignals PROVE IInv'
  OBVIOUS
<1> USE DEF BlockSignals
<1>1. TypeOK'
  BY DEF IInv, TypeOK
<1>2. ZombieNoticed' /\ Stages' /\ Children'
  BY DEF IInv, ZombieNoticed, InHandler, Stages, InCycle, Children, Starting
<1> QED  BY <1>1, <1>2 DEF IInv

LEMMA InvSpawn == IInv /\ handlers = <<>> /\ NgxSpawnProcess => IInv'
<1> SUFFICES ASSUME IInv, handlers = <<>>, NgxSpawnProcess PROVE IInv'
  OBVIOUS
<1> DEFINE r == Process("forked", blocked, "none")
<1>1. /\ main = "spawn" /\ blocked = TRUE /\ opened = conf.ListenPortCount /\ opened > 0
      /\ spawned \in 0..MaxWorkers /\ spawned < conf.WorkerProcesses
      /\ conf.WorkerProcesses \in 0..MaxWorkers /\ exitcode \notin {"1", "2"}
  BY DEF NgxSpawnProcess, IInv, TypeOK, Stages, InCycle
<1>2. r \in Record /\ r.at = "forked" /\ \A n : Right(r, n)
  BY <1>1, NewProcess
<1>3. spawned + 1 \in 0..MaxWorkers /\ spawned \in Workers
  BY <1>1, Sizes DEF Workers
<1>4. /\ spawned' = spawned + 1
      /\ worker' = worker \/ worker' = [worker EXCEPT ![spawned] = r]
      /\ UNCHANGED <<main, conf, opened, blocked, pending, handlers, exitcode>>
  BY DEF NgxSpawnProcess
<1> HIDE DEF r
<1>5. /\ worker \in [Workers -> Record] /\ worker' \in [Workers -> Record]
      /\ \A w \in Workers : worker'[w] \in {worker[w], r}
  BY <1>2, <1>4 DEF IInv, TypeOK
<1>6. TypeOK'
  BY <1>3, <1>4, <1>5 DEF IInv, TypeOK
<1>7. ZombieNoticed'
  BY <1>2, <1>4, <1>5 DEF IInv, ZombieNoticed, InHandler
<1>8. Stages' /\ Children'
  BY <1>1, <1>4 DEF IInv, Stages, InCycle, Children, Starting
<1>9. \A w \in Workers : Right(worker'[w], opened')
  BY <1>2, <1>4, <1>5 DEF IInv
<1> QED  BY <1>6, <1>7, <1>8, <1>9 DEF IInv

LEMMA InvSuspend == IInv /\ handlers = <<>> /\ Suspend => IInv'
<1> SUFFICES ASSUME IInv, handlers = <<>>, Suspend PROVE IInv'
  OBVIOUS
<1> USE DEF Suspend
<1>1. TypeOK'
  BY DEF IInv, TypeOK
<1>2. ZombieNoticed' /\ Stages' /\ Children'
  BY DEF IInv, ZombieNoticed, InHandler, Stages, InCycle, Children, Starting
<1> QED  BY <1>1, <1>2 DEF IInv

LEMMA InvMainStep == IInv /\ MainStep => IInv'
  BY InvLoad, InvInitSignals, InvOpen, InvDaemon, InvBlock, InvSpawn, InvSuspend DEF MainStep

-----------------------------------------------------------------------------
(* Signals of the main process.                                            *)

LEMMA InvRaise == ASSUME NEW s \in Sent PROVE IInv /\ Raise(s) => IInv'
<1> SUFFICES ASSUME IInv, Raise(s) PROVE IInv'
  OBVIOUS
<1> USE DEF Raise
<1>1. TypeOK'
  BY DEF IInv, TypeOK, Signals
<1>2. ZombieNoticed'
  BY DEF IInv, ZombieNoticed, InHandler
<1>3. Stages' /\ Children'
  BY DEF IInv, Stages, Children
<1> QED  BY <1>1, <1>2, <1>3 DEF IInv

LEMMA InvDeliver == ASSUME NEW s \in Signals PROVE IInv /\ Deliver(s) => IInv'
<1> SUFFICES ASSUME IInv, Deliver(s) PROVE IInv'
  OBVIOUS
<1>1. CASE Quit("killed")
  BY <1>1, InvQuit
<1>2. CASE ~Quit("killed")
  <2>1. /\ s \in pending /\ Open /\ Installed /\ s \in Logged
        /\ pending' = pending \ {s} /\ handlers' = <<s>> \o handlers
        /\ UNCHANGED <<main, conf, opened, spawned, blocked, exitcode, worker>>
    BY <1>2 DEF Deliver, Signals, Sent, Logged
  <2>2. handlers \in Seq(Logged)
    BY DEF IInv, TypeOK, Logged
  <2>3. /\ handlers' \in Seq(Logged) /\ Len(handlers') = Len(handlers) + 1
        /\ handlers'[1] = s
        /\ \A i \in 1..Len(handlers) : handlers'[i + 1] = handlers[i]
    BY <2>1, <2>2, Pushed
  <2>4. Len(handlers) \in Nat
    BY <2>2, LenProperties
  <2>5. TypeOK'
    BY <2>1, <2>3 DEF IInv, TypeOK, Logged
  <2>6. InHandler("CHLD") => InHandler("CHLD")'
    <3> SUFFICES ASSUME NEW i \in 1..Len(handlers), handlers[i] = "CHLD"
                 PROVE  \E j \in 1..Len(handlers') : handlers'[j] = "CHLD"
      BY DEF InHandler
    <3>1. i + 1 \in 1..Len(handlers') /\ handlers'[i + 1] = "CHLD"
      BY <2>3, <2>4
    <3> QED  BY <3>1
  <2>7. s = "CHLD" => InHandler("CHLD")'
    BY <2>3, <2>4 DEF InHandler
  <2>8. ZombieNoticed'
    BY <2>1, <2>6, <2>7 DEF IInv, ZombieNoticed
  <2>9. main \notin {"spawn", "sleep"}
    BY <2>1 DEF Open, IInv, Stages, InCycle
  <2>10. Stages' /\ Children'
    BY <2>1, <2>9 DEF Installed, IInv, Stages, InCycle, Children
  <2> QED  BY <2>1, <2>5, <2>8, <2>10 DEF IInv
<1> QED  BY <1>1, <1>2

\* The handler of SIGCHLD returns only when there is no zombie; another one's
\* return leaves it where it is.
LEMMA InvReturn ==
  ASSUME IInv, handlers # <<>>, Return,
         handlers[1] = "CHLD" => \A w \in Workers : worker[w].at # "zombie"
  PROVE  IInv'
<1>1. handlers \in Seq(Logged)
  BY DEF IInv, TypeOK, Logged
<1>2. /\ handlers' = Tail(handlers) /\ handlers' \in Seq(Logged)
      /\ Len(handlers) \in Nat \ {0} /\ Len(handlers') = Len(handlers) - 1
      /\ \A i \in 1..Len(handlers') : handlers'[i] = handlers[i + 1]
      /\ Len(handlers) = 1 => handlers' = <<>>
  BY <1>1, Popped DEF Return
<1>3. /\ main' = IF main = "sigsuspend" /\ Len(handlers) = 1 THEN "sleep" ELSE main
      /\ UNCHANGED <<conf, opened, spawned, blocked, pending, exitcode, worker>>
  BY DEF Return
<1>4. TypeOK'
  BY <1>2, <1>3 DEF IInv, TypeOK, Logged
<1>5. ASSUME InHandler("CHLD"), handlers[1] # "CHLD"
      PROVE  InHandler("CHLD")'
  <2>1. PICK i \in 1..Len(handlers) : handlers[i] = "CHLD"
    BY <1>5 DEF InHandler
  <2>2. i # 1
    BY <1>5, <2>1
  <2>3. i - 1 \in 1..Len(handlers')
    BY <1>2, <2>1, <2>2
  <2>4. handlers'[i - 1] = handlers[(i - 1) + 1]
    BY <1>2, <2>3
  <2>5. (i - 1) + 1 = i
    BY <2>1
  <2>6. handlers'[i - 1] = "CHLD"
    BY <2>1, <2>4, <2>5
  <2> QED  BY <2>3, <2>6 DEF InHandler
<1>6. ZombieNoticed'
  BY <1>3, <1>5 DEF IInv, ZombieNoticed
<1>7. main \notin {"load", "signals", "spawn", "sleep"}
  BY DEF IInv, Stages
<1>8. Stages' /\ Children'
  BY <1>2, <1>3, <1>7 DEF IInv, Stages, InCycle, Children, Starting
<1> QED  BY <1>3, <1>4, <1>6, <1>8 DEF IInv

LEMMA InvHandler == ASSUME NEW s \in Signals PROVE IInv /\ ngxSignalHandler(s) => IInv'
<1> SUFFICES ASSUME IInv, ngxSignalHandler(s) PROVE IInv'
  OBVIOUS
<1>1. CASE s # "CHLD"
  BY <1>1, InvReturn DEF ngxSignalHandler
<1>2. CASE s = "CHLD" /\ Return /\ \A w \in Workers : worker[w].at # "zombie"
  BY <1>2, InvReturn DEF ngxSignalHandler
<1>3. ASSUME s = "CHLD", NEW w \in Workers, worker[w].at = "zombie",
             worker' = [worker EXCEPT ![w] = Reap],
             UNCHANGED <<main, conf, opened, spawned, blocked, pending, handlers, exitcode>>
      PROVE  IInv'
  <2>1. Reap \in Record /\ Reap.at = "reaped" /\ \A n : Right(Reap, n)
    BY NewProcess DEF Reap
  <2>2. worker' \in [Workers -> Record] /\ \A v \in Workers : worker'[v] \in {worker[v], Reap}
    BY <1>3, <2>1 DEF IInv, TypeOK
  <2>3. TypeOK'
    BY <1>3, <2>2 DEF IInv, TypeOK
  <2>4. InHandler("CHLD")'
    <3>1. handlers' \in Seq(Logged) /\ handlers' # <<>> /\ handlers'[1] = "CHLD"
      BY <1>3, <2>3 DEF ngxSignalHandler, TypeOK, Logged
    <3>2. 1 \in 1..Len(handlers')
      BY <3>1, Popped
    <3> QED  BY <3>1, <3>2 DEF InHandler
  <2>5. ZombieNoticed'
    BY <2>4 DEF ZombieNoticed
  <2>6. Stages'
    BY <1>3 DEF IInv, Stages
  <2>7. Children'
    BY <1>3, <2>2 DEF IInv, Children
  <2>8. \A v \in Workers : Right(worker'[v], opened')
    BY <1>3, <2>1, <2>2 DEF IInv
  <2> QED  BY <2>3, <2>5, <2>6, <2>7, <2>8 DEF IInv
<1> QED  BY <1>1, <1>2, <1>3 DEF ngxSignalHandler, ngxProcessGetStatus

-----------------------------------------------------------------------------
(* The workers.                                                            *)

\* A worker that goes on to another right state.
LEMMA Moves ==
  ASSUME IInv, NEW w \in Workers, worker[w].at # "none",
         NEW r \in Record, Right(r, opened), r.at # "zombie",
         worker' = [worker EXCEPT ![w] = r], UNCHANGED pending, MasterSame
  PROVE  IInv'
<1> USE DEF MasterSame
<1>1. worker' \in [Workers -> Record] /\ \A v \in Workers : worker'[v] \in {worker[v], r}
  BY DEF IInv, TypeOK
<1>2. TypeOK'
  BY <1>1 DEF IInv, TypeOK
<1>3. ZombieNoticed' /\ Stages'
  BY <1>1 DEF IInv, ZombieNoticed, InHandler, Stages
<1>4. Children'
  BY <1>1 DEF IInv, Children
<1>5. \A v \in Workers : Right(worker'[v], opened')
  BY <1>1 DEF IInv
<1> QED  BY <1>2, <1>3, <1>4, <1>5 DEF IInv

\* A worker that ends.
LEMMA Exits ==
  ASSUME IInv, NEW w \in Workers, worker[w].at # "none",
         NEW st \in {"exit", "signal", "SIGPIPE"}, Exit(w, st)
  PROVE  IInv'
<1>1. /\ Reap \in Record /\ Reap.at = "reaped" /\ \A n : Right(Reap, n)
      /\ Process("zombie", TRUE, st) \in Record
      /\ \A n : Right(Process("zombie", TRUE, st), n)
  BY NewProcess DEF Reap
<1>2. PICK r : /\ worker' = [worker EXCEPT ![w] = r] /\ r \in Record /\ \A n : Right(r, n)
               /\ main = "gone" => r.at = "reaped"
  BY <1>1 DEF Exit, Ended
<1>3. /\ worker' \in [Workers -> Record]
      /\ \A v \in Workers : worker'[v] = IF v = w THEN r ELSE worker[v]
  BY <1>2 DEF IInv, TypeOK
<1>4. /\ pending' = IF main = "gone" THEN pending ELSE pending \cup {"CHLD"}
      /\ UNCHANGED <<conf, opened, spawned, blocked, handlers, exitcode, main>>
  BY DEF Exit, MasterSame
<1>5. TypeOK'
  BY <1>3, <1>4 DEF IInv, TypeOK, Signals
<1>6. ZombieNoticed'
  BY <1>2, <1>3, <1>4 DEF IInv, ZombieNoticed, InHandler
<1>7. Stages' /\ Children'
  BY <1>3, <1>4 DEF IInv, Stages, Children
<1>8. \A v \in Workers : Right(worker'[v], opened')
  BY <1>2, <1>3, <1>4 DEF IInv
<1> QED  BY <1>5, <1>6, <1>7, <1>8 DEF IInv

\* The steps of the start.
LEMMA InvWorkerStep == ASSUME NEW w \in Workers PROVE IInv /\ WorkerStep(w) => IInv'
<1> SUFFICES ASSUME IInv, WorkerStep(w) PROVE IInv'
  OBVIOUS
<1> DEFINE r == worker[w]
<1>1. r \in Record /\ Right(r, opened) /\ opened \in 0..MaxPorts
  BY DEF IInv, TypeOK
<1>2. opened > 0 \/ r.at = "none"
  BY Sizes DEF IInv, Children
<1>3. ASSUME SetPids(w) PROVE IInv'
  <2> DEFINE q == [r EXCEPT !.at = "named", !.ngxPid = "own"]
  <2>1. r.at = "forked" /\ worker' = [worker EXCEPT ![w] = q] /\ UNCHANGED pending /\ MasterSame
    BY <1>3 DEF SetPids, Becomes
  <2>2. q \in Record /\ q.at = "named"
    BY <1>1 DEF Record
  <2>3. Right(q, opened)
    BY <1>1, <2>1 DEF Right, Record, Set_Up
  <2> HIDE DEF q
  <2> QED  BY <2>1, <2>2, <2>3, Moves
<1>4. ASSUME SetRole(w) PROVE IInv'
  <2> DEFINE q == [r EXCEPT !.at = "init", !.ngxProcess = "WORKER"]
  <2>1. r.at = "named" /\ worker' = [worker EXCEPT ![w] = q] /\ UNCHANGED pending /\ MasterSame
    BY <1>4 DEF SetRole, Becomes
  <2>2. q \in Record /\ q.at = "init"
    BY <1>1 DEF Record
  <2>3. Right(q, opened)
    BY <1>1, <2>1 DEF Right, Record, Set_Up
  <2> HIDE DEF q
  <2> QED  BY <2>1, <2>2, <2>3, Moves
<1>5. ASSUME Unblock(w) PROVE IInv'
  <2> DEFINE q == [r EXCEPT !.at = "create", !.masked = FALSE]
  <2>1. r.at = "init" /\ worker' = [worker EXCEPT ![w] = q] /\ UNCHANGED pending /\ MasterSame
    BY <1>5 DEF Unblock, Becomes
  <2>2. q \in Record /\ q.at = "create"
    BY <1>1 DEF Record
  <2>3. Right(q, opened)
    BY <1>1, <2>1 DEF Right, Record, Set_Up
  <2> HIDE DEF q
  <2> QED  BY <2>1, <2>2, <2>3, Moves
<1>6. ASSUME CreatePoolThread(w) PROVE IInv'
  <2> DEFINE q == [r EXCEPT !.pool = @ + 1,
                     !.at = IF r.pool + 1 = PoolThreads THEN "services" ELSE @]
  <2>1. CASE Exit(w, "exit")
    BY <1>6, <2>1, Exits DEF CreatePoolThread
  <2>2. CASE ~Exit(w, "exit")
    <3>1. r.at = "create" /\ worker' = [worker EXCEPT ![w] = q] /\ UNCHANGED pending /\ MasterSame
      BY <1>6, <2>2 DEF CreatePoolThread, Becomes
    <3>2. r.pool \in 0..PoolThreads /\ r.pool < PoolThreads
      BY <1>1, <3>1 DEF Right, Record
    <3>3. q \in Record /\ q.at # "zombie"
      <4>1. r.pool + 1 \in 0..PoolThreads
        BY <1>1, <3>2, Sizes
      <4>2. CASE r.pool + 1 = PoolThreads
        BY <1>1, <3>1, <4>1, <4>2 DEF Record
      <4>3. CASE r.pool + 1 # PoolThreads
        BY <1>1, <3>1, <4>1, <4>3 DEF Record
      <4> QED  BY <4>2, <4>3
    <3>4. Right(q, opened)
      BY <1>1, <3>1, <3>2, Sizes DEF Right, Record, Set_Up
    <3> HIDE DEF q
    <3> QED  BY <3>1, <3>3, <3>4, Moves
  <2> QED  BY <2>1, <2>2
<1>7. ASSUME CreateService(w) PROVE IInv'
  <2> DEFINE q == [r EXCEPT !.services = @ + 1,
                     !.at = IF r.services + 1 = Services THEN "epoll" ELSE @]
  <2>1. CASE Exit(w, "exit")
    BY <1>7, <2>1, Exits DEF CreateService
  <2>2. CASE ~Exit(w, "exit")
    <3>1. r.at = "services" /\ worker' = [worker EXCEPT ![w] = q] /\ UNCHANGED pending /\ MasterSame
      BY <1>7, <2>2 DEF CreateService, Becomes
    <3>2. r.services \in 0..Services /\ r.services < Services
      BY <1>1, <3>1 DEF Right, Record
    <3>3. q \in Record /\ q.at # "zombie"
      <4>1. r.services + 1 \in 0..Services
        BY <1>1, <3>2, Sizes
      <4>2. CASE r.services + 1 = Services
        BY <1>1, <3>1, <4>1, <4>2 DEF Record
      <4>3. CASE r.services + 1 # Services
        BY <1>1, <3>1, <4>1, <4>3 DEF Record
      <4> QED  BY <4>2, <4>3
    <3>4. Right(q, opened)
      BY <1>1, <3>1, <3>2, Sizes DEF Right, Record, Set_Up
    <3> HIDE DEF q
    <3> QED  BY <3>1, <3>3, <3>4, Moves
  <2> QED  BY <2>1, <2>2
<1>8. ASSUME EpollCreate(w) PROVE IInv'
  <2> DEFINE q == [r EXCEPT !.at = "ports"]
  <2>1. CASE Exit(w, "exit")
    BY <1>8, <2>1, Exits DEF EpollCreate
  <2>2. CASE ~Exit(w, "exit")
    <3>1. r.at = "epoll" /\ worker' = [worker EXCEPT ![w] = q] /\ UNCHANGED pending /\ MasterSame
      BY <1>8, <2>2 DEF EpollCreate, Becomes
    <3>2. q \in Record /\ q.at # "zombie"
      BY <1>1, <3>1 DEF Record
    <3>3. Right(q, opened)
      BY <1>1, <1>2, <3>1, Sizes DEF Right, Record, Set_Up
    <3> HIDE DEF q
    <3> QED  BY <3>1, <3>2, <3>3, Moves
  <2> QED  BY <2>1, <2>2
<1>9. ASSUME AddPort(w) PROVE IInv'
  <2> DEFINE q == [r EXCEPT !.ports = @ + 1,
                     !.at = IF r.ports + 1 = opened THEN "serving" ELSE @]
  <2>1. CASE Exit(w, "exit")
    BY <1>9, <2>1, Exits DEF AddPort
  <2>2. CASE ~Exit(w, "exit")
    <3>1. r.at = "ports" /\ worker' = [worker EXCEPT ![w] = q] /\ UNCHANGED pending /\ MasterSame
      BY <1>9, <2>2 DEF AddPort, Becomes
    <3>2. r.ports \in 0..MaxPorts /\ r.ports < opened
      BY <1>1, <3>1 DEF Right, Record
    <3>3. q \in Record /\ q.at # "zombie"
      <4>1. r.ports + 1 \in 0..MaxPorts
        BY <1>1, <3>2, Sizes
      <4>2. CASE r.ports + 1 = opened
        BY <1>1, <3>1, <4>1, <4>2 DEF Record
      <4>3. CASE r.ports + 1 # opened
        BY <1>1, <3>1, <4>1, <4>3 DEF Record
      <4> QED  BY <4>2, <4>3
    <3>4. Right(q, opened)
      BY <1>1, <3>1, <3>2, Sizes DEF Right, Record, Set_Up
    <3> HIDE DEF q
    <3> QED  BY <3>1, <3>3, <3>4, Moves
  <2> QED  BY <2>1, <2>2
<1> QED  BY <1>3, <1>4, <1>5, <1>6, <1>7, <1>8, <1>9 DEF WorkerStep

\* Its signals.
LEMMA InvWorkerSignals ==
  ASSUME NEW w \in Workers, NEW s \in Sent
  PROVE  IInv /\ (RaiseIn(w, s) \/ DeliverIn(w, s) \/ ReturnIn(w) \/ KilledIn(w)) => IInv'
<1> SUFFICES ASSUME IInv, RaiseIn(w, s) \/ DeliverIn(w, s) \/ ReturnIn(w) \/ KilledIn(w)
             PROVE  IInv'
  OBVIOUS
<1> DEFINE r == worker[w]
<1>1. r \in Record /\ Right(r, opened)
  BY DEF IInv, TypeOK
<1>2. CASE RaiseIn(w, s)
  <2> DEFINE q == [r EXCEPT !.pending = @ \cup {s}]
  <2>1. Running(w) /\ worker' = [worker EXCEPT ![w] = q] /\ UNCHANGED pending /\ MasterSame
    BY <1>2 DEF RaiseIn, Becomes
  <2>2. q \in Record /\ q.at = r.at
    BY <1>1 DEF Record
  <2>3. Right(q, opened)
    BY <1>1 DEF Right, Record
  <2> HIDE DEF q
  <2> QED  BY <2>1, <2>2, <2>3, Moves DEF Running
<1>3. CASE DeliverIn(w, s) /\ s = "USR1"
  BY <1>3, Exits DEF DeliverIn, Running
<1>4. CASE DeliverIn(w, s) /\ s # "USR1"
  <2> DEFINE q == [r EXCEPT !.pending = @ \ {s}, !.handling = TRUE]
  <2>1. /\ Running(w) /\ r.masked = FALSE
        /\ worker' = [worker EXCEPT ![w] = q] /\ UNCHANGED pending /\ MasterSame
    BY <1>1, <1>4 DEF DeliverIn, Becomes, Record
  <2>2. q \in Record /\ q.at = r.at
    BY <1>1 DEF Record
  <2>3. Right(q, opened)
    BY <1>1, <2>1 DEF Right, Record
  <2> HIDE DEF q
  <2> QED  BY <2>1, <2>2, <2>3, Moves DEF Running
<1>5. CASE ReturnIn(w)
  <2> DEFINE q == [r EXCEPT !.handling = FALSE]
  <2>1. r.handling /\ worker' = [worker EXCEPT ![w] = q] /\ UNCHANGED pending /\ MasterSame
    BY <1>5 DEF ReturnIn, Becomes
  <2>2. q \in Record /\ q.at = r.at
    BY <1>1 DEF Record
  <2>3. Right(q, opened)
    BY <1>1 DEF Right, Record
  <2>4. r.at \notin {"none", "zombie"}
    BY <1>1, <2>1 DEF Right
  <2> HIDE DEF q
  <2> QED  BY <2>1, <2>2, <2>3, <2>4, Moves
<1>6. CASE KilledIn(w)
  BY <1>6, Exits DEF KilledIn, Running
<1> QED  BY <1>2, <1>3, <1>4, <1>5, <1>6

\* Its client.
LEMMA InvClient ==
  ASSUME NEW w \in Workers
  PROVE  IInv /\ (Connect(w) \/ Reset(w) \/ SendProc(w) \/ RecvProc(w)) => IInv'
<1> SUFFICES ASSUME IInv, Connect(w) \/ Reset(w) \/ SendProc(w) \/ RecvProc(w)
             PROVE  IInv'
  OBVIOUS
<1> DEFINE r == worker[w]
<1>1. r \in Record /\ Right(r, opened)
  BY DEF IInv, TypeOK
<1>2. r.at = "serving"
  BY <1>1 DEF Connect, Reset, SendProc, RecvProc, Right
<1>3. CASE Exit(w, "SIGPIPE")
  BY <1>2, <1>3, Exits
<1>4. ASSUME NEW c \in {"none", "connected", "reset", "told"},
             worker' = [worker EXCEPT ![w] = [r EXCEPT !.client = c]],
             UNCHANGED pending, MasterSame
      PROVE  IInv'
  <2> DEFINE q == [r EXCEPT !.client = c]
  <2>1. q \in Record /\ q.at = "serving"
    BY <1>1, <1>2 DEF Record
  <2>2. Right(q, opened)
    BY <1>1, <1>2 DEF Right, Record
  <2> HIDE DEF q
  <2>3. worker' = [worker EXCEPT ![w] = q]
    BY <1>4 DEF q
  <2> QED  BY <1>2, <1>4, <2>1, <2>2, <2>3, Moves
<1> QED  BY <1>3, <1>4 DEF Connect, Reset, SendProc, RecvProc, Becomes

-----------------------------------------------------------------------------
(* Theorems.                                                               *)

LEMMA InvNext == IInv /\ [Next]_vars => IInv'
<1> SUFFICES ASSUME IInv, [Next]_vars PROVE IInv'
  OBVIOUS
<1>1. CASE MainStep
  BY <1>1, InvMainStep
<1>2. CASE ParentExits \/ Killed
  BY <1>2, InvParent, InvQuit DEF Killed
<1>3. CASE \E s \in Sent : Raise(s)
  BY <1>3, InvRaise
<1>4. CASE \E s \in Signals : Deliver(s) \/ ngxSignalHandler(s)
  BY <1>4, InvDeliver, InvHandler
<1>5. ASSUME NEW w \in Workers,
             \/ WorkerStep(w) \/ ReturnIn(w) \/ KilledIn(w)
             \/ \E s \in Sent : RaiseIn(w, s) \/ DeliverIn(w, s)
             \/ Connect(w) \/ Reset(w) \/ SendProc(w) \/ RecvProc(w)
      PROVE  IInv'
  <2>1. CASE WorkerStep(w)
    BY <2>1, InvWorkerStep
  <2>2. "TERM" \in Sent
    BY DEF Sent
  <2>3. CASE ReturnIn(w) \/ KilledIn(w)
    BY <2>2, <2>3, InvWorkerSignals
  <2>4. CASE \E s \in Sent : RaiseIn(w, s) \/ DeliverIn(w, s)
    BY <2>4, InvWorkerSignals
  <2>5. CASE Connect(w) \/ Reset(w) \/ SendProc(w) \/ RecvProc(w)
    BY <2>5, InvClient
  <2> QED  BY <1>5, <2>1, <2>3, <2>4, <2>5
<1>6. CASE UNCHANGED vars
  <2>1. TypeOK'
    BY <1>6 DEF IInv, TypeOK, vars
  <2>2. ZombieNoticed' /\ Stages' /\ Children'
    BY <1>6 DEF IInv, ZombieNoticed, InHandler, Stages, Children, vars
  <2> QED  BY <1>6, <2>1, <2>2 DEF IInv, vars
<1> QED  BY <1>1, <1>2, <1>3, <1>4, <1>5, <1>6 DEF Next

\* The inductive invariant holds in every behaviour.
THEOREM Invariant == Spec => []IInv
<1> QED  BY InvInit, InvNext, PTL DEF Spec

\* Every variable keeps its type, for any number of workers, ports and threads.
THEOREM TypeCorrect == Spec => []TypeOK
<1>1. IInv => TypeOK
  BY DEF IInv
<1> QED  BY <1>1, Invariant, PTL

\* While there is a zombie, its signal is pending or the handler is in its
\* waitpid loop (ngx_signal.cxx:148-202), however many workers end at a time.
THEOREM ZombiesNoticed == Spec => []ZombieNoticed
<1>1. IInv => ZombieNoticed
  BY DEF IInv
<1> QED  BY <1>1, Invariant, PTL

\* No handler runs during the forks, and none in a worker that does not know
\* yet what it is (ngx_process_cycle.cxx:33-50, 120-139).
THEOREM StartsUndisturbed == Spec => []StartUndisturbed
<1>1. IInv => StartUndisturbed
  BY DEF IInv, Stages, Right, StartUndisturbed
<1> QED  BY <1>1, Invariant, PTL

\* A worker that accepts has all its threads, and one that serves does so on
\* all ports (ngx_process_cycle.cxx:171-185).
THEOREM AllServed == Spec => []ServesAll
<1>1. ASSUME IInv PROVE ServesAll
  <2> SUFFICES ASSUME NEW w \in Workers
               PROVE  /\ worker[w].ports > 0 =>
                           worker[w].pool = PoolThreads /\ worker[w].services = Services
                      /\ worker[w].at = "serving" => worker[w].ports = conf.ListenPortCount
    BY DEF ServesAll
  <2>1. Right(worker[w], opened) /\ worker[w].ports \in Nat
    BY <1>1 DEF IInv, TypeOK, Record
  <2>2. worker[w].at # "none" => opened = conf.ListenPortCount
    BY <1>1 DEF IInv, Children
  <2> QED  BY <2>1, <2>2 DEF Right, Set_Up
<1> QED  BY <1>1, Invariant, PTL

\* The exit code 0 means open ports, 1 and 2 that no worker was started
\* (nginx.cxx:114-199).
THEOREM ExitCodesTrue == Spec => []ExitCodeTrue
<1>1. IInv => ExitCodeTrue
  BY DEF IInv, Stages, Children, ExitCodeTrue
<1> QED  BY <1>1, Invariant, PTL
===============================================================================

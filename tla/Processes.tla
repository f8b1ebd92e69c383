------------------------------ MODULE Processes -------------------------------
(***************************************************************************)
(* The processes of the server: the command that is started, the daemon it *)
(* may become, the master that forks the workers and sleeps in sigsuspend, *)
(* and each worker up to the point where it serves.  Signals are blocked,  *)
(* pending, delivered and nested as the kernel does it.                    *)
(*                                                                         *)
(* Three signals stand for the sixteen or so that matter: "CHLD"; "TERM",  *)
(* for those that ngxSignalHandler only logs; "USR1", for those without a  *)
(* handler, which end the process.                                         *)
(***************************************************************************)
EXTENDS Naturals, Sequences

CONSTANTS
  MaxWorkers,     \* the largest WorkerProcesses of nginx.conf considered
  MaxPorts,       \* the largest ListenPortCount
  PoolThreads,    \* ProcMsgRecvWorkThreadCount
  Services        \* sender and recycler, and with Sock_WaitTimeEnable the timer

ASSUME SizesAssumption ==
  /\ MaxWorkers \in Nat /\ MaxPorts \in Nat
  /\ PoolThreads \in Nat \ {0} /\ Services \in {2, 3}

Workers == 0..MaxWorkers - 1
Sent    == {"TERM", "USR1"}        \* what others may send
Signals == Sent \cup {"CHLD"}

VARIABLES
  main,      \* the place of the main process in main() and ngxMasterProcessCycle
  conf,      \* what Load found in nginx.conf
  opened,    \* the size of mListenSocketList
  spawned,   \* i of NgxStartWorkProcess
  blocked,   \* the signal mask of the main process
  pending,   \* the signals waiting for the main process
  handlers,  \* its running ngxSignalHandler calls, innermost first
  exitcode,  \* what the shell sees of the command
  worker     \* the workers

vars == <<main, conf, opened, spawned, blocked, pending, handlers, exitcode, worker>>

-----------------------------------------------------------------------------
(* A worker process.                                                       *)

\* `at' is its place, `ngxProcess' and `ngxPid' the globals of those names,
\* `pool', `services' and `ports' what it has created and registered,
\* `client' a connection of its, `status' how it ended.
Process(at, masked, status) ==
  [at |-> at, ngxProcess |-> "MASTER", ngxPid |-> "parent", masked |-> masked,
   pending |-> {}, handling |-> FALSE, pool |-> 0, services |-> 0, ports |-> 0,
   client |-> "none", status |-> status]

NotForked == Process("none", TRUE, "none")
Reap      == Process("reaped", TRUE, "none")

Running(w) == worker[w].at \notin {"none", "zombie", "reaped"}

\* A handler suspends the worker's only thread; later there are others.
Free(w) == ~worker[w].handling \/ worker[w].pool > 0

\* A child whose parent is gone is reaped by init.
Ended(w, status) ==
  worker' = [worker EXCEPT ![w] =
    IF main = "gone" THEN Reap ELSE Process("zombie", TRUE, status)]

-----------------------------------------------------------------------------
(* The main process.                                                       *)

Init ==
  /\ main = "load"
  /\ conf = [Daemon |-> FALSE, WorkerProcesses |-> 0, ListenPortCount |-> 0]
  /\ opened = 0 /\ spawned = 0
  /\ blocked = FALSE /\ pending = {} /\ handlers = <<>>
  /\ exitcode = "running"
  /\ worker = [w \in Workers |-> NotForked]

\* The end of the main process; the daemon's code is not the command's.
Quit(code) ==
  /\ main' = "gone"
  /\ exitcode' = IF exitcode = "running" THEN code ELSE exitcode
  /\ pending' = {} /\ handlers' = <<>>
  /\ worker' = [w \in Workers |-> IF worker[w].at = "zombie" THEN Reap ELSE worker[w]]
  /\ UNCHANGED <<conf, opened, spawned, blocked>>

Load ==
  /\ main = "load"
  /\ \/ /\ main' = "signals"
        /\ conf' \in [Daemon : BOOLEAN, WorkerProcesses : 0..MaxWorkers,
                      ListenPortCount : 0..MaxPorts]
        /\ UNCHANGED <<opened, spawned, blocked, pending, handlers, exitcode, worker>>
     \/ Quit("2")

ngxInitSignals ==
  /\ main = "signals"
  /\ \/ /\ main' = "sockets"
        /\ UNCHANGED <<conf, opened, spawned, blocked, pending, handlers, exitcode, worker>>
     \/ Quit("1")

\* Fault: a port that cannot be bound is skipped.
OpenPortSkips ==
  /\ opened < conf.ListenPortCount
  /\ \/ /\ opened' = opened + 1
        /\ UNCHANGED <<main, conf, spawned, blocked, pending, handlers, exitcode, worker>>
     \/ /\ main' = "daemon"
        /\ UNCHANGED <<conf, opened, spawned, blocked, pending, handlers, exitcode, worker>>

\* One round of the loop: any of socket, setsockopt, bind and listen can fail.
OpenPort ==
  /\ opened < conf.ListenPortCount
  /\ \/ /\ opened' = opened + 1
        /\ UNCHANGED <<main, conf, spawned, blocked, pending, handlers, exitcode, worker>>
     \/ Quit("1")

AllOpened ==
  /\ opened >= conf.ListenPortCount
  /\ IF opened = 0
     THEN Quit("1")
     ELSE /\ main' = "daemon"
          /\ UNCHANGED <<conf, opened, spawned, blocked, pending, handlers, exitcode, worker>>

NgxOpenListeningSockets == main = "sockets" /\ (OpenPort \/ AllOpened)

\* The child is the main process from here on; it starts without pending
\* signals.
ngxDaemon ==
  /\ main = "daemon" /\ conf.Daemon
  /\ \/ /\ main' = "setsid" /\ exitcode' = "forked" /\ pending' = {}
        /\ UNCHANGED <<conf, opened, spawned, blocked, handlers, worker>>
     \/ Quit("1")

\* Meanwhile the parent, the command, ends with 0.  (A signal that ends it
\* before that would change nothing else.)
ParentExits ==
  /\ exitcode = "forked"
  /\ exitcode' = "0"
  /\ UNCHANGED <<main, conf, opened, spawned, blocked, pending, handlers, worker>>

\* setsid, /dev/null and dup2, in the daemon.
Detach ==
  /\ \/ main = "setsid"
     \/ main = "daemon" /\ ~conf.Daemon
  /\ \/ /\ main' = "mask"
        /\ UNCHANGED <<conf, opened, spawned, blocked, pending, handlers, exitcode, worker>>
     \/ main = "setsid" /\ Quit("1")

\* Fault: the workers are forked with the signals open.
BlockSignalsNot ==
  /\ main = "mask"
  /\ main' = "spawn"
  /\ UNCHANGED <<conf, opened, spawned, blocked, pending, handlers, exitcode, worker>>

BlockSignals ==
  /\ main = "mask"
  /\ main' = "spawn" /\ blocked' = TRUE
  /\ UNCHANGED <<conf, opened, spawned, pending, handlers, exitcode, worker>>

\* Fault: one worker too many.
NgxSpawnProcessTooMany ==
  /\ main = "spawn" /\ spawned <= conf.WorkerProcesses
  /\ spawned' = spawned + 1
  /\ UNCHANGED <<main, conf, opened, blocked, pending, handlers, exitcode, worker>>

\* A fork that fails is logged, and the loop goes on.
NgxSpawnProcess ==
  /\ main = "spawn" /\ spawned < conf.WorkerProcesses
  /\ spawned' = spawned + 1
  /\ \/ worker' = [worker EXCEPT ![spawned] = Process("forked", blocked, "none")]
     \/ worker' = worker
  /\ UNCHANGED <<main, conf, opened, blocked, pending, handlers, exitcode>>


\* From the last fork into the loop, and from sleep(1) back to sigsuspend.
Suspend ==
  /\ \/ main = "spawn" /\ spawned >= conf.WorkerProcesses
     \/ main = "sleep"
  /\ main' = "sigsuspend"
  /\ UNCHANGED <<conf, opened, spawned, blocked, pending, handlers, exitcode, worker>>

\* A handler suspends all of this.
MainStep ==
  /\ handlers = <<>>
  /\ \/ Load \/ ngxInitSignals \/ NgxOpenListeningSockets
     \/ ngxDaemon \/ Detach \/ BlockSignals \/ NgxSpawnProcess \/ Suspend

-----------------------------------------------------------------------------
(* Signals of the main process.                                            *)

Installed == main \notin {"load", "signals"}
\* A handler runs with nothing blocked but its own signal.
Open == ~blocked \/ main = "sigsuspend" \/ handlers # <<>>
InHandler(s) == \E i \in 1..Len(handlers) : handlers[i] = s

\* Signals of one kind merge while they wait.
Raise(s) ==
  /\ main # "gone" /\ s \notin pending
  /\ pending' = pending \cup {s}
  /\ UNCHANGED <<main, conf, opened, spawned, blocked, handlers, exitcode, worker>>

Deliver(s) ==
  /\ s \in pending /\ Open /\ ~InHandler(s)
  /\ IF Installed /\ s # "USR1"
     THEN /\ pending' = pending \ {s}
          /\ handlers' = <<s>> \o handlers
          /\ UNCHANGED <<main, conf, opened, spawned, blocked, exitcode, worker>>
     ELSE Quit("killed")

\* The return of the outermost handler ends sigsuspend, and its mask.
Return ==
  /\ handlers' = Tail(handlers)
  /\ main' = IF main = "sigsuspend" /\ Len(handlers) = 1 THEN "sleep" ELSE main
  /\ UNCHANGED <<conf, opened, spawned, blocked, pending, exitcode, worker>>

\* Fault: one child for each signal.
ngxProcessGetStatusOnce ==
  \/ \E w \in Workers :
       /\ worker[w].at = "zombie"
       /\ worker' = [worker EXCEPT ![w] = Reap]
       /\ handlers' = Tail(handlers)
       /\ main' = IF main = "sigsuspend" /\ Len(handlers) = 1 THEN "sleep" ELSE main
       /\ UNCHANGED <<conf, opened, spawned, blocked, pending, exitcode>>
  \/ /\ \A w \in Workers : worker[w].at # "zombie"
     /\ Return

\* One waitpid(-1, WNOHANG): a child that has ended, or none.
ngxProcessGetStatus ==
  \/ \E w \in Workers :
       /\ worker[w].at = "zombie"
       /\ worker' = [worker EXCEPT ![w] = Reap]
       /\ UNCHANGED <<main, conf, opened, spawned, blocked, pending, handlers, exitcode>>
  \/ /\ \A w \in Workers : worker[w].at # "zombie"
     /\ Return

ngxSignalHandler(s) ==
  /\ handlers # <<>> /\ handlers[1] = s
  /\ IF s = "CHLD" THEN ngxProcessGetStatus ELSE Return

\* SIGKILL.
Killed == main # "gone" /\ Quit("killed")

-----------------------------------------------------------------------------
(* A worker's start, in NgxSpawnProcess, NgxWorkerProcessCycle and          *)
(* NgxWorkerProcessInit.                                                   *)

MasterSame  == UNCHANGED <<conf, opened, spawned, blocked, handlers, exitcode, main>>
Becomes(w, r) == worker' = [worker EXCEPT ![w] = r]

\* exit(), or a deadly signal: the kernel tells the parent.
Exit(w, status) ==
  /\ Ended(w, status)
  /\ pending' = IF main = "gone" THEN pending ELSE pending \cup {"CHLD"}
  /\ MasterSame

SetPids(w) ==
  /\ worker[w].at = "forked"
  /\ Becomes(w, [worker[w] EXCEPT !.at = "named", !.ngxPid = "own"])
  /\ UNCHANGED pending /\ MasterSame

SetRole(w) ==
  /\ worker[w].at = "named"
  /\ Becomes(w, [worker[w] EXCEPT !.at = "init", !.ngxProcess = "WORKER"])
  /\ UNCHANGED pending /\ MasterSame

Unblock(w) ==
  /\ worker[w].at = "init"
  /\ Becomes(w, [worker[w] EXCEPT !.at = "create", !.masked = FALSE])
  /\ UNCHANGED pending /\ MasterSame

CreatePoolThread(w) ==
  /\ worker[w].at = "create"
  /\ \/ /\ Becomes(w, [worker[w] EXCEPT !.pool = @ + 1,
                         !.at = IF worker[w].pool + 1 = PoolThreads THEN "services" ELSE @])
        /\ UNCHANGED pending /\ MasterSame
     \/ Exit(w, "exit")

\* Fault: the worker goes on without the thread that could not be created.
CreateServiceGoesOn(w) ==
  /\ worker[w].at = "services"
  /\ \/ Becomes(w, [worker[w] EXCEPT !.services = @ + 1,
                      !.at = IF worker[w].services + 1 = Services THEN "epoll" ELSE @])
     \/ Becomes(w, [worker[w] EXCEPT !.at = "epoll"])
  /\ UNCHANGED pending /\ MasterSame

CreateService(w) ==
  /\ worker[w].at = "services"
  /\ \/ /\ Becomes(w, [worker[w] EXCEPT !.services = @ + 1,
                         !.at = IF worker[w].services + 1 = Services THEN "epoll" ELSE @])
        /\ UNCHANGED pending /\ MasterSame
     \/ Exit(w, "exit")

EpollCreate(w) ==
  /\ worker[w].at = "epoll"
  /\ \/ /\ Becomes(w, [worker[w] EXCEPT !.at = "ports"])
        /\ UNCHANGED pending /\ MasterSame
     \/ Exit(w, "exit")

AddPort(w) ==
  /\ worker[w].at = "ports"
  /\ \/ /\ Becomes(w, [worker[w] EXCEPT !.ports = @ + 1,
                         !.at = IF worker[w].ports + 1 = opened THEN "serving" ELSE @])
        /\ UNCHANGED pending /\ MasterSame
     \/ Exit(w, "exit")

WorkerStep(w) ==
  /\ Free(w)
  /\ \/ SetPids(w) \/ SetRole(w) \/ Unblock(w)
     \/ CreatePoolThread(w) \/ CreateService(w)
     \/ EpollCreate(w) \/ AddPort(w)

-----------------------------------------------------------------------------
(* A worker's signals, and one of its clients.                             *)

RaiseIn(w, s) ==
  /\ Running(w) /\ worker[w].masked /\ s \notin worker[w].pending
  /\ Becomes(w, [worker[w] EXCEPT !.pending = @ \cup {s}])
  /\ UNCHANGED pending /\ MasterSame

\* A signal that waited, or one that comes when it is not blocked.
DeliverIn(w, s) ==
  /\ Running(w) /\ ~worker[w].masked
  /\ IF s = "USR1"
     THEN Exit(w, "signal")
     ELSE /\ ~worker[w].handling
          /\ Becomes(w, [worker[w] EXCEPT !.pending = @ \ {s}, !.handling = TRUE])
          /\ UNCHANGED pending /\ MasterSame

ReturnIn(w) ==
  /\ worker[w].handling
  /\ Becomes(w, [worker[w] EXCEPT !.handling = FALSE])
  /\ UNCHANGED pending /\ MasterSame

KilledIn(w) == Running(w) /\ Exit(w, "signal")

Connect(w) ==
  /\ worker[w].at = "serving" /\ worker[w].client = "none"
  /\ Becomes(w, [worker[w] EXCEPT !.client = "connected"])
  /\ UNCHANGED pending /\ MasterSame

Reset(w) ==
  /\ worker[w].client = "connected"
  /\ Becomes(w, [worker[w] EXCEPT !.client = "reset"])
  /\ UNCHANGED pending /\ MasterSame

\* send() without MSG_NOSIGNAL on a connection that was reset.  The first call
\* reports ECONNRESET, SendProc's -2; from then on it is EPIPE with SIGPIPE,
\* for which there is no handler.
SendProc(w) ==
  \/ /\ worker[w].client = "reset"
     /\ Becomes(w, [worker[w] EXCEPT !.client = "told"])
     /\ UNCHANGED pending /\ MasterSame
  \/ worker[w].client = "told" /\ Exit(w, "SIGPIPE")

\* recv() fails, and the connection is closed.
RecvProc(w) ==
  /\ worker[w].client \in {"reset", "told"}
  /\ Becomes(w, [worker[w] EXCEPT !.client = "none"])
  /\ UNCHANGED pending /\ MasterSame

Next ==
  \/ MainStep \/ ParentExits \/ Killed
  \/ \E s \in Sent : Raise(s)
  \/ \E s \in Signals : Deliver(s) \/ ngxSignalHandler(s)
  \/ \E w \in Workers :
       \/ WorkerStep(w) \/ ReturnIn(w) \/ KilledIn(w)
       \/ \E s \in Sent : RaiseIn(w, s) \/ DeliverIn(w, s)
       \/ Connect(w) \/ Reset(w) \/ SendProc(w) \/ RecvProc(w)

Spec == Init /\ [][Next]_vars

\* sleep(1) ends and handlers return.  The kernel delivers a SIGCHLD that it
\* finds open again and again, and between two signals from outside it lets an
\* interrupted handler run on: both can be kept from it, but not for ever.
Fairness ==
  /\ WF_vars(MainStep)
  /\ SF_vars(Deliver("CHLD"))
  /\ \A s \in {"CHLD", "TERM"} : SF_vars(ngxSignalHandler(s))

FairSpec == Spec /\ Fairness

-----------------------------------------------------------------------------
(* Properties.                                                             *)

Record ==
  [at : {"none", "forked", "named", "init", "create", "services", "epoll", "ports",
         "serving", "zombie", "reaped"},
   ngxProcess : {"MASTER", "WORKER"}, ngxPid : {"parent", "own"},
   masked : BOOLEAN, pending : SUBSET Sent, handling : BOOLEAN,
   pool : 0..PoolThreads, services : 0..Services, ports : 0..MaxPorts,
   client : {"none", "connected", "reset", "told"},
   status : {"none", "exit", "signal", "SIGPIPE"}]

\* Every variable keeps its type: i of NgxStartWorkProcess stays in range, and
\* a worker creates no more threads and registers no more ports than there are.
TypeOK ==
  /\ main \in {"load", "signals", "sockets", "daemon", "setsid", "mask", "spawn",
               "sigsuspend", "sleep", "gone"}
  /\ conf \in [Daemon : BOOLEAN, WorkerProcesses : 0..MaxWorkers,
               ListenPortCount : 0..MaxPorts]
  /\ opened \in 0..MaxPorts /\ spawned \in 0..MaxWorkers
  /\ blocked \in BOOLEAN /\ pending \in SUBSET Signals
  /\ handlers \in Seq({"CHLD", "TERM"})
  /\ exitcode \in {"running", "forked", "0", "1", "2", "killed"}
  /\ worker \in [Workers -> Record]

\* No zombie is forgotten: while one exists, a SIGCHLD is pending or a handler
\* of it has not left its waitpid loop, however many workers end at a time and
\* whenever they do (ngx_signal.cxx:148-202).
ZombieNoticed ==
  (\E w \in Workers : worker[w].at = "zombie") =>
    "CHLD" \in pending \/ InHandler("CHLD")

\* A worker that ended is reaped in the end (ngx_signal.cxx:28, against zombies).
Reaped == \A w \in Workers : worker[w].at = "zombie" ~> worker[w].at = "reaped"

\* No signal disturbs the forks, neither in the master nor in the child before
\* it knows that it is one (ngx_process_cycle.cxx:33-50, 120-139).
StartUndisturbed ==
  /\ main = "spawn" => handlers = <<>>
  /\ \A w \in Workers : worker[w].handling =>
       worker[w].ngxProcess = "WORKER" /\ worker[w].ngxPid = "own"

\* A worker that takes connections has all its threads, as every other module
\* supposes, and one that serves does so on all ports (ngx_process_cycle.cxx:171-185).
ServesAll ==
  \A w \in Workers :
    /\ worker[w].ports > 0 =>
         worker[w].pool = PoolThreads /\ worker[w].services = Services
    /\ worker[w].at = "serving" => worker[w].ports = conf.ListenPortCount

\* The command's exit code tells the truth: 0 only with every port open, and
\* with 1 or 2 no worker was ever started (nginx.cxx:114-199).
ExitCodeTrue ==
  /\ exitcode = "0" => opened > 0 /\ opened = conf.ListenPortCount
  /\ exitcode \in {"1", "2"} => \A w \in Workers : worker[w].at = "none"

\* A client that breaks its connection costs the server that connection only:
\* ngx_c_socket.cxx:909 leaves it to recv() to close.
ClientCannotKill == \A w \in Workers : worker[w].status # "SIGPIPE"
===============================================================================

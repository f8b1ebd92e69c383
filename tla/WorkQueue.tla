------------------------------- MODULE WorkQueue -------------------------------
(***************************************************************************)
(* What CThreadPool promises to the thread that feeds it                   *)
(* (_include/ngx_c_threadpool.h): jobs are started in the order in which   *)
(* they are submitted, each once, at most one per slot at a time, and      *)
(* every job is finished, unless the queue is shut: then the jobs being    *)
(* handled are finished and the rest are thrown away together.  There are  *)
(* no locks, conditions or counters here.                                  *)
(***************************************************************************)
EXTENDS Sequences, Naturals

CONSTANTS Slots,    \* as many jobs are handled at a time
          Jobs,
          Nothing   \* an idle slot

VARIABLES open,     \* not shut yet
          pending,  \* submitted, not started
          active,   \* the job of each slot
          done      \* finished or thrown away

qvars == <<open, pending, active, done>>

QInit ==
  /\ open = TRUE
  /\ pending = <<>>
  /\ active = [s \in Slots |-> Nothing]
  /\ done = {}

Waiting == {pending[i] : i \in 1..Len(pending)}

QSubmit(j) ==
  /\ open
  /\ j \notin done \cup Waiting \cup {active[s] : s \in Slots}
  /\ pending' = Append(pending, j)
  /\ UNCHANGED <<open, active, done>>

QStart(s) ==
  /\ open /\ pending # <<>> /\ active[s] = Nothing
  /\ active' = [active EXCEPT ![s] = Head(pending)]
  /\ pending' = Tail(pending)
  /\ UNCHANGED <<open, done>>

QFinish(s) ==
  /\ active[s] # Nothing
  /\ done' = done \cup {active[s]}
  /\ active' = [active EXCEPT ![s] = Nothing]
  /\ UNCHANGED <<open, pending>>

QShut == open /\ open' = FALSE /\ UNCHANGED <<pending, active, done>>

QDiscard ==
  /\ ~open
  /\ \A s \in Slots : active[s] = Nothing
  /\ done' = done \cup Waiting
  /\ pending' = <<>>
  /\ UNCHANGED <<open, active>>

QNext == \/ \E j \in Jobs : QSubmit(j)
         \/ \E s \in Slots : QStart(s) \/ QFinish(s)
         \/ QShut \/ QDiscard

SafeSpec == QInit /\ [][QNext]_qvars
FairSpec == /\ SafeSpec
            /\ WF_qvars(\E s \in Slots : QStart(s))
            /\ \A s \in Slots : WF_qvars(QFinish(s))
===============================================================================

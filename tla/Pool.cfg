\* Two threads, three packets: both threads busy with one packet queued, and
\* the pool stopped at any moment.  No symmetry, for liveness.
SPECIFICATION FairSpec
CONSTANTS
  Workers = {w1, w2}
  Jobs    = {j1, j2, j3}
  NoOwner = NoOwner
  NoJob   = NoJob
INVARIANTS
  TypeOK
  FifoDispatch
  ExclusiveOwner
  NoMissedSignal
  NothingLeftBehind
PROPERTIES
  EveryJobFreed
  ImplementsQueue
\* A stopped pool, or a dead process, stays so.
CHECK_DEADLOCK FALSE

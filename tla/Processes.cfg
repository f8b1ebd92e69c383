\* Up to two workers and two ports, three service threads; signals from outside
\* and deaths at any moment.
SPECIFICATION FairSpec
CONSTANTS
  MaxWorkers  = 2
  MaxPorts    = 2
  PoolThreads = 2
  Services    = 3
INVARIANTS
  TypeOK
  ZombieNoticed
  StartUndisturbed
  ServesAll
  ExitCodeTrue
PROPERTIES
  Reaped
\* The processes may all be gone.
CHECK_DEADLOCK FALSE

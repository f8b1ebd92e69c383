\* One worker with a client that resets its connection.
SPECIFICATION Spec
CONSTANTS
  MaxWorkers  = 1
  MaxPorts    = 1
  PoolThreads = 1
  Services    = 2
INVARIANT ClientCannotKill
CHECK_DEADLOCK FALSE

\* A client that is kicked while it leaves, and the next one on its descriptor.
SPECIFICATION Spec
CONSTANTS
  Conns                   = {c1, c2, c3}
  Fds                     = {1, 2, 3}
  mWorkerConnections      = 2
  InitialFree             = 1
  mRecyConnectionWaitTime = 1
  miWaitTime              = 1
  PingLimit               = 1
  KickSettings            = {1}
  TimeSettings            = {1}
  MaxTime                 = 2
  MaxClients              = 3
  NGX_MAX_EVENTS          = 2
  Listening               = Listening
  None                    = None
\* The clock stops at its bound, and clients need not come.
INVARIANT OwnDescriptor
CHECK_DEADLOCK FALSE

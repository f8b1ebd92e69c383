\* Two clients at a time, three in all; one structure is there at the start and
\* two can be allocated.  The wait of 80 s, the kick time of 20 s and the limit
\* for pings of 70 s are scaled to one step of the clock each.
SPECIFICATION Spec
CONSTANTS
  Conns                   = {c1, c2, c3}
  Fds                     = {1, 2, 3}
  mWorkerConnections      = 2
  InitialFree             = 1
  mRecyConnectionWaitTime = 1
  miWaitTime              = 1
  PingLimit               = 1
  KickSettings            = {0, 1}
  TimeSettings            = {0, 1}
  MaxTime                 = 3
  MaxClients              = 3
  NGX_MAX_EVENTS          = 2
  Listening               = Listening
  None                    = None
INVARIANTS
  TypeOK
  ListsRight
  OnlineRight
  CapacityKept
  KickedNotEarly
  TimerValueRight
  OwnDescriptorUntimed
PROPERTIES
  ImplementsLeases
\* The clock stops at its bound, and clients need not come.
CHECK_DEADLOCK FALSE

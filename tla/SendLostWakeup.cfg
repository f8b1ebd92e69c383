\* One client with two requests under way.
SPECIFICATION FairSpec
CONSTANTS
  Conns     = {c1}
  Clients   = {k1}
  Fds       = {f1}
  Msgs      = {m1, m2}
  MsgLen    = 2
  MaxUnread = 1
  EarlyFd   = FALSE
  None      = None
PROPERTIES
  QueueServed
CHECK_DEADLOCK FALSE

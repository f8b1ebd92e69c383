\* The kernel reuses a descriptor at once.
SPECIFICATION Spec
CONSTANTS
  Conns     = {c1, c2}
  Clients   = {k1, k2}
  Fds       = {f1}
  Msgs      = {m1}
  MsgLen    = 2
  MaxUnread = 1
  EarlyFd   = TRUE
  None      = None
INVARIANTS
  ReplyToRequester
CHECK_DEADLOCK FALSE

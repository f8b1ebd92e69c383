\* One client with two requests, which may end its side before they are read.
SPECIFICATION Spec
CONSTANTS
  Conns     = {c1}
  Clients   = {k1}
  Fds       = {f1}
  Msgs      = {m1, m2}
  MsgLen    = 2
  MaxUnread = 1
  EarlyFd   = FALSE
  None      = None
INVARIANTS
  SenderNotArmed
CHECK_DEADLOCK FALSE

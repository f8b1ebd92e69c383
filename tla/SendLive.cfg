\* One connection structure used by two clients in turn; no symmetry, for liveness.
SPECIFICATION FairSpec
CONSTANTS
  Conns     = {c1}
  Clients   = {k1, k2}
  Fds       = {f1}
  Msgs      = {m1, m2}
  MsgLen    = 2
  MaxUnread = 1
  EarlyFd   = FALSE
  None      = None
PROPERTIES
  PartlySentCompletes
  ConnReleased
CHECK_DEADLOCK FALSE

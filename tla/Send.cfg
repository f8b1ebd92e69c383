\* Two connection structures, descriptors and clients, two replies: both of one
\* client, or one each; a structure and a descriptor used again.
SPECIFICATION Spec
CONSTANTS
  Conns     = {c1, c2}
  Clients   = {k1, k2}
  Fds       = {f1, f2}
  Msgs      = {m1, m2}
  MsgLen    = 2
  MaxUnread = 1
  EarlyFd   = FALSE
  None      = None
INVARIANTS
  TypeOK
  FreedOnceUntilClosed
  NoUseAfterFree
  NothingLost
  OneAtATime
PROPERTIES
  ImplementsOutbox
SYMMETRY Symmetry
\* Clients need not come, nor send anything.
CHECK_DEADLOCK FALSE

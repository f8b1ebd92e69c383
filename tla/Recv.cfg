\* Two clients after each other on one connection structure, up to three packets
\* each, with the flood check on or off.  The header and the char are scaled
\* down together: every cut of every packet is covered, up to the largest body
\* whose length fits.
SPECIFICATION Spec
CONSTANTS
  HdrLen = 3
  MaxLen = 12
  CharMax = 7
  Lens <- FiveLens
  MaxPkts = 3
  MaxLives = 2
  FloodSettings = {0, 1}
  mFloodKickCount = 10
  None = None
INVARIANTS
  TypeOK
  FramedRight
  BufferAccounted
  NumberNamesClient
PROPERTIES
  PacketsArrive
\* Clients need not come, nor send anything.
CHECK_DEADLOCK FALSE

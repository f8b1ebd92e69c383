\* A packet with 200 bytes of body, the real sizes.
SPECIFICATION Spec
CONSTANTS
  HdrLen = 8
  MaxLen = 29000
  CharMax = 127
  Lens <- LongLens
  MaxPkts = 1
  MaxLives = 1
  FloodSettings = {0}
  mFloodKickCount = 10
  None = None
INVARIANT LengthRight
CHECK_DEADLOCK FALSE

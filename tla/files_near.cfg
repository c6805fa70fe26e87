SPECIFICATION Spec
CONSTANTS
  Name <- MCName
  Zeroed <- MCZeroed
  Mounts <- MCNear
  FcbAddr = {92}
  DmaAddr = {128, 512}
  Drive = {0, 1}
  Rand = {0, 127, 4094, 4095}
  Pattern <- MCNone
  DmaMtu = 64
  OneFile = TRUE
  MaxAhead = 1
INVARIANTS PositionKept
CHECK_DEADLOCK FALSE

SPECIFICATION FairSpec
CONSTANTS
  Name <- MCName
  Zeroed <- MCZeroed
  Mounts <- MCSmall
  FcbAddr = {92, 4096}
  DmaAddr = {128}
  Drive = {5}
  Rand = {0}
  Pattern <- MCAny
  DmaMtu = 48
  OneFile = TRUE
  MaxAhead = 2
INVARIANTS InStep RightRecord RightEnd DmaFits SearchComplete ListedOpens
PROPERTIES CallsReturn

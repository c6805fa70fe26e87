SPECIFICATION FairSpec
CONSTANTS
  Request <- MCRequest
  Reply <- MCReply
  Check <- DeviceCheck
  HostMaxData = 4
  Pad = 2
  Trail = 3
  Blocking = TRUE
  ChecksumDefined = TRUE
  Garble <- MCGarble
  MaxRequest = 3
  MaxSend = 8
  MaxGarble = 0
  MaxLose = 0
  MaxLate = 0
  Heads <- MCHeads
  Octets <- MCOctets
  MaxFault = 0
INVARIANTS BothAgree TailErrorDetected
PROPERTIES ExactlyOnce RequestsFinish
CHECK_DEADLOCK FALSE

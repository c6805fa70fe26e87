SPECIFICATION Spec
CONSTANTS
  Request <- MCRequest
  Reply <- MCReply
  Check <- DeviceCheck
  HostMaxData = 4
  Pad = 2
  Trail = 0
  Blocking = FALSE
  ChecksumDefined = TRUE
  Garble <- MCGarble
  MaxRequest = 3
  MaxSend = 10
  MaxGarble = 1
  MaxLose = 1
  MaxLate = 1
  Heads <- MCHeads
  Octets <- MCOctets
  MaxFault = 1
INVARIANTS TypeOK NoHang Integrity Delivered BufferBounded OneOutstanding ReplyMatches
CHECK_DEADLOCK FALSE

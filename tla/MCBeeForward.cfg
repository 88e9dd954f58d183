SPECIFICATION Spec
CONSTANTS
  b1 = b1  b2 = b2  k1 = k1  v1 = v1  v2 = v2
  Bees = {b1, b2}
  Keys = {k1}
  Vals = {v1}
  Tomb = Tomb  Absent = Absent  NoDb = NoDb  NoPayload = NoPayload  NoReply = NoReply
  Chain <- TwoChains
  Requests <- ForwardRequests
  Files <- EmptyFile
  HeaderLen = 2
  PayloadLen = 2
  Faults = TRUE
  PonyMax = 1
  ConfigMax = 2
INVARIANTS AckedReachesAll  LockIsReleased
PROPERTIES AllClosed
CHECK_DEADLOCK FALSE

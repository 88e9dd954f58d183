SPECIFICATION Spec
CONSTANTS
  b1 = b1  b2 = b2  k1 = k1  v1 = v1  v2 = v2
  Bees = {b1}
  Keys = {k1}
  Vals = {v1, v2}
  Tomb = Tomb  Absent = Absent  NoDb = NoDb  NoPayload = NoPayload  NoReply = NoReply
  Chain <- OneChain
  Requests <- StoreRequests
  Files <- OldFile
  HeaderLen = 1
  PayloadLen = 1
  Faults = FALSE
  PonyMax = 2
  ConfigMax = 3
INVARIANTS ShowsLastWrite 
CHECK_DEADLOCK FALSE

SPECIFICATION WebSpec
CONSTANTS
  Capture = {c1}
  NoCapture = NoCapture
  Owner = {o1}
  User = {u1, u2}
  NoUser = NoUser
  Address = {a1}
  NoAddress = NoAddress
  Slots = 1
  Retained = 1
  Watched = {c1}
  MaxBlocks = 1
  MaxKeys = 0
  Enrollment = {t1, t2}
INVARIANTS WebInv CaptureFollowsUser TicketsAreFresh
PROPERTIES RequestsEnd
CHECK_DEADLOCK FALSE

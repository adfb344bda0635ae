SPECIFICATION CaptureSpec
CONSTANTS
  Capture = {c1, c2}
  NoCapture = NoCapture
  Owner = {o1}
  User = {u1}
  NoUser = NoUser
  Address = {}
  NoAddress = NoAddress
  Slots = 1
  Retained = 2
  Watched = {c1}
  MaxBlocks = 3
  MaxKeys = 1
INVARIANTS CaptureInv ClosedIsComplete ClosingStopsAll
PROPERTIES ViewersEnd
CHECK_DEADLOCK FALSE

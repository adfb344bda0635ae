SPECIFICATION Spec
CONSTANTS
  s1 = s1
  s2 = s2
  a = a
  b = b
  Session = {s1, s2}
  Stream = {a, b}
  Owners <- MCOwners
  Talking = {a}
  Packet = {p, e}
  Empty = e
  MaxFlows = 1
  ServerSlots = 1
INVARIANTS StreamInv PlacesAreHeldByHandlers RelayIsComplete
PROPERTIES UdpPromise SessionIsReleased
CHECK_DEADLOCK FALSE

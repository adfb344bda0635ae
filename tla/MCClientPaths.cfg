SPECIFICATION Spec
CONSTANTS
  MaxPaths = 3
  Key = {wifi, cell, lan}
  NoKey = NoKey
  MaxActive = 4
  MaxQueue = 2
  MaxSpent = 1
INVARIANTS PathInv TransportInUseIsOpen IdsAreNotLeaked
PROPERTIES RetiredIsClosed ProbesAreSent

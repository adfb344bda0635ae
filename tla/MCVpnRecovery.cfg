SPECIFICATION Spec
CONSTANTS
  Wifi = {w1}
  Cellular = {c1}
  NoNet = NoNet
  MaxQueue = 1
  MaxUser = 2
  MaxFaults = 1
INVARIANTS RecoveryInv TroubleIsReal
PROPERTIES ReplacedOnlyIfBroken VpnRecovers
CHECK_DEADLOCK FALSE

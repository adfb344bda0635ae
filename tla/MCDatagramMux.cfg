SPECIFICATION Spec
CONSTANTS
  Flows = {f1}
  MaxFlows = 1
  Totals = {1, 3}
  SeqSpace = 2
  SendCap = 2
  RecvCap = 1
  PartsCap = 1
  MaxWrites <- Upload
  Garbled = garbled
INVARIANT MuxInv
PROPERTIES IsUdpChannel ClosedAtBothEnds
CHECK_DEADLOCK FALSE

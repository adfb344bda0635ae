SPECIFICATION LiveSpec
CONSTANTS
  Profiles = {home}
  Nets = {lan}
  Uids = {u1}
  Unknown = unknown
  Direct = direct
  Blocked = blocked
  Policies <- OneProfile
  Gateways = {g1, g2}
  Flows = {f1}
  MaxFlows = 1
  NoGateway = none
INVARIANTS PausedIsUnrouted GoneIsUnrouted
PROPERTIES ClosedSessionsEnd RunningIsConnected
CHECK_DEADLOCK FALSE

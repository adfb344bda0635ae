SPECIFICATION RouterSafe
CONSTANTS
  Profiles = {home, work}
  Nets = {lan, wan}
  Uids = {u1, u2}
  Unknown = unknown
  Direct = direct
  Blocked = blocked
  Policies <- OnePolicy
  Gateways = {g1, g2}
  Flows = {f1, f2}
  MaxFlows = 1
  NoGateway = none
SYMMETRY Symmetry
INVARIANTS FlowsFollowPolicy DrainedIsIdle
CHECK_DEADLOCK FALSE

SPECIFICATION VpnSafe
CONSTANTS
  Profiles = {home}
  Nets = {lan}
  Uids = {u1}
  Unknown = unknown
  Direct = direct
  Blocked = blocked
  Policies <- OneProfile
  Gateways = {g1, g2}
  Flows = {}
  MaxFlows = 1
  NoGateway = none
INVARIANT AliveIsRouted
CHECK_DEADLOCK FALSE

SPECIFICATION Spec
CONSTANTS
  Names = {1, 2}
  Hosts = {}
  Capabilities <- MCCapabilities
  Capacity = 2
  MaxAgents = 2
  MaxSent = 2
  MaxExpired = 1
  MaxKills = 1
INVARIANT ArrivedIsNotDropped
CHECK_DEADLOCK FALSE

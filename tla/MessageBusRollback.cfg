SPECIFICATION Spec
CONSTANTS
  Names = {1}
  Hosts = {}
  Capabilities <- MCCapabilities
  Capacity = 2
  MaxAgents = 3
  MaxSent = 0
  MaxExpired = 1
  MaxKills = 1
PROPERTY RollbackRemovesOnlyItsOwn
CHECK_DEADLOCK FALSE

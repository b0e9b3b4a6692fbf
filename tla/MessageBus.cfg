SPECIFICATION Spec
CONSTANTS
  Names = {1, 2}
  Hosts = {1}
  Capabilities <- MCCapabilities
  Capacity = 2
  MaxAgents = 3
  MaxSent = 3
  MaxExpired = 1
  MaxKills = 1
INVARIANTS TypeOK ReceivedInOrder OnlyTheAddressee ExpiryCostsOneMessage Accounted
CHECK_DEADLOCK FALSE

SPECIFICATION Spec
CONSTANTS
  Roots <- MCRoots
  Specs <- MCSpecs
  MaxRestarts = 3
  Backoff = TRUE
  MaxEnds = 2
  MaxCalls = 1
  MaxFaults = 1
CHECK_DEADLOCK FALSE
INVARIANTS TypeOK NoOrphans NamesSound 
PROPERTY Supervised

SPECIFICATION FairSpec
CONSTANTS
  safe = safe
  unsafe = unsafe
  hidden = hidden
  unlisted = unlisted
  c1 = c1
  c2 = c2
  Tools <- MCTools
  Offered <- MCOffered
  InitialRegistry <- MCRegistry
  CallIds = {c1}
  Configs <- RunConfigs
  StepBound = 3
  MaxCalls = 2
  MaxRequested = 3
  MaxOverwrites = 0
  ConcurrentRegistration = FALSE
INVARIANTS TypeOK WithinLimits HistoryPaired EffectsReported ExecutionsFedBack 
PROPERTIES  ReturnsToCaller
CHECK_DEADLOCK FALSE

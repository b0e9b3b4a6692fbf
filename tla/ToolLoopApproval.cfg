SPECIFICATION Spec
CONSTANTS
  safe = safe
  unsafe = unsafe
  hidden = hidden
  unlisted = unlisted
  c1 = c1
  c2 = c2
  Tools <- ApprovalTools
  Offered <- MCOffered
  InitialRegistry <- ApprovalRegistry
  CallIds = {c1, c2}
  Configs <- ApprovalConfigs
  StepBound = 2
  MaxCalls = 2
  MaxRequested = 3
  MaxOverwrites = 1
  ConcurrentRegistration = TRUE
INVARIANTS Authorized WithinLimits RunsOnce ChargedOnce HistoryPaired EffectsReported
CHECK_DEADLOCK FALSE
SYMMETRY IdSymmetry

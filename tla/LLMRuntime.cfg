SPECIFICATION Spec
CONSTANTS
  Callers = {c1, c2}
  Contents = {"m"}
  Providers = {"p", "q"}
  Fallbacks <- MCFallbacks
  Streamers = {"q"}
  Priced = {"q"}
  MaxAttempts = 2
  RetryOn = {"timeout"}
  Limits <- MCLimits
  Strict = TRUE
  Usages <- MCUsages
  MaxRequests = 3
  MaxChunks = 1
INVARIANTS TypeOK LedgerExact  CacheSound OneVoice
 
CHECK_DEADLOCK FALSE

SPECIFICATION Spec
CONSTANTS
  p1 = p1
  p2 = p2
  t1 = t1
  t2 = t2
  t3 = t3
  Procs = {p1}
  Threads = {t1}
  Home <- CliHome
  Origin = p1
  MaxCps = 2
  MaxFiles = 2
  MaxRuns = 2
  MaxCrashes = 1
PROPERTY PreservedMeansPresent
CHECK_DEADLOCK FALSE

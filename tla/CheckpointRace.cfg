SPECIFICATION Spec
CONSTANTS
  p1 = p1
  p2 = p2
  t1 = t1
  t2 = t2
  t3 = t3
  Procs = {p1, p2}
  Threads = {t1, t2, t3}
  Home <- RaceHome
  Origin = p1
  MaxCps = 2
  MaxFiles = 2
  MaxRuns = 2
  MaxCrashes = 2
INVARIANTS TypeOK AtMostOnce PresentMeansUnspent SavedIsDurable
CHECK_DEADLOCK FALSE
SYMMETRY ThreadSymmetry
CONSTRAINT FewIrregularities

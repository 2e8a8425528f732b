SPECIFICATION Spec
CONSTANTS
  Threads = {t1, t2}
  Types = {"normal", "errorcheck", "recursive"}
  CountMax = 2
INVARIANTS TypeOK HolderKnown CountHeld
PROPERTIES RefusesOnlyOutsiders WakeReported TimedWaitReturns

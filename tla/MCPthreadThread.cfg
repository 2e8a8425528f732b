SPECIFICATION Spec
CONSTANTS
  Foreign = {m1, m2}
  Children = {c1, c2}
  MaxThreads = 3
INVARIANTS TypeOK NoUseAfterFree NothingLeaks TakenWhenDone OneIndex
SYMMETRY Symmetry
CHECK_DEADLOCK FALSE

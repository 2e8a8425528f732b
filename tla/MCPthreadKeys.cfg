SPECIFICATION Spec
CONSTANTS
  Threads = {t1, t2}
  Enders = {t1}
  KEYS = 2
  TlsIndices = 3
  MaxCreate = 3
  DESTRUCTOR_PASSES = 4
INVARIANTS TypeOK DestructorOwnValue NoneLeftBehind
PROPERTY LoopEnds

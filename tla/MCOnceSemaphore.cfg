SPECIFICATION Spec
CONSTANTS
  Threads = {t1, t2, t3}
  SEM_VALUE_MAX = 2
  MaxPosts = 2
INVARIANTS TypeOK InitOnce
PROPERTIES OnceReturns PostsReachWaiters
CHECK_DEADLOCK FALSE

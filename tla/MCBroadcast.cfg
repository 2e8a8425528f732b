SPECIFICATION Safety
CONSTANTS
  Threads = {t1, t2}
  Types = {"normal"}
  CountMax = 1
INVARIANT BroadcastWakesAll

SPECIFICATION Safety
CONSTANTS
  Results = {"ok", "err"}
  Stems = {s1, s2}
  SpawnMayFail = FALSE
  MaxUnits = 3
  Jobs = 1
INVARIANT ObjectOfLastSource

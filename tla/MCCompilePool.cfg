SPECIFICATION Spec
CONSTANTS
  Results = {"ok", "err", "panic"}
  Stems = {s1}
  SpawnMayFail = TRUE
  MaxUnits = 3
  Jobs = 2
INVARIANTS TypeOK HandedOutOnce NoneOnlyPastFailure ObjectsOfReplayed
PROPERTIES KeepsPromise BuildEnds

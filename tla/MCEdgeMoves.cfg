SPECIFICATION Spec
CONSTANTS
  IntRegs = {"r1", "r2"}
  FpRegs = {"v1", "v2"}
  Slots = {0, 1}
  MaxParam = 3
  MaxInt = 1
  MaxFp = 3
  MaxConst = 1
  MCWidths = {32, 64}
  MCWide = {TRUE, FALSE}
  Inputs <- SoundInputs
INVARIANTS TypeOK CopyMeaning OnlyCyclesRemain
PROPERTY Terminates

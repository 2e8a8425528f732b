SPECIFICATION Spec
CONSTANTS
  IntRegs = {"r1"}
  FpRegs = {"v1"}
  Slots = {0, 1}
  MaxParam = 0
  MaxInt = 1
  MaxFp = 1
  MaxConst = 0
  MCWidths = {64}
  MCWide = {FALSE}
  Inputs <- EdgeInputs
INVARIANT CopyMeaning

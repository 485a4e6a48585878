CONSTANTS
  Keys = {k1}
  Vals = {v1}
  NoKey = NoKey
  NoVal = NoVal
  PutOps = {"kPut"}
  MaxCells = 13
  WriteMayFail = TRUE
  MaxDamage = 0
  DamageKinds = {}
SPECIFICATION Spec
INVARIANT AppendReturnsFrameOffset

CONSTANTS
  Keys = {k1}
  Vals = {v1}
  NoKey = NoKey
  NoVal = NoVal
  PutOps = {"kPut"}
  MaxCells = 13
  WriteMayFail = FALSE
  MaxDamage = 1
  DamageKinds = {"F2"}
SPECIFICATION Spec
INVARIANT NoWholeFrameIsCut

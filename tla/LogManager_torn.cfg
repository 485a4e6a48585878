CONSTANTS
  Keys = {k1}
  Vals = {v1}
  NoKey = NoKey
  NoVal = NoVal
  PutOps = {"kPut"}
  MaxCells = 11
  WriteMayFail = FALSE
  MaxDamage = 0
  DamageKinds = {}
SPECIFICATION Spec
INVARIANTS
  TypeOK
  AppendReturnsFrameOffset
PROPERTY ImplementsFrameLog

CONSTANTS
  Keys = {k1}
  Vals = {v1}
  NoKey = NoKey
  NoVal = NoVal
  PutOps = {"kPut"}
  MaxCells = 9
  WriteMayFail = TRUE
  MaxDamage = 1
  DamageKinds = {"H1", "H2", "F1", "F2", "B"}
SPECIFICATION FairSpec
INVARIANT PayloadRotCutsNoFrame
PROPERTY RepairEnds

CONSTANTS
  Ids = {i1, i2}
  Fields = {f1}
  Values <- TwoValues
  MaxScalars = 1
  Dims = {1}
  Points = {x1}
  NoEntry = NoEntry
  NoOp = NoOp
  FsyncMayFail = FALSE
  MaxWrites = 3
SPECIFICATION Spec
SYMMETRY Symmetric
INVARIANTS
  TombstonesRevive

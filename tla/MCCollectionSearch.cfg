CONSTANTS
  Ids = {i1, i2}
  Fields = {f1}
  Values <- OneValue
  MaxScalars = 1
  Dims = {1}
  Points = {x1, x2}
  NoEntry = NoEntry
  NoOp = NoOp
  FsyncMayFail = TRUE
  MaxWrites = 3
  Filter <- AtLeastOne
  SearchK = 1
  EfSearch = 1
  Attempts = 2
SPECIFICATION SearchSpec
SYMMETRY Symmetric
INVARIANTS
  TypeOK
  InStep
  ToldIsServed
  ResultsPassFilter
  SettledNeverRejected

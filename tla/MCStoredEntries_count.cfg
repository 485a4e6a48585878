CONSTANTS
  Base = 3
  kMaxPayloadLen = 1
  Ids = {i1, i2}
  Fields <- SmallFields
  Values <- SmallValues
  MaxScalars = 2
  Dims = {0, 1}
  Numbers = {5}
  Payloads <- SmallPayloads
  ScalarSeqs <- TooLong
  NoMeta = NoMeta
  AddsTwice = FALSE
SPECIFICATION Spec
SYMMETRY Symmetric
INVARIANTS
  DecodeInvertsEncode

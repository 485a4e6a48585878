CONSTANTS
  M = 2
  EfConstruction = 5
  Ids = {i1, i2, i3, i4, i5}
  Vecs = {0, 1, 3}
  TopLevel = 1
  EfSearch = 5
  K = 2
  Searchers = {}
  Files = FALSE
  MaxSavedNodes = 2
  Updates = FALSE
  Removes = FALSE
SPECIFICATION Spec
SYMMETRY Symmetric
CHECK_DEADLOCK FALSE
INVARIANTS
  SearchIsExhaustive
  ListsSound

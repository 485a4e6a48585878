CONSTANTS
  M = 2
  EfConstruction = 5
  Ids = {i1, i2, i3}
  Vecs = {0, 1}
  TopLevel = 1
  EfSearch = 5
  K = 2
  Searchers = {s1}
  Files = TRUE
  MaxSavedNodes = 2
  Updates = TRUE
  Removes = TRUE
SPECIFICATION Spec
SYMMETRY Symmetric
INVARIANTS
  TypeOK
  EntryPointSound
  SizeCountsLive
  OnlyLiveFound
  ListsSound

------------------------- MODULE MCCollectionSearch -------------------------
EXTENDS CollectionSearch, TLC

\* One scalar value: an entry has it or has no scalars.
OneValue == [t : {"int"}, n : {1}]

\* x >= 1
AtLeastOne == [field : Fields, op : {"kGe"}, value : OneValue]

Symmetric == Permutations(Ids) \cup Permutations(Points)
=============================================================================

---------------------------- MODULE MCCollection ----------------------------
EXTENDS Collection, TLC

\* Two scalar values.
TwoValues == [t : {"int"}, n : {0, 1}]

Symmetric == Permutations(Ids) \cup Permutations(Points)
=============================================================================

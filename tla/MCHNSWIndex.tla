---------------------------- MODULE MCHNSWIndex ----------------------------
EXTENDS HNSWIndex, TLC

\* The ids are interchangeable, and so are the threads.
Symmetric == Permutations(Ids) \cup Permutations(Searchers)
=============================================================================

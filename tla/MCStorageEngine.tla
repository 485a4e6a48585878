-------------------------- MODULE MCStorageEngine --------------------------
(* Instances of StorageEngine for TLC. *)
EXTENDS StorageEngine, TLC

Symmetric == Permutations(Keys) \cup Permutations(Vals)
=============================================================================

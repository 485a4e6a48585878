CONSTANTS
  Keys = {k1, k2}
  Vals = {v1}
  NoKey = NoKey
  NoVal = NoVal
  PutOps = {"kPut"}
  MaxFile = 3
  SyncWrites = TRUE
  GroupCommit = FALSE
  SyncEveryN = 0
  FsyncMayFail = FALSE
  Times = {0}
  SeqMod = 1
  ManifestKeep = 1
SPECIFICATION DamagedSpec
INVARIANT RangeCheckSuffices

CONSTANTS
  Keys = {k1}
  Vals = {v1}
  NoKey = NoKey
  NoVal = NoVal
  PutOps = {"kPut"}
  MaxFile = 3
  SyncWrites = TRUE
  GroupCommit = TRUE
  SyncEveryN = 2
  FsyncMayFail = FALSE
  Times = {0}
  SeqMod = 1
  ManifestKeep = 1
SPECIFICATION Spec
INVARIANTS
  GroupCommitWindow

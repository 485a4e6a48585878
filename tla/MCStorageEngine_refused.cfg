CONSTANTS
  Keys = {k1}
  Vals = {v1}
  NoKey = NoKey
  NoVal = NoVal
  PutOps = {"kPut"}
  MaxFile = 2
  SyncWrites = TRUE
  GroupCommit = FALSE
  SyncEveryN = 0
  FsyncMayFail = FALSE
  Times = {0}
  SeqMod = 2
  ManifestKeep = 2
SPECIFICATION Spec
INVARIANT OpenNeverRefused

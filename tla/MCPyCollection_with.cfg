CONSTANTS
  Threads = {t1, t2}
  Addrs = {a1, a2}
  Null = Null
  i1 = i1
  i2 = i2
  Ids = {i1, i2}
  Payloads <- TextPayloads
  NoPayload = NoPayload
  TopK = 2
  StorageMayFail = TRUE
  Batches <- SmallBatches
  CloseRaces = FALSE
  MaxReopens = 1
SPECIFICATION Spec
SYMMETRY Symmetric
INVARIANTS
  OneHandle

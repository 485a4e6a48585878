SPECIFICATION Spec

CONSTANTS
  Threads = {t1, t2}
  Cpus <- SmallCpus
  Built = {"neon", "avx2", "avx512"}
  Pairs <- SmallPairs
  NullPtr = NullPtr
  Samples <- SmallSamples
  Vectors <- WithNegZero
  PqSubspaces = 2
  PqCentroids = 2
  PqIterations = 8
  ByteValues = 256
  ByteKernels <- Portable
  NegZero = NegZero

SYMMETRY Symmetric

INVARIANT
  QueriesAgreeWithCodes

SPECIFICATION Spec
CONSTANTS
  U64 = 64
  PebsCount = 3
  Threads <- MCThreads
  Times <- MCTimes
  NoTime = 9
  Headers <- MCHeaders
  MayFailAlloc = TRUE
INVARIANTS
  ZeroMeansNoErrors

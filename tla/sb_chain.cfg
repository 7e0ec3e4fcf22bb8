SPECIFICATION Spec
CONSTANT PebsCount = 4
INVARIANTS
  ChainEndFound
  OldestCandidateLast
PROPERTIES
  SearchEnds

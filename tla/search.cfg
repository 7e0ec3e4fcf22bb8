SPECIFICATION Spec
CONSTANTS
  U64 = 64
  Capacity = 3
  Volumes <- MCVolumes
  SegTypes = {"sb", "maptbl"}
  Times <- MCTimes
  Headers <- MCHeaders
  NoTime = 9
  MapCapacityMin = 1
  MayFailAlloc = TRUE
INVARIANTS
  TypeOK
  JoinedBeforeFree
  PointsSorted
  SearchComplete
PROPERTIES
  KeepsFound
  ImplementsSearch
  FittingSearchTerminates

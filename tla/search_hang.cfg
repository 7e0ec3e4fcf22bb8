SPECIFICATION Spec
CONSTANTS
  U64 = 64
  Capacity = 4
  Volumes <- MCFiveEmpty
  SegTypes = {"sb", "maptbl"}
  Times <- MCTimes
  Headers <- MCNoHeaders
  NoTime = 9
  MapCapacityMin = 1
  MayFailAlloc = FALSE
PROPERTIES
  SearchTerminates

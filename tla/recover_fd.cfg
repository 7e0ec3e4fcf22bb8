SPECIFICATION Spec
CONSTANTS
  U64 = 64
  PageBytes = 2
  LogsCount = 2
  ChainMax = 1
  HdrBytes = 1
  FragsPerBlock = 2
  Capacity = 2
  PebsCount = 2
  Volumes <- MCStaleVolumes
  Times <- MCTimes
  Inos <- MCInos
  Offs <- MCOffs
  Vers <- MCVers
  None = "none"
  Empty = "empty"
  FirstFd = 5
  MaxFd = 10
  Faults <- MCNoFaults
  MaxFaults = 0
  AnyTime = 99999
  Asked <- MCNoRange
  Now <- MCNow
  Cal <- MCCal
  Before <- MCBefore
  InodesIno = 9
  NodeOf <- MCNodeOf
  NoNode = NoNode
INVARIANT
  ReadableRecovered

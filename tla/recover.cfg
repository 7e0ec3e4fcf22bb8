SPECIFICATION Spec
CONSTANTS
  U64 = 64
  PageBytes = 2
  LogsCount = 2
  ChainMax = 1
  HdrBytes = 1
  FragsPerBlock = 2
  Capacity = 2
  PebsCount = 2
  Volumes <- MCVolumes
  Times <- MCTimes
  Inos <- MCInos
  Offs <- MCOffs
  Vers <- MCVers
  None = "none"
  Empty = "empty"
  FirstFd = 5
  MaxFd = 10
  Faults <- MCFaults
  MaxFaults = 2
  AnyTime = 99999
  Asked <- MCAsked
  Now <- MCNow
  Cal <- MCCal
  Before <- MCBefore
  InodesIno = 9
  NodeOf <- MCNodeOf
  NoNode = NoNode
INVARIANTS
  TypeOK
  NewestRecovered
  NothingInvented
  PoolFreedJoined
  FoldersDeleted
PROPERTIES
  RecoverTerminates

SPECIFICATION Spec
CONSTANTS
  U64 = 64
  PageSize = 3
  PebPages = 2
  PebsCount = 4
  Layouts <- MCLayouts
  Kinds = {"blk", "zns", "mtd"}
  Threads = {1, 3}
  MayFail = TRUE
INVARIANTS
  TypeOK
  LayoutOnDevice
  OldContentGone
  CheckedLayoutIsWritten
PROPERTIES
  WrittenStays
  WriteEnds

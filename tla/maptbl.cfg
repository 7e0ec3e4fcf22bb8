SPECIFICATION Spec
CONSTANTS
  PebDesc = 20
  LebDesc = 41
  ErasePages = 9
  SbCopies = 1
  Layouts <- MCLayouts
  U16Limit = 101
  U32Limit = 1000
  U64Max = 1000000
INVARIANTS
  TypeOK
  TablesTile
  MappingResolves
  CacheRight
  PreErasedBehind
  SuperblockResolves
  AssertionsFailOnlyIf

SPECIFICATION Spec
CONSTANTS
  Pages = 4
  Behind = 1
  LogPages <- MCLogPages
  MaxLen = 2
INVARIANTS
  LastFullLogFound
  StaysInPeb
PROPERTIES
  SearchEnds
